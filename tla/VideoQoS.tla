------------------------------- MODULE VideoQoS -------------------------------
(***************************************************************************)
(* The frame rate that all viewers of this computer share: VIDEO_QOS       *)
(* (src/server/video_qos.rs), with the TestDelay exchange of each          *)
(* connection that feeds it (src/server/connection.rs) and the capture     *)
(* loop that applies it once a second (check_qos of                        *)
(* src/server/video_service.rs).                                           *)
(*                                                                         *)
(* A viewer's share is computed from the common rate and the common rate   *)
(* from the viewers' shares.  VIDEO_QOS is behind one lock: an action is   *)
(* one call.  The bit rate (`ratio') is left out; the image quality is     *)
(* here for the rates it stands for.                                       *)
(***************************************************************************)
EXTENDS Naturals, Sequences, FiniteSetsExt

CONSTANTS
    Viewers,         \* connections that watch the screen or a camera
    None,
    Delays,          \* of each viewer: the round trips of a TestDelay, in ms
    Limits,          \* values of the option custom_fps
    AutoLimits,      \* values of AutoAdjustFps
    Qualities,       \* "best", "balanced", "low"
    FPS,             \* 30 in the source
    INIT_FPS,        \* 15
    MinFps,          \* the least rate for a quality: 8, 10 and 12
    MIN_SAMPLES,     \* 10
    WINDOW_SAMPLES,  \* 60
    MaxOptions       \* bound: changes of options

MIN_FPS == 1
MAX_FPS == 120
HISTORY_DELAY_LEN == 2
DELAY_THRESHOLD_150MS == 150

ASSUME VideoQoSAssumption ==
    /\ Delays \in [Viewers -> SUBSET Nat]
    /\ Limits \cup AutoLimits \subseteq MIN_FPS..MAX_FPS
    /\ Qualities \subseteq {"best", "balanced", "low"}
    /\ FPS \in MIN_FPS..MAX_FPS /\ INIT_FPS \in 1..FPS
    /\ MinFps \in [{"best", "balanced", "low"} -> 1..FPS]
    /\ MIN_SAMPLES \in Nat \ {0} /\ WINDOW_SAMPLES \in Nat \ {0}
    /\ MaxOptions \in Nat
    /\ None \notin Nat /\ None \notin [time : Nat, kind : Qualities]

VARIABLES
    fps,         \* the common rate
    users,
    data,        \* UserData and UserDelay of each viewer
    fresh,       \* the last viewer has come less than 1 s ago
    test,        \* last_test_delay: "none", "sent", or "late" (for 2 s)
    options      \* changes of options so far

qosVars == <<fps, users, data, fresh, test, options>>

\* UserData::default().
Fresh == [history |-> << >>, samples |-> << >>, min_rtt |-> None, srtt |-> None,
          fps |-> None, quick |-> 0, increase |-> 0, delayed |-> FALSE,
          custom |-> None, auto |-> None, quality |-> None]

Samples == {10} \cup UNION {Delays[u] : u \in Viewers}

UserData ==
    [history : Seq(Samples), samples : Seq(Samples),
     min_rtt : Nat \cup {None}, srtt : Nat \cup {None},
     fps : (MIN_FPS..MAX_FPS) \cup {None}, quick : 0..2, increase : 0..2,
     delayed : BOOLEAN, custom : Limits \cup {None}, auto : AutoLimits \cup {None},
     quality : [time : 0..MaxOptions, kind : Qualities] \cup {None}]

QoSTypeOK ==
    /\ fps \in MIN_FPS..MAX_FPS /\ users \subseteq Viewers
    /\ data \in [Viewers -> UserData]
    /\ \A u \in Viewers :
          /\ Len(data[u].history) <= HISTORY_DELAY_LEN + 1
          /\ Len(data[u].samples) <= WINDOW_SAMPLES
          /\ data[u].samples # << >> => data[u].min_rtt # None
    /\ fresh \in BOOLEAN /\ options \in 0..MaxOptions
    /\ test \in [Viewers -> {"none", "sent", "late"}]

QoSInit ==
    /\ fps = FPS /\ users = {} /\ data = [u \in Viewers |-> Fresh]
    /\ fresh = FALSE
    /\ test = [u \in Viewers |-> "none"] /\ options = 0

-----------------------------------------------------------------------------
(* Delays. *)

\* RttCalculator::update.
update(d, delay) ==
    LET rtt == IF d.min_rtt = None THEN delay ELSE Min({d.min_rtt, delay})
        full == Len(d.samples) >= WINDOW_SAMPLES
        samples == Append(IF full THEN Tail(d.samples) ELSE d.samples, delay)
    IN  [d EXCEPT
            !.min_rtt = rtt, !.samples = samples,
            !.srtt = IF Len(samples) >= WINDOW_SAMPLES
                     THEN (rtt + Min(Range(samples))) \div 2 ELSE @]

add_delay(d, delay) ==
    LET long == Len(d.history) > HISTORY_DELAY_LEN
    IN  [update(d, delay) EXCEPT
            !.history = Append(IF long THEN Tail(@) ELSE @, delay)]

get_rtt(d) ==
    IF d.srtt # None THEN d.srtt
    ELSE IF Len(d.samples) >= MIN_SAMPLES THEN d.min_rtt ELSE 0

\* The average delay minus the round trip, if it is more than that.
avg_delay(d) ==
    LET sum[i \in 0..Len(d.history)] ==
            IF i = 0 THEN 0 ELSE sum[i - 1] + d.history[i]
        avg == sum[Len(d.history)] \div Len(d.history)
    IN  IF d.history = << >> THEN DELAY_THRESHOLD_150MS
        ELSE IF avg > get_rtt(d) THEN avg - get_rtt(d) ELSE avg

-----------------------------------------------------------------------------
(* Rates. *)

\* What a viewer allows.
user_fps(d) ==
    LET fps_ == IF d.custom = None THEN FPS ELSE d.custom
    IN  IF d.auto # None /\ d.auto < fps_ THEN d.auto ELSE fps_

\* Mutant: the least strict limit.
highest_fps_Max ==
    IF users = {} THEN FPS ELSE Max({user_fps(data[u]) : u \in users})

highest_fps ==
    IF users = {} THEN FPS ELSE Min({user_fps(data[u]) : u \in users})

Share(d) == IF d.fps = None THEN INIT_FPS ELSE d.fps

\* Mutant: the viewers' answers are not looked at.
adjust_fps_NoLate(dt) ==
    \E caps \in {{Share(dt[u]) : u \in users} \cup {highest_fps}
                 \cup (IF fresh \/ users = {} THEN {INIT_FPS} ELSE {})} :
        fps' = Min(caps)

\* The smallest share, but no more than INIT_FPS to begin with, 2 if a viewer's
\* answer is overdue, and what the viewers allow.
adjust_fps(dt) ==
    \E caps \in {{Share(dt[u]) : u \in users} \cup {highest_fps}
                 \cup (IF fresh \/ users = {} THEN {INIT_FPS} ELSE {})
                 \cup (IF \E u \in users : dt[u].delayed THEN {MIN_FPS + 1}
                       ELSE {})} :
        fps' = Min(caps)

\* The quality that a viewer has chosen last, of those who are there.
latest_quality ==
    LET all == {data[u].quality : u \in users} \ {None}
        last == CHOOSE q \in all : \A p \in all : p.time <= q.time
    IN  IF all = {} THEN "balanced" ELSE last.kind

min_fps == MinFps[latest_quality]

normal_fps == 2 * min_fps

\* What is found for a viewer whose average delay was `old' and is `avg'.
Estimate(d, old, avg) ==
    LET below == IF fps < normal_fps THEN 1 ELSE 0
        step == CASE avg < 50 /\ d.quick = 2 -> 5
                  [] avg < 50 /\ d.quick # 2 -> below
                  [] avg \in 50..99 /\ avg < old -> below
                  [] OTHER -> 0
        dividend == DELAY_THRESHOLD_150MS * min_fps
        devide == (fps * DELAY_THRESHOLD_150MS + avg - 1) \div avg
        bonus == IF avg < DELAY_THRESHOLD_150MS /\ d.increase = 2 THEN 1 ELSE 0
    IN  bonus + CASE avg < 150 -> Max({min_fps, fps + step})
                  [] avg \in 150..199 -> Max({min_fps, devide})
                  [] avg \in 200..299 -> Min({min_fps, devide})
                  [] avg \in 300..599 -> dividend \div avg
                  [] OTHER -> Min({dividend \div avg, devide})

-----------------------------------------------------------------------------
(* Connections. *)

on_connection_open(u) ==
    /\ u \notin users
    /\ users' = users \cup {u} /\ data' = [data EXCEPT ![u] = Fresh]
    /\ fresh' = TRUE /\ test' = [test EXCEPT ![u] = "none"]
    /\ UNCHANGED <<fps, options>>

on_connection_close(u) ==
    /\ u \in users
    /\ users' = users \ {u} /\ data' = [data EXCEPT ![u] = Fresh]
    /\ fps' = IF users' = {} THEN FPS ELSE fps
    /\ fresh' = (fresh \/ users' = {})
    /\ test' = [test EXCEPT ![u] = "none"]
    /\ UNCHANGED options

\* user_custom_fps, user_auto_adjust_fps.
LimitFps(u) ==
    /\ u \in users /\ options < MaxOptions /\ options' = options + 1
    /\ \/ \E f \in Limits : data' = [data EXCEPT ![u].custom = f]
       \/ \E f \in AutoLimits : data' = [data EXCEPT ![u].auto = f]
    /\ UNCHANGED <<fps, users, fresh, test>>

user_image_quality(u, q) ==
    /\ u \in users /\ options < MaxOptions /\ options' = options + 1
    /\ data' = [data EXCEPT ![u].quality = [time |-> options', kind |-> q]]
    /\ UNCHANGED <<fps, users, fresh, test>>

\* The answer to a TestDelay: user_network_delay.
user_network_delay(u, delay) ==
    /\ u \in users
    /\ test[u] # "none" /\ (test[u] = "late" => delay > 2000)
    /\ test' = [test EXCEPT ![u] = "none"]
    /\ \E added \in {add_delay(data[u], Max({delay, 10}))} :
       \E avg \in {Max({avg_delay(added), 10})} :
       \E share \in {Estimate(data[u], avg_delay(data[u]), avg)} :
          data' = [data EXCEPT ![u] =
             [added EXCEPT
                !.fps = Max({MIN_FPS, Min({share, highest_fps})}),
                !.quick = IF avg < 50 THEN (@ + 1) % 3
                          ELSE IF avg = 50 THEN @ ELSE 0,
                !.increase = IF avg < DELAY_THRESHOLD_150MS THEN (@ + 1) % 3
                             ELSE 0]]
    /\ adjust_fps(data')
    /\ UNCHANGED <<users, fresh, options>>

\* Mutant: a viewer that was late once stays so.
TestDelayTimer_Sticky(u) ==
    /\ u \in users
    /\ \/ /\ test[u] \in {"none", "sent"} /\ test' = [test EXCEPT ![u] = "sent"]
          /\ UNCHANGED <<fps, data>>
       \/ /\ test[u] \in {"sent", "late"} /\ test' = [test EXCEPT ![u] = "late"]
          /\ \E elapsed \in {d \in Delays[u] : d > 2000} :
                data' = [data EXCEPT ![u] = [add_delay(@, elapsed)
                                               EXCEPT !.delayed = TRUE]]
          /\ adjust_fps(data')
    /\ UNCHANGED <<users, fresh, options>>

\* test_delay_timer: a TestDelay is sent unless one is under way; then
\* user_delay_response_elapsed.
TestDelayTimer(u) ==
    /\ u \in users
    /\ \/ /\ test[u] \in {"none", "sent"} /\ test' = [test EXCEPT ![u] = "sent"]
          /\ data' = [data EXCEPT ![u].delayed = FALSE]
          /\ UNCHANGED fps
       \/ /\ test[u] \in {"sent", "late"} /\ test' = [test EXCEPT ![u] = "late"]
          /\ \E elapsed \in {d \in Delays[u] : d > 2000} :
                data' = [data EXCEPT ![u] = [add_delay(@, elapsed)
                                               EXCEPT !.delayed = TRUE]]
          /\ adjust_fps(data')
    /\ UNCHANGED <<users, fresh, options>>

-----------------------------------------------------------------------------
(* The capture loop, and time. *)

update_display_data ==
    /\ adjust_fps(data)
    /\ UNCHANGED <<users, data, fresh, test, options>>

SecondPasses ==
    /\ fresh /\ fresh' = FALSE
    /\ UNCHANGED <<fps, users, data, test, options>>

Reply(u) == \E d \in Delays[u] : user_network_delay(u, d)

Option(u) == LimitFps(u) \/ \E q \in Qualities : user_image_quality(u, q)

QoSNext ==
    \/ update_display_data \/ SecondPasses
    \/ \E u \in Viewers :
          \/ on_connection_open(u) \/ on_connection_close(u) \/ Option(u)
          \/ Reply(u) \/ TestDelayTimer(u)

QoSSpec == QoSInit /\ [][QoSNext]_qosVars

\* The loop, the timers and the clock go on, and a viewer that stays answers.
QoSFairSpec ==
    /\ QoSSpec /\ WF_qosVars(update_display_data) /\ WF_qosVars(SecondPasses)
    /\ \A u \in Viewers : WF_qosVars(Reply(u)) /\ WF_qosVars(TestDelayTimer(u))

-----------------------------------------------------------------------------
(* Properties. *)

\* No viewer is sent more frames than its network was last found to stand, and
\* none that owes an answer for 2 s more than 2 a second, whatever others do.
ViewersSpared ==
    \A u \in users : /\ data[u].fps # None => fps <= data[u].fps
                     /\ data[u].delayed => fps <= MIN_FPS + 1

\* Every rate is between MIN_FPS and MAX_FPS, and the common one spares everyone.
QoSInv == QoSTypeOK /\ ViewersSpared

\* The limit of each viewer is observed in the end, although setting it does not
\* change the rate and the others go on to have theirs.
LimitObserved ==
    \A u \in Viewers :
        u \in users /\ fps > user_fps(data[u])
            ~> u \notin users \/ fps <= user_fps(data[u])

\* The networks of all viewers are good.
Calm == users # {} /\ \A u \in users : /\ data[u].history # << >>
                                       /\ Max(Range(data[u].history)) < 50

\* When all networks have become good and stay so, the rate gets back to the
\* normal one for the quality (if it is not limited), whatever it has fallen to
\* and whoever has left: shares and common rate do not hold each other down.
Recovers ==
    <>[]Calm => <>[](fps >= Min({normal_fps, highest_fps}))

=============================================================================
