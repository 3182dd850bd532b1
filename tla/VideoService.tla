---------------------------- MODULE VideoService ----------------------------
(***************************************************************************)
(* The capture loop of src/server/video_service.rs: one thread per display *)
(* or camera, each with its own encoder, and the flow control between the  *)
(* threads and the connections.                                            *)
(*                                                                         *)
(* A frame can only be decoded by who has seen the encoder's first frame   *)
(* (the key frame), so a new subscriber makes the loop bail out with       *)
(* "SWITCH": ServiceTmpl::run calls it again with a new encoder.  After a  *)
(* frame was sent, the thread waits until the connections have fetched it. *)
(* All threads share one channel of notifications, FRAME_FETCHED_NOTIFIER. *)
(*                                                                         *)
(* Subscriptions are taken from module Service in their abstract form: one *)
(* step per request.                                                       *)
(***************************************************************************)
EXTENDS Naturals, FiniteSets

CONSTANTS
    Displays,     \* video services, one thread each
    Conns,
    AckConns,     \* connections with video_ack_required
    MaxLag,       \* bound: a count of waiting messages, from there on "many"
    MaxNotified   \* bound: the same for notifications

ASSUME VideoAssumption ==
    /\ IsFiniteSet(Conns) /\ AckConns \subseteq Conns
    /\ MaxLag \in Nat \ {0}
    /\ MaxNotified \in Nat \ {0}

VARIABLES
    subscribes, new_subscribes, \* of the display's service
    refresh,        \* its option OPTION_REFRESH
    pc,             \* where the display's thread is
    frames,         \* frames its encoder has produced: 0, 1 (key), 2 (more)
    send_conn_ids,  \* VideoFrameController::send_conn_ids
    fetched_conn_ids,
    notified,       \* FRAME_FETCHED_NOTIFIER: notifications of a connection
    lag,            \* frames of display d that wait in c's video channel
    other,          \* SwitchDisplay messages in c's video channel
    open,           \* connections: "open", "closing", "removed"
    first,          \* what c received first since it subscribed to d
    company,        \* those promoted while d had other subscribers
    asked           \* those who asked for a refresh and got no key frame yet

threadVars == <<pc, frames, send_conn_ids, fetched_conn_ids>>
subVars == <<subscribes, new_subscribes, company, first, asked>>
vars == <<subscribes, new_subscribes, refresh, pc, frames, send_conn_ids,
          fetched_conn_ids, notified, lag, other, open, first,
          company, asked>>

Pcs == {"off", "created", "head", "capture", "snapshot", "drop_switch",
        "drop_ok", "encode", "wait"}

TypeOK ==
    /\ subscribes \in [Displays -> SUBSET Conns]
    /\ new_subscribes \in [Displays -> SUBSET Conns]
    /\ refresh \in [Displays -> BOOLEAN]
    /\ pc \in [Displays -> Pcs]
    /\ frames \in [Displays -> 0 .. 2]
    /\ send_conn_ids \in [Displays -> SUBSET Conns]
    /\ fetched_conn_ids \in [Displays -> SUBSET Conns]
    /\ notified \in [Conns -> 0 .. MaxNotified]
    /\ lag \in [Displays -> [Conns -> 0 .. MaxLag]]
    /\ other \in [Conns -> 0 .. MaxLag]
    /\ open \in [Conns -> {"open", "closing", "removed"}]
    /\ first \in [Displays -> [Conns -> {"none", "key", "middle"}]]
    /\ company \in [Displays -> SUBSET Conns]
    /\ asked \in [Displays -> SUBSET Conns]

Init ==
    /\ subscribes = [d \in Displays |-> {}]
    /\ new_subscribes = [d \in Displays |-> {}]
    /\ refresh = [d \in Displays |-> FALSE]
    /\ pc = [d \in Displays |-> "off"]
    /\ frames = [d \in Displays |-> 0]
    /\ send_conn_ids = [d \in Displays |-> {}]
    /\ fetched_conn_ids = [d \in Displays |-> {}]
    /\ notified = [c \in Conns |-> 0]
    /\ lag = [d \in Displays |-> [c \in Conns |-> 0]]
    /\ other = [c \in Conns |-> 0]
    /\ open = [c \in Conns |-> "open"]
    /\ first = [d \in Displays |-> [c \in Conns |-> "none"]]
    /\ company = [d \in Displays |-> {}]
    /\ asked = [d \in Displays |-> {}]

\* The channels are unbounded.  The count `bound' stands for itself and all
\* larger ones: More stays there, and one of the values of Fewer does.
More(n, bound) == IF n = bound THEN n ELSE n + 1
Fewer(n, bound) == {n - 1} \cup (IF n = bound THEN {n} ELSE {})

notify_video_frame_fetched(c) ==
    notified' = [notified EXCEPT ![c] = More(@, MaxNotified)]

-----------------------------------------------------------------------------
(* The connections. *)

on_subscribe(d, c) ==
    /\ open[c] = "open"
    /\ c \notin subscribes[d] \cup new_subscribes[d]
    /\ new_subscribes' = [new_subscribes EXCEPT ![d] = @ \cup {c}]
    /\ first' = [first EXCEPT ![d][c] = "none"]
    /\ UNCHANGED <<subscribes, company, asked, refresh, threadVars, notified,
                   lag, other, open>>

\* c leaves the services of the displays D.
Leave(c, D) ==
    /\ subscribes' = [d \in Displays |->
            IF d \in D THEN subscribes[d] \ {c} ELSE subscribes[d]]
    /\ new_subscribes' = [d \in Displays |->
            IF d \in D THEN new_subscribes[d] \ {c} ELSE new_subscribes[d]]
    /\ company' = [d \in Displays |->
            IF d \in D THEN company[d] \ {c} ELSE company[d]]
    /\ asked' = [d \in Displays |->
            IF d \in D THEN asked[d] \ {c} ELSE asked[d]]
    /\ UNCHANGED first

on_unsubscribe(d, c) ==
    /\ open[c] = "open"
    /\ c \in subscribes[d] \cup new_subscribes[d]
    /\ Leave(c, {d})
    /\ UNCHANGED <<refresh, threadVars, notified, lag, other, open>>

\* The connection's loop takes a message from its video channel and notifies,
\* before it sends it.  A SwitchDisplay message travels on the same channel and
\* is notified just the same.
Fetch(d, c) ==
    /\ open[c] = "open" /\ lag[d][c] > 0
    /\ \E n \in Fewer(lag[d][c], MaxLag) : lag' = [lag EXCEPT ![d][c] = n]
    /\ IF c \in AckConns THEN UNCHANGED notified
       ELSE notify_video_frame_fetched(c)
    /\ UNCHANGED <<subVars, refresh, threadVars, other, open>>

FetchOther(c) ==
    /\ open[c] = "open" /\ other[c] > 0
    /\ \E n \in Fewer(other[c], MaxLag) : other' = [other EXCEPT ![c] = n]
    /\ IF c \in AckConns THEN UNCHANGED notified
       ELSE notify_video_frame_fetched(c)
    /\ UNCHANGED <<subVars, refresh, threadVars, lag, open>>

\* The client's own acknowledgement, a message that may come at any time.
VideoReceived(c) ==
    /\ open[c] = "open" /\ c \in AckConns
    /\ notify_video_frame_fetched(c)
    /\ UNCHANGED <<subVars, refresh, threadVars, lag, other, open>>

\* The client could not decode a frame, or its user asks for a new picture.
refresh_video_display(d, c) ==
    /\ open[c] = "open" /\ c \in subscribes[d]
    /\ refresh' = [refresh EXCEPT ![d] = TRUE]
    /\ asked' = [asked EXCEPT ![d] = @ \cup {c}]
    /\ UNCHANGED <<subscribes, new_subscribes, company, first, threadVars,
                   notified, lag, other, open>>

\* The end of Connection::start: notify the waiting threads, then leave.
Close(c) ==
    /\ open[c] = "open"
    /\ open' = [open EXCEPT ![c] = "closing"]
    /\ notify_video_frame_fetched(c)
    /\ UNCHANGED <<subVars, refresh, threadVars, lag, other>>

Remove(c) ==
    /\ open[c] = "closing"
    /\ open' = [open EXCEPT ![c] = "removed"]
    /\ Leave(c, Displays)
    /\ lag' = [d \in Displays |-> [lag[d] EXCEPT ![c] = 0]]
    /\ other' = [other EXCEPT ![c] = 0]
    /\ UNCHANGED <<refresh, threadVars, notified>>

-----------------------------------------------------------------------------
(* The thread of a display. *)

Goto(d, next) == pc' = [pc EXCEPT ![d] = next]

has_subscribes(d) == subscribes[d] # {} \/ new_subscribes[d] # {}

\* ServiceTmpl::run calls `run', which creates capturer and encoder.
CreateEncoder(d) ==
    /\ pc[d] = "off" /\ has_subscribes(d)
    /\ frames' = [frames EXCEPT ![d] = 0]
    /\ Goto(d, "created")
    /\ UNCHANGED <<subVars, refresh, send_conn_ids, fetched_conn_ids,
                   notified, lag, other, open>>

\* Mutant: the option is cleared where the loop is left, after a further
\* refresh may have been asked for and before the new encoder exists.
LoopHead_ClearEarly(d) ==
    /\ pc[d] = "head"
    /\ Goto(d, IF has_subscribes(d) THEN "capture" ELSE "off")
    /\ refresh' = [refresh EXCEPT ![d] = FALSE]
    /\ send_conn_ids' = [send_conn_ids EXCEPT ![d] = {}]
    /\ UNCHANGED <<subVars, frames, fetched_conn_ids, notified, lag, other,
                   open>>

\* The encoder is new, so every refresh asked for until now is served by it.
ClearRefresh(d) ==
    /\ pc[d] = "created"
    /\ refresh' = [refresh EXCEPT ![d] = FALSE]
    /\ Goto(d, "head")
    /\ UNCHANGED <<subVars, frames, send_conn_ids, fetched_conn_ids,
                   notified, lag, other, open>>

\* The head of the loop: leave without subscribers or to refresh; otherwise
\* frame_controller.reset() and go on to capture.
LoopHead(d) ==
    /\ pc[d] = "head"
    /\ Goto(d, IF has_subscribes(d) /\ ~refresh[d] THEN "capture" ELSE "off")
    /\ send_conn_ids' = [send_conn_ids EXCEPT ![d] = {}]
    /\ UNCHANGED <<subVars, refresh, frames, fetched_conn_ids,
                   notified, lag, other, open>>

Promote(d) ==
    /\ subscribes' = [subscribes EXCEPT ![d] = @ \cup new_subscribes[d]]
    /\ company' = IF subscribes[d] = {} THEN company
                  ELSE [company EXCEPT ![d] = @ \cup new_subscribes[d]]
    /\ new_subscribes' = [new_subscribes EXCEPT ![d] = {}]

\* try_broadcast_display_changed: the new geometry goes to the subscribers and
\* to the new ones (but for those who come between the
\* snapshot and its drop), who are promoted, and the loop is left.
DisplayChanged(d) == \E late \in SUBSET new_subscribes[d] :
    LET receivers == (subscribes[d] \cup new_subscribes[d]) \ late IN
    /\ pc[d] \in {"head", "capture", "wait"}
    /\ other' = [c \in Conns |-> IF c \in receivers THEN More(other[c], MaxLag)
                                 ELSE other[c]]
    /\ Promote(d)
    /\ Goto(d, "off")
    /\ UNCHANGED <<first, asked, refresh, frames, send_conn_ids,
                   fetched_conn_ids, notified, lag, open>>

\* The codec or the privacy mode changed, or the capturer failed; the privacy
\* mode is also looked at while the thread waits.
Switch(d) ==
    /\ pc[d] \in {"head", "capture", "wait"}
    /\ Goto(d, "off")
    /\ UNCHANGED <<subVars, refresh, frames, send_conn_ids, fetched_conn_ids,
                   notified, lag, other, open>>

\* c.frame returned WouldBlock: nothing is sent, nothing to wait for.
NoFrame(d) ==
    /\ pc[d] = "capture"
    /\ Goto(d, "head")
    /\ UNCHANGED <<subVars, refresh, frames, send_conn_ids, fetched_conn_ids,
                   notified, lag, other, open>>

\* handle_one_frame begins with sp.snapshot.
Capture(d) ==
    /\ pc[d] = "capture"
    /\ Goto(d, IF new_subscribes[d] # {} THEN "snapshot" ELSE "encode")
    /\ UNCHANGED <<subVars, refresh, frames, send_conn_ids, fetched_conn_ids,
                   notified, lag, other, open>>

\* Mutant: the new subscriber joins the running encoder.
SnapshotCallback_NoSwitch(d) ==
    /\ pc[d] = "snapshot"
    /\ Goto(d, "drop_ok")
    /\ UNCHANGED <<subVars, refresh, frames, send_conn_ids, fetched_conn_ids,
                   notified, lag, other, open>>

\* "so that new sub and old sub share the same encoder after switch"
SnapshotCallback(d) ==
    /\ pc[d] = "snapshot"
    /\ Goto(d, IF subscribes[d] # {} THEN "drop_switch" ELSE "drop_ok")
    /\ UNCHANGED <<subVars, refresh, frames, send_conn_ids, fetched_conn_ids,
                   notified, lag, other, open>>

\* The ServiceSwap is dropped, whether the callback bailed out or not.
SnapshotDrop(d) ==
    /\ pc[d] \in {"drop_switch", "drop_ok"}
    /\ Promote(d)
    /\ Goto(d, IF pc[d] = "drop_ok" THEN "encode" ELSE "off")
    /\ UNCHANGED <<first, asked, refresh, frames, send_conn_ids,
                   fetched_conn_ids, notified, lag, other, open>>

\* The frame is encoded and put on the video channel of every subscriber.
Encode(d) ==
    LET key == frames[d] = 0 IN
    /\ pc[d] = "encode"
    /\ frames' = [frames EXCEPT ![d] = IF key THEN 1 ELSE 2]
    /\ lag' = [lag EXCEPT ![d] = [c \in Conns |->
                    IF c \in subscribes[d] THEN More(@[c], MaxLag) ELSE @[c]]]
    /\ first' = [first EXCEPT ![d] = [c \in Conns |->
                    IF c \in subscribes[d] /\ (key \/ @[c] = "none")
                    THEN (IF key THEN "key" ELSE "middle") ELSE @[c]]]
    /\ asked' = IF key THEN [asked EXCEPT ![d] = @ \ subscribes[d]] ELSE asked
    /\ send_conn_ids' = [send_conn_ids EXCEPT ![d] = subscribes[d]]
    /\ fetched_conn_ids' = [fetched_conn_ids EXCEPT ![d] = {}]
    /\ Goto(d, IF subscribes[d] = {} THEN "head" ELSE "wait")
    /\ UNCHANGED <<subscribes, new_subscribes, company, refresh, notified,
                   other, open>>

\* encode_to_message failed: try the next frame, or give the encoder up.
EncodeError(d) ==
    /\ pc[d] = "encode"
    /\ \E next \in {"head", "off"} : Goto(d, next)
    /\ UNCHANGED <<subVars, refresh, frames, send_conn_ids, fetched_conn_ids,
                   notified, lag, other, open>>

\* try_wait_next takes whatever notification comes, of any display and of any
\* frame; the wait ends when the number of connections is reached.
WaitNext(d, c) ==
    LET fetched == fetched_conn_ids[d] \cup {c} IN
    /\ pc[d] = "wait" /\ notified[c] > 0
    /\ \E n \in Fewer(notified[c], MaxNotified) :
          notified' = [notified EXCEPT ![c] = n]
    /\ fetched_conn_ids' = [fetched_conn_ids EXCEPT ![d] = fetched]
    /\ Goto(d, IF Cardinality(fetched) >= Cardinality(send_conn_ids[d])
               THEN "head" ELSE "wait")
    /\ UNCHANGED <<subVars, refresh, frames, send_conn_ids, lag,
                   other, open>>

\* The 3000 ms of the wait are over.
WaitOver(d) ==
    /\ pc[d] = "wait"
    /\ Goto(d, "head")
    /\ UNCHANGED <<subVars, refresh, frames, send_conn_ids, fetched_conn_ids,
                   notified, lag, other, open>>

Thread(d) ==
    \/ CreateEncoder(d) \/ ClearRefresh(d) \/ LoopHead(d) \/ Capture(d)
    \/ SnapshotCallback(d) \/ SnapshotDrop(d) \/ Encode(d)
    \/ (\E c \in Conns : WaitNext(d, c)) \/ WaitOver(d)

Environment(d) ==
    DisplayChanged(d) \/ Switch(d) \/ NoFrame(d) \/ EncodeError(d)

Connection(c) ==
    \/ \E d \in Displays : \/ on_subscribe(d, c) \/ on_unsubscribe(d, c)
                           \/ Fetch(d, c) \/ refresh_video_display(d, c)
    \/ FetchOther(c) \/ VideoReceived(c) \/ Close(c) \/ Remove(c)

Next == \/ \E d \in Displays : Thread(d) \/ Environment(d)
        \/ \E c \in Conns : Connection(c)

Spec == Init /\ [][Next]_vars

\* The client answers frames it cannot decode with a refresh request.
ClientRecovers(d, c) == first[d][c] = "middle" /\ refresh_video_display(d, c)

\* The threads and the connections' loops run; changes of the display, the
\* codec or the privacy mode and failures of the capturer or the encoder do
\* not interrupt every single pass of the loop, and neither do refresh
\* requests (a client sends one for a frame it received, or for a user).
Fairness ==
    /\ \A d \in Displays :
          /\ WF_vars(Thread(d))
          /\ SF_vars(LoopHead(d) /\ pc'[d] = "capture")
          /\ SF_vars(Capture(d)) /\ SF_vars(Encode(d))
    /\ \A c \in Conns :
          /\ WF_vars(FetchOther(c)) /\ WF_vars(Remove(c))
          /\ \A d \in Displays : /\ WF_vars(Fetch(d, c))
                                 /\ WF_vars(ClientRecovers(d, c))

FairSpec == Spec /\ Fairness

-----------------------------------------------------------------------------
(* Properties. *)

\* Whoever joins a display that others watch begins with a key frame: the
\* snapshot's callback makes old and new subscribers change to a new encoder,
\* also when subscribers leave or further ones arrive while it runs.
SharedEncoder ==
    \A d \in Displays :
        \A c \in company[d] \cap subscribes[d] : first[d][c] # "middle"

\* Why this is so: who has joined others and got no frame yet waits for a new
\* encoder, and who joins no one is promoted only when all have left.
EncoderFollows ==
    \A d \in Displays :
        /\ company[d] \cup asked[d] \subseteq subscribes[d]
        /\ subscribes[d] \cap new_subscribes[d] = {}
        /\ \A c \in new_subscribes[d] : first[d][c] = "none"
        /\ \A c \in company[d] :
              first[d][c] = "none" => pc[d] = "off" \/ frames[d] = 0
        /\ pc[d] = "created" => frames[d] = 0
        /\ pc[d] = "drop_ok" => subscribes[d] = {}

\* No one joins a shared encoder in the middle, whatever the subscribers do
\* between two steps of the capture loop: the inductive invariant of the proofs.
EncoderInv == TypeOK /\ SharedEncoder /\ EncoderFollows

\* A refresh that was asked for and not yet answered by a key frame is still
\* to come: the option is set, or the encoder has not produced a frame yet.
\* Clearing the option at the start of `run' loses no request.
RefreshNotLost ==
    \A d \in Displays :
        asked[d] # {} => \/ refresh[d]
                         \/ pc[d] = "off"
                         \/ frames[d] = 0

\* A subscriber that began in the middle of an encoder's stream gets a key
\* frame, because the client asks for a refresh and the request is served.
Decodes ==
    \A d \in Displays, c \in Conns :
        (c \in subscribes[d] /\ first[d][c] = "middle") ~>
            (c \notin subscribes[d] \/ first[d][c] = "key")

=============================================================================
