----------------------------- MODULE VideoProofs -----------------------------
(***************************************************************************)
(* Proofs about the video service: for VideoService, with any number of    *)
(* displays and connections, that no one joins a shared encoder in the     *)
(* middle of its stream and no request for a refresh is lost; for          *)
(* VideoQoS, with any number of viewers, that the rate the capture loop    *)
(* applies spares every one of them.                                       *)
(***************************************************************************)
EXTENDS VideoService, VideoQoS, WellFoundedInduction, TLAPS

\* Counts that stop at a bound keep their types.
LEMMA Counts ==
    ASSUME NEW bound \in Nat \ {0}, NEW n \in 0 .. bound
    PROVE  /\ More(n, bound) \in 0 .. bound
           /\ n > 0 => Fewer(n, bound) \subseteq 0 .. bound
  BY DEF More, Fewer

\* The capture loop starts with no one.
LEMMA InitInv == Init => EncoderInv
<1> SUFFICES ASSUME Init PROVE EncoderInv OBVIOUS
<1>1. TypeOK BY VideoAssumption DEF Init, TypeOK, Pcs
<1>2. SharedEncoder /\ EncoderFollows BY DEF Init, SharedEncoder, EncoderFollows
<1> QED BY <1>1, <1>2 DEF EncoderInv

-----------------------------------------------------------------------------
(* Types. *)

\* A notification keeps the type of their counts.
LEMMA NotifyType ==
    ASSUME TypeOK, NEW c \in Conns, notify_video_frame_fetched(c)
    PROVE  notified' \in [Conns -> 0 .. MaxNotified]
<1>1. More(notified[c], MaxNotified) \in 0 .. MaxNotified
  BY VideoAssumption, Counts DEF TypeOK
<1> QED BY <1>1 DEF TypeOK, notify_video_frame_fetched

\* The steps of a connection keep the types.
LEMMA ConnectionType ==
    ASSUME TypeOK, NEW c \in Conns, Connection(c)
    PROVE  TypeOK'
<1> USE VideoAssumption DEF subVars, threadVars
<1>1. ASSUME NEW d \in Displays, on_subscribe(d, c) PROVE TypeOK'
  BY <1>1 DEF TypeOK, on_subscribe
<1>2. ASSUME NEW d \in Displays, on_unsubscribe(d, c) PROVE TypeOK'
  BY <1>2 DEF TypeOK, on_unsubscribe, Leave
<1>3. ASSUME NEW d \in Displays, Fetch(d, c) PROVE TypeOK'
  <2>1. PICK n \in Fewer(lag[d][c], MaxLag) : lag' = [lag EXCEPT ![d][c] = n]
    BY <1>3 DEF Fetch
  <2>2. lag[d][c] \in 0 .. MaxLag /\ lag[d][c] > 0 BY <1>3 DEF Fetch, TypeOK
  <2>3. n \in 0 .. MaxLag BY <2>1, <2>2, Counts
  <2>4. lag' \in [Displays -> [Conns -> 0 .. MaxLag]] BY <2>1, <2>3 DEF TypeOK
  <2>5. notified' \in [Conns -> 0 .. MaxNotified]
    BY <1>3, NotifyType DEF Fetch, TypeOK
  <2> QED BY <1>3, <2>4, <2>5 DEF TypeOK, Fetch
<1>4. ASSUME NEW d \in Displays, refresh_video_display(d, c) PROVE TypeOK'
  BY <1>4 DEF TypeOK, refresh_video_display
<1>5. CASE FetchOther(c)
  <2>1. PICK n \in Fewer(other[c], MaxLag) : other' = [other EXCEPT ![c] = n]
    BY <1>5 DEF FetchOther
  <2>2. other[c] \in 0 .. MaxLag /\ other[c] > 0 BY <1>5 DEF FetchOther, TypeOK
  <2>3. n \in 0 .. MaxLag BY <2>1, <2>2, Counts
  <2>4. other' \in [Conns -> 0 .. MaxLag] BY <2>1, <2>3 DEF TypeOK
  <2>5. notified' \in [Conns -> 0 .. MaxNotified]
    BY <1>5, NotifyType DEF FetchOther, TypeOK
  <2> QED BY <1>5, <2>4, <2>5 DEF TypeOK, FetchOther
<1>6. CASE VideoReceived(c) BY <1>6, NotifyType DEF TypeOK, VideoReceived
<1>7. CASE Close(c)
  <2>1. notified' \in [Conns -> 0 .. MaxNotified] BY <1>7, NotifyType DEF Close
  <2> QED BY <1>7, <2>1 DEF TypeOK, Close
<1>8. CASE Remove(c)
  <2>1. lag' \in [Displays -> [Conns -> 0 .. MaxLag]] BY <1>8 DEF TypeOK, Remove
  <2>2. other' \in [Conns -> 0 .. MaxLag] BY <1>8 DEF TypeOK, Remove
  <2> QED BY <1>8, <2>1, <2>2 DEF TypeOK, Remove, Leave
<1> QED BY <1>1, <1>2, <1>3, <1>4, <1>5, <1>6, <1>7, <1>8 DEF Connection

\* So do the steps of a display's thread.
LEMMA ThreadType ==
    ASSUME TypeOK, NEW d \in Displays, Thread(d) \/ Environment(d)
    PROVE  TypeOK'
<1> USE VideoAssumption DEF subVars, Goto, Pcs
<1>1. CASE CreateEncoder(d) BY <1>1 DEF TypeOK, CreateEncoder
<1>2. CASE ClearRefresh(d) BY <1>2 DEF TypeOK, ClearRefresh
<1>3. CASE LoopHead(d) BY <1>3 DEF TypeOK, LoopHead
<1>4. CASE Capture(d) BY <1>4 DEF TypeOK, Capture
<1>5. CASE SnapshotCallback(d) BY <1>5 DEF TypeOK, SnapshotCallback
<1>6. CASE SnapshotDrop(d) BY <1>6 DEF TypeOK, SnapshotDrop, Promote
<1>7. CASE Encode(d)
  <2>1. \A c \in Conns : More(lag[d][c], MaxLag) \in 0 .. MaxLag
    BY Counts DEF TypeOK
  <2>2. lag' \in [Displays -> [Conns -> 0 .. MaxLag]]
    BY <1>7, <2>1 DEF TypeOK, Encode
  <2>3. first' \in [Displays -> [Conns -> {"none", "key", "middle"}]]
    BY <1>7 DEF TypeOK, Encode
  <2>4. asked' \in [Displays -> SUBSET Conns] BY <1>7 DEF TypeOK, Encode
  <2> QED BY <1>7, <2>2, <2>3, <2>4 DEF TypeOK, Encode
<1>8. ASSUME NEW c \in Conns, WaitNext(d, c) PROVE TypeOK'
  <2>1. PICK n \in Fewer(notified[c], MaxNotified) :
           notified' = [notified EXCEPT ![c] = n]
    BY <1>8 DEF WaitNext
  <2>2. notified[c] \in 0 .. MaxNotified /\ notified[c] > 0
    BY <1>8 DEF WaitNext, TypeOK
  <2>3. n \in 0 .. MaxNotified BY <2>1, <2>2, Counts
  <2>4. notified' \in [Conns -> 0 .. MaxNotified] BY <2>1, <2>3 DEF TypeOK
  <2>5. pc' \in [Displays -> Pcs] BY <1>8 DEF TypeOK, WaitNext
  <2> QED BY <1>8, <2>4, <2>5 DEF TypeOK, WaitNext
<1>9. CASE WaitOver(d) BY <1>9 DEF TypeOK, WaitOver
<1>10. CASE DisplayChanged(d)
  <2>1. \A c \in Conns : More(other[c], MaxLag) \in 0 .. MaxLag
    BY Counts DEF TypeOK
  <2>2. other' \in [Conns -> 0 .. MaxLag] BY <1>10, <2>1 DEF TypeOK, DisplayChanged
  <2> QED BY <1>10, <2>2 DEF TypeOK, DisplayChanged, Promote
<1>11. CASE Switch(d) BY <1>11 DEF TypeOK, Switch
<1>12. CASE NoFrame(d) BY <1>12 DEF TypeOK, NoFrame
<1>13. CASE EncodeError(d) BY <1>13 DEF TypeOK, EncodeError
<1> QED BY <1>1, <1>2, <1>3, <1>4, <1>5, <1>6, <1>7, <1>8, <1>9, <1>10, <1>11,
           <1>12, <1>13 DEF Thread, Environment

-----------------------------------------------------------------------------
(* No one joins a shared encoder in the middle. *)

\* What the two invariants speak of.
encoderVars == <<subVars, pc, frames>>

\* A step that changes neither subscriptions nor the encoder keeps both parts.
LEMMA SameFollows ==
    ASSUME EncoderInv, UNCHANGED encoderVars
    PROVE  SharedEncoder' /\ EncoderFollows'
  BY DEF EncoderInv, SharedEncoder, EncoderFollows, encoderVars, subVars

\* Leaving takes a connection out of every set the invariant speaks of.
LEMMA LeaveFollows ==
    ASSUME EncoderInv, NEW c \in Conns, NEW D \in SUBSET Displays, Leave(c, D),
           UNCHANGED threadVars
    PROVE  SharedEncoder' /\ EncoderFollows'
<1> USE DEF EncoderInv, TypeOK, Leave, threadVars
<1>1. SharedEncoder' BY DEF SharedEncoder
<1>2. EncoderFollows' BY DEF EncoderFollows
<1> QED BY <1>1, <1>2

\* The steps of a connection: a new subscriber is no one's company yet.
LEMMA ConnectionFollows ==
    ASSUME EncoderInv, NEW c \in Conns, Connection(c)
    PROVE  SharedEncoder' /\ EncoderFollows'
<1>1. ASSUME NEW d \in Displays, on_subscribe(d, c)
      PROVE  SharedEncoder' /\ EncoderFollows'
  <2> USE <1>1 DEF EncoderInv, TypeOK, on_subscribe, threadVars
  <2>1. SharedEncoder' BY DEF SharedEncoder, EncoderFollows
  <2>2. EncoderFollows' BY DEF EncoderFollows
  <2> QED BY <2>1, <2>2
<1>2. ASSUME NEW d \in Displays, on_unsubscribe(d, c)
      PROVE  SharedEncoder' /\ EncoderFollows'
  BY <1>2, LeaveFollows DEF on_unsubscribe
<1>3. ASSUME NEW d \in Displays, Fetch(d, c)
      PROVE  SharedEncoder' /\ EncoderFollows'
  BY <1>3, SameFollows DEF Fetch, encoderVars, threadVars
<1>4. ASSUME NEW d \in Displays, refresh_video_display(d, c)
      PROVE  SharedEncoder' /\ EncoderFollows'
  BY <1>4 DEF EncoderInv, TypeOK, SharedEncoder, EncoderFollows,
              refresh_video_display, threadVars
<1>5. CASE FetchOther(c)
  BY <1>5, SameFollows DEF FetchOther, encoderVars, threadVars
<1>6. CASE VideoReceived(c)
  BY <1>6, SameFollows DEF VideoReceived, encoderVars, threadVars
<1>7. CASE Close(c)
  BY <1>7, SameFollows DEF Close, encoderVars, threadVars
<1>8. CASE Remove(c)
  BY <1>8, LeaveFollows DEF Remove
<1> QED BY <1>1, <1>2, <1>3, <1>4, <1>5, <1>6, <1>7, <1>8 DEF Connection

\* A thread that only moves on, with its encoder and the subscriptions as they
\* are, keeps the invariant unless it takes up an encoder it had given up.
LEMMA MoveFollows ==
    ASSUME EncoderInv, NEW d \in Displays, NEW next, Goto(d, next),
           UNCHANGED <<subVars, frames>>, pc[d] # "off",
           next # "created", next = "drop_ok" => subscribes[d] = {}
    PROVE  SharedEncoder' /\ EncoderFollows'
<1> USE DEF EncoderInv, TypeOK, Goto, subVars
<1>1. SharedEncoder' BY DEF SharedEncoder
<1>2. EncoderFollows' BY DEF EncoderFollows
<1> QED BY <1>1, <1>2

\* Promoting keeps the invariant when the loop is left, or when no one was
\* subscribed: then the promoted are not company.
LEMMA PromoteFollows ==
    ASSUME EncoderInv, NEW d \in Displays, NEW next, Goto(d, next), Promote(d),
           UNCHANGED <<first, asked, frames>>,
           next = "off" \/ (next = "encode" /\ subscribes[d] = {})
    PROVE  SharedEncoder' /\ EncoderFollows'
<1> USE DEF EncoderInv, TypeOK, Goto, Promote
<1>1. company[d] = {} \/ subscribes[d] # {} BY DEF EncoderFollows
<1>2. SharedEncoder'
  <2> SUFFICES ASSUME NEW e \in Displays, NEW c \in company'[e] \cap subscribes'[e]
               PROVE  first[e][c] # "middle"
    BY DEF SharedEncoder
  <2>1. CASE e # d BY <2>1 DEF SharedEncoder
  <2>2. CASE e = d
    <3>1. c \in company[d] \/ c \in new_subscribes[d] BY <2>2
    <3>2. company[d] \subseteq subscribes[d] BY DEF EncoderFollows
    <3> QED BY <2>2, <3>1, <3>2 DEF SharedEncoder, EncoderFollows
  <2> QED BY <2>1, <2>2
<1>3. EncoderFollows'
  <2> SUFFICES ASSUME NEW e \in Displays
               PROVE  /\ company'[e] \cup asked[e] \subseteq subscribes'[e]
                      /\ subscribes'[e] \cap new_subscribes'[e] = {}
                      /\ \A c \in new_subscribes'[e] : first[e][c] = "none"
                      /\ \A c \in company'[e] :
                            first[e][c] = "none" => pc'[e] = "off" \/ frames[e] = 0
                      /\ pc'[e] = "created" => frames[e] = 0
                      /\ pc'[e] = "drop_ok" => subscribes'[e] = {}
    BY DEF EncoderFollows
  <2>1. CASE e # d BY <2>1 DEF EncoderFollows
  <2>2. CASE e = d BY <1>1, <2>2 DEF EncoderFollows
  <2> QED BY <2>1, <2>2
<1> QED BY <1>2, <1>3

\* A frame: company that got none before gets the encoder's key frame.
LEMMA EncodeFollows ==
    ASSUME EncoderInv, NEW d \in Displays, Encode(d)
    PROVE  SharedEncoder' /\ EncoderFollows'
<1> USE DEF EncoderInv, TypeOK, Goto, Encode
<1>1. \A e \in Displays \ {d} :
        /\ pc'[e] = pc[e] /\ frames'[e] = frames[e]
        /\ first'[e] = first[e] /\ asked'[e] = asked[e]
  OBVIOUS
<1>2. \A c \in Conns : first'[d][c] =
        IF c \in subscribes[d] /\ (frames[d] = 0 \/ first[d][c] = "none")
        THEN (IF frames[d] = 0 THEN "key" ELSE "middle") ELSE first[d][c]
  OBVIOUS
<1>3. asked'[d] \subseteq asked[d] OBVIOUS
<1>4. pc'[d] \in {"head", "wait"} OBVIOUS
<1>5. UNCHANGED <<subscribes, new_subscribes, company>> OBVIOUS
<1>6. pc[d] = "encode" OBVIOUS
<1>7. SharedEncoder'
  <2> SUFFICES ASSUME NEW e \in Displays, NEW c \in company[e]
               PROVE  first'[e][c] # "middle"
    BY <1>5 DEF SharedEncoder
  <2>1. c \in subscribes[e] /\ first[e][c] # "middle"
    BY DEF SharedEncoder, EncoderFollows
  <2>2. CASE e # d BY <1>1, <2>1, <2>2
  <2>3. CASE e = d
    <3>1. first[d][c] = "none" => frames[d] = 0
      BY <1>6, <2>3 DEF EncoderFollows
    <3> QED BY <1>2, <2>1, <2>3, <3>1
  <2> QED BY <2>2, <2>3
<1>8. EncoderFollows'
  <2> SUFFICES ASSUME NEW e \in Displays
               PROVE  /\ company[e] \cup asked'[e] \subseteq subscribes[e]
                      /\ subscribes[e] \cap new_subscribes[e] = {}
                      /\ \A c \in new_subscribes[e] : first'[e][c] = "none"
                      /\ \A c \in company[e] : first'[e][c] = "none" =>
                            pc'[e] = "off" \/ frames'[e] = 0
                      /\ pc'[e] = "created" => frames'[e] = 0
                      /\ pc'[e] = "drop_ok" => subscribes[e] = {}
    BY <1>5 DEF EncoderFollows
  <2>1. CASE e # d BY <1>1, <2>1 DEF EncoderFollows
  <2>2. CASE e = d
    <3>1. company[d] \cup asked'[d] \subseteq subscribes[d]
      BY <1>3 DEF EncoderFollows
    <3>2. subscribes[d] \cap new_subscribes[d] = {} BY DEF EncoderFollows
    <3>3. \A c \in new_subscribes[d] : first'[d][c] = "none"
      BY <1>2, <3>2 DEF EncoderFollows
    <3>4. \A c \in company[d] : first'[d][c] # "none" BY <1>2, <3>1
    <3> QED BY <1>4, <2>2, <3>1, <3>2, <3>3, <3>4
  <2> QED BY <2>1, <2>2
<1> QED BY <1>7, <1>8

\* The steps of a display's thread.
LEMMA ThreadFollows ==
    ASSUME EncoderInv, NEW d \in Displays, Thread(d) \/ Environment(d)
    PROVE  SharedEncoder' /\ EncoderFollows'
<1>1. CASE CreateEncoder(d)
  <2> USE <1>1 DEF EncoderInv, TypeOK, CreateEncoder, Goto, subVars
  <2>1. SharedEncoder' BY DEF SharedEncoder
  <2>2. EncoderFollows' BY DEF EncoderFollows
  <2> QED BY <2>1, <2>2
<1>2. CASE ClearRefresh(d)
  BY <1>2, MoveFollows DEF ClearRefresh
<1>3. CASE LoopHead(d)
  BY <1>3, MoveFollows DEF LoopHead
<1>4. CASE Capture(d)
  BY <1>4, MoveFollows DEF Capture
<1>5. CASE SnapshotCallback(d)
  BY <1>5, MoveFollows DEF SnapshotCallback
<1>6. CASE SnapshotDrop(d)
  <2>1. pc[d] = "drop_ok" => subscribes[d] = {}
    BY DEF EncoderInv, EncoderFollows
  <2> QED BY <1>6, <2>1, PromoteFollows DEF SnapshotDrop
<1>7. CASE Encode(d)
  BY <1>7, EncodeFollows
<1>8. ASSUME NEW c \in Conns, WaitNext(d, c)
      PROVE  SharedEncoder' /\ EncoderFollows'
  BY <1>8, MoveFollows DEF WaitNext
<1>9. CASE WaitOver(d)
  BY <1>9, MoveFollows DEF WaitOver
<1>10. CASE DisplayChanged(d)
  BY <1>10, PromoteFollows DEF DisplayChanged
<1>11. CASE Switch(d)
  BY <1>11, MoveFollows DEF Switch
<1>12. CASE NoFrame(d)
  BY <1>12, MoveFollows DEF NoFrame
<1>13. CASE EncodeError(d)
  BY <1>13, MoveFollows DEF EncodeError
<1> QED BY <1>1, <1>2, <1>3, <1>4, <1>5, <1>6, <1>7, <1>8, <1>9, <1>10, <1>11,
           <1>12, <1>13 DEF Thread, Environment

\* The invariant is inductive.
LEMMA NextInv == EncoderInv /\ [Next]_vars => EncoderInv'
<1> SUFFICES ASSUME EncoderInv, [Next]_vars PROVE EncoderInv' OBVIOUS
<1>1. TypeOK BY DEF EncoderInv
<1>2. ASSUME NEW c \in Conns, Connection(c) PROVE EncoderInv'
  BY <1>1, <1>2, ConnectionType, ConnectionFollows DEF EncoderInv
<1>3. ASSUME NEW d \in Displays, Thread(d) \/ Environment(d) PROVE EncoderInv'
  BY <1>1, <1>3, ThreadType, ThreadFollows DEF EncoderInv
<1>4. CASE UNCHANGED vars
  <2>1. TypeOK' BY <1>1, <1>4 DEF TypeOK, vars
  <2>2. SharedEncoder' /\ EncoderFollows'
    BY <1>4, SameFollows DEF vars, encoderVars, subVars
  <2> QED BY <2>1, <2>2 DEF EncoderInv
<1> QED BY <1>2, <1>3, <1>4 DEF Next

\* Whoever joins a display that others watch begins with a key frame, for any
\* number of displays and connections and whatever the subscribers do between
\* the steps of snapshot's callback.
THEOREM JoinsWithKeyFrame == Spec => []EncoderInv
  BY InitInv, NextInv, PTL DEF Spec

-----------------------------------------------------------------------------
(* No request for a refresh is lost. *)

\* Steps of the connections: whoever asks sets the option.
LEMMA ConnectionRefresh ==
    ASSUME EncoderInv, RefreshNotLost, NEW c \in Conns, Connection(c)
    PROVE  RefreshNotLost'
<1> USE DEF EncoderInv, TypeOK, RefreshNotLost, threadVars, subVars
<1>1. ASSUME NEW d \in Displays, on_subscribe(d, c) PROVE RefreshNotLost'
  BY <1>1 DEF on_subscribe
<1>2. ASSUME NEW d \in Displays, on_unsubscribe(d, c) PROVE RefreshNotLost'
  BY <1>2 DEF on_unsubscribe, Leave
<1>3. ASSUME NEW d \in Displays, Fetch(d, c) PROVE RefreshNotLost'
  BY <1>3 DEF Fetch
<1>4. ASSUME NEW d \in Displays, refresh_video_display(d, c)
      PROVE  RefreshNotLost'
  BY <1>4 DEF refresh_video_display
<1>5. CASE FetchOther(c) BY <1>5 DEF FetchOther
<1>6. CASE VideoReceived(c) BY <1>6 DEF VideoReceived
<1>7. CASE Close(c) BY <1>7 DEF Close
<1>8. CASE Remove(c) BY <1>8 DEF Remove, Leave
<1> QED BY <1>1, <1>2, <1>3, <1>4, <1>5, <1>6, <1>7, <1>8 DEF Connection

\* Steps of a thread: the option is cleared for an encoder without frames, and
\* that encoder's key frame goes to everyone who asked.
LEMMA ThreadRefresh ==
    ASSUME EncoderInv, RefreshNotLost, NEW d \in Displays,
           Thread(d) \/ Environment(d)
    PROVE  RefreshNotLost'
<1> USE DEF EncoderInv, TypeOK, RefreshNotLost, subVars, Goto
<1>1. CASE CreateEncoder(d) BY <1>1 DEF CreateEncoder
<1>2. CASE ClearRefresh(d)
  <2>1. frames[d] = 0 BY <1>2 DEF ClearRefresh, EncoderFollows
  <2> QED BY <1>2, <2>1 DEF ClearRefresh
<1>3. CASE LoopHead(d) BY <1>3 DEF LoopHead
<1>4. CASE Capture(d) BY <1>4 DEF Capture
<1>5. CASE SnapshotCallback(d) BY <1>5 DEF SnapshotCallback
<1>6. CASE SnapshotDrop(d) BY <1>6 DEF SnapshotDrop
<1>7. CASE Encode(d)
  <2>1. asked[d] \subseteq subscribes[d] BY DEF EncoderFollows
  <2>2. frames[d] = 0 => asked'[d] = {} BY <1>7, <2>1 DEF Encode
  <2>3. frames[d] # 0 => asked' = asked BY <1>7 DEF Encode
  <2>4. asked'[d] # {} => refresh'[d] BY <1>7, <2>2, <2>3 DEF Encode
  <2>5. \A e \in Displays \ {d} :
          asked'[e] = asked[e] /\ pc'[e] = pc[e] /\ frames'[e] = frames[e]
    BY <1>7 DEF Encode
  <2> QED BY <1>7, <2>4, <2>5 DEF Encode
<1>8. ASSUME NEW c \in Conns, WaitNext(d, c) PROVE RefreshNotLost'
  BY <1>8 DEF WaitNext
<1>9. CASE WaitOver(d) BY <1>9 DEF WaitOver
<1>10. CASE DisplayChanged(d) BY <1>10 DEF DisplayChanged
<1>11. CASE Switch(d) BY <1>11 DEF Switch
<1>12. CASE NoFrame(d) BY <1>12 DEF NoFrame
<1>13. CASE EncodeError(d) BY <1>13 DEF EncodeError
<1> QED BY <1>1, <1>2, <1>3, <1>4, <1>5, <1>6, <1>7, <1>8, <1>9, <1>10, <1>11,
           <1>12, <1>13 DEF Thread, Environment

\* A refresh that was asked for stays to be served until a key frame went to
\* the one who asked, at whatever point of the loop it comes.
THEOREM RefreshIsServed == Spec => []RefreshNotLost
<1>1. Init => RefreshNotLost BY DEF Init, RefreshNotLost
<1>2. EncoderInv /\ RefreshNotLost /\ [Next]_vars => RefreshNotLost'
  <2> SUFFICES ASSUME EncoderInv, RefreshNotLost, [Next]_vars
               PROVE  RefreshNotLost'
    OBVIOUS
  <2>1. CASE UNCHANGED vars BY <2>1 DEF vars, RefreshNotLost
  <2> QED BY <2>1, ConnectionRefresh, ThreadRefresh DEF Next
<1> QED BY <1>1, <1>2, JoinsWithKeyFrame, PTL DEF Spec


-----------------------------------------------------------------------------
(* The frame rate. *)

\* A set of numbers has a least one.
LEMMA LeastOf ==
    ASSUME NEW S \in SUBSET Nat, S # {}
    PROVE  Min(S) \in S /\ \A y \in S : Min(S) <= y
<1> DEFINE R == OpToRel(<, Nat)
<1>1. \A x, y \in Nat : x < y <=> <<x, y>> \in R BY DEF OpToRel
<1>2. IsWellFoundedOn(R, Nat) BY NatLessThanWellFounded
<1> HIDE DEF R
<1>3. \E x \in S : \A y \in S : ~(<<y, x>> \in R) BY <1>2, WFMin
<1>4. \E x \in S : \A y \in S : x <= y
  <2>1. PICK x \in S : \A y \in S : ~(<<y, x>> \in R) BY <1>3
  <2>2. \A y \in S : ~(y < x) BY <1>1, <2>1
  <2>3. \A y \in S : x <= y BY <2>2
  <2> QED BY <2>3
<1> QED BY <1>4 DEF Min

\* The larger and the smaller of two numbers.
LEMMA TwoOf ==
    ASSUME NEW a \in Int, NEW b \in Int
    PROVE  /\ Max({a, b}) = IF a >= b THEN a ELSE b
           /\ Min({a, b}) = IF a <= b THEN a ELSE b
  BY DEF Max, Min

\* The average of at most three delays: the sum is a recursive function,
\* which is given for these lengths.
LEMMA AvgNat ==
    ASSUME NEW d, d.history \in Seq(Nat), Len(d.history) <= 3,
           get_rtt(d) \in Nat
    PROVE  avg_delay(d) \in Nat
<1> DEFINE h == d.history
           n == Len(h)
           body(f, i) == IF i = 0 THEN 0 ELSE f[i - 1] + h[i]
           sum == CHOOSE f : f = [i \in 0..n |-> body(f, i)]
           g == [i \in 0..n |-> IF i = 0 THEN 0 ELSE IF i = 1 THEN h[1]
                   ELSE IF i = 2 THEN h[1] + h[2] ELSE h[1] + h[2] + h[3]]
<1>h. h \in Seq(Nat) /\ n <= 3 OBVIOUS
<1> HIDE DEF h
<1>1. n \in Nat /\ n <= 3 /\ \A i \in 1..n : h[i] \in Nat BY <1>h
<1>6. h = << >> <=> n = 0 BY <1>h
<1> HIDE DEF n
<1>2. g = [i \in 0..n |-> body(g, i)]
  <2> SUFFICES ASSUME NEW i \in 0..n PROVE g[i] = body(g, i) OBVIOUS
  <2>1. CASE i = 0 BY <1>1, <2>1
  <2>2. CASE i = 1 BY <1>1, <2>2
  <2>3. CASE i = 2 BY <1>1, <2>3
  <2>4. CASE i = 3 BY <1>1, <2>4
  <2> QED BY <1>1, <2>1, <2>2, <2>3, <2>4
<1> HIDE DEF g, body
<1>3. sum = [i \in 0..n |-> body(sum, i)] BY <1>2
<1> HIDE DEF sum
<1>4. sum[n] \in Nat
  <2> USE DEF body
  <2>0. \A i \in 0..n : sum[i] = IF i = 0 THEN 0 ELSE sum[i - 1] + h[i] BY <1>3
  <2>1. sum[0] = 0 BY <1>1, <2>0
  <2>2. n >= 1 => sum[1] \in Nat BY <1>1, <2>0, <2>1
  <2>3. n >= 2 => sum[2] \in Nat BY <1>1, <2>0, <2>2
  <2>4. n >= 3 => sum[3] \in Nat BY <1>1, <2>0, <2>3
  <2> QED BY <1>1, <2>1, <2>2, <2>3, <2>4
<1>5. n # 0 => sum[n] \div n \in Nat BY <1>1, <1>4
<1>7. avg_delay(d) = IF h = << >> THEN 150
                     ELSE IF sum[n] \div n > get_rtt(d)
                          THEN sum[n] \div n - get_rtt(d) ELSE sum[n] \div n
  BY DEF avg_delay, h, n, sum, body, DELAY_THRESHOLD_150MS
<1> QED BY <1>5, <1>6, <1>7

\* A viewer's record between two calls (the part of TypeOK about it).
Sound(d) == /\ d \in UserData
            /\ Len(d.history) <= HISTORY_DELAY_LEN + 1
            /\ Len(d.samples) <= WINDOW_SAMPLES
            /\ d.samples # << >> => d.min_rtt # None

\* A delay is a number.
LEMMA SamplesNat == Samples \subseteq Nat
<1>1. \A u \in Viewers : Delays[u] \subseteq Nat BY VideoQoSAssumption
<1>2. ASSUME NEW x \in Samples PROVE x \in Nat
  <2>1. CASE x = 10 BY <2>1
  <2>2. CASE \E u \in Viewers : x \in Delays[u] BY <1>1, <2>2
  <2> QED BY <2>1, <2>2 DEF Samples
<1> QED BY <1>2

\* The round trip is a number once it is known.
LEMMA RttNat ==
    ASSUME NEW d, Sound(d)
    PROVE  get_rtt(d) \in Nat
<1>1. /\ d.samples \in Seq(Samples) /\ d.min_rtt \in Nat \cup {None}
      /\ d.srtt \in Nat \cup {None}
  BY DEF Sound, UserData
<1>2. Len(d.samples) >= MIN_SAMPLES => d.samples # << >>
  BY <1>1, VideoQoSAssumption
<1> QED BY <1>1, <1>2 DEF Sound, get_rtt

\* So is the average delay of a viewer.
LEMMA AverageNat ==
    ASSUME NEW d, Sound(d)
    PROVE  avg_delay(d) \in Nat
<1>1. d.history \in Seq(Samples) /\ Len(d.history) <= 3
  BY DEF Sound, UserData, HISTORY_DELAY_LEN
<1>2. d.history \in Seq(Nat)
  <2>1. \A i \in 1..Len(d.history) : d.history[i] \in Samples BY <1>1
  <2>2. \A i \in 1..Len(d.history) : d.history[i] \in Nat
    BY <2>1, SamplesNat
  <2>3. /\ Len(d.history) \in Nat
        /\ d.history = [i \in 1..Len(d.history) |-> d.history[i]]
    BY <1>1
  <2> QED BY <2>2, <2>3
<1> QED BY <1>1, <1>2, RttNat, AvgNat

\* A list that drops its oldest entry when it is full.
LEMMA Appended ==
    ASSUME NEW S, NEW q \in Seq(S), NEW x \in S, NEW n \in Nat \ {0},
           Len(q) <= n
    PROVE  LET r == Append(IF Len(q) >= n THEN Tail(q) ELSE q, x)
           IN  r \in Seq(S) /\ r # << >> /\ Len(r) <= n
<1>1. CASE Len(q) >= n
  <2>1. q # << >> /\ Len(q) = n BY <1>1
  <2>2. Tail(q) \in Seq(S) /\ Len(Tail(q)) = n - 1 BY <2>1
  <2>3. Append(Tail(q), x) \in Seq(S) /\ Len(Append(Tail(q), x)) = n BY <2>2
  <2> QED BY <1>1, <2>3
<1>2. CASE ~(Len(q) >= n)
  <2>1. Append(q, x) \in Seq(S) /\ Len(Append(q, x)) = Len(q) + 1 OBVIOUS
  <2> QED BY <1>2, <2>1
<1> QED BY <1>1, <1>2

\* UserDelay::add_delay keeps a viewer's record sound.
LEMMA Updated ==
    ASSUME NEW d, Sound(d), NEW delay \in Samples
    PROVE  Sound(add_delay(d, delay))
<1> DEFINE samples == Append(IF Len(d.samples) >= WINDOW_SAMPLES
                             THEN Tail(d.samples) ELSE d.samples, delay)
           history == Append(IF Len(d.history) > HISTORY_DELAY_LEN
                             THEN Tail(d.history) ELSE d.history, delay)
           rtt == IF d.min_rtt = None THEN delay ELSE Min({d.min_rtt, delay})
           srtt == IF Len(samples) >= WINDOW_SAMPLES
                   THEN (rtt + Min(Range(samples))) \div 2 ELSE d.srtt
<1>0. d \in UserData /\ delay \in Nat BY SamplesNat DEF Sound
<1>1. /\ samples \in Seq(Samples) /\ samples # << >>
      /\ Len(samples) <= WINDOW_SAMPLES
  <2>1. d.samples \in Seq(Samples) /\ Len(d.samples) <= WINDOW_SAMPLES
    BY DEF Sound, UserData
  <2>2. WINDOW_SAMPLES \in Nat \ {0} BY VideoQoSAssumption
  <2> QED BY <2>1, <2>2, Appended
<1>2. history \in Seq(Samples) /\ Len(history) <= HISTORY_DELAY_LEN + 1
  <2>1. d.history \in Seq(Samples) /\ Len(d.history) <= 3
    BY DEF Sound, UserData, HISTORY_DELAY_LEN
  <2>2. Len(d.history) > HISTORY_DELAY_LEN <=> Len(d.history) >= 3
    BY <2>1 DEF HISTORY_DELAY_LEN
  <2> QED BY <2>1, <2>2, Appended DEF HISTORY_DELAY_LEN
<1>3. rtt \in Nat
  <2>1. d.min_rtt \in Nat \cup {None} BY <1>0 DEF UserData
  <2>2. CASE d.min_rtt = None BY <1>0, <2>2
  <2>3. CASE d.min_rtt # None
    <3>1. d.min_rtt \in Nat BY <2>1, <2>3
    <3>2. Min({d.min_rtt, delay}) =
             IF d.min_rtt <= delay THEN d.min_rtt ELSE delay
      <4>1. d.min_rtt \in Int /\ delay \in Int BY <1>0, <3>1
      <4> QED BY <4>1, TwoOf, Zenon
    <3> QED BY <1>0, <2>3, <3>1, <3>2
  <2> QED BY <2>2, <2>3
<1>4. srtt \in Nat \cup {None}
  <2>1. Min(Range(samples)) \in Nat
    <3>1. Range(samples) \subseteq Nat /\ Range(samples) # {}
      <4> HIDE DEF samples
      <4>1. /\ Len(samples) \in Nat \ {0} /\ DOMAIN samples = 1..Len(samples)
            /\ \A i \in 1..Len(samples) : samples[i] \in Samples
        BY <1>1
      <4>2. samples[1] \in Range(samples) BY <4>1 DEF Range
      <4>3. Range(samples) \subseteq Samples BY <4>1 DEF Range
      <4> QED BY <4>2, <4>3, SamplesNat
    <3> QED BY <3>1, LeastOf
  <2>2. (rtt + Min(Range(samples))) \div 2 \in Nat BY <1>3, <2>1
  <2> QED BY <1>0, <2>2 DEF UserData
<1>5. add_delay(d, delay) =
         [d EXCEPT !.min_rtt = rtt, !.samples = samples, !.srtt = srtt,
                   !.history = history]
  BY <1>0 DEF add_delay, update, UserData
<1> HIDE DEF samples, history, rtt, srtt
<1>6. rtt # None
  <2>1. None \notin Nat BY VideoQoSAssumption
  <2> QED BY <1>3, <2>1
<1> DEFINE e == add_delay(d, delay)
<1>7. e \in UserData
  <2>1. history \in Seq(Samples) /\ samples \in Seq(Samples) BY <1>1, <1>2
  <2>2. rtt \in Nat \cup {None} BY <1>3
  <2> QED BY <1>0, <1>4, <1>5, <2>1, <2>2, Zenon DEF UserData
<1>8. e.history = history /\ e.samples = samples /\ e.min_rtt = rtt
  BY <1>0, <1>5, Zenon DEF UserData
<1> HIDE DEF e
<1>9. Sound(e) BY <1>1, <1>2, <1>6, <1>7, <1>8 DEF Sound
<1> QED BY <1>9 DEF e

\* The least and the greatest rate.
LEMMA Bounds ==
    /\ MIN_FPS \in Nat /\ MAX_FPS \in Nat
    /\ MIN_FPS = 1 /\ MIN_FPS <= MAX_FPS
  BY DEF MIN_FPS, MAX_FPS

\* The least rate for the latest quality is a number: of those that were chosen
\* one is the latest.
LEMMA MinFpsNat ==
    ASSUME QoSTypeOK
    PROVE  min_fps \in Nat
<1> DEFINE all == {data[u].quality : u \in users} \ {None}
           last == CHOOSE q \in all : \A p \in all : p.time <= q.time
<1>1. MaxOptions \in Nat BY VideoQoSAssumption
<1>2. \A q \in all : q.time \in 0..MaxOptions /\ q.kind \in Qualities
  BY DEF QoSTypeOK, UserData
<1>3. latest_quality = IF all = {} THEN "balanced" ELSE last.kind
  BY DEF latest_quality
<1>4. all # {} => last \in all
  <2> SUFFICES ASSUME all # {}
               PROVE  \E q \in all : \A p \in all : p.time <= q.time
    OBVIOUS
  <2> DEFINE ages == {MaxOptions - q.time : q \in all}
  <2> HIDE DEF all
  <2>1. ages \in SUBSET Nat /\ ages # {} BY <1>1, <1>2
  <2>2. Min(ages) \in ages /\ \A y \in ages : Min(ages) <= y
    BY <2>1, LeastOf
  <2>3. PICK q \in all : Min(ages) = MaxOptions - q.time BY <2>2
  <2>4. ASSUME NEW p \in all PROVE p.time <= q.time
    <3>1. MaxOptions - q.time <= MaxOptions - p.time BY <2>2, <2>3
    <3> QED BY <1>1, <1>2, <3>1
  <2> QED BY <2>4
<1>5. latest_quality \in {"best", "balanced", "low"}
  <2> HIDE DEF all, last
  <2>1. Qualities \subseteq {"best", "balanced", "low"} BY VideoQoSAssumption
  <2> QED BY <1>2, <1>3, <1>4, <2>1
<1>6. /\ MinFps \in [{"best", "balanced", "low"} -> 1..FPS]
      /\ FPS \in Nat
  BY Bounds, VideoQoSAssumption
<1>7. MinFps[latest_quality] \in 1..FPS BY <1>5, <1>6
<1> QED BY <1>6, <1>7 DEF min_fps

\* What a viewer allows is a rate,
LEMMA UserFps ==
    ASSUME NEW d \in UserData
    PROVE  user_fps(d) \in MIN_FPS..MAX_FPS
<1>1. /\ FPS \in MIN_FPS..MAX_FPS /\ Limits \subseteq MIN_FPS..MAX_FPS
      /\ AutoLimits \subseteq MIN_FPS..MAX_FPS
  BY VideoQoSAssumption
<1>2. d.custom \in Limits \cup {None} /\ d.auto \in AutoLimits \cup {None}
  BY DEF UserData
<1> QED BY <1>1, <1>2, Zenon DEF user_fps

\* and so is what all allow.
LEMMA HighestFps ==
    ASSUME QoSTypeOK
    PROVE  highest_fps \in MIN_FPS..MAX_FPS
<1> DEFINE S == {user_fps(data[u]) : u \in users}
<1>1. S \subseteq MIN_FPS..MAX_FPS BY UserFps DEF QoSTypeOK
<1>2. users # {} => Min(S) \in S
  <2>1. S \in SUBSET Nat BY <1>1, Bounds
  <2>2. users # {} => S # {} OBVIOUS
  <2> QED BY <2>1, <2>2, LeastOf
<1>3. FPS \in MIN_FPS..MAX_FPS BY VideoQoSAssumption
<1>4. highest_fps = IF users = {} THEN FPS ELSE Min(S) BY DEF highest_fps
<1> QED BY <1>1, <1>2, <1>3, <1>4

\* adjust_fps finds a rate that spares every viewer.
LEMMA Adjusted ==
    ASSUME QoSTypeOK, NEW dt \in [Viewers -> UserData],
           adjust_fps(dt)
    PROVE  /\ fps' \in MIN_FPS..MAX_FPS
           /\ \A u \in users : /\ dt[u].fps # None => fps' <= dt[u].fps
                               /\ dt[u].delayed => fps' <= MIN_FPS + 1
<1> DEFINE caps == {Share(dt[u]) : u \in users} \cup {highest_fps}
                   \cup (IF fresh \/ users = {} THEN {INIT_FPS} ELSE {})
                   \cup (IF \E u \in users : dt[u].delayed THEN {MIN_FPS + 1}
                         ELSE {})
<1>1. fps' = Min(caps) BY DEF adjust_fps
<1>2. INIT_FPS \in MIN_FPS..MAX_FPS
  <2>1. INIT_FPS \in 1..FPS /\ FPS \in MIN_FPS..MAX_FPS BY VideoQoSAssumption
  <2> QED BY <2>1, Bounds
<1>3. \A u \in users : Share(dt[u]) \in MIN_FPS..MAX_FPS
  <2>1. \A u \in users : dt[u].fps \in (MIN_FPS..MAX_FPS) \cup {None}
    BY DEF QoSTypeOK, UserData
  <2> QED BY <1>2, <2>1, Zenon DEF Share
<1>4. MIN_FPS + 1 \in MIN_FPS..MAX_FPS BY DEF MIN_FPS, MAX_FPS
<1>5. highest_fps \in MIN_FPS..MAX_FPS BY HighestFps
<1>6. caps \subseteq MIN_FPS..MAX_FPS /\ highest_fps \in caps
  BY <1>2, <1>3, <1>4, <1>5
<1>7. \A u \in users : /\ Share(dt[u]) \in caps
                       /\ dt[u].delayed => MIN_FPS + 1 \in caps
  OBVIOUS
<1> HIDE DEF caps
<1>8. Min(caps) \in caps /\ \A y \in caps : Min(caps) <= y
  <2>1. caps \in SUBSET Nat /\ caps # {} BY <1>6, Bounds
  <2> QED BY <2>1, LeastOf
<1>9. \A u \in users : dt[u].fps # None => Share(dt[u]) = dt[u].fps
  BY DEF Share
<1> QED BY <1>1, <1>6, <1>7, <1>8, <1>9

\* What user_network_delay finds for a viewer is a number, in each of its cases.
LEMMA EstimateInt ==
    ASSUME QoSTypeOK, NEW d \in UserData, NEW old \in Nat,
           NEW avg \in Nat, avg >= 10
    PROVE  Estimate(d, old, avg) \in Int
<1> DEFINE below == IF fps < normal_fps THEN 1 ELSE 0
           step == CASE avg < 50 /\ d.quick = 2 -> 5
                     [] avg < 50 /\ d.quick # 2 -> below
                     [] avg \in 50..99 /\ avg < old -> below
                     [] OTHER -> 0
           dividend == DELAY_THRESHOLD_150MS * min_fps
           devide == (fps * DELAY_THRESHOLD_150MS + avg - 1) \div avg
           bonus == IF avg < DELAY_THRESHOLD_150MS /\ d.increase = 2 THEN 1
                    ELSE 0
<1>1. min_fps \in Nat /\ fps \in Nat BY MinFpsNat, Bounds DEF QoSTypeOK
<1>2. below \in Nat /\ bonus \in Nat OBVIOUS
<1> HIDE DEF below
<1>3. step \in Nat BY <1>2
<1>4. dividend \in Nat BY <1>1 DEF DELAY_THRESHOLD_150MS
<1>5. fps * DELAY_THRESHOLD_150MS + avg - 1 \in Nat
  BY <1>1 DEF DELAY_THRESHOLD_150MS
<1> DEFINE total == fps * DELAY_THRESHOLD_150MS + avg - 1
<1>6. devide \in Int
  <2>1. total \in Nat BY <1>5
  <2> HIDE DEF total
  <2>2. total \div avg \in Int BY <2>1
  <2> QED BY <2>2 DEF total
<1> HIDE DEF step, dividend, devide, bonus
<1>7. dividend \div avg \in Int BY <1>4
<1>8. /\ Max({min_fps, fps + step}) \in Int
      /\ Max({min_fps, devide}) \in Int
      /\ Min({min_fps, devide}) \in Int
      /\ Min({dividend \div avg, devide}) \in Int
  <2>1. min_fps \in Int /\ fps + step \in Int BY <1>1, <1>3
  <2>2. \A a, b \in Int : Max({a, b}) \in Int /\ Min({a, b}) \in Int
    BY TwoOf
  <2> QED BY <1>6, <1>7, <2>1, <2>2
<1> DEFINE rate == CASE avg < 150 -> Max({min_fps, fps + step})
                  [] avg \in 150..199 -> Max({min_fps, devide})
                  [] avg \in 200..299 -> Min({min_fps, devide})
                  [] avg \in 300..599 -> dividend \div avg
                  [] OTHER -> Min({dividend \div avg, devide})
<1>9. rate \in Int BY <1>8, <1>7
<1>10. Estimate(d, old, avg) = bonus + rate
  BY DEF Estimate, bonus, rate, step, below, dividend, devide
<1> HIDE DEF rate
<1> QED BY <1>2, <1>9, <1>10 DEF bonus

\* Without viewers nobody is harmed.
LEMMA RateInit == QoSInit => QoSInv
<1> SUFFICES ASSUME QoSInit PROVE QoSInv OBVIOUS
<1>1. Sound(Fresh)
  BY VideoQoSAssumption DEF Sound, Fresh, UserData, HISTORY_DELAY_LEN
<1>2. data \in [Viewers -> UserData] /\ \A u \in Viewers : Sound(data[u])
  BY <1>1 DEF QoSInit, Sound
<1>3. fps \in MIN_FPS..MAX_FPS /\ options \in 0..MaxOptions
  BY VideoQoSAssumption DEF QoSInit
<1>4. QoSTypeOK BY <1>2, <1>3 DEF QoSInit, QoSTypeOK, Sound
<1>5. ViewersSpared BY DEF QoSInit, ViewersSpared
<1> QED BY <1>4, <1>5 DEF QoSInv

\* A call that changes one viewer's record.
LEMMA OneChanges ==
    ASSUME QoSInv, NEW u \in Viewers, NEW d, Sound(d),
           data' = [data EXCEPT ![u] = d],
           fps' \in MIN_FPS..MAX_FPS, users' \subseteq Viewers,
           fresh' \in BOOLEAN, options' \in 0..MaxOptions,
           test' \in [Viewers -> {"none", "sent", "late"}]
    PROVE  QoSTypeOK'
<1>1. data \in [Viewers -> UserData] /\ \A v \in Viewers : Sound(data[v])
  BY DEF QoSInv, QoSTypeOK, Sound
<1>2. data' \in [Viewers -> UserData] BY <1>1 DEF Sound
<1>3. \A v \in Viewers : data'[v] = IF v = u THEN d ELSE data[v] BY <1>1
<1>4. \A v \in Viewers : Sound(data'[v]) BY <1>1, <1>3
<1> QED BY <1>2, <1>4 DEF QoSTypeOK, Sound

\* The answer to a TestDelay: user_network_delay, then adjust_fps.
LEMMA ReplyInv ==
    ASSUME QoSInv, NEW u \in Viewers, Reply(u)
    PROVE  QoSInv'
<1> USE DEF QoSInv
<1>1. PICK delay \in Delays[u] : user_network_delay(u, delay) BY DEF Reply
<1>2. Sound(data[u]) /\ data[u] \in UserData BY DEF QoSTypeOK, Sound
<1> DEFINE sample == Max({delay, 10})
           added == add_delay(data[u], sample)
           avg == Max({avg_delay(added), 10})
           share == Estimate(data[u], avg_delay(data[u]), avg)
           best == Max({MIN_FPS, Min({share, highest_fps})})
           quick == IF avg < 50 THEN (added.quick + 1) % 3
                    ELSE IF avg = 50 THEN added.quick ELSE 0
           increase == IF avg < DELAY_THRESHOLD_150MS
                       THEN (added.increase + 1) % 3 ELSE 0
           new == [added EXCEPT !.fps = best, !.quick = quick,
                                !.increase = increase]
<1>3. sample \in Samples
  <2>1. delay \in Samples /\ 10 \in Samples BY DEF Samples
  <2>2. delay \in Int BY <2>1, SamplesNat
  <2>3. sample = IF delay >= 10 THEN delay ELSE 10 BY <2>2, TwoOf
  <2> QED BY <2>1, <2>3
<1> HIDE DEF sample
<1>4. Sound(added) BY <1>2, <1>3, Updated
<1> HIDE DEF added
<1>5. avg \in Nat /\ avg >= 10
  <2>1. avg_delay(added) \in Nat BY <1>4, AverageNat
  <2>2. avg = IF avg_delay(added) >= 10 THEN avg_delay(added) ELSE 10
    BY <2>1, TwoOf
  <2> QED BY <2>1, <2>2
<1> HIDE DEF avg
<1>6. share \in Int BY <1>2, <1>5, AverageNat, EstimateInt
<1> HIDE DEF share
<1>7. best \in MIN_FPS..MAX_FPS
  <2>1. highest_fps \in MIN_FPS..MAX_FPS BY HighestFps
  <2>2. highest_fps \in Int BY <2>1, Bounds
  <2>3. Min({share, highest_fps}) =
           IF share <= highest_fps THEN share ELSE highest_fps
    BY <1>6, <2>2, TwoOf
  <2> DEFINE m == Min({share, highest_fps})
  <2>4. m \in Int /\ m <= highest_fps BY <1>6, <2>2, <2>3
  <2>5. best = Max({MIN_FPS, m}) OBVIOUS
  <2> HIDE DEF m
  <2>6. MIN_FPS \in Int BY Bounds
  <2>7. Max({MIN_FPS, m}) = IF MIN_FPS >= m THEN MIN_FPS ELSE m
    BY <2>4, <2>6, TwoOf
  <2> HIDE DEF best
  <2> QED BY <2>1, <2>4, <2>5, <2>7, Bounds
<1> HIDE DEF best
<1>8. quick \in 0..2 /\ increase \in 0..2
  <2>1. added.quick \in 0..2 /\ added.increase \in 0..2
    BY <1>4 DEF Sound, UserData
  <2> QED BY <2>1
<1> HIDE DEF quick, increase
<1>9. Sound(new) BY <1>4, <1>7, <1>8 DEF Sound, UserData
<1>10. data' = [data EXCEPT ![u] = new] /\ adjust_fps(data')
  <2>1. new = [added EXCEPT
                !.fps = Max({MIN_FPS, Min({share, highest_fps})}),
                !.quick = IF avg < 50 THEN (@ + 1) % 3
                          ELSE IF avg = 50 THEN @ ELSE 0,
                !.increase = IF avg < DELAY_THRESHOLD_150MS THEN (@ + 1) % 3
                             ELSE 0]
    BY <1>4 DEF best, quick, increase, Sound, UserData
  <2> HIDE DEF new
  <2> QED BY <1>1, <2>1 DEF user_network_delay, sample, added, avg, share
<1> HIDE DEF new
<1>11. data' \in [Viewers -> UserData] BY <1>9, <1>10 DEF QoSTypeOK, Sound
<1>12. /\ fps' \in MIN_FPS..MAX_FPS
       /\ \A w \in users : /\ data'[w].fps # None => fps' <= data'[w].fps
                           /\ data'[w].delayed => fps' <= MIN_FPS + 1
  BY <1>10, <1>11, Adjusted
<1>13. /\ users' = users /\ fresh' = fresh /\ options' = options
       /\ test' = [test EXCEPT ![u] = "none"]
  BY <1>1 DEF user_network_delay
<1>14. QoSTypeOK' BY <1>9, <1>10, <1>12, <1>13, OneChanges DEF QoSTypeOK
<1>15. ViewersSpared' BY <1>12, <1>13 DEF ViewersSpared
<1> QED BY <1>14, <1>15

\* test_delay_timer, with an answer that is overdue or not.
LEMMA TimerInv ==
    ASSUME QoSInv, NEW u \in Viewers, TestDelayTimer(u)
    PROVE  QoSInv'
<1> USE DEF QoSInv
<1>1. Sound(data[u]) /\ data \in [Viewers -> UserData] BY DEF QoSTypeOK, Sound
<1>2. /\ users' = users /\ fresh' = fresh /\ options' = options
      /\ test' \in [Viewers -> {"none", "sent", "late"}]
  BY DEF TestDelayTimer, QoSTypeOK
<1>3. CASE /\ data' = [data EXCEPT ![u].delayed = FALSE] /\ fps' = fps
  <2> DEFINE d == [data[u] EXCEPT !.delayed = FALSE]
  <2>1. Sound(d) BY <1>1 DEF Sound, UserData
  <2>2. data' = [data EXCEPT ![u] = d] BY <1>1, <1>3
  <2>3. /\ d.fps = data[u].fps /\ d.delayed = FALSE
    BY <1>1 DEF Sound, UserData
  <2> HIDE DEF d
  <2>4. QoSTypeOK' BY <1>2, <1>3, <2>1, <2>2, OneChanges DEF QoSTypeOK
  <2>5. \A v \in Viewers : data'[v] = IF v = u THEN d ELSE data[v] BY <1>1, <2>2
  <2>6. ViewersSpared'
    BY <1>2, <1>3, <2>3, <2>5 DEF QoSTypeOK, ViewersSpared
  <2> QED BY <2>4, <2>6
<1>4. ASSUME NEW elapsed \in Delays[u],
             data' = [data EXCEPT ![u] = [add_delay(@, elapsed)
                                            EXCEPT !.delayed = TRUE]],
             adjust_fps(data')
      PROVE  QoSInv'
  <2> DEFINE added == add_delay(data[u], elapsed)
             d == [added EXCEPT !.delayed = TRUE]
  <2>1. elapsed \in Samples BY DEF Samples
  <2>2. Sound(added) BY <1>1, <2>1, Updated
  <2> HIDE DEF added
  <2>3. Sound(d) BY <2>2 DEF Sound, UserData
  <2>4. data' = [data EXCEPT ![u] = d] BY <1>4 DEF added
  <2> HIDE DEF d
  <2>5. data' \in [Viewers -> UserData] BY <1>1, <2>3, <2>4 DEF Sound
  <2>6. /\ fps' \in MIN_FPS..MAX_FPS
        /\ \A w \in users : /\ data'[w].fps # None => fps' <= data'[w].fps
                            /\ data'[w].delayed => fps' <= MIN_FPS + 1
    BY <1>4, <2>5, Adjusted
  <2>7. QoSTypeOK' BY <1>2, <2>3, <2>4, <2>6, OneChanges DEF QoSTypeOK
  <2>8. ViewersSpared' BY <1>2, <2>6 DEF ViewersSpared
  <2> QED BY <2>7, <2>8
<1> QED BY <1>3, <1>4 DEF TestDelayTimer

\* A viewer comes, goes, or changes an option.
LEMMA UserInv ==
    ASSUME QoSInv, NEW u \in Viewers,
           on_connection_open(u) \/ on_connection_close(u) \/ Option(u)
    PROVE  QoSInv'
<1> USE DEF QoSInv
<1>1. Sound(data[u]) /\ data \in [Viewers -> UserData] BY DEF QoSTypeOK, Sound
<1>2. Sound(Fresh)
  BY VideoQoSAssumption DEF Sound, Fresh, UserData, HISTORY_DELAY_LEN
<1>3. FPS \in MIN_FPS..MAX_FPS BY VideoQoSAssumption
<1>4. CASE on_connection_open(u)
  <2>1. QoSTypeOK'
    BY <1>2, <1>4, OneChanges DEF on_connection_open, QoSTypeOK
  <2>2. \A v \in Viewers : data'[v] = IF v = u THEN Fresh ELSE data[v]
    BY <1>1, <1>4 DEF on_connection_open
  <2>3. Fresh.fps = None /\ Fresh.delayed = FALSE BY DEF Fresh
  <2>4. ViewersSpared'
    BY <1>4, <2>2, <2>3 DEF on_connection_open, QoSTypeOK, ViewersSpared
  <2> QED BY <2>1, <2>4
<1>5. CASE on_connection_close(u)
  <2>1. fps' \in MIN_FPS..MAX_FPS
    BY <1>3, <1>5 DEF on_connection_close, QoSTypeOK
  <2>2. QoSTypeOK'
    BY <1>2, <1>5, <2>1, OneChanges DEF on_connection_close, QoSTypeOK
  <2>3. \A v \in Viewers : v # u => data'[v] = data[v]
    BY <1>1, <1>5 DEF on_connection_close
  <2>4. users' = users \ {u} /\ (users' # {} => fps' = fps)
    BY <1>5 DEF on_connection_close
  <2>5. ViewersSpared'
    BY <2>3, <2>4 DEF QoSTypeOK, ViewersSpared
  <2> QED BY <2>2, <2>5
<1>6. CASE Option(u)
  <2>1. PICK d : /\ data' = [data EXCEPT ![u] = d] /\ Sound(d)
                 /\ d.fps = data[u].fps /\ d.delayed = data[u].delayed
    <3>1. CASE LimitFps(u)
      <4>1. ASSUME NEW f \in Limits, data' = [data EXCEPT ![u].custom = f]
            PROVE  \E d : /\ data' = [data EXCEPT ![u] = d] /\ Sound(d)
                          /\ d.fps = data[u].fps /\ d.delayed = data[u].delayed
        <5> DEFINE d == [data[u] EXCEPT !.custom = f]
        <5>1. data' = [data EXCEPT ![u] = d] BY <4>1
        <5>2. Sound(d) /\ d.fps = data[u].fps /\ d.delayed = data[u].delayed
          BY <1>1 DEF Sound, UserData
        <5> QED BY <5>1, <5>2
      <4>2. ASSUME NEW f \in AutoLimits, data' = [data EXCEPT ![u].auto = f]
            PROVE  \E d : /\ data' = [data EXCEPT ![u] = d] /\ Sound(d)
                          /\ d.fps = data[u].fps /\ d.delayed = data[u].delayed
        <5> DEFINE d == [data[u] EXCEPT !.auto = f]
        <5>1. data' = [data EXCEPT ![u] = d] BY <4>2
        <5>2. Sound(d) /\ d.fps = data[u].fps /\ d.delayed = data[u].delayed
          BY <1>1 DEF Sound, UserData
        <5> QED BY <5>1, <5>2
      <4> QED BY <3>1, <4>1, <4>2 DEF LimitFps
    <3>2. ASSUME NEW q \in Qualities, user_image_quality(u, q)
          PROVE  \E d : /\ data' = [data EXCEPT ![u] = d] /\ Sound(d)
                        /\ d.fps = data[u].fps /\ d.delayed = data[u].delayed
      <4> DEFINE r == [time |-> options', kind |-> q]
                 d == [data[u] EXCEPT !.quality = r]
      <4>1. data' = [data EXCEPT ![u] = d] BY <3>2 DEF user_image_quality
      <4>2. options' \in 0..MaxOptions
        BY <3>2, VideoQoSAssumption DEF user_image_quality, QoSTypeOK
      <4>3. r \in [time : 0..MaxOptions, kind : Qualities] BY <4>2
      <4> HIDE DEF r
      <4>4. Sound(d) /\ d.fps = data[u].fps /\ d.delayed = data[u].delayed
        BY <1>1, <4>3 DEF Sound, UserData
      <4> QED BY <4>1, <4>4
    <3> QED BY <1>6, <3>1, <3>2 DEF Option
  <2>2. /\ options' \in 0..MaxOptions /\ fps' = fps /\ users' = users
        /\ fresh' = fresh /\ test' = test
    BY <1>6, VideoQoSAssumption
       DEF Option, LimitFps, user_image_quality, QoSTypeOK
  <2>3. QoSTypeOK' BY <2>1, <2>2, OneChanges DEF QoSTypeOK
  <2>4. \A v \in Viewers : data'[v] = IF v = u THEN d ELSE data[v] BY <1>1, <2>1
  <2>5. ViewersSpared' BY <2>1, <2>2, <2>4 DEF QoSTypeOK, ViewersSpared
  <2> QED BY <2>3, <2>5
<1> QED BY <1>4, <1>5, <1>6

\* Every step keeps the inductive invariant.
LEMMA RateNext == QoSInv /\ [QoSNext]_qosVars => QoSInv'
<1> SUFFICES ASSUME QoSInv, [QoSNext]_qosVars PROVE QoSInv' OBVIOUS
<1>1. ASSUME NEW u \in Viewers, Reply(u) PROVE QoSInv' BY <1>1, ReplyInv
<1>2. ASSUME NEW u \in Viewers, TestDelayTimer(u) PROVE QoSInv'
  BY <1>2, TimerInv
<1>3. ASSUME NEW u \in Viewers,
             on_connection_open(u) \/ on_connection_close(u) \/ Option(u)
      PROVE  QoSInv'
  BY <1>3, UserInv
<1>4. CASE update_display_data
  <2>1. adjust_fps(data) /\ UNCHANGED <<users, data, fresh, test, options>>
    BY <1>4 DEF update_display_data
  <2>2. /\ fps' \in MIN_FPS..MAX_FPS
        /\ \A w \in users : /\ data[w].fps # None => fps' <= data[w].fps
                            /\ data[w].delayed => fps' <= MIN_FPS + 1
    BY <2>1, Adjusted DEF QoSInv, QoSTypeOK
  <2> QED BY <2>1, <2>2 DEF QoSInv, QoSTypeOK, ViewersSpared
<1>5. CASE SecondPasses
  BY <1>5 DEF SecondPasses, QoSInv, QoSTypeOK, ViewersSpared
<1>6. CASE UNCHANGED qosVars
  BY <1>6 DEF qosVars, QoSInv, QoSTypeOK, ViewersSpared
<1> QED BY <1>1, <1>2, <1>3, <1>4, <1>5, <1>6 DEF QoSNext

\* Every rate stays in its range, no viewer is sent more frames than its
\* network was last found to stand, and none whose answer is overdue more than
\* two a second, for any number of viewers, delays, limits and qualities: the
\* rate that adjust_fps finds is right for all, and no other step raises it.
THEOREM ViewersAreSpared == QoSSpec => []QoSInv
<1>1. QoSInit => QoSInv BY RateInit
<1>2. QoSInv /\ [QoSNext]_qosVars => QoSInv' BY RateNext
<1> QED BY <1>1, <1>2, PTL DEF QoSSpec

=============================================================================
