--------------------------- MODULE ServiceProofs ---------------------------
(***************************************************************************)
(* Theorems about Service for every set of connections and services.       *)
(***************************************************************************)
EXTENDS Service, FiniteSetTheorems, TLAPS

\* CONN_COUNT, the length of the connections map, is a natural number.
LEMMA CountIsNat ==
    ASSUME NEW S \in SUBSET Conns
    PROVE  Cardinality(S) \in Nat
BY ServiceAssumption, FS_Subset, FS_CardinalityType

MapTypes == /\ subscribes \in [Services -> SUBSET Conns]
            /\ new_subscribes \in [Services -> SUBSET Conns]

CallTypes == /\ call \in Calls
             /\ caller \in Conns \cup {NoConn}
             /\ todo \subseteq Requests
             /\ item \subseteq Requests

ThreadTypes == /\ pc \in [Services -> Pcs]
               /\ latest \in [Services -> 1 .. MaxVer]
               /\ shown \in [Services -> 0 .. MaxVer]
               /\ seen \in [Services -> [Conns -> 0 .. MaxVer]]

ServerTypes == /\ services \subseteq Services
               /\ connections \subseteq Conns
               /\ CONN_COUNT \in Nat
               /\ closed \subseteq Conns
               /\ remote \subseteq Conns

\* A call that is in progress works for a connection that is not removed.
CallerOpen == call \notin {"idle", "drop"} => caller \in Conns \ closed

IndType == TypeOK /\ CallerOpen

\* TypeOK is the conjunction of the types of its parts, and a request is a pair.
LEMMA TypeParts ==
    /\ TypeOK <=> /\ ServerTypes /\ CallTypes /\ MapTypes /\ ThreadTypes
                  /\ active \in [Services -> BOOLEAN]
                  /\ want \in [Services -> SUBSET Conns]
    /\ CallTypes => \A r \in todo \cup item :
                        /\ r \in Requests
                        /\ r[1] \in Services
                        /\ r[2] \in BOOLEAN
BY DEF TypeOK, ServerTypes, CallTypes, MapTypes, ThreadTypes, Requests

\* on_subscribe, on_unsubscribe and the swap keep the types of the two maps.
LEMMA MapUpdates ==
    ASSUME MapTypes, NEW s \in Services, NEW c \in Conns,
           \/ on_subscribe(s, c) \/ on_unsubscribe(s, c)
           \/ swap_new_subscribes(s) \/ UNCHANGED mapVars
    PROVE  MapTypes'
BY DEF MapTypes, on_subscribe, on_unsubscribe, swap_new_subscribes, mapVars

\* The steps of a call of Server keep the type of its progress.
LEMMA CallUpdates ==
    ASSUME CallTypes,
           \/ \E k \in Calls, r \in Requests : Done(k, r)
           \/ Return
           \/ UNCHANGED callVars
    PROVE  CallTypes'
BY DEF CallTypes, Done, Return, callVars, Calls

\* The state after server::new is well typed.
LEMMA InitType == Init => IndType
BY ServiceAssumption DEF Init, IndType, TypeOK, CallerOpen, Calls, Pcs

\* Every step of a caller or of a service thread keeps the types.
LEMMA NextType == IndType /\ [Next]_vars => IndType'
<1> SUFFICES ASSUME IndType, [Next]_vars PROVE IndType'
  OBVIOUS
<1>t. /\ CallerOpen /\ ServerTypes /\ CallTypes /\ MapTypes /\ ThreadTypes
      /\ active \in [Services -> BOOLEAN] /\ want \in [Services -> SUBSET Conns]
  BY TypeParts DEF IndType
<1>r. \A r \in todo \cup item :
          r \in Requests /\ r[1] \in Services /\ r[2] \in BOOLEAN
  BY <1>t, TypeParts
<1>q. ASSUME CallerOpen', ServerTypes', CallTypes', MapTypes', ThreadTypes',
             (active \in [Services -> BOOLEAN])',
             (want \in [Services -> SUBSET Conns])'
      PROVE  IndType'
  BY <1>q DEF IndType, TypeOK, ServerTypes, CallTypes, MapTypes, ThreadTypes
<1>1. CASE Call
  <2>0. ASSUME NEW kind \in {"add", "add_camera", "remove", "subscribe"},
               NEW c \in Conns, NEW requests \in SUBSET Requests,
               Begin(kind, c, requests), services' \subseteq Services,
               UNCHANGED <<connections, CONN_COUNT, closed, remote, threadVars,
                           mapVars, active, seen, want>>
        PROVE IndType'
    <3>1. CallTypes' /\ CallerOpen'
      BY <2>0, <1>t DEF Begin, CallTypes, CallerOpen, Calls
    <3>2. ServerTypes' /\ MapTypes' /\ ThreadTypes'
      BY <2>0, <1>t DEF ServerTypes, MapTypes, ThreadTypes, mapVars, threadVars
    <3> QED BY <2>0, <1>t, <1>q, <3>1, <3>2
  <2>1. ASSUME NEW c \in Conns, NEW noperms \in SUBSET (Services \ Video),
               AddConnection(c, noperms)
        PROVE IndType'
    BY <2>0, <2>1, <1>t DEF AddConnection, Requests, serverVars, ServerTypes
  <2>2. ASSUME NEW c \in Conns, AddCameraConnection(c) PROVE IndType'
    BY <2>0, <2>2, <1>t
       DEF AddCameraConnection, Requests, serverVars, ServerTypes
  <2>3. ASSUME NEW c \in Conns, RemoveConnection(c) PROVE IndType'
    BY <2>0, <2>3, <1>t DEF RemoveConnection, Requests, serverVars, ServerTypes
  <2>4. ASSUME NEW c \in Conns, NEW s \in Services, NEW sub \in BOOLEAN,
               Subscribe(c, s, sub)
        PROVE IndType'
    BY <2>0, <2>4, <1>t DEF Subscribe, Requests, serverVars, ServerTypes
  <2>5. ASSUME NEW c \in Conns,
               NEW displays \in (SUBSET Monitors) \cup (SUBSET Cameras),
               NEW include \in BOOLEAN, NEW exclude \in BOOLEAN,
               CaptureDisplays(c, displays, include, exclude)
        PROVE IndType'
    BY <2>0, <2>5, <1>t, ServiceAssumption
       DEF CaptureDisplays, Requests, ServerTypes
  <2>6. ASSUME ServerDrop PROVE IndType'
    <3>1. CallTypes' /\ CallerOpen'
      BY <2>6, <1>t DEF ServerDrop, CallTypes, CallerOpen, Calls, Requests,
                        ServerTypes
    <3>2. ServerTypes' /\ MapTypes' /\ ThreadTypes'
      BY <2>6, <1>t DEF ServerDrop, ServerTypes, MapTypes, ThreadTypes,
                        mapVars, threadVars, serverVars
    <3> QED BY <2>6, <1>t, <1>q, <3>1, <3>2 DEF ServerDrop
  <2> QED BY <1>1, <2>1, <2>2, <2>3, <2>4, <2>5, <2>6 DEF Call
<1>2. CASE Continue
  <2>0. ASSUME UNCHANGED <<threadVars, seen>>
        PROVE  ThreadTypes'
    BY <2>0, <1>t DEF threadVars, ThreadTypes
  <2>00. ASSUME UNCHANGED serverVars
         PROVE  ServerTypes'
    BY <2>00, <1>t DEF serverVars, ServerTypes
  <2>1. ASSUME NEW r \in todo, AddStep(r) \/ RemoveStep(r) PROVE IndType'
    <3>1. caller \in Conns /\ call \in Calls
      BY <2>1, <1>t DEF AddStep, RemoveStep, CallerOpen, CallTypes
    <3>2. CallTypes'
      BY <2>1, <1>r, <1>t, <3>1, CallUpdates DEF AddStep, RemoveStep
    <3>3. CallerOpen'
      BY <2>1, <1>t DEF AddStep, RemoveStep, CallerOpen, Done, serverVars
    <3>4. MapTypes'
      BY <2>1, <1>r, <3>1, <1>t, MapUpdates DEF AddStep, RemoveStep
    <3>5. (want \in [Services -> SUBSET Conns])'
      BY <2>1, <1>r, <3>1, <1>t DEF AddStep, RemoveStep
    <3> QED BY <2>1, <1>t, <1>q, <2>0, <2>00, <3>2, <3>3, <3>4, <3>5
        DEF AddStep, RemoveStep
  <2>3. ASSUME NEW r \in todo, IsSubedSubscribes(r) PROVE IndType'
    <3>1. caller \in Conns
      BY <2>3, <1>t DEF IsSubedSubscribes, CallerOpen
    <3>2. CallTypes' /\ CallerOpen'
      BY <2>3, <1>r, <1>t
         DEF IsSubedSubscribes, CallTypes, CallerOpen, Calls, Done, serverVars
    <3>3. (want \in [Services -> SUBSET Conns])'
      BY <2>3, <1>r, <3>1, <1>t DEF IsSubedSubscribes, Record
    <3>4. MapTypes'
      BY <2>3, <1>t DEF IsSubedSubscribes, MapTypes, mapVars
    <3> QED BY <2>3, <1>t, <1>q, <2>0, <2>00, <3>2, <3>3, <3>4
        DEF IsSubedSubscribes
  <2>4. ASSUME NEW r \in todo, Deactivate(r) PROVE IndType'
    <3>1. CallTypes' /\ CallerOpen'
      BY <2>4, <1>r, <1>t DEF Deactivate, CallTypes, CallerOpen
    <3>2. (active \in [Services -> BOOLEAN])' /\ MapTypes'
      BY <2>4, <1>r, <1>t DEF Deactivate, MapTypes, mapVars
    <3> QED BY <2>4, <1>t, <1>q, <2>0, <2>00, <3>1, <3>2 DEF Deactivate
  <2>5. ASSUME NEW r \in item, IsSubedNew(r) PROVE IndType'
    <3>1. CallTypes' /\ CallerOpen'
      BY <2>5, <1>r, <1>t
         DEF IsSubedNew, CallTypes, CallerOpen, Calls, Done, serverVars
    <3>2. MapTypes'
      BY <2>5, <1>t DEF IsSubedNew, MapTypes, mapVars
    <3> QED BY <2>5, <1>t, <1>q, <2>0, <2>00, <3>1, <3>2 DEF IsSubedNew
  <2>6. ASSUME NEW r \in item, ApplySubscribe(r) PROVE IndType'
    <3>1. CallTypes' /\ CallerOpen'
      BY <2>6, <1>r, <1>t
         DEF ApplySubscribe, CallTypes, CallerOpen, Calls, Done, serverVars
    <3>2. caller \in Conns
      BY <2>6, <1>t DEF ApplySubscribe, CallerOpen
    <3>3. MapTypes'
      BY <2>6, <1>r, <3>2, <1>t, MapUpdates DEF ApplySubscribe
    <3> QED BY <2>6, <1>t, <1>q, <2>0, <2>00, <3>1, <3>3 DEF ApplySubscribe
  <2>7. ASSUME NEW r \in item, Join(r) PROVE IndType'
    <3>1. CallTypes' /\ CallerOpen'
      BY <2>7, <1>r, <1>t DEF Join, CallTypes, CallerOpen, Calls, Done
    <3>2. MapTypes'
      BY <2>7, <1>t DEF Join, MapTypes, mapVars
    <3> QED BY <2>7, <1>t, <1>q, <2>0, <2>00, <3>1, <3>2 DEF Join
  <2>8. ASSUME FinishAdd \/ FinishRemove PROVE IndType'
    <3>1. caller \in Conns
      BY <2>8, <1>t DEF FinishAdd, FinishRemove, CallerOpen
    <3>2. CallTypes' /\ CallerOpen'
      BY <2>8, <1>t DEF FinishAdd, FinishRemove, Return, CallTypes, CallerOpen,
                        Calls
    <3>3. ServerTypes'
      BY <2>8, <1>t, <3>1, CountIsNat DEF FinishAdd, FinishRemove, ServerTypes
    <3>4. MapTypes'
      BY <2>8, <1>t DEF FinishAdd, FinishRemove, MapTypes, mapVars
    <3> QED BY <2>8, <1>t, <1>q, <2>0, <3>2, <3>3, <3>4
        DEF FinishAdd, FinishRemove
  <2>9. ASSUME FinishSubscribe PROVE IndType'
    <3>1. CallTypes' /\ CallerOpen'
      BY <2>9, <1>t DEF FinishSubscribe, Return, CallTypes, CallerOpen, Calls
    <3>2. MapTypes'
      BY <2>9, <1>t DEF FinishSubscribe, MapTypes, mapVars
    <3> QED BY <2>9, <1>t, <1>q, <2>0, <2>00, <3>1, <3>2 DEF FinishSubscribe
  <2> QED BY <1>2, <2>1, <2>3, <2>4, <2>5, <2>6, <2>7, <2>8, <2>9 DEF Continue
<1>3. ASSUME NEW s \in Services, Thread(s) PROVE IndType'
  <2>1. UNCHANGED <<serverVars, callVars, active, want>>
    BY <1>3 DEF Thread, ThreadHead, ThreadCheck, Publish, NothingToPublish,
                CallbackError, Snapshot, SwapSend, SwapError, SwapDrop
  <2>2. ServerTypes' /\ CallTypes' /\ CallerOpen'
    BY <2>1, <1>t DEF serverVars, callVars, ServerTypes, CallTypes, CallerOpen
  <2>3. MapTypes'
    <3>1. UNCHANGED mapVars \/ swap_new_subscribes(s)
      BY <1>3 DEF Thread, ThreadHead, ThreadCheck, Publish, NothingToPublish,
                  CallbackError, Snapshot, SwapSend, SwapError, SwapDrop
    <3> QED BY <3>1, <1>t DEF MapTypes, mapVars, swap_new_subscribes
  <2>4. pc' \in [Services -> Pcs]
    BY <1>3, <1>t DEF Thread, ThreadHead, ThreadCheck, Publish,
                NothingToPublish, CallbackError, Snapshot, SwapSend, SwapError,
                SwapDrop, Goto, Pcs, ThreadTypes
  <2>5. latest' = latest
    BY <1>3 DEF Thread, ThreadHead, ThreadCheck, Publish, NothingToPublish,
                CallbackError, Snapshot, SwapSend, SwapError, SwapDrop
  <2>6. /\ shown' \in [Services -> 0 .. MaxVer]
        /\ \A v \in {0, latest[s], shown[s]} : v \in 0 .. MaxVer
    BY <1>3, <1>t, ServiceAssumption DEF Thread, ThreadHead, ThreadCheck,
                Publish, NothingToPublish, CallbackError, Snapshot, SwapSend,
                SwapError, SwapDrop, ThreadTypes
  <2>7. \/ UNCHANGED seen
        \/ \E R \in SUBSET Conns, v \in 0 .. MaxVer : send_shared(s, R, v)
    BY <1>3, <1>t, <2>6 DEF Thread, ThreadHead, ThreadCheck, Publish,
                NothingToPublish, CallbackError, Snapshot, SwapSend, SwapError,
                SwapDrop, MapTypes
  <2>8. seen' \in [Services -> [Conns -> 0 .. MaxVer]]
    BY <2>7, <1>t DEF send_shared, ThreadTypes
  <2> QED BY <1>q, <1>t, <2>1, <2>2, <2>3, <2>4, <2>5, <2>6, <2>8
      DEF ThreadTypes
<1>4. ASSUME NEW s \in Services, PlatformChange(s) PROVE IndType'
  <2>1. latest' \in [Services -> 1 .. MaxVer]
    BY <1>4, <1>t, ServiceAssumption DEF PlatformChange, ThreadTypes
  <2> QED BY <1>4, <1>t, <1>q, <2>1
      DEF PlatformChange, serverVars, callVars, mapVars, ServerTypes,
          CallTypes, MapTypes, ThreadTypes, CallerOpen
<1>5. CASE UNCHANGED vars
  BY <1>5, <1>t, <1>q DEF vars, ServerTypes, CallTypes, MapTypes, ThreadTypes,
                          CallerOpen
<1> QED BY <1>1, <1>2, <1>3, <1>4, <1>5 DEF Next

(* The state of the Server and of every service keeps its type.            *)
THEOREM TypeCorrect == Spec => []TypeOK
<1>1. IndType => TypeOK
  BY DEF IndType
<1> QED BY InitType, NextType, <1>1, PTL DEF Spec

-----------------------------------------------------------------------------
(* What a step can do to the two maps of a service. *)

\* A step changes the two maps only by on_subscribe, on_unsubscribe or the swap
\* of one service.
LEMMA MapSteps ==
    ASSUME IndType, [Next]_vars
    PROVE  \/ UNCHANGED mapVars
           \/ \E s \in Services : swap_new_subscribes(s)
           \/ \E s \in Services : caller \in Conns /\ on_subscribe(s, caller)
           \/ \E s \in Services : caller \in Conns /\ on_unsubscribe(s, caller)
<1>r. \A r \in todo \cup item : r[1] \in Services
  BY TypeParts DEF IndType
<1>1. CASE Call \/ UNCHANGED vars \/ FinishAdd \/ FinishRemove
           \/ FinishSubscribe
  BY <1>1 DEF Call, AddConnection, AddCameraConnection, RemoveConnection,
     Subscribe, CaptureDisplays, ServerDrop, vars, mapVars, FinishAdd,
     FinishRemove, FinishSubscribe
<1>2. ASSUME NEW r \in todo,
             AddStep(r) \/ RemoveStep(r) \/ IsSubedSubscribes(r) \/ Deactivate(r)
      PROVE  \/ UNCHANGED mapVars
             \/ \E s \in Services : caller \in Conns /\ on_subscribe(s, caller)
             \/ \E s \in Services : caller \in Conns /\ on_unsubscribe(s, caller)
  <2>1. CASE AddStep(r)
    BY <2>1, <1>r DEF AddStep, IndType, CallerOpen
  <2>2. CASE RemoveStep(r)
    BY <2>2, <1>r DEF RemoveStep, IndType, CallerOpen
  <2>3. CASE IsSubedSubscribes(r) \/ Deactivate(r)
    BY <2>3 DEF IsSubedSubscribes, Deactivate
  <2> QED BY <1>2, <2>1, <2>2, <2>3
<1>3. ASSUME NEW r \in item, IsSubedNew(r) \/ ApplySubscribe(r) \/ Join(r)
      PROVE  \/ UNCHANGED mapVars
             \/ \E s \in Services : caller \in Conns /\ on_subscribe(s, caller)
             \/ \E s \in Services : caller \in Conns /\ on_unsubscribe(s, caller)
  <2>1. CASE ApplySubscribe(r)
    BY <2>1, <1>r DEF ApplySubscribe, IndType, CallerOpen
  <2>2. CASE IsSubedNew(r) \/ Join(r)
    BY <2>2 DEF IsSubedNew, Join
  <2> QED BY <1>3, <2>1, <2>2
<1>4. ASSUME NEW s \in Services, Thread(s) \/ PlatformChange(s)
      PROVE  UNCHANGED mapVars \/ swap_new_subscribes(s)
  BY <1>4 DEF Thread, ThreadHead, ThreadCheck, Publish, NothingToPublish,
     CallbackError, Snapshot, SwapSend, SwapError, SwapDrop, PlatformChange
<1> QED BY <1>1, <1>2, <1>3, <1>4 DEF Next, Continue

\* Every step keeps subscribes and new_subscribes of a service apart.
LEMMA NextDisjoint == IndType /\ MapsDisjoint /\ [Next]_vars => MapsDisjoint'
<1> SUFFICES ASSUME IndType, MapsDisjoint, [Next]_vars PROVE MapsDisjoint'
  OBVIOUS
<1>t. MapTypes
  BY TypeParts DEF IndType
<1>1. CASE UNCHANGED mapVars
  BY <1>1 DEF mapVars, MapsDisjoint
<1>2. ASSUME NEW s \in Services, swap_new_subscribes(s) PROVE MapsDisjoint'
  BY <1>2, <1>t DEF swap_new_subscribes, MapsDisjoint, MapTypes
<1>3. ASSUME NEW s \in Services, caller \in Conns, on_subscribe(s, caller)
      PROVE  MapsDisjoint'
  BY <1>3, <1>t DEF on_subscribe, MapsDisjoint, MapTypes
<1>4. ASSUME NEW s \in Services, caller \in Conns, on_unsubscribe(s, caller)
      PROVE  MapsDisjoint'
  BY <1>4, <1>t DEF on_unsubscribe, MapsDisjoint, MapTypes
<1> QED BY MapSteps, <1>1, <1>2, <1>3, <1>4

(* on_subscribe, on_unsubscribe and the swap keep the two maps apart, in    *)
(* any interleaving.                                                        *)
THEOREM Disjoint == Spec => []MapsDisjoint
<1>1. Init => MapsDisjoint
  BY DEF Init, MapsDisjoint
<1> QED BY InitType, NextType, NextDisjoint, <1>1, PTL DEF Spec

-----------------------------------------------------------------------------
(* A removed connection is gone.  The inductive invariant says how far the  *)
(* loop of remove_connection has come: the services it is done with do not  *)
(* hold the connection, and nor does a service that is not registered.      *)

Holds(s, c) == c \in subscribes[s] \cup new_subscribes[s]

Registered ==
    /\ \A r \in todo \cup item : r[1] \in services
    /\ \A s \in Services \ services : \A c \in Conns : ~Holds(s, c)

RemoveProgress ==
    call = "remove" =>
        \A s \in Services : <<s, FALSE>> \notin todo => ~Holds(s, caller)

IndRemoved == Registered /\ RemoveProgress /\ RemovedIsGone

\* Only a request the caller has in hand changes whom a service holds.
LEMMA HoldsUpdates ==
    ASSUME MapTypes, MapsDisjoint, NEW s \in Services, NEW c \in Conns
    PROVE  /\ on_subscribe(s, c) =>
                \A x \in Services, d \in Conns :
                    Holds(x, d)' <=> Holds(x, d) \/ (x = s /\ d = c)
           /\ on_unsubscribe(s, c) =>
                \A x \in Services, d \in Conns :
                    Holds(x, d)' <=> Holds(x, d) /\ ~(x = s /\ d = c)
           /\ swap_new_subscribes(s) =>
                \A x \in Services, d \in Conns : Holds(x, d)' <=> Holds(x, d)
           /\ UNCHANGED mapVars =>
                \A x \in Services, d \in Conns : Holds(x, d)' <=> Holds(x, d)
BY DEF MapTypes, MapsDisjoint, Holds, on_subscribe, on_unsubscribe,
       swap_new_subscribes, mapVars

\* Every step keeps removed connections out of the services, with what the loop
\* of remove_connection has still to do.
LEMMA NextRemoved ==
    IndType /\ MapsDisjoint /\ IndRemoved /\ [Next]_vars => IndRemoved'
<1> SUFFICES ASSUME IndType, MapsDisjoint, IndRemoved, [Next]_vars
             PROVE IndRemoved'
  OBVIOUS
<1>t. /\ CallerOpen /\ ServerTypes /\ CallTypes /\ MapTypes
      /\ Registered /\ RemoveProgress
      /\ \A c \in closed, s \in Services : ~Holds(s, c)
  BY TypeParts DEF IndType, IndRemoved, RemovedIsGone, Holds
<1>r. \A r \in todo \cup item :
          r \in Requests /\ r[1] \in Services /\ r[2] \in BOOLEAN
  BY <1>t, TypeParts
<1>n. ServerTypes' /\ CallTypes'
  BY NextType, TypeParts DEF IndType, TypeOK, ServerTypes, CallTypes
<1>q. ASSUME Registered', RemoveProgress',
             \A c \in closed', s \in Services : ~Holds(s, c)'
      PROVE  IndRemoved'
  BY <1>q DEF IndRemoved, RemovedIsGone, Holds
<1>s. ASSUME \A s \in Services, c \in Conns : Holds(s, c)' <=> Holds(s, c),
             UNCHANGED <<serverVars, callVars>>
      PROVE  IndRemoved'
  BY <1>s, <1>t, <1>q
     DEF serverVars, callVars, Registered, RemoveProgress, CallTypes,
         ServerTypes, CallerOpen
<1>1. CASE Call
  <2>1. \A s \in Services, c \in Conns : Holds(s, c)' <=> Holds(s, c)
    BY <1>1, <1>t, HoldsUpdates DEF Call, AddConnection, AddCameraConnection,
       RemoveConnection, Subscribe, CaptureDisplays, ServerDrop
  <2>2. closed' = closed /\ services \subseteq services'
    BY <1>1 DEF Call, AddConnection, AddCameraConnection, RemoveConnection,
       Subscribe, CaptureDisplays, ServerDrop, serverVars
  <2>3. \A r \in todo' \cup item' : r[1] \in services'
    <3>1. ASSUME NEW S \in SUBSET services', NEW b \in BOOLEAN
          PROVE  \A r \in S \X {b} : r[1] \in services'
      OBVIOUS
    <3>2. ASSUME NEW c \in Conns, NEW noperms \in SUBSET (Services \ Video),
                 AddConnection(c, noperms)
          PROVE  \A r \in todo' \cup item' : r[1] \in services'
      BY <3>1, <3>2, <2>2 DEF AddConnection, Begin
    <3>3. ASSUME NEW c \in Conns, AddCameraConnection(c) \/ RemoveConnection(c)
          PROVE  \A r \in todo' \cup item' : r[1] \in services'
      BY <3>1, <3>3, <2>2 DEF AddCameraConnection, RemoveConnection, Begin
    <3>4. ASSUME NEW c \in Conns, NEW s \in Services, NEW sub \in BOOLEAN,
                 Subscribe(c, s, sub)
          PROVE  \A r \in todo' \cup item' : r[1] \in services'
      BY <3>4, <2>2 DEF Subscribe, Begin
    <3>5. ASSUME NEW c \in Conns,
                 NEW displays \in (SUBSET Monitors) \cup (SUBSET Cameras),
                 NEW include \in BOOLEAN, NEW exclude \in BOOLEAN,
                 CaptureDisplays(c, displays, include, exclude)
          PROVE  \A r \in todo' \cup item' : r[1] \in services'
      BY <3>1, <3>5 DEF CaptureDisplays, Begin
    <3>6. ASSUME ServerDrop
          PROVE  \A r \in todo' \cup item' : r[1] \in services'
      BY <3>1, <3>6, <2>2, <1>t DEF ServerDrop, Registered
    <3> QED BY <1>1, <3>2, <3>3, <3>4, <3>5, <3>6 DEF Call
  <2>4. Registered'
    BY <2>1, <2>2, <2>3, <1>t DEF Registered
  <2>5. RemoveProgress'
    <3>1. CASE \E c \in Conns : RemoveConnection(c)
      BY <3>1, <2>1, <1>t
         DEF RemoveConnection, Begin, RemoveProgress, Registered, serverVars
    <3>2. CASE ~ \E c \in Conns : RemoveConnection(c)
      BY <1>1, <3>2 DEF Call, AddConnection, AddCameraConnection,
         Subscribe, CaptureDisplays, ServerDrop, Begin, RemoveProgress
    <3> QED BY <3>1, <3>2
  <2> QED BY <1>q, <1>t, <2>1, <2>2, <2>4, <2>5 DEF ServerTypes
<1>2. ASSUME NEW r \in todo, AddStep(r) PROVE IndRemoved'
  <2>1. caller \in Conns \ closed
    BY <1>2, <1>t DEF AddStep, CallerOpen
  <2>2. \A x \in Services, d \in Conns :
           Holds(x, d)' <=> Holds(x, d) \/ (x = r[1] /\ d = caller)
    BY <1>2, <1>r, <1>t, <2>1, HoldsUpdates DEF AddStep
  <2>3. call' # "remove" /\ closed' = closed /\ services' = services
        /\ todo' \subseteq todo /\ item' = {}
    BY <1>2 DEF AddStep, Done, serverVars
  <2> QED BY <1>q, <1>t, <2>1, <2>2, <2>3
      DEF Registered, RemoveProgress, ServerTypes
<1>3. ASSUME NEW r \in todo, RemoveStep(r) PROVE IndRemoved'
  <2>1. caller \in Conns \ closed
    BY <1>3, <1>t DEF RemoveStep, CallerOpen
  <2>2. \A x \in Services, d \in Conns :
           Holds(x, d)' <=> Holds(x, d) /\ ~(x = r[1] /\ d = caller)
    BY <1>3, <1>r, <1>t, <2>1, HoldsUpdates DEF RemoveStep
  <2>3. /\ closed' = closed /\ services' = services /\ caller' = caller
        /\ todo' = todo \ {r} /\ item' = {} /\ call = "remove"
    BY <1>3 DEF RemoveStep, Done, serverVars
  <2>4. Registered'
    BY <1>t, <2>2, <2>3 DEF Registered
  <2>5. RemoveProgress'
    <3> SUFFICES ASSUME NEW s \in Services, <<s, FALSE>> \notin todo'
                 PROVE  ~Holds(s, caller)'
      BY <2>3 DEF RemoveProgress
    <3>1. CASE <<s, FALSE>> \notin todo
      BY <3>1, <1>t, <2>1, <2>2, <2>3 DEF RemoveProgress
    <3>2. CASE r = <<s, FALSE>>
      <4>1. r[1] = s
        BY <3>2
      <4> QED BY <4>1, <2>1, <2>2, <2>3
    <3> QED BY <3>1, <3>2, <2>3
  <2> QED BY <1>q, <1>t, <2>1, <2>2, <2>3, <2>4, <2>5 DEF ServerTypes
<1>4. ASSUME NEW r \in todo, IsSubedSubscribes(r) PROVE IndRemoved'
  <2>1. \A s \in Services, c \in Conns : Holds(s, c)' <=> Holds(s, c)
    BY <1>4, <1>t, HoldsUpdates DEF IsSubedSubscribes
  <2>2. /\ call' # "remove" /\ closed' = closed /\ services' = services
        /\ todo' \subseteq todo /\ item' \subseteq {r}
    BY <1>4 DEF IsSubedSubscribes, Done, serverVars
  <2> QED BY <1>q, <1>t, <2>1, <2>2
      DEF Registered, RemoveProgress, ServerTypes
<1>5. ASSUME NEW r \in todo, Deactivate(r) PROVE IndRemoved'
  <2>1. \A s \in Services, c \in Conns : Holds(s, c)' <=> Holds(s, c)
    BY <1>5, <1>t, HoldsUpdates DEF Deactivate
  <2>2. /\ call' # "remove" /\ closed' = closed /\ services' = services
        /\ todo' = todo /\ item' = {r}
    BY <1>5 DEF Deactivate, serverVars
  <2> QED BY <1>q, <1>t, <2>1, <2>2
      DEF Registered, RemoveProgress, ServerTypes
<1>6. ASSUME NEW r \in item, IsSubedNew(r) \/ Join(r) PROVE IndRemoved'
  <2>1. \A s \in Services, c \in Conns : Holds(s, c)' <=> Holds(s, c)
    BY <1>6, <1>t, HoldsUpdates DEF IsSubedNew, Join
  <2>2. /\ call' # "remove" /\ closed' = closed /\ services' = services
        /\ todo' \subseteq todo /\ item' \subseteq item
    BY <1>6 DEF IsSubedNew, Join, Done, serverVars
  <2> QED BY <1>q, <1>t, <2>1, <2>2
      DEF Registered, RemoveProgress, ServerTypes
<1>7. ASSUME NEW r \in item, ApplySubscribe(r) PROVE IndRemoved'
  <2>1. caller \in Conns \ closed
    BY <1>7, <1>t DEF ApplySubscribe, CallerOpen
  <2>2. \A x \in Services, d \in Conns :
           Holds(x, d)' => Holds(x, d) \/ (x = r[1] /\ d = caller)
    BY <1>7, <1>r, <1>t, <2>1, HoldsUpdates DEF ApplySubscribe
  <2>3. call' # "remove" /\ closed' = closed /\ services' = services
        /\ todo' \subseteq todo /\ item' = {}
    BY <1>7 DEF ApplySubscribe, Done, serverVars
  <2> QED BY <1>q, <1>t, <2>1, <2>2, <2>3
      DEF Registered, RemoveProgress, ServerTypes
<1>8. CASE FinishAdd \/ FinishSubscribe
  <2>1. \A s \in Services, c \in Conns : Holds(s, c)' <=> Holds(s, c)
    BY <1>8, <1>t, HoldsUpdates DEF FinishAdd, FinishSubscribe
  <2>2. /\ call' # "remove" /\ closed' = closed /\ services' = services
        /\ todo' = {} /\ item' = {}
    BY <1>8 DEF FinishAdd, FinishSubscribe, Return, serverVars
  <2> QED BY <1>q, <1>t, <2>1, <2>2
      DEF Registered, RemoveProgress, ServerTypes
<1>9. CASE FinishRemove
  <2>1. \A s \in Services, c \in Conns : Holds(s, c)' <=> Holds(s, c)
    BY <1>9, <1>t, HoldsUpdates DEF FinishRemove
  <2>2. /\ call' # "remove" /\ closed' = closed \cup {caller}
        /\ services' = services /\ todo' = {} /\ item' = {}
    BY <1>9 DEF FinishRemove, Return
  <2>3. caller \in Conns /\ \A s \in Services : ~Holds(s, caller)
    BY <1>9, <1>t DEF FinishRemove, CallerOpen, RemoveProgress
  <2> QED BY <1>q, <1>t, <2>1, <2>2, <2>3
      DEF Registered, RemoveProgress, ServerTypes
<1>10. ASSUME NEW s \in Services, Thread(s) \/ PlatformChange(s)
       PROVE IndRemoved'
  <2>1. UNCHANGED <<serverVars, callVars>>
        /\ (UNCHANGED mapVars \/ swap_new_subscribes(s))
    BY <1>10 DEF Thread, ThreadHead, ThreadCheck, Publish, NothingToPublish,
       CallbackError, Snapshot, SwapSend, SwapError, SwapDrop, PlatformChange
  <2>2. \A x \in Services, c \in Conns : Holds(x, c)' <=> Holds(x, c)
    <3> SUFFICES ASSUME NEW c \in Conns
                 PROVE  \A x \in Services : Holds(x, c)' <=> Holds(x, c)
      OBVIOUS
    <3> QED BY <2>1, <1>t, HoldsUpdates
  <2> QED BY <1>s, <2>1, <2>2
<1>11. CASE UNCHANGED vars
  <2>1. UNCHANGED <<serverVars, callVars, mapVars>>
    BY <1>11 DEF vars, serverVars, callVars, mapVars
  <2> QED BY <1>s, <2>1 DEF Holds, mapVars
<1> QED BY <1>1, <1>2, <1>3, <1>4, <1>5, <1>6, <1>7, <1>8, <1>9, <1>10, <1>11
    DEF Next, Continue

(* After remove_connection no service holds the connection again, whatever  *)
(* the service threads were doing when it ran.                              *)
THEOREM Removed == Spec => []RemovedIsGone
<1>1. Init => MapsDisjoint /\ IndRemoved
  BY DEF Init, MapsDisjoint, IndRemoved, Registered, RemoveProgress,
         RemovedIsGone, Holds
<1>2. IndRemoved => RemovedIsGone
  BY DEF IndRemoved
<1> QED BY InitType, NextType, NextDisjoint, NextRemoved, <1>1, <1>2, PTL
    DEF Spec

-----------------------------------------------------------------------------
(* A subscription is not lost.  Whoever wants a service and is not held by  *)
(* it is the caller of a subscribe(.., true) that is between its first read *)
(* and its write.                                                           *)

Pending ==
    \A s \in Services : \A c \in want[s] :
        \/ Holds(s, c)
        \/ /\ call \in {"read_new", "apply"} /\ caller = c
           /\ item = {<<s, TRUE>>}

ItemRecorded ==
    call \in {"read_new", "apply"} =>
        \A r \in item : r[2] = FALSE => caller \notin want[r[1]]

IndSubscribed == Pending /\ ItemRecorded

\* Every step keeps what was asked for in force or in the hands of the caller.
LEMMA NextSubscribed ==
    IndType /\ MapsDisjoint /\ IndSubscribed /\ [Next]_vars => IndSubscribed'
<1> SUFFICES ASSUME IndType, MapsDisjoint, IndSubscribed, [Next]_vars
             PROVE IndSubscribed'
  OBVIOUS
<1>t. /\ CallerOpen /\ CallTypes /\ MapTypes /\ Pending /\ ItemRecorded
      /\ want \in [Services -> SUBSET Conns]
  BY TypeParts DEF IndType, IndSubscribed
<1>r. \A r \in todo \cup item :
          /\ r \in Requests /\ r[1] \in Services /\ r[2] \in BOOLEAN
          /\ r = <<r[1], r[2]>>
  BY <1>t, TypeParts DEF Requests
<1>e. ASSUME NEW r \in todo \cup item, item = {r}
      PROVE  \A s \in Services : \A c \in want[s] :
                Holds(s, c) \/ (caller = c /\ r[1] = s /\ r[2] = TRUE)
  <2>1. \A s \in Services : {r} = {<<s, TRUE>>} => r[1] = s /\ r[2] = TRUE
    <3> SUFFICES ASSUME NEW s \in Services, {r} = {<<s, TRUE>>}
                 PROVE  r[1] = s /\ r[2] = TRUE
      OBVIOUS
    <3>1. r = <<s, TRUE>>
      OBVIOUS
    <3> QED BY <3>1
  <2> QED BY <1>e, <1>t, <2>1 DEF Pending
<1>s. ASSUME \A s \in Services, c \in Conns : Holds(s, c)' <=> Holds(s, c),
             want' = want,
             \/ UNCHANGED callVars
             \/ /\ call \notin {"read_new", "apply"}
                /\ call' \notin {"read_new", "apply"}
      PROVE  IndSubscribed'
  BY <1>s, <1>t DEF IndSubscribed, Pending, ItemRecorded, callVars
<1>1. CASE Call \/ FinishAdd \/ FinishRemove \/ FinishSubscribe
  <2>1. \A s \in Services, c \in Conns : Holds(s, c)' <=> Holds(s, c)
    BY <1>1, <1>t, HoldsUpdates DEF Call, AddConnection, AddCameraConnection,
       RemoveConnection, Subscribe, CaptureDisplays, ServerDrop, FinishAdd,
       FinishRemove, FinishSubscribe
  <2>2. /\ want' = want
        /\ call \notin {"read_new", "apply"} /\ call' \notin {"read_new", "apply"}
    BY <1>1 DEF Call, AddConnection, AddCameraConnection, RemoveConnection,
       Subscribe, CaptureDisplays, ServerDrop, FinishAdd, FinishRemove,
       FinishSubscribe, Begin, Return
  <2> QED BY <2>1, <2>2, <1>s
<1>2. ASSUME NEW r \in todo, AddStep(r) PROVE IndSubscribed'
  <2>1. caller \in Conns
    BY <1>2, <1>t DEF AddStep, CallerOpen
  <2>2. \A x \in Services, d \in Conns :
           Holds(x, d)' <=> Holds(x, d) \/ (x = r[1] /\ d = caller)
    BY <1>2, <1>r, <1>t, <2>1, HoldsUpdates DEF AddStep
  <2>3. /\ call \notin {"read_new", "apply"} /\ call' = call
        /\ want' = [want EXCEPT ![r[1]] = @ \cup {caller}]
    BY <1>2 DEF AddStep, Done
  <2> QED BY <1>t, <1>r, <2>1, <2>2, <2>3
      DEF IndSubscribed, Pending, ItemRecorded
<1>3. ASSUME NEW r \in todo, RemoveStep(r) PROVE IndSubscribed'
  <2>1. caller \in Conns
    BY <1>3, <1>t DEF RemoveStep, CallerOpen
  <2>2. \A x \in Services, d \in Conns :
           Holds(x, d)' <=> Holds(x, d) /\ ~(x = r[1] /\ d = caller)
    BY <1>3, <1>r, <1>t, <2>1, HoldsUpdates DEF RemoveStep
  <2>3. /\ call \notin {"read_new", "apply"} /\ call' = call
        /\ want' = [want EXCEPT ![r[1]] = @ \ {caller}]
    BY <1>3 DEF RemoveStep, Done
  <2> QED BY <1>t, <1>r, <2>1, <2>2, <2>3
      DEF IndSubscribed, Pending, ItemRecorded
<1>4. ASSUME NEW r \in todo, IsSubedSubscribes(r) PROVE IndSubscribed'
  <2>1. caller \in Conns /\ call \notin {"read_new", "apply"}
    BY <1>4, <1>t DEF IsSubedSubscribes, CallerOpen
  <2>2. \A s \in Services, c \in Conns : Holds(s, c)' <=> Holds(s, c)
    BY <1>4, <1>t, HoldsUpdates DEF IsSubedSubscribes
  <2>3. \A s \in Services : \A c \in want[s] : Holds(s, c)
    BY <2>1, <1>t DEF Pending
  <2>4. CASE r[2]
    <3>1. want' = [want EXCEPT ![r[1]] = @ \cup {caller}]
      BY <1>4, <2>4 DEF IsSubedSubscribes, Record
    <3>2. \/ Holds(r[1], caller)
          \/ call' \in {"read_new", "apply"} /\ caller' = caller /\ item' = {r}
      BY <1>4 DEF IsSubedSubscribes, Holds, Done
    <3>3. r = <<r[1], TRUE>>
      BY <1>r, <2>4
    <3>4. ItemRecorded'
      BY <1>4, <2>4, <3>3 DEF IsSubedSubscribes, Done, ItemRecorded
    <3>5. Pending'
      BY <1>t, <1>r, <2>1, <2>2, <2>3, <3>1, <3>2, <3>3 DEF Pending
    <3> QED BY <3>4, <3>5 DEF IndSubscribed
  <2>5. CASE ~r[2]
    <3>1. want' = [want EXCEPT ![r[1]] = @ \ {caller}]
      BY <1>4, <2>5 DEF IsSubedSubscribes, Record
    <3>2. Pending'
      BY <1>t, <1>r, <2>2, <2>3, <3>1 DEF Pending
    <3>3. ItemRecorded'
      BY <1>4, <1>t, <1>r, <3>1 DEF IsSubedSubscribes, Done, ItemRecorded
    <3> QED BY <3>2, <3>3 DEF IndSubscribed
  <2> QED BY <2>4, <2>5
<1>5. ASSUME NEW r \in todo, Deactivate(r) PROVE IndSubscribed'
  <2>1. \A s \in Services, c \in Conns : Holds(s, c)' <=> Holds(s, c)
    BY <1>5, <1>t, HoldsUpdates DEF Deactivate
  <2> QED BY <1>5, <1>s, <2>1 DEF Deactivate
<1>6. ASSUME NEW r \in item, Join(r) PROVE IndSubscribed'
  <2>1. \A s \in Services, c \in Conns : Holds(s, c)' <=> Holds(s, c)
    BY <1>6, <1>t, HoldsUpdates DEF Join
  <2> QED BY <1>6, <1>s, <2>1 DEF Join, Done
<1>7. ASSUME NEW r \in item, IsSubedNew(r) PROVE IndSubscribed'
  <2>1. \A s \in Services, c \in Conns : Holds(s, c)' <=> Holds(s, c)
    BY <1>7, <1>t, HoldsUpdates DEF IsSubedNew
  <2>2. /\ want' = want /\ item = {r} /\ caller' = caller
        /\ call \in {"read_new", "apply"}
    BY <1>7 DEF IsSubedNew, Done
  <2>3. CASE call' = "apply" /\ item' = item
    BY <2>1, <2>2, <2>3, <1>t DEF IndSubscribed, Pending, ItemRecorded
  <2>4. CASE /\ (caller \in new_subscribes[r[1]]) = r[2]
             /\ call' = "subscribe"
    <3>1. \A s \in Services : \A c \in want[s] : Holds(s, c)
      BY <2>2, <2>4, <1>e DEF Holds
    <3> QED BY <2>1, <2>2, <2>4, <3>1, <1>t
        DEF IndSubscribed, Pending, ItemRecorded
  <2> QED BY <1>7, <2>3, <2>4 DEF IsSubedNew, Done
<1>8. ASSUME NEW r \in item, ApplySubscribe(r) PROVE IndSubscribed'
  <2>1. /\ caller \in Conns /\ want' = want /\ item = {r}
        /\ call = "apply" /\ call' = "subscribe"
    BY <1>8, <1>t DEF ApplySubscribe, CallerOpen, Done
  <2>2. CASE r[2]
    <3>1. \A x \in Services, d \in Conns :
             Holds(x, d)' <=> Holds(x, d) \/ (x = r[1] /\ d = caller)
      BY <1>8, <1>r, <1>t, <2>1, <2>2, HoldsUpdates DEF ApplySubscribe
    <3> QED BY <2>1, <3>1, <1>t, <1>r, <1>e
        DEF IndSubscribed, Pending, ItemRecorded
  <2>3. CASE ~r[2]
    <3>1. \A x \in Services, d \in Conns :
             Holds(x, d)' <=> Holds(x, d) /\ ~(x = r[1] /\ d = caller)
      BY <1>8, <1>r, <1>t, <2>1, <2>3, HoldsUpdates DEF ApplySubscribe
    <3>2. caller \notin want[r[1]] /\ item # {<<r[1], TRUE>>}
      BY <2>1, <2>3, <1>t, <1>r DEF ItemRecorded
    <3>3. \A s \in Services : \A c \in want[s] : Holds(s, c)
      BY <2>1, <2>3, <1>e
    <3> QED BY <2>1, <3>1, <3>2, <3>3, <1>t
        DEF IndSubscribed, Pending, ItemRecorded
  <2> QED BY <2>2, <2>3
<1>9. ASSUME NEW s \in Services, Thread(s) \/ PlatformChange(s)
       PROVE IndSubscribed'
  <2>1. UNCHANGED <<want, callVars>>
        /\ (UNCHANGED mapVars \/ swap_new_subscribes(s))
    BY <1>9 DEF Thread, ThreadHead, ThreadCheck, Publish, NothingToPublish,
       CallbackError, Snapshot, SwapSend, SwapError, SwapDrop, PlatformChange
  <2>2. \A x \in Services, c \in Conns : Holds(x, c)' <=> Holds(x, c)
    <3> SUFFICES ASSUME NEW c \in Conns
                 PROVE  \A x \in Services : Holds(x, c)' <=> Holds(x, c)
      OBVIOUS
    <3> QED BY <2>1, <1>t, HoldsUpdates
  <2> QED BY <1>s, <2>1, <2>2
<1>10. CASE UNCHANGED vars
  <2>1. UNCHANGED <<want, callVars, mapVars>>
    BY <1>10 DEF vars, callVars, mapVars
  <2> QED BY <1>s, <2>1 DEF Holds, mapVars
<1> QED BY <1>1, <1>2, <1>3, <1>4, <1>5, <1>6, <1>7, <1>8, <1>9, <1>10
    DEF Next, Continue

(* A subscription that was asked for is in force when no call is running,   *)
(* although is_subed reads the two maps under two different locks.          *)
THEOREM Subscribed == Spec => []SubscribeTakesEffect
<1>1. Init => MapsDisjoint /\ IndSubscribed
  BY DEF Init, MapsDisjoint, IndSubscribed, Pending, ItemRecorded
<1>2. IndSubscribed => SubscribeTakesEffect
  BY DEF IndSubscribed, Pending, SubscribeTakesEffect, Holds
<1> QED BY InitType, NextType, NextDisjoint, NextSubscribed, <1>1, <1>2, PTL
    DEF Spec

-----------------------------------------------------------------------------
(* No connection sees an older state after a newer one: what was sent is    *)
(* never newer than what the thread shows, except right after a reset.      *)

Ordered ==
    \A s \in Services :
        /\ shown[s] <= latest[s]
        /\ \A c \in Conns :
              /\ seen[s][c] <= latest[s]
              /\ shown[s] # 0 => seen[s][c] <= shown[s]

\* Every step sends a connection a version that is not older than the last one.
LEMMA NextOrdered ==
    ASSUME IndType, Ordered, [Next]_vars
    PROVE  /\ Ordered'
           /\ \A s \in Services, c \in Conns : seen'[s][c] >= seen[s][c]
<1>t. ThreadTypes /\ MapTypes
  BY TypeParts DEF IndType
<1>0. /\ \A s \in Services : latest[s] \in Nat /\ shown[s] \in Nat
      /\ \A s \in Services, c \in Conns : seen[s][c] \in Nat
  BY <1>t DEF ThreadTypes
<1>1. CASE UNCHANGED <<latest, shown, seen>>
  BY <1>1, <1>0 DEF Ordered
<1>2. ASSUME NEW s \in Services, PlatformChange(s)
      PROVE  Ordered' /\ UNCHANGED seen
  BY <1>2, <1>t, <1>0 DEF PlatformChange, Ordered, ThreadTypes
<1>3. ASSUME NEW s \in Services, ThreadCheck(s) PROVE Ordered' /\ UNCHANGED seen
  BY <1>3, <1>t, <1>0 DEF ThreadCheck, Ordered, ThreadTypes
<1>4. ASSUME NEW s \in Services, NEW R, NEW v \in Nat, send_shared(s, R, v),
             \A c \in Conns : v # 0 => seen[s][c] <= v
      PROVE  /\ \A x \in Services, c \in Conns :
                    /\ seen'[x][c] >= seen[x][c]
                    /\ x # s => seen'[x][c] = seen[x][c]
                    /\ seen'[s][c] \in {seen[s][c], v}
  BY <1>4, <1>t, <1>0 DEF send_shared, ThreadTypes
<1>5. ASSUME NEW s \in Services, Publish(s)
      PROVE  Ordered' /\ \A x \in Services, c \in Conns : seen'[x][c] >= seen[x][c]
  <2>1. /\ \A x \in Services, c \in Conns :
               /\ seen'[x][c] >= seen[x][c]
               /\ x # s => seen'[x][c] = seen[x][c]
               /\ seen'[s][c] \in {seen[s][c], latest[s]}
    BY <1>4, <1>5, <1>0 DEF Publish, Ordered
  <2>2. /\ latest' = latest
        /\ \A x \in Services : shown'[x] = IF x = s THEN latest[s] ELSE shown[x]
    BY <1>5, <1>t DEF Publish, ThreadTypes
  <2> QED BY <2>1, <2>2, <1>0 DEF Ordered
<1>6. ASSUME NEW s \in Services, SwapSend(s)
      PROVE  Ordered' /\ \A x \in Services, c \in Conns : seen'[x][c] >= seen[x][c]
  <2>1. /\ \A x \in Services, c \in Conns :
               /\ seen'[x][c] >= seen[x][c]
               /\ x # s => seen'[x][c] = seen[x][c]
               /\ seen'[s][c] \in {seen[s][c], shown[s]}
    BY <1>4, <1>6, <1>0 DEF SwapSend, Ordered
  <2>2. UNCHANGED <<latest, shown>>
    BY <1>6 DEF SwapSend
  <2> QED BY <2>1, <2>2, <1>0 DEF Ordered
<1>7. ASSUME NEW s \in Services,
             \/ ThreadHead(s) \/ NothingToPublish(s) \/ CallbackError(s)
             \/ Snapshot(s) \/ SwapError(s) \/ SwapDrop(s)
      PROVE  UNCHANGED <<latest, shown, seen>>
  BY <1>7 DEF ThreadHead, NothingToPublish, CallbackError, Snapshot,
              SwapError, SwapDrop
<1>8. CASE Call \/ UNCHANGED vars
  BY <1>8, <1>1 DEF Call, AddConnection, AddCameraConnection, RemoveConnection,
     Subscribe, CaptureDisplays, ServerDrop, vars, threadVars
<1>9. CASE Continue
  BY <1>9, <1>1 DEF Continue, AddStep, RemoveStep, IsSubedSubscribes,
     Deactivate, IsSubedNew, ApplySubscribe, Join, FinishAdd, FinishRemove,
     FinishSubscribe, threadVars
<1> QED BY <1>0, <1>1, <1>2, <1>3, <1>5, <1>6, <1>7, <1>8, <1>9
    DEF Next, Thread

(* Both ways the thread sends on, the broadcast and the snapshot, keep the  *)
(* order of the versions for every connection.                              *)
THEOREM InOrder == Spec => NeverOlder
<1>1. Init => Ordered
  BY DEF Init, Ordered
<1>2. IndType /\ Ordered /\ [Next]_vars
        => Ordered' /\ [\A s \in Services, c \in Conns :
                            seen'[s][c] >= seen[s][c]]_vars
  BY NextOrdered
<1> QED BY InitType, NextType, <1>1, <1>2, PTL DEF Spec, NeverOlder

-----------------------------------------------------------------------------
(* CONN_COUNT. *)

\* A map that holds a connection is not empty.
LEMMA CountPositive ==
    ASSUME NEW C \in SUBSET Conns, NEW c \in C
    PROVE  Cardinality(C) > 0
<1>1. IsFiniteSet(C) BY ServiceAssumption, FS_Subset
<1>2. Cardinality(C) \in Nat /\ (Cardinality(C) = 0 <=> C = {})
  BY <1>1, FS_CardinalityType, FS_EmptySet
<1> QED BY <1>2

\* The three calls that write CONN_COUNT, or do not, keep it above zero.
LEMMA NextCount ==
    IndType /\ ConnCountCoversRemotes /\ [Next]_vars => ConnCountCoversRemotes'
<1> SUFFICES ASSUME IndType, ConnCountCoversRemotes, [Next]_vars
             PROVE  ConnCountCoversRemotes'
  OBVIOUS
<1> USE DEF ConnCountCoversRemotes, IndType
<1>1. CASE UNCHANGED <<connections, CONN_COUNT, remote>> BY <1>1
<1>2. CASE FinishAdd
  <2>1. caller \in Conns BY <1>2 DEF FinishAdd, CallerOpen
  <2>2. CASE call = "add" /\ caller \in Conns
    <3>1. /\ connections' = connections \cup {caller}
          /\ CONN_COUNT' = Cardinality(connections')
          /\ remote' = remote \cup {caller}
      BY <1>2, <2>2 DEF FinishAdd
    <3>2. connections' \in SUBSET Conns /\ caller \in connections'
      BY <2>2, <3>1 DEF TypeOK
    <3>3. CONN_COUNT' > 0 BY <3>1, <3>2, CountPositive
    <3> QED BY <3>1, <3>3
  <2>3. CASE call = "add_camera"
    BY <1>2, <2>3 DEF FinishAdd
  <2> QED BY <1>2, <2>1, <2>2, <2>3 DEF FinishAdd
<1>3. CASE FinishRemove
  <2>1. /\ connections' = connections \ {caller} /\ remote' = remote \ {caller}
        /\ CONN_COUNT' = Cardinality(connections')
    BY <1>3 DEF FinishRemove
  <2>2. connections' \in SUBSET Conns BY <2>1 DEF TypeOK
  <2>3. ASSUME NEW c \in remote' PROVE CONN_COUNT' > 0
    <3>1. c \in connections' BY <2>1, <2>3
    <3> QED BY <2>1, <2>2, <3>1, CountPositive
  <2> QED BY <2>1, <2>3
<1>4. UNCHANGED <<connections, CONN_COUNT, remote>> \/ FinishAdd \/ FinishRemove
  <2> USE DEF serverVars, Begin, Done, Return
  <2>1. CASE Call
    BY <2>1 DEF Call, AddConnection, AddCameraConnection, RemoveConnection,
                Subscribe, CaptureDisplays, ServerDrop
  <2>2. CASE Continue
    BY <2>2 DEF Continue, AddStep, RemoveStep, IsSubedSubscribes, Deactivate,
                IsSubedNew, ApplySubscribe, Join, FinishSubscribe
  <2>3. ASSUME NEW s \in Services, Thread(s) \/ PlatformChange(s)
        PROVE  UNCHANGED <<connections, CONN_COUNT, remote>>
    BY <2>3 DEF Thread, PlatformChange, ThreadHead, ThreadCheck, Publish,
                NothingToPublish, CallbackError, Snapshot, SwapSend, SwapError,
                SwapDrop
  <2>4. CASE UNCHANGED vars BY <2>4 DEF vars
  <2> QED BY <2>1, <2>2, <2>3, <2>4 DEF Next
<1> QED BY <1>1, <1>2, <1>3, <1>4

\* Types, the two maps and CONN_COUNT fit together between any two acquisitions
\* of a lock, for any number of connections and services.
THEOREM Fits == Spec => []ServiceInv
<1>1. Init => ConnCountCoversRemotes BY DEF Init, ConnCountCoversRemotes
<1>2. Spec => []ConnCountCoversRemotes
  BY InitType, NextType, NextCount, <1>1, PTL DEF Spec
<1>3. TypeOK /\ MapsDisjoint /\ ConnCountCoversRemotes => ServiceInv BY DEF ServiceInv
<1> QED BY TypeCorrect, Disjoint, <1>2, <1>3, PTL

=============================================================================
