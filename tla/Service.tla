------------------------------ MODULE Service ------------------------------
(***************************************************************************)
(* The publish/subscribe core of the controlled side: the `Server' object  *)
(* of src/server.rs and the `ServiceTmpl' objects of src/server/service.rs *)
(* (audio, display, clipboard, cursor, video, ...).                        *)
(*                                                                         *)
(* Two kinds of actors touch a service:                                    *)
(*   - connection tasks, which call Server::subscribe, add_connection,     *)
(*     capture_displays and remove_connection.  Those calls run one at a   *)
(*     time under the write lock of the Server; the variables call,        *)
(*     caller, todo and item describe the call in progress;                *)
(*   - the service's own thread (ServiceTmpl::repeat), which never takes   *)
(*     the Server's lock.                                                  *)
(* Both reach ServiceInner only through its RwLock, so one atomic step of  *)
(* this module is one acquisition of that lock.                            *)
(*                                                                         *)
(* What a service publishes is abstracted to a version number: latest[s]   *)
(* is the version the platform has (the cursor's shape), shown[s] the one  *)
(* the thread published last (StateCursor::cursor_data; 0 is the empty     *)
(* message of a reset state), seen[s][c] the last version put on           *)
(* connection c's channel (0: none).                                       *)
(***************************************************************************)
EXTENDS Integers, FiniteSets

CONSTANTS
    Conns,          \* connections (ids are never reused: Server::get_new_id)
    Services,       \* service names
    NeedSnapshot,   \* services created with need_snapshot = true
    Monitors,       \* video services of VideoSource::Monitor
    Cameras,        \* video services of VideoSource::Camera
    PrimaryMonitor, \* the set of the primary display's service (at most one)
    PrimaryCamera,  \* the set of the primary camera's service (at most one)
    InitServices,   \* services registered by server::new
    MayBail,        \* services whose snapshot callback may return an error
    NoConn,         \* "the Server's lock is free"
    MaxVer          \* bound on the versions of what a service shows

Video == Monitors \cup Cameras

ASSUME ServiceAssumption ==
    /\ IsFiniteSet(Conns)
    /\ NeedSnapshot \subseteq Services
    /\ InitServices \subseteq Services
    /\ Monitors \subseteq Services
    /\ Cameras \subseteq Services
    /\ PrimaryMonitor \subseteq Monitors
    /\ PrimaryCamera \subseteq Cameras
    /\ NoConn \notin Conns
    /\ MaxVer \in Nat \ {0}

VARIABLES
    services,       \* Server::services, the registered service names
    connections,    \* Server::connections
    CONN_COUNT,     \* the global of the same name
    call,           \* the Server call in progress (it holds the write lock)
    caller,         \* the connection it works for
    todo,           \* the services it has still to treat, with the request
    item,           \* the request it is in the middle of, if any
    subscribes,     \* ServiceInner::subscribes
    new_subscribes, \* ServiceInner::new_subscribes
    active,         \* ServiceInner::active
    pc,             \* where the service's thread is
    latest,         \* version the platform holds
    shown,          \* version the service's thread published last
    seen,           \* last version sent to a connection
    closed,         \* connections whose remove_connection has returned
    remote,         \* connections registered by add_connection and not removed
    want            \* what each connection asked for last, per service

serverVars == <<services, connections, CONN_COUNT, closed, remote>>
callVars == <<call, caller, todo, item>>
mapVars == <<subscribes, new_subscribes>>
threadVars == <<pc, shown, latest>>
vars == <<services, connections, CONN_COUNT, call, caller, todo, item,
          subscribes, new_subscribes, active, pc, latest, shown, seen,
          closed, remote, want>>

Requests == Services \X BOOLEAN

Calls == {"idle", "add", "add_camera", "remove", "subscribe", "read_new",
          "apply", "drop"}

Pcs == {"head", "check", "callback", "snapshot", "swap", "drop", "exit"}

TypeOK ==
    /\ services \subseteq Services
    /\ connections \subseteq Conns
    /\ CONN_COUNT \in Nat
    /\ call \in Calls
    /\ caller \in Conns \cup {NoConn}
    /\ todo \subseteq Requests
    /\ item \subseteq Requests
    /\ subscribes \in [Services -> SUBSET Conns]
    /\ new_subscribes \in [Services -> SUBSET Conns]
    /\ active \in [Services -> BOOLEAN]
    /\ pc \in [Services -> Pcs]
    /\ latest \in [Services -> 1 .. MaxVer]
    /\ shown \in [Services -> 0 .. MaxVer]
    /\ seen \in [Services -> [Conns -> 0 .. MaxVer]]
    /\ closed \subseteq Conns
    /\ remote \subseteq Conns
    /\ want \in [Services -> SUBSET Conns]

Init ==
    /\ services = InitServices
    /\ connections = {}
    /\ CONN_COUNT = 0
    /\ call = "idle"
    /\ caller = NoConn
    /\ todo = {}
    /\ item = {}
    /\ subscribes = [s \in Services |-> {}]
    /\ new_subscribes = [s \in Services |-> {}]
    /\ active = [s \in Services |-> TRUE]
    /\ pc = [s \in Services |-> "head"]
    /\ latest = [s \in Services |-> 1]
    /\ shown = [s \in Services |-> 0]
    /\ seen = [s \in Services |-> [c \in Conns |-> 0]]
    /\ closed = {}
    /\ remote = {}
    /\ want = [s \in Services |-> {}]

-----------------------------------------------------------------------------
(* ServiceInner under its write lock. *)

has_subscribes(s) == subscribes[s] # {} \/ new_subscribes[s] # {}

\* A connection that already is a subscriber is left alone; another one waits
\* in new_subscribes for the snapshot when the service needs one.
on_subscribe(s, c) ==
    /\ subscribes' = IF s \in NeedSnapshot THEN subscribes
                     ELSE [subscribes EXCEPT ![s] = @ \cup {c}]
    /\ new_subscribes' = IF s \in NeedSnapshot /\ c \notin subscribes[s]
                         THEN [new_subscribes EXCEPT ![s] = @ \cup {c}]
                         ELSE new_subscribes

\* Mutant: on_unsubscribe forgets those who still wait for the snapshot.
on_unsubscribe_SubscribesOnly(s, c) ==
    /\ subscribes' = [subscribes EXCEPT ![s] = @ \ {c}]
    /\ UNCHANGED new_subscribes

\* new_subscribes is only searched when subscribes does not hold the id.
on_unsubscribe(s, c) ==
    /\ subscribes' = [subscribes EXCEPT ![s] = @ \ {c}]
    /\ new_subscribes' = IF c \in subscribes[s] THEN new_subscribes
                         ELSE [new_subscribes EXCEPT ![s] = @ \ {c}]

\* Mutant: the maps are swapped instead of merged.
swap_new_subscribes_Exchange(s) ==
    /\ subscribes' = [subscribes EXCEPT ![s] = new_subscribes[s]]
    /\ new_subscribes' = [new_subscribes EXCEPT ![s] = {}]

\* Drop for ServiceSwap: whoever waits now is promoted, snapshot sent or not.
swap_new_subscribes(s) ==
    /\ subscribes' = [subscribes EXCEPT ![s] = @ \cup new_subscribes[s]]
    /\ new_subscribes' = [new_subscribes EXCEPT ![s] = {}]

\* Subscriber::send of every receiver; an empty message tells it nothing.
send_shared(s, receivers, version) ==
    seen' = [seen EXCEPT ![s] = [c \in Conns |->
                IF c \in receivers /\ version # 0 THEN version ELSE @[c]]]

-----------------------------------------------------------------------------
(* Calls on the Server, each under the Server's write lock. *)

Begin(kind, c, requests) ==
    /\ call = "idle"
    /\ c \notin closed
    /\ call' = kind
    /\ caller' = c
    /\ todo' = requests
    /\ item' = {}

Return ==
    /\ call' = "idle"
    /\ caller' = NoConn
    /\ todo' = {}
    /\ item' = {}

\* The request is dealt with; the loop goes on with the next one.
Done(kind, r) ==
    /\ call' = kind
    /\ todo' = todo \ {r}
    /\ item' = {}
    /\ UNCHANGED caller

\* Server::add_connection: every service the connection has permission for,
\* of the video services only the primary display's.
AddConnection(c, noperms) ==
    /\ c \notin connections
    /\ Begin("add", c,
             ((services \ noperms) \ (Video \ PrimaryMonitor)) \X {TRUE})
    /\ UNCHANGED <<serverVars, threadVars, mapVars, active, seen, want>>

AddCameraConnection(c) ==
    /\ c \notin connections
    /\ Begin("add_camera", c, (services \cap PrimaryCamera) \X {TRUE})
    /\ UNCHANGED <<serverVars, threadVars, mapVars, active, seen, want>>

\* One iteration of the loop of add_connection / add_camera_connection.
AddStep(r) ==
    /\ call \in {"add", "add_camera"} /\ r \in todo
    /\ on_subscribe(r[1], caller)
    /\ want' = [want EXCEPT ![r[1]] = @ \cup {caller}]
    /\ Done(call, r)
    /\ UNCHANGED <<serverVars, threadVars, active, seen>>

\* Mutant: add_connection does not update CONN_COUNT either.
FinishAdd_NoCount ==
    /\ call \in {"add", "add_camera"} /\ todo = {}
    /\ connections' = connections \cup {caller}
    /\ remote' = IF call = "add" THEN remote \cup {caller} ELSE remote
    /\ Return
    /\ UNCHANGED <<services, CONN_COUNT, closed, threadVars, mapVars, active,
                   seen, want>>

\* The end of add_connection: unlike add_connection, add_camera_connection
\* does not update CONN_COUNT.
FinishAdd ==
    /\ call \in {"add", "add_camera"} /\ todo = {}
    /\ connections' = connections \cup {caller}
    /\ CONN_COUNT' = IF call = "add" THEN Cardinality(connections')
                     ELSE CONN_COUNT
    /\ remote' = IF call = "add" THEN remote \cup {caller} ELSE remote
    /\ Return
    /\ UNCHANGED <<services, closed, threadVars, mapVars, active, seen, want>>

\* Server::remove_connection, the last call of a connection's task.
RemoveConnection(c) ==
    /\ Begin("remove", c, services \X {FALSE})
    /\ UNCHANGED <<serverVars, threadVars, mapVars, active, seen, want>>

RemoveStep(r) ==
    /\ call = "remove" /\ r \in todo
    /\ on_unsubscribe(r[1], caller)
    /\ want' = [want EXCEPT ![r[1]] = @ \ {caller}]
    /\ Done(call, r)
    /\ UNCHANGED <<serverVars, threadVars, active, seen>>

FinishRemove ==
    /\ call = "remove" /\ todo = {}
    /\ connections' = connections \ {caller}
    /\ CONN_COUNT' = Cardinality(connections')
    /\ remote' = remote \ {caller}
    /\ closed' = closed \cup {caller}
    /\ Return
    /\ UNCHANGED <<services, threadVars, mapVars, active, seen, want>>

\* Server::subscribe(name, conn, sub) from a connection's task; a name that
\* is not registered is ignored.
Subscribe(c, s, sub) ==
    /\ s \in services
    /\ Begin("subscribe", c, {<<s, sub>>})
    /\ UNCHANGED <<serverVars, threadVars, mapVars, active, seen, want>>

\* Server::capture_displays after Connection::capture_displays has registered
\* the services of the displays to show.  The displays are of one source, the
\* services that are excluded are those of every source.
CaptureDisplays(c, displays, include, exclude) ==
    /\ services' = IF include THEN services \cup displays ELSE services
    /\ Begin("subscribe", c,
             (IF include THEN (services' \cap displays) \X {TRUE} ELSE {})
             \cup
             (IF exclude THEN ((services' \cap Video) \ displays) \X {FALSE}
              ELSE {}))
    /\ UNCHANGED <<connections, CONN_COUNT, closed, remote, threadVars,
                   mapVars, active, seen, want>>

Record(r) ==
    want' = [want EXCEPT ![r[1]] = IF r[2] THEN @ \cup {caller}
                                   ELSE @ \ {caller}]

\* is_subed, first half: its own read lock on `subscribes'.
IsSubedSubscribes(r) ==
    /\ call = "subscribe" /\ r \in todo
    /\ Record(r)
    /\ IF caller \in subscribes[r[1]] /\ r[2]
       THEN Done("subscribe", r)
       ELSE /\ call' = IF caller \in subscribes[r[1]] THEN "apply"
                       ELSE "read_new"
            /\ item' = {r}
            /\ UNCHANGED <<caller, todo>>
    /\ UNCHANGED <<serverVars, threadVars, mapVars, active, seen>>

\* is_subed, second half: another read lock, on `new_subscribes'.
IsSubedNew(r) ==
    /\ call = "read_new" /\ item = {r}
    /\ IF (caller \in new_subscribes[r[1]]) = r[2]
       THEN Done("subscribe", r)
       ELSE call' = "apply" /\ UNCHANGED <<caller, todo, item>>
    /\ UNCHANGED <<serverVars, threadVars, mapVars, active, seen, want>>

ApplySubscribe(r) ==
    /\ call = "apply" /\ item = {r}
    /\ IF r[2] THEN on_subscribe(r[1], caller)
               ELSE on_unsubscribe(r[1], caller)
    /\ Done("subscribe", r)
    /\ UNCHANGED <<serverVars, threadVars, active, seen, want>>

FinishSubscribe ==
    /\ call = "subscribe" /\ todo = {}
    /\ Return
    /\ UNCHANGED <<serverVars, threadVars, mapVars, active, seen, want>>

\* Drop for Server: the connections hold weak references only, so once it
\* begins no further call is made.  Each join clears `active' and waits.
ServerDrop ==
    /\ call = "idle"
    /\ call' = "drop"
    /\ todo' = services \X {FALSE}
    /\ UNCHANGED <<caller, item>>
    /\ UNCHANGED <<serverVars, threadVars, mapVars, active, seen, want>>

\* Service::join: clear `active', then block until the thread has ended.
Deactivate(r) ==
    /\ call = "drop" /\ r \in todo /\ item = {}
    /\ active' = [active EXCEPT ![r[1]] = FALSE]
    /\ item' = {r}
    /\ UNCHANGED <<call, caller, todo>>
    /\ UNCHANGED <<serverVars, threadVars, mapVars, seen, want>>

Join(r) ==
    /\ call = "drop" /\ item = {r}
    /\ pc[r[1]] = "exit"
    /\ Done("drop", r)
    /\ UNCHANGED <<serverVars, threadVars, mapVars, active, seen, want>>

-----------------------------------------------------------------------------
(* The service's thread: ServiceTmpl::repeat around a callback shaped like  *)
(* run_cursor: publish a change, then serve the new subscribers.            *)

Goto(s, next) == pc' = [pc EXCEPT ![s] = next]

\* Mutant: the thread's loop does not look at `active'.
ThreadHead_Forever(s) ==
    /\ pc[s] = "head" /\ s \in services
    /\ Goto(s, "check")
    /\ UNCHANGED <<serverVars, callVars, mapVars, active, shown, latest, seen,
                   want>>

ThreadHead(s) ==
    /\ pc[s] = "head" /\ s \in services
    /\ Goto(s, IF active[s] THEN "check" ELSE "exit")
    /\ UNCHANGED <<serverVars, callVars, mapVars, active, shown, latest, seen,
                   want>>

\* Without subscribers the callback is not run and its state is reset.
ThreadCheck(s) ==
    /\ pc[s] = "check"
    /\ Goto(s, IF has_subscribes(s) THEN "callback" ELSE "head")
    /\ shown' = IF has_subscribes(s) THEN shown ELSE [shown EXCEPT ![s] = 0]
    /\ UNCHANGED <<serverVars, callVars, mapVars, active, latest, seen, want>>

\* Mutant: only the first version is kept for the snapshots.
Publish_KeepFirst(s) ==
    /\ pc[s] = "callback" /\ shown[s] # latest[s]
    /\ shown' = IF shown[s] = 0 THEN [shown EXCEPT ![s] = latest[s]] ELSE shown
    /\ send_shared(s, subscribes[s], latest[s])
    /\ Goto(s, "snapshot")
    /\ UNCHANGED <<serverVars, callVars, mapVars, active, latest, want>>

\* send_shared: a version not published yet goes to `subscribes' only.
Publish(s) ==
    /\ pc[s] = "callback" /\ shown[s] # latest[s]
    /\ shown' = [shown EXCEPT ![s] = latest[s]]
    /\ send_shared(s, subscribes[s], latest[s])
    /\ Goto(s, "snapshot")
    /\ UNCHANGED <<serverVars, callVars, mapVars, active, latest, want>>

\* The platform has no cursor to show, or the one already published.
NothingToPublish(s) ==
    /\ pc[s] = "callback"
    /\ Goto(s, "snapshot")
    /\ UNCHANGED <<serverVars, callVars, mapVars, active, shown, latest, seen,
                   want>>

\* The platform call of the callback fails before the snapshot is taken.
CallbackError(s) ==
    /\ pc[s] = "callback"
    /\ Goto(s, "head")
    /\ UNCHANGED <<serverVars, callVars, mapVars, active, shown, latest, seen,
                   want>>

\* Mutant: snapshot tests the subscribers instead of the new ones.
Snapshot_WrongMap(s) ==
    /\ pc[s] = "snapshot"
    /\ Goto(s, IF subscribes[s] # {} THEN "swap" ELSE "head")
    /\ UNCHANGED <<serverVars, callVars, mapVars, active, shown, latest, seen,
                   want>>

\* ServiceTmpl::snapshot: its read lock on new_subscribes.
Snapshot(s) ==
    /\ pc[s] = "snapshot"
    /\ Goto(s, IF new_subscribes[s] # {} THEN "swap" ELSE "head")
    /\ UNCHANGED <<serverVars, callVars, mapVars, active, shown, latest, seen,
                   want>>

\* ServiceSwap::send_shared inside the callback.
SwapSend(s) ==
    /\ pc[s] = "swap"
    /\ send_shared(s, new_subscribes[s], shown[s])
    /\ Goto(s, "drop")
    /\ UNCHANGED <<serverVars, callVars, mapVars, active, shown, latest,
                   want>>

\* The callback bails out before it has sent anything; ServiceSwap is dropped
\* all the same.
SwapError(s) ==
    /\ pc[s] = "swap" /\ s \in MayBail
    /\ Goto(s, "drop")
    /\ UNCHANGED <<serverVars, callVars, mapVars, active, shown, latest, seen,
                   want>>

SwapDrop(s) ==
    /\ pc[s] = "drop"
    /\ swap_new_subscribes(s)
    /\ Goto(s, "head")
    /\ UNCHANGED <<serverVars, callVars, active, shown, latest, seen, want>>

\* The platform's side: the cursor takes another shape.
PlatformChange(s) ==
    /\ latest[s] < MaxVer
    /\ latest' = [latest EXCEPT ![s] = @ + 1]
    /\ UNCHANGED <<serverVars, callVars, mapVars, active, pc, shown, seen,
                   want>>

Thread(s) ==
    \/ ThreadHead(s) \/ ThreadCheck(s) \/ Publish(s) \/ NothingToPublish(s)
    \/ CallbackError(s) \/ Snapshot(s) \/ SwapSend(s) \/ SwapError(s)
    \/ SwapDrop(s)

Continue ==
    \/ \E r \in todo : \/ AddStep(r) \/ RemoveStep(r)
                          \/ IsSubedSubscribes(r) \/ Deactivate(r)
    \/ \E r \in item : IsSubedNew(r) \/ ApplySubscribe(r) \/ Join(r)
    \/ FinishAdd \/ FinishRemove \/ FinishSubscribe

Call ==
    \/ \E c \in Conns :
          \/ \E noperms \in SUBSET (Services \ Video) :
                AddConnection(c, noperms)
          \/ AddCameraConnection(c)
          \/ RemoveConnection(c)
          \/ \E s \in Services, sub \in BOOLEAN : Subscribe(c, s, sub)
          \/ \E displays \in (SUBSET Monitors) \cup (SUBSET Cameras) :
                \/ CaptureDisplays(c, displays, TRUE, FALSE)
                \/ CaptureDisplays(c, displays, FALSE, TRUE)
                \/ CaptureDisplays(c, displays, TRUE, TRUE)
    \/ ServerDrop

Next == \/ Call \/ Continue
        \/ \E s \in Services : Thread(s) \/ PlatformChange(s)

\* A call that has begun runs to its end, the thread of every registered
\* service keeps running, and a platform call does not fail for ever.
Fairness ==
    /\ WF_vars(Continue)
    /\ \A s \in Services : /\ WF_vars(Thread(s))
                           /\ SF_vars(NothingToPublish(s))

Spec == Init /\ [][Next]_vars

FairSpec == Spec /\ Fairness

-----------------------------------------------------------------------------
(* Properties. *)

\* An id never sits in both maps of a service (on_unsubscribe searches
\* new_subscribes only when subscribes has no such id), and only a service
\* that needs a snapshot keeps anyone waiting.
MapsDisjoint ==
    \A s \in Services :
        /\ subscribes[s] \cap new_subscribes[s] = {}
        /\ s \notin NeedSnapshot => new_subscribes[s] = {}

\* Once remove_connection has returned for a connection, no service holds it
\* in either map, whatever the service threads were in the middle of: neither
\* a swap in progress nor a later one brings it back.
RemovedIsGone ==
    \A c \in closed, s \in Services :
        c \notin subscribes[s] \cup new_subscribes[s]

\* A subscription that was asked for is in force once the call has returned:
\* a swap between the two reads of is_subed, or during add_connection's loop,
\* never loses it.
SubscribeTakesEffect ==
    call = "idle" =>
        \A s \in Services :
            want[s] \subseteq subscribes[s] \cup new_subscribes[s]

\* CONN_COUNT is zero only when no connection of add_connection is registered:
\* try_stop_record_cursor_pos stops the recording of the cursor on zero.
ConnCountCoversRemotes ==
    remote \subseteq connections /\ (remote # {} => CONN_COUNT > 0)

\* The parts of the registry and of its services fit together between any two
\* acquisitions of a lock: every variable has its type, an id is in at most
\* one map of a service, and CONN_COUNT covers the remote connections.
ServiceInv == TypeOK /\ MapsDisjoint /\ ConnCountCoversRemotes

\* No connection is sent an older state after a newer one, although the
\* service's thread sends the same state on two ways (send_shared to the
\* subscribers, ServiceSwap to the new ones) and subscribers come and go.
NeverOlder ==
    [][\A s \in Services, c \in Conns : seen'[s][c] >= seen[s][c]]_vars

\* A connection that waits for its snapshot is promoted, or leaves, as long
\* as the server lives.
NewIsPromoted ==
    \A s \in Services, c \in Conns :
        (c \in new_subscribes[s]) ~>
            (c \notin new_subscribes[s] \/ call = "drop")

\* Dropping the Server ends: join waits for every thread, and every thread
\* notices that its service is not active any more.
DropEnds == (call = "drop") ~> (call = "drop" /\ todo = {})

=============================================================================
