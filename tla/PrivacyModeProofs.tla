-------------------------- MODULE PrivacyModeProofs --------------------------
(***************************************************************************)
(* Proofs about PrivacyMode, for any number of connections, outputs,       *)
(* devices and starts of the process: while privacy mode is on the screen  *)
(* is dark and the devices are disabled, and afterwards both are as they   *)
(* were, whichever command fails and wherever the process dies.            *)
(***************************************************************************)
EXTENDS PrivacyMode, FiniteSetTheorems, TLAPS

\* The variables of the calls, the screen and what is saved of it.
deviceVars == <<connected, owners, dark, enabled, lock, step, todo, ok, conn_id,
                saved, inputs, watchdogs, orphans, raced>>

-----------------------------------------------------------------------------
(* Operators. *)

\* A list that is not empty has a first element.
LEMMA FirstIn ==
    ASSUME NEW S, S # {}
    PROVE  First(S) \in S
  BY DEF First

\* saved_brightness, and a watchdog's copy of it, maps some of the outputs.
LEMMA PartialMap ==
    ASSUME NEW S, NEW f
    PROVE  f \in UNION {[O -> BOOLEAN] : O \in SUBSET S}
             <=> DOMAIN f \subseteq S /\ f \in [DOMAIN f -> BOOLEAN]
<1>1. ASSUME f \in UNION {[O -> BOOLEAN] : O \in SUBSET S}
      PROVE  DOMAIN f \subseteq S /\ f \in [DOMAIN f -> BOOLEAN]
  <2>1. PICK O \in SUBSET S : f \in [O -> BOOLEAN] BY <1>1
  <2> QED BY <2>1
<1>2. ASSUME DOMAIN f \subseteq S, f \in [DOMAIN f -> BOOLEAN]
      PROVE  f \in UNION {[O -> BOOLEAN] : O \in SUBSET S}
  <2>1. DOMAIN f \in SUBSET S BY <1>2
  <2> QED BY <1>2, <2>1
<1> QED BY <1>1, <1>2

\* Nothing maps no output.
LEMMA NothingSaved ==
    /\ DOMAIN Nothing = {}
    /\ \A S : Nothing \in UNION {[O -> BOOLEAN] : O \in SUBSET S}
<1>1. DOMAIN Nothing = {} /\ Nothing \in [DOMAIN Nothing -> BOOLEAN] BY DEF Nothing
<1> QED BY <1>1, PartialMap

\* A process has no watchdog or one.
LEMMA OneWatchdog ==
    /\ Cardinality({}) < 2
    /\ \A w : Cardinality({w}) < 2
<1>1. Cardinality({}) = 0 BY FS_EmptySet
<1>2. Cardinality({}) < 2 BY <1>1
<1>3. ASSUME NEW w PROVE Cardinality({w}) < 2
  <2>1. Cardinality({w}) = 1 BY FS_Singleton
  <2> QED BY <2>1
<1> QED BY <1>2, <1>3

\* A command of the watchdog's script leaves the rest of its work.
LEMMA WatchdogRest ==
    ASSUME TypeOK, NEW w \in orphans, NEW o
    PROVE  LET v == [w EXCEPT !.outputs = Restrict(@, DOMAIN @ \ {o})]
               u == [w EXCEPT !.inputs = @ \ {o}]
           IN  /\ v \in Watchdogs /\ DOMAIN v.outputs = DOMAIN w.outputs \ {o}
               /\ \A x \in DOMAIN v.outputs : v.outputs[x] = w.outputs[x]
               /\ v.inputs = w.inputs
               /\ u \in Watchdogs /\ u.outputs = w.outputs
               /\ u.inputs = w.inputs \ {o}
<1> DEFINE r == Restrict(w.outputs, DOMAIN w.outputs \ {o})
           F == UNION {[O -> BOOLEAN] : O \in SUBSET connected}
<1>1. w.outputs \in F /\ w.inputs \subseteq Devices
      /\ w = [outputs |-> w.outputs, inputs |-> w.inputs]
  BY DEF TypeOK, Watchdogs
<1>2. DOMAIN w.outputs \subseteq connected
      /\ w.outputs \in [DOMAIN w.outputs -> BOOLEAN]
  BY <1>1, PartialMap
<1>3. /\ DOMAIN r = DOMAIN w.outputs \ {o}
      /\ r \in [DOMAIN r -> BOOLEAN]
      /\ \A x \in DOMAIN r : r[x] = w.outputs[x]
  BY <1>2 DEF Restrict
<1>4. r \in F BY <1>2, <1>3, PartialMap
<1> HIDE DEF r, F
<1>5. [w EXCEPT !.outputs = r] = [outputs |-> r, inputs |-> w.inputs] BY <1>1
<1>6. [w EXCEPT !.inputs = @ \ {o}]
        = [outputs |-> w.outputs, inputs |-> w.inputs \ {o}]
  BY <1>1
<1>7. [w EXCEPT !.outputs = Restrict(@, DOMAIN @ \ {o})]
        = [outputs |-> r, inputs |-> w.inputs]
  BY <1>5 DEF r
<1>8. /\ [outputs |-> r, inputs |-> w.inputs] \in Watchdogs
      /\ [outputs |-> w.outputs, inputs |-> w.inputs \ {o}] \in Watchdogs
  BY <1>1, <1>4 DEF Watchdogs, F
<1> QED BY <1>3, <1>6, <1>7, <1>8

-----------------------------------------------------------------------------
(* Types. *)

\* What a handler does between two acquisitions of the lock.
LEMMA HandlerType ==
    ASSUME Inv,
           \/ \E c \in Conns : ConnStep(c)
           \/ \E a \in Actors : turn_off_privacy(a)
           \/ Quit
    PROVE  TypeOK'
<1> USE PrivacyModeAssumption
    DEF Actors, Free, Goto, screenVars, callVars, implVars, Watchdogs
<1>0. TypeOK BY DEF Inv
<1>1. ASSUME NEW c \in Conns, ConnStep(c) PROVE TypeOK'
  <2>1. CASE LoginRequest(c) BY <1>0, <2>1 DEF TypeOK, LoginRequest
  <2>2. CASE Authorized(c) BY <1>0, <2>2 DEF TypeOK, Authorized
  <2>3. CASE toggle_privacy_mode(c) BY <1>0, <2>3 DEF TypeOK, toggle_privacy_mode
  <2>4. CASE EndConnection(c) BY <1>0, <2>4 DEF TypeOK, EndConnection
  <2>5. CASE Gone(c) BY <1>0, <2>5 DEF TypeOK, Gone
  <2>6. CASE turn_on_privacy(c)
    BY <1>0, <2>6 DEF TypeOK, turn_on_privacy, handle_back_msg_privacy_mode
  <2>7. CASE TurnOnFailed(c)
    BY <1>0, <2>7 DEF TypeOK, TurnOnFailed, handle_back_msg_privacy_mode
  <2> QED BY <1>1, <2>1, <2>2, <2>3, <2>4, <2>5, <2>6, <2>7 DEF ConnStep
<1>2. ASSUME NEW a \in Actors, turn_off_privacy(a) PROVE TypeOK'
  <2>1. DOMAIN saved \subseteq connected
    BY <1>0, PartialMap DEF TypeOK
  <2> QED BY <1>0, <1>2, <2>1
          DEF TypeOK, turn_off_privacy, handle_back_msg_privacy_mode
<1>3. CASE Quit BY <1>0, <1>3 DEF TypeOK, Quit
<1> QED BY <1>1, <1>2, <1>3

\* The commands of a call.
LEMMA LockedType ==
    ASSUME Inv, LockedStep
    PROVE  TypeOK'
<1> USE PrivacyModeAssumption
    DEF Actors, screenVars, callVars, implVars, Watchdogs, Fails
<1>0. TypeOK /\ DOMAIN saved \subseteq connected
  BY PartialMap DEF Inv, TypeOK
<1>1. CASE connected_outputs_with_brightness
  <2>1. [o \in connected |-> o \in dark]
          \in UNION {[O -> BOOLEAN] : O \in SUBSET connected}
    BY PartialMap
  <2> QED BY <1>0, <1>1, <2>1 DEF TypeOK, connected_outputs_with_brightness
<1>2. CASE enabled_physical_inputs
  <2>1. saved' \in UNION {[O -> BOOLEAN] : O \in SUBSET connected'}
    <3>1. CASE saved' = Nothing BY <3>1, NothingSaved
    <3>2. CASE UNCHANGED saved BY <1>0, <1>2, <3>2 DEF TypeOK, enabled_physical_inputs
    <3> QED BY <1>2, <3>1, <3>2 DEF enabled_physical_inputs
  <2> QED BY <1>0, <1>2, <2>1 DEF TypeOK, enabled_physical_inputs
<1>3. CASE spawn_watchdog
  <2>1. [outputs |-> saved, inputs |-> inputs] \in Watchdogs BY <1>0 DEF TypeOK
  <2>2. watchdogs' \subseteq Watchdogs' /\ Cardinality(watchdogs') < 2
    BY <1>0, <1>3, <2>1, OneWatchdog DEF TypeOK, spawn_watchdog
  <2>3. saved' \in UNION {[O -> BOOLEAN] : O \in SUBSET connected'}
    <3>1. CASE saved' = Nothing BY <3>1, NothingSaved
    <3>2. CASE UNCHANGED saved BY <1>0, <1>3, <3>2 DEF TypeOK, spawn_watchdog
    <3> QED BY <1>3, <3>1, <3>2 DEF spawn_watchdog
  <2>4. CASE UNCHANGED <<at, lock, saved, inputs>>
    BY <1>0, <1>3, <2>2, <2>4 DEF TypeOK, spawn_watchdog
  <2>5. CASE Fails(lock) /\ inputs' = {}
    BY <1>0, <1>3, <2>2, <2>3, <2>5 DEF TypeOK, spawn_watchdog
  <2> QED BY <1>3, <2>4, <2>5 DEF spawn_watchdog
<1>4. CASE Dimmed BY <1>0, <1>4 DEF TypeOK, Dimmed
<1>5. CASE Disabled
  <2>1. ok => lock \in Conns BY <1>5 DEF Disabled, Inv, LockInv
  <2> QED BY <1>0, <1>5, <2>1 DEF TypeOK, Disabled, handle_back_msg_privacy_mode
<1>6. CASE OutputsRestored BY <1>0, <1>6 DEF TypeOK, OutputsRestored
<1>7. CASE Restored
  <2>1. lock \in Actors BY <1>0, <1>7 DEF Restored, Inv, LockInv, TypeOK
  <2>2. at' \in [Actors -> {"idle", "turn_on", "failed", "turn_off",
                            "turn_off_any", "exit"}]
    BY <1>0, <1>7, <2>1 DEF TypeOK, Restored
  <2>3. told' \subseteq Conns
    BY <1>0, <1>7 DEF TypeOK, Restored, handle_back_msg_privacy_mode
  <2>4. saved' = Nothing /\ inputs' = {} /\ watchdogs' = {}
    BY <1>7 DEF Restored
  <2>5. /\ saved' \in UNION {[O -> BOOLEAN] : O \in SUBSET connected'}
        /\ watchdogs' \subseteq Watchdogs' /\ Cardinality(watchdogs') < 2
    BY <2>4, NothingSaved, OneWatchdog
  <2> QED BY <1>0, <1>7, <2>2, <2>3, <2>4, <2>5 DEF TypeOK, Restored
<1>8. ASSUME NEW o \in Outputs, Dim(o) PROVE TypeOK'
  <2>1. o \in connected
    BY <1>0, <1>8, FirstIn DEF Dim, Inv, WatchdogInv
  <2> QED BY <1>0, <1>8, <2>1 DEF TypeOK, Dim
<1>9. ASSUME NEW o \in Outputs, RestoreOutput(o) PROVE TypeOK'
  <2>1. o \in connected
    BY <1>0, <1>9, FirstIn DEF RestoreOutput, Inv, WatchdogInv
  <2> QED BY <1>0, <1>9, <2>1 DEF TypeOK, RestoreOutput
<1>10. ASSUME NEW d \in Devices, Disable(d) PROVE TypeOK'
  BY <1>0, <1>10 DEF TypeOK, Disable
<1>11. ASSUME NEW d \in Devices, RestoreInput(d) PROVE TypeOK'
  BY <1>0, <1>11 DEF TypeOK, RestoreInput
<1> QED BY <1>1, <1>2, <1>3, <1>4, <1>5, <1>6, <1>7, <1>8, <1>9, <1>10, <1>11
        DEF LockedStep

\* The process and its watchdogs.
LEMMA ProcessType ==
    ASSUME Inv, Exit \/ Crash \/ Restart \/ AnyWatchdogStep
    PROVE  TypeOK'
<1> USE PrivacyModeAssumption DEF Actors, screenVars, callVars, implVars
<1>0. TypeOK BY DEF Inv
<1>1. CASE Dies
  <2>1. UNCHANGED Watchdogs BY <1>1 DEF Dies, Watchdogs
  <2>2. orphans' \subseteq Watchdogs' BY <1>0, <1>1, <2>1 DEF Dies, TypeOK
  <2>3. saved' = Nothing /\ inputs' = {} /\ watchdogs' = {} BY <1>1 DEF Dies
  <2>4. /\ saved' \in UNION {[O -> BOOLEAN] : O \in SUBSET connected'}
        /\ watchdogs' \subseteq Watchdogs' /\ Cardinality(watchdogs') < 2
    BY <2>3, NothingSaved, OneWatchdog
  <2> QED BY <1>0, <1>1, <2>2, <2>3, <2>4 DEF Dies, TypeOK
<1>2. CASE Restart BY <1>0, <1>2 DEF Restart, TypeOK, Watchdogs
<1>3. ASSUME NEW w \in orphans, WatchdogStep(w) PROVE TypeOK'
  <2>1. UNCHANGED Watchdogs BY <1>3 DEF WatchdogStep, Watchdogs
  <2>2. w.outputs \in UNION {[O -> BOOLEAN] : O \in SUBSET connected}
        /\ w.inputs \subseteq Devices
    BY <1>0 DEF TypeOK, Watchdogs
  <2>3. DOMAIN w.outputs \subseteq connected BY <2>2, PartialMap
  <2>4. orphans' \subseteq Watchdogs
    <3>1. orphans \subseteq Watchdogs BY <1>0 DEF TypeOK
    <3>2. \A o : /\ [w EXCEPT !.outputs = Restrict(@, DOMAIN @ \ {o})] \in Watchdogs
                 /\ [w EXCEPT !.inputs = @ \ {o}] \in Watchdogs
      BY <1>0, WatchdogRest
    <3> DEFINE dimmer(o) == [w EXCEPT !.outputs = Restrict(@, DOMAIN @ \ {o})]
               shorter(d) == [w EXCEPT !.inputs = @ \ {d}]
    <3>3. \A o : dimmer(o) \in Watchdogs /\ shorter(o) \in Watchdogs BY <3>2
    <3>4. \/ \E o : orphans' = (orphans \ {w}) \cup {dimmer(o)}
          \/ \E d : orphans' = (orphans \ {w}) \cup {shorter(d)}
          \/ orphans' = orphans \ {w}
      BY <1>3, Zenon DEF WatchdogStep
    <3> HIDE DEF dimmer, shorter
    <3> QED BY <3>1, <3>3, <3>4
  <2>5. dark' \subseteq connected /\ enabled' \subseteq Devices
    BY <1>0, <1>3, <2>2, <2>3 DEF TypeOK, WatchdogStep
  <2> QED BY <1>0, <1>3, <2>1, <2>4, <2>5 DEF TypeOK, WatchdogStep
<1> QED BY <1>1, <1>2, <1>3 DEF Exit, Crash, AnyWatchdogStep

-----------------------------------------------------------------------------
(* Handlers and the lock. *)

\* Handlers: who is closing turns off what is his, and only then goes.
LEMMA HandlerControl ==
    ASSUME Inv,
           \/ \E c \in Conns : ConnStep(c)
           \/ \E a \in Actors : turn_off_privacy(a)
           \/ Quit
    PROVE  HolderIsThere' /\ HandlersInv' /\ LockInv'
<1> USE PrivacyModeAssumption
    DEF Actors, Free, Goto, screenVars, callVars, implVars, HolderIsThere,
        HandlersInv, LockInv
<1>0. TypeOK /\ HolderIsThere /\ HandlersInv /\ LockInv BY DEF Inv
<1>1. ASSUME NEW c \in Conns, ConnStep(c)
      PROVE  HolderIsThere' /\ HandlersInv' /\ LockInv'
  <2>1. CASE LoginRequest(c) BY <1>0, <2>1 DEF TypeOK, LoginRequest
  <2>2. CASE Authorized(c) BY <1>0, <2>2 DEF TypeOK, Authorized
  <2>3. CASE toggle_privacy_mode(c) BY <1>0, <2>3 DEF TypeOK, toggle_privacy_mode
  <2>4. CASE EndConnection(c) BY <1>0, <2>4 DEF TypeOK, EndConnection
  <2>5. CASE Gone(c) BY <1>0, <2>5 DEF TypeOK, Gone
  <2>6. CASE turn_on_privacy(c) BY <1>0, <2>6 DEF TypeOK, turn_on_privacy
  <2>7. CASE TurnOnFailed(c) BY <1>0, <2>7 DEF TypeOK, TurnOnFailed
  <2> QED BY <1>1, <2>1, <2>2, <2>3, <2>4, <2>5, <2>6, <2>7 DEF ConnStep
<1>2. ASSUME NEW a \in Actors, turn_off_privacy(a)
      PROVE  HolderIsThere' /\ HandlersInv' /\ LockInv'
  BY <1>0, <1>2 DEF TypeOK, turn_off_privacy
<1>3. CASE Quit BY <1>0, <1>3 DEF TypeOK, Quit
<1> QED BY <1>1, <1>2, <1>3

\* The commands of a call: a holder is a connection that is there.
LEMMA LockedControl ==
    ASSUME Inv, LockedStep
    PROVE  HolderIsThere' /\ HandlersInv' /\ LockInv'
<1> USE PrivacyModeAssumption
    DEF Actors, screenVars, callVars, implVars, HolderIsThere, HandlersInv,
        LockInv, Fails
<1>0. TypeOK /\ HolderIsThere /\ HandlersInv /\ LockInv BY DEF Inv
<1>1. CASE connected_outputs_with_brightness
  BY <1>0, <1>1 DEF TypeOK, connected_outputs_with_brightness
<1>2. CASE enabled_physical_inputs BY <1>0, <1>2 DEF TypeOK, enabled_physical_inputs
<1>3. CASE spawn_watchdog
  <2>1. watchdogs = {} BY <1>3 DEF Inv, WatchdogInv, spawn_watchdog
  <2> QED BY <1>0, <1>3, <2>1 DEF TypeOK, spawn_watchdog
<1>4. CASE Dimmed BY <1>0, <1>4 DEF TypeOK, Dimmed
<1>5. CASE Disabled BY <1>0, <1>5 DEF TypeOK, Disabled
<1>6. CASE OutputsRestored BY <1>0, <1>6 DEF TypeOK, OutputsRestored
<1>7. CASE Restored BY <1>0, <1>7 DEF TypeOK, Restored
<1>8. ASSUME NEW o \in Outputs, Dim(o)
      PROVE  HolderIsThere' /\ HandlersInv' /\ LockInv'
  BY <1>0, <1>8 DEF TypeOK, Dim
<1>9. ASSUME NEW o \in Outputs, RestoreOutput(o)
      PROVE  HolderIsThere' /\ HandlersInv' /\ LockInv'
  BY <1>0, <1>9 DEF TypeOK, RestoreOutput
<1>10. ASSUME NEW d \in Devices, Disable(d)
       PROVE  HolderIsThere' /\ HandlersInv' /\ LockInv'
  BY <1>0, <1>10 DEF TypeOK, Disable
<1>11. ASSUME NEW d \in Devices, RestoreInput(d)
       PROVE  HolderIsThere' /\ HandlersInv' /\ LockInv'
  BY <1>0, <1>11 DEF TypeOK, RestoreInput
<1> QED BY <1>1, <1>2, <1>3, <1>4, <1>5, <1>6, <1>7, <1>8, <1>9, <1>10, <1>11
        DEF LockedStep

\* A process that dies, starts, or leaves its watchdog to work.
LEMMA ProcessControl ==
    ASSUME Inv, Exit \/ Crash \/ Restart \/ AnyWatchdogStep
    PROVE  HolderIsThere' /\ HandlersInv' /\ LockInv'
<1> USE PrivacyModeAssumption
    DEF Actors, screenVars, callVars, implVars, HolderIsThere, HandlersInv, LockInv
<1>0. TypeOK /\ HolderIsThere /\ HandlersInv /\ LockInv BY DEF Inv
<1>1. CASE Dies BY <1>1 DEF Dies
<1>2. CASE Restart BY <1>0, <1>2 DEF Restart, TypeOK
<1>3. ASSUME NEW w \in orphans, WatchdogStep(w)
      PROVE  HolderIsThere' /\ HandlersInv' /\ LockInv'
  BY <1>0, <1>3 DEF WatchdogStep
<1> QED BY <1>1, <1>2, <1>3 DEF Exit, Crash, AnyWatchdogStep

-----------------------------------------------------------------------------
(* What is saved, and how far the commands have come. *)

\* The parts of the invariant that are about the screen.
ScreenInv == WatchdogInv /\ (~raced => SavedInv /\ ProgressInv /\ OnIsDark)

\* A step that leaves the screen, the calls and what is saved alone.
LEMMA SameScreen ==
    ASSUME Inv, UNCHANGED deviceVars
    PROVE  ScreenInv'
  BY DEF Inv, deviceVars, ScreenInv, WatchdogInv, SavedInv, ProgressInv, OnIsDark,
         AsBefore

\* Handlers change nothing but the lock.
LEMMA HandlerScreen ==
    ASSUME Inv,
           \/ \E c \in Conns : ConnStep(c)
           \/ \E a \in Actors : turn_off_privacy(a)
           \/ Quit
    PROVE  ScreenInv'
<1> USE PrivacyModeAssumption
    DEF Free, Goto, screenVars, callVars, implVars, deviceVars
<1>0. TypeOK /\ LockInv /\ WatchdogInv
      /\ (~raced => SavedInv /\ ProgressInv /\ OnIsDark)
  BY DEF Inv
<1>1. ASSUME NEW c \in Conns, ConnStep(c), UNCHANGED deviceVars PROVE ScreenInv'
  BY <1>1, SameScreen
<1>2. ASSUME NEW c \in Conns, turn_on_privacy(c), ~UNCHANGED deviceVars
      PROVE  ScreenInv'
  <2>1. /\ lock = None /\ conn_id = None /\ lock' = c /\ step' = "outputs"
        /\ UNCHANGED <<connected, owners, dark, enabled, todo, conn_id, saved,
                       inputs, watchdogs, orphans, raced>>
    BY <1>2 DEF turn_on_privacy
  <2>2. step = "none" /\ watchdogs = {} BY <1>0, <2>1 DEF LockInv, WatchdogInv
  <2>3. WatchdogInv' BY <1>0, <2>1, <2>2 DEF WatchdogInv
  <2>4. ~raced => SavedInv' BY <1>0, <2>1, <2>2 DEF SavedInv, AsBefore
  <2> QED BY <2>1, <2>2, <2>3, <2>4 DEF ScreenInv, ProgressInv, OnIsDark
<1>3. ASSUME NEW a \in Actors, turn_off_privacy(a), ~UNCHANGED deviceVars
      PROVE  ScreenInv'
  <2>1. /\ lock = None /\ lock' = a /\ step' = "restore_outputs"
        /\ todo' = DOMAIN saved
        /\ UNCHANGED <<connected, owners, dark, enabled, conn_id, saved, inputs,
                       watchdogs, orphans, raced>>
    BY <1>3 DEF turn_off_privacy
  <2>2. step = "none" /\ a # None BY <1>0, <2>1 DEF LockInv, Actors
  <2>3. WatchdogInv' BY <1>0, <2>1, <2>2 DEF WatchdogInv
  <2>4. ~raced => SavedInv' BY <1>0, <2>1, <2>2 DEF SavedInv, AsBefore
  <2>5. ~raced => ProgressInv'
    BY <1>0, <2>1, <2>2 DEF SavedInv, ProgressInv, TypeOK
  <2> QED BY <2>1, <2>2, <2>3, <2>4, <2>5 DEF ScreenInv, OnIsDark
<1>4. CASE Quit BY <1>4, SameScreen DEF Quit
<1>5. ASSUME NEW c \in Conns, ConnStep(c)
      PROVE  UNCHANGED deviceVars \/ turn_on_privacy(c)
  BY <1>5 DEF ConnStep, LoginRequest, Authorized, toggle_privacy_mode,
              EndConnection, Gone, TurnOnFailed
<1>6. ASSUME UNCHANGED deviceVars PROVE ScreenInv' BY <1>6, SameScreen
<1> HIDE DEF deviceVars
<1> QED BY <1>1, <1>2, <1>3, <1>4, <1>5, <1>6

\* turn_on_privacy up to the watchdog: an error leaves all as it was.
LEMMA LookScreen ==
    ASSUME Inv,
           \/ connected_outputs_with_brightness
           \/ enabled_physical_inputs
           \/ spawn_watchdog
    PROVE  ScreenInv'
<1> USE DEF screenVars, implVars
<1>0. TypeOK /\ LockInv /\ WatchdogInv
      /\ (~raced => SavedInv /\ ProgressInv /\ OnIsDark)
  BY DEF Inv
<1>1. /\ step \in {"outputs", "inputs", "spawn"} /\ watchdogs = {}
      /\ conn_id = None /\ lock # None
      /\ UNCHANGED <<connected, owners, dark, enabled, conn_id, orphans>>
  BY <1>0 DEF connected_outputs_with_brightness, enabled_physical_inputs,
              spawn_watchdog, LockInv, WatchdogInv
<1>2. ASSUME Fails(lock), saved' = Nothing, inputs' = {}, watchdogs' = {},
             UNCHANGED raced
      PROVE  ScreenInv'
  <2>1. lock' = None /\ step' = "none" BY <1>2 DEF Fails
  <2>2. WatchdogInv' BY <1>1, <1>2, <2>1 DEF WatchdogInv
  <2>3. ~raced => SavedInv' BY <1>0, <1>1, <1>2, <2>1 DEF SavedInv, AsBefore
  <2> QED BY <1>1, <1>2, <2>1, <2>2, <2>3 DEF ScreenInv, ProgressInv, OnIsDark
<1>3. CASE connected_outputs_with_brightness
  <2>1. CASE Fails(lock) /\ UNCHANGED <<saved, raced>>
    BY <1>0, <1>1, <1>2, <1>3, <2>1
    DEF connected_outputs_with_brightness, WatchdogInv
  <2>2. CASE /\ step' = "inputs" /\ saved' = [o \in connected |-> o \in dark]
             /\ raced' = (raced \/ orphans # {}) /\ UNCHANGED <<lock, todo>>
    <3>1. /\ step = "outputs" /\ UNCHANGED <<inputs, watchdogs>>
      BY <1>3 DEF connected_outputs_with_brightness
    <3>2. WatchdogInv' BY <1>0, <1>1, <2>2, <3>1 DEF WatchdogInv
    <3>3. ASSUME ~raced' PROVE SavedInv'
      <4>1. ~raced /\ orphans = {} /\ dark = {} /\ enabled = owners
        BY <1>0, <1>1, <2>2, <3>3 DEF SavedInv, AsBefore
      <4>2. DOMAIN saved' = connected /\ \A o \in connected : ~saved'[o]
        BY <2>2, <4>1
      <4> QED BY <1>1, <2>2, <3>1, <4>1, <4>2 DEF SavedInv, AsBefore
    <3> QED BY <1>1, <2>2, <3>1, <3>2, <3>3 DEF ScreenInv, ProgressInv, OnIsDark
  <2> QED BY <1>3, <2>1, <2>2 DEF connected_outputs_with_brightness
<1>4. CASE enabled_physical_inputs
  <2>0. inputs = {} /\ step = "inputs" /\ UNCHANGED <<watchdogs, raced>>
    BY <1>0, <1>1, <1>4 DEF enabled_physical_inputs, WatchdogInv
  <2>1. CASE Fails(lock) /\ saved' = Nothing /\ UNCHANGED inputs
    BY <1>1, <1>2, <2>0, <2>1
  <2>2. CASE step' = "spawn" /\ inputs' = enabled /\ UNCHANGED <<lock, todo, saved>>
    <3>1. WatchdogInv' BY <1>0, <1>1, <2>0, <2>2 DEF WatchdogInv
    <3>2. ~raced => SavedInv'
      BY <1>0, <1>1, <2>0, <2>2 DEF SavedInv, AsBefore
    <3> QED BY <1>1, <2>0, <2>2, <3>1, <3>2 DEF ScreenInv, ProgressInv, OnIsDark
  <2> QED BY <1>4, <2>1, <2>2 DEF enabled_physical_inputs
<1>5. CASE spawn_watchdog
  <2>0. step = "spawn" /\ UNCHANGED <<raced, ok>> BY <1>5 DEF spawn_watchdog
  <2>1. CASE Fails(lock) /\ saved' = Nothing /\ inputs' = {} /\ UNCHANGED watchdogs
    BY <1>1, <1>2, <2>0, <2>1
  <2>2. CASE /\ step' = "dim" /\ todo' = DOMAIN saved
             /\ watchdogs' = {[outputs |-> saved, inputs |-> inputs]}
             /\ UNCHANGED <<lock, saved, inputs>>
    <3>1. WatchdogInv' BY <1>1, <2>0, <2>2 DEF WatchdogInv
    <3>2. ~raced => SavedInv' BY <1>0, <1>1, <2>0, <2>2 DEF SavedInv
    <3>3. ~raced => ProgressInv'
      BY <1>0, <1>1, <2>0, <2>2 DEF SavedInv, ProgressInv
    <3> QED BY <1>1, <2>0, <2>2, <3>1, <3>2, <3>3 DEF ScreenInv, OnIsDark
  <2> QED BY <1>5, <2>1, <2>2 DEF spawn_watchdog
<1> QED BY <1>3, <1>4, <1>5

\* turn_on_privacy after the watchdog has been started: an error leads to
\* restore, success to a dark screen.
LEMMA DarkenScreen ==
    ASSUME Inv,
           \/ \E o \in Outputs : Dim(o)
           \/ \E d \in Devices : Disable(d)
           \/ Dimmed \/ Disabled
    PROVE  ScreenInv'
<1> USE DEF screenVars, implVars
<1>0. TypeOK /\ LockInv /\ WatchdogInv
      /\ (~raced => SavedInv /\ ProgressInv /\ OnIsDark)
  BY DEF Inv
<1>1. /\ step \in {"dim", "disable"} /\ watchdogs # {} /\ lock # None
      /\ UNCHANGED <<connected, owners, saved, inputs, watchdogs, orphans, raced>>
  BY <1>0 DEF Dim, Disable, Dimmed, Disabled, LockInv, WatchdogInv
<1>2. ASSUME NEW o \in Outputs, Dim(o) PROVE ScreenInv'
  <2>1. /\ step = "dim" /\ o \in todo /\ todo' = todo \ {o}
        /\ UNCHANGED <<lock, step, enabled, conn_id>>
        /\ (dark' = dark \cup {o} /\ ok' = ok) \/ (~ok' /\ dark' = dark)
    BY <1>2, FirstIn DEF Dim
  <2>2. WatchdogInv' BY <1>0, <1>1, <2>1 DEF WatchdogInv
  <2>3. ~raced => SavedInv' BY <1>0, <1>1, <2>1 DEF SavedInv
  <2>4. ~raced => ProgressInv' BY <1>0, <1>1, <2>1 DEF ProgressInv
  <2> QED BY <1>1, <2>1, <2>2, <2>3, <2>4 DEF ScreenInv, OnIsDark
<1>3. ASSUME NEW d \in Devices, Disable(d) PROVE ScreenInv'
  <2>1. /\ step = "disable" /\ d \in todo /\ todo' = todo \ {d}
        /\ UNCHANGED <<lock, step, dark, conn_id>>
        /\ (enabled' = enabled \ {d} /\ ok' = ok) \/ (~ok' /\ enabled' = enabled)
    BY <1>3, FirstIn DEF Disable
  <2>2. WatchdogInv' BY <1>0, <1>1, <2>1 DEF WatchdogInv
  <2>3. ~raced => SavedInv' BY <1>0, <1>1, <2>1 DEF SavedInv
  <2>4. ~raced => ProgressInv' BY <1>0, <1>1, <2>1 DEF ProgressInv
  <2> QED BY <1>1, <2>1, <2>2, <2>3, <2>4 DEF ScreenInv, OnIsDark
<1>4. CASE Dimmed
  <2>1. /\ step = "dim" /\ todo = {}
        /\ UNCHANGED <<lock, ok, dark, enabled, conn_id>>
        /\ \/ ok /\ step' = "disable" /\ todo' = inputs
           \/ ~ok /\ step' = "restore_outputs" /\ todo' = DOMAIN saved
    BY <1>4 DEF Dimmed
  <2>2. WatchdogInv' BY <1>0, <1>1, <2>1 DEF WatchdogInv
  <2>3. ~raced => SavedInv' BY <1>0, <1>1, <2>1 DEF SavedInv
  <2>4. ~raced => ProgressInv'
    BY <1>0, <1>1, <2>1 DEF ProgressInv, SavedInv, TypeOK
  <2> QED BY <1>1, <2>1, <2>2, <2>3, <2>4 DEF ScreenInv, OnIsDark
<1>5. CASE Disabled
  <2>1. /\ step = "disable" /\ todo = {} /\ UNCHANGED <<ok, dark, enabled>>
        /\ \/ ok /\ step' = "none" /\ conn_id' = lock /\ lock' = None
           \/ /\ step' = "restore_outputs" /\ todo' = DOMAIN saved
              /\ UNCHANGED <<lock, conn_id>>
    BY <1>5 DEF Disabled
  <2>2. WatchdogInv' BY <1>0, <1>1, <2>1 DEF WatchdogInv
  <2>3. ~raced => SavedInv' BY <1>0, <1>1, <2>1 DEF SavedInv
  <2>4. ~raced => ProgressInv'
    BY <1>0, <1>1, <2>1 DEF ProgressInv, SavedInv, TypeOK
  <2>5. ~raced => OnIsDark' BY <1>0, <1>1, <2>1 DEF ProgressInv, OnIsDark
  <2> QED BY <1>1, <2>2, <2>3, <2>4, <2>5 DEF ScreenInv
<1> QED BY <1>2, <1>3, <1>4, <1>5

\* restore: when the watchdog is killed, nothing is left to put back.
LEMMA RestoreScreen ==
    ASSUME Inv,
           \/ \E o \in Outputs : RestoreOutput(o)
           \/ \E d \in Devices : RestoreInput(d)
           \/ OutputsRestored \/ Restored
    PROVE  ScreenInv'
<1> USE PrivacyModeAssumption DEF screenVars, implVars
<1>0. TypeOK /\ LockInv /\ WatchdogInv
      /\ (~raced => SavedInv /\ ProgressInv /\ OnIsDark)
  BY DEF Inv
<1>1. /\ step \in {"restore_outputs", "restore_inputs"} /\ lock # None
      /\ UNCHANGED <<connected, owners, orphans, raced>>
  BY <1>0 DEF RestoreOutput, RestoreInput, OutputsRestored, Restored, LockInv
<1>2. ASSUME NEW o \in Outputs, RestoreOutput(o) PROVE ScreenInv'
  <2>1. /\ step = "restore_outputs" /\ o \in todo /\ todo' = todo \ {o}
        /\ UNCHANGED <<lock, step, ok, enabled, conn_id, saved, inputs, watchdogs>>
        /\ dark' = IF saved[o] THEN dark \cup {o} ELSE dark \ {o}
    BY <1>2, FirstIn DEF RestoreOutput
  <2>2. o \in DOMAIN saved /\ watchdogs # {}
    BY <1>0, <2>1, NothingSaved DEF WatchdogInv
  <2>3. WatchdogInv' BY <1>0, <1>1, <2>1 DEF WatchdogInv
  <2>4. ~raced => SavedInv' BY <1>0, <1>1, <2>1, <2>2 DEF SavedInv
  <2>5. ~raced => dark' = dark \ {o} BY <1>0, <2>1, <2>2 DEF SavedInv
  <2>6. ~raced => ProgressInv' BY <1>0, <1>1, <2>1, <2>5 DEF ProgressInv
  <2> QED BY <1>1, <2>1, <2>3, <2>4, <2>6 DEF ScreenInv, OnIsDark
<1>3. ASSUME NEW d \in Devices, RestoreInput(d) PROVE ScreenInv'
  <2>1. /\ step = "restore_inputs" /\ d \in todo /\ todo' = todo \ {d}
        /\ UNCHANGED <<lock, step, ok, dark, conn_id, saved, inputs, watchdogs>>
        /\ enabled' = enabled \cup {d}
    BY <1>3, FirstIn DEF RestoreInput
  <2>2. d \in inputs /\ watchdogs # {} BY <1>0, <2>1 DEF WatchdogInv
  <2>3. WatchdogInv' BY <1>0, <1>1, <2>1 DEF WatchdogInv
  <2>4. ~raced => SavedInv' BY <1>0, <1>1, <2>1, <2>2 DEF SavedInv
  <2>5. ~raced => ProgressInv' BY <1>0, <1>1, <2>1 DEF ProgressInv
  <2> QED BY <1>1, <2>1, <2>3, <2>4, <2>5 DEF ScreenInv, OnIsDark
<1>4. CASE OutputsRestored
  <2>1. /\ step = "restore_outputs" /\ todo = {} /\ step' = "restore_inputs"
        /\ todo' = inputs
        /\ UNCHANGED <<lock, ok, dark, enabled, conn_id, saved, inputs, watchdogs>>
    BY <1>4 DEF OutputsRestored
  <2>2. WatchdogInv' BY <1>0, <1>1, <2>1 DEF WatchdogInv
  <2>3. ~raced => SavedInv' BY <1>0, <1>1, <2>1 DEF SavedInv, AsBefore
  <2>4. ~raced => ProgressInv' BY <1>0, <1>1, <2>1 DEF ProgressInv, SavedInv
  <2> QED BY <1>1, <2>1, <2>2, <2>3, <2>4 DEF ScreenInv, OnIsDark
<1>5. CASE Restored
  <2>1. /\ step = "restore_inputs" /\ todo = {} /\ step' = "none" /\ lock' = None
        /\ saved' = Nothing /\ inputs' = {} /\ watchdogs' = {}
        /\ UNCHANGED <<dark, enabled>>
    BY <1>5 DEF Restored
  <2>2. conn_id' = None BY <1>0, <1>5, <1>1 DEF Restored, LockInv
  <2>3. WatchdogInv' BY <2>1, <2>2 DEF WatchdogInv
  <2>4. ~raced => SavedInv'
    BY <1>0, <1>1, <2>1 DEF SavedInv, ProgressInv, AsBefore
  <2> QED BY <1>1, <2>1, <2>2, <2>3, <2>4 DEF ScreenInv, ProgressInv, OnIsDark
<1> QED BY <1>2, <1>3, <1>4, <1>5

\* A watchdog that is left alone has all that is to be put back, and does it.
LEMMA ProcessScreen ==
    ASSUME Inv, Exit \/ Crash \/ Restart \/ AnyWatchdogStep
    PROVE  ScreenInv'
<1> USE PrivacyModeAssumption DEF screenVars, implVars, callVars
<1>0. TypeOK /\ LockInv /\ WatchdogInv
      /\ (~raced => SavedInv /\ ProgressInv /\ OnIsDark)
  BY DEF Inv
<1>1. CASE Dies
  <2>1. /\ lock' = None /\ step' = "none" /\ conn_id' = None /\ saved' = Nothing
        /\ inputs' = {} /\ watchdogs' = {} /\ orphans' = orphans \cup watchdogs
        /\ UNCHANGED <<connected, owners, dark, enabled, raced>>
    BY <1>1 DEF Dies
  <2>2. WatchdogInv' BY <2>1 DEF WatchdogInv
  <2>3. ~raced => SavedInv'
    <3>1. CASE watchdogs = {}
      BY <1>0, <2>1, <3>1 DEF SavedInv, AsBefore
    <3>2. CASE watchdogs # {}
      <4> SUFFICES ASSUME ~raced PROVE SavedInv' OBVIOUS
      <4> DEFINE v == [outputs |-> saved, inputs |-> inputs]
      <4>1. orphans' = {v} BY <1>0, <2>1, <3>2 DEF SavedInv, WatchdogInv
      <4>2. v.outputs = saved /\ v.inputs = inputs OBVIOUS
      <4>3. /\ DOMAIN saved = connected /\ \A o \in connected : ~saved[o]
            /\ inputs = owners /\ enabled \subseteq owners
        BY <1>0, <3>2 DEF SavedInv
      <4> HIDE DEF v
      <4>4. dark \subseteq connected BY <1>0 DEF TypeOK
      <4> QED BY <2>1, <4>1, <4>2, <4>3, <4>4 DEF SavedInv
    <3> QED BY <3>1, <3>2
  <2> QED BY <2>1, <2>2, <2>3 DEF ScreenInv, ProgressInv, OnIsDark
<1>2. CASE Restart BY <1>2, SameScreen DEF Restart, deviceVars
<1>3. ASSUME NEW w \in orphans, WatchdogStep(w) PROVE ScreenInv'
  <2>0. UNCHANGED <<connected, owners, lock, step, todo, ok, conn_id, saved,
                    inputs, watchdogs, raced>>
    BY <1>3 DEF WatchdogStep
  <2>1. WatchdogInv' BY <1>0, <2>0 DEF WatchdogInv
  <2>2. ASSUME ~raced
        PROVE  watchdogs = {} /\ step \notin {"inputs", "spawn", "dim", "disable"}
    BY <1>0, <2>2 DEF SavedInv, WatchdogInv
  <2>3. ASSUME ~raced PROVE SavedInv'
    <3>0. /\ SavedInv /\ dark \subseteq DOMAIN w.outputs
          /\ \A o \in DOMAIN w.outputs : ~w.outputs[o]
          /\ w.inputs \subseteq owners /\ owners \ enabled \subseteq w.inputs
      BY <1>0, <2>3 DEF SavedInv
    <3>1. ASSUME NEW o \in DOMAIN w.outputs,
                 dark' = IF w.outputs[o] THEN dark \cup {o} ELSE dark \ {o},
                 orphans' = (orphans \ {w}) \cup
                    {[w EXCEPT !.outputs = Restrict(@, DOMAIN @ \ {o})]},
                 UNCHANGED enabled
          PROVE  SavedInv'
      <4> DEFINE v == [w EXCEPT !.outputs = Restrict(@, DOMAIN @ \ {o})]
      <4>1. /\ DOMAIN v.outputs = DOMAIN w.outputs \ {o}
            /\ \A x \in DOMAIN v.outputs : v.outputs[x] = w.outputs[x]
            /\ v.inputs = w.inputs
        BY <1>0, WatchdogRest
      <4>2. dark' = dark \ {o} BY <3>0, <3>1
      <4>3. orphans' = (orphans \ {w}) \cup {v} BY <3>1
      <4> HIDE DEF v
      <4>4. \A x \in DOMAIN v.outputs : ~v.outputs[x] BY <3>0, <4>1
      <4>5. \A u \in orphans' :
               /\ dark' \subseteq DOMAIN u.outputs
               /\ \A x \in DOMAIN u.outputs : ~u.outputs[x]
               /\ u.inputs \subseteq owners /\ owners \ enabled \subseteq u.inputs
        <5>1. ASSUME NEW u \in orphans
              PROVE  /\ dark \subseteq DOMAIN u.outputs
                     /\ \A x \in DOMAIN u.outputs : ~u.outputs[x]
                     /\ u.inputs \subseteq owners
                     /\ owners \ enabled \subseteq u.inputs
          BY <3>0 DEF SavedInv
        <5> QED BY <3>0, <4>1, <4>2, <4>3, <4>4, <5>1
      <4> QED BY <2>0, <2>2, <2>3, <3>0, <3>1, <4>3, <4>5 DEF SavedInv
    <3>2. ASSUME NEW d \in w.inputs, enabled' = enabled \cup {d}, UNCHANGED dark,
                 orphans' = (orphans \ {w}) \cup {[w EXCEPT !.inputs = @ \ {d}]},
                 DOMAIN w.outputs = {}
          PROVE  SavedInv'
      <4> DEFINE v == [w EXCEPT !.inputs = @ \ {d}]
      <4>1. v.outputs = w.outputs /\ v.inputs = w.inputs \ {d}
        BY <1>0, WatchdogRest
      <4>2. orphans' = (orphans \ {w}) \cup {v} BY <3>2
      <4> HIDE DEF v
      <4>3. \A u \in orphans' :
               /\ dark' \subseteq DOMAIN u.outputs
               /\ \A x \in DOMAIN u.outputs : ~u.outputs[x]
               /\ u.inputs \subseteq owners /\ owners \ enabled' \subseteq u.inputs
        <5>1. ASSUME NEW u \in orphans
              PROVE  /\ dark \subseteq DOMAIN u.outputs
                     /\ \A x \in DOMAIN u.outputs : ~u.outputs[x]
                     /\ u.inputs \subseteq owners
                     /\ owners \ enabled \subseteq u.inputs
          BY <3>0 DEF SavedInv
        <5> QED BY <3>0, <3>2, <4>1, <4>2, <5>1
      <4>4. enabled' \subseteq owners BY <3>0, <3>2 DEF SavedInv
      <4> QED BY <2>0, <2>2, <2>3, <4>2, <4>3, <4>4 DEF SavedInv
    <3>3. CASE /\ DOMAIN w.outputs = {} /\ w.inputs = {}
               /\ orphans' = orphans \ {w} /\ UNCHANGED screenVars
      <4>1. dark = {} /\ enabled = owners BY <3>0, <3>3 DEF SavedInv
      <4>2. \A u \in orphans' : u \in orphans BY <3>3
      <4> QED BY <2>0, <2>2, <2>3, <3>0, <3>3, <4>1, <4>2 DEF SavedInv, AsBefore
    <3> QED BY <1>3, <3>1, <3>2, <3>3 DEF WatchdogStep
  <2>4. ~raced => ProgressInv' BY <2>0, <2>2 DEF ProgressInv
  <2>5. ~raced => OnIsDark' BY <1>0, <2>0, <2>2 DEF OnIsDark, WatchdogInv
  <2> QED BY <2>0, <2>1, <2>3, <2>4, <2>5 DEF ScreenInv
<1> QED BY <1>1, <1>2, <1>3 DEF Exit, Crash, AnyWatchdogStep

-----------------------------------------------------------------------------
(* The theorems. *)

\* The process starts with the screen as it is to be restored.
LEMMA InitInv == Init => Inv
<1> SUFFICES ASSUME Init PROVE Inv OBVIOUS
<1> USE PrivacyModeAssumption DEF Actors
<1>1. saved \in UNION {[O -> BOOLEAN] : O \in SUBSET connected}
  BY NothingSaved DEF Init
<1>2. Cardinality(watchdogs) < 2 BY OneWatchdog DEF Init
<1>3. TypeOK
  <2>1. starts \in 1..MaxStarts BY DEF Init
  <2>2. /\ conn \in [Conns -> {"new", "asked", "in", "closing", "gone"}]
        /\ at \in [Actors -> {"idle", "turn_on", "failed", "turn_off",
                              "turn_off_any", "exit"}]
    BY DEF Init
  <2>3. connected \subseteq Outputs /\ owners \subseteq Devices /\ enabled = owners
    BY DEF Init
  <2> QED BY <1>1, <1>2, <2>1, <2>2, <2>3 DEF Init, TypeOK
<1>4. HolderIsThere /\ HandlersInv /\ LockInv
  BY DEF Init, HolderIsThere, HandlersInv, LockInv
<1>5. WatchdogInv /\ SavedInv /\ ProgressInv /\ OnIsDark
  BY DEF Init, WatchdogInv, SavedInv, ProgressInv, OnIsDark, AsBefore
<1> QED BY <1>3, <1>4, <1>5 DEF Inv

\* Every step keeps the inductive invariant.
LEMMA NextInv == Inv /\ [Next]_vars => Inv'
<1> SUFFICES ASSUME Inv, [Next]_vars PROVE Inv'
  OBVIOUS
<1>1. CASE \/ \E c \in Conns : ConnStep(c)
           \/ \E a \in Actors : turn_off_privacy(a)
           \/ Quit
  <2>1. TypeOK' BY <1>1, HandlerType
  <2>2. HolderIsThere' /\ HandlersInv' /\ LockInv' BY <1>1, HandlerControl
  <2>3. ScreenInv' BY <1>1, HandlerScreen
  <2> QED BY <2>1, <2>2, <2>3 DEF Inv, ScreenInv
<1>2. CASE LockedStep
  <2>1. TypeOK' BY <1>2, LockedType
  <2>2. HolderIsThere' /\ HandlersInv' /\ LockInv' BY <1>2, LockedControl
  <2>3. ScreenInv'
    BY <1>2, LookScreen, DarkenScreen, RestoreScreen DEF LockedStep
  <2> QED BY <2>1, <2>2, <2>3 DEF Inv, ScreenInv
<1>3. CASE Exit \/ Crash \/ Restart \/ AnyWatchdogStep
  <2>1. TypeOK' BY <1>3, ProcessType
  <2>2. HolderIsThere' /\ HandlersInv' /\ LockInv' BY <1>3, ProcessControl
  <2>3. ScreenInv' BY <1>3, ProcessScreen
  <2> QED BY <2>1, <2>2, <2>3 DEF Inv, ScreenInv
<1>4. CASE UNCHANGED vars
  <2>1. ScreenInv' BY <1>4, SameScreen DEF vars, deviceVars
  <2>2. TypeOK' BY <1>4 DEF vars, Inv, TypeOK, Watchdogs
  <2>3. HolderIsThere' /\ HandlersInv' /\ LockInv'
    BY <1>4 DEF vars, Inv, HolderIsThere, HandlersInv, LockInv
  <2> QED BY <2>1, <2>2, <2>3 DEF Inv, ScreenInv
<1> QED BY <1>1, <1>2, <1>3, <1>4 DEF Next

\* Privacy mode does not outlive the connection it was turned on for, and what
\* is needed to restore the screen is with the process or a watchdog.
THEOREM HolderThere == Spec => []Inv
<1>1. Init => Inv BY InitInv
<1>2. Inv /\ [Next]_vars => Inv' BY NextInv
<1> QED BY <1>1, <1>2, PTL DEF Spec

\* When privacy mode is off and no watchdog is at work, the screen and the
\* devices are as they were before turn_on_privacy.
THEOREM ScreenIsRestored == Spec => []ScreenRestored
<1>1. Inv => ScreenRestored
  BY DEF Inv, WatchdogInv, SavedInv, ScreenRestored
<1> QED BY <1>1, HolderThere, PTL

\* While it is on, every output is dark and every device disabled.
THEOREM DarkWhileOn == Spec => []OnIsDark
<1>1. Inv => OnIsDark BY DEF Inv, OnIsDark
<1> QED BY <1>1, HolderThere, PTL

=============================================================================
