----------------------------- MODULE PrivacyMode -----------------------------
(***************************************************************************)
(* Privacy mode: src/privacy_mode.rs, its X11 implementation               *)
(* src/privacy_mode/linux.rs, and the handlers of a connection that use it *)
(* (src/server/connection.rs).  While it is on, the connected outputs have *)
(* brightness 0 and the physical input devices are disabled.               *)
(*                                                                         *)
(* Every call holds the lock PRIVACY_MODE to its end, but the screen and   *)
(* the devices belong to the X server: each is changed by a command of its *)
(* own, the process may die between any two of them, and a watchdog        *)
(* process, started before anything is changed, then puts back what the    *)
(* process had found.  One action is one command, or what a handler does   *)
(* between two acquisitions of the lock.                                   *)
(*                                                                         *)
(* There is one implementation on this platform, so nothing ever switches  *)
(* to another (Data::Options, the changed impl_key of a request), and it   *)
(* is not an asynchronous one.                                             *)
(***************************************************************************)
EXTENDS Naturals, FiniteSets, Functions

CONSTANTS
    Conns,       \* ids of connections; the process never uses one twice
    Ipc,         \* the handler of Data::Close
    None,        \* INVALID_PRIVACY_MODE_CONN_ID; a free lock
    Outputs,     \* outputs of the X server
    Devices,     \* its physical input devices
    MaxStarts    \* bound: how often the process is started

ASSUME PrivacyModeAssumption ==
    /\ None \notin Conns \cup {Ipc} /\ Ipc \notin Conns
    /\ IsFiniteSet(Outputs) /\ IsFiniteSet(Devices)
    /\ MaxStarts \in Nat \ {0}

Actors == Conns \cup {Ipc}

VARIABLES
    connected,   \* outputs with a display
    owners,      \* devices that the owner of the computer has enabled
    dark,        \* outputs with brightness 0
    enabled,     \* devices that are enabled
    starts,      \* starts of the process so far
    alive,
    conn,        \* "new", "asked" (to log in), "in", "closing", "gone"
    told,        \* connections whose peer believes that privacy mode is on
    at,          \* where the handler of an actor is
    lock,        \* who holds PRIVACY_MODE
    step, todo,  \* ... and what it is at, with which outputs or devices left
    ok,          \* no command of turn_on_privacy has failed
    conn_id,
    saved,       \* saved_brightness: output -> it was dark already
    inputs,      \* disabled_inputs
    watchdogs,   \* of the running process: none, or one
    orphans,     \* those of processes that are dead
    raced        \* a process has looked at the screen before an orphan was done

screenVars == <<dark, enabled>>
implVars == <<conn_id, saved, inputs, watchdogs>>
callVars == <<lock, step, todo, ok>>
vars == <<connected, owners, dark, enabled, starts, alive, conn, told, at, lock,
          step, todo, ok, conn_id, saved, inputs, watchdogs, orphans, raced>>

\* What a watchdog has still to put back.
Watchdogs == [outputs : UNION {[O -> BOOLEAN] : O \in SUBSET connected},
              inputs : SUBSET Devices]

Nothing == [o \in {} |-> TRUE]

TypeOK ==
    /\ connected \subseteq Outputs /\ dark \subseteq connected
    /\ enabled \subseteq Devices /\ owners \subseteq Devices
    /\ starts \in 1..MaxStarts /\ alive \in BOOLEAN
    /\ conn \in [Conns -> {"new", "asked", "in", "closing", "gone"}]
    /\ told \subseteq Conns
    /\ at \in [Actors -> {"idle", "turn_on", "failed", "turn_off",
                          "turn_off_any", "exit"}]
    /\ lock \in Actors \cup {None}
    /\ step \in {"none", "outputs", "inputs", "spawn", "dim", "disable",
                 "restore_outputs", "restore_inputs"}
    /\ todo \subseteq Outputs \cup Devices /\ ok \in BOOLEAN
    /\ conn_id \in Conns \cup {None}
    /\ saved \in UNION {[O -> BOOLEAN] : O \in SUBSET connected}
    /\ inputs \subseteq Devices
    /\ watchdogs \subseteq Watchdogs /\ Cardinality(watchdogs) < 2
    /\ orphans \subseteq Watchdogs
    /\ raced \in BOOLEAN

Init ==
    /\ connected \in SUBSET Outputs /\ owners \in SUBSET Devices
    /\ dark = {} /\ enabled = owners
    /\ starts = 1 /\ alive = TRUE
    /\ conn = [c \in Conns |-> "new"] /\ told = {}
    /\ at = [a \in Actors |-> "idle"]
    /\ lock = None /\ step = "none" /\ todo = {} /\ ok = TRUE
    /\ conn_id = None /\ saved = Nothing /\ inputs = {} /\ watchdogs = {}
    /\ orphans = {} /\ raced = FALSE

Goto(a, from, to) == at[a] = from /\ at' = [at EXCEPT ![a] = to]

Free == alive /\ lock = None

\* Outputs and devices are treated one after the other, in the order of a list.
First(S) == CHOOSE x \in S : TRUE

\* handle_back_msg_privacy_mode of the peer: what he believes after a message.
handle_back_msg_privacy_mode(c, state) ==
    told' = CASE state = "PrvOnSucceeded" -> told \cup {c}
              [] state = "PrvOffFailed" -> told
              [] OTHER -> told \ {c}

-----------------------------------------------------------------------------
(* Connections. *)

\* A LoginRequest.  check_privacy_mode_on refuses remote control, and no other
\* kind of connection, while somebody has privacy mode on.
LoginRequest(c) ==
    /\ Free /\ conn[c] = "new"
    /\ \/ conn' = [conn EXCEPT ![c] = "asked"]
       \/ conn_id # None /\ conn' = [conn EXCEPT ![c] = "gone"]
    /\ UNCHANGED <<connected, owners, screenVars, starts, alive, told, at,
                   callVars, implVars, orphans, raced>>

\* The user's click, the second factor, or nothing that takes time.
Authorized(c) ==
    /\ alive /\ conn[c] = "asked"
    /\ conn' = [conn EXCEPT ![c] = "in"]
    /\ UNCHANGED <<connected, owners, screenVars, starts, alive, told, at,
                   callVars, implVars, orphans, raced>>

toggle_privacy_mode(c) ==
    /\ alive /\ conn[c] = "in"
    /\ \/ Goto(c, "idle", "turn_on")
       \/ Goto(c, "idle", "turn_off")
    /\ UNCHANGED <<connected, owners, screenVars, starts, alive, conn, told,
                   callVars, implVars, orphans, raced>>

\* Mutant: the connection that ends leaves privacy mode on.
EndConnection_Keep(c) ==
    /\ alive /\ conn[c] \in {"asked", "in"} /\ at[c] = "idle"
    /\ conn' = [conn EXCEPT ![c] = "closing"]
    /\ UNCHANGED <<connected, owners, screenVars, starts, alive, told, at,
                   callVars, implVars, orphans, raced>>

EndConnection(c) ==
    /\ Free /\ conn[c] \in {"asked", "in"} /\ at[c] = "idle"
    /\ conn' = [conn EXCEPT ![c] = "closing"]
    /\ at' = [at EXCEPT ![c] = IF conn_id = c THEN "turn_off" ELSE "idle"]
    /\ UNCHANGED <<connected, owners, screenVars, starts, alive, told,
                   callVars, implVars, orphans, raced>>

Gone(c) ==
    /\ alive /\ conn[c] = "closing" /\ at[c] = "idle"
    /\ conn' = [conn EXCEPT ![c] = "gone"] /\ told' = told \ {c}
    /\ UNCHANGED <<connected, owners, screenVars, starts, alive, at, callVars,
                   implVars, orphans, raced>>

\* Data::Close: privacy mode is turned off for whoever has it, then the process
\* exits.  This is the server; another process only exits.
Quit ==
    /\ alive /\ Goto(Ipc, "idle", "turn_off_any")
    /\ UNCHANGED <<connected, owners, screenVars, starts, alive, conn, told,
                   callVars, implVars, orphans, raced>>

-----------------------------------------------------------------------------
(* Connection::turn_on_privacy, turn_on_privacy_sync. *)

turn_on_privacy(c) ==
    /\ Free /\ at[c] = "turn_on"
    /\ \/ /\ conn_id = c
          /\ handle_back_msg_privacy_mode(c, "PrvOnSucceeded")
          /\ at' = [at EXCEPT ![c] = "idle"]
          /\ UNCHANGED callVars
       \/ /\ conn_id \notin {c, None}
          /\ at' = [at EXCEPT ![c] = "failed"]
          /\ UNCHANGED <<told, callVars>>
       \/ /\ conn_id = None
          /\ lock' = c /\ step' = "outputs" /\ ok' = TRUE
          /\ UNCHANGED <<told, at, todo>>
    /\ UNCHANGED <<connected, owners, screenVars, starts, alive, conn, implVars,
                   orphans, raced>>

\* An error of turn_on_privacy before anything was changed.
Fails(c) ==
    /\ at' = [at EXCEPT ![c] = "failed"]
    /\ lock' = None /\ step' = "none" /\ todo' = {}

\* The result is kept in saved from here on: nobody reads it before the
\* watchdog is there, or it is dropped.
connected_outputs_with_brightness ==
    /\ alive /\ step = "outputs"
    /\ \/ /\ connected # {}
          /\ step' = "inputs"
          /\ saved' = [o \in connected |-> o \in dark]
          /\ raced' = (raced \/ orphans # {})
          /\ UNCHANGED <<at, lock, todo>>
       \/ /\ Fails(lock)
          /\ UNCHANGED <<saved, raced>>
    /\ UNCHANGED <<connected, owners, screenVars, starts, alive, conn, told, ok,
                   conn_id, inputs, watchdogs, orphans>>

\* Mutant: is_input_enabled is not asked.
enabled_physical_inputs_All ==
    /\ alive /\ step = "inputs"
    /\ step' = "spawn" /\ inputs' = Devices
    /\ UNCHANGED <<at, lock, todo, saved>>
    /\ UNCHANGED <<connected, owners, screenVars, starts, alive, conn, told, ok,
                   conn_id, watchdogs, orphans, raced>>

enabled_physical_inputs ==
    /\ alive /\ step = "inputs"
    /\ \/ /\ step' = "spawn" /\ inputs' = enabled
          /\ UNCHANGED <<at, lock, todo, saved>>
       \/ /\ Fails(lock) /\ saved' = Nothing
          /\ UNCHANGED inputs
    /\ UNCHANGED <<connected, owners, screenVars, starts, alive, conn, told, ok,
                   conn_id, watchdogs, orphans, raced>>

spawn_watchdog ==
    /\ alive /\ step = "spawn"
    /\ \/ /\ step' = "dim" /\ todo' = DOMAIN saved
          /\ watchdogs' = {[outputs |-> saved, inputs |-> inputs]}
          /\ UNCHANGED <<at, lock, saved, inputs>>
       \/ /\ Fails(lock) /\ saved' = Nothing /\ inputs' = {}
          /\ UNCHANGED watchdogs
    /\ UNCHANGED <<connected, owners, screenVars, starts, alive, conn, told, ok,
                   conn_id, orphans, raced>>

\* xrandr --brightness 0, xinput disable: each may fail, the others are tried.
Dim(o) ==
    /\ alive /\ step = "dim" /\ todo # {} /\ o = First(todo)
    /\ todo' = todo \ {o}
    /\ \/ dark' = dark \cup {o} /\ UNCHANGED ok
       \/ ok' = FALSE /\ UNCHANGED dark
    /\ UNCHANGED <<connected, owners, enabled, starts, alive, conn, told, at,
                   lock, step, implVars, orphans, raced>>

Disable(d) ==
    /\ alive /\ step = "disable" /\ todo # {} /\ d = First(todo)
    /\ todo' = todo \ {d}
    /\ \/ enabled' = enabled \ {d} /\ UNCHANGED ok
       \/ ok' = FALSE /\ UNCHANGED enabled
    /\ UNCHANGED <<connected, owners, dark, starts, alive, conn, told, at, lock,
                   step, implVars, orphans, raced>>

\* Mutant: one output that could be dimmed is enough.
Dimmed_Any ==
    /\ alive /\ step = "dim" /\ todo = {}
    /\ IF dark # {} THEN step' = "disable" /\ todo' = inputs /\ ok' = TRUE
       ELSE step' = "restore_outputs" /\ todo' = DOMAIN saved /\ ok' = ok
    /\ UNCHANGED <<connected, owners, screenVars, starts, alive, conn, told, at,
                   lock, implVars, orphans, raced>>

\* The devices are disabled only if all outputs are dark.
Dimmed ==
    /\ alive /\ step = "dim" /\ todo = {}
    /\ IF ok THEN step' = "disable" /\ todo' = inputs
       ELSE step' = "restore_outputs" /\ todo' = DOMAIN saved
    /\ UNCHANGED <<connected, owners, screenVars, starts, alive, conn, told, at,
                   lock, ok, implVars, orphans, raced>>

Disabled ==
    /\ alive /\ step = "disable" /\ todo = {}
    /\ \/ /\ ok
          /\ conn_id' = lock
          /\ handle_back_msg_privacy_mode(lock, "PrvOnSucceeded")
          /\ at' = [at EXCEPT ![lock] = "idle"]
          /\ lock' = None /\ step' = "none" /\ UNCHANGED todo
       \/ /\ ~ok
          /\ step' = "restore_outputs" /\ todo' = DOMAIN saved
          /\ UNCHANGED <<conn_id, told, at, lock>>
    /\ UNCHANGED <<connected, owners, screenVars, starts, alive, conn, ok, saved,
                   inputs, watchdogs, orphans, raced>>

\* The error, OCCUPIED too: if privacy mode is on, whoever's it is, it is
\* turned off with no id.  The peer is told that it is off.
TurnOnFailed(c) ==
    /\ Free /\ Goto(c, "failed", IF conn_id = None THEN "idle"
                                 ELSE "turn_off_any")
    /\ handle_back_msg_privacy_mode(c, "PrvOnFailed")
    /\ UNCHANGED <<connected, owners, screenVars, starts, alive, conn, callVars,
                   implVars, orphans, raced>>

-----------------------------------------------------------------------------
(* PrivacyModeImpl::turn_off_privacy and restore. *)

\* check_off_conn_id: another's privacy mode is left on, and the peer's belief
\* as it is.
turn_off_privacy(a) ==
    /\ Free /\ at[a] \in {"turn_off", "turn_off_any"}
    /\ IF at[a] = "turn_off" /\ conn_id \notin {a, None}
       THEN /\ at' = [at EXCEPT ![a] = "idle"]
            /\ handle_back_msg_privacy_mode(a, "PrvOffFailed")
            /\ UNCHANGED callVars
       ELSE /\ lock' = a /\ step' = "restore_outputs" /\ todo' = DOMAIN saved
            /\ UNCHANGED <<told, at, ok>>
    /\ UNCHANGED <<connected, owners, screenVars, starts, alive, conn, implVars,
                   orphans, raced>>

\* A command that puts something back is assumed to succeed; its status is not
\* looked at.
RestoreOutput(o) ==
    /\ alive /\ step = "restore_outputs" /\ todo # {} /\ o = First(todo)
    /\ todo' = todo \ {o}
    /\ dark' = IF saved[o] THEN dark \cup {o} ELSE dark \ {o}
    /\ UNCHANGED <<connected, owners, enabled, starts, alive, conn, told, at,
                   lock, step, ok, implVars, orphans, raced>>

OutputsRestored ==
    /\ alive /\ step = "restore_outputs" /\ todo = {}
    /\ step' = "restore_inputs" /\ todo' = inputs
    /\ UNCHANGED <<connected, owners, screenVars, starts, alive, conn, told, at,
                   lock, ok, implVars, orphans, raced>>

RestoreInput(d) ==
    /\ alive /\ step = "restore_inputs" /\ todo # {} /\ d = First(todo)
    /\ todo' = todo \ {d} /\ enabled' = enabled \cup {d}
    /\ UNCHANGED <<connected, owners, dark, starts, alive, conn, told, at, lock,
                   step, ok, implVars, orphans, raced>>

\* The watchdog is killed last.  A call of turn_on_privacy goes on with its
\* error, the others have turned privacy mode off.
Restored ==
    /\ alive /\ step = "restore_inputs" /\ todo = {}
    /\ saved' = Nothing /\ inputs' = {} /\ watchdogs' = {}
    /\ lock' = None /\ step' = "none"
    /\ at' = [at EXCEPT ![lock] = CASE @ = "turn_on" -> "failed"
                                    [] lock = Ipc -> "exit"
                                    [] OTHER -> "idle"]
    /\ IF at[lock] = "turn_on" THEN UNCHANGED <<conn_id, told>>
       ELSE /\ conn_id' = None
            /\ handle_back_msg_privacy_mode(lock, "PrvOffSucceeded")
    /\ UNCHANGED <<connected, owners, screenVars, starts, alive, conn, todo, ok,
                   orphans, raced>>

-----------------------------------------------------------------------------
(* The process and its watchdog. *)

Dies ==
    /\ alive' = FALSE
    /\ conn' = [c \in Conns |-> "gone"] /\ told' = {}
    /\ at' = [a \in Actors |-> "idle"]
    /\ lock' = None /\ step' = "none" /\ todo' = {} /\ ok' = TRUE
    /\ conn_id' = None /\ saved' = Nothing /\ inputs' = {}
    /\ watchdogs' = {} /\ orphans' = orphans \cup watchdogs
    /\ UNCHANGED <<connected, owners, screenVars, starts, raced>>

Exit == alive /\ at[Ipc] = "exit" /\ Dies

Crash == alive /\ Dies

Restart ==
    /\ ~alive /\ starts < MaxStarts
    /\ alive' = TRUE /\ starts' = starts + 1
    /\ conn' = [c \in Conns |-> "new"]
    /\ UNCHANGED <<connected, owners, screenVars, told, at, callVars, implVars,
                   orphans, raced>>

\* Mutant: the watchdog looks for the program by its name.
Awake_ByName(w) == w \in orphans /\ ~alive

\* The loop of the script ends when the process that started it is dead.
Awake(w) == w \in orphans

\* The rest of the script.
WatchdogStep(w) ==
    /\ Awake(w)
    /\ \/ \E o \in DOMAIN w.outputs :
             /\ o = First(DOMAIN w.outputs)
             /\ dark' = IF w.outputs[o] THEN dark \cup {o} ELSE dark \ {o}
             /\ orphans' = (orphans \ {w}) \cup
                   {[w EXCEPT !.outputs = Restrict(@, DOMAIN @ \ {o})]}
             /\ UNCHANGED enabled
       \/ \E d \in w.inputs :
             /\ DOMAIN w.outputs = {} /\ d = First(w.inputs)
             /\ enabled' = enabled \cup {d}
             /\ orphans' = (orphans \ {w}) \cup {[w EXCEPT !.inputs = @ \ {d}]}
             /\ UNCHANGED dark
       \/ /\ DOMAIN w.outputs = {} /\ w.inputs = {}
          /\ orphans' = orphans \ {w}
          /\ UNCHANGED screenVars
    /\ UNCHANGED <<connected, owners, starts, alive, conn, told, at, callVars,
                   implVars, raced>>

-----------------------------------------------------------------------------
LockedStep ==
    \/ connected_outputs_with_brightness \/ enabled_physical_inputs
    \/ spawn_watchdog \/ Dimmed \/ Disabled \/ OutputsRestored \/ Restored
    \/ \E o \in Outputs : Dim(o) \/ RestoreOutput(o)
    \/ \E d \in Devices : Disable(d) \/ RestoreInput(d)

ConnStep(c) ==
    \/ LoginRequest(c) \/ Authorized(c) \/ toggle_privacy_mode(c)
    \/ EndConnection(c) \/ Gone(c) \/ turn_on_privacy(c) \/ TurnOnFailed(c)

AnyWatchdogStep == \E w \in orphans : WatchdogStep(w)

Next ==
    \/ \E c \in Conns : ConnStep(c)
    \/ \E a \in Actors : turn_off_privacy(a)
    \/ LockedStep \/ Quit \/ Exit \/ Crash \/ Restart \/ AnyWatchdogStep

Spec == Init /\ [][Next]_vars

\* The watchdog looks for the process once a second, and its commands end.
FairSpec == Spec /\ WF_vars(AnyWatchdogStep)

-----------------------------------------------------------------------------
(* Properties. *)

AsBefore == dark = {} /\ enabled = owners

\* When privacy mode is off, nobody is about to change that, and no watchdog is
\* at work, the screen and the devices are as they were: after a command of
\* several has failed, after the process has died at any point, and a device
\* that the owner had disabled stays disabled.  (Not so if a new process turned
\* privacy mode on before the watchdog of the last one was done: it takes the
\* dark screen for what it has to go back to.)
ScreenRestored ==
    (lock = None /\ conn_id = None /\ orphans = {} /\ ~raced) => AsBefore

\* While it is on, every output is dark and every device disabled, with the
\* same exception.
OnIsDark ==
    (lock = None /\ conn_id # None /\ ~raced) => dark = connected /\ enabled = {}

\* Privacy mode does not outlive the connection it was turned on for, whoever
\* turned it on and off while that connection was ending.
HolderIsThere == conn_id # None => conn[conn_id] \in {"in", "closing"}

\* Where the handlers are, and who may hold the lock.  A holder that is closing
\* has yet to turn privacy mode off.
HandlersInv ==
    /\ at[Ipc] \in {"idle", "turn_off_any", "exit"}
    /\ \A c \in Conns :
          /\ at[c] \in {"turn_on", "failed", "turn_off_any"} => conn[c] = "in"
          /\ at[c] = "turn_off" => conn[c] \in {"in", "closing"}
          /\ at[c] # "exit"
          /\ conn_id = c /\ conn[c] = "closing" => at[c] = "turn_off"
    /\ ~alive => /\ \A a \in Actors : at[a] = "idle"
                 /\ lock = None /\ conn_id = None /\ watchdogs = {}

LockInv ==
    /\ lock = None <=> step = "none"
    /\ lock # None => at[lock] \in {"turn_on", "turn_off", "turn_off_any"}
    /\ step \in {"outputs", "inputs", "spawn", "dim", "disable"} =>
          at[lock] = "turn_on"
    /\ lock # None /\ at[lock] = "turn_on" => lock \in Conns /\ conn_id = None

\* The watchdog, from the moment it is started until it is killed, has what the
\* process has saved.
WatchdogInv ==
    /\ step \in {"outputs", "inputs", "spawn"} => watchdogs = {}
    /\ step \in {"dim", "disable"} => watchdogs # {}
    /\ lock = None => (conn_id # None <=> watchdogs # {})
    /\ watchdogs # {} => watchdogs = {[outputs |-> saved, inputs |-> inputs]}
    /\ watchdogs = {} => /\ step # "spawn" => inputs = {}
                         /\ step \notin {"inputs", "spawn"} => saved = Nothing
    /\ step \in {"dim", "restore_outputs"} => todo \subseteq DOMAIN saved
    /\ step \in {"disable", "restore_inputs"} => todo \subseteq inputs

\* The owner's devices can be told from what the process or a watchdog has
\* saved, and so can the screen, which was not dark.
SavedInv ==
    /\ enabled \subseteq owners
    /\ watchdogs = {} /\ orphans = {} => AsBefore
    /\ watchdogs # {} \/ step \in {"inputs", "spawn"} =>
          /\ orphans = {} /\ DOMAIN saved = connected
          /\ \A o \in connected : ~saved[o]
    /\ watchdogs # {} \/ step = "spawn" => inputs = owners
    /\ \A w \in orphans :
          /\ dark \subseteq DOMAIN w.outputs
          /\ \A o \in DOMAIN w.outputs : ~w.outputs[o]
          /\ w.inputs \subseteq owners /\ owners \ enabled \subseteq w.inputs

\* How far the commands have come.
ProgressInv ==
    /\ step = "dim" /\ ok => connected \ todo \subseteq dark
    /\ step = "disable" => dark = connected
    /\ step = "disable" /\ ok => enabled \subseteq todo
    /\ watchdogs # {} /\ step = "restore_outputs" => dark \subseteq todo
    /\ watchdogs # {} /\ step = "restore_inputs" =>
          dark = {} /\ owners \ enabled \subseteq todo

\* Who holds privacy mode is there, and why the screen can be restored: the
\* inductive invariant of the proofs.
Inv ==
    /\ TypeOK /\ HolderIsThere /\ HandlersInv /\ LockInv /\ WatchdogInv
    /\ ~raced => SavedInv /\ ProgressInv /\ OnIsDark

\* A process that dies with the screen dark does not leave it so.
CrashRestored == ~alive ~> (AsBefore \/ raced)

\* "Failed to turn off privacy mode that belongs to someone else.": who was told
\* that privacy mode has started has it until he asks for the contrary or ends,
\* or the program exits.
MineUntilIEnd ==
    (lock = None /\ at[Ipc] = "idle") => \A c \in told : conn_id = c

=============================================================================
