----------------------------- MODULE AuthedConns -----------------------------
(***************************************************************************)
(* What the authorized connections of this computer share: AUTHED_CONNS    *)
(* (mod raii of src/server/connection.rs), the wallpaper remover, the      *)
(* resolutions that sessions have changed (src/server/display_service.rs)  *)
(* and the print service (src/server/printer_service.rs with               *)
(* start_print_pipe_server of src/platform/linux.rs).  The wakelock, which *)
(* is told the number of connections by the same code, is left out.        *)
(*                                                                         *)
(* AuthedConnID::new and its drop take a lock for each thing they look at  *)
(* and none for the whole; connections run in parallel on the threads of   *)
(* the runtime.  One action is what is done under one lock, with one       *)
(* atomic, or by one call of the system.                                   *)
(***************************************************************************)
EXTENDS Naturals, Sequences, FiniteSets

CONSTANTS
    Conns,          \* connections; each is authorized once
    Modes,          \* resolutions of a display
    UserMode,       \* the one its user has chosen
    None,           \* no connection, no resolution
    BindMayFail     \* the print server's socket cannot always be bound

ASSUME AuthedConnsAssumption ==
    /\ IsFiniteSet(Conns) /\ None \notin Conns
    /\ UserMode \in Modes /\ None \notin Modes
    /\ BindMayFail \in BOOLEAN

VARIABLES
    pc,             \* where a connection is
    type,           \* "remote", or any other type
    authed,         \* AUTHED_CONNS
    wallpaper,      \* WALLPAPER_REMOVER is some: the wallpaper is removed
    mode,           \* the display's resolution
    recorded,       \* CHANGED_RESOLUTIONS: the display's original, or None
    saw,            \* the original that change_resolution has read
    overlapped,     \* a change was made during a restoration (history)
    running,        \* PRINT_SERVICE_RUNNING
    handle,         \* PIPE_STOP_TX: whose server the handle stops
    servers,        \* print servers, named for the connection that started them
    stopped,        \* servers that were told to stop
    socket          \* the server that listens at PRINTER_SOCKET_PATH

printVars == <<running, handle, servers, stopped, socket>>
modeVars == <<mode, recorded, saw, overlapped>>
authedVars == <<pc, type, authed, wallpaper, mode, recorded, saw, overlapped,
                running, handle, servers, stopped, socket>>

\* Where a connection is between its authorization and its drop.
InSession == {"in", "record", "apply"}

PCs == {"new", "print", "bind", "set_handle", "set_running", "wallpaper",
        "dropped", "clear", "restore", "forget", "stop", "unset_running",
        "signal", "gone"} \cup InSession

At(pcs) == {c \in Conns : pc[c] \in pcs}

AuthedTypeOK ==
    /\ pc \in [Conns -> PCs] /\ type \in [Conns -> {"remote", "other"}]
    /\ authed \subseteq Conns
    /\ wallpaper \in BOOLEAN /\ running \in BOOLEAN
    /\ handle \in Conns \cup {None} /\ socket \in Conns \cup {None}
    /\ mode \in Modes /\ recorded \in Modes \cup {None}
    /\ saw \in [Conns -> Modes \cup {None}] /\ overlapped \in BOOLEAN
    /\ stopped \subseteq servers /\ servers \subseteq Conns

AuthedInit ==
    /\ pc = [c \in Conns |-> "new"] /\ type \in [Conns -> {"remote", "other"}]
    /\ authed = {} /\ wallpaper = FALSE
    /\ mode = UserMode /\ recorded = None
    /\ saw = [c \in Conns |-> None] /\ overlapped = FALSE
    /\ running = FALSE /\ handle = None
    /\ servers = {} /\ stopped = {} /\ socket = None

Goto(c, from, to) == pc[c] = from /\ pc' = [pc EXCEPT ![c] = to]

Remotes == {c \in authed : type[c] = "remote"}

-----------------------------------------------------------------------------
(* AuthedConnID::new, and on_remote_authorized later in the login. *)

New(c) ==
    /\ Goto(c, "new", IF type[c] = "remote" THEN "print" ELSE "in")
    /\ authed' = authed \cup {c}
    /\ UNCHANGED <<type, wallpaper, printVars, modeVars>>

\* start_remote_printing.
StartPrinting(c) ==
    /\ Goto(c, "print", IF running THEN "wallpaper" ELSE "bind")
    /\ UNCHANGED <<type, authed, wallpaper, printVars, modeVars>>

\* start_print_pipe_server removes what is at the path and binds its own socket.
Bind(c) ==
    /\ Goto(c, "bind", "set_handle")
    /\ servers' = servers \cup {c} /\ socket' = c
    /\ UNCHANGED <<type, authed, wallpaper, running, handle, stopped, modeVars>>

\* The socket cannot be bound, the printer is not installed, or the option
\* enable-remote-printing is off.
BindFails(c) ==
    /\ BindMayFail
    /\ Goto(c, "bind", "wallpaper")
    /\ socket' \in {socket, None}
    /\ UNCHANGED <<type, authed, wallpaper, running, handle, servers,
                   stopped, modeVars>>

SetHandle(c) ==
    /\ Goto(c, "set_handle", "set_running")
    /\ handle' = c
    /\ UNCHANGED <<type, authed, wallpaper, running, servers, stopped,
                   socket, modeVars>>

SetRunning(c) ==
    /\ Goto(c, "set_running", "wallpaper")
    /\ running' = TRUE
    /\ UNCHANGED <<type, authed, wallpaper, handle, servers, stopped,
                   socket, modeVars>>

\* "multi connections set once".  It may fail, or the option
\* allow-remove-wallpaper is off, or the session is a terminal.
RemoveWallpaper(c) ==
    /\ Goto(c, "wallpaper", "in")
    /\ wallpaper' \in {wallpaper, TRUE}
    /\ UNCHANGED <<type, authed, printVars, modeVars>>

-----------------------------------------------------------------------------
(* change_resolution, for a session that may control the computer. *)

ReadMode(c) ==
    /\ Goto(c, "in", "record")
    /\ saw' = [saw EXCEPT ![c] = mode]
    /\ overlapped' = (overlapped \/ At({"restore", "forget"}) # {})
    /\ UNCHANGED <<type, authed, wallpaper, mode, recorded, printVars>>

\* Mutant: the last change is recorded, with what it replaces.
RecordMode_Last(c) ==
    /\ Goto(c, "record", "apply")
    /\ recorded' = saw[c] /\ saw' = [saw EXCEPT ![c] = None]
    /\ UNCHANGED <<type, authed, wallpaper, mode, overlapped, printVars>>

\* set_last_changed_resolution keeps the first original.
RecordMode(c) ==
    /\ Goto(c, "record", "apply")
    /\ recorded' = IF recorded = None THEN saw[c] ELSE recorded
    /\ saw' = [saw EXCEPT ![c] = None]
    /\ UNCHANGED <<type, authed, wallpaper, mode, overlapped, printVars>>

\* The resolution that the peer asks for, if the display has it.
ApplyMode(c) ==
    /\ Goto(c, "apply", "in")
    /\ mode' \in Modes
    /\ UNCHANGED <<type, authed, wallpaper, recorded, saw, overlapped,
                   printVars>>

-----------------------------------------------------------------------------
(* Drop for AuthedConnID. *)

Drop(c) ==
    /\ Goto(c, "in", "dropped")
    /\ authed' = authed \ {c}
    /\ UNCHANGED <<type, wallpaper, printVars, modeVars>>

\* Mutant: the connection that goes is counted as one of those that are left.
LastRemote_One(c) ==
    /\ Goto(c, "dropped", IF Cardinality(Remotes) = 1 THEN "clear"
                          ELSE "gone")
    /\ UNCHANGED <<type, authed, wallpaper, printVars, modeVars>>

LastRemote(c) ==
    /\ Goto(c, "dropped", IF Remotes = {} THEN "clear" ELSE "gone")
    /\ UNCHANGED <<type, authed, wallpaper, printVars, modeVars>>

RestoreWallpaper(c) ==
    /\ Goto(c, "clear", "restore")
    /\ wallpaper' = FALSE
    /\ overlapped' = (overlapped \/ At({"record", "apply"}) # {})
    /\ UNCHANGED <<type, authed, mode, recorded, saw, printVars>>

\* restore_resolutions.
RestoreModes(c) ==
    /\ Goto(c, "restore", "forget")
    /\ mode' = IF recorded = None THEN mode ELSE recorded
    /\ UNCHANGED <<type, authed, wallpaper, recorded, saw, overlapped,
                   printVars>>

\* "Can be cleared because restore resolutions is called when there is no client
\* connected": there was none when LastRemote looked.
ForgetModes(c) ==
    /\ Goto(c, "forget", "stop")
    /\ recorded' = None
    /\ UNCHANGED <<type, authed, wallpaper, mode, saw, overlapped, printVars>>

\* Mutant: the service is taken to be stopped when there is no handle.
StopPrinting_ByHandle(c) ==
    /\ Goto(c, "stop", IF handle # None THEN "unset_running" ELSE "gone")
    /\ UNCHANGED <<type, authed, wallpaper, printVars, modeVars>>

\* stop_remote_printing.
StopPrinting(c) ==
    /\ Goto(c, "stop", IF running THEN "unset_running" ELSE "gone")
    /\ UNCHANGED <<type, authed, wallpaper, printVars, modeVars>>

UnsetRunning(c) ==
    /\ Goto(c, "unset_running", "signal")
    /\ running' = FALSE
    /\ UNCHANGED <<type, authed, wallpaper, handle, servers, stopped,
                   socket, modeVars>>

\* Mutant: the handle is not taken.
Signal_Keep(c) ==
    /\ Goto(c, "signal", "gone")
    /\ stopped' = stopped \cup ({handle} \ {None})
    /\ UNCHANGED <<type, authed, wallpaper, running, handle, servers,
                   socket, modeVars>>

Signal(c) ==
    /\ Goto(c, "signal", "gone")
    /\ stopped' = stopped \cup ({handle} \ {None}) /\ handle' = None
    /\ UNCHANGED <<type, authed, wallpaper, running, servers, socket, modeVars>>

\* The server's thread looks for the signal once a second.  It removes the file
\* at the path when it ends, whoever's it is by then.  (A handle that is
\* dropped is no signal: try_recv is an error then.)
ServerEnds(s) ==
    /\ s \in servers \cap stopped
    /\ servers' = servers \ {s} /\ stopped' = stopped \ {s}
    /\ socket' = None
    /\ UNCHANGED <<pc, type, authed, wallpaper, running, handle, modeVars>>

-----------------------------------------------------------------------------
\* What the drop does after it has left AUTHED_CONNS.
DropGoesOn(c) ==
    \/ LastRemote(c) \/ RestoreWallpaper(c) \/ RestoreModes(c)
    \/ ForgetModes(c) \/ StopPrinting(c) \/ UnsetRunning(c) \/ Signal(c)

AuthedStep(c) ==
    \/ New(c) \/ StartPrinting(c) \/ Bind(c) \/ BindFails(c) \/ SetHandle(c)
    \/ SetRunning(c) \/ RemoveWallpaper(c)
    \/ ReadMode(c) \/ RecordMode(c) \/ ApplyMode(c)
    \/ Drop(c) \/ DropGoesOn(c)

AuthedNext == \/ \E c \in Conns : AuthedStep(c)
        \/ \E s \in Conns : ServerEnds(s)

AuthedSpec == AuthedInit /\ [][AuthedNext]_authedVars

\* A drop waits for nothing but locks that are held for a moment.
AuthedFairSpec == AuthedSpec /\ \A c \in Conns : WF_authedVars(DropGoesOn(c))

-----------------------------------------------------------------------------
(* Properties. *)

Settled == \A c \in Conns : pc[c] \in {"new", "in", "gone"}

\* When the last connection has gone, the wallpaper is back and the print
\* service is marked as stopped, however the ends and the beginnings of the
\* connections overlapped.
AllReleased == (Settled /\ authed = {}) => ~wallpaper /\ ~running

\* The display is back at its user's resolution when the last connection has
\* gone, whichever sessions have changed it and how often, in parallel too;
\* unless one changed it while another, which was the last when it looked,
\* restored it: then an original can be recorded that is not the user's, or the
\* record be cleared.
ModeRestored == (Settled /\ authed = {}) => mode = UserMode \/ overlapped

\* The inductive invariant.  A connection is in AUTHED_CONNS from its first step
\* to its drop; a removed wallpaper and a running service are owed to a
\* connection in it, or to one that has just left it and has not counted or
\* cleaned up yet; the handle is that of a server nobody has told to stop.
Opening == {"print", "bind", "set_handle", "set_running", "wallpaper"}

RegisteredInv ==
    /\ authed = {c \in Conns : pc[c] \in Opening \cup InSession}
    /\ \A c \in Conns : pc[c] \in Opening => type[c] = "remote"

OwedInv ==
    /\ wallpaper => \/ Remotes # {}
                    \/ \E c \in Conns : pc[c] \in {"dropped", "clear"}
    /\ running => \/ Remotes # {}
                  \/ \E c \in Conns :
                        pc[c] \in {"dropped", "clear", "restore", "forget",
                                  "stop", "unset_running"}

HandleInv ==
    /\ handle # None => handle \in servers \ stopped
    /\ \A c \in Conns :
          /\ pc[c] = "set_handle" => c \in servers \ stopped /\ handle # c
          /\ pc[c] \in {"new", "print", "bind"} => c \notin servers

\* What is recorded is the user's resolution; another one is on record as long
\* as the display has it, and owed to a connection that is there or that has not
\* restored it yet.
ModeInv ==
    \/ overlapped
    \/ /\ recorded \in {UserMode, None}
       /\ mode # UserMode =>
             /\ recorded # None
             /\ authed # {} \/ At({"dropped", "clear", "restore"}) # {}
       /\ At({"forget"}) # {} => mode = UserMode
       /\ At({"restore", "forget"}) = {} \/ At({"record", "apply"}) = {}
       /\ \A c \in Conns :
             /\ pc[c] = "record" => saw[c] = UserMode \/ recorded # None
             /\ pc[c] = "apply" => recorded # None

\* Whatever the connections share is owed to one that is there or on its way
\* out, at every step of new and drop.
ReleaseInv == RegisteredInv /\ OwedInv /\ HandleInv /\ ModeInv

\* ReleaseInv in well-typed states, which is what the proofs carry along.
Inv == AuthedTypeOK /\ ReleaseInv

-----------------------------------------------------------------------------
(* The abstract specification. *)

Wallpaper == INSTANCE SharedResource
    WITH Users <- Conns, users <- Remotes, taken <- wallpaper,
         leaving <- At({"dropped", "clear"})

Printing == INSTANCE SharedResource
    WITH Users <- Conns, users <- Remotes, taken <- running,
         leaving <- At({"dropped", "clear", "restore", "forget", "stop",
                        "unset_running"})

\* WALLPAPER_REMOVER is shared as SharedResource says: the drop of a connection,
\* in its several locked steps, either sees another session or restores the
\* wallpaper.
WallpaperIsShared == Wallpaper!FairSpec

\* So is the print service's mark, PRINT_SERVICE_RUNNING, although each session
\* that begins may set it and each that ends may be the one to unset it.
PrintingIsShared == Printing!FairSpec

=============================================================================
