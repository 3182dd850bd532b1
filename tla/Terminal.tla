------------------------------- MODULE Terminal -------------------------------
(***************************************************************************)
(* The terminals of src/server/terminal_service.rs: the registry           *)
(* TERMINAL_SERVICES, one service in it that connections of one client     *)
(* share (the client keeps the service's id and sends it with the next     *)
(* login), its terminal 0 (the one the client's window uses), the shell    *)
(* with its reader and writer thread, and the clean-up thread.             *)
(*                                                                         *)
(* A service and a session (a shell) are objects that live as long as      *)
(* somebody holds them; each is named for the connection that made it.  A  *)
(* session that nobody holds any more is dropped, which stops it.          *)
(*                                                                         *)
(* is_persistent is FALSE in every call of this program, so the branches   *)
(* for persistent services are left out, and so is terminal_service::run,  *)
(* which nothing calls.  A lock that is held while a call can block is a   *)
(* variable; what is done under a lock without blocking is one action.     *)
(***************************************************************************)
EXTENDS Naturals, FiniteSets

CONSTANTS
    Conns,          \* connections of one client, with the same service id
    Cleaner,        \* the thread of ensure_cleanup_task
    None,
    Capacity,       \* CHANNEL_BUFFER_SIZE
    Echoes,         \* the shell's terminal echoes what is written to it
    Reads,          \* the shell reads its input
    Scenarios       \* which calls an actor makes

Actors == Conns \cup {Cleaner}

ASSUME TerminalAssumption ==
    /\ IsFiniteSet(Conns) /\ Cleaner \notin Conns
    /\ None \notin Actors /\ "reaper" \notin Actors \cup {None}
    /\ Capacity \in Nat \ {0} /\ Echoes \in BOOLEAN /\ Reads \in BOOLEAN
    /\ Scenarios \subseteq
          [Actors -> SUBSET {"login", "open", "data", "close", "write", "idle"}]

VARIABLES
    calls,          \* the scenario: the calls an actor makes
    pc,             \* where a connection or the clean-up thread is
    reg,            \* TERMINAL_SERVICES: the service with the id, or None
    term,           \* sessions of a service: its terminal 0, or None
    idle,           \* last_activity of the service is an hour ago
    regLock,        \* who holds the lock of TERMINAL_SERVICES
    svcLock,        \* who holds the lock of a service
    sessLock,       \* who holds the lock of a session
    sv,             \* the service an actor holds
    ss,             \* the session an actor holds
    fin,            \* closed_terminals: the session whose reader has finished
    finOpened,      \* that session was open when its output was read
    child,          \* "none", "running", "ended" by itself or "killed"
    owner,          \* who has the child: its session, the reaper or nobody
    opened,         \* is_opened
    exiting,        \* exiting
    tx,             \* input_tx is some
    input,          \* messages in the channel to the writer
    rx,             \* output_rx is some
    output,         \* messages in the channel from the reader
    ptyOut,         \* the reader has output to read
    reader, writer, \* "none", "running", "finished" or "joined"
    closedSent,     \* closed_message_sent
    rejoined        \* the session a connection was told it is reconnected to

local == <<calls, sv, ss, fin, finOpened, rejoined>>
locks == <<regLock, svcLock, sessLock>>
services == <<reg, term, idle>>
channels == <<tx, input, rx, output, exiting>>
shell == <<child, owner, ptyOut, reader, writer>>
flags == <<opened, closedSent>>
vars == <<pc, local, locks, services, channels, shell, flags>>

Threads == {"none", "running", "finished", "joined"}

Init ==
    /\ calls \in Scenarios
    /\ pc = [a \in Actors |-> IF a = Cleaner THEN "scan" ELSE "new"]
    /\ reg = None /\ term = [c \in Conns |-> None] /\ idle = FALSE
    /\ regLock = None
    /\ svcLock = [c \in Conns |-> None] /\ sessLock = [c \in Conns |-> None]
    /\ sv = [a \in Actors |-> None] /\ ss = [a \in Actors |-> None]
    /\ fin = [a \in Actors |-> None] /\ finOpened = [a \in Actors |-> FALSE]
    /\ child = [c \in Conns |-> "none"] /\ owner = [c \in Conns |-> None]
    /\ opened = [c \in Conns |-> FALSE] /\ exiting = [c \in Conns |-> FALSE]
    /\ tx = [c \in Conns |-> FALSE] /\ input = [c \in Conns |-> 0]
    /\ rx = [c \in Conns |-> FALSE] /\ output = [c \in Conns |-> 0]
    /\ ptyOut = [c \in Conns |-> FALSE]
    /\ reader = [c \in Conns |-> "none"] /\ writer = [c \in Conns |-> "none"]
    /\ closedSent = [c \in Conns |-> FALSE]
    /\ rejoined = [c \in Conns |-> None]

Goto(a, from, to) == pc[a] = from /\ pc' = [pc EXCEPT ![a] = to]

\* A step waits for a lock it takes; None is no service and no session.
Free(lock, o) == IF o = None THEN TRUE ELSE lock[o] = None

\* The terminal of a service an actor holds.
Term(v) == IF v = None THEN None ELSE term[v]

\* Where an actor goes when its call is done.
Home(a) == IF a = Cleaner THEN "scan" ELSE "idle"

-----------------------------------------------------------------------------
(* The end of a call: what the actor held is dropped. *)

\* Who keeps a session, or a service, but for one actor.
KeptSvc(v, a) == reg = v \/ \E b \in Actors \ {a} : sv[b] = v
KeptSess(k, a) == \/ \E b \in Actors \ {a} : ss[b] = k
                  \/ \E v \in Conns : term[v] = k /\ (KeptSvc(v, None))

\* The session has no thread, channel or child any more: stop() does nothing.
Stopped(k) == reader[k] \in {"none", "joined"} /\ owner[k] # k /\ ~tx[k]

\* The actor may let go of its session: others keep it, or it is stopped; and
\* of its service: others keep it, or there is no session in it.
Released(a) == ss[a] # None => KeptSess(ss[a], a) \/ Stopped(ss[a])
SvcReleased(a) == sv[a] # None => KeptSvc(sv[a], a) \/ term[sv[a]] = None

\* A session that nobody else holds is stopped before it is dropped.
DropStops(a) ==
    /\ Goto(a, "drop", "stop") /\ ~Released(a)
    /\ UNCHANGED <<local, locks, services, channels, shell, flags>>

\* It is dropped; a reader that has finished is still to be seen to.
DropFinished(a) ==
    /\ Goto(a, "drop", "closed") /\ Released(a) /\ fin[a] # None
    /\ ss' = [ss EXCEPT ![a] = None]
    /\ UNCHANGED <<calls, sv, fin, finOpened, rejoined, locks, services,
                   channels, shell, flags>>

\* The service is dropped, and with it the session in it.
DropService(a) ==
    /\ Goto(a, "drop", "drop") /\ Released(a) /\ fin[a] = None
    /\ ~SvcReleased(a)
    /\ ss' = [ss EXCEPT ![a] = term[sv[a]]]
    /\ term' = [term EXCEPT ![sv[a]] = None]
    /\ UNCHANGED <<calls, sv, fin, finOpened, rejoined, locks, reg, idle,
                   channels, shell, flags>>

\* The call is over.  A close and a removal have kept their locks so far.
DropEnds(a) ==
    /\ Goto(a, "drop", IF regLock = a /\ a \in Conns THEN "gone" ELSE Home(a))
    /\ Released(a) /\ fin[a] = None /\ SvcReleased(a)
    /\ ss' = [ss EXCEPT ![a] = None] /\ sv' = [sv EXCEPT ![a] = None]
    /\ regLock' = IF regLock = a THEN None ELSE regLock
    /\ svcLock' = [o \in Conns |-> IF svcLock[o] = a THEN None ELSE svcLock[o]]
    /\ UNCHANGED <<calls, fin, finOpened, rejoined, sessLock, services, channels,
                   shell, flags>>

Drop(a) == DropStops(a) \/ DropFinished(a) \/ DropService(a) \/ DropEnds(a)

-----------------------------------------------------------------------------
(* TerminalSession::stop, by the actor that holds the session. *)

\* The flags; then a final newline is sent, which waits while the channel is
\* full and the writer is there to empty it.
Stop(a) ==
    /\ Goto(a, "stop", IF tx[ss[a]] THEN "stop_send" ELSE "stop_reader")
    /\ opened' = [opened EXCEPT ![ss[a]] = FALSE]
    /\ exiting' = [exiting EXCEPT ![ss[a]] = TRUE]
    /\ rx' = [rx EXCEPT ![ss[a]] = rx[ss[a]] /\ tx[ss[a]]]
    /\ UNCHANGED <<local, locks, services, tx, input, output, shell, closedSent>>

\* Mutant: the channel is closed without the newline.
StopSend_Quiet(a) ==
    /\ Goto(a, "stop_send", "stop_reader")
    /\ tx' = [tx EXCEPT ![ss[a]] = FALSE] /\ rx' = [rx EXCEPT ![ss[a]] = FALSE]
    /\ UNCHANGED <<local, locks, services, input, output, exiting, shell, flags>>

StopSend(a) ==
    /\ Goto(a, "stop_send", "stop_reader")
    /\ LET k == ss[a]
       IN  /\ input[k] < Capacity \/ writer[k] # "running"
           /\ input' = [input EXCEPT ![k] = IF writer[k] = "running" THEN @ + 1
                                            ELSE @]
           /\ tx' = [tx EXCEPT ![k] = FALSE] /\ rx' = [rx EXCEPT ![k] = FALSE]
    /\ UNCHANGED <<local, locks, services, output, exiting, shell, flags>>

JoinReader(a) ==
    /\ Goto(a, "stop_reader", "stop_writer")
    /\ reader[ss[a]] # "running"
    /\ reader' = [reader EXCEPT ![ss[a]] = "joined"]
    /\ UNCHANGED <<local, locks, services, channels, child, owner, ptyOut, writer, flags>>

\* The child is killed and given to the reaper, if the session still has it.
Kill(k) ==
    /\ child' = [child EXCEPT ![k] = IF owner[k] = k /\ @ = "running"
                                     THEN "killed" ELSE @]
    /\ owner' = [owner EXCEPT ![k] = IF @ = k THEN "reaper" ELSE @]

\* Mutant: the child is dropped where it was killed.
JoinWriter_Drop(a) ==
    /\ Goto(a, "stop_writer", "drop")
    /\ writer[ss[a]] # "running"
    /\ writer' = [writer EXCEPT ![ss[a]] = "joined"]
    /\ owner' = [owner EXCEPT ![ss[a]] = IF @ = ss[a] THEN None ELSE @]
    /\ sessLock' = [sessLock EXCEPT ![ss[a]] = IF @ = a THEN None ELSE @]
    /\ UNCHANGED <<local, regLock, svcLock, services, channels, child, ptyOut, reader, flags>>

JoinWriter(a) ==
    /\ Goto(a, "stop_writer", "drop")
    /\ writer[ss[a]] # "running"
    /\ writer' = [writer EXCEPT ![ss[a]] = "joined"]
    /\ Kill(ss[a])
    /\ sessLock' = [sessLock EXCEPT ![ss[a]] = IF @ = a THEN None ELSE @]
    /\ UNCHANGED <<local, regLock, svcLock, services, channels, ptyOut, reader,
                   flags>>

-----------------------------------------------------------------------------
(* Login: get_or_create_service, under the lock of the registry. *)

LoginLock(c) ==
    /\ "login" \in calls[c]
    /\ Goto(c, "new", "login")
    /\ regLock = None /\ regLock' = c
    /\ UNCHANGED <<local, svcLock, sessLock, services, channels, shell, flags>>

\* MAX_SERVICES services with other ids: the login fails.
LoginFull(c) ==
    /\ Goto(c, "login", "gone")
    /\ reg = None
    /\ regLock' = None
    /\ UNCHANGED <<local, svcLock, sessLock, services, channels, shell, flags>>

\* The service is found or made, and reset_status marks its terminal as not
\* opened.
Login(c) ==
    /\ Goto(c, "login", "idle")
    /\ LET v == IF reg = None THEN c ELSE reg
           k == term[v]
       IN  /\ svcLock[v] = None /\ Free(sessLock, k)
           /\ reg' = v /\ idle' = (idle /\ reg # None)
           /\ opened' = [o \in Conns |-> opened[o] /\ o # k]
    /\ regLock' = None
    /\ UNCHANGED <<local, svcLock, sessLock, term, channels, shell, closedSent>>

-----------------------------------------------------------------------------
(* handle_action: the service is looked up, and is active again. *)

Act(c, action) ==
    /\ action \in calls[c]
    /\ Goto(c, "idle", IF reg = None THEN "idle" ELSE action)
    /\ regLock = None /\ Free(svcLock, reg)
    /\ sv' = [sv EXCEPT ![c] = reg]
    /\ idle' = FALSE
    /\ UNCHANGED <<calls, ss, fin, finOpened, rejoined, locks, reg, term, channels,
                   shell, flags>>

\* A connection makes one session at most.
ActOpen(c) == child[c] = "none" /\ rejoined[c] = None /\ Act(c, "open")
ActData(c)  == Act(c, "data")
ActClose(c) == Act(c, "close")

\* The lock of the service is kept while handle_open waits for a session's.
OpenLock(c) ==
    /\ Goto(c, "open", "opening")
    /\ svcLock[sv[c]] = None /\ svcLock' = [svcLock EXCEPT ![sv[c]] = c]
    /\ UNCHANGED <<local, regLock, sessLock, services, channels, shell, flags>>

\* The terminal is there: "Reconnected to existing terminal".
Reopen(c) ==
    /\ Goto(c, "opening", "drop")
    /\ term[sv[c]] # None /\ sessLock[term[sv[c]]] = None
    /\ opened' = [opened EXCEPT ![term[sv[c]]] = TRUE]
    /\ rejoined' = [rejoined EXCEPT ![c] = term[sv[c]]]
    /\ svcLock' = [svcLock EXCEPT ![sv[c]] = None]
    /\ UNCHANGED <<calls, sv, ss, fin, finOpened, regLock, sessLock, services,
                   channels, shell, closedSent>>

\* A new session with its shell, threads and channels.
Open(c) ==
    /\ Goto(c, "opening", "drop")
    /\ term[sv[c]] = None /\ child[c] = "none"
    /\ term' = [term EXCEPT ![sv[c]] = c]
    /\ child' = [child EXCEPT ![c] = "running"]
    /\ owner' = [owner EXCEPT ![c] = c]
    /\ opened' = [opened EXCEPT ![c] = TRUE]
    /\ tx' = [tx EXCEPT ![c] = TRUE] /\ rx' = [rx EXCEPT ![c] = TRUE]
    /\ reader' = [reader EXCEPT ![c] = "running"]
    /\ writer' = [writer EXCEPT ![c] = "running"]
    /\ svcLock' = [svcLock EXCEPT ![sv[c]] = None]
    /\ UNCHANGED <<local, regLock, sessLock, reg, idle, input, output, exiting,
                   ptyOut, closedSent>>

\* The shell or its terminal cannot be opened.  A shell spawned before the
\* failure is left to the hang-up of its terminal, which is not modelled.
OpenFails(c) ==
    /\ Goto(c, "opening", "drop")
    /\ term[sv[c]] = None
    /\ svcLock' = [svcLock EXCEPT ![sv[c]] = None]
    /\ UNCHANGED <<local, regLock, sessLock, services, channels, shell, flags>>

\* handle_data: the session is looked up, locked, and given the data; the send
\* waits while the channel is full.
Lookup(c) ==
    /\ Goto(c, "data", IF term[sv[c]] = None THEN "drop" ELSE "lock")
    /\ svcLock[sv[c]] = None
    /\ ss' = [ss EXCEPT ![c] = term[sv[c]]]
    /\ UNCHANGED <<calls, sv, fin, finOpened, rejoined, locks, services, channels,
                   shell, flags>>

Lock(c) ==
    /\ Goto(c, "lock", "send")
    /\ sessLock[ss[c]] = None /\ sessLock' = [sessLock EXCEPT ![ss[c]] = c]
    /\ UNCHANGED <<local, regLock, svcLock, services, channels, shell, flags>>

Send(c) ==
    /\ Goto(c, "send", "drop")
    /\ LET k == ss[c]
           goes == tx[k] /\ writer[k] = "running"
       IN  /\ goes => input[k] < Capacity
           /\ input' = [input EXCEPT ![k] = IF goes THEN @ + 1 ELSE @]
           /\ sessLock' = [sessLock EXCEPT ![k] = None]
    /\ UNCHANGED <<local, regLock, svcLock, services, tx, rx, output, exiting,
                   shell, flags>>

\* handle_close keeps the lock of the service until the session is dropped.
Close(c) ==
    /\ Goto(c, "close", IF term[sv[c]] = None THEN "drop" ELSE "kill")
    /\ svcLock[sv[c]] = None /\ svcLock' = [svcLock EXCEPT ![sv[c]] = c]
    /\ ss' = [ss EXCEPT ![c] = term[sv[c]]]
    /\ term' = [term EXCEPT ![sv[c]] = None]
    /\ rejoined' = [rejoined EXCEPT ![c] = None]
    /\ UNCHANGED <<calls, sv, fin, finOpened, regLock, sessLock, reg, idle, channels,
                   shell, flags>>

CloseKill(c) ==
    /\ Goto(c, "kill", "drop")
    /\ sessLock[ss[c]] = None
    /\ Kill(ss[c])
    /\ UNCHANGED <<local, locks, services, channels, ptyOut, reader,
                   writer, flags>>

-----------------------------------------------------------------------------
(* The connection's timer: read_outputs. *)

Tick(c) ==
    /\ Goto(c, "idle", IF Term(reg) = None THEN "idle" ELSE "tick")
    /\ regLock = None /\ Free(svcLock, reg) /\ reg # None
    /\ LET held == Term(reg) # None
       IN  /\ sv' = [sv EXCEPT ![c] = IF held THEN reg ELSE None]
           /\ ss' = [ss EXCEPT ![c] = Term(reg)]
    /\ UNCHANGED <<calls, fin, finOpened, rejoined, locks, services, channels, shell,
                   flags>>

\* try_lock: the session is passed over while others have it.
TickBusy(c) ==
    /\ Goto(c, "tick", "drop")
    /\ sessLock[ss[c]] # None
    /\ UNCHANGED <<local, locks, services, channels, shell, flags>>

\* Mutant: the end of the shell is taken for the end of its output.
TickCheck_Shell(c) ==
    /\ Goto(c, "tick", "drain")
    /\ sessLock[ss[c]] = None /\ sessLock' = [sessLock EXCEPT ![ss[c]] = c]
    /\ LET k == ss[c]
           over == ~closedSent[k] /\ child[k] # "running"
       IN  /\ fin' = [fin EXCEPT ![c] = IF over THEN k ELSE None]
           /\ closedSent' = [closedSent EXCEPT ![k] = @ \/ over]
    /\ UNCHANGED <<calls, sv, ss, finOpened, rejoined, regLock, svcLock,
                   services, channels, shell, opened>>

\* The reader is looked at first,
TickCheck(c) ==
    /\ Goto(c, "tick", "drain")
    /\ sessLock[ss[c]] = None /\ sessLock' = [sessLock EXCEPT ![ss[c]] = c]
    /\ LET k == ss[c]
           over == ~closedSent[k] /\ reader[k] = "finished"
       IN  /\ fin' = [fin EXCEPT ![c] = IF over THEN k ELSE None]
           /\ closedSent' = [closedSent EXCEPT ![k] = @ \/ over]
    /\ UNCHANGED <<calls, sv, ss, finOpened, rejoined, regLock, svcLock, services,
                   channels, shell, opened>>

\* and then everything in the channel is sent, if the terminal is opened.
TickDrain(c) ==
    /\ Goto(c, "drain", "drop")
    /\ output' = [output EXCEPT ![ss[c]] = IF opened[ss[c]] THEN 0 ELSE @]
    /\ finOpened' = [finOpened EXCEPT ![c] = fin[c] # None /\ opened[ss[c]]]
    /\ sessLock' = [sessLock EXCEPT ![ss[c]] = None]
    /\ UNCHANGED <<calls, sv, ss, fin, rejoined, regLock, svcLock, services, tx, input,
                   rx, exiting, shell, flags>>

\* Mutant: the end is reported, the terminal stays in the service.
Closed_Keep(c) ==
    /\ Goto(c, "closed", "drop")
    /\ svcLock[sv[c]] = None
    /\ fin' = [fin EXCEPT ![c] = None]
    /\ finOpened' = [finOpened EXCEPT ![c] = FALSE]
    /\ UNCHANGED <<calls, sv, ss, rejoined, locks, services, channels, shell,
                   flags>>

\* The terminal of a finished reader leaves the service; it is looked up again
\* by its id, and may be another one by now.  Two acquisitions of the service's
\* lock, for a copy of its map and for the removal, are one step here.
Closed(c) ==
    /\ Goto(c, "closed", IF term[sv[c]] = None THEN "drop" ELSE "reap")
    /\ svcLock[sv[c]] = None
    /\ ss' = [ss EXCEPT ![c] = term[sv[c]]]
    /\ term' = [term EXCEPT ![sv[c]] = None]
    /\ fin' = [fin EXCEPT ![c] = None]
    /\ finOpened' = [finOpened EXCEPT ![c] = FALSE]
    /\ UNCHANGED <<calls, sv, rejoined, locks, reg, idle, channels, shell, flags>>

Reap(c) ==
    /\ Goto(c, "reap", "drop")
    /\ sessLock[ss[c]] = None
    /\ owner' = [owner EXCEPT ![ss[c]] = IF @ = ss[c] THEN "reaper" ELSE @]
    /\ UNCHANGED <<local, locks, services, channels, child, ptyOut,
                   reader, writer, flags>>

-----------------------------------------------------------------------------
(* remove_service: by a connection that ends (on_close), or by the clean-up *)
(* thread for an id it found idle some time before.                         *)

Disconnect(c) ==
    /\ Goto(c, "idle", "remove")
    /\ rejoined' = [rejoined EXCEPT ![c] = None]
    /\ UNCHANGED <<calls, sv, ss, fin, finOpened, locks, services, channels, shell,
                   flags>>

HourPasses ==
    /\ "idle" \in calls[Cleaner] /\ reg # None /\ idle' = TRUE
    /\ UNCHANGED <<pc, local, locks, reg, term, channels, shell, flags>>

FindIdle ==
    /\ Goto(Cleaner, "scan", "remove")
    /\ regLock = None /\ Free(svcLock, reg)
    /\ reg # None /\ idle
    /\ UNCHANGED <<local, locks, services, channels, shell, flags>>

Remove(a) ==
    /\ Goto(a, "remove", IF reg = None THEN "drop" ELSE "remove_svc")
    /\ regLock = None /\ regLock' = a
    /\ sv' = [sv EXCEPT ![a] = reg] /\ reg' = None
    /\ UNCHANGED <<calls, ss, fin, finOpened, rejoined, svcLock, sessLock, term, idle,
                   channels, shell, flags>>

RemoveSvc(a) ==
    /\ Goto(a, "remove_svc", IF term[sv[a]] = None THEN "drop"
                             ELSE "remove_sess")
    /\ svcLock[sv[a]] = None
    /\ ss' = [ss EXCEPT ![a] = term[sv[a]]]
    /\ UNCHANGED <<calls, sv, fin, finOpened, rejoined, locks, services, channels,
                   shell, flags>>

RemoveSess(a) ==
    /\ Goto(a, "remove_sess", "stop")
    /\ sessLock[ss[a]] = None /\ sessLock' = [sessLock EXCEPT ![ss[a]] = a]
    /\ UNCHANGED <<local, regLock, svcLock, services, channels, shell, flags>>

\* check_zombie_terminals, by the same thread.
ReapZombie(k) ==
    /\ pc[Cleaner] = "scan"
    /\ owner[k] = "reaper" /\ child[k] # "running"
    /\ owner' = [owner EXCEPT ![k] = None]
    /\ UNCHANGED <<pc, local, locks, services, channels, child, ptyOut,
                   reader, writer, flags>>

-----------------------------------------------------------------------------
(* The threads of a session, and its shell (external). *)

\* A message goes to the terminal when the shell makes room for it (the buffer
\* between them is left out); it is echoed.
WriterWrites(k) ==
    /\ writer[k] = "running" /\ input[k] > 0
    /\ child[k] = "running" /\ Reads
    /\ input' = [input EXCEPT ![k] = @ - 1]
    /\ ptyOut' = [ptyOut EXCEPT ![k] = @ \/ Echoes]
    /\ UNCHANGED <<pc, local, locks, services, tx, rx, output, exiting, child,
                   owner, reader, writer, flags>>

\* The channel is closed and empty, or the terminal cannot be written.
WriterEnds(k) ==
    /\ writer[k] = "running"
    /\ \/ input[k] = 0 /\ ~tx[k]
       \/ input[k] > 0 /\ child[k] # "running"
    /\ writer' = [writer EXCEPT ![k] = "finished"]
    /\ input' = [input EXCEPT ![k] = 0]
    /\ UNCHANGED <<pc, local, locks, services, tx, rx, output, exiting, child,
                   owner, ptyOut, reader, flags>>

\* Output that meets a full channel is dropped; a reader that is told to exit,
\* or whose channel is gone, drops it and ends.
ReaderReads(k) ==
    /\ reader[k] = "running" /\ ptyOut[k]
    /\ ptyOut' = [ptyOut EXCEPT ![k] = FALSE]
    /\ IF exiting[k] \/ ~rx[k]
         THEN /\ reader' = [reader EXCEPT ![k] = "finished"]
              /\ UNCHANGED output
         ELSE /\ output' = [output EXCEPT ![k] = IF @ < Capacity THEN @ + 1
                                                 ELSE @]
              /\ UNCHANGED reader
    /\ UNCHANGED <<pc, local, locks, services, tx, input, rx, exiting, child,
                   owner, writer, flags>>

\* The terminal ends with the shell.
ReaderEnds(k) ==
    /\ reader[k] = "running" /\ ~ptyOut[k] /\ child[k] # "running"
    /\ reader' = [reader EXCEPT ![k] = "finished"]
    /\ UNCHANGED <<pc, local, locks, services, channels, child, owner, ptyOut, writer, flags>>

ShellWrites(k) ==
    /\ "write" \in calls[k] /\ child[k] = "running" /\ ~ptyOut[k]
    /\ ptyOut' = [ptyOut EXCEPT ![k] = TRUE]
    /\ UNCHANGED <<pc, local, locks, services, channels, child, owner,
                   reader, writer, flags>>

ShellEnds(k) ==
    /\ child[k] = "running"
    /\ child' = [child EXCEPT ![k] = "ended"]
    /\ UNCHANGED <<pc, local, locks, services, channels, owner, ptyOut,
                   reader, writer, flags>>

-----------------------------------------------------------------------------
\* The steps of a call that has begun.
CallStep(a) ==
    \/ Drop(a)
    \/ Stop(a) \/ StopSend(a) \/ JoinReader(a) \/ JoinWriter(a)
    \/ Remove(a) \/ RemoveSvc(a) \/ RemoveSess(a)

ConnCallStep(c) ==
    \/ LoginFull(c) \/ Login(c)
    \/ OpenLock(c) \/ Reopen(c) \/ Open(c) \/ OpenFails(c)
    \/ Lookup(c) \/ Lock(c) \/ Send(c) \/ Close(c) \/ CloseKill(c)
    \/ TickBusy(c) \/ TickCheck(c) \/ TickDrain(c) \/ Closed(c) \/ Reap(c)

Begin(c) == LoginLock(c) \/ ActOpen(c) \/ ActData(c) \/ ActClose(c) \/ Disconnect(c)

Next ==
    \/ \E a \in Actors : CallStep(a)
    \/ \E c \in Conns : ConnCallStep(c) \/ Begin(c) \/ Tick(c)
    \/ HourPasses \/ FindIdle
    \/ \E k \in Conns :
          \/ ReapZombie(k) \/ WriterWrites(k) \/ WriterEnds(k) \/ ReaderReads(k)
          \/ ReaderEnds(k) \/ ShellWrites(k) \/ ShellEnds(k)

Spec == Init /\ [][Next]_vars

\* What the actors do by themselves: a call that has begun goes on, and the
\* clean-up thread looks for zombies.
Step(a) == \/ CallStep(a)
           \/ a \in Conns /\ ConnCallStep(a)
           \/ a = Cleaner /\ \E k \in Conns : ReapZombie(k)

Writer(k) == WriterWrites(k) \/ WriterEnds(k)
Reader(k) == ReaderReads(k) \/ ReaderEnds(k)

\* The threads run, the timer ticks, and whoever waits for a lock that is free
\* again and again gets it.
Fairness ==
    /\ \A a \in Actors : SF_vars(Step(a))
    /\ \A c \in Conns : SF_vars(Tick(c))
    /\ \A k \in Conns : WF_vars(Writer(k)) /\ WF_vars(Reader(k))

FairSpec == Spec /\ Fairness

-----------------------------------------------------------------------------
(* Properties. *)

PCs == {"new", "login", "idle", "open", "opening", "data", "lock", "send",
        "close", "kill", "tick", "drain", "closed", "reap", "remove",
        "remove_svc", "remove_sess", "stop", "stop_send", "stop_reader",
        "stop_writer", "drop", "scan", "gone"}

TypeOK ==
    LET Some == Conns \cup {None}
    IN  /\ calls \in Scenarios /\ pc \in [Actors -> PCs]
        /\ reg \in Some /\ term \in [Conns -> Some] /\ idle \in BOOLEAN
        /\ regLock \in Actors \cup {None}
        /\ svcLock \in [Conns -> Actors \cup {None}]
        /\ sessLock \in [Conns -> Actors \cup {None}]
        /\ sv \in [Actors -> Some] /\ ss \in [Actors -> Some]
        /\ fin \in [Actors -> Some] /\ finOpened \in [Actors -> BOOLEAN]
        /\ child \in [Conns -> {"none", "running", "ended", "killed"}]
        /\ owner \in [Conns -> Some \cup {"reaper"}]
        /\ opened \in [Conns -> BOOLEAN] /\ exiting \in [Conns -> BOOLEAN]
        /\ tx \in [Conns -> BOOLEAN] /\ rx \in [Conns -> BOOLEAN]
        /\ input \in [Conns -> 0..Capacity] /\ output \in [Conns -> 0..Capacity]
        /\ ptyOut \in [Conns -> BOOLEAN]
        /\ reader \in [Conns -> Threads] /\ writer \in [Conns -> Threads]
        /\ closedSent \in [Conns -> BOOLEAN] /\ rejoined \in [Conns -> Some]

\* No shell is forgotten: a running one is with the reaper, or with a session
\* that a service of the registry or a call in progress still holds, and so is
\* a session with a reader or a channel, whichever of the connections and the
\* clean-up thread opens, closes, reads and removes the terminal meanwhile.
NoShellLost ==
    \A k \in Conns :
        /\ child[k] = "running" => owner[k] # None
        /\ ~Stopped(k) => KeptSess(k, None)

\* When all connections have gone and the clean-up thread is idle, nothing of
\* the terminals is left: no service, no session with a shell or a thread, no lock.
NothingLeft ==
    (/\ pc[Cleaner] = "scan" /\ \A c \in Conns : pc[c] \in {"new", "gone"})
    => /\ reg = None /\ regLock = None
       /\ \A k \in Conns : /\ owner[k] # k
                            /\ reader[k] \in {"none", "joined"}
                            /\ writer[k] \in {"none", "joined"}

\* What an actor holds depends on where it is in its call.
Stopping == {"stop", "stop_send", "stop_reader", "stop_writer"}
HoldInv ==
    \A a \in Actors :
        /\ pc[a] \in {"new", "login", "idle", "scan", "gone", "remove"} =>
              sv[a] = None /\ ss[a] = None
        /\ pc[a] \in {"open", "opening", "data", "close", "closed", "remove_svc"} =>
              sv[a] # None /\ ss[a] = None
        /\ pc[a] \in {"lock", "send", "kill", "tick", "drain", "reap",
                      "remove_sess"} => sv[a] # None /\ ss[a] # None
        /\ pc[a] \in Stopping => ss[a] # None

\* Sessions that are in a service or held by a call have been made.
MadeInv ==
    \A k \in Conns :
        /\ child[k] = "none" <=> reader[k] = "none"
        /\ child[k] = "none" <=> writer[k] = "none"
        /\ \A a \in Actors : ss[a] = k => child[k] # "none"
        /\ \A v \in Conns : term[v] = k => child[k] # "none"

\* Who has joined the reader of a session goes on to join its writer.
JoinInv ==
    \A k \in Conns :
        reader[k] = "joined" =>
            writer[k] = "joined" \/ \E a \in Actors : /\ pc[a] = "stop_writer"
                                                    /\ ss[a] = k

\* A service is in the registry only while a connection uses it; who has the
\* registry's lock is logging in or removing the service.
RegistryInv ==
    /\ reg # None => \E c \in Conns : /\ pc[c] \notin {"new", "login", "gone"}
                                      /\ regLock # c
    /\ regLock # None =>
          pc[regLock] \in {"login", "remove_svc", "remove_sess", "drop"} \cup Stopping

\* A connection that has found a finished reader goes on to take the terminal
\* out of its service.
FinInv ==
    \A a \in Actors :
        /\ fin[a] # None =>
              /\ pc[a] \in {"drain", "drop", "closed"} \cup Stopping
              /\ sv[a] # None /\ regLock # a
              /\ reader[fin[a]] \in {"finished", "joined"}
              /\ pc[a] = "drain" => fin[a] = ss[a]
        /\ finOpened[a] => fin[a] # None /\ pc[a] # "drain"

\* What a terminal consists of has an owner as long as it is there, and is gone
\* with the last connection.  The last five say why: with them the invariant is
\* inductive.
Inv == /\ TypeOK /\ NoShellLost /\ NothingLeft
       /\ HoldInv /\ MadeInv /\ JoinInv /\ RegistryInv /\ FinInv

\* A connection that reports an opened terminal as closed has sent all its
\* output before: read_outputs looks at the reader before it empties the channel.
OutputBeforeClosed ==
    \A c \in Conns : (finOpened[c] /\ fin[c] # None) => output[fin[c]] = 0

\* Every call ends: no two of the connections, the clean-up thread and the
\* threads of a session wait for each other's locks, channels and ends.
CallsEnd ==
    \A a \in Actors : pc[a] \notin {"new", "idle", "scan", "gone"}
                        ~> pc[a] \in {"idle", "scan", "gone"}

\* A shell that ends is noticed by the connection that shows it and reaped.
ShellReaped ==
    \A k \in Conns : child[k] = "ended" ~> owner[k] = None

=============================================================================
