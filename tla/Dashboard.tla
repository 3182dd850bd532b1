------------------------------ MODULE Dashboard ------------------------------
(***************************************************************************)
(* The link of this computer to the dashboard of a technician's account:   *)
(* src/dashboard.rs, the request of a connected technician and its answer  *)
(* (src/server/connection.rs), and the question to the user of the         *)
(* computer (src/ui_cm_interface.rs, the dialog of src/ui.rs).             *)
(*                                                                         *)
(* A connection handles one input at a time, and waits for the dashboard's *)
(* server (HTTP) inside its handlers; the thread of dashboard::start       *)
(* enrols the computer with an invite code that was left for it and then   *)
(* keeps a socket to the server.  Both link with link_device, which takes  *)
(* the invite code and leaves the result in the configuration.  One action *)
(* is what happens between two waits; a wait for the server may never end. *)
(* An invite code, or an enrollment token, is named by its account.        *)
(*                                                                         *)
(* It is one process, which runs the window, the server and the thread     *)
(* (portable mode).  When they are installed, --server, --ticket and the   *)
(* window are processes, each with a configuration, a DASHBOARD_RUNNING    *)
(* and a thread of its own.                                                *)
(***************************************************************************)
EXTENDS Naturals, Sequences, FiniteSets, SequencesExt

CONSTANTS
    Conns,         \* connections of technicians
    Thread,        \* the thread of dashboard::start
    Accounts,
    Files,         \* those that InviteCode.toml may name,
    Tokens,        \* and EnrollmentToken.toml
    None,
    MaxInvites,    \* bound: requests, and invite codes entered in the settings
    MaxQueue       \* bound: messages in one direction of an IPC stream

ASSUME DashboardAssumption ==
    /\ Thread \notin Conns /\ None \notin Accounts
    /\ Files \subseteq Accounts /\ Tokens \subseteq Accounts
    /\ MaxInvites \in Nat /\ MaxQueue \in Nat \ {0}

Linkers == Conns \cup {Thread}

VARIABLES
    step,          \* where a connection's handler, or the thread, is
    code,          \* the invite code it works with
    pending,       \* pending_link_invite_code
    owed,          \* the technician waits for an answer
    to_cm,         \* an account: LinkDashboardIncoming; None: ...Timeout
    from_cm,       \* LinkDashboardResponse
    shown,         \* the account of the dialog, None if there is none
    invite,        \* option invite_code
    file, token,   \* InviteCode.toml, EnrollmentToken.toml
    entered,       \* entered in the settings, the option is not written yet
    user,          \* option dashboard_user_id
    starts,        \* threads that are about to call dashboard::start
    running,       \* DASHBOARD_RUNNING
    socket_user,   \* dashboard_user_id of dashboard::start
    invites,       \* requests and invite codes entered so far
    agreed,        \* accounts that the user of the computer has agreed to
    crossed        \* a click and the timeout of its request have crossed

queueVars == <<to_cm, from_cm, shown>>
requestVars == <<pending, owed, to_cm, from_cm, shown>>
fileVars == <<file, token, entered>>
threadVars == <<starts, running, socket_user>>
history == <<invites, agreed, crossed>>
vars == <<step, code, pending, owed, to_cm, from_cm, shown, invite, file,
          token, entered, user, starts, running, socket_user, invites, agreed,
          crossed>>

ConnSteps == {"idle", "validate", "read", "link_validate", "register", "settle",
              "ended"}
ThreadSteps == {"none", "begin", "read", "link_validate", "register", "settle",
                "user", "connect", "online", "check", "stop"}

TypeOK ==
    /\ step \in [Linkers -> ConnSteps \cup ThreadSteps]
    /\ \A c \in Conns : step[c] \in ConnSteps
    /\ step[Thread] \in ThreadSteps
    /\ code \in [Linkers -> Accounts \cup {None}]
    /\ pending \in [Conns -> Accounts \cup {None}]
    /\ owed \subseteq Conns
    /\ to_cm \in [Conns -> Seq(Accounts \cup {None})]
    /\ from_cm \in [Conns -> Seq(BOOLEAN)]
    /\ \A c \in Conns : Len(to_cm[c]) <= MaxQueue /\ Len(from_cm[c]) <= MaxQueue
    /\ shown \in [Conns -> Accounts \cup {None}]
    /\ invite \in Accounts \cup {None} /\ user \in Accounts \cup {None}
    /\ file \in Accounts \cup {None} /\ token \in Accounts \cup {None}
    /\ entered \in Accounts \cup {None}
    /\ starts \in Nat /\ running \in BOOLEAN
    /\ socket_user \in Accounts \cup {None}
    /\ step[Thread] \in {"connect", "online", "check"} => socket_user # None
    /\ invites \in 0..MaxInvites /\ agreed \subseteq Accounts
    /\ crossed \in BOOLEAN

get_invite_code == IF invite # None THEN invite ELSE file

\* The program starts: it is linked, has an invite code, a token, or nothing.
\* A token alone does not start the thread.
Init ==
    /\ step = [p \in Linkers |-> IF p = Thread THEN "none" ELSE "idle"]
    /\ code = [p \in Linkers |-> None]
    /\ pending = [c \in Conns |-> None]
    /\ owed = {}
    /\ to_cm = [c \in Conns |-> << >>] /\ from_cm = [c \in Conns |-> << >>]
    /\ shown = [c \in Conns |-> None]
    /\ user \in Accounts \cup {None} /\ invite \in Accounts \cup {None}
    /\ file \in Files \cup {None} /\ token \in Tokens \cup {None}
    /\ entered = None
    /\ agreed = {user, invite, file, token} \ {None}
    /\ starts = IF user = None /\ get_invite_code = None THEN 0 ELSE 1
    /\ running = FALSE /\ socket_user = None
    /\ invites = 0 /\ crossed = FALSE

Goto(p, from, to) == step[p] = from /\ step' = [step EXCEPT ![p] = to]

send_to_cm(c, msg) == /\ Len(to_cm[c]) < MaxQueue
                      /\ to_cm' = [to_cm EXCEPT ![c] = Append(@, msg)]

send_link_dashboard_response(c) == owed' = owed \ {c}

-----------------------------------------------------------------------------
(* A technician's request. *)

\* Mutant: a new request takes the place of the one that waits.
handle_link_dashboard_request_Replace(c, a) ==
    /\ invites < MaxInvites /\ invites' = invites + 1
    /\ Goto(c, "idle", "validate") /\ code' = [code EXCEPT ![c] = a]
    /\ owed' = owed \cup {c}
    /\ UNCHANGED <<pending, queueVars, invite, fileVars, user, threadVars,
                   agreed, crossed>>

\* While a request waits for the user another one is told "busy".
handle_link_dashboard_request(c, a) ==
    /\ invites < MaxInvites /\ invites' = invites + 1
    /\ \/ /\ pending[c] # None
          /\ step[c] = "idle"
          /\ UNCHANGED <<step, code, owed>>
       \/ /\ pending[c] = None
          /\ Goto(c, "idle", "validate") /\ code' = [code EXCEPT ![c] = a]
          /\ owed' = owed \cup {c}
    /\ UNCHANGED <<pending, queueVars, invite, fileVars, user, threadVars,
                   agreed, crossed>>

\* The server's answer: the code is valid, or it is not, or there is none; the
\* computer may be linked to this account already.
Validated(c) ==
    /\ Goto(c, "validate", "idle")
    /\ \/ /\ user # code[c]
          /\ pending' = [pending EXCEPT ![c] = code[c]]
          /\ send_to_cm(c, code[c])
          /\ UNCHANGED owed
       \/ /\ send_link_dashboard_response(c)
          /\ UNCHANGED <<pending, to_cm>>
    /\ code' = [code EXCEPT ![c] = None]
    /\ UNCHANGED <<from_cm, shown, invite, fileVars, user, threadVars, history>>

\* Mutant: the technician is not told.
maybe_timeout_pending_link_dashboard_Silent(c) ==
    /\ step[c] = "idle" /\ pending[c] # None
    /\ pending' = [pending EXCEPT ![c] = None]
    /\ send_to_cm(c, None)
    /\ crossed' = (crossed \/ from_cm[c] # << >>)
    /\ UNCHANGED <<step, code, owed, from_cm, shown, invite, fileVars, user,
                   threadVars, invites, agreed>>

\* After 120 s.
maybe_timeout_pending_link_dashboard(c) ==
    /\ step[c] = "idle" /\ pending[c] # None
    /\ pending' = [pending EXCEPT ![c] = None]
    /\ send_to_cm(c, None) /\ send_link_dashboard_response(c)
    /\ crossed' = (crossed \/ from_cm[c] # << >>)
    /\ UNCHANGED <<step, code, from_cm, shown, invite, fileVars, user,
                   threadVars, invites, agreed>>

\* The user's answer is taken for the request that waits, whichever that is.
handle_link_dashboard_response(c) ==
    /\ step[c] = "idle" /\ from_cm[c] # << >>
    /\ from_cm' = [from_cm EXCEPT ![c] = Tail(@)]
    /\ pending' = [pending EXCEPT ![c] = None]
    /\ IF Head(from_cm[c]) /\ pending[c] # None
       THEN /\ invite' = pending[c]
            /\ step' = [step EXCEPT ![c] = "read"] /\ UNCHANGED owed
       ELSE send_link_dashboard_response(c) /\ UNCHANGED <<step, invite>>
    /\ UNCHANGED <<code, to_cm, shown, fileVars, user, threadVars, history>>

EndConnection(c) ==
    /\ Goto(c, "idle", "ended")
    /\ pending' = [pending EXCEPT ![c] = None] /\ owed' = owed \ {c}
    /\ to_cm' = [to_cm EXCEPT ![c] = << >>]
    /\ from_cm' = [from_cm EXCEPT ![c] = << >>]
    /\ shown' = [shown EXCEPT ![c] = None]
    /\ UNCHANGED <<code, invite, fileVars, user, threadVars, history>>

-----------------------------------------------------------------------------
(* The connection manager. *)

\* link_dashboard_incoming and link_dashboard_clear.
RunnerStep(c) ==
    /\ to_cm[c] # << >>
    /\ to_cm' = [to_cm EXCEPT ![c] = Tail(@)]
    /\ shown' = [shown EXCEPT ![c] = Head(to_cm[c])]
    /\ UNCHANGED <<step, code, pending, owed, from_cm, invite, fileVars, user,
                   threadVars, history>>

\* respondLinkDash: the dialog is gone with the click.
respondLinkDash(c, accept) ==
    /\ shown[c] # None /\ Len(from_cm[c]) < MaxQueue
    /\ from_cm' = [from_cm EXCEPT ![c] = Append(@, accept)]
    /\ shown' = [shown EXCEPT ![c] = None]
    /\ agreed' = IF accept THEN agreed \cup {shown[c]} ELSE agreed
    /\ crossed' = (crossed \/ Contains(to_cm[c], None))
    /\ UNCHANGED <<step, code, pending, owed, to_cm, invite, fileVars, user,
                   threadVars, invites>>

\* An invite code is entered in the settings: the thread is started first,
EnterInvite(a) ==
    /\ entered = None /\ invites < MaxInvites /\ invites' = invites + 1
    /\ entered' = a /\ starts' = starts + 1 /\ agreed' = agreed \cup {a}
    /\ UNCHANGED <<step, code, requestVars, invite, file, token, user, running,
                   socket_user, crossed>>

\* and the option is written after it, through the IPC server, if that can be
\* reached.
StoreInvite ==
    /\ entered # None /\ entered' = None
    /\ invite' \in {entered, invite}
    /\ UNCHANGED <<step, code, requestVars, file, token, user, threadVars,
                   history>>

-----------------------------------------------------------------------------
(* link_device, called by a connection or by the thread. *)

\* The handler answers "link_failed"; the thread ends.  The code stays.
LinkFails(p) ==
    /\ step' = [step EXCEPT ![p] = IF p = Thread THEN "none" ELSE "idle"]
    /\ code' = [code EXCEPT ![p] = None]
    /\ owed' = owed \ {p}
    /\ running' = IF p = Thread THEN FALSE ELSE running

\* A token needs no validation; when there is a code too, the server gets both
\* and decides.
ReadInvite(p) ==
    /\ step[p] = "read"
    /\ \/ /\ token # None
          /\ step' = [step EXCEPT ![p] = "register"]
          /\ \E a \in {token, get_invite_code} \ {None} :
                code' = [code EXCEPT ![p] = a]
          /\ UNCHANGED <<owed, running>>
       \/ /\ token = None /\ get_invite_code # None
          /\ step' = [step EXCEPT ![p] = "link_validate"]
          /\ code' = [code EXCEPT ![p] = get_invite_code]
          /\ UNCHANGED <<owed, running>>
       \/ token = None /\ get_invite_code = None /\ LinkFails(p)
    /\ UNCHANGED <<pending, queueVars, invite, fileVars, user, starts,
                   socket_user, history>>

\* validate_invite.
LinkValidate(p) ==
    /\ \/ /\ Goto(p, "link_validate", "register")
          /\ UNCHANGED <<code, owed, running>>
       \/ step[p] = "link_validate" /\ LinkFails(p)
    /\ UNCHANGED <<pending, queueVars, invite, fileVars, user, starts,
                   socket_user, history>>

\* The server may name no account.
register_device(p) ==
    /\ \/ /\ Goto(p, "register", "settle")
          /\ user' \in {code[p], user}
          /\ UNCHANGED <<code, owed, running>>
       \/ /\ step[p] = "register" /\ LinkFails(p)
          /\ UNCHANGED user
    /\ UNCHANGED <<pending, queueVars, invite, fileVars, starts, socket_user,
                   history>>

\* The network settings have come, or not, and link_device and
\* handle_link_dashboard_response end.  The notice to the IPC server, which
\* starts the thread, may fail.  The files stay.
Linked(c) ==
    /\ Goto(c, "settle", "idle")
    /\ invite' = None /\ code' = [code EXCEPT ![c] = None]
    /\ starts' \in {starts, starts + 1}
    /\ send_link_dashboard_response(c)
    /\ UNCHANGED <<pending, queueVars, fileVars, user, running, socket_user,
                   history>>

-----------------------------------------------------------------------------
(* dashboard::start. *)

start ==
    /\ starts > 0 /\ starts' = starts - 1
    /\ running' = TRUE
    /\ step' = IF running THEN step ELSE [step EXCEPT ![Thread] = "begin"]
    /\ UNCHANGED <<code, requestVars, invite, fileVars, user, socket_user,
                   history>>

\* The addresses of the server have come, or not.
Begin ==
    /\ Goto(Thread, "begin",
            IF get_invite_code = None /\ token = None THEN "user" ELSE "read")
    /\ UNCHANGED <<code, requestVars, invite, fileVars, user, threadVars,
                   history>>

\* The files are removed, if that is possible.
Enrolled ==
    /\ Goto(Thread, "settle", "user")
    /\ invite' = None /\ code' = [code EXCEPT ![Thread] = None]
    /\ file' \in {file, None} /\ token' \in {token, None}
    /\ UNCHANGED <<requestVars, entered, user, threadVars, history>>

ReadUser ==
    /\ Goto(Thread, "user", IF user = None THEN "stop" ELSE "connect")
    /\ socket_user' = user
    /\ UNCHANGED <<code, requestVars, invite, fileVars, user, starts, running,
                   history>>

\* dashboard_ws_loop: connect and register, or fail.
Connect ==
    /\ \/ Goto(Thread, "connect", "online")
       \/ Goto(Thread, "connect", "check")
    /\ UNCHANGED <<code, requestVars, invite, fileVars, user, threadVars,
                   history>>

\* The socket is closed, breaks or is silent for 90 s.
SocketEnds ==
    /\ Goto(Thread, "online", "check")
    /\ UNCHANGED <<code, requestVars, invite, fileVars, user, threadVars,
                   history>>

\* The server has deleted the computer.  (Its "registered" tells the account
\* again, which is stored only if there is none.)
Unlinked ==
    /\ Goto(Thread, "online", "check")
    /\ user' = None /\ invite' = None
    /\ UNCHANGED <<code, requestVars, fileVars, threadVars, history>>

\* Mutant: the loop goes on for ever.
CheckUser_Forever ==
    /\ Goto(Thread, "check", "connect")
    /\ UNCHANGED <<code, requestVars, invite, fileVars, user, threadVars,
                   history>>

\* After the delay the loop connects again with the user it has begun with.
CheckUser ==
    /\ Goto(Thread, "check", IF user = None THEN "stop" ELSE "connect")
    /\ UNCHANGED <<code, requestVars, invite, fileVars, user, threadVars,
                   history>>

Stop ==
    /\ Goto(Thread, "stop", "none")
    /\ running' = FALSE /\ socket_user' = None
    /\ UNCHANGED <<code, requestVars, invite, fileVars, user, starts, history>>

-----------------------------------------------------------------------------
\* What goes on by itself: the timer, a handler.
ConnStep(c) ==
    \/ maybe_timeout_pending_link_dashboard(c)
    \/ handle_link_dashboard_response(c) \/ ReadInvite(c)

\* A call to the server returns.  make_http_client limits the time to connect,
\* and no more: a server that is silent after that keeps the handler, and with
\* it the connection's loop and its timers.
ConnServed(c) == \/ Validated(c) \/ LinkValidate(c) \/ register_device(c)
                 \/ Linked(c)
AtServer(c) == step[c] \in {"validate", "link_validate", "register", "settle"}

ConnGoesOn(c) == ConnStep(c) \/ ConnServed(c)

\* The same for the thread, which also waits for the addresses of the server
\* and for its socket.
ThreadLocal == ReadInvite(Thread) \/ ReadUser \/ CheckUser \/ Stop

ThreadServed ==
    \/ Begin \/ LinkValidate(Thread) \/ register_device(Thread) \/ Enrolled
    \/ Connect

ThreadStep == ThreadLocal \/ ThreadServed

ConnInput(c) ==
    \/ \E a \in Accounts : handle_link_dashboard_request(c, a)
    \/ EndConnection(c)
    \/ \E b \in BOOLEAN : respondLinkDash(c, b)

Next ==
    \/ \E c \in Conns : ConnGoesOn(c) \/ ConnInput(c) \/ RunnerStep(c)
    \/ (\E a \in Accounts : EnterInvite(a)) \/ StoreInvite
    \/ start \/ ThreadStep \/ SocketEnds \/ Unlinked

Spec == Init /\ [][Next]_vars

\* Handlers, timers and threads go on.  No fairness for the user, the technician
\* or the server: its calls need not return.
FairSpec ==
    /\ Spec /\ WF_vars(start) /\ WF_vars(ThreadLocal)
    /\ \A c \in Conns : WF_vars(ConnStep(c)) /\ WF_vars(RunnerStep(c))

-----------------------------------------------------------------------------
(* Properties. *)

\* The computer is linked only to an account its user has agreed to: in the
\* dialog that named it, in the settings, or before (files that an installer has
\* left count as that).  Requests of several
\* connections, refusals, failures and the thread's own enrolment do not mix
\* them up.  (A click that crosses the timeout of its request can: the answer is
\* taken for the next request, see handle_link_dashboard_response.)
LinkedAsAgreed == user # None => user \in agreed \/ crossed

\* An invite code on its way to user has been agreed to as well.
CodesAsAgreed ==
    /\ invite # None => invite \in agreed \/ crossed
    /\ {file, token, entered} \ {None} \subseteq agreed
    /\ \A p \in Linkers : step[p] \in {"link_validate", "register"} =>
          code[p] \in Accounts /\ (code[p] \in agreed \/ crossed)
    /\ \A c \in Conns : step[c] = "validate" =>
          code[c] \in Accounts /\ pending[c] = None

\* What the connection manager shows when it has read all that was sent to it.
Latest(c) == IF to_cm[c] = << >> THEN shown[c] ELSE to_cm[c][Len(to_cm[c])]

\* As long as no click has crossed a timeout, the dialog, or the answer on its
\* way, is that of the request that waits.
DialogMatches(c) ==
    \/ pending[c] = None /\ Latest(c) = None /\ from_cm[c] = << >>
    \/ pending[c] # None /\ Latest(c) = pending[c] /\ from_cm[c] = << >>
    \/ /\ pending[c] # None /\ Latest(c) = None /\ Len(from_cm[c]) = 1
       /\ Head(from_cm[c]) => pending[c] \in agreed

\* A dialog is withdrawn before the next one is shown.
DialogsAlternate(c) ==
    /\ shown[c] # None /\ to_cm[c] # << >> => to_cm[c][1] = None
    /\ \A i \in 1..(Len(to_cm[c]) - 1) :
          to_cm[c][i] # None => to_cm[c][i + 1] = None

\* The link is one that was agreed to, and why: the inductive invariant of the
\* proofs.
Inv ==
    /\ TypeOK /\ LinkedAsAgreed /\ CodesAsAgreed
    /\ ~crossed => \A c \in Conns : DialogMatches(c) /\ DialogsAlternate(c)

\* A technician who has asked is answered, whatever the user does and whether
\* the calls to the server succeed or fail, or the connection ends; unless one
\* of its calls to the server never returns, which the connection waits for
\* without a limit.
RequestAnswered ==
    \A c \in Conns : ([]<>~AtServer(c)) => (c \in owed ~> c \notin owed)

\* A computer that is not linked is not kept online for the account it had.
UnlinkedGoesOffline ==
    user = None ~> \/ step[Thread] \notin {"connect", "online", "check"}
                   \/ user # None

=============================================================================
