---------------------------- MODULE PortForward ----------------------------
(***************************************************************************)
(* A port forwarding connection, both ends: `connect_and_login' and        *)
(* `run_forward' of src/port_forward.rs on the controlling side, and       *)
(* Connection::start with try_port_forward_loop of src/server/connection.rs*)
(* on the controlled side.                                                 *)
(*                                                                         *)
(* Both ends first exchange framed messages and then, on the same stream,  *)
(* raw bytes.  Neither tells the other when it changes over: the           *)
(* controlled side does so when the peer is authorized and no TestDelay is *)
(* unanswered, the controlling side when it sees the LoginResponse.        *)
(***************************************************************************)
EXTENDS Naturals, Sequences

CONSTANTS
    MaxQueue        \* bound: messages in one direction of the stream

ASSUME PortForwardAssumption == MaxQueue \in Nat \ {0}

VARIABLES
    server,           \* "select" (Connection::start's loop), "forward", "ended"
    socket,           \* port_forward_socket is some
    authorized,
    last_test_delay,  \* is some: a TestDelay was sent and not answered
    asked,            \* the connection manager was shown the connection
    clicked,          \* Authorize has left the loop (history)
    client,           \* "login" (connect_and_login), "forward", "closed"
    hashed,           \* the client has got the Hash and may log in
    buffer,           \* bytes of the local application wait for the login
    to_client, to_server,     \* the two directions of the stream
    app, target       \* kinds of messages written to the forwarded sockets

serverVars == <<server, socket, authorized, last_test_delay, asked, clicked,
                target>>
clientVars == <<client, hashed, buffer, app>>
vars == <<server, socket, authorized, last_test_delay, asked, clicked, client,
          hashed, buffer, to_client, to_server, app, target>>

ToClient == {"hash", "login_ok", "login_error", "login_retry", "test_delay",
             "permission", "raw"}
ToServer == {"login_right", "login_wrong", "login_empty", "test_delay", "raw"}

TypeOK ==
    /\ server \in {"select", "forward", "ended"}
    /\ client \in {"login", "forward", "closed"}
    /\ socket \in BOOLEAN /\ authorized \in BOOLEAN
    /\ last_test_delay \in BOOLEAN /\ asked \in BOOLEAN
    /\ clicked \in BOOLEAN /\ hashed \in BOOLEAN /\ buffer \in BOOLEAN
    /\ to_client \in Seq(ToClient) /\ to_server \in Seq(ToServer)
    /\ app \subseteq ToClient /\ target \subseteq ToServer

\* on_open has sent the Hash.
Init ==
    /\ server = "select" /\ client = "login"
    /\ socket = FALSE /\ authorized = FALSE /\ last_test_delay = FALSE
    /\ asked = FALSE /\ clicked = FALSE /\ hashed = FALSE /\ buffer = FALSE
    /\ to_client = <<"hash">> /\ to_server = << >>
    /\ app = {} /\ target = {}

Room(q, n) == Len(q) + n <= MaxQueue

-----------------------------------------------------------------------------
(* The controlled side. *)

\* What follows on_message in the loop: "Avoid TestDelay reply injection into
\* rdp data stream".
\* AfterMessage_NoTest is a mutant: without the test of last_test_delay.
AfterMessage_NoTest(auth, delay) ==
    server' = IF socket' /\ auth THEN "forward" ELSE "select"

AfterMessage(auth, delay) ==
    server' = IF socket' /\ auth /\ ~delay THEN "forward" ELSE "select"

\* A LoginRequest for a port forwarding: connect to the target, then validate
\* the password.  The displays are enumerated for the response of this
\* connection too; if that fails, the peer is authorized and told an error.
LoginRequest(password) ==
    /\ server = "select" /\ to_server # << >>
    /\ Head(to_server) = password
    /\ to_server' = Tail(to_server) /\ Room(to_client, 1)
    /\ \/ /\ ~authorized /\ password = "login_right"
          /\ socket' = TRUE /\ authorized' = TRUE /\ asked' = TRUE
          /\ \E answer \in {"login_ok", "login_error"} :
                to_client' = Append(to_client, answer)
          /\ AfterMessage(TRUE, last_test_delay)
       \/ /\ ~authorized /\ password = "login_wrong"
          /\ socket' = TRUE /\ asked' = TRUE
          /\ to_client' = Append(to_client, "login_retry")
          /\ UNCHANGED <<authorized, server>>
       \/ /\ ~authorized /\ password = "login_empty"
          /\ socket' = TRUE /\ asked' = TRUE
          /\ UNCHANGED <<authorized, server, to_client>>
       \/ /\ authorized
          /\ UNCHANGED <<socket, authorized, asked, to_client>>
          /\ AfterMessage(TRUE, last_test_delay)
    /\ UNCHANGED <<last_test_delay, clicked, target, clientVars>>

\* The target cannot be reached, or tunnels are not permitted: the loop is left.
LoginRefused ==
    /\ server = "select" /\ ~authorized /\ to_server # << >>
    /\ Head(to_server) \in {"login_right", "login_wrong", "login_empty"}
    /\ to_server' = Tail(to_server) /\ Room(to_client, 1)
    /\ to_client' = Append(to_client, "login_error")
    /\ server' = IF socket THEN "forward" ELSE "ended"
    /\ UNCHANGED <<socket, authorized, last_test_delay, asked, clicked, target,
                   clientVars>>

TestDelayReply ==
    /\ server = "select" /\ to_server # << >> /\ Head(to_server) = "test_delay"
    /\ to_server' = Tail(to_server)
    /\ last_test_delay' = FALSE /\ UNCHANGED socket
    /\ AfterMessage(authorized, FALSE)
    /\ UNCHANGED <<authorized, asked, clicked, target, clientVars, to_client>>

\* Data::Authorize from the connection manager: the loop is left at once.
Authorize ==
    /\ server = "select" /\ asked /\ Room(to_client, 1)
    /\ authorized' = TRUE
    /\ IF authorized THEN UNCHANGED to_client
       ELSE \E answer \in {"login_ok", "login_error"} :
                to_client' = Append(to_client, answer)
    /\ server' = IF socket THEN "forward" ELSE "select"
    /\ clicked' = TRUE
    /\ UNCHANGED <<socket, last_test_delay, asked, target, clientVars, to_server>>

TestDelayTimer ==
    /\ server = "select" /\ ~last_test_delay /\ Room(to_client, 1)
    /\ ~(socket /\ authorized)
    /\ last_test_delay' = TRUE
    /\ to_client' = Append(to_client, "test_delay")
    /\ UNCHANGED <<server, socket, authorized, asked, clicked, target,
                   clientVars, to_server>>

\* SwitchPermission, ChatMessage and the like from the connection manager.
CmMessage ==
    /\ server = "select" /\ asked /\ Room(to_client, 1)
    /\ to_client' = Append(to_client, "permission")
    /\ UNCHANGED <<serverVars, clientVars, to_server>>

\* Close or an error from the connection manager, 30 s of silence, or the end
\* of the stream.
ServerClose ==
    /\ server \in {"select", "forward"}
    /\ server' = "ended" /\ socket' = FALSE
    /\ UNCHANGED <<authorized, last_test_delay, asked, clicked, target,
                   clientVars, to_client, to_server>>

\* try_port_forward_loop: all that comes is written to the target.
ForwardToTarget ==
    /\ server = "forward" /\ to_server # << >>
    /\ target' = target \cup {Head(to_server)}
    /\ to_server' = Tail(to_server)
    /\ UNCHANGED <<server, socket, authorized, last_test_delay, asked, clicked,
                   clientVars, to_client>>

ForwardFromTarget ==
    /\ server = "forward" /\ Room(to_client, 1)
    /\ to_client' = Append(to_client, "raw")
    /\ UNCHANGED <<serverVars, clientVars, to_server>>

-----------------------------------------------------------------------------
(* The controlling side. *)

\* handle_hash logs in with the password at hand; handle_login_from_ui, after
\* the user was asked, with another one.
Login ==
    /\ client = "login" /\ hashed /\ Room(to_server, 1)
    /\ \E password \in {"login_right", "login_wrong", "login_empty"} :
          to_server' = Append(to_server, password)
    /\ hashed' = FALSE
    /\ UNCHANGED <<serverVars, client, buffer, app, to_client>>

\* Mutant: the client waits for the LoginResponse first, TestDelay is left.
ClientMessage_NoReply ==
    /\ client = "login" /\ to_client # << >> /\ Head(to_client) # "test_delay"
    /\ to_client' = Tail(to_client)
    /\ hashed' = (hashed \/ Head(to_client) \in {"hash", "login_retry"})
    /\ client' = IF Head(to_client) = "login_ok" THEN "forward" ELSE client
    /\ UNCHANGED <<serverVars, buffer, app, to_server>>

\* A framed message in connect_and_login.
ClientMessage ==
    /\ client = "login" /\ to_client # << >> /\ Room(to_server, 2)
    /\ to_client' = Tail(to_client)
    /\ CASE Head(to_client) \in {"hash", "login_retry"} ->
              /\ hashed' = TRUE /\ UNCHANGED <<client, buffer, to_server>>
         [] Head(to_client) = "test_delay" ->
              /\ to_server' = Append(to_server, "test_delay")
              /\ UNCHANGED <<client, buffer, hashed>>
         [] Head(to_client) = "login_error" ->
              /\ client' = "closed" /\ UNCHANGED <<hashed, buffer, to_server>>
         [] Head(to_client) = "login_ok" ->
              /\ client' = "forward" /\ buffer' = FALSE
              /\ to_server' = IF buffer THEN Append(to_server, "raw")
                              ELSE to_server
              /\ UNCHANGED hashed
         [] OTHER -> UNCHANGED <<client, hashed, buffer, to_server>>
    /\ UNCHANGED <<serverVars, app>>

\* Mutant: bytes are sent on although the login is not done.
AppSends_NoBuffer ==
    /\ client \in {"login", "forward"} /\ Room(to_server, 1)
    /\ to_server' = Append(to_server, "raw")
    /\ UNCHANGED <<serverVars, clientVars, to_client>>

\* The local application sends: kept until the login, forwarded afterwards.
AppSends ==
    /\ \/ /\ client = "login" /\ buffer' = TRUE /\ UNCHANGED to_server
       \/ /\ client = "forward" /\ Room(to_server, 1)
          /\ to_server' = Append(to_server, "raw") /\ UNCHANGED buffer
    /\ UNCHANGED <<serverVars, client, hashed, app, to_client>>

\* run_forward: all that comes is written to the local application.
ForwardToApp ==
    /\ client = "forward" /\ to_client # << >>
    /\ app' = app \cup {Head(to_client)}
    /\ to_client' = Tail(to_client)
    /\ UNCHANGED <<serverVars, client, hashed, buffer, to_server>>

\* The local application goes away, the login takes too long, or the stream
\* ends.
ClientClose ==
    /\ client \in {"login", "forward"}
    /\ client' = "closed"
    /\ UNCHANGED <<serverVars, hashed, buffer, app, to_client, to_server>>

ServerStep ==
    \/ \E p \in {"login_right", "login_wrong", "login_empty"} : LoginRequest(p)
    \/ TestDelayReply \/ ForwardToTarget

ClientStep == Login \/ ClientMessage \/ ForwardToApp

Next == \/ ServerStep \/ LoginRefused \/ Authorize \/ TestDelayTimer \/ CmMessage
        \/ ServerClose \/ ForwardFromTarget
        \/ ClientStep \/ AppSends \/ ClientClose

Spec == Init /\ [][Next]_vars

\* Both loops read what the stream delivers.
FairSpec == Spec /\ WF_vars(ServerStep) /\ WF_vars(ClientStep)

-----------------------------------------------------------------------------
(* Properties. *)

\* "Avoid TestDelay reply injection into rdp data stream": neither a TestDelay
\* of the controlled side nor its reply is written to a forwarded socket.
\* (For peers who were authorized: a loop left by LoginRefused is not the
\* comment's subject.)
NoTestDelayForwarded == authorized => "test_delay" \notin app \cup target

\* It holds as long as the loop is left by the test the comment is about, that
\* is, for every connection that logged in with its password.
PasswordLoginIsClean == ~clicked => NoTestDelayForwarded

\* The controlled side never takes forwarded bytes for a framed message: when
\* raw bytes arrive, its loop has been left.
NoRawParsed ==
    (to_server # << >> /\ Head(to_server) = "raw") => server # "select"

\* Why this is so.  Carries: m is on its way; Ahead: a message m is, and no n
\* comes before it; OnlyOnce: m is there at most once.
Carries(q, m) == \E i \in 1..Len(q) : q[i] = m

Ahead(q, m, n) == \E i \in 1..Len(q) : q[i] = m /\ \A j \in 1..(i - 1) : q[j] # n

OnlyOnce(q, m) == \A i, j \in 1..Len(q) : q[i] = m /\ q[j] = m => i = j

\* The controlling side changes over for an authorized peer only, and the
\* controlled side stays in its loop after that only for a TestDelay.
LoginInv ==
    /\ ~authorized => /\ client # "forward" /\ app = {}
                      /\ ~Carries(to_client, "login_ok") /\ ~Carries(to_server, "raw")
    /\ server = "select" => /\ asked \/ authorized => socket
                            /\ authorized => last_test_delay
                            /\ target = {}

\* While the loop waits for the reply, the TestDelay is ahead of the
\* LoginResponse that ends the other side's messages, or the reply ahead of the
\* bytes that follow it.
ReplyAhead ==
    server = "select" /\ last_test_delay =>
        \/ /\ client # "forward" /\ ~Carries(to_server, "raw")
           /\ Ahead(to_client, "test_delay", "login_ok")
        \/ Ahead(to_server, "test_delay", "raw")

\* A TestDelay or its reply is under way only while last_test_delay is set, and
\* only one of them.
OneTestDelay ==
    /\ OnlyOnce(to_client, "test_delay") /\ OnlyOnce(to_server, "test_delay")
    /\ ~(Carries(to_client, "test_delay") /\ Carries(to_server, "test_delay"))
    /\ ~last_test_delay => /\ ~Carries(to_client, "test_delay")
                           /\ ~Carries(to_server, "test_delay")

\* No TestDelay follows the LoginResponse, and after a password login none is
\* left when the loop is.
NoneLeft ==
    /\ Carries(to_client, "login_ok") \/ client = "forward" =>
          \/ ~Carries(to_client, "test_delay")
          \/ client # "forward" /\ Ahead(to_client, "test_delay", "login_ok")
    /\ server = "forward" /\ authorized /\ ~clicked => ~last_test_delay
    /\ "test_delay" \notin app
    /\ authorized /\ ~clicked => "test_delay" \notin target

\* The two ends agree on what is framed and what is raw: the inductive
\* invariant of the proofs.
StreamInv ==
    /\ TypeOK /\ NoRawParsed
    /\ LoginInv /\ ReplyAhead /\ OneTestDelay /\ NoneLeft

\* Once the peer is authorized, the wait for an unanswered TestDelay ends: the
\* controlling side has answered it before it saw the LoginResponse.
ForwardingStarts ==
    (socket /\ authorized) ~> (server # "select" \/ client = "closed")

=============================================================================
