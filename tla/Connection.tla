----------------------------- MODULE Connection -----------------------------
(***************************************************************************)
(* One incoming connection (Connection of src/server/connection.rs) and    *)
(* what the connection manager knows of it (IpcTaskRunner and CLIENTS of   *)
(* src/ui_cm_interface.rs).                                                *)
(*                                                                         *)
(* The connection is a task that handles one input at a time: a message of *)
(* the peer, a message of the connection manager, or a timer.  Every       *)
(* handler is one action.  The two programs talk over an IPC stream, a     *)
(* queue in each direction; the user of the connection manager may click   *)
(* at any time, on what the connection manager shows at that time.         *)
(*                                                                         *)
(* Which services the connection is subscribed to depends on what the user *)
(* permits (perms), on what the peer asks for (opts) and on the kind of    *)
(* connection; each of them changes in a handler of its own, and each      *)
(* handler updates the subscriptions it believes to be affected.           *)
(***************************************************************************)
EXTENDS Naturals, Sequences

CONSTANTS
    Kinds,            \* kinds of connection a LoginRequest may ask for
    Perms,            \* permissions the user may switch
    OptionMessages,   \* option messages the peer may send
    PeerInputs,       \* what the peer may send besides a LoginRequest
    MaxQueue          \* bound: messages in one direction of the IPC stream

AllKinds == {"file", "camera", "forward", "terminal"}
AllPerms == {"keyboard", "clipboard", "audio"}
Options == {"show_remote_cursor", "follow_remote_window", "disable_audio",
            "disable_clipboard", "disable_keyboard"}
AllPeerInputs == {"options", "auth_2fa", "invite", "switch_sides", "voice"}

ASSUME ConnectionAssumption ==
    /\ Kinds \subseteq AllKinds /\ Perms \subseteq AllPerms
    /\ OptionMessages \subseteq [Options -> {"yes", "no", "unset"}]
    /\ PeerInputs \subseteq AllPeerInputs
    /\ MaxQueue \in Nat \ {0}

Services == {"video", "display", "camera", "cursor", "pos", "window_focus",
             "clipboard", "audio"}

NoOptions == [x \in Options |-> "unset"]
Client(shown, auth) == [shown |-> shown, authorized |-> auth, incoming |-> FALSE,
                        disconnected |-> FALSE, in_call |-> FALSE]
NoClient == Client(FALSE, FALSE)

VARIABLES
    state,            \* "open" (the select loop), "forward", "ended"
    kinds,            \* file_transfer, view_camera, ... that are set
    conn_type,        \* type of authed_conn_id, "none" before
    authorized,
    require_2fa,      \* is some
    invite,           \* pending_invite_password_to_connect_to_inviter is some
    perms,            \* keyboard, clipboard, audio: what the user permits
    opts,             \* what the peer has asked for
    options_in_login, \* options of a LoginRequest, not applied yet
    subs,             \* services the connection is subscribed to
    services_subed,   \* try_sub_monitor_services was done
    voice_request,    \* voice_call_request_timestamp is some
    voice_calling,
    to_cm, from_cm,   \* the IPC stream
    runner,           \* the connection manager's IpcTaskRunner is running
    client            \* the entry of CLIENTS, NoClient if there is none

accessVars == <<perms, opts, subs>>
logonVars == <<authorized, conn_type, perms, opts, options_in_login, subs,
               services_subed>>
voiceVars == <<voice_request, voice_calling>>
cmVars == <<runner, client>>
vars == <<state, kinds, conn_type, authorized, require_2fa, invite, perms, opts,
          options_in_login, subs, services_subed, voice_request, voice_calling,
          to_cm, from_cm, runner, client>>

ToCm == {"login_authorized", "login", "voice_incoming", "voice_start",
         "voice_close", "close", "disconnected"}
FromCm == [type : {"permission"}, name : Perms, enabled : BOOLEAN]
          \cup [type : {"voice_response", "invite_response"}, accepted : BOOLEAN]
          \cup [type : {"authorize", "close", "voice_close"}]

Clients == [shown : BOOLEAN, authorized : BOOLEAN, incoming : BOOLEAN,
            disconnected : BOOLEAN, in_call : BOOLEAN]

TypeOK ==
    /\ state \in {"open", "forward", "ended"}
    /\ kinds \subseteq Kinds
    /\ conn_type \in {"none", "remote", "file", "forward", "camera"}
    /\ {authorized, require_2fa, invite, services_subed, voice_request,
        voice_calling, runner} \subseteq BOOLEAN
    /\ perms \subseteq AllPerms /\ opts \subseteq Options
    /\ options_in_login \in OptionMessages \cup {NoOptions}
    /\ subs \subseteq Services
    /\ to_cm \in Seq(ToCm) /\ from_cm \in Seq(FromCm)
    /\ client \in Clients

\* The permissions come from the configuration; so does the need of a second
\* factor.
Init ==
    /\ state = "open" /\ kinds = {} /\ conn_type = "none" /\ authorized = FALSE
    /\ require_2fa \in BOOLEAN /\ (require_2fa => "auth_2fa" \in PeerInputs)
    /\ invite = FALSE
    /\ perms \in SUBSET AllPerms /\ AllPerms \ Perms \subseteq perms
    /\ opts = {} /\ options_in_login = NoOptions
    /\ subs = {} /\ services_subed = FALSE
    /\ voice_request = FALSE /\ voice_calling = FALSE
    /\ to_cm = << >> /\ from_cm = << >> /\ runner = TRUE /\ client = NoClient

-----------------------------------------------------------------------------
(* What a connection may be subscribed to. *)

peer_keyboard_enabled(p, o) == "keyboard" \in p /\ "disable_keyboard" \notin o

clipboard_enabled(p, o) == "clipboard" \in p /\ "disable_clipboard" \notin o

can_sub_clipboard_service(p, o) ==
    clipboard_enabled(p, o) /\ peer_keyboard_enabled(p, o)

audio_enabled(p, o) == "audio" \in p /\ "disable_audio" \notin o

show_remote_cursor(o) == "show_remote_cursor" \in o

Wanted(p, o) ==
    {s \in Services :
        CASE s = "cursor" -> peer_keyboard_enabled(p, o) \/ show_remote_cursor(o)
          [] s = "pos" -> show_remote_cursor(o)
          [] s = "window_focus" -> "follow_remote_window" \in o
          [] s = "clipboard" -> can_sub_clipboard_service(p, o)
          [] s = "audio" -> audio_enabled(p, o)
          [] s = "camera" -> FALSE
          [] OTHER -> TRUE}

\* Server::subscribe for some services, each to be or not to be in `wanted'.
Subscribe(s, services, wanted) == (s \ services) \cup (services \cap wanted)

\* A camera connection hears the microphone only in a voice call.
AudioService(type, p, o) ==
    IF type = "camera" /\ ~voice_calling /\ audio_enabled(p, o) THEN {}
    ELSE {"audio"}

Room(q) == Len(q) < MaxQueue

\* The sender's half of the stream; nobody reads it once the runner has ended.
send_to_cm(msg) ==
    /\ runner => Room(to_cm)
    /\ to_cm' = IF runner THEN Append(to_cm, msg) ELSE to_cm

try_start_cm(auth) == send_to_cm(IF auth THEN "login_authorized" ELSE "login")

-----------------------------------------------------------------------------
(* Messages of the peer. *)

\* The options after a message, and the subscriptions update_options makes.
NewOptions(o, msg) ==
    {x \in Options : msg[x] = "yes" \/ (msg[x] = "unset" /\ x \in o)}

\* Mutant: disable_keyboard is only seen as an option of the input.
OptionServices_KeyboardOnly(type, p, o, msg) ==
    (IF msg["show_remote_cursor"] # "unset" THEN {"cursor", "pos"} ELSE {})
    \cup (IF msg["follow_remote_window"] # "unset" THEN {"window_focus"} ELSE {})
    \cup (IF msg["disable_audio"] # "unset" THEN AudioService(type, p, o) ELSE {})
    \cup (IF msg["disable_clipboard"] # "unset" THEN {"clipboard"} ELSE {})
    \cup (IF msg["disable_keyboard"] # "unset" THEN {"cursor"} ELSE {})

OptionServices(type, p, o, msg) ==
    (IF msg["show_remote_cursor"] # "unset" THEN {"cursor", "pos"} ELSE {})
    \cup (IF msg["follow_remote_window"] # "unset" THEN {"window_focus"} ELSE {})
    \cup (IF msg["disable_audio"] # "unset" THEN AudioService(type, p, o) ELSE {})
    \cup (IF msg["disable_clipboard"] # "unset" THEN {"clipboard"} ELSE {})
    \cup (IF msg["disable_keyboard"] # "unset" THEN {"clipboard", "cursor"} ELSE {})

update_options(msg) ==
    LET o == NewOptions(opts, msg) IN
    /\ opts' = o
    /\ subs' = Subscribe(subs, OptionServices(conn_type, perms, o, msg),
                         Wanted(perms, o))

ConnType(k) == CASE "file" \in k -> "file"
                 [] "file" \notin k /\ "forward" \in k -> "forward"
                 [] {"file", "forward"} \cap k = {} /\ "camera" \in k -> "camera"
                 [] OTHER -> "remote"

\* send_logon_response: `k' are the kinds, `login' the options of the login.
\* The displays cannot always be enumerated; then nothing is subscribed.
Logon(k, login) ==
    LET type == ConnType(k)
        o == NewOptions(opts, login)
        s == Subscribe(subs, OptionServices(type, perms, o, login),
                       Wanted(perms, o)) IN
    /\ authorized' = TRUE /\ conn_type' = type
    /\ opts' = o /\ options_in_login' = NoOptions
    /\ \/ /\ type # "file" /\ "camera" \in k
          /\ subs' \in {s, s \cup {"camera"}}
          /\ perms' = perms \ {"keyboard"}
          /\ UNCHANGED services_subed
       \/ /\ k = {} /\ ~invite
          /\ services_subed' = TRUE
          /\ subs' = s \cup Wanted(perms, o)
          /\ UNCHANGED perms
       \/ /\ type = "file" \/ "camera" \notin k
          /\ subs' = s
          /\ UNCHANGED <<perms, services_subed>>

\* send_logon_response: an authorized connection is left alone, and a peer who
\* owes the second factor is asked for it.
send_logon_response(k, login, tfa) ==
    \/ /\ ~authorized /\ Logon(k, login)
    \/ /\ authorized \/ tfa
       /\ options_in_login' = login
       /\ UNCHANGED <<authorized, conn_type, perms, opts, subs, services_subed>>


\* A LoginRequest that is not refused.  Flags of an earlier request stay set.
\* The request may be ignored (the desktop is not ready, too many failures),
\* be left to the connection manager's user (no or a wrong password, approval
\* by click), or its password is right.  A trusted device owes no second factor.
LoginRequest ==
    /\ state = "open"
    /\ \E login \in OptionMessages \cup {options_in_login}, tfa \in BOOLEAN,
         k \in {kinds} \cup {kinds \cup {x} : x \in Kinds} :
        /\ tfa => require_2fa
        /\ require_2fa' = tfa
        /\ kinds' = IF authorized THEN kinds ELSE k
        /\ \/ /\ options_in_login' = login
              /\ UNCHANGED <<authorized, conn_type, perms, opts, subs,
                             services_subed, to_cm>>
           \/ /\ ~authorized /\ options_in_login' = login
              /\ try_start_cm(FALSE)
              /\ UNCHANGED <<authorized, conn_type, perms, opts, subs,
                             services_subed>>
           \/ /\ ~authorized
              /\ send_logon_response(k, login, tfa)
              /\ try_start_cm(authorized')
    /\ UNCHANGED <<state, invite, voiceVars, from_cm, cmVars>>

\* The right code of the second factor.
Auth2fa ==
    /\ state = "open" /\ "auth_2fa" \in PeerInputs /\ require_2fa
    /\ require_2fa' = FALSE
    /\ send_logon_response(kinds, options_in_login, FALSE)
    /\ try_start_cm(authorized')
    /\ UNCHANGED <<state, kinds, invite, voiceVars, from_cm, cmVars>>

InviteRequest ==
    /\ state = "open" /\ "invite" \in PeerInputs
    /\ invite' = TRUE
    /\ try_start_cm(FALSE)
    /\ UNCHANGED <<state, kinds, require_2fa, logonVars, voiceVars, from_cm,
                   cmVars>>

\* A SwitchSidesResponse whose uuid this side has issued.
SwitchSidesResponse ==
    /\ state = "open" /\ "switch_sides" \in PeerInputs
    /\ \E login \in OptionMessages \cup {options_in_login} :
          send_logon_response(kinds, login, FALSE)
    /\ try_start_cm(TRUE)
    /\ UNCHANGED <<state, kinds, require_2fa, invite, voiceVars, from_cm, cmVars>>

\* Messages of an authorized peer; those of a tunnel are not read as messages.
Authorized == state = "open" /\ authorized /\ "forward" \notin kinds

OptionMessage ==
    /\ Authorized /\ "options" \in PeerInputs
    /\ \E msg \in OptionMessages : update_options(msg)
    /\ UNCHANGED <<state, kinds, conn_type, authorized, require_2fa, invite,
                   perms, options_in_login, services_subed, voiceVars, to_cm,
                   from_cm, cmVars>>

VoiceCallRequest ==
    /\ Authorized /\ "voice" \in PeerInputs
    /\ voice_request' = TRUE
    /\ send_to_cm("voice_incoming")
    /\ UNCHANGED <<state, kinds, require_2fa, invite, logonVars, voice_calling,
                   from_cm, cmVars>>

\* close_voice_call.  The request, if there is one, stays.
\* close_voice_call_NoUnsubscribe is a mutant.
close_voice_call_NoUnsubscribe ==
    /\ send_to_cm("voice_close")
    /\ voice_calling' = FALSE
    /\ UNCHANGED subs

close_voice_call ==
    /\ send_to_cm("voice_close")
    /\ voice_calling' = FALSE
    /\ subs' = IF conn_type = "camera" THEN subs \ {"audio"} ELSE subs

VoiceCallHangUp ==
    /\ Authorized /\ "voice" \in PeerInputs
    /\ close_voice_call
    /\ UNCHANGED <<state, kinds, require_2fa, invite, conn_type, authorized,
                   perms, opts, options_in_login, services_subed, voice_request,
                   from_cm, cmVars>>

-----------------------------------------------------------------------------
(* Messages of the connection manager.  The loop of a tunnel drops all but   *)
(* Close.                                                                    *)

Received(type) == /\ state = "open" /\ from_cm # << >>
                  /\ Head(from_cm).type = type
                  /\ from_cm' = Tail(from_cm)

Authorize ==
    /\ Received("authorize")
    /\ require_2fa' = FALSE
    /\ send_logon_response(kinds, options_in_login, FALSE)
    /\ state' = IF "forward" \in kinds THEN "forward" ELSE "open"
    /\ UNCHANGED <<kinds, invite, voiceVars, to_cm, cmVars>>

\* The subscriptions a switched permission affects.
PermissionServices(name, p) ==
    CASE name = "keyboard" -> {"clipboard", "cursor"}
      [] name = "clipboard" -> {"clipboard"}
      [] OTHER -> IF authorized THEN AudioService(conn_type, p, opts) ELSE {}

\* The cursor is shown to whom the user lets use the keyboard, also if the peer
\* has disabled it.
SwitchPermission ==
    /\ Received("permission")
    /\ LET name == Head(from_cm).name
           p == IF Head(from_cm).enabled THEN perms \cup {name}
                ELSE perms \ {name}
           cursor == IF name = "keyboard" /\ Head(from_cm).enabled
                     THEN {"cursor"} ELSE {} IN
       /\ perms' = p
       /\ subs' = Subscribe(subs, PermissionServices(name, p),
                            Wanted(p, opts) \cup cursor)
    /\ UNCHANGED <<state, kinds, conn_type, authorized, require_2fa, invite,
                   opts, options_in_login, services_subed, voiceVars, to_cm,
                   cmVars>>

\* handle_voice_call.
VoiceCallResponse ==
    /\ Received("voice_response")
    /\ LET accepted == Head(from_cm).accepted IN
       \/ /\ voice_request
          /\ voice_request' = FALSE /\ voice_calling' = accepted
          /\ send_to_cm(IF accepted THEN "voice_start" ELSE "voice_close")
          /\ subs' = IF conn_type = "camera"
                     THEN Subscribe(subs, {"audio"},
                              IF accepted THEN Wanted(perms, opts) ELSE {})
                     ELSE subs
       \/ /\ ~voice_request /\ UNCHANGED <<voiceVars, to_cm, subs>>
    /\ UNCHANGED <<state, kinds, conn_type, authorized, require_2fa, invite,
                   perms, opts, options_in_login, services_subed, cmVars>>

CloseVoiceCall ==
    /\ Received("voice_close")
    /\ close_voice_call
    /\ UNCHANGED <<state, kinds, conn_type, authorized, require_2fa, invite,
                   perms, opts, options_in_login, services_subed, voice_request,
                   cmVars>>

InviteAccepted ==
    /\ Received("invite_response") /\ Head(from_cm).accepted
    /\ UNCHANGED <<state, kinds, require_2fa, invite, logonVars, voiceVars,
                   to_cm, cmVars>>

\* The select loop is left for try_port_forward_loop.
PortForward ==
    /\ state = "open" /\ authorized /\ "forward" \in kinds
    /\ state' = "forward"
    /\ UNCHANGED <<kinds, require_2fa, invite, logonVars, voiceVars, to_cm,
                   from_cm, cmVars>>

\* ForwardDrops_All is a mutant: a Close is dropped too.
ForwardDrops_All ==
    /\ state = "forward" /\ from_cm # << >>
    /\ from_cm' = Tail(from_cm)
    /\ UNCHANGED <<state, kinds, require_2fa, invite, logonVars, voiceVars,
                   to_cm, cmVars>>

ForwardDrops ==
    /\ state = "forward" /\ from_cm # << >> /\ Head(from_cm).type # "close"
    /\ from_cm' = Tail(from_cm)
    /\ UNCHANGED <<state, kinds, require_2fa, invite, logonVars, voiceVars,
                   to_cm, cmVars>>

\* on_close and the end of the task: the services are told, and the connection
\* manager.  An unanswered chat or a file transfer keeps the entry in its window.
EndConnection(msg) ==
    /\ state' = "ended"
    /\ send_to_cm(msg)
    /\ subs' = {}
    /\ UNCHANGED <<kinds, conn_type, authorized, require_2fa, invite, perms,
                   opts, options_in_login, services_subed, voiceVars, cmVars>>

\* The peer goes or is silent for 30 s, a LoginRequest is refused, or another
\* reason this model does not tell apart.
End ==
    /\ state # "ended"
    /\ \E msg \in {"close", "disconnected"} : EndConnection(msg)
    /\ UNCHANGED from_cm

\* Close, which the user chose; an invitation is declined.
ClosedByCm ==
    /\ state # "ended" /\ from_cm # << >>
    /\ from_cm' = Tail(from_cm)
    /\ \/ /\ Head(from_cm).type = "close" /\ EndConnection("close")
       \/ /\ state = "open" /\ Head(from_cm).type = "invite_response"
          /\ ~Head(from_cm).accepted
          /\ \E msg \in {"close", "disconnected"} : EndConnection(msg)

-----------------------------------------------------------------------------
(* The connection manager. *)

connVars == <<state, kinds, require_2fa, invite, logonVars, voiceVars>>

\* Mutant: the entry stays when the runner ends.
RunnerStep_KeepEntry ==
    /\ runner /\ to_cm # << >> /\ to_cm' = Tail(to_cm)
    /\ LET msg == Head(to_cm) IN
       /\ runner' = (msg \notin {"close", "disconnected"})
       /\ client' = CASE msg \in {"login", "login_authorized"} ->
                            Client(TRUE, msg = "login_authorized")
                      [] OTHER -> client
    /\ UNCHANGED <<connVars, from_cm>>

\* The runner reads the stream.  A Login is the entry anew; the end of the
\* runner takes it away, or marks it.
RunnerStep ==
    /\ runner /\ to_cm # << >> /\ to_cm' = Tail(to_cm)
    /\ LET msg == Head(to_cm) IN
       /\ runner' = (msg \notin {"close", "disconnected"})
       /\ client' = CASE msg \in {"login", "login_authorized"} ->
                            Client(TRUE, msg = "login_authorized")
                      [] msg = "close" -> NoClient
                      [] msg = "disconnected" ->
                            [client EXCEPT !.disconnected = client.shown]
                      [] OTHER -> [client EXCEPT
                            !.incoming = client.shown /\ msg = "voice_incoming",
                            !.in_call = client.shown /\ msg = "voice_start"]
    /\ UNCHANGED <<connVars, from_cm>>

\* The stream breaks, or the connection manager's process is gone.  The
\* connection goes on without it, and may have got what was sent before.
RunnerFails ==
    /\ runner /\ runner' = FALSE
    /\ client' = NoClient /\ to_cm' = << >>
    /\ \E n \in 0..Len(from_cm) : from_cm' = SubSeq(from_cm, 1, n)
    /\ UNCHANGED connVars

Push(msg) == /\ runner => Room(from_cm)
             /\ from_cm' = IF runner THEN Append(from_cm, msg) ELSE from_cm

authorize ==
    /\ client.shown
    /\ client' = [client EXCEPT !.authorized = TRUE]
    /\ Push([type |-> "authorize"])
    /\ UNCHANGED <<connVars, to_cm, runner>>

\* close, switch_permission, handle_incoming_voice_call, close_voice_call and
\* the answers to an invitation.  A call is answered when it is shown to come
\* in, and closed when it is shown to go on.
UserClicks ==
    /\ client.shown
    /\ \/ Push([type |-> "close"])
       \/ \E p \in Perms, b \in BOOLEAN :
             Push([type |-> "permission", name |-> p, enabled |-> b])
       \/ /\ client.incoming
          /\ \E b \in BOOLEAN : Push([type |-> "voice_response", accepted |-> b])
       \/ client.in_call /\ Push([type |-> "voice_close"])
       \/ /\ invite
          /\ \E b \in BOOLEAN : Push([type |-> "invite_response", accepted |-> b])
    /\ UNCHANGED <<connVars, to_cm, cmVars>>

\* remove, once the user dismisses an entry that is marked.
remove ==
    /\ client.shown /\ client.disconnected
    /\ client' = NoClient
    /\ UNCHANGED <<connVars, to_cm, from_cm, runner>>

\* close_incoming: the controlling side of this computer ends the session too.
close_incoming ==
    /\ client.shown
    /\ client' = NoClient
    /\ Push([type |-> "close"])
    /\ UNCHANGED <<connVars, to_cm, runner>>

-----------------------------------------------------------------------------
ConnStep ==
    \/ LoginRequest \/ Auth2fa \/ InviteRequest \/ SwitchSidesResponse
    \/ OptionMessage \/ VoiceCallRequest \/ VoiceCallHangUp
    \/ Authorize \/ SwitchPermission \/ VoiceCallResponse \/ CloseVoiceCall
    \/ InviteAccepted \/ PortForward \/ ForwardDrops \/ End \/ ClosedByCm

CmStep == RunnerStep \/ RunnerFails \/ authorize \/ UserClicks \/ remove
          \/ close_incoming

Next == ConnStep \/ CmStep

Spec == Init /\ [][Next]_vars

FromCmStep ==
    \/ Authorize \/ SwitchPermission \/ VoiceCallResponse \/ CloseVoiceCall
    \/ InviteAccepted \/ ForwardDrops \/ ClosedByCm

\* The runner reads what arrives, and so does the connection's loop: select
\* chooses at random among what is ready.  (Strong, because the bound on the
\* queue may make a handler wait that does not wait in the code.)
FairSpec == Spec /\ WF_vars(RunnerStep) /\ SF_vars(FromCmStep)

-----------------------------------------------------------------------------
(* Properties. *)

\* After try_sub_monitor_services the subscriptions of an open remote control
\* connection follow what the user permits and the peer asks for, on whatever
\* way and in whatever order these were changed (before the login too).
SubscriptionsFollow ==
    (state = "open" /\ services_subed) =>
        /\ \A s \in {"pos", "window_focus", "clipboard", "audio"} :
              s \in subs <=> s \in Wanted(perms, opts)
        /\ "cursor" \in Wanted(perms, opts) => "cursor" \in subs

\* A camera connection is subscribed to the audio service exactly while it is
\* in a voice call with audio permitted and not disabled.
CameraHearsInCall ==
    (state = "open" /\ conn_type = "camera") =>
        ("audio" \in subs <=> voice_calling /\ audio_enabled(perms, opts))

\* When the connection manager has read everything, it shows a call only if
\* there is one, and offers one only if the user's answer will count: without a
\* request the connection drops the answer.
CallIsShown ==
    (state = "open" /\ runner /\ to_cm = << >> /\ client.shown) =>
        /\ client.in_call => voice_calling
        /\ client.incoming => voice_request

\* Before the login there is no call and there are no options, and of the
\* services only those a permission may switch at any time are subscribed: the
\* cursor and, as far as it is permitted, the clipboard.
BeforeLogin ==
    /\ ~authorized =>
          /\ conn_type = "none" /\ opts = {}
          /\ ~services_subed /\ ~voice_request /\ ~voice_calling
          /\ subs \subseteq {"clipboard", "cursor"}
          /\ "clipboard" \in subs => can_sub_clipboard_service(perms, opts)
    /\ services_subed => conn_type = "remote"

\* What is on its way to the connection manager ends with the call as it is.
CallToShow ==
    (state = "open" /\ runner /\ to_cm # << >>) =>
        /\ to_cm[Len(to_cm)] = "voice_start" => voice_calling
        /\ to_cm[Len(to_cm)] = "voice_incoming" => voice_request

\* What the connection, its audio subscription and the connection manager's
\* entry say of a voice call agree, in whatever order requests, answers,
\* hang-ups and permissions cross on the stream.  BeforeLogin and CallToShow
\* say why: the inductive invariant of the proofs.
CallInv == /\ TypeOK /\ BeforeLogin
           /\ CameraHearsInCall /\ CallIsShown /\ CallToShow

\* The connection manager does not go on to show a connection that has ended.
EndIsShown == state = "ended" ~> (~client.shown \/ client.disconnected)

\* The user's Close ends the connection, in the loop of a tunnel too, whatever
\* the peer sends in the meantime; else the stream to the connection manager
\* has failed.
CloseEnds ==
    (\E i \in 1..Len(from_cm) : from_cm[i].type = "close")
        ~> (state = "ended" \/ ~runner)

=============================================================================
