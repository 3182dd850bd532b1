-------------------------- MODULE ConnectionProofs --------------------------
(***************************************************************************)
(* Proofs about Connection, for every set of kinds, permissions and option *)
(* messages and for streams of any bound: what the two programs know of a  *)
(* voice call agrees, and the subscriptions of a remote control connection *)
(* follow what is permitted and asked for.                                 *)
(*                                                                         *)
(* And about AuthedConns, for any number of connections: what they share   *)
(* is released when the last one has gone, and the wallpaper and the print *)
(* service are shared as SharedResource says.                              *)
(***************************************************************************)
EXTENDS Connection, AuthedConns, SequenceTheorems, TLAPS

-----------------------------------------------------------------------------
(* The operators the handlers are built from. *)

\* Which services are wanted, one by one.
LEMMA WantedServices ==
    ASSUME NEW p, NEW o
    PROVE  /\ Wanted(p, o) \subseteq Services
           /\ "cursor" \in Wanted(p, o) <=>
                 peer_keyboard_enabled(p, o) \/ show_remote_cursor(o)
           /\ "pos" \in Wanted(p, o) <=> show_remote_cursor(o)
           /\ "window_focus" \in Wanted(p, o) <=> "follow_remote_window" \in o
           /\ "clipboard" \in Wanted(p, o) <=> can_sub_clipboard_service(p, o)
           /\ "audio" \in Wanted(p, o) <=> audio_enabled(p, o)
  BY DEF Wanted, Services

\* An option a message does not set stays as it was.
LEMMA UnsetStays ==
    ASSUME NEW o \in SUBSET Options, NEW msg, NEW x \in Options,
           msg[x] = "unset"
    PROVE  x \in NewOptions(o, msg) <=> x \in o
  BY DEF NewOptions

\* What a message to the connection manager does to the stream.
LEMMA Sending ==
    ASSUME TypeOK, NEW msg \in ToCm, send_to_cm(msg)
    PROVE  /\ to_cm' \in Seq(ToCm)
           /\ runner => to_cm' # << >> /\ to_cm'[Len(to_cm')] = msg
           /\ ~runner => to_cm' = to_cm
  BY DEF TypeOK, send_to_cm

\* What a message of the connection manager does to the stream.
LEMMA Pushing ==
    ASSUME TypeOK, NEW msg \in FromCm, Push(msg)
    PROVE  from_cm' \in Seq(FromCm)
  BY DEF TypeOK, Push

\* Taking a message off the stream.
LEMMA Taking ==
    ASSUME TypeOK, from_cm # << >>
    PROVE  Head(from_cm) \in FromCm /\ Tail(from_cm) \in Seq(FromCm)
  BY DEF TypeOK

-----------------------------------------------------------------------------
(* The login. *)

\* The subscriptions are those of a remote control connection.
Follows(s, p, o) ==
    /\ \A x \in {"pos", "window_focus", "clipboard", "audio"} :
          x \in s <=> x \in Wanted(p, o)
    /\ "cursor" \in Wanted(p, o) => "cursor" \in s

\* The subscriptions are those of a camera connection.
Hears(s, p, o, calling) == "audio" \in s <=> calling /\ audio_enabled(p, o)

\* Options that arrive change the clipboard subscription whenever they change
\* whether the clipboard is wanted, and so for the other services.
LEMMA OptionsFollow ==
    ASSUME NEW s \in SUBSET Services, NEW p \in SUBSET AllPerms,
           NEW o \in SUBSET Options, NEW msg \in OptionMessages \cup {NoOptions},
           Follows(s, p, o)
    PROVE  LET n == NewOptions(o, msg) IN
           Follows(Subscribe(s, OptionServices("remote", p, n, msg),
                             Wanted(p, n)), p, n)
<1> DEFINE n == NewOptions(o, msg)
           t == OptionServices("remote", p, n, msg)
           r == Subscribe(s, t, Wanted(p, n))
<1>1. \A x \in Options : msg[x] = "unset" => (x \in n <=> x \in o)
  BY UnsetStays
<1>2. \A x : x \in r <=> (x \in s /\ x \notin t) \/ (x \in t /\ x \in Wanted(p, n))
  BY DEF Subscribe
<1>3. msg["show_remote_cursor"] # "unset" => "cursor" \in t /\ "pos" \in t
  BY DEF OptionServices
<1>4. msg["follow_remote_window"] # "unset" => "window_focus" \in t
  BY DEF OptionServices
<1>5. msg["disable_audio"] # "unset" => "audio" \in t
  BY DEF OptionServices, AudioService
<1>6. msg["disable_clipboard"] # "unset" => "clipboard" \in t
  BY DEF OptionServices
<1>7. msg["disable_keyboard"] # "unset" => "clipboard" \in t /\ "cursor" \in t
  BY DEF OptionServices
<1> HIDE DEF n, t, r
<1>8. "pos" \in r <=> "pos" \in Wanted(p, n)
  <2>1. CASE "pos" \in t BY <1>2, <2>1
  <2>2. CASE "pos" \notin t
    <3>1. "show_remote_cursor" \in n <=> "show_remote_cursor" \in o
      BY <1>1, <1>3, <2>2 DEF Options
    <3> QED BY <1>2, <2>2, <3>1, WantedServices DEF Follows, show_remote_cursor
  <2> QED BY <2>1, <2>2
<1>9. "window_focus" \in r <=> "window_focus" \in Wanted(p, n)
  <2>1. CASE "window_focus" \in t BY <1>2, <2>1
  <2>2. CASE "window_focus" \notin t
    <3>1. "follow_remote_window" \in n <=> "follow_remote_window" \in o
      BY <1>1, <1>4, <2>2 DEF Options
    <3> QED BY <1>2, <2>2, <3>1, WantedServices DEF Follows
  <2> QED BY <2>1, <2>2
<1>10. "audio" \in r <=> "audio" \in Wanted(p, n)
  <2>1. CASE "audio" \in t BY <1>2, <2>1
  <2>2. CASE "audio" \notin t
    <3>1. "disable_audio" \in n <=> "disable_audio" \in o
      BY <1>1, <1>5, <2>2 DEF Options
    <3> QED BY <1>2, <2>2, <3>1, WantedServices DEF Follows, audio_enabled
  <2> QED BY <2>1, <2>2
<1>11. "clipboard" \in r <=> "clipboard" \in Wanted(p, n)
  <2>1. CASE "clipboard" \in t BY <1>2, <2>1
  <2>2. CASE "clipboard" \notin t
    <3>1. /\ "disable_clipboard" \in n <=> "disable_clipboard" \in o
          /\ "disable_keyboard" \in n <=> "disable_keyboard" \in o
      BY <1>1, <1>6, <1>7, <2>2 DEF Options
    <3> QED BY <1>2, <2>2, <3>1, WantedServices
            DEF Follows, can_sub_clipboard_service, clipboard_enabled,
                peer_keyboard_enabled
  <2> QED BY <2>1, <2>2
<1>12. "cursor" \in Wanted(p, n) => "cursor" \in r
  <2>1. CASE "cursor" \in t BY <1>2, <2>1
  <2>2. CASE "cursor" \notin t
    <3>1. /\ "show_remote_cursor" \in n <=> "show_remote_cursor" \in o
          /\ "disable_keyboard" \in n <=> "disable_keyboard" \in o
      BY <1>1, <1>3, <1>7, <2>2 DEF Options
    <3> QED BY <1>2, <2>2, <3>1, WantedServices
            DEF Follows, show_remote_cursor, peer_keyboard_enabled
  <2> QED BY <2>1, <2>2
<1>13. Follows(r, p, n) BY <1>8, <1>9, <1>10, <1>11, <1>12 DEF Follows
<1> QED BY <1>13 DEF n, t, r

\* A camera connection goes on to hear the microphone exactly in a call.
LEMMA OptionsHear ==
    ASSUME NEW s \in SUBSET Services, NEW p \in SUBSET AllPerms,
           NEW o \in SUBSET Options, NEW msg \in OptionMessages \cup {NoOptions},
           voice_calling \in BOOLEAN, Hears(s, p, o, voice_calling)
    PROVE  LET n == NewOptions(o, msg) IN
           Hears(Subscribe(s, OptionServices("camera", p, n, msg),
                           Wanted(p, n)), p, n, voice_calling)
<1> DEFINE n == NewOptions(o, msg)
           t == OptionServices("camera", p, n, msg)
           r == Subscribe(s, t, Wanted(p, n))
<1>1. "audio" \in r <=>
        ("audio" \in s /\ "audio" \notin t) \/ ("audio" \in t /\ audio_enabled(p, n))
  BY WantedServices DEF Subscribe
<1>2. "audio" \in t <=>
        msg["disable_audio"] # "unset" /\ (voice_calling \/ ~audio_enabled(p, n))
  BY DEF OptionServices, AudioService
<1>3. msg["disable_audio"] = "unset" =>
        (audio_enabled(p, n) <=> audio_enabled(p, o))
  BY UnsetStays DEF audio_enabled, Options
<1> HIDE DEF n, t, r
<1>4. Hears(r, p, n, voice_calling) BY <1>1, <1>2, <1>3 DEF Hears
<1> QED BY <1>4 DEF n, t, r

\* The subscriptions a remote control connection has after its login: those
\* from before it, corrected for the options, and all that are wanted.
LEMMA LogonFollows ==
    ASSUME CallInv, ~authorized, NEW msg \in OptionMessages \cup {NoOptions}
    PROVE  LET n == NewOptions(opts, msg)
               s == Subscribe(subs, OptionServices("remote", perms, n, msg),
                              Wanted(perms, n)) IN
           Follows(s \cup Wanted(perms, n), perms, n)
<1> DEFINE n == NewOptions(opts, msg)
           t == OptionServices("remote", perms, n, msg)
           s == Subscribe(subs, t, Wanted(perms, n))
<1>1. /\ subs \subseteq {"clipboard", "cursor"} /\ opts = {}
      /\ "clipboard" \in subs => can_sub_clipboard_service(perms, opts)
  BY DEF CallInv, BeforeLogin
<1>2. \A x : x \in s =>
              (x \in subs /\ x \notin t) \/ (x \in t /\ x \in Wanted(perms, n))
  BY DEF Subscribe
<1>3. "clipboard" \in s => "clipboard" \in Wanted(perms, n)
  <2>1. \A x \in {"disable_clipboard", "disable_keyboard"} :
           msg[x] # "unset" => "clipboard" \in t
    BY DEF OptionServices
  <2>2. CASE "clipboard" \in t BY <1>2, <2>2
  <2>3. CASE "clipboard" \notin t
    <3>1. \A x \in {"disable_clipboard", "disable_keyboard"} :
             x \in n <=> x \in opts
      BY <1>1, <2>1, <2>3, UnsetStays DEF Options
    <3> QED BY <1>1, <1>2, <2>3, <3>1, WantedServices
            DEF can_sub_clipboard_service, clipboard_enabled,
                peer_keyboard_enabled
  <2> QED BY <2>2, <2>3
<1> HIDE DEF n, t, s
<1>4. Follows(s \cup Wanted(perms, n), perms, n)
  BY <1>1, <1>2, <1>3 DEF Follows
<1> QED BY <1>4 DEF n, t, s

\* send_logon_response leaves an authorized connection alone; else it makes the
\* connection one whose subscriptions are as its kind wants them.
LEMMA LogonResponse ==
    ASSUME CallInv, state = "open", NEW k \in SUBSET Kinds, NEW tfa \in BOOLEAN,
           NEW login \in OptionMessages \cup {NoOptions},
           send_logon_response(k, login, tfa), UNCHANGED voiceVars
    PROVE  /\ conn_type' \in {"none", "remote", "file", "forward", "camera"}
           /\ authorized' \in BOOLEAN /\ services_subed' \in BOOLEAN
           /\ perms' \subseteq AllPerms /\ opts' \subseteq Options
           /\ options_in_login' \in OptionMessages \cup {NoOptions}
           /\ subs' \subseteq Services
           /\ BeforeLogin'
           /\ conn_type' = "camera" => Hears(subs', perms', opts', voice_calling')
           /\ (services_subed => Follows(subs, perms, opts)) =>
                 (services_subed' => Follows(subs', perms', opts'))
<1>0. TypeOK BY DEF CallInv
<1>1. CASE /\ options_in_login' = login
           /\ UNCHANGED <<authorized, conn_type, perms, opts, subs,
                          services_subed>>
  <2>1. BeforeLogin' BY <1>1 DEF CallInv, BeforeLogin, voiceVars
  <2>2. conn_type' = "camera" => Hears(subs', perms', opts', voice_calling')
    BY <1>1 DEF CallInv, CameraHearsInCall, Hears, voiceVars
  <2> QED BY <1>0, <1>1, <2>1, <2>2 DEF TypeOK
<1>2. CASE ~authorized /\ Logon(k, login)
  <2> DEFINE ty == ConnType(k)
             o == NewOptions(opts, login)
             s == Subscribe(subs, OptionServices(ty, perms, o, login),
                            Wanted(perms, o))
  <2>1. authorized' = TRUE /\ conn_type' = ty
        /\ opts' = o /\ options_in_login' = NoOptions
    BY <1>2 DEF Logon
  <2>2. \/ /\ ty # "file" /\ "camera" \in k
           /\ subs' \in {s, s \cup {"camera"}}
           /\ perms' = perms \ {"keyboard"}
           /\ services_subed' = services_subed
        \/ /\ k = {}
           /\ services_subed' = TRUE
           /\ subs' = s \cup Wanted(perms, o)
           /\ perms' = perms
        \/ /\ ty = "file" \/ "camera" \notin k
           /\ subs' = s
           /\ perms' = perms /\ services_subed' = services_subed
    BY <1>2 DEF Logon
  <2>3. ty \in {"remote", "file", "forward", "camera"} BY DEF ConnType
  <2>4. k = {} => ty = "remote" BY DEF ConnType
  <2>5. ty = "camera" => "camera" \in k BY DEF ConnType
  <2>6. o \subseteq Options BY DEF NewOptions
  <2>7. ~services_subed /\ ~voice_calling /\ "audio" \notin subs
    BY <1>2 DEF CallInv, BeforeLogin
  <2>8. ty = "remote" => Follows(s \cup Wanted(perms, o), perms, o)
    BY <1>2, LogonFollows
  <2>9. ty = "camera" => Hears(s, perms, o, voice_calling)
    <3>1. Hears(subs, perms, opts, voice_calling) BY <2>7 DEF Hears
    <3> QED BY <1>0, <3>1, OptionsHear DEF TypeOK
  <2>10. s \subseteq Services
    BY <1>0, WantedServices DEF TypeOK, Subscribe
  <2> HIDE DEF ty, o, s
  <2>11. subs' \subseteq Services
    BY <2>2, <2>10, WantedServices DEF Services
  <2>12. BeforeLogin' BY <2>1, <2>2, <2>4, <2>7 DEF BeforeLogin
  <2>13. conn_type' = "camera" => Hears(subs', perms', opts', voice_calling')
    <3> SUFFICES ASSUME ty = "camera"
                 PROVE  Hears(subs', perms', o, voice_calling)
      BY <2>1 DEF voiceVars
    <3>1. "audio" \in subs' <=> "audio" \in s BY <2>2, <2>4, <2>5
    <3>2. audio_enabled(perms', o) <=> audio_enabled(perms, o)
      BY <2>2 DEF audio_enabled
    <3> QED BY <2>9, <3>1, <3>2 DEF Hears
  <2>14. services_subed' => Follows(subs', perms', opts')
    BY <2>1, <2>2, <2>4, <2>7, <2>8
  <2> QED BY <1>0, <2>1, <2>2, <2>3, <2>6, <2>11, <2>12, <2>13, <2>14 DEF TypeOK
<1> QED BY <1>1, <1>2 DEF send_logon_response

-----------------------------------------------------------------------------
(* The call as the connection manager shows it. *)

\* A step that sends nothing and changes nothing of the call.
LEMMA SameCall ==
    ASSUME CallInv, UNCHANGED <<voiceVars, cmVars, to_cm>>,
           state' = "open" => state = "open"
    PROVE  CallIsShown' /\ CallToShow'
  BY DEF CallInv, CallIsShown, CallToShow, voiceVars, cmVars

\* A step that sends what it makes of the call.
LEMMA SentCall ==
    ASSUME CallInv, NEW msg \in ToCm, send_to_cm(msg), UNCHANGED cmVars,
           msg = "voice_start" => voice_calling',
           msg = "voice_incoming" => voice_request'
    PROVE  CallIsShown' /\ CallToShow'
<1>1. runner => to_cm' # << >> /\ to_cm'[Len(to_cm')] = msg
  BY Sending DEF CallInv
<1> QED BY <1>1 DEF CallIsShown, CallToShow, cmVars

\* A Login message shows no call.
LEMMA StartCm ==
    ASSUME CallInv, NEW b, try_start_cm(b), UNCHANGED cmVars
    PROVE  to_cm' \in Seq(ToCm) /\ CallIsShown' /\ CallToShow'
<1> DEFINE msg == IF b THEN "login_authorized" ELSE "login"
<1>1. msg \in ToCm /\ send_to_cm(msg) BY DEF try_start_cm, ToCm
<1>2. msg # "voice_start" /\ msg # "voice_incoming" OBVIOUS
<1> HIDE DEF msg
<1> QED BY <1>1, <1>2, Sending, SentCall DEF CallInv

-----------------------------------------------------------------------------
(* The steps. *)

\* Both invariants: the second rests on what the first says of the login.
SubsInv == CallInv /\ SubscriptionsFollow

\* The initial states.
LEMMA InitInv == Init => SubsInv
<1> SUFFICES ASSUME Init PROVE SubsInv OBVIOUS
<1>1. TypeOK
  <2>1. {authorized, require_2fa, invite, services_subed, voice_request,
         voice_calling, runner} \subseteq BOOLEAN
    BY DEF Init
  <2>2. client \in Clients
    BY DEF Init, Client, NoClient, Clients
  <2>3. to_cm \in Seq(ToCm) /\ from_cm \in Seq(FromCm) BY DEF Init
  <2> QED BY <2>1, <2>2, <2>3 DEF Init, TypeOK
<1>2. BeforeLogin /\ CameraHearsInCall /\ CallIsShown /\ CallToShow
  BY DEF Init, BeforeLogin, CameraHearsInCall, CallIsShown, CallToShow, Client,
         NoClient
<1> QED BY <1>1, <1>2 DEF Init, SubsInv, CallInv, SubscriptionsFollow

\* A login that is accepted, in whatever handler: the subscriptions are right.
LEMMA LogonSteps ==
    ASSUME SubsInv, state = "open", NEW k \in SUBSET Kinds, NEW tfa \in BOOLEAN,
           NEW login \in OptionMessages \cup {NoOptions},
           send_logon_response(k, login, tfa), UNCHANGED voiceVars,
           state' \in {"open", "forward"}, kinds' \in SUBSET Kinds,
           require_2fa' \in BOOLEAN, invite' \in BOOLEAN,
           to_cm' \in Seq(ToCm), from_cm' \in Seq(FromCm), UNCHANGED cmVars,
           CallIsShown' /\ CallToShow'
    PROVE  SubsInv'
<1>1. TypeOK /\ CallInv BY DEF SubsInv, CallInv
<1>2. /\ conn_type' \in {"none", "remote", "file", "forward", "camera"}
      /\ authorized' \in BOOLEAN /\ services_subed' \in BOOLEAN
      /\ perms' \subseteq AllPerms /\ opts' \subseteq Options
      /\ options_in_login' \in OptionMessages \cup {NoOptions}
      /\ subs' \subseteq Services
      /\ BeforeLogin'
      /\ conn_type' = "camera" => Hears(subs', perms', opts', voice_calling')
      /\ (services_subed => Follows(subs, perms, opts)) =>
            (services_subed' => Follows(subs', perms', opts'))
  BY <1>1, LogonResponse
<1>3. TypeOK' BY <1>1, <1>2 DEF TypeOK, voiceVars, cmVars
<1>4. CameraHearsInCall' BY <1>2 DEF CameraHearsInCall, Hears
<1>5. SubscriptionsFollow'
  <2>1. services_subed => Follows(subs, perms, opts)
    BY DEF SubsInv, SubscriptionsFollow, Follows
  <2> QED BY <1>2, <2>1 DEF SubscriptionsFollow, Follows
<1> QED BY <1>2, <1>3, <1>4, <1>5 DEF SubsInv, CallInv

\* A handler that leaves the login, the subscriptions and the call alone.
LEMMA QuietSteps ==
    ASSUME SubsInv, state' \in {"open", "forward", "ended"},
           state' = "open" => state = "open",
           kinds' \in SUBSET Kinds, require_2fa' \in BOOLEAN, invite' \in BOOLEAN,
           options_in_login' \in OptionMessages \cup {NoOptions},
           UNCHANGED <<authorized, conn_type, perms, opts, subs, services_subed,
                       voice_calling>>, runner' \in BOOLEAN,
           voice_request' \in BOOLEAN, ~authorized => ~voice_request',
           to_cm' \in Seq(ToCm), from_cm' \in Seq(FromCm),
           client' \in Clients,
           CallIsShown' /\ CallToShow'
    PROVE  SubsInv'
<1> USE DEF SubsInv, CallInv
<1>1. TypeOK' BY DEF TypeOK
<1>2. BeforeLogin' BY DEF BeforeLogin
<1>3. CameraHearsInCall' BY DEF CameraHearsInCall
<1>4. SubscriptionsFollow' BY DEF SubscriptionsFollow
<1> QED BY <1>1, <1>2, <1>3, <1>4

\* A LoginRequest.
LEMMA LoginRequestInv ==
    ASSUME SubsInv, LoginRequest
    PROVE  SubsInv'
<1>0. TypeOK /\ CallInv BY DEF SubsInv, CallInv
<1>1. PICK login \in OptionMessages \cup {options_in_login}, tfa \in BOOLEAN,
           k \in {kinds} \cup {kinds \cup {x} : x \in Kinds} :
        /\ require_2fa' = tfa
        /\ kinds' = IF authorized THEN kinds ELSE k
        /\ \/ /\ options_in_login' = login
              /\ UNCHANGED <<authorized, conn_type, perms, opts, subs,
                             services_subed, to_cm>>
           \/ /\ ~authorized /\ options_in_login' = login
              /\ try_start_cm(FALSE)
              /\ UNCHANGED <<authorized, conn_type, perms, opts, subs,
                             services_subed>>
           \/ /\ ~authorized
              /\ send_logon_response(k, login, tfa)
              /\ try_start_cm(authorized')
  BY DEF LoginRequest
<1>2. k \in SUBSET Kinds /\ kinds' \in SUBSET Kinds BY <1>0, <1>1 DEF TypeOK
<1>3. login \in OptionMessages \cup {NoOptions} BY <1>0, <1>1 DEF TypeOK
<1>4. state = "open" /\ UNCHANGED <<state, invite, voiceVars, from_cm, cmVars>>
  BY DEF LoginRequest
<1>5. /\ require_2fa' \in BOOLEAN
      /\ invite' \in BOOLEAN /\ from_cm' \in Seq(FromCm)
      /\ voice_request' \in BOOLEAN /\ (~authorized => ~voice_request')
      /\ client' \in Clients /\ runner' \in BOOLEAN
  BY <1>0, <1>1, <1>4 DEF TypeOK, CallInv, BeforeLogin, voiceVars, cmVars
<1>6. CASE /\ options_in_login' = login
           /\ UNCHANGED <<authorized, conn_type, perms, opts, subs,
                          services_subed, to_cm>>
  <2>1. CallIsShown' /\ CallToShow' BY <1>0, <1>4, <1>6, SameCall
  <2>2. to_cm' \in Seq(ToCm) BY <1>0, <1>6 DEF TypeOK
  <2>3. options_in_login' \in OptionMessages \cup {NoOptions} BY <1>3, <1>6
  <2>4. UNCHANGED <<authorized, conn_type, perms, opts, subs, services_subed,
                    voice_calling>>
    BY <1>4, <1>6 DEF voiceVars
  <2>5. state' \in {"open", "forward", "ended"} BY <1>4
  <2> QED BY <1>2, <1>4, <1>5, <2>1, <2>2, <2>3, <2>4, <2>5, QuietSteps
<1>7. ASSUME NEW b, try_start_cm(b)
      PROVE  to_cm' \in Seq(ToCm) /\ CallIsShown' /\ CallToShow'
  BY <1>0, <1>4, <1>7, StartCm
<1>8. CASE /\ options_in_login' = login
           /\ try_start_cm(FALSE)
           /\ UNCHANGED <<authorized, conn_type, perms, opts, subs,
                          services_subed>>
  <2>1. to_cm' \in Seq(ToCm) /\ CallIsShown' /\ CallToShow' BY <1>7, <1>8
  <2>2. options_in_login' \in OptionMessages \cup {NoOptions} BY <1>3, <1>8
  <2>3. UNCHANGED <<authorized, conn_type, perms, opts, subs, services_subed,
                    voice_calling>>
    BY <1>4, <1>8 DEF voiceVars
  <2>4. state' \in {"open", "forward", "ended"} BY <1>4
  <2> QED BY <1>2, <1>4, <1>5, <2>1, <2>2, <2>3, <2>4, QuietSteps
<1>9. CASE send_logon_response(k, login, tfa) /\ try_start_cm(authorized')
  BY <1>1, <1>2, <1>3, <1>4, <1>5, <1>7, <1>9, LogonSteps
<1> QED BY <1>1, <1>6, <1>8, <1>9

\* The other handlers that end in send_logon_response.
LEMMA OtherLogons ==
    ASSUME SubsInv, Auth2fa \/ SwitchSidesResponse \/ Authorize
    PROVE  SubsInv'
<1>0. TypeOK /\ CallInv BY DEF SubsInv, CallInv
<1>1. /\ kinds \in SUBSET Kinds /\ require_2fa \in BOOLEAN /\ invite \in BOOLEAN
      /\ options_in_login \in OptionMessages \cup {NoOptions}
      /\ to_cm \in Seq(ToCm) /\ from_cm \in Seq(FromCm)
  BY <1>0 DEF TypeOK
<1>2. CASE Auth2fa
  <2>1. /\ state = "open" /\ require_2fa' = FALSE
        /\ send_logon_response(kinds, options_in_login, FALSE)
        /\ try_start_cm(authorized')
        /\ UNCHANGED <<state, kinds, invite, voiceVars, from_cm, cmVars>>
    BY <1>2 DEF Auth2fa
  <2>2. to_cm' \in Seq(ToCm) /\ CallIsShown' /\ CallToShow'
    BY <1>0, <2>1, StartCm
  <2> QED BY <1>1, <2>1, <2>2, LogonSteps
<1>3. CASE SwitchSidesResponse
  <2>1. PICK login \in OptionMessages \cup {options_in_login} :
          send_logon_response(kinds, login, FALSE)
    BY <1>3 DEF SwitchSidesResponse
  <2>2. /\ state = "open" /\ try_start_cm(TRUE)
        /\ UNCHANGED <<state, kinds, require_2fa, invite, voiceVars, from_cm,
                       cmVars>>
    BY <1>3 DEF SwitchSidesResponse
  <2>3. to_cm' \in Seq(ToCm) /\ CallIsShown' /\ CallToShow'
    BY <1>0, <2>2, StartCm
  <2>4. login \in OptionMessages \cup {NoOptions} BY <1>1, <2>1
  <2> QED BY <1>1, <2>1, <2>2, <2>3, <2>4, LogonSteps
<1>4. CASE Authorize
  <2>1. /\ state = "open" /\ from_cm # << >> /\ from_cm' = Tail(from_cm)
        /\ require_2fa' = FALSE
        /\ send_logon_response(kinds, options_in_login, FALSE)
        /\ state' \in {"open", "forward"}
        /\ UNCHANGED <<kinds, invite, voiceVars, to_cm, cmVars>>
    BY <1>4 DEF Authorize, Received
  <2>2. CallIsShown' /\ CallToShow' BY <1>0, <2>1, SameCall
  <2>3. from_cm' \in Seq(FromCm) BY <1>0, <2>1, Taking
  <2> QED BY <1>1, <2>1, <2>2, <2>3, LogonSteps
<1> QED BY <1>2, <1>3, <1>4

\* Handlers that change neither the login nor a subscription.
LEMMA QuietHandlers ==
    ASSUME SubsInv,
           InviteRequest \/ VoiceCallRequest \/ InviteAccepted \/ PortForward
             \/ ForwardDrops
    PROVE  SubsInv'
<1>0. TypeOK /\ CallInv BY DEF SubsInv, CallInv
<1>1. /\ kinds \in SUBSET Kinds /\ require_2fa \in BOOLEAN /\ invite \in BOOLEAN
      /\ options_in_login \in OptionMessages \cup {NoOptions}
      /\ to_cm \in Seq(ToCm) /\ from_cm \in Seq(FromCm)
      /\ state \in {"open", "forward", "ended"} /\ client \in Clients
      /\ runner \in BOOLEAN /\ voice_request \in BOOLEAN
      /\ (~authorized => ~voice_request)
  BY <1>0 DEF TypeOK, CallInv, BeforeLogin
<1>2. CASE InviteRequest
  <2>1. /\ invite' = TRUE /\ try_start_cm(FALSE)
        /\ UNCHANGED <<state, kinds, require_2fa, logonVars, voiceVars, from_cm,
                       cmVars>>
    BY <1>2 DEF InviteRequest
  <2>2. to_cm' \in Seq(ToCm) /\ CallIsShown' /\ CallToShow'
    BY <1>0, <2>1, StartCm
  <2> QED BY <1>1, <2>1, <2>2, QuietSteps DEF logonVars, voiceVars, cmVars
<1>3. CASE VoiceCallRequest
  <2>1. /\ authorized /\ voice_request' = TRUE /\ send_to_cm("voice_incoming")
        /\ UNCHANGED <<state, kinds, require_2fa, invite, logonVars,
                       voice_calling, from_cm, cmVars>>
    BY <1>3 DEF VoiceCallRequest, Authorized
  <2>2. "voice_incoming" \in ToCm BY DEF ToCm
  <2>3. to_cm' \in Seq(ToCm) BY <1>0, <2>1, <2>2, Sending
  <2>4. CallIsShown' /\ CallToShow' BY <1>0, <2>1, <2>2, SentCall
  <2> QED BY <1>1, <2>1, <2>3, <2>4, QuietSteps DEF logonVars, cmVars
<1>4. CASE InviteAccepted \/ PortForward \/ ForwardDrops
  <2>1. /\ state' = state \/ state' = "forward"
        /\ UNCHANGED <<kinds, require_2fa, invite, logonVars, voiceVars, to_cm,
                       cmVars>>
        /\ \/ from_cm' = from_cm
           \/ from_cm # << >> /\ from_cm' = Tail(from_cm)
    BY <1>4 DEF InviteAccepted, PortForward, ForwardDrops, Received
  <2>2. CallIsShown' /\ CallToShow' BY <1>0, <2>1, SameCall
  <2>3. from_cm' \in Seq(FromCm) BY <1>0, <1>1, <2>1, Taking
  <2> QED BY <1>1, <2>1, <2>2, <2>3, QuietSteps DEF logonVars, voiceVars, cmVars
<1> QED BY <1>2, <1>3, <1>4

-----------------------------------------------------------------------------
(* Permissions, options and calls. *)

\* A handler that changes what is permitted, asked for, subscribed or called
\* has to leave the subscriptions right for the kind of connection.
LEMMA AccessSteps ==
    ASSUME SubsInv, state = "open",
           UNCHANGED <<state, kinds, conn_type, authorized, require_2fa, invite,
                       options_in_login, services_subed, cmVars>>,
           perms' \subseteq AllPerms, opts' \subseteq Options,
           subs' \subseteq Services, voice_request' \in BOOLEAN,
           voice_calling' \in BOOLEAN, to_cm' \in Seq(ToCm),
           from_cm' \in Seq(FromCm), BeforeLogin', CallIsShown' /\ CallToShow',
           conn_type = "camera" => Hears(subs', perms', opts', voice_calling'),
           services_subed => Follows(subs', perms', opts')
    PROVE  SubsInv'
<1> USE DEF SubsInv, CallInv
<1>1. TypeOK' BY DEF TypeOK, cmVars
<1>2. CameraHearsInCall' BY DEF CameraHearsInCall, Hears
<1>3. SubscriptionsFollow' BY DEF SubscriptionsFollow, Follows
<1> QED BY <1>1, <1>2, <1>3

\* What such a handler starts from.
LEMMA AccessBefore ==
    ASSUME SubsInv, state = "open"
    PROVE  /\ TypeOK /\ CallInv
           /\ conn_type = "camera" => Hears(subs, perms, opts, voice_calling)
           /\ services_subed => Follows(subs, perms, opts)
           /\ services_subed => conn_type = "remote"
           /\ conn_type # "none" => authorized
<1> USE DEF SubsInv, CallInv
<1>1. conn_type = "camera" => Hears(subs, perms, opts, voice_calling)
  BY DEF CameraHearsInCall, Hears
<1>2. services_subed => Follows(subs, perms, opts)
  BY DEF SubscriptionsFollow, Follows
<1> QED BY <1>1, <1>2 DEF BeforeLogin

\* Options of an authorized peer.
LEMMA OptionMessageInv ==
    ASSUME SubsInv, OptionMessage
    PROVE  SubsInv'
<1>1. PICK msg \in OptionMessages : update_options(msg) BY DEF OptionMessage
<1>2. /\ state = "open" /\ authorized
      /\ UNCHANGED <<state, kinds, conn_type, authorized, require_2fa, invite,
                     perms, options_in_login, services_subed, voiceVars, to_cm,
                     from_cm, cmVars>>
  BY DEF OptionMessage, Authorized
<1>3. /\ TypeOK /\ CallInv
      /\ conn_type = "camera" => Hears(subs, perms, opts, voice_calling)
      /\ services_subed => Follows(subs, perms, opts)
      /\ services_subed => conn_type = "remote"
  BY <1>2, AccessBefore
<1>4. CallIsShown' /\ CallToShow' BY <1>2, <1>3, SameCall
<1>5. /\ opts' = NewOptions(opts, msg)
      /\ subs' = Subscribe(subs, OptionServices(conn_type, perms, opts', msg),
                           Wanted(perms, opts'))
  BY <1>1 DEF update_options
<1>6. /\ subs \in SUBSET Services /\ perms \in SUBSET AllPerms
      /\ opts \in SUBSET Options /\ voice_calling \in BOOLEAN
  BY <1>3 DEF TypeOK
<1>7. conn_type = "camera" => Hears(subs', perms', opts', voice_calling')
  BY <1>2, <1>3, <1>5, <1>6, OptionsHear DEF voiceVars
<1>8. services_subed => Follows(subs', perms', opts')
  BY <1>2, <1>3, <1>5, <1>6, OptionsFollow
<1>9. opts' \subseteq Options BY <1>5 DEF NewOptions
<1>10. subs' \subseteq Services BY <1>5, <1>6, WantedServices DEF Subscribe
<1>11. BeforeLogin' BY <1>2, <1>3 DEF BeforeLogin, CallInv
<1> QED BY <1>2, <1>3, <1>4, <1>7, <1>8, <1>9, <1>10, <1>11, AccessSteps
        DEF TypeOK, voiceVars

\* A permission the user switches, before or after the login.
LEMMA SwitchPermissionInv ==
    ASSUME SubsInv, SwitchPermission
    PROVE  SubsInv'
<1> DEFINE name == Head(from_cm).name
           on == Head(from_cm).enabled
           cursor == IF name = "keyboard" /\ on THEN {"cursor"} ELSE {}
           t == PermissionServices(name, perms')
<1>1. /\ state = "open" /\ from_cm # << >> /\ Head(from_cm).type = "permission"
      /\ from_cm' = Tail(from_cm)
      /\ UNCHANGED <<state, kinds, conn_type, authorized, require_2fa, invite,
                     opts, options_in_login, services_subed, voiceVars, to_cm,
                     cmVars>>
  BY DEF SwitchPermission, Received
<1>2. /\ perms' = IF on THEN perms \cup {name} ELSE perms \ {name}
      /\ subs' = Subscribe(subs, t, Wanted(perms', opts) \cup cursor)
  BY DEF SwitchPermission
<1>3. /\ TypeOK /\ CallInv
      /\ conn_type = "camera" => Hears(subs, perms, opts, voice_calling)
      /\ services_subed => Follows(subs, perms, opts)
      /\ services_subed => conn_type = "remote"
      /\ conn_type # "none" => authorized
  BY <1>1, AccessBefore
<1>4. name \in AllPerms /\ from_cm' \in Seq(FromCm)
  <2>1. Head(from_cm) \in FromCm /\ Tail(from_cm) \in Seq(FromCm)
    BY <1>1, <1>3, Taking
  <2>2. Head(from_cm) \in [type : {"permission"}, name : Perms, enabled : BOOLEAN]
    BY <1>1, <2>1 DEF FromCm
  <2> QED BY <1>1, <2>1, <2>2, ConnectionAssumption
<1>5. CallIsShown' /\ CallToShow' BY <1>1, <1>3, SameCall
<1>6. /\ subs \in SUBSET Services /\ perms \in SUBSET AllPerms
      /\ opts \in SUBSET Options /\ voice_calling \in BOOLEAN
  BY <1>3 DEF TypeOK
<1>7. /\ name = "keyboard" => t = {"clipboard", "cursor"}
      /\ name = "clipboard" => t = {"clipboard"}
      /\ name = "audio" =>
            t = IF ~authorized THEN {}
                ELSE IF conn_type = "camera" /\ ~voice_calling
                        /\ audio_enabled(perms', opts)
                THEN {} ELSE {"audio"}
  BY DEF PermissionServices, AudioService
<1>8. name \in {"keyboard", "clipboard", "audio"} BY <1>4 DEF AllPerms
<1>9. \A x : x \in subs' <=> \/ x \in subs /\ x \notin t
                             \/ x \in t /\ (x \in Wanted(perms', opts)
                                            \/ x \in cursor)
  BY <1>2 DEF Subscribe
<1>10. \A x : x \in cursor => x = "cursor" OBVIOUS
<1>11. \A x : x # name => (x \in perms' <=> x \in perms) BY <1>2
<1> HIDE DEF name, on, cursor, t
<1>12. name # "audio" => (audio_enabled(perms', opts) <=> audio_enabled(perms, opts))
  BY <1>11 DEF audio_enabled
<1>13. name = "audio" => /\ can_sub_clipboard_service(perms', opts) <=>
                              can_sub_clipboard_service(perms, opts)
                         /\ peer_keyboard_enabled(perms', opts) <=>
                              peer_keyboard_enabled(perms, opts)
  BY <1>11 DEF can_sub_clipboard_service, clipboard_enabled,
               peer_keyboard_enabled
<1>14. name # "keyboard" => (peer_keyboard_enabled(perms', opts) <=>
                              peer_keyboard_enabled(perms, opts))
  BY <1>11 DEF peer_keyboard_enabled
<1>15. conn_type = "camera" => Hears(subs', perms', opts', voice_calling')
  <2> SUFFICES ASSUME conn_type = "camera"
               PROVE  Hears(subs', perms', opts, voice_calling)
    BY <1>1 DEF voiceVars
  <2>1. CASE name = "audio"
    BY <1>3, <1>7, <1>9, <1>10, <2>1, WantedServices DEF Hears
  <2>2. CASE name # "audio"
    <3>1. "audio" \in subs' <=> "audio" \in subs BY <1>7, <1>8, <1>9, <2>2
    <3> QED BY <1>3, <1>12, <2>2, <3>1 DEF Hears
  <2> QED BY <2>1, <2>2
<1>16. services_subed => Follows(subs', perms', opts')
  <2> SUFFICES ASSUME services_subed PROVE Follows(subs', perms', opts)
    BY <1>1
  <2>1. conn_type = "remote" /\ authorized BY <1>3
  <2>2. Follows(subs, perms, opts) BY <1>3
  <2>3. /\ "pos" \in Wanted(perms', opts) <=> "pos" \in Wanted(perms, opts)
        /\ "window_focus" \in Wanted(perms', opts) <=>
              "window_focus" \in Wanted(perms, opts)
    BY WantedServices
  <2>4. CASE name = "keyboard"
    <3>1. t = {"clipboard", "cursor"} BY <1>7, <2>4
    <3>2. "audio" \in Wanted(perms', opts) <=> "audio" \in Wanted(perms, opts)
      BY <1>12, <2>4, WantedServices
    <3> QED BY <1>9, <1>10, <2>2, <2>3, <3>1, <3>2 DEF Follows
  <2>5. CASE name = "clipboard"
    <3>1. t = {"clipboard"} BY <1>7, <2>5
    <3>2. /\ "audio" \in Wanted(perms', opts) <=> "audio" \in Wanted(perms, opts)
          /\ "cursor" \in Wanted(perms', opts) <=> "cursor" \in Wanted(perms, opts)
      BY <1>12, <1>14, <2>5, WantedServices
    <3> QED BY <1>9, <1>10, <2>2, <2>3, <3>1, <3>2 DEF Follows
  <2>6. CASE name = "audio"
    <3>1. t = {"audio"} BY <1>7, <2>1, <2>6
    <3>2. /\ "clipboard" \in Wanted(perms', opts) <=>
                "clipboard" \in Wanted(perms, opts)
          /\ "cursor" \in Wanted(perms', opts) <=> "cursor" \in Wanted(perms, opts)
      BY <1>13, <2>6, WantedServices
    <3> QED BY <1>9, <1>10, <2>2, <2>3, <3>1, <3>2 DEF Follows
  <2> QED BY <1>8, <2>4, <2>5, <2>6
<1>17. perms' \subseteq AllPerms BY <1>2, <1>4, <1>6
<1>18. subs' \subseteq Services
  <2>1. \A x : x \in Wanted(perms', opts) => x \in Services BY WantedServices
  <2> QED BY <1>6, <1>9, <1>10, <2>1 DEF Services
<1>19. BeforeLogin'
  <2>1. services_subed' => conn_type' = "remote" BY <1>1, <1>3
  <2> SUFFICES ASSUME ~authorized
               PROVE  /\ conn_type = "none" /\ opts = {}
                      /\ ~services_subed /\ ~voice_request /\ ~voice_calling
                      /\ subs' \subseteq {"clipboard", "cursor"}
                      /\ "clipboard" \in subs' =>
                            can_sub_clipboard_service(perms', opts)
    BY <1>1, <2>1 DEF BeforeLogin, voiceVars
  <2>2. /\ conn_type = "none" /\ opts = {}
        /\ ~services_subed /\ ~voice_request /\ ~voice_calling
        /\ subs \subseteq {"clipboard", "cursor"}
        /\ "clipboard" \in subs => can_sub_clipboard_service(perms, opts)
    BY <1>3 DEF CallInv, BeforeLogin
  <2>3. t \subseteq {"clipboard", "cursor"} BY <1>7, <1>8
  <2>4. subs' \subseteq {"clipboard", "cursor"} BY <1>9, <2>2, <2>3
  <2>5. "clipboard" \in subs' => can_sub_clipboard_service(perms', opts)
    <3>1. CASE "clipboard" \in t BY <1>9, <1>10, <3>1, WantedServices
    <3>2. CASE "clipboard" \notin t
      <4>1. name = "audio" BY <1>7, <1>8, <3>2
      <4> QED BY <1>9, <1>13, <2>2, <3>2, <4>1
    <3> QED BY <3>1, <3>2
  <2> QED BY <2>2, <2>4, <2>5
<1>20. /\ to_cm' \in Seq(ToCm) /\ opts' \subseteq Options
       /\ voice_request' \in BOOLEAN /\ voice_calling' \in BOOLEAN
  BY <1>1, <1>3 DEF TypeOK, voiceVars
<1> QED BY <1>1, <1>4, <1>5, <1>15, <1>16, <1>17, <1>18, <1>19, <1>20,
           AccessSteps

\* A call is hung up, by the peer or in the connection manager.
LEMMA CloseCallInv ==
    ASSUME SubsInv, VoiceCallHangUp \/ CloseVoiceCall
    PROVE  SubsInv'
<1>1. /\ state = "open" /\ close_voice_call
      /\ UNCHANGED <<state, kinds, conn_type, authorized, require_2fa, invite,
                     perms, opts, options_in_login, services_subed,
                     voice_request, cmVars>>
      /\ \/ from_cm' = from_cm
         \/ from_cm # << >> /\ from_cm' = Tail(from_cm)
  BY DEF VoiceCallHangUp, CloseVoiceCall, Authorized, Received
<1>2. /\ TypeOK /\ CallInv
      /\ conn_type = "camera" => Hears(subs, perms, opts, voice_calling)
      /\ services_subed => Follows(subs, perms, opts)
      /\ services_subed => conn_type = "remote"
  BY <1>1, AccessBefore
<1>3. /\ send_to_cm("voice_close") /\ voice_calling' = FALSE
      /\ subs' = IF conn_type = "camera" THEN subs \ {"audio"} ELSE subs
  BY <1>1 DEF close_voice_call
<1>4. "voice_close" \in ToCm BY DEF ToCm
<1>5. CallIsShown' /\ CallToShow' BY <1>1, <1>2, <1>3, <1>4, SentCall
<1>6. to_cm' \in Seq(ToCm) BY <1>2, <1>3, <1>4, Sending
<1>7. from_cm' \in Seq(FromCm) BY <1>1, <1>2, Taking DEF TypeOK
<1>8. conn_type = "camera" => Hears(subs', perms', opts', voice_calling')
  BY <1>3 DEF Hears
<1>9. services_subed => Follows(subs', perms', opts')
  BY <1>1, <1>2, <1>3
<1>10. /\ subs' \subseteq Services /\ perms' \subseteq AllPerms
       /\ opts' \subseteq Options /\ voice_request' \in BOOLEAN
       /\ voice_calling' \in BOOLEAN
  BY <1>1, <1>2, <1>3 DEF TypeOK
<1>11. BeforeLogin'
  BY <1>1, <1>2, <1>3 DEF CallInv, BeforeLogin
<1> QED BY <1>1, <1>5, <1>6, <1>7, <1>8, <1>9, <1>10, <1>11, AccessSteps

\* The user answers a call that came in, or one that is gone.
LEMMA VoiceCallResponseInv ==
    ASSUME SubsInv, VoiceCallResponse
    PROVE  SubsInv'
<1> DEFINE accepted == Head(from_cm).accepted
           msg == IF accepted THEN "voice_start" ELSE "voice_close"
<1>1. /\ state = "open" /\ from_cm # << >>
      /\ Head(from_cm).type = "voice_response" /\ from_cm' = Tail(from_cm)
      /\ UNCHANGED <<state, kinds, conn_type, authorized, require_2fa, invite,
                     perms, opts, options_in_login, services_subed, cmVars>>
  BY DEF VoiceCallResponse, Received
<1>2. /\ TypeOK /\ CallInv
      /\ conn_type = "camera" => Hears(subs, perms, opts, voice_calling)
      /\ services_subed => Follows(subs, perms, opts)
      /\ services_subed => conn_type = "remote"
  BY <1>1, AccessBefore
<1>3. accepted \in BOOLEAN /\ from_cm' \in Seq(FromCm)
  <2>1. Head(from_cm) \in FromCm /\ Tail(from_cm) \in Seq(FromCm)
    BY <1>1, <1>2, Taking
  <2>2. Head(from_cm) \in [type : {"voice_response", "invite_response"},
                           accepted : BOOLEAN]
    BY <1>1, <2>1 DEF FromCm
  <2> QED BY <1>1, <2>1, <2>2
<1>4. \/ /\ voice_request /\ voice_request' = FALSE /\ voice_calling' = accepted
         /\ send_to_cm(msg)
         /\ subs' = IF conn_type = "camera"
                    THEN Subscribe(subs, {"audio"},
                             IF accepted THEN Wanted(perms, opts) ELSE {})
                    ELSE subs
      \/ ~voice_request /\ UNCHANGED <<voiceVars, to_cm, subs>>
  BY DEF VoiceCallResponse
<1>5. perms' \subseteq AllPerms /\ opts' \subseteq Options
  BY <1>1, <1>2 DEF TypeOK
<1>6. CASE ~voice_request /\ UNCHANGED <<voiceVars, to_cm, subs>>
  <2>1. CallIsShown' /\ CallToShow' BY <1>1, <1>2, <1>6, SameCall
  <2>2. BeforeLogin' BY <1>1, <1>2, <1>6 DEF CallInv, BeforeLogin, voiceVars
  <2>3. /\ subs' \subseteq Services /\ to_cm' \in Seq(ToCm)
        /\ voice_request' \in BOOLEAN /\ voice_calling' \in BOOLEAN
    BY <1>2, <1>6 DEF TypeOK, voiceVars
  <2>4. conn_type = "camera" => Hears(subs', perms', opts', voice_calling')
    BY <1>1, <1>2, <1>6 DEF voiceVars
  <2>5. services_subed => Follows(subs', perms', opts')
    BY <1>1, <1>2, <1>6
  <2> QED BY <1>1, <1>3, <1>5, <2>1, <2>2, <2>3, <2>4, <2>5, AccessSteps
<1>7. CASE /\ voice_request /\ voice_request' = FALSE
           /\ voice_calling' = accepted /\ send_to_cm(msg)
           /\ subs' = IF conn_type = "camera"
                      THEN Subscribe(subs, {"audio"},
                               IF accepted THEN Wanted(perms, opts) ELSE {})
                      ELSE subs
  <2>1. msg \in ToCm BY DEF ToCm
  <2>2. /\ msg = "voice_start" => accepted
        /\ msg # "voice_incoming"
    BY <1>3
  <2>3. to_cm' \in Seq(ToCm) BY <1>2, <1>7, <2>1, Sending
  <2>4. "audio" \in Wanted(perms, opts) <=> audio_enabled(perms, opts)
    BY WantedServices
  <2>5. Wanted(perms, opts) \subseteq Services BY WantedServices
  <2> HIDE DEF accepted, msg
  <2>6. CallIsShown' /\ CallToShow'
    BY <1>1, <1>2, <1>7, <2>1, <2>2, SentCall
  <2>7. authorized BY <1>2, <1>7 DEF CallInv, BeforeLogin
  <2>8. BeforeLogin' BY <1>1, <1>2, <2>7 DEF CallInv, BeforeLogin
  <2>9. subs' \subseteq Services BY <1>2, <1>7, <2>5 DEF TypeOK, Subscribe
  <2>10. conn_type = "camera" => Hears(subs', perms', opts', voice_calling')
    <3> SUFFICES ASSUME conn_type = "camera"
                 PROVE  Hears(subs', perms, opts, accepted)
      BY <1>1, <1>7
    <3>1. CASE accepted BY <1>7, <2>4, <3>1 DEF Hears, Subscribe
    <3>2. CASE ~accepted BY <1>7, <3>2 DEF Hears, Subscribe
    <3> QED BY <3>1, <3>2
  <2>11. services_subed => Follows(subs', perms', opts')
    BY <1>1, <1>2, <1>7
  <2>12. voice_request' \in BOOLEAN /\ voice_calling' \in BOOLEAN BY <1>3, <1>7
  <2> QED BY <1>1, <1>3, <1>5, <2>3, <2>6, <2>8, <2>9, <2>10, <2>11, <2>12,
             AccessSteps
<1> QED BY <1>4, <1>6, <1>7

\* The connection ends.
LEMMA EndInv ==
    ASSUME SubsInv, End \/ ClosedByCm
    PROVE  SubsInv'
<1>0. TypeOK BY DEF SubsInv, CallInv
<1>1. PICK msg \in {"close", "disconnected"} : EndConnection(msg)
  BY DEF End, ClosedByCm
<1>2. /\ state' = "ended" /\ send_to_cm(msg) /\ subs' = {}
      /\ UNCHANGED <<kinds, conn_type, authorized, require_2fa, invite, perms,
                     opts, options_in_login, services_subed, voiceVars, cmVars>>
  BY <1>1 DEF EndConnection
<1>3. to_cm' \in Seq(ToCm) BY <1>0, <1>2, Sending DEF ToCm
<1>4. from_cm' \in Seq(FromCm)
  BY <1>0, Taking DEF End, ClosedByCm, TypeOK
<1>5. TypeOK' BY <1>0, <1>2, <1>3, <1>4 DEF TypeOK, voiceVars, cmVars
<1>6. BeforeLogin' BY <1>2 DEF SubsInv, CallInv, BeforeLogin, voiceVars
<1>7. CameraHearsInCall' /\ CallIsShown' /\ CallToShow' /\ SubscriptionsFollow'
  BY <1>2 DEF CameraHearsInCall, CallIsShown, CallToShow, SubscriptionsFollow
<1> QED BY <1>5, <1>6, <1>7 DEF SubsInv, CallInv

-----------------------------------------------------------------------------
(* The connection manager. *)

\* A step of the connection manager changes the stream and the entry only.
LEMMA CmSteps ==
    ASSUME SubsInv, UNCHANGED connVars, runner' \in BOOLEAN,
           to_cm' \in Seq(ToCm), from_cm' \in Seq(FromCm), client' \in Clients,
           CallIsShown' /\ CallToShow'
    PROVE  SubsInv'
<1>1. /\ UNCHANGED <<state, kinds, require_2fa, invite, logonVars, voiceVars>>
  BY DEF connVars
<1>2. /\ kinds' \in SUBSET Kinds /\ require_2fa' \in BOOLEAN
      /\ invite' \in BOOLEAN /\ voice_request' \in BOOLEAN
      /\ options_in_login' \in OptionMessages \cup {NoOptions}
      /\ state' \in {"open", "forward", "ended"}
      /\ (~authorized => ~voice_request')
  BY <1>1 DEF SubsInv, CallInv, TypeOK, BeforeLogin, logonVars, voiceVars
<1> QED BY <1>1, <1>2, QuietSteps DEF logonVars, voiceVars

\* NoClient and every new entry are entries that show no call.
LEMMA NewClients ==
    ASSUME NEW shown \in BOOLEAN, NEW auth \in BOOLEAN
    PROVE  /\ Client(shown, auth) \in Clients
           /\ ~Client(shown, auth).incoming /\ ~Client(shown, auth).in_call
  BY DEF Client, Clients

\* The runner's last message from the connection is the call as it is.
LEMMA RunnerStepInv ==
    ASSUME SubsInv, RunnerStep
    PROVE  SubsInv'
<1> DEFINE msg == Head(to_cm)
<1>0. TypeOK /\ CallInv BY DEF SubsInv, CallInv
<1>1. /\ runner /\ to_cm # << >> /\ to_cm' = Tail(to_cm)
      /\ runner' = (msg \notin {"close", "disconnected"})
      /\ client' = CASE msg \in {"login", "login_authorized"} ->
                           Client(TRUE, msg = "login_authorized")
                     [] msg = "close" -> NoClient
                     [] msg = "disconnected" ->
                           [client EXCEPT !.disconnected = client.shown]
                     [] OTHER -> [client EXCEPT
                           !.incoming = client.shown /\ msg = "voice_incoming",
                           !.in_call = client.shown /\ msg = "voice_start"]
      /\ UNCHANGED <<connVars, from_cm>>
  BY DEF RunnerStep
<1>2. UNCHANGED <<state, voice_calling, voice_request>>
  BY <1>1 DEF connVars, voiceVars
<1>3. to_cm \in Seq(ToCm) /\ client \in Clients BY <1>0 DEF TypeOK
<1>4. /\ to_cm' \in Seq(ToCm) /\ from_cm' \in Seq(FromCm)
      /\ msg \in ToCm /\ runner' \in BOOLEAN
  BY <1>0, <1>1, <1>3 DEF TypeOK
<1>5. /\ to_cm' # << >> => to_cm'[Len(to_cm')] = to_cm[Len(to_cm)]
      /\ to_cm' = << >> => to_cm[Len(to_cm)] = msg
  BY <1>1, <1>3
<1> HIDE DEF msg
<1>6. /\ client' \in Clients
      /\ runner' => /\ client'.incoming => msg = "voice_incoming"
                    /\ client'.in_call => msg = "voice_start"
  <2>1. CASE msg \in {"login", "login_authorized"}
    <3> DEFINE auth == msg = "login_authorized"
    <3>1. client' = Client(TRUE, auth) BY <1>1, <2>1
    <3>2. auth \in BOOLEAN OBVIOUS
    <3> HIDE DEF auth
    <3> QED BY <3>1, <3>2, NewClients
  <2>2. CASE msg \notin {"login", "login_authorized", "close", "disconnected"}
    <3>1. client' = [client EXCEPT
                       !.incoming = client.shown /\ msg = "voice_incoming",
                       !.in_call = client.shown /\ msg = "voice_start"]
      BY <1>1, <2>2
    <3>2. client.shown \in BOOLEAN BY <1>3 DEF Clients
    <3>3. client' \in Clients BY <1>3, <3>1, <3>2 DEF Clients
    <3>4. client'.incoming = (client.shown /\ msg = "voice_incoming")
      BY <1>3, <3>1 DEF Clients
    <3>5. client'.in_call = (client.shown /\ msg = "voice_start")
      BY <1>3, <3>1 DEF Clients
    <3> QED BY <3>3, <3>4, <3>5
  <2>3. CASE msg \in {"close", "disconnected"}
    <3>1. client' \in Clients
      BY <1>1, <1>3, <2>3, NewClients DEF NoClient, Clients
    <3> QED BY <1>1, <2>3, <3>1
  <2> QED BY <2>1, <2>2, <2>3
<1>7. CallIsShown' /\ CallToShow'
  BY <1>0, <1>1, <1>2, <1>5, <1>6 DEF CallInv, CallIsShown, CallToShow
<1> QED BY <1>1, <1>4, <1>6, <1>7, CmSteps

\* The stream fails; what was sent before may still arrive.
LEMMA RunnerFailsInv ==
    ASSUME SubsInv, RunnerFails
    PROVE  SubsInv'
<1>1. /\ runner' = FALSE /\ client' = NoClient /\ to_cm' = << >>
      /\ UNCHANGED connVars
  BY DEF RunnerFails
<1>2. from_cm' \in Seq(FromCm)
  <2>1. from_cm \in Seq(FromCm) BY DEF SubsInv, CallInv, TypeOK
  <2>2. PICK n \in 0 .. Len(from_cm) : from_cm' = SubSeq(from_cm, 1, n)
    BY DEF RunnerFails
  <2> QED BY <2>1, <2>2, SubSeqProperties
<1>3. client' \in Clients BY <1>1, NewClients DEF NoClient
<1>4. CallIsShown' /\ CallToShow' BY <1>1 DEF CallIsShown, CallToShow
<1>5. to_cm' \in Seq(ToCm) BY <1>1
<1> QED BY <1>1, <1>2, <1>3, <1>4, <1>5, CmSteps

\* What the user of the connection manager does.
LEMMA UserInv ==
    ASSUME SubsInv, authorize \/ UserClicks \/ remove \/ close_incoming
    PROVE  SubsInv'
<1>0. TypeOK /\ CallInv BY DEF SubsInv, CallInv
<1>1. UNCHANGED <<connVars, to_cm, runner>>
  BY DEF authorize, UserClicks, remove, close_incoming, cmVars
<1>2. from_cm' \in Seq(FromCm)
  <2>1. \/ from_cm' = from_cm
        \/ \E msg \in FromCm : Push(msg)
    BY DEF authorize, UserClicks, remove, close_incoming, FromCm
  <2> QED BY <1>0, <2>1, Pushing DEF TypeOK
<1>3. \/ client' = client
      \/ client' = NoClient
      \/ client' = [client EXCEPT !.authorized = TRUE]
  BY DEF authorize, UserClicks, remove, close_incoming, cmVars
<1>4. client \in Clients BY <1>0 DEF TypeOK
<1>5. /\ client' \in Clients
      /\ client'.shown => client.shown
      /\ client'.incoming => client.incoming
      /\ client'.in_call => client.in_call
  <2>1. CASE client' = NoClient
    BY <2>1 DEF NoClient, Client, Clients
  <2> QED BY <1>3, <1>4, <2>1 DEF Clients
<1>6. UNCHANGED <<state, voice_calling, voice_request>>
  BY <1>1 DEF connVars, voiceVars
<1>7. CallIsShown' /\ CallToShow'
  BY <1>0, <1>1, <1>5, <1>6 DEF CallInv, CallIsShown, CallToShow
<1>8. to_cm' \in Seq(ToCm) /\ runner' \in BOOLEAN BY <1>0, <1>1 DEF TypeOK
<1> QED BY <1>1, <1>2, <1>5, <1>7, <1>8, CmSteps

-----------------------------------------------------------------------------
(* The theorems. *)

\* The invariant is inductive.
LEMMA NextInv == SubsInv /\ [Next]_vars => SubsInv'
<1> SUFFICES ASSUME SubsInv, [Next]_vars PROVE SubsInv' OBVIOUS
<1>1. CASE ConnStep
  BY <1>1, LoginRequestInv, OtherLogons, QuietHandlers, OptionMessageInv,
     SwitchPermissionInv, CloseCallInv, VoiceCallResponseInv, EndInv
  DEF ConnStep
<1>2. CASE CmStep
  BY <1>2, RunnerStepInv, RunnerFailsInv, UserInv DEF CmStep
<1>3. CASE UNCHANGED vars
  <2>1. /\ UNCHANGED <<state, kinds, require_2fa, invite, logonVars, voiceVars>>
        /\ UNCHANGED <<cmVars, to_cm, from_cm>>
    BY <1>3 DEF vars, logonVars, voiceVars, cmVars
  <2>2. CallInv /\ TypeOK BY DEF SubsInv, CallInv
  <2>3. CallIsShown' /\ CallToShow' BY <2>1, <2>2, SameCall
  <2>4. /\ runner' \in BOOLEAN /\ client' \in Clients
        /\ to_cm' \in Seq(ToCm) /\ from_cm' \in Seq(FromCm)
    BY <2>1, <2>2 DEF TypeOK, cmVars
  <2> QED BY <2>1, <2>3, <2>4, CmSteps DEF connVars
<1> QED BY <1>1, <1>2, <1>3 DEF Next

\* What the connection, its audio subscription and the connection manager's
\* entry say of a voice call agrees, in whatever order requests, answers,
\* hang-ups, permissions and logins cross on the stream, and however many
\* messages are on their way.
THEOREM CallAgrees == Spec => []CallInv
<1>1. SubsInv => CallInv BY DEF SubsInv
<1> QED BY <1>1, InitInv, NextInv, PTL DEF Spec

\* The subscriptions of a remote control connection follow what the user
\* permits and the peer asks for, for every set of option messages and
\* permissions, whether they changed before or after the login.
THEOREM SubscriptionsAreWanted == Spec => []SubscriptionsFollow
<1>1. SubsInv => SubscriptionsFollow BY DEF SubsInv
<1> QED BY <1>1, InitInv, NextInv, PTL DEF Spec

-----------------------------------------------------------------------------
(* AuthedConns: new and drop of AuthedConnID. *)

\* The initial states satisfy the inductive invariant.
LEMMA AuthedInitInv == AuthedInit => Inv
  BY AuthedConnsAssumption
  DEF AuthedInit, Inv, AuthedTypeOK, PCs, InSession, ReleaseInv, RegisteredInv,
      OwedInv, HandleInv, ModeInv, Opening, Remotes, At

\* A step of a connection keeps the types.
LEMMA AuthedStepType ==
  ASSUME Inv, NEW c \in Conns, AuthedStep(c)
  PROVE  AuthedTypeOK'
<1> USE DEF Inv, AuthedTypeOK, PCs, InSession, Goto, printVars, modeVars
<1>1. CASE New(c)                BY <1>1 DEF New
<1>2. CASE StartPrinting(c)      BY <1>2 DEF StartPrinting
<1>3. CASE Bind(c)               BY <1>3 DEF Bind
<1>4. CASE BindFails(c)          BY <1>4 DEF BindFails
<1>5. CASE SetHandle(c)          BY <1>5 DEF SetHandle
<1>6. CASE SetRunning(c)         BY <1>6 DEF SetRunning
<1>7. CASE RemoveWallpaper(c)    BY <1>7 DEF RemoveWallpaper
<1>8. CASE ReadMode(c)           BY <1>8 DEF ReadMode
<1>9. CASE RecordMode(c)         BY <1>9 DEF RecordMode
<1>10. CASE ApplyMode(c)         BY <1>10 DEF ApplyMode
<1>11. CASE Drop(c)              BY <1>11 DEF Drop
<1>12. CASE LastRemote(c)        BY <1>12 DEF LastRemote
<1>13. CASE RestoreWallpaper(c)  BY <1>13 DEF RestoreWallpaper
<1>14. CASE RestoreModes(c)      BY <1>14 DEF RestoreModes
<1>15. CASE ForgetModes(c)       BY <1>15 DEF ForgetModes
<1>16. CASE StopPrinting(c)      BY <1>16 DEF StopPrinting
<1>17. CASE UnsetRunning(c)      BY <1>17 DEF UnsetRunning
<1>18. CASE Signal(c)            BY <1>18 DEF Signal, ReleaseInv, HandleInv
<1> QED BY <1>1, <1>2, <1>3, <1>4, <1>5, <1>6, <1>7, <1>8, <1>9, <1>10,
           <1>11, <1>12, <1>13, <1>14, <1>15, <1>16, <1>17, <1>18
           DEF AuthedStep, DropGoesOn

\* AUTHED_CONNS holds exactly the connections between new and drop.
LEMMA ConnRegistered ==
  ASSUME Inv, NEW c \in Conns, AuthedStep(c)
  PROVE  RegisteredInv'
<1> USE DEF Inv, AuthedTypeOK, PCs, InSession, ReleaseInv, RegisteredInv,
            Opening, Goto, printVars, modeVars
<1>1. CASE New(c)                BY <1>1 DEF New
<1>2. CASE StartPrinting(c)      BY <1>2 DEF StartPrinting
<1>3. CASE Bind(c)               BY <1>3 DEF Bind
<1>4. CASE BindFails(c)          BY <1>4 DEF BindFails
<1>5. CASE SetHandle(c)          BY <1>5 DEF SetHandle
<1>6. CASE SetRunning(c)         BY <1>6 DEF SetRunning
<1>7. CASE RemoveWallpaper(c)    BY <1>7 DEF RemoveWallpaper
<1>8. CASE ReadMode(c)           BY <1>8 DEF ReadMode
<1>9. CASE RecordMode(c)         BY <1>9 DEF RecordMode
<1>10. CASE ApplyMode(c)         BY <1>10 DEF ApplyMode
<1>11. CASE Drop(c)              BY <1>11 DEF Drop
<1>12. CASE LastRemote(c)        BY <1>12 DEF LastRemote
<1>13. CASE RestoreWallpaper(c)  BY <1>13 DEF RestoreWallpaper
<1>14. CASE RestoreModes(c)      BY <1>14 DEF RestoreModes
<1>15. CASE ForgetModes(c)       BY <1>15 DEF ForgetModes
<1>16. CASE StopPrinting(c)      BY <1>16 DEF StopPrinting
<1>17. CASE UnsetRunning(c)      BY <1>17 DEF UnsetRunning
<1>18. CASE Signal(c)            BY <1>18 DEF Signal
<1> QED BY <1>1, <1>2, <1>3, <1>4, <1>5, <1>6, <1>7, <1>8, <1>9, <1>10,
           <1>11, <1>12, <1>13, <1>14, <1>15, <1>16, <1>17, <1>18
           DEF AuthedStep, DropGoesOn

\* Whoever leaves a resource to others leaves it to a connection that is still
\* registered: LastRemote goes on without cleaning up only if there is one.
LEMMA ConnOwed ==
  ASSUME Inv, NEW c \in Conns, AuthedStep(c)
  PROVE  OwedInv'
<1> USE DEF Inv, AuthedTypeOK, PCs, InSession, ReleaseInv, RegisteredInv,
            OwedInv, Opening, Goto, printVars, modeVars, Remotes
<1>1. CASE New(c)                BY <1>1 DEF New
<1>2. CASE StartPrinting(c)      BY <1>2 DEF StartPrinting
<1>3. CASE Bind(c)               BY <1>3 DEF Bind
<1>4. CASE BindFails(c)          BY <1>4 DEF BindFails
<1>5. CASE SetHandle(c)          BY <1>5 DEF SetHandle
<1>6. CASE SetRunning(c)         BY <1>6 DEF SetRunning
<1>7. CASE RemoveWallpaper(c)    BY <1>7 DEF RemoveWallpaper
<1>8. CASE ReadMode(c)           BY <1>8 DEF ReadMode
<1>9. CASE RecordMode(c)         BY <1>9 DEF RecordMode
<1>10. CASE ApplyMode(c)         BY <1>10 DEF ApplyMode
<1>11. CASE Drop(c)              BY <1>11 DEF Drop
<1>12. CASE LastRemote(c)        BY <1>12 DEF LastRemote
<1>13. CASE RestoreWallpaper(c)  BY <1>13 DEF RestoreWallpaper
<1>14. CASE RestoreModes(c)      BY <1>14 DEF RestoreModes
<1>15. CASE ForgetModes(c)       BY <1>15 DEF ForgetModes
<1>16. CASE StopPrinting(c)      BY <1>16 DEF StopPrinting
<1>17. CASE UnsetRunning(c)      BY <1>17 DEF UnsetRunning
<1>18. CASE Signal(c)            BY <1>18 DEF Signal
<1> QED BY <1>1, <1>2, <1>3, <1>4, <1>5, <1>6, <1>7, <1>8, <1>9, <1>10,
           <1>11, <1>12, <1>13, <1>14, <1>15, <1>16, <1>17, <1>18
           DEF AuthedStep, DropGoesOn

\* The handle is that of a server that runs and was not told to stop.
LEMMA ConnHandle ==
  ASSUME Inv, NEW c \in Conns, AuthedStep(c)
  PROVE  HandleInv'
<1> USE AuthedConnsAssumption
    DEF Inv, AuthedTypeOK, PCs, InSession, ReleaseInv, HandleInv, Goto,
        printVars, modeVars
<1>1. CASE New(c)                BY <1>1 DEF New
<1>2. CASE StartPrinting(c)      BY <1>2 DEF StartPrinting
<1>3. CASE Bind(c)               BY <1>3 DEF Bind
<1>4. CASE BindFails(c)          BY <1>4 DEF BindFails
<1>5. CASE SetHandle(c)          BY <1>5 DEF SetHandle
<1>6. CASE SetRunning(c)         BY <1>6 DEF SetRunning
<1>7. CASE RemoveWallpaper(c)    BY <1>7 DEF RemoveWallpaper
<1>8. CASE ReadMode(c)           BY <1>8 DEF ReadMode
<1>9. CASE RecordMode(c)         BY <1>9 DEF RecordMode
<1>10. CASE ApplyMode(c)         BY <1>10 DEF ApplyMode
<1>11. CASE Drop(c)              BY <1>11 DEF Drop
<1>12. CASE LastRemote(c)        BY <1>12 DEF LastRemote
<1>13. CASE RestoreWallpaper(c)  BY <1>13 DEF RestoreWallpaper
<1>14. CASE RestoreModes(c)      BY <1>14 DEF RestoreModes
<1>15. CASE ForgetModes(c)       BY <1>15 DEF ForgetModes
<1>16. CASE StopPrinting(c)      BY <1>16 DEF StopPrinting
<1>17. CASE UnsetRunning(c)      BY <1>17 DEF UnsetRunning
<1>18. CASE Signal(c)            BY <1>18 DEF Signal
<1> QED BY <1>1, <1>2, <1>3, <1>4, <1>5, <1>6, <1>7, <1>8, <1>9, <1>10,
           <1>11, <1>12, <1>13, <1>14, <1>15, <1>16, <1>17, <1>18
           DEF AuthedStep, DropGoesOn

\* The user's resolution is on record as long as the display has another one.
LEMMA ConnMode ==
  ASSUME Inv, NEW c \in Conns, AuthedStep(c)
  PROVE  ModeInv'
<1> USE AuthedConnsAssumption
    DEF Inv, AuthedTypeOK, PCs, InSession, ReleaseInv, RegisteredInv, ModeInv,
        Opening, Goto, printVars, modeVars, At
<1>1. CASE New(c)                BY <1>1 DEF New
<1>2. CASE StartPrinting(c)      BY <1>2 DEF StartPrinting
<1>3. CASE Bind(c)               BY <1>3 DEF Bind
<1>4. CASE BindFails(c)          BY <1>4 DEF BindFails
<1>5. CASE SetHandle(c)          BY <1>5 DEF SetHandle
<1>6. CASE SetRunning(c)         BY <1>6 DEF SetRunning
<1>7. CASE RemoveWallpaper(c)    BY <1>7 DEF RemoveWallpaper
<1>8. CASE ReadMode(c)
  <2> SUFFICES ASSUME ~overlapped' PROVE ModeInv'
    OBVIOUS
  <2>1. /\ pc[c] = "in" /\ pc'[c] = "record" /\ saw'[c] = mode
        /\ ~overlapped /\ At({"restore", "forget"}) = {}
        /\ mode' = mode /\ recorded' = recorded /\ authed' = authed
        /\ \A d \in Conns : d # c => pc'[d] = pc[d] /\ saw'[d] = saw[d]
    BY <1>8 DEF ReadMode
  <2>2. \A pcs : "record" \notin pcs /\ "in" \notin pcs => At(pcs)' = At(pcs)
    BY <2>1
  <2> QED BY <2>1, <2>2
<1>9. CASE RecordMode(c)
  <2> SUFFICES ASSUME ~overlapped PROVE ModeInv'
    BY <1>9 DEF RecordMode
  <2>1. /\ pc[c] = "record" /\ pc'[c] = "apply" /\ mode' = mode
        /\ authed' = authed
        /\ \A d \in Conns : d # c => pc'[d] = pc[d] /\ saw'[d] = saw[d]
    BY <1>9 DEF RecordMode
  <2>2. recorded' = UserMode BY <1>9 DEF RecordMode
  <2>3. \A pcs : "record" \notin pcs /\ "apply" \notin pcs => At(pcs)' = At(pcs)
    BY <2>1
  <2>4. At({"restore", "forget"}) = {} BY <2>1
  <2> QED BY <2>1, <2>2, <2>3, <2>4
<1>10. CASE ApplyMode(c)         BY <1>10 DEF ApplyMode
<1>11. CASE Drop(c)              BY <1>11 DEF Drop
<1>12. CASE LastRemote(c)        BY <1>12 DEF LastRemote, Remotes
<1>13. CASE RestoreWallpaper(c)  BY <1>13 DEF RestoreWallpaper
<1>14. CASE RestoreModes(c)      BY <1>14 DEF RestoreModes
<1>15. CASE ForgetModes(c)       BY <1>15 DEF ForgetModes
<1>16. CASE StopPrinting(c)      BY <1>16 DEF StopPrinting
<1>17. CASE UnsetRunning(c)      BY <1>17 DEF UnsetRunning
<1>18. CASE Signal(c)            BY <1>18 DEF Signal
<1> QED BY <1>1, <1>2, <1>3, <1>4, <1>5, <1>6, <1>7, <1>8, <1>9, <1>10,
           <1>11, <1>12, <1>13, <1>14, <1>15, <1>16, <1>17, <1>18
           DEF AuthedStep, DropGoesOn

\* Every step keeps the inductive invariant.
LEMMA AuthedNextInv == Inv /\ [AuthedNext]_authedVars => Inv'
<1> SUFFICES ASSUME Inv, [AuthedNext]_authedVars PROVE Inv'
  OBVIOUS
<1>1. ASSUME NEW c \in Conns, AuthedStep(c) PROVE Inv'
  BY <1>1, AuthedStepType, ConnRegistered, ConnOwed, ConnHandle, ConnMode
  DEF Inv, ReleaseInv
<1>2. ASSUME NEW s \in Conns, ServerEnds(s) PROVE Inv'
  BY <1>2 DEF ServerEnds, Inv, AuthedTypeOK, PCs, InSession, ReleaseInv,
              RegisteredInv, OwedInv, HandleInv, ModeInv, Opening, Remotes, At,
              modeVars
<1>3. CASE UNCHANGED authedVars
  BY <1>3 DEF authedVars, Inv, AuthedTypeOK, PCs, InSession, ReleaseInv,
              RegisteredInv, OwedInv, HandleInv, ModeInv, Opening, Remotes, At
<1> QED BY <1>1, <1>2, <1>3 DEF AuthedNext

\* The inductive invariant holds in every reachable state.
THEOREM Inductive == AuthedSpec => []Inv
<1>1. AuthedInit => Inv BY AuthedInitInv
<1>2. Inv /\ [AuthedNext]_authedVars => Inv' BY AuthedNextInv
<1> QED BY <1>1, <1>2, PTL DEF AuthedSpec

\* When the last connection has gone (Drop for AuthedConnID of all is done) the
\* wallpaper is back and the print service is marked as stopped, for any number
\* of connections in any interleaving.
THEOREM Released == AuthedSpec => []AllReleased
<1>1. Inv => AllReleased
  BY DEF Inv, AuthedTypeOK, PCs, ReleaseInv, RegisteredInv, OwedInv,
         AllReleased, Settled, Remotes
<1> QED BY <1>1, Inductive, PTL

\* When the last connection has gone, the display has its user's resolution
\* again (change_resolution, restore_resolutions), unless a change was made
\* during a restoration.
THEOREM Restored == AuthedSpec => []ModeRestored
<1>1. Inv => ModeRestored
  BY DEF Inv, AuthedTypeOK, PCs, ReleaseInv, ModeInv, ModeRestored, Settled, At
<1> QED BY <1>1, Inductive, PTL

-----------------------------------------------------------------------------
(* Refinement. *)

\* A step of a connection is a step of the shared wallpaper, or none.
LEMMA WallpaperStep ==
  ASSUME Inv, NEW c \in Conns, AuthedStep(c)
  PROVE  [Wallpaper!Next]_Wallpaper!vars
<1> USE DEF Inv, AuthedTypeOK, PCs, InSession, ReleaseInv, RegisteredInv,
            Opening, Goto, printVars, modeVars, Remotes, At, Wallpaper!vars,
            Wallpaper!Next, Wallpaper!Enter, Wallpaper!Take, Wallpaper!Leave,
            Wallpaper!Pass, Wallpaper!GiveBack
<1>1. CASE New(c)                BY <1>1 DEF New
<1>2. CASE StartPrinting(c)      BY <1>2 DEF StartPrinting
<1>3. CASE Bind(c)               BY <1>3 DEF Bind
<1>4. CASE BindFails(c)          BY <1>4 DEF BindFails
<1>5. CASE SetHandle(c)          BY <1>5 DEF SetHandle
<1>6. CASE SetRunning(c)         BY <1>6 DEF SetRunning
<1>7. CASE RemoveWallpaper(c)    BY <1>7 DEF RemoveWallpaper
<1>8. CASE ReadMode(c)           BY <1>8 DEF ReadMode
<1>9. CASE RecordMode(c)         BY <1>9 DEF RecordMode
<1>10. CASE ApplyMode(c)         BY <1>10 DEF ApplyMode
<1>11. CASE Drop(c)              BY <1>11 DEF Drop
<1>12. CASE LastRemote(c)        BY <1>12 DEF LastRemote
<1>13. CASE RestoreWallpaper(c)  BY <1>13 DEF RestoreWallpaper
<1>14. CASE RestoreModes(c)      BY <1>14 DEF RestoreModes
<1>15. CASE ForgetModes(c)       BY <1>15 DEF ForgetModes
<1>16. CASE StopPrinting(c)      BY <1>16 DEF StopPrinting
<1>17. CASE UnsetRunning(c)      BY <1>17 DEF UnsetRunning
<1>18. CASE Signal(c)            BY <1>18 DEF Signal
<1> QED BY <1>1, <1>2, <1>3, <1>4, <1>5, <1>6, <1>7, <1>8, <1>9, <1>10,
           <1>11, <1>12, <1>13, <1>14, <1>15, <1>16, <1>17, <1>18
           DEF AuthedStep, DropGoesOn

\* A step of a connection is a step of the shared print service, or none.
LEMMA PrintingStep ==
  ASSUME Inv, NEW c \in Conns, AuthedStep(c)
  PROVE  [Printing!Next]_Printing!vars
<1> USE DEF Inv, AuthedTypeOK, PCs, InSession, ReleaseInv, RegisteredInv,
            Opening, Goto, printVars, modeVars, Remotes, At, Printing!vars,
            Printing!Next, Printing!Enter, Printing!Take, Printing!Leave,
            Printing!Pass, Printing!GiveBack
<1>1. CASE New(c)                BY <1>1 DEF New
<1>2. CASE StartPrinting(c)      BY <1>2 DEF StartPrinting
<1>3. CASE Bind(c)               BY <1>3 DEF Bind
<1>4. CASE BindFails(c)          BY <1>4 DEF BindFails
<1>5. CASE SetHandle(c)          BY <1>5 DEF SetHandle
<1>6. CASE SetRunning(c)         BY <1>6 DEF SetRunning
<1>7. CASE RemoveWallpaper(c)    BY <1>7 DEF RemoveWallpaper
<1>8. CASE ReadMode(c)           BY <1>8 DEF ReadMode
<1>9. CASE RecordMode(c)         BY <1>9 DEF RecordMode
<1>10. CASE ApplyMode(c)         BY <1>10 DEF ApplyMode
<1>11. CASE Drop(c)              BY <1>11 DEF Drop
<1>12. CASE LastRemote(c)        BY <1>12 DEF LastRemote
<1>13. CASE RestoreWallpaper(c)  BY <1>13 DEF RestoreWallpaper
<1>14. CASE RestoreModes(c)      BY <1>14 DEF RestoreModes
<1>15. CASE ForgetModes(c)       BY <1>15 DEF ForgetModes
<1>16. CASE StopPrinting(c)      BY <1>16 DEF StopPrinting
<1>17. CASE UnsetRunning(c)      BY <1>17 DEF UnsetRunning
<1>18. CASE Signal(c)            BY <1>18 DEF Signal
<1> QED BY <1>1, <1>2, <1>3, <1>4, <1>5, <1>6, <1>7, <1>8, <1>9, <1>10,
           <1>11, <1>12, <1>13, <1>14, <1>15, <1>16, <1>17, <1>18
           DEF AuthedStep, DropGoesOn

\* WALLPAPER_REMOVER is shared as SharedResource says, up to fairness: new and
\* drop of AuthedConnID implement the abstract specification.
THEOREM WallpaperRefined == AuthedSpec => Wallpaper!Spec
<1>1. AuthedInit => Wallpaper!Init
  BY DEF AuthedInit, Wallpaper!Init, Remotes, At
<1>2. Inv /\ [AuthedNext]_authedVars => [Wallpaper!Next]_Wallpaper!vars
  <2> SUFFICES ASSUME Inv, [AuthedNext]_authedVars
               PROVE  [Wallpaper!Next]_Wallpaper!vars
    OBVIOUS
  <2>1. ASSUME NEW c \in Conns, AuthedStep(c)
        PROVE  [Wallpaper!Next]_Wallpaper!vars
    BY <2>1, WallpaperStep
  <2>2. ASSUME NEW s \in Conns, ServerEnds(s) PROVE UNCHANGED Wallpaper!vars
    BY <2>2 DEF ServerEnds, Wallpaper!vars, Remotes, At
  <2>3. CASE UNCHANGED authedVars
    BY <2>3 DEF authedVars, Wallpaper!vars, Remotes, At
  <2> QED BY <2>1, <2>2, <2>3 DEF AuthedNext
<1> QED BY <1>1, <1>2, Inductive, PTL DEF AuthedSpec, Wallpaper!Spec

\* So is PRINT_SERVICE_RUNNING: start_remote_printing and stop_remote_printing,
\* called by new and drop, implement the abstract specification.
THEOREM PrintingRefined == AuthedSpec => Printing!Spec
<1>1. AuthedInit => Printing!Init
  BY DEF AuthedInit, Printing!Init, Remotes, At
<1>2. Inv /\ [AuthedNext]_authedVars => [Printing!Next]_Printing!vars
  <2> SUFFICES ASSUME Inv, [AuthedNext]_authedVars
               PROVE  [Printing!Next]_Printing!vars
    OBVIOUS
  <2>1. ASSUME NEW c \in Conns, AuthedStep(c)
        PROVE  [Printing!Next]_Printing!vars
    BY <2>1, PrintingStep
  <2>2. ASSUME NEW s \in Conns, ServerEnds(s) PROVE UNCHANGED Printing!vars
    BY <2>2 DEF ServerEnds, Printing!vars, Remotes, At
  <2>3. CASE UNCHANGED authedVars
    BY <2>3 DEF authedVars, Printing!vars, Remotes, At
  <2> QED BY <2>1, <2>2, <2>3 DEF AuthedNext
<1> QED BY <1>1, <1>2, Inductive, PTL DEF AuthedSpec, Printing!Spec

=============================================================================
