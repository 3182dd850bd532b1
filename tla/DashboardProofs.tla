--------------------------- MODULE DashboardProofs ---------------------------
(***************************************************************************)
(* Proofs about Dashboard, for any number of technicians, accounts,        *)
(* requests and messages under way: the computer is linked only to an      *)
(* account its user has agreed to, unless a click has crossed the timeout  *)
(* of its request.                                                         *)
(***************************************************************************)
EXTENDS Dashboard, TLAPS

\* The last conjunct of Inv.
Dialogs == ~crossed => \A c \in Conns : DialogMatches(c) /\ DialogsAlternate(c)

-----------------------------------------------------------------------------
(* The queues to and from the connection manager. *)

\* What is left of a queue when its first message is taken.
LEMMA TailFacts ==
    ASSUME NEW S, NEW q \in Seq(S), q # << >>
    PROVE  /\ Len(q) \in Nat \ {0} /\ Head(q) \in S /\ Head(q) = q[1]
           /\ Tail(q) \in Seq(S) /\ Len(Tail(q)) = Len(q) - 1
           /\ \A i \in 1..(Len(q) - 1) : Tail(q)[i] = q[i + 1]
           /\ Tail(q) = << >> <=> Len(q) = 1
<1>1. /\ Len(q) \in Nat \ {0} /\ Head(q) \in S /\ Head(q) = q[1]
      /\ Tail(q) \in Seq(S) /\ Len(Tail(q)) = Len(q) - 1
      /\ \A i \in 1..(Len(q) - 1) : Tail(q)[i] = q[i + 1]
  OBVIOUS
<1>2. \A t \in Seq(S) : t = << >> <=> Len(t) = 0 OBVIOUS
<1>3. Tail(q) = << >> <=> Len(Tail(q)) = 0 BY <1>1, <1>2
<1> QED BY <1>1, <1>3

\* A message to the connection manager is what it shows in the end.
LEMMA LatestSent ==
    ASSUME TypeOK, NEW c \in Conns, NEW m \in Accounts \cup {None},
           to_cm' = [to_cm EXCEPT ![c] = Append(@, m)], shown' = shown
    PROVE  /\ to_cm' \in [Conns -> Seq(Accounts \cup {None})]
           /\ Len(to_cm'[c]) = Len(to_cm[c]) + 1
           /\ Latest(c)' = m
           /\ \A d \in Conns \ {c} : to_cm'[d] = to_cm[d] /\ Latest(d)' = Latest(d)
<1>1. to_cm[c] \in Seq(Accounts \cup {None}) BY DEF TypeOK
<1>2. to_cm'[c] = Append(to_cm[c], m) BY DEF TypeOK
<1>3. \A d \in Conns \ {c} : to_cm'[d] = to_cm[d] BY DEF TypeOK
<1>4. Append(to_cm[c], m) \in Seq(Accounts \cup {None}) BY <1>1
<1>5. to_cm' \in [Conns -> Seq(Accounts \cup {None})] BY <1>4 DEF TypeOK
<1>6. /\ Len(to_cm'[c]) = Len(to_cm[c]) + 1 /\ to_cm'[c] # << >>
      /\ to_cm'[c][Len(to_cm'[c])] = m
  BY <1>1, <1>2
<1> QED BY <1>3, <1>5, <1>6 DEF Latest

\* What is sent after a request has ended, or withdraws it, alternates.
LEMMA AlternateSent ==
    ASSUME TypeOK, NEW c \in Conns, NEW m \in Accounts \cup {None},
           to_cm' = [to_cm EXCEPT ![c] = Append(@, m)], shown' = shown,
           DialogsAlternate(c), m = None \/ Latest(c) = None
    PROVE  DialogsAlternate(c)'
<1> DEFINE q == to_cm[c]
<1>1. q \in Seq(Accounts \cup {None}) /\ to_cm'[c] = Append(q, m) BY DEF TypeOK
<1>2. Len(q) \in Nat BY <1>1
<1> HIDE DEF q
<1>3. ASSUME shown[c] # None PROVE Append(q, m)[1] = None
  <2>1. CASE q = << >> BY <1>1, <1>3, <2>1 DEF Latest, q
  <2>2. CASE q # << >>
    <3>1. q[1] = None BY <1>3, <2>2 DEF DialogsAlternate, q
    <3> QED BY <1>1, <2>2, <3>1
  <2> QED BY <2>1, <2>2
<1>4. ASSUME NEW i \in 1..(Len(Append(q, m)) - 1), Append(q, m)[i] # None
      PROVE  Append(q, m)[i + 1] = None
  <2>1. i \in 1..Len(q) /\ Append(q, m)[i] = q[i] BY <1>1, <1>2
  <2>2. CASE i = Len(q)
    <3>1. Append(q, m)[i + 1] = m BY <1>1, <2>2
    <3>2. q # << >> /\ Latest(c) # None BY <1>1, <1>4, <2>1, <2>2 DEF Latest, q
    <3> QED BY <3>1, <3>2
  <2>3. CASE i # Len(q)
    <3>1. i \in 1..(Len(q) - 1) /\ i + 1 \in 1..Len(q) BY <1>2, <2>1, <2>3
    <3>2. q[i + 1] = None BY <1>4, <2>1, <3>1 DEF DialogsAlternate, q
    <3> QED BY <1>1, <3>1, <3>2
  <2> QED BY <2>2, <2>3
<1> QED BY <1>1, <1>3, <1>4 DEF DialogsAlternate

\* The runner of the connection manager shows what comes first.
LEMMA LatestRead ==
    ASSUME TypeOK, NEW c \in Conns, RunnerStep(c)
    PROVE  /\ to_cm' \in [Conns -> Seq(Accounts \cup {None})]
           /\ shown' \in [Conns -> Accounts \cup {None}]
           /\ Len(to_cm'[c]) <= Len(to_cm[c])
           /\ \A d \in Conns : Latest(d)' = Latest(d)
           /\ \A d \in Conns \ {c} : to_cm'[d] = to_cm[d] /\ shown'[d] = shown[d]
<1> DEFINE q == to_cm[c]
<1>1. q \in Seq(Accounts \cup {None}) /\ q # << >> /\ to_cm'[c] = Tail(q)
      /\ shown'[c] = Head(q)
  BY DEF TypeOK, RunnerStep
<1>2. \A d \in Conns \ {c} : to_cm'[d] = to_cm[d] /\ shown'[d] = shown[d]
  BY DEF TypeOK, RunnerStep
<1>3. Tail(q) \in Seq(Accounts \cup {None}) /\ Head(q) \in Accounts \cup {None}
      /\ Len(q) \in Nat \ {0} /\ Len(Tail(q)) = Len(q) - 1 /\ Head(q) = q[1]
      /\ \A i \in 1..(Len(q) - 1) : Tail(q)[i] = q[i + 1]
  BY <1>1, TailFacts
<1>t. Tail(q) = << >> <=> Len(q) = 1 BY <1>1, TailFacts
<1> HIDE DEF q
<1>4. to_cm' \in [Conns -> Seq(Accounts \cup {None})]
      /\ shown' \in [Conns -> Accounts \cup {None}]
  BY <1>1, <1>3 DEF TypeOK, RunnerStep, q
<1>5. Latest(c)' = Latest(c)
  <2>1. CASE Len(q) = 1 BY <1>1, <1>3, <1>t, <2>1 DEF Latest, q
  <2>2. CASE Len(q) # 1
    <3>1. Len(q) - 1 \in 1..(Len(q) - 1) BY <1>3, <2>2
    <3>2. Tail(q)[Len(q) - 1] = q[Len(q) - 1 + 1] BY <1>3, <3>1
    <3>3. Tail(q)[Len(Tail(q))] = q[Len(q)]
      <4>1. Len(Tail(q)) = Len(q) - 1 /\ Len(q) - 1 + 1 = Len(q) BY <1>3
      <4> QED BY <3>2, <4>1
    <3>4. Tail(q) # << >> BY <1>t, <2>2, Zenon
    <3>5. Latest(c)' = Tail(q)[Len(Tail(q))] BY <1>1, <3>4 DEF Latest
    <3>6. Latest(c) = q[Len(q)] BY <1>1 DEF Latest, q
    <3> QED BY <3>3, <3>5, <3>6
  <2> QED BY <2>1, <2>2
<1>6. \A d \in Conns \ {c} : Latest(d)' = Latest(d) BY <1>2 DEF Latest
<1>7. Len(to_cm'[c]) <= Len(to_cm[c]) BY <1>1, <1>3 DEF q
<1> QED BY <1>2, <1>4, <1>5, <1>6, <1>7

\* The rest of what alternates does.
LEMMA AlternateRead ==
    ASSUME TypeOK, NEW c \in Conns, RunnerStep(c), DialogsAlternate(c)
    PROVE  DialogsAlternate(c)'
<1> DEFINE q == to_cm[c]
<1>1. q \in Seq(Accounts \cup {None}) /\ q # << >> /\ to_cm'[c] = Tail(q)
      /\ shown'[c] = Head(q)
  BY DEF TypeOK, RunnerStep
<1>2. /\ Len(q) \in Nat \ {0} /\ Len(Tail(q)) = Len(q) - 1 /\ Head(q) = q[1]
      /\ \A i \in 1..(Len(q) - 1) : Tail(q)[i] = q[i + 1]
      /\ Tail(q) = << >> <=> Len(q) = 1
  BY <1>1, TailFacts
<1>3. \A i \in 1..(Len(q) - 1) : q[i] # None => q[i + 1] = None
  BY DEF DialogsAlternate
<1> HIDE DEF q
<1>4. ASSUME Head(q) # None, Tail(q) # << >> PROVE Tail(q)[1] = None
  <2>1. 1 \in 1..(Len(q) - 1) BY <1>2, <1>4
  <2> QED BY <1>2, <1>3, <1>4, <2>1
<1>5. ASSUME NEW i \in 1..(Len(Tail(q)) - 1), Tail(q)[i] # None
      PROVE  Tail(q)[i + 1] = None
  <2>1. i \in 1..(Len(q) - 1) /\ i + 1 \in 1..(Len(q) - 1) BY <1>2
  <2>2. Tail(q)[i] = q[i + 1] /\ Tail(q)[i + 1] = q[i + 1 + 1] BY <1>2, <2>1
  <2> QED BY <1>3, <1>5, <2>1, <2>2
<1> QED BY <1>1, <1>4, <1>5 DEF DialogsAlternate

-----------------------------------------------------------------------------
(* Types. *)

\* A call of link_device that fails sets well-typed values.
LEMMA LinkFailsType ==
    ASSUME TypeOK, NEW p \in Linkers, LinkFails(p)
    PROVE  /\ step' \in [Linkers -> ConnSteps \cup ThreadSteps]
           /\ \A d \in Conns : step'[d] \in ConnSteps
           /\ step'[Thread] = step[Thread] \/ step'[Thread] = "none"
           /\ step'[Thread] \in ThreadSteps
           /\ code' \in [Linkers -> Accounts \cup {None}]
           /\ owed' \subseteq Conns /\ running' \in BOOLEAN
  BY DashboardAssumption
  DEF TypeOK, LinkFails, Linkers, ConnSteps, ThreadSteps

\* link_device, called by anyone, keeps the types.
LEMMA LinkType ==
    ASSUME TypeOK, NEW p \in Linkers,
           ReadInvite(p) \/ LinkValidate(p) \/ register_device(p)
    PROVE  TypeOK'
<1> USE DashboardAssumption DEF queueVars, fileVars, history
<1>1. CASE LinkFails(p)
  <2>1. UNCHANGED user \/ user' = code[p] BY DEF ReadInvite, LinkValidate, register_device
  <2>2. UNCHANGED <<pending, queueVars, invite, fileVars, starts, socket_user,
                    history>>
    BY DEF ReadInvite, LinkValidate, register_device
  <2> QED BY <1>1, <2>1, <2>2, LinkFailsType DEF TypeOK
<1>2. CASE ~LinkFails(p)
  <2>1. PICK s \in {"link_validate", "register", "settle"} :
           step' = [step EXCEPT ![p] = s]
    BY <1>2 DEF ReadInvite, LinkValidate, register_device, Goto
  <2>2. /\ step' \in [Linkers -> ConnSteps \cup ThreadSteps]
        /\ \A d \in Conns : step'[d] \in ConnSteps
        /\ step'[Thread] \in ThreadSteps
        /\ step'[Thread] \in {"connect", "online", "check"}
             => step[Thread] \in {"connect", "online", "check"}
    BY <2>1 DEF TypeOK, Linkers, ConnSteps, ThreadSteps
  <2>3. code' \in [Linkers -> Accounts \cup {None}]
    BY <1>2 DEF TypeOK, get_invite_code, ReadInvite, LinkValidate, register_device
  <2>4. user' \in Accounts \cup {None}
    BY <1>2 DEF TypeOK, ReadInvite, LinkValidate, register_device
  <2>5. UNCHANGED <<pending, queueVars, invite, fileVars, starts, socket_user,
                    history, owed, running>>
    BY <1>2 DEF ReadInvite, LinkValidate, register_device
  <2> QED BY <2>2, <2>3, <2>4, <2>5 DEF TypeOK
<1> QED BY <1>1, <1>2

\* A step of a connection keeps the types.
LEMMA ConnType ==
    ASSUME Inv, NEW c \in Conns, ConnGoesOn(c) \/ ConnInput(c) \/ RunnerStep(c)
    PROVE  TypeOK'
<1> USE DashboardAssumption
    DEF TypeOK, Linkers, ConnSteps, ThreadSteps, Goto, queueVars, threadVars,
        requestVars, fileVars, history, send_link_dashboard_response
<1>0. TypeOK BY DEF Inv
<1>1. ASSUME NEW a \in Accounts, handle_link_dashboard_request(c, a) PROVE TypeOK'
  <2>1. CASE pending[c] # None
    <3>1. UNCHANGED <<step, code, owed>>
      BY <1>1, <2>1 DEF handle_link_dashboard_request
    <3> QED BY <1>0, <1>1, <3>1 DEF handle_link_dashboard_request
  <2>2. CASE pending[c] = None
    <3>1. /\ step' = [step EXCEPT ![c] = "validate"]
          /\ code' = [code EXCEPT ![c] = a] /\ owed' = owed \cup {c}
      BY <1>1, <2>2 DEF handle_link_dashboard_request
    <3> QED BY <1>0, <1>1, <3>1 DEF handle_link_dashboard_request
  <2> QED BY <2>1, <2>2
<1>2. CASE Validated(c)
  <2>1. code[c] \in Accounts BY <1>2 DEF Inv, CodesAsAgreed, Validated
  <2>2. to_cm' \in [Conns -> Seq(Accounts \cup {None})]
        /\ \A d \in Conns : Len(to_cm'[d]) <= MaxQueue
    <3>1. CASE UNCHANGED to_cm BY <1>0, <3>1
    <3>2. CASE send_to_cm(c, code[c])
      BY <1>0, <1>2, <2>1, <3>2, LatestSent DEF send_to_cm, Validated
    <3> QED BY <1>2, <3>1, <3>2 DEF Validated
  <2> QED BY <1>0, <1>2, <2>1, <2>2 DEF Validated
<1>3. CASE maybe_timeout_pending_link_dashboard(c)
  <2>1. to_cm' \in [Conns -> Seq(Accounts \cup {None})]
        /\ \A d \in Conns : Len(to_cm'[d]) <= MaxQueue
    BY <1>0, <1>3, LatestSent
    DEF send_to_cm, maybe_timeout_pending_link_dashboard
  <2> QED BY <1>0, <1>3, <2>1 DEF maybe_timeout_pending_link_dashboard
<1>4. CASE handle_link_dashboard_response(c)
  <2>1. /\ Tail(from_cm[c]) \in Seq(BOOLEAN)
        /\ Len(Tail(from_cm[c])) = Len(from_cm[c]) - 1
    <3>1. from_cm[c] \in Seq(BOOLEAN) /\ from_cm[c] # << >>
      BY <1>0, <1>4 DEF handle_link_dashboard_response
    <3> QED BY <3>1, TailFacts
  <2>2. from_cm' \in [Conns -> Seq(BOOLEAN)]
        /\ \A d \in Conns : Len(from_cm'[d]) <= MaxQueue
    <3>1. from_cm' = [from_cm EXCEPT ![c] = Tail(from_cm[c])]
      BY <1>4 DEF handle_link_dashboard_response
    <3>2. Len(from_cm[c]) \in Nat /\ Len(from_cm[c]) <= MaxQueue BY <1>0
    <3> QED BY <1>0, <2>1, <3>1, <3>2
  <2>3. /\ step' \in [Linkers -> ConnSteps \cup ThreadSteps]
        /\ \A d \in Conns : step'[d] \in ConnSteps
        /\ step'[Thread] = step[Thread]
        /\ invite' \in Accounts \cup {None} /\ owed' \subseteq Conns
    <3>1. CASE UNCHANGED <<step, invite>> /\ owed' = owed \ {c}
      BY <1>0, <3>1
    <3>2. CASE /\ invite' = pending[c] /\ UNCHANGED owed
               /\ step' = [step EXCEPT ![c] = "read"]
      BY <1>0, <3>2
    <3> QED BY <1>4, <3>1, <3>2 DEF handle_link_dashboard_response
  <2>4. pending' \in [Conns -> Accounts \cup {None}]
    BY <1>0, <1>4 DEF handle_link_dashboard_response
  <2> QED BY <1>0, <1>4, <2>2, <2>3, <2>4 DEF handle_link_dashboard_response
<1>5. CASE EndConnection(c) BY <1>0, <1>5 DEF EndConnection
<1>6. CASE RunnerStep(c)
  <2>1. /\ to_cm' \in [Conns -> Seq(Accounts \cup {None})]
        /\ shown' \in [Conns -> Accounts \cup {None}]
        /\ \A d \in Conns : Len(to_cm'[d]) <= MaxQueue
    <3>1. /\ to_cm' \in [Conns -> Seq(Accounts \cup {None})]
          /\ shown' \in [Conns -> Accounts \cup {None}]
          /\ Len(to_cm'[c]) <= Len(to_cm[c])
          /\ \A d \in Conns \ {c} : to_cm'[d] = to_cm[d]
      BY <1>0, <1>6, LatestRead
    <3>2. Len(to_cm[c]) \in Nat /\ Len(to_cm'[c]) \in Nat BY <1>0, <3>1
    <3>3. Len(to_cm[c]) <= MaxQueue BY <1>0
    <3>4. Len(to_cm'[c]) <= MaxQueue BY <3>1, <3>2, <3>3
    <3>5. \A d \in Conns \ {c} : Len(to_cm'[d]) <= MaxQueue BY <1>0, <3>1
    <3> QED BY <3>1, <3>4, <3>5
  <2> QED BY <1>0, <1>6, <2>1 DEF RunnerStep
<1>7. ASSUME NEW b \in BOOLEAN, respondLinkDash(c, b) PROVE TypeOK'
  <2>1. /\ Append(from_cm[c], b) \in Seq(BOOLEAN)
        /\ Len(Append(from_cm[c], b)) = Len(from_cm[c]) + 1
    BY <1>0
  <2>2. from_cm' \in [Conns -> Seq(BOOLEAN)]
        /\ \A d \in Conns : Len(from_cm'[d]) <= MaxQueue
    BY <1>0, <1>7, <2>1 DEF respondLinkDash
  <2>3. crossed' \in BOOLEAN BY <1>7 DEF respondLinkDash
  <2> QED BY <1>0, <1>7, <2>2, <2>3 DEF respondLinkDash
<1>8. CASE ReadInvite(c) \/ LinkValidate(c) \/ register_device(c)
  BY <1>0, <1>8, LinkType
<1>9. CASE Linked(c) BY <1>0, <1>9 DEF Linked
<1> QED BY <1>1, <1>2, <1>3, <1>4, <1>5, <1>6, <1>7, <1>8, <1>9
        DEF ConnGoesOn, ConnStep, ConnServed, ConnInput

\* A step of the thread, of the settings or of the server keeps the types.
LEMMA ThreadType ==
    ASSUME Inv, (\E a \in Accounts : EnterInvite(a)) \/ StoreInvite \/ start \/ ThreadStep
                \/ SocketEnds \/ Unlinked
    PROVE  TypeOK'
<1> USE DashboardAssumption
    DEF TypeOK, Linkers, ConnSteps, ThreadSteps, Goto, queueVars, threadVars,
        requestVars, fileVars, history
<1>0. TypeOK BY DEF Inv
<1>1. ASSUME NEW a \in Accounts, EnterInvite(a) PROVE TypeOK'
  BY <1>0, <1>1 DEF EnterInvite
<1>2. CASE start BY <1>0, <1>2 DEF start
<1>3. CASE Begin BY <1>0, <1>3 DEF Begin
<1>4. CASE ReadInvite(Thread) \/ LinkValidate(Thread) \/ register_device(Thread)
  BY <1>0, <1>4, LinkType
<1>5. CASE Enrolled BY <1>0, <1>5 DEF Enrolled
<1>6. CASE ReadUser BY <1>0, <1>6 DEF ReadUser
<1>7. CASE Connect BY <1>0, <1>7 DEF Connect
<1>8. CASE CheckUser BY <1>0, <1>8 DEF CheckUser
<1>9. CASE Stop BY <1>0, <1>9 DEF Stop
<1>10. CASE SocketEnds BY <1>0, <1>10 DEF SocketEnds
<1>11. CASE Unlinked BY <1>0, <1>11 DEF Unlinked
<1>12. CASE StoreInvite BY <1>0, <1>12 DEF StoreInvite
<1> QED BY <1>1, <1>2, <1>3, <1>4, <1>5, <1>6, <1>7, <1>8, <1>9, <1>10, <1>11,
           <1>12
        DEF ThreadStep, ThreadLocal, ThreadServed

-----------------------------------------------------------------------------
(* The dialog is that of the request that waits. *)

\* What one connection does leaves the dialogs of the others as they are.
LEMMA OthersDialogs ==
    ASSUME Dialogs, NEW c, agreed \subseteq agreed', ~crossed' => ~crossed,
           \A d \in Conns \ {c} : /\ pending'[d] = pending[d] /\ shown'[d] = shown[d]
                                  /\ to_cm'[d] = to_cm[d] /\ from_cm'[d] = from_cm[d],
           c \in Conns /\ ~crossed' => DialogMatches(c)' /\ DialogsAlternate(c)'
    PROVE  Dialogs'
<1> SUFFICES ASSUME ~crossed', NEW d \in Conns, d # c
             PROVE  DialogMatches(d)' /\ DialogsAlternate(d)'
  BY DEF Dialogs
<1>1. DialogMatches(d) /\ DialogsAlternate(d) BY DEF Dialogs
<1>2. Latest(d)' = Latest(d) BY DEF Latest
<1>3. DialogMatches(d)' BY <1>1, <1>2 DEF DialogMatches
<1>4. DialogsAlternate(d)' BY <1>1 DEF DialogsAlternate
<1> QED BY <1>3, <1>4

\* Steps that leave the requests alone.
LEMMA SameDialogs ==
    ASSUME Dialogs, UNCHANGED requestVars, agreed \subseteq agreed',
           ~crossed' => ~crossed
    PROVE  Dialogs'
<1> SUFFICES ASSUME ~crossed', NEW d \in Conns
             PROVE  DialogMatches(d)' /\ DialogsAlternate(d)'
  BY DEF Dialogs
<1>1. DialogMatches(d) /\ DialogsAlternate(d) BY DEF Dialogs
<1>2. Latest(d)' = Latest(d) BY DEF Latest, requestVars
<1>3. DialogMatches(d)' BY <1>1, <1>2 DEF DialogMatches, requestVars
<1>4. DialogsAlternate(d)' BY <1>1 DEF DialogsAlternate, requestVars
<1> QED BY <1>3, <1>4

\* A valid code opens a dialog: there was none.
LEMMA ValidatedDialogs ==
    ASSUME Inv, TypeOK', NEW c \in Conns, Validated(c)
    PROVE  Dialogs'
<1> USE DEF history, threadVars
<1>0. TypeOK /\ Dialogs BY DEF Inv, Dialogs
<1>1. CASE UNCHANGED <<pending, to_cm>>
  <2>1. \A d \in Conns : Latest(d)' = Latest(d) BY <1>1 DEF Validated, Latest
  <2> QED BY <1>0, <1>1, <2>1
          DEF Validated, Dialogs, DialogMatches, DialogsAlternate
<1>2. CASE pending' = [pending EXCEPT ![c] = code[c]] /\ send_to_cm(c, code[c])
  <2>1. code[c] \in Accounts /\ pending[c] = None
    BY DEF Inv, CodesAsAgreed, Validated, Goto
  <2>2. /\ to_cm' = [to_cm EXCEPT ![c] = Append(@, code[c])]
        /\ UNCHANGED <<from_cm, shown, agreed, crossed>>
    BY <1>2 DEF send_to_cm, Validated
  <2>3. /\ Latest(c)' = code[c]
        /\ \A d \in Conns \ {c} : to_cm'[d] = to_cm[d]
    BY <1>0, <2>1, <2>2, LatestSent
  <2>4. pending'[c] = code[c] /\ \A d \in Conns \ {c} : pending'[d] = pending[d]
    BY <1>0, <1>2 DEF TypeOK
  <2>5. ASSUME ~crossed PROVE DialogMatches(c)' /\ DialogsAlternate(c)'
    <3>1. DialogMatches(c) /\ DialogsAlternate(c) BY <1>0, <2>5 DEF Dialogs
    <3>2. Latest(c) = None /\ from_cm[c] = << >>
      BY <2>1, <3>1 DEF DialogMatches
    <3>3. DialogsAlternate(c)' BY <1>0, <2>1, <2>2, <3>1, <3>2, AlternateSent
    <3>4. DialogMatches(c)'
      BY <2>1, <2>2, <2>3, <2>4, <3>2, DashboardAssumption DEF DialogMatches
    <3> QED BY <3>3, <3>4
  <2> QED BY <1>0, <2>2, <2>3, <2>4, <2>5, OthersDialogs
<1> QED BY <1>1, <1>2 DEF Validated

\* The timeout withdraws the dialog, or has crossed the click.
LEMMA TimeoutDialogs ==
    ASSUME Inv, TypeOK', NEW c \in Conns, maybe_timeout_pending_link_dashboard(c)
    PROVE  Dialogs'
<1>0. TypeOK /\ Dialogs BY DEF Inv, Dialogs
<1>1. /\ to_cm' = [to_cm EXCEPT ![c] = Append(@, None)]
      /\ UNCHANGED <<from_cm, shown, agreed>>
      /\ crossed' = (crossed \/ from_cm[c] # << >>)
      /\ pending' = [pending EXCEPT ![c] = None]
  BY DEF send_to_cm, maybe_timeout_pending_link_dashboard
<1>2. /\ Latest(c)' = None
      /\ \A d \in Conns \ {c} : to_cm'[d] = to_cm[d]
  BY <1>0, <1>1, LatestSent
<1>3. pending'[c] = None /\ \A d \in Conns \ {c} : pending'[d] = pending[d]
  BY <1>0, <1>1 DEF TypeOK
<1>4. ASSUME ~crossed' PROVE DialogMatches(c)' /\ DialogsAlternate(c)'
  <2>1. ~crossed /\ from_cm[c] = << >> BY <1>1, <1>4
  <2>2. DialogsAlternate(c) BY <1>0, <2>1 DEF Dialogs
  <2>3. DialogsAlternate(c)' BY <1>0, <1>1, <2>2, AlternateSent
  <2>4. DialogMatches(c)' BY <1>1, <1>2, <1>3, <2>1 DEF DialogMatches
  <2> QED BY <2>3, <2>4
<1> QED BY <1>0, <1>1, <1>2, <1>3, <1>4, OthersDialogs

\* The answer ends the request.
LEMMA ResponseDialogs ==
    ASSUME Inv, TypeOK', NEW c \in Conns, handle_link_dashboard_response(c)
    PROVE  Dialogs'
<1>0. TypeOK /\ Dialogs BY DEF Inv, Dialogs
<1>1. /\ from_cm[c] # << >> /\ from_cm' = [from_cm EXCEPT ![c] = Tail(@)]
      /\ pending' = [pending EXCEPT ![c] = None]
      /\ UNCHANGED <<to_cm, shown, agreed, crossed>>
  BY DEF handle_link_dashboard_response, history
<1>2. /\ from_cm'[c] = Tail(from_cm[c]) /\ pending'[c] = None
      /\ \A d \in Conns \ {c} : /\ from_cm'[d] = from_cm[d]
                                /\ pending'[d] = pending[d]
  BY <1>0, <1>1 DEF TypeOK
<1>3. ASSUME ~crossed PROVE DialogMatches(c)' /\ DialogsAlternate(c)'
  <2>1. DialogMatches(c) /\ DialogsAlternate(c) BY <1>0, <1>3 DEF Dialogs
  <2>2. Latest(c) = None /\ Len(from_cm[c]) = 1
    BY <1>1, <2>1 DEF DialogMatches
  <2>3. Tail(from_cm[c]) = << >>
    <3>1. from_cm[c] \in Seq(BOOLEAN) BY <1>0 DEF TypeOK
    <3> QED BY <1>1, <2>2, <3>1, TailFacts
  <2>4. Latest(c)' = Latest(c) BY <1>1 DEF Latest
  <2>5. DialogMatches(c)' BY <1>2, <2>2, <2>3, <2>4 DEF DialogMatches
  <2>6. DialogsAlternate(c)' BY <1>1, <2>1 DEF DialogsAlternate
  <2> QED BY <2>5, <2>6
<1> QED BY <1>0, <1>1, <1>2, <1>3, OthersDialogs

\* A connection that ends takes its dialog with it.
LEMMA EndDialogs ==
    ASSUME Inv, NEW c \in Conns, EndConnection(c)
    PROVE  Dialogs'
<1>0. TypeOK /\ Dialogs BY DEF Inv, Dialogs
<1>1. /\ pending'[c] = None /\ shown'[c] = None /\ to_cm'[c] = << >>
      /\ from_cm'[c] = << >> /\ UNCHANGED <<agreed, crossed>>
      /\ \A d \in Conns \ {c} : /\ from_cm'[d] = from_cm[d] /\ to_cm'[d] = to_cm[d]
                                /\ pending'[d] = pending[d] /\ shown'[d] = shown[d]
  BY <1>0 DEF EndConnection, TypeOK, history
<1>2. DialogMatches(c)' BY <1>1 DEF DialogMatches, Latest
<1>3. DialogsAlternate(c)' BY <1>1 DEF DialogsAlternate
<1> QED BY <1>0, <1>1, <1>2, <1>3, OthersDialogs

\* The connection manager shows or withdraws a dialog.
LEMMA RunnerDialogs ==
    ASSUME Inv, NEW c \in Conns, RunnerStep(c)
    PROVE  Dialogs'
<1>0. TypeOK /\ Dialogs BY DEF Inv, Dialogs
<1>1. UNCHANGED <<pending, from_cm, agreed, crossed>> BY DEF RunnerStep, history
<1>2. /\ \A d \in Conns : Latest(d)' = Latest(d)
      /\ \A d \in Conns \ {c} : to_cm'[d] = to_cm[d] /\ shown'[d] = shown[d]
  BY <1>0, LatestRead
<1>3. ASSUME ~crossed PROVE DialogMatches(c)' /\ DialogsAlternate(c)'
  <2>1. DialogMatches(c) /\ DialogsAlternate(c) BY <1>0, <1>3 DEF Dialogs
  <2>2. DialogsAlternate(c)' BY <1>0, <2>1, AlternateRead
  <2>3. DialogMatches(c)' BY <1>1, <1>2, <2>1 DEF DialogMatches
  <2> QED BY <2>2, <2>3
<1> QED BY <1>0, <1>1, <1>2, <1>3, OthersDialogs

\* A click that has not crossed a timeout answers the request that waits.
LEMMA ClickDialogs ==
    ASSUME Inv, TypeOK', NEW c \in Conns, NEW b \in BOOLEAN, respondLinkDash(c, b)
    PROVE  Dialogs'
<1>0. TypeOK /\ Dialogs BY DEF Inv, Dialogs
<1>1. /\ shown[c] # None /\ from_cm' = [from_cm EXCEPT ![c] = Append(@, b)]
      /\ shown' = [shown EXCEPT ![c] = None]
      /\ agreed' = IF b THEN agreed \cup {shown[c]} ELSE agreed
      /\ crossed' = (crossed \/ Contains(to_cm[c], None))
      /\ UNCHANGED <<pending, to_cm>>
  BY DEF respondLinkDash
<1>2. /\ from_cm'[c] = Append(from_cm[c], b) /\ shown'[c] = None
      /\ \A d \in Conns \ {c} : /\ from_cm'[d] = from_cm[d]
                                /\ shown'[d] = shown[d]
  BY <1>0, <1>1 DEF TypeOK
<1>3. ASSUME ~crossed' PROVE DialogMatches(c)' /\ DialogsAlternate(c)'
  <2>1. ~crossed /\ ~Contains(to_cm[c], None) BY <1>1, <1>3
  <2>2. DialogMatches(c) /\ DialogsAlternate(c) BY <1>0, <2>1 DEF Dialogs
  <2>3. to_cm[c] = << >>
    <3> SUFFICES ASSUME to_cm[c] # << >> PROVE FALSE OBVIOUS
    <3>1. to_cm[c][1] = None BY <1>1, <2>2 DEF DialogsAlternate
    <3>2. to_cm[c] \in Seq(Accounts \cup {None}) BY <1>0 DEF TypeOK
    <3>3. 1 \in 1..Len(to_cm[c]) BY <3>2
    <3> QED BY <2>1, <3>1, <3>3 DEF Contains
  <2>4. Latest(c) = shown[c] BY <2>3 DEF Latest
  <2>5. pending[c] = shown[c] /\ from_cm[c] = << >>
    BY <1>1, <2>2, <2>4 DEF DialogMatches
  <2>6. Len(from_cm'[c]) = 1 /\ from_cm'[c][1] = b BY <1>2, <2>5
  <2>7. Latest(c)' = None BY <1>1, <1>2, <2>3 DEF Latest
  <2>8. b => pending'[c] \in agreed' BY <1>1, <2>5
  <2>9. Head(from_cm'[c]) = from_cm'[c][1]
    <3>1. from_cm'[c] \in Seq(BOOLEAN) BY DEF TypeOK
    <3> QED BY <2>6, <3>1
  <2>10. DialogMatches(c)'
    BY <1>1, <2>5, <2>6, <2>7, <2>8, <2>9 DEF DialogMatches
  <2>11. DialogsAlternate(c)' BY <1>1, <1>2, <2>2 DEF DialogsAlternate
  <2> QED BY <2>10, <2>11
<1>4. agreed \subseteq agreed' BY <1>1
<1>5. ~crossed' => ~crossed BY <1>1
<1> QED BY <1>0, <1>1, <1>2, <1>3, <1>4, <1>5, OthersDialogs

-----------------------------------------------------------------------------
(* Every invite code on its way has been agreed to. *)

\* link_device takes a code that was agreed to and links to its account.
LEMMA LinkAgreed ==
    ASSUME Inv, NEW p \in Linkers,
           ReadInvite(p) \/ LinkValidate(p) \/ register_device(p)
    PROVE  LinkedAsAgreed' /\ CodesAsAgreed' /\ Dialogs'
<1> USE DEF queueVars, fileVars, history
<1>0. TypeOK /\ LinkedAsAgreed /\ CodesAsAgreed /\ Dialogs BY DEF Inv, Dialogs
<1>1. UNCHANGED <<pending, to_cm, from_cm, shown, invite, file, token, entered,
                  agreed, crossed>>
  BY DEF ReadInvite, LinkValidate, register_device
<1>2. Dialogs'
  <2>1. \A d \in Conns : Latest(d)' = Latest(d) BY <1>1 DEF Latest
  <2> QED BY <1>0, <1>1, <2>1 DEF Dialogs, DialogMatches, DialogsAlternate
<1>3. CASE LinkFails(p)
  <2>1. UNCHANGED user \/ (step[p] = "register" /\ user' = code[p])
    <3>1. CASE ReadInvite(p) BY <3>1 DEF ReadInvite
    <3>2. CASE LinkValidate(p) BY <3>2 DEF LinkValidate
    <3>3. CASE register_device(p) BY <3>3 DEF register_device, Goto
    <3> QED BY <3>1, <3>2, <3>3
  <2>2. \A q \in Linkers : step'[q] \in {"link_validate", "register", "validate"}
           => step'[q] = step[q] /\ code'[q] = code[q]
    BY <1>0, <1>3 DEF LinkFails, TypeOK
  <2>3. LinkedAsAgreed' BY <1>0, <1>1, <2>1 DEF LinkedAsAgreed, CodesAsAgreed
  <2>4. CodesAsAgreed' BY <1>0, <1>1, <2>2 DEF CodesAsAgreed, Linkers
  <2> QED BY <1>2, <2>3, <2>4
<1>4. CASE ReadInvite(p) /\ ~LinkFails(p)
  <2>1. PICK s \in {"link_validate", "register"},
             a \in {token, get_invite_code} \ {None} :
           /\ UNCHANGED user /\ step' = [step EXCEPT ![p] = s]
           /\ code' = [code EXCEPT ![p] = a]
    BY <1>4 DEF ReadInvite
  <2>2. a \in Accounts /\ (a \in agreed \/ crossed)
    BY <1>0, <2>1 DEF TypeOK, CodesAsAgreed, get_invite_code
  <2>3. CodesAsAgreed'
    BY <1>0, <1>1, <2>1, <2>2 DEF CodesAsAgreed, TypeOK, Linkers
  <2> QED BY <1>0, <1>1, <1>2, <2>1, <2>3 DEF LinkedAsAgreed
<1>5. CASE LinkValidate(p) /\ ~LinkFails(p)
  <2>1. /\ step[p] = "link_validate" /\ UNCHANGED <<user, code>>
        /\ step' = [step EXCEPT ![p] = "register"]
    BY <1>5 DEF LinkValidate, Goto
  <2>2. CodesAsAgreed' BY <1>0, <1>1, <2>1 DEF CodesAsAgreed, TypeOK, Linkers
  <2> QED BY <1>0, <1>1, <1>2, <2>1, <2>2 DEF LinkedAsAgreed
<1>6. CASE register_device(p) /\ ~LinkFails(p)
  <2>1. /\ step[p] = "register" /\ user' \in {code[p], user} /\ UNCHANGED code
        /\ step' = [step EXCEPT ![p] = "settle"]
    BY <1>6 DEF register_device, Goto
  <2>2. CodesAsAgreed' BY <1>0, <1>1, <2>1 DEF CodesAsAgreed, TypeOK, Linkers
  <2>3. LinkedAsAgreed' BY <1>0, <1>1, <2>1 DEF LinkedAsAgreed, CodesAsAgreed
  <2> QED BY <1>2, <2>2, <2>3
<1> QED BY <1>3, <1>4, <1>5, <1>6

\* A step of a connection keeps the invariant.
LEMMA ConnInv ==
    ASSUME Inv, NEW c \in Conns, ConnGoesOn(c) \/ ConnInput(c) \/ RunnerStep(c)
    PROVE  LinkedAsAgreed' /\ CodesAsAgreed' /\ Dialogs'
<1> USE DashboardAssumption DEF queueVars, history, fileVars, threadVars
<1>0. TypeOK /\ LinkedAsAgreed /\ CodesAsAgreed /\ Dialogs /\ TypeOK'
  BY ConnType DEF Inv, Dialogs
<1>1. ASSUME NEW a \in Accounts, handle_link_dashboard_request(c, a)
      PROVE  LinkedAsAgreed' /\ CodesAsAgreed' /\ Dialogs'
  <2>1. UNCHANGED <<pending, to_cm, from_cm, shown, user, invite, file, token,
                    entered, agreed, crossed>>
    BY <1>1 DEF handle_link_dashboard_request
  <2>2. Dialogs'
    <3>1. \A d \in Conns : Latest(d)' = Latest(d) BY <2>1 DEF Latest
    <3> QED BY <1>0, <2>1, <3>1 DEF Dialogs, DialogMatches, DialogsAlternate
  <2>3. CodesAsAgreed'
    <3>1. CASE UNCHANGED <<step, code>> BY <1>0, <2>1, <3>1 DEF CodesAsAgreed
    <3>2. CASE /\ step' = [step EXCEPT ![c] = "validate"] /\ pending[c] = None
               /\ code' = [code EXCEPT ![c] = a]
      BY <1>0, <2>1, <3>2 DEF CodesAsAgreed, TypeOK, Linkers
    <3> QED BY <1>1, <3>1, <3>2 DEF handle_link_dashboard_request, Goto
  <2> QED BY <1>0, <2>1, <2>2, <2>3 DEF LinkedAsAgreed
<1>2. CASE Validated(c)
  <2>1. CodesAsAgreed' BY <1>0, <1>2 DEF Validated, Goto, CodesAsAgreed, TypeOK, Linkers
  <2> QED BY <1>0, <1>2, <2>1, ValidatedDialogs DEF Validated, LinkedAsAgreed
<1>3. CASE maybe_timeout_pending_link_dashboard(c)
  <2>1. CodesAsAgreed'
    BY <1>0, <1>3
    DEF maybe_timeout_pending_link_dashboard, CodesAsAgreed, TypeOK, Linkers
  <2> QED BY <1>0, <1>3, <2>1, TimeoutDialogs
          DEF maybe_timeout_pending_link_dashboard, LinkedAsAgreed
<1>4. CASE handle_link_dashboard_response(c)
  <2>1. CASE Head(from_cm[c]) /\ pending[c] # None
    <3>1. /\ invite' = pending[c] /\ step' = [step EXCEPT ![c] = "read"]
          /\ pending' = [pending EXCEPT ![c] = None]
          /\ UNCHANGED <<code, agreed, crossed, user, file, token, entered>>
      BY <1>4, <2>1 DEF handle_link_dashboard_response
    <3>2. ~crossed => pending[c] \in agreed
      <4> SUFFICES ASSUME ~crossed PROVE pending[c] \in agreed OBVIOUS
      <4>1. DialogMatches(c) /\ from_cm[c] # << >>
        BY <1>0, <1>4 DEF Dialogs, handle_link_dashboard_response
      <4> QED BY <2>1, <4>1 DEF DialogMatches
    <3>3. CodesAsAgreed' BY <1>0, <3>1, <3>2 DEF CodesAsAgreed, TypeOK, Linkers
    <3> QED BY <1>0, <1>4, <3>1, <3>3, ResponseDialogs DEF LinkedAsAgreed
  <2>2. CASE ~(Head(from_cm[c]) /\ pending[c] # None)
    <3>1. /\ pending' = [pending EXCEPT ![c] = None]
          /\ UNCHANGED <<code, agreed, crossed, user, step, invite, file, token,
                         entered>>
      BY <1>4, <2>2 DEF handle_link_dashboard_response
    <3>2. CodesAsAgreed' BY <1>0, <3>1 DEF CodesAsAgreed, TypeOK, Linkers
    <3> QED BY <1>0, <1>4, <3>1, <3>2, ResponseDialogs DEF LinkedAsAgreed
  <2> QED BY <2>1, <2>2
<1>5. CASE EndConnection(c)
  <2>1. CodesAsAgreed'
    BY <1>0, <1>5 DEF EndConnection, Goto, CodesAsAgreed, TypeOK, Linkers
  <2> QED BY <1>0, <1>5, <2>1, EndDialogs DEF EndConnection, LinkedAsAgreed
<1>6. CASE RunnerStep(c)
  BY <1>0, <1>6, RunnerDialogs DEF RunnerStep, LinkedAsAgreed, CodesAsAgreed
<1>7. ASSUME NEW b \in BOOLEAN, respondLinkDash(c, b)
      PROVE  LinkedAsAgreed' /\ CodesAsAgreed' /\ Dialogs'
  <2>1. agreed \subseteq agreed' /\ (crossed => crossed') BY <1>7 DEF respondLinkDash
  <2>2. UNCHANGED <<step, code, pending, invite, user, file, token, entered>>
    BY <1>7 DEF respondLinkDash
  <2>3. LinkedAsAgreed' /\ CodesAsAgreed'
    BY <1>0, <2>1, <2>2 DEF LinkedAsAgreed, CodesAsAgreed
  <2> QED BY <1>0, <1>7, <2>3, ClickDialogs
<1>8. CASE ReadInvite(c) \/ LinkValidate(c) \/ register_device(c)
  BY <1>8, LinkAgreed DEF Linkers
<1>9. CASE Linked(c)
  <2>1. CodesAsAgreed' BY <1>0, <1>9 DEF Linked, Goto, CodesAsAgreed, TypeOK, Linkers
  <2>2. Dialogs'
    <3>1. UNCHANGED <<pending, to_cm, from_cm, shown, agreed, crossed>>
      BY <1>9 DEF Linked
    <3>2. \A d \in Conns : Latest(d)' = Latest(d) BY <3>1 DEF Latest
    <3> QED BY <1>0, <3>1, <3>2 DEF Dialogs, DialogMatches, DialogsAlternate
  <2> QED BY <1>0, <1>9, <2>1, <2>2 DEF Linked, LinkedAsAgreed
<1> QED BY <1>1, <1>2, <1>3, <1>4, <1>5, <1>6, <1>7, <1>8, <1>9
        DEF ConnGoesOn, ConnStep, ConnServed, ConnInput

\* So does a step of the thread, the settings or the server.
LEMMA ThreadInv ==
    ASSUME Inv, (\E a \in Accounts : EnterInvite(a)) \/ StoreInvite \/ start \/ ThreadStep
                \/ SocketEnds \/ Unlinked
    PROVE  LinkedAsAgreed' /\ CodesAsAgreed' /\ Dialogs'
<1> USE DashboardAssumption DEF history, requestVars, fileVars
<1>0. TypeOK /\ LinkedAsAgreed /\ CodesAsAgreed /\ Dialogs BY DEF Inv, Dialogs
<1> DEFINE Aside ==
       /\ UNCHANGED <<pending, owed, to_cm, from_cm, shown, crossed>>
       /\ agreed \subseteq agreed'
       /\ invite' = invite \/ invite' = None \/ invite' \in agreed'
       /\ file' \in {file, None} /\ token' \in {token, None}
       /\ entered' \in {entered, None} \cup agreed'
       /\ user' = user \/ user' = None
       /\ \A c \in Conns : step'[c] = step[c] /\ code'[c] = code[c]
       /\ \/ step'[Thread] = step[Thread] /\ code'[Thread] = code[Thread]
          \/ step'[Thread] \notin {"link_validate", "register"}
<1>1. ASSUME Aside PROVE LinkedAsAgreed' /\ CodesAsAgreed' /\ Dialogs'
  <2>1. Dialogs' BY <1>0, <1>1, SameDialogs
  <2>2. CodesAsAgreed' BY <1>0, <1>1 DEF CodesAsAgreed, Linkers
  <2>3. LinkedAsAgreed' BY <1>0, <1>1 DEF LinkedAsAgreed
  <2> QED BY <2>1, <2>2, <2>3
<1> USE DEF TypeOK, Linkers, Goto, threadVars
<1>2. ASSUME NEW a \in Accounts, EnterInvite(a) PROVE Aside
  BY <1>0, <1>2 DEF EnterInvite
<1>3. ASSUME start PROVE Aside BY <1>0, <1>3 DEF start
<1>4. ASSUME Begin PROVE Aside BY <1>0, <1>4 DEF Begin
<1>5. ASSUME Enrolled PROVE Aside BY <1>0, <1>5 DEF Enrolled
<1>6. ASSUME ReadUser PROVE Aside BY <1>0, <1>6 DEF ReadUser
<1>7. ASSUME Connect PROVE Aside BY <1>0, <1>7 DEF Connect
<1>8. ASSUME CheckUser PROVE Aside BY <1>0, <1>8 DEF CheckUser
<1>9. ASSUME Stop PROVE Aside BY <1>0, <1>9 DEF Stop
<1>10. ASSUME SocketEnds PROVE Aside BY <1>0, <1>10 DEF SocketEnds
<1>11. ASSUME Unlinked PROVE Aside BY <1>0, <1>11 DEF Unlinked
<1>12. CASE ReadInvite(Thread) \/ LinkValidate(Thread) \/ register_device(Thread)
  BY <1>12, LinkAgreed
<1>13. ASSUME StoreInvite PROVE Aside BY <1>0, <1>13 DEF StoreInvite, CodesAsAgreed
<1> HIDE DEF Aside
<1> QED BY <1>1, <1>2, <1>3, <1>4, <1>5, <1>6, <1>7, <1>8, <1>9, <1>10, <1>11,
           <1>12, <1>13 DEF ThreadStep, ThreadLocal, ThreadServed

\* At the start nothing is under way, and the configuration is as agreed.
LEMMA InitInv == Init => Inv
<1> SUFFICES ASSUME Init PROVE Inv OBVIOUS
<1> USE DashboardAssumption
<1>1. TypeOK
  <2>1. /\ step \in [Linkers -> ConnSteps \cup ThreadSteps]
        /\ \A c \in Conns : step[c] \in ConnSteps
        /\ step[Thread] = "none" /\ step[Thread] \in ThreadSteps
    BY DEF Init, Linkers, ConnSteps, ThreadSteps
  <2>2. /\ to_cm \in [Conns -> Seq(Accounts \cup {None})]
        /\ from_cm \in [Conns -> Seq(BOOLEAN)]
        /\ \A c \in Conns : Len(to_cm[c]) <= MaxQueue /\ Len(from_cm[c]) <= MaxQueue
    BY DEF Init
  <2>3. agreed \subseteq Accounts /\ starts \in Nat BY DEF Init
  <2>4. invites \in 0..MaxInvites BY DEF Init
  <2>5. /\ code \in [Linkers -> Accounts \cup {None}]
        /\ pending \in [Conns -> Accounts \cup {None}]
        /\ shown \in [Conns -> Accounts \cup {None}]
    BY DEF Init
  <2> QED BY <2>1, <2>2, <2>3, <2>4, <2>5 DEF Init, TypeOK
<1>2. LinkedAsAgreed /\ CodesAsAgreed
  BY DEF Init, LinkedAsAgreed, CodesAsAgreed, Linkers
<1>3. ASSUME NEW c \in Conns PROVE DialogMatches(c) /\ DialogsAlternate(c)
  <2>1. /\ to_cm[c] = << >> /\ from_cm[c] = << >> /\ shown[c] = None
        /\ pending[c] = None
    BY DEF Init
  <2>2. DialogMatches(c) BY <2>1 DEF DialogMatches, Latest
  <2>3. DialogsAlternate(c) BY <2>1 DEF DialogsAlternate
  <2> QED BY <2>2, <2>3
<1> QED BY <1>1, <1>2, <1>3 DEF Inv

\* Every step keeps the inductive invariant.
LEMMA NextInv == Inv /\ [Next]_vars => Inv'
<1> SUFFICES ASSUME Inv, [Next]_vars PROVE Inv'
  OBVIOUS
<1>1. ASSUME NEW c \in Conns, ConnGoesOn(c) \/ ConnInput(c) \/ RunnerStep(c)
      PROVE  Inv'
  BY <1>1, ConnType, ConnInv DEF Inv, Dialogs
<1>2. CASE (\E a \in Accounts : EnterInvite(a)) \/ StoreInvite \/ start \/ ThreadStep
           \/ SocketEnds \/ Unlinked
  BY <1>2, ThreadType, ThreadInv DEF Inv, Dialogs
<1>3. CASE UNCHANGED vars
  <2>1. TypeOK' BY <1>3 DEF vars, Inv, TypeOK
  <2>2. LinkedAsAgreed' /\ CodesAsAgreed'
    BY <1>3 DEF vars, Inv, LinkedAsAgreed, CodesAsAgreed
  <2>3. ASSUME NEW c \in Conns
        PROVE  /\ DialogMatches(c) => DialogMatches(c)'
               /\ DialogsAlternate(c) => DialogsAlternate(c)'
    <3>1. Latest(c)' = Latest(c) BY <1>3 DEF vars, Latest
    <3>2. DialogMatches(c) => DialogMatches(c)'
      BY <1>3, <3>1 DEF vars, DialogMatches
    <3>3. DialogsAlternate(c) => DialogsAlternate(c)'
      BY <1>3 DEF vars, DialogsAlternate
    <3> QED BY <3>2, <3>3
  <2>4. crossed' = crossed BY <1>3 DEF vars
  <2> QED BY <2>1, <2>2, <2>3, <2>4 DEF Inv
<1> QED BY <1>1, <1>2, <1>3 DEF Next

\* The computer is linked only to an account its user has agreed to (link_device,
\* handle_link_dashboard_response), for any number of technicians and requests
\* in any interleaving with the thread of dashboard::start, as long as no click
\* has crossed the timeout of its request.
THEOREM LinkIsAgreed == Spec => []Inv
<1>1. Init => Inv BY InitInv
<1>2. Inv /\ [Next]_vars => Inv' BY NextInv
<1> QED BY <1>1, <1>2, PTL DEF Spec

=============================================================================
