---------------------------- MODULE SharedResource ----------------------------
(***************************************************************************)
(* What mod raii promises for a thing that the sessions of this computer   *)
(* share (the removed wallpaper, the print service): it is taken for a     *)
(* session only, and whoever leaves either sees that others are still      *)
(* there or gives it back, so that the last one gives it back.             *)
(*                                                                         *)
(* It does not promise that the thing stays taken for a session that       *)
(* begins while another one leaves.                                        *)
(***************************************************************************)
CONSTANT Users

VARIABLES
    users,      \* those who may use it
    leaving,    \* those who have left and have not looked around yet
    taken

vars == <<users, leaving, taken>>

Init == users = {} /\ leaving = {} /\ taken = FALSE

Enter(u) ==
    /\ users' = users \cup {u}
    /\ UNCHANGED <<leaving, taken>>

Take ==
    /\ users # {}
    /\ taken' = TRUE
    /\ UNCHANGED <<users, leaving>>

Leave(u) ==
    /\ users' = users \ {u} /\ leaving' = leaving \cup {u}
    /\ UNCHANGED taken

\* Others are there: it is theirs to give back.
Pass(u) ==
    /\ u \in leaving /\ users # {}
    /\ leaving' = leaving \ {u}
    /\ UNCHANGED <<users, taken>>

GiveBack(u) ==
    /\ u \in leaving
    /\ leaving' = leaving \ {u} /\ taken' = FALSE
    /\ UNCHANGED users

Next ==
    \/ Take
    \/ \E u \in Users : Enter(u) \/ Leave(u) \/ Pass(u) \/ GiveBack(u)

Spec == Init /\ [][Next]_vars

\* Whoever leaves looks around.
FairSpec == Spec /\ \A u \in Users : WF_vars(Pass(u) \/ GiveBack(u))

=============================================================================
