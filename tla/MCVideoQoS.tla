----------------------------- MODULE MCVideoQoS -----------------------------
(* Small instances of VideoQoS for TLC. *)
EXTENDS VideoQoS

\* Smaller numbers than the source's 8, 10 and 12, in their order.
SmallMinFps == [best |-> 1, balanced |-> 2, low |-> 3]

\* One viewer's network is good or does not deliver for a while; the
\* other's is good.
OneBadNetwork == [u \in Viewers |-> IF u = 1 THEN {10, 2500} ELSE {10}]
=============================================================================
