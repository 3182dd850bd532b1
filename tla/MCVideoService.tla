--------------------------- MODULE MCVideoService ---------------------------
(* Small instances of VideoService for TLC. *)
EXTENDS VideoService, TLC

Symmetry == Permutations(Conns)
=============================================================================
