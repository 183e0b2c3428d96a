--------------------------- MODULE MCDestWindows ---------------------------
(* DestWindows for TLC: two clients, three windows of which two are read, two
   applications. *)
EXTENDS DestWindows, TLC

Symmetry == Permutations(Conns) \cup Permutations(Xids) \cup Permutations(Apps)
=============================================================================
