--------------------------- MODULE MCDestSession ---------------------------
(* DestSession for TLC.  Key k1 is reached by two names and by every client; *)
(* key k2 and button b1 are private to c1; "nokey" has no keycode; c4 is not *)
(* on the allowlist.                                                         *)
EXTENDS DestSession, TLC

CONSTANTS c1, c2, c3, c4, k1, k2, b1

MCPair == {c1, c2}
MCFour == {c1, c2, c3, c4}
MCNames == {"a", "A", "b", "nokey"}
MCKeycodeOf == [n \in Names |->
  CASE n \in {"a", "A"} -> k1 [] n = "b" /\ k2 \in Keys -> k2 [] OTHER -> NoInput]
MCUses == [c \in Conns |-> IF c = c1 THEN Inputs ELSE {k1}]
MCUidOf == [c \in Conns |-> IF c = c4 THEN 1001 ELSE 1000]
MCGidOf == [c \in Conns |-> 100]
=============================================================================
