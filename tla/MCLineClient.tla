---------------------------- MODULE MCLineClient ----------------------------
(***************************************************************************)
(* Module LineClient for TLC: two goroutines, whose first lines are tiny;    *)
(* the second ones only differ from others where they come first or end.     *)
(***************************************************************************)
EXTENDS LineClient

CONSTANTS t1, t2

MCThreads == {t1, t2}
MCKindOf ==
  [l \in Lines |-> IF l[2] = 1 THEN "tiny" ELSE IF l[1] = t1 THEN "get" ELSE "huge"]
=============================================================================
