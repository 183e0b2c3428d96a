------------------------------ MODULE MCXOwner ------------------------------
(* XOwner for TLC: three goroutines. *)
EXTENDS XOwner
=============================================================================
