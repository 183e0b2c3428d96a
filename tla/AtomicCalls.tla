---------------------------- MODULE AtomicCalls ----------------------------
(***************************************************************************)
(* What callers of the X owner rely on: a call takes effect exactly once,   *)
(* in one step between its invocation and its return.                       *)
(***************************************************************************)
CONSTANT Callers

VARIABLES
  phase,   \* phase[c]: "out" of any call, "asked", effect "done"
  broken   \* the process is exiting: calls may come back without an effect

Init ==
  /\ phase = [c \in Callers |-> "out"]
  /\ broken = FALSE

Ask(c) ==
  /\ phase[c] = "out"
  /\ phase' = [phase EXCEPT ![c] = "asked"]
  /\ UNCHANGED broken

Effect(c) ==
  /\ phase[c] = "asked"
  /\ ~broken
  /\ phase' = [phase EXCEPT ![c] = "done"]
  /\ UNCHANGED broken

Return(c) ==
  /\ phase[c] = "done" \/ (phase[c] = "asked" /\ broken)
  /\ phase' = [phase EXCEPT ![c] = "out"]
  /\ UNCHANGED broken

Break == ~broken /\ broken' = TRUE /\ UNCHANGED phase

Next == Break \/ \E c \in Callers : Ask(c) \/ Effect(c) \/ Return(c)

Spec == Init /\ [][Next]_<<phase, broken>>
=============================================================================
