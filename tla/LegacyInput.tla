---------------------------- MODULE LegacyInput ----------------------------
(***************************************************************************)
(* What users of the legacy line protocol rely on, with no sockets, mutex   *)
(* or single X calls: a command takes effect as a whole or not at all, and  *)
(* a connection that could send commands lifts everything when it leaves.   *)
(***************************************************************************)
CONSTANTS
  Conns,
  Commands,   \* the command lines
  Inputs,     \* keycodes and buttons the X server has
  Liftable,   \* the inputs releaseall lifts
  Effect(_),  \* Effect(m): the inputs m leaves down and up, and where it warps to
  Nowhere     \* of a command that does not move the pointer

VARIABLES
  on,         \* on[c]: connection c may send commands
  down,       \* inputs that are down
  pointer,    \* where the pointer is
  alive       \* the daemon runs

input == <<on, down, pointer, alive>>

Join(c) ==
  /\ alive
  /\ ~on[c]
  /\ on' = [on EXCEPT ![c] = TRUE]
  /\ UNCHANGED <<down, pointer, alive>>

Command(c, m) ==
  /\ alive
  /\ on[c]
  /\ down' = (down \ Effect(m).up) \cup Effect(m).down
  /\ pointer' = IF Effect(m).to = Nowhere THEN pointer ELSE Effect(m).to
  /\ UNCHANGED <<on, alive>>

Leave(c) ==
  /\ alive
  /\ on[c]
  /\ on' = [on EXCEPT ![c] = FALSE]
  /\ down' = down \ Liftable
  /\ UNCHANGED <<pointer, alive>>

(* The daemon exits, possibly in the middle of a command. *)
Die ==
  /\ alive
  /\ alive' = FALSE
  /\ on' = [c \in Conns |-> FALSE]
  /\ down' \in SUBSET Inputs

Next ==
  \/ \E c \in Conns : Join(c) \/ Leave(c) \/ \E m \in Commands : Command(c, m)
  \/ Die

Init ==
  /\ on \in [Conns -> BOOLEAN]
  /\ down = {}
  /\ alive = TRUE

Spec == Init /\ [][Next]_input
=============================================================================
