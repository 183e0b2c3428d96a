----------------------------- MODULE HoldLedger -----------------------------
(***************************************************************************)
(* What the destination server promises about held input, with no sockets, *)
(* requests, snapshots or two-step bookkeeping: a ledger of which client    *)
(* answers for which input.  A press and its entry in the ledger, a lift    *)
(* and the removal of the entry, are one step each.                         *)
(***************************************************************************)
CONSTANTS
  Conns,     \* clients
  Inputs,    \* keys and buttons
  Uses,      \* Uses[c]: the inputs client c ever names
  Faults     \* may an up fail, so that a client leaves with entries?

VARIABLES
  down,      \* inputs that are down
  answers,   \* answers[c]: the inputs client c answers for
  orphans    \* inputs that are down and that nobody may answer for

ledger == <<down, answers, orphans>>

Init ==
  /\ down = {}
  /\ answers = [c \in Conns |-> {}]
  /\ orphans = {}

Press(c, i) ==
  /\ down' = down \cup {i}
  /\ answers' = [answers EXCEPT ![c] = @ \cup {i}]
  /\ orphans' = orphans \ {i}

Lift(c, i) ==
  /\ down' = down \ {i}
  /\ answers' = [answers EXCEPT ![c] = @ \ {i}]
  /\ orphans' = orphans \ {i}

(* A client leaves with entries it could not clear. *)
Abandon(c) ==
  /\ Faults
  /\ answers' = [answers EXCEPT ![c] = {}]
  /\ orphans' = orphans \cup (answers[c] \cap down)
  /\ UNCHANGED down

(* The daemon exits: all entries are lost. *)
Exit ==
  /\ answers' = [c \in Conns |-> {}]
  /\ orphans' = down
  /\ UNCHANGED down

Next ==
  \/ \E c \in Conns : \E i \in Uses[c] : Press(c, i) \/ Lift(c, i)
  \/ \E c \in Conns : Abandon(c)
  \/ Exit

Spec == Init /\ [][Next]_ledger
=============================================================================
