------------------------------- MODULE XOwner -------------------------------
(***************************************************************************)
(* The X owner of destination mode (startXOwner, xOwner.call): connection  *)
(* goroutines queue closures on a buffered channel and wait for each to be *)
(* done; one OS thread runs them.  The body of a closure is that of the    *)
(* xDestBackend methods: lock, Xlib, unlock; WarpMouse then polls the       *)
(* pointer (waitPointer) after it has unlocked.                             *)
(***************************************************************************)
EXTENDS Integers, Sequences, FiniteSets

CONSTANTS
  Callers,    \* connection goroutines
  NoCaller,
  QueueCap,   \* destQueueCap
  MaxPolls,   \* bound: pointer polls before waitPointer's deadline
  Panics      \* may a closure panic?

ASSUME OwnerAssumption ==
  /\ IsFiniteSet(Callers)
  /\ NoCaller \notin Callers
  /\ QueueCap \in Nat
  /\ MaxPolls \in Nat \ {0}
  /\ Panics \in BOOLEAN

VARIABLES
  pc,       \* pc[c]: "out", "send" (o.jobs <-), "wait" (<-done) or "back"
  kind,     \* kind[c]: "plain", or "warp" for WarpMouse
  jobs,     \* the channel; a queued closure is named by its caller
  done,     \* done[c]: the done channel of c's call is closed
  ran,      \* ran[c]: how often c's closure has taken effect in this call
  owner,    \* the owner thread's position
  running,  \* the caller whose closure it runs
  xmu,      \* is the display mutex held?
  polls     \* polls made by waitPointer

vars == <<pc, kind, jobs, done, ran, owner, running, xmu, polls>>

Init ==
  /\ pc = [c \in Callers |-> "out"]
  /\ kind = [c \in Callers |-> "plain"]
  /\ jobs = <<>>
  /\ done = [c \in Callers |-> FALSE]
  /\ ran = [c \in Callers |-> 0]
  /\ owner = "recv"
  /\ running = NoCaller
  /\ xmu = FALSE
  /\ polls = 0

Alive == owner # "exited"

-----------------------------------------------------------------------------
(* The caller. *)

Call(c, k) ==
  /\ Alive
  /\ pc[c] \in {"out", "back"}
  /\ pc' = [pc EXCEPT ![c] = "send"]
  /\ kind' = [kind EXCEPT ![c] = k]
  /\ done' = [done EXCEPT ![c] = FALSE]
  /\ ran' = [ran EXCEPT ![c] = 0]
  /\ UNCHANGED <<jobs, owner, running, xmu, polls>>

Enqueue(c) ==
  /\ Alive
  /\ pc[c] = "send"
  /\ Len(jobs) < QueueCap
  /\ jobs' = Append(jobs, c)
  /\ pc' = [pc EXCEPT ![c] = "wait"]
  /\ UNCHANGED <<kind, done, ran, owner, running, xmu, polls>>

ReturnAtOnce(c) ==   \* mutant: call does not wait for done
  /\ Alive
  /\ pc[c] = "wait"
  /\ pc' = [pc EXCEPT ![c] = "back"]
  /\ UNCHANGED <<kind, jobs, done, ran, owner, running, xmu, polls>>
Return(c) ==
  /\ Alive
  /\ pc[c] = "wait"
  /\ done[c]
  /\ pc' = [pc EXCEPT ![c] = "back"]
  /\ UNCHANGED <<kind, jobs, done, ran, owner, running, xmu, polls>>

-----------------------------------------------------------------------------
(* The owner thread. *)

TakeLast ==   \* mutant: a stack instead of a queue
  /\ owner = "recv"
  /\ jobs # <<>>
  /\ running' = jobs[Len(jobs)]
  /\ jobs' = SubSeq(jobs, 1, Len(jobs) - 1)
  /\ owner' = "lock"
  /\ UNCHANGED <<pc, kind, done, ran, xmu, polls>>
Take ==
  /\ owner = "recv"
  /\ jobs # <<>>
  /\ running' = Head(jobs)
  /\ jobs' = Tail(jobs)
  /\ owner' = "lock"
  /\ UNCHANGED <<pc, kind, done, ran, xmu, polls>>

Lock ==
  /\ owner = "lock"
  /\ ~xmu
  /\ xmu' = TRUE
  /\ owner' = "xlib"
  /\ UNCHANGED <<pc, kind, jobs, done, ran, running, polls>>

(* The Xlib calls of the closure. *)
Xlib ==
  /\ owner = "xlib"
  /\ ran' = [ran EXCEPT ![running] = @ + 1]
  /\ owner' = "unlock"
  /\ UNCHANGED <<pc, kind, jobs, done, running, xmu, polls>>

(* moveMouse may fail, and then there is nothing to wait for. *)
Unlock ==
  /\ owner = "unlock"
  /\ xmu' = FALSE
  /\ polls' = 0
  /\ \/ owner' = "finish"
     \/ kind[running] = "warp" /\ owner' = "poll"
  /\ UNCHANGED <<pc, kind, jobs, done, ran, running>>

(* waitPointer: queryPointer until the pointer has arrived or the deadline   *)
(* has passed.                                                               *)
Poll ==
  /\ owner = "poll"
  /\ polls' = polls + 1
  /\ \/ owner' = "finish"
     \/ polls' < MaxPolls /\ UNCHANGED owner
  /\ UNCHANGED <<pc, kind, jobs, done, ran, running, xmu>>

(* The closure returns: close(done). *)
Finish ==
  /\ owner = "finish"
  /\ done' = [done EXCEPT ![running] = TRUE]
  /\ running' = NoCaller
  /\ owner' = "recv"
  /\ UNCHANGED <<pc, kind, jobs, ran, xmu, polls>>

(* The closure panics, in its Xlib calls or in a poll: its deferred unlock   *)
(* (WarpMouse unlocks without defer) and close(done) run first, the recover  *)
(* that exits the process after them.                                        *)
PanicSwallowed ==   \* mutant: the owner recovers and goes on
  /\ Panics
  /\ owner \in {"xlib", "poll"}
  /\ xmu' = (xmu /\ kind[running] = "warp")
  /\ done' = [done EXCEPT ![running] = TRUE]
  /\ running' = NoCaller
  /\ owner' = "recv"
  /\ UNCHANGED <<pc, kind, jobs, ran, polls>>
Panic ==
  /\ Panics
  /\ owner \in {"xlib", "poll"}
  /\ xmu' = (xmu /\ kind[running] = "warp")
  /\ done' = [done EXCEPT ![running] = TRUE]
  /\ running' = NoCaller
  /\ owner' = "exiting"
  /\ UNCHANGED <<pc, kind, jobs, ran, polls>>

Exit ==
  /\ owner = "exiting"
  /\ owner' = "exited"
  /\ UNCHANGED <<pc, kind, jobs, done, ran, running, xmu, polls>>

Owner == Take \/ Lock \/ Xlib \/ Unlock \/ Poll \/ Finish \/ Panic \/ Exit
Caller(c) == Enqueue(c) \/ Return(c)

Next ==
  \/ Owner
  \/ \E c \in Callers : Caller(c) \/ \E k \in {"plain", "warp"} : Call(c, k)

Spec == Init /\ [][Next]_vars

(* The owner thread and the goroutines inside a call keep running. *)
FairSpec ==
  /\ Spec
  /\ WF_vars(Owner)
  /\ \A c \in Callers : WF_vars(Enqueue(c)) /\ WF_vars(Return(c))

-----------------------------------------------------------------------------
(* Properties. *)

(* Every variable has its type, and waitPointer polls no longer than its     *)
(* deadline allows.                                                          *)
TypeOK ==
  /\ pc \in [Callers -> {"out", "send", "wait", "back"}]
  /\ kind \in [Callers -> {"plain", "warp"}]
  /\ jobs \in Seq(Callers)
  /\ done \in [Callers -> BOOLEAN]
  /\ ran \in [Callers -> Nat]
  /\ owner \in {"recv", "lock", "xlib", "unlock", "poll", "finish", "exiting", "exited"}
  /\ running \in Callers \cup {NoCaller}
  /\ xmu \in BOOLEAN
  /\ polls \in 0 .. MaxPolls

(* A call that came back has taken effect exactly once, unless the process   *)
(* is on its way out: close(done) also runs when the closure panics, so a    *)
(* caller may go on (and answer Submitted) in the window before os.Exit.     *)
ReturnsAfterEffect ==
  \A c \in Callers : pc[c] = "back" => ran[c] = 1 \/ owner \in {"exiting", "exited"}

(* With no more callers than destQueueCap, a goroutine never blocks on the   *)
(* channel itself: each has at most one closure queued.                      *)
QueueHasRoom ==
  Cardinality(Callers) <= QueueCap =>
    \A c \in Callers : pc[c] = "send" => Len(jobs) < QueueCap

(* A call in progress is queued, running or done, and in only one of them:   *)
(* no closure is lost or queued twice.                                       *)
CallIsSomewhere ==
  \A c \in Callers :
    LET places == Cardinality({i \in DOMAIN jobs : jobs[i] = c})
                  + (IF running = c THEN 1 ELSE 0) + (IF done[c] THEN 1 ELSE 0)
    IN  pc[c] = "wait" => places = 1

Calls == INSTANCE AtomicCalls WITH
  phase <- [c \in Callers |->
              IF pc[c] \in {"out", "back"} THEN "out"
              ELSE IF ran[c] = 0 THEN "asked" ELSE "done"],
  broken <- owner \in {"exiting", "exited"}

(* The queue and the thread implement calls that take effect in one step,    *)
(* which is how the other modules model an X call.                           *)
ImplementsCalls == Calls!Spec

(* Every call returns, or the process exits: the owner never waits for a     *)
(* caller, closures run in turn and waitPointer gives up at its deadline.    *)
EveryCallReturns ==
  \A c \in Callers : pc[c] = "send" ~> (pc[c] = "back" \/ owner = "exited")
=============================================================================
