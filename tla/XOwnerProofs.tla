---------------------------- MODULE XOwnerProofs ----------------------------
(***************************************************************************)
(* The X owner for any number of connection goroutines and any capacity of  *)
(* its channel.                                                             *)
(***************************************************************************)
EXTENDS XOwner, FiniteSetTheorems, SequenceTheorems, TLAPS

(* The type invariant in two parts, one for each kind of reasoning. *)
Flags == done \in [Callers -> BOOLEAN] /\ xmu \in BOOLEAN
Types ==
  /\ pc \in [Callers -> {"out", "send", "wait", "back"}]
  /\ kind \in [Callers -> {"plain", "warp"}]
  /\ jobs \in Seq(Callers) /\ Len(jobs) \in Nat /\ DOMAIN jobs = 1 .. Len(jobs)
  /\ ran \in [Callers -> Nat]
  /\ owner \in {"recv", "lock", "xlib", "unlock", "poll", "finish", "exiting", "exited"}
  /\ running \in Callers \cup {NoCaller}
  /\ polls \in 0 .. MaxPolls
  /\ owner = "poll" => polls < MaxPolls

Gone == owner \in {"exiting", "exited"}

(* A queued closure is queued once, its caller waits, and nothing ran yet. *)
Queued ==
  /\ \A i, j \in 1 .. Len(jobs) : jobs[i] = jobs[j] => i = j
  /\ \A i \in 1 .. Len(jobs) :
       /\ pc[jobs[i]] = "wait" /\ ~done[jobs[i]] /\ ran[jobs[i]] = 0
       /\ jobs[i] # running

(* So does the caller of the closure the owner runs. *)
Running ==
  /\ running # NoCaller <=> owner \in {"lock", "xlib", "unlock", "poll", "finish"}
  /\ running # NoCaller =>
       /\ pc[running] = "wait" /\ ~done[running]
       /\ ran[running] = IF owner \in {"lock", "xlib"} THEN 0 ELSE 1

(* What a caller's position says of its closure. *)
Calling ==
  \A c \in Callers :
    /\ pc[c] = "send" => ran[c] = 0 /\ ~done[c]
    /\ pc[c] = "wait" => \/ \E i \in 1 .. Len(jobs) : jobs[i] = c
                         \/ running = c
                         \/ done[c]
    /\ pc[c] = "wait" /\ done[c] => ran[c] = 1 \/ Gone
    /\ pc[c] = "back" => ran[c] = 1 \/ Gone

IInv == Flags /\ Types /\ Queued /\ Running /\ Calling

LEMMA InitIInv == Init => IInv
<1> SUFFICES ASSUME Init PROVE IInv
  OBVIOUS
<1>1. Flags
  BY Zenon DEF Init, Flags
<1>2. Types
  BY OwnerAssumption DEF Init, Types
<1>3. Queued /\ Running /\ Calling
  BY DEF Init, Queued, Running, Calling
<1> QED BY <1>1, <1>2, <1>3 DEF IInv

(* A new call. *)
LEMMA CallStep ==
  ASSUME IInv, NEW c \in Callers, NEW k \in {"plain", "warp"}, Call(c, k) PROVE IInv'
<1>0. Flags /\ Types /\ Queued /\ Running /\ Calling
  BY DEF IInv
<1>1. /\ pc[c] \in {"out", "back"} /\ pc' = [pc EXCEPT ![c] = "send"]
      /\ kind' = [kind EXCEPT ![c] = k] /\ done' = [done EXCEPT ![c] = FALSE]
      /\ ran' = [ran EXCEPT ![c] = 0] /\ UNCHANGED <<jobs, owner, running, xmu, polls>>
  BY DEF Call
<1>2. Flags'
  BY <1>0, <1>1, Zenon DEF Flags
<1>3. Types'
  BY <1>0, <1>1 DEF Types
<1>4. \A d \in Callers \ {c} : pc'[d] = pc[d] /\ done'[d] = done[d] /\ ran'[d] = ran[d]
  BY <1>0, <1>1 DEF Types, Flags
<1>5. /\ \A i \in 1 .. Len(jobs) : jobs[i] \in Callers \ {c}
      /\ running # NoCaller => running \in Callers \ {c}
  <2>1. \A i \in 1 .. Len(jobs) : jobs[i] \in Callers
    BY <1>0, ElementOfSeq DEF Types
  <2> QED BY <1>0, <1>1, <2>1 DEF Types, Queued, Running
<1>6. Queued'
  BY <1>0, <1>1, <1>4, <1>5 DEF Queued
<1>7. Running'
  BY <1>0, <1>1, <1>4, <1>5 DEF Running
<1>8. Calling'
  <2>1. pc'[c] = "send" /\ ran'[c] = 0 /\ ~done'[c]
    BY <1>0, <1>1 DEF Types, Flags
  <2> QED BY <1>0, <1>1, <1>4, <2>1 DEF Calling, Gone
<1> QED BY <1>2, <1>3, <1>6, <1>7, <1>8, ZenonT(60) DEF IInv

LEMMA EnqueueStep == ASSUME IInv, NEW c \in Callers, Enqueue(c) PROVE IInv'
<1>0. Flags /\ Types /\ Queued /\ Running /\ Calling
  BY DEF IInv
<1>1. /\ pc[c] = "send" /\ jobs' = Append(jobs, c) /\ pc' = [pc EXCEPT ![c] = "wait"]
      /\ UNCHANGED <<kind, done, ran, owner, running, xmu, polls>>
  BY DEF Enqueue
<1>2. Flags'
  BY <1>0, <1>1, Zenon DEF Flags
<1>3. /\ jobs' \in Seq(Callers) /\ Len(jobs') = Len(jobs) + 1
      /\ \A i \in 1 .. Len(jobs) : jobs'[i] = jobs[i]
      /\ jobs'[Len(jobs) + 1] = c
  BY <1>0, <1>1, AppendProperties DEF Types
<1>4. Types'
  BY <1>0, <1>1, <1>3 DEF Types
<1>5. \A i \in 1 .. Len(jobs') : i \in 1 .. Len(jobs) \/ (i = Len(jobs) + 1 /\ jobs'[i] = c)
  BY <1>0, <1>3 DEF Types
<1>6. \A i \in 1 .. Len(jobs) : jobs[i] # c /\ jobs[i] \in Callers
  <2>1. \A i \in 1 .. Len(jobs) : jobs[i] \in Callers
    BY <1>0, ElementOfSeq DEF Types
  <2> QED BY <1>0, <1>1, <2>1 DEF Queued
<1>7. running # c
  BY <1>0, <1>1, OwnerAssumption DEF Running
<1>8. ~done[c] /\ ran[c] = 0 /\ pc'[c] = "wait" /\ \A d \in Callers \ {c} : pc'[d] = pc[d]
  BY <1>0, <1>1 DEF Types, Calling
<1>9. Queued'
  <2>1. \A i, j \in 1 .. Len(jobs') : jobs'[i] = jobs'[j] => i = j
    BY <1>0, <1>3, <1>5, <1>6 DEF Queued
  <2>2. ASSUME NEW i \in 1 .. Len(jobs')
        PROVE  pc'[jobs'[i]] = "wait" /\ ~done'[jobs'[i]] /\ ran'[jobs'[i]] = 0
               /\ jobs'[i] # running'
    BY <1>0, <1>1, <1>3, <1>5, <1>6, <1>7, <1>8, SMTT(30) DEF Queued
  <2> QED BY <2>1, <2>2 DEF Queued
<1>10. Running'
  BY <1>0, <1>1, <1>7, <1>8 DEF Running, Types
<1>11. Calling'
  <2>1. Len(jobs) + 1 \in 1 .. Len(jobs') /\ \A i \in 1 .. Len(jobs) : i \in 1 .. Len(jobs')
    BY <1>0, <1>3, SMTT(30) DEF Types
  <2> QED BY <1>0, <1>1, <1>3, <1>8, <2>1 DEF Calling, Gone
<1> QED BY <1>2, <1>4, <1>9, <1>10, <1>11 DEF IInv

LEMMA ReturnStep == ASSUME IInv, NEW c \in Callers, Return(c) PROVE IInv'
<1>0. Flags /\ Types /\ Queued /\ Running /\ Calling
  BY DEF IInv
<1>1. /\ pc[c] = "wait" /\ done[c] /\ pc' = [pc EXCEPT ![c] = "back"]
      /\ UNCHANGED <<kind, jobs, done, ran, owner, running, xmu, polls>>
  BY DEF Return
<1>2. Flags'
  BY <1>0, <1>1, Zenon DEF Flags
<1>3. Types'
  BY <1>0, <1>1 DEF Types
<1>4. \A i \in 1 .. Len(jobs) : jobs[i] \in Callers \ {c}
  <2>1. \A i \in 1 .. Len(jobs) : jobs[i] \in Callers
    BY <1>0, ElementOfSeq DEF Types
  <2> QED BY <1>0, <1>1, <2>1 DEF Queued
<1>5. running # c
  BY <1>0, <1>1, OwnerAssumption DEF Running
<1>6. pc'[c] = "back" /\ \A d \in Callers \ {c} : pc'[d] = pc[d]
  BY <1>0, <1>1 DEF Types
<1>7. Queued'
  BY <1>0, <1>1, <1>4, <1>6 DEF Queued
<1>8. Running'
  BY <1>0, <1>1, <1>5, <1>6 DEF Running, Types
<1>9. Calling'
  BY <1>0, <1>1, <1>6 DEF Calling, Gone
<1> QED BY <1>2, <1>3, <1>7, <1>8, <1>9 DEF IInv

LEMMA TakeStep == ASSUME IInv, Take PROVE IInv'
<1>0. Flags /\ Types /\ Queued /\ Running /\ Calling
  BY DEF IInv
<1>1. /\ owner = "recv" /\ jobs # <<>> /\ running' = Head(jobs) /\ jobs' = Tail(jobs)
      /\ owner' = "lock" /\ UNCHANGED <<pc, kind, done, ran, xmu, polls>>
  BY DEF Take
<1>2. Flags'
  BY <1>0, <1>1, Zenon DEF Flags
<1>3. /\ running' = jobs[1] /\ jobs[1] \in Callers /\ 1 \in 1 .. Len(jobs)
      /\ jobs' \in Seq(Callers) /\ Len(jobs') = Len(jobs) - 1 /\ Len(jobs) >= 1
      /\ \A i \in 1 .. Len(jobs) - 1 : jobs'[i] = jobs[i + 1]
  BY <1>0, <1>1, HeadTailProperties DEF Types
<1>4. Types'
  BY <1>0, <1>1, <1>3 DEF Types
<1>5. running = NoCaller /\ jobs[1] # NoCaller
  BY <1>0, <1>1, <1>3, OwnerAssumption DEF Running
<1>6. \A i \in 1 .. Len(jobs) - 1 : i + 1 \in 1 .. Len(jobs) /\ i + 1 # 1
  BY <1>0 DEF Types
<1>7. Queued'
  <2>1. \A i, j \in 1 .. Len(jobs') : jobs'[i] = jobs'[j] => i = j
    <3> SUFFICES ASSUME NEW i \in 1 .. Len(jobs) - 1, NEW j \in 1 .. Len(jobs) - 1,
                        jobs[i + 1] = jobs[j + 1]
                 PROVE  i = j
      BY <1>3
    <3>1. i + 1 = j + 1
      BY <1>0, <1>6 DEF Queued
    <3> QED BY <3>1
  <2>2. ASSUME NEW i \in 1 .. Len(jobs')
        PROVE  pc'[jobs'[i]] = "wait" /\ ~done'[jobs'[i]] /\ ran'[jobs'[i]] = 0
               /\ jobs'[i] # running'
    <3>1. /\ i + 1 \in 1 .. Len(jobs) /\ i + 1 # 1 /\ jobs'[i] = jobs[i + 1]
      BY <1>3, <1>6
    <3>2. jobs[i + 1] # jobs[1]
      BY <1>0, <1>3, <3>1 DEF Queued
    <3> QED BY <1>0, <1>1, <1>3, <3>1, <3>2 DEF Queued
  <2> QED BY <2>1, <2>2 DEF Queued
<1>8. Running'
  BY <1>0, <1>1, <1>3, <1>5 DEF Running, Queued
<1>9. Calling'
  <2>1. ASSUME NEW c \in Callers, NEW i \in 1 .. Len(jobs), jobs[i] = c, c # jobs[1]
        PROVE  \E j \in 1 .. Len(jobs') : jobs'[j] = c
    <3>1. i - 1 \in 1 .. Len(jobs) - 1 /\ i - 1 + 1 = i
      BY <1>0, <2>1 DEF Types
    <3> QED BY <1>3, <2>1, <3>1, ZenonT(60)
  <2>2. ~Gone /\ ~Gone'
    BY <1>1 DEF Gone
  <2> SUFFICES ASSUME NEW c \in Callers
               PROVE  /\ pc[c] = "send" => ran[c] = 0 /\ ~done[c]
                      /\ pc[c] = "wait" => \/ \E i \in 1 .. Len(jobs') : jobs'[i] = c
                                           \/ jobs[1] = c
                                           \/ done[c]
                      /\ pc[c] = "wait" /\ done[c] => ran[c] = 1 \/ Gone'
                      /\ pc[c] = "back" => ran[c] = 1 \/ Gone'
    BY <1>1, <1>3, Zenon DEF Calling
  <2>3. running # c
    BY <1>5, OwnerAssumption
  <2>4. pc[c] = "wait" => (\E i \in 1 .. Len(jobs) : jobs[i] = c) \/ done[c]
    BY <1>0, <2>3, Zenon DEF Calling
  <2>5. pc[c] = "wait" => \/ \E i \in 1 .. Len(jobs') : jobs'[i] = c
                          \/ jobs[1] = c
                          \/ done[c]
    BY <2>1, <2>4, Zenon
  <2> QED BY <1>0, <2>2, <2>5, Zenon DEF Calling
<1> QED BY <1>2, <1>4, <1>7, <1>8, <1>9 DEF IInv

(* The steps of the owner thread that leave the queue and the callers alone. *)
LEMMA LockStep == ASSUME IInv, Lock PROVE IInv'
<1>0. Flags /\ Types /\ Queued /\ Running /\ Calling
  BY DEF IInv
<1>1. /\ owner = "lock" /\ xmu' = TRUE /\ owner' = "xlib"
      /\ UNCHANGED <<pc, kind, jobs, done, ran, running, polls>>
  BY DEF Lock
<1>2. Flags'
  BY <1>0, <1>1, Zenon DEF Flags
<1>3. Types' /\ Queued' /\ Running' /\ Calling'
  BY <1>0, <1>1, SMTT(30) DEF Types, Queued, Running, Calling, Gone
<1> QED BY <1>2, <1>3 DEF IInv

LEMMA XlibStep == ASSUME IInv, Xlib PROVE IInv'
<1>0. Flags /\ Types /\ Queued /\ Running /\ Calling
  BY DEF IInv
<1>1. /\ owner = "xlib" /\ ran' = [ran EXCEPT ![running] = @ + 1] /\ owner' = "unlock"
      /\ UNCHANGED <<pc, kind, jobs, done, running, xmu, polls>>
  BY DEF Xlib
<1>2. Flags'
  BY <1>0, <1>1, Zenon DEF Flags
<1>3. /\ running \in Callers /\ ran[running] = 0 /\ pc[running] = "wait" /\ ~done[running]
  BY <1>0, <1>1 DEF Running, Types
<1>4. ran'[running] = 1 /\ \A c \in Callers \ {running} : ran'[c] = ran[c]
  BY <1>0, <1>1, <1>3 DEF Types
<1>5. Types'
  BY <1>0, <1>1, <1>3 DEF Types
<1>6. \A i \in 1 .. Len(jobs) : jobs[i] \in Callers \ {running}
  <2>1. \A i \in 1 .. Len(jobs) : jobs[i] \in Callers
    BY <1>0, ElementOfSeq DEF Types
  <2> QED BY <1>0, <2>1 DEF Queued
<1>7. Queued'
  BY <1>0, <1>1, <1>4, <1>6 DEF Queued
<1>8. Running'
  BY <1>0, <1>1, <1>3, <1>4, SMTT(30) DEF Running
<1>9. Calling'
  BY <1>0, <1>1, <1>3, <1>4 DEF Calling, Gone
<1> QED BY <1>2, <1>5, <1>7, <1>8, <1>9 DEF IInv

LEMMA UnlockStep == ASSUME IInv, Unlock PROVE IInv'
<1>0. Flags /\ Types /\ Queued /\ Running /\ Calling
  BY DEF IInv
<1>1. /\ owner = "unlock" /\ xmu' = FALSE /\ polls' = 0 /\ owner' \in {"finish", "poll"}
      /\ UNCHANGED <<pc, kind, jobs, done, ran, running>>
  BY DEF Unlock
<1>2. Flags'
  BY <1>0, <1>1, Zenon DEF Flags
<1>3. Types'
  BY <1>0, <1>1, OwnerAssumption, SMTT(30) DEF Types
<1>4. Queued' /\ Running' /\ Calling'
  BY <1>0, <1>1 DEF Queued, Running, Calling, Gone
<1> QED BY <1>2, <1>3, <1>4 DEF IInv

LEMMA PollStep == ASSUME IInv, Poll PROVE IInv'
<1>0. Flags /\ Types /\ Queued /\ Running /\ Calling
  BY DEF IInv
<1>1. /\ owner = "poll" /\ polls' = polls + 1
      /\ owner' = "finish" \/ (polls' < MaxPolls /\ owner' = "poll")
      /\ UNCHANGED <<pc, kind, jobs, done, ran, running, xmu>>
  BY DEF Poll
<1>2. Flags'
  BY <1>0, <1>1, Zenon DEF Flags
<1>3. Types'
  BY <1>0, <1>1, OwnerAssumption DEF Types
<1>4. Queued' /\ Running' /\ Calling'
  BY <1>0, <1>1 DEF Queued, Running, Calling, Gone
<1> QED BY <1>2, <1>3, <1>4 DEF IInv

(* The two ways a closure ends: done is closed and nothing runs any more.    *)
LEMMA ClosedStep ==
  ASSUME IInv, running \in Callers, Flags',
         (owner' = "recv" /\ ran[running] = 1) \/ owner' = "exiting",
         done' = [done EXCEPT ![running] = TRUE], running' = NoCaller,
         UNCHANGED <<pc, kind, jobs, ran, polls>>
  PROVE  IInv'
<1>0. Flags /\ Types /\ Queued /\ Running /\ Calling
  BY DEF IInv
<1>1. done'[running] /\ \A c \in Callers \ {running} : done'[c] = done[c]
  BY <1>0 DEF Flags
<1>2. Types'
  BY <1>0 DEF Types
<1>3. \A i \in 1 .. Len(jobs) : jobs[i] \in Callers \ {running} /\ jobs[i] # NoCaller
  <2>1. \A i \in 1 .. Len(jobs) : jobs[i] \in Callers
    BY <1>0, ElementOfSeq DEF Types
  <2> QED BY <1>0, <2>1, OwnerAssumption DEF Queued
<1>4. Queued'
  BY <1>0, <1>1, <1>3 DEF Queued
<1>5. Running'
  BY DEF Running
<1>6. pc[running] = "wait" /\ owner \in {"lock", "xlib", "unlock", "poll", "finish"}
  BY <1>0, OwnerAssumption DEF Running
<1>7. Calling'
  BY <1>0, <1>1, <1>6 DEF Calling, Gone
<1> QED BY <1>2, <1>4, <1>5, <1>7 DEF IInv

LEMMA FinishStep == ASSUME IInv, Finish PROVE IInv'
<1>1. Flags'
  BY Zenon DEF IInv, Flags, Finish
<1>2. running \in Callers /\ ran[running] = 1
  BY DEF IInv, Finish, Running, Types
<1> QED BY <1>1, <1>2, ClosedStep DEF Finish

LEMMA PanicStep == ASSUME IInv, Panic PROVE IInv'
<1>1. Flags'
  BY Zenon DEF IInv, Flags, Panic
<1>2. running \in Callers
  BY DEF IInv, Panic, Running, Types
<1> QED BY <1>1, <1>2, ClosedStep DEF Panic

LEMMA ExitStep == ASSUME IInv, Exit PROVE IInv'
<1>0. Flags /\ Types /\ Queued /\ Running /\ Calling
  BY DEF IInv
<1>1. /\ owner = "exiting" /\ owner' = "exited"
      /\ UNCHANGED <<pc, kind, jobs, done, ran, running, xmu, polls>>
  BY DEF Exit
<1>2. Flags'
  BY <1>0, <1>1, ZenonT(60) DEF Flags
<1>3. Types' /\ Queued' /\ Running' /\ Calling'
  BY <1>0, <1>1 DEF Types, Queued, Running, Calling, Gone
<1> QED BY <1>2, <1>3 DEF IInv

LEMMA NextIInv == IInv /\ [Next]_vars => IInv'
<1> SUFFICES ASSUME IInv, [Next]_vars PROVE IInv'
  OBVIOUS
<1>1. ASSUME NEW c \in Callers, Caller(c) PROVE IInv'
  BY <1>1, EnqueueStep, ReturnStep DEF Caller
<1>2. ASSUME NEW c \in Callers, NEW k \in {"plain", "warp"}, Call(c, k) PROVE IInv'
  BY <1>2, CallStep
<1>3. CASE Owner
  BY <1>3, TakeStep, LockStep, XlibStep, UnlockStep, PollStep, FinishStep, PanicStep,
     ExitStep, SMTT(30) DEF Owner
<1>4. CASE UNCHANGED vars
  <2>1. Flags'
    BY <1>4, ZenonT(60) DEF IInv, Flags, vars
  <2>2. Types' /\ Queued' /\ Running' /\ Calling'
    BY <1>4 DEF IInv, Types, Queued, Running, Calling, Gone, vars
  <2> QED BY <2>1, <2>2 DEF IInv
<1> QED BY <1>1, <1>2, <1>3, <1>4, Zenon DEF Next

THEOREM OwnerInvariant == Spec => []IInv
BY InitIInv, NextIInv, PTL DEF Spec

(* Every variable keeps its type, and waitPointer stops polling at its       *)
(* deadline.                                                                 *)
THEOREM OwnerTypeCorrect == Spec => []TypeOK
<1>1. IInv => TypeOK
  <2> SUFFICES ASSUME IInv PROVE TypeOK
    OBVIOUS
  <2>1. Flags /\ Types
    BY DEF IInv
  <2> QED BY <2>1, Zenon DEF Flags, Types, TypeOK
<1> QED BY <1>1, OwnerInvariant, PTL

(* xOwner.call returns only after its closure took effect, exactly once,     *)
(* unless the process is exiting.                                            *)
THEOREM OwnerReturnsAfterEffect == Spec => []ReturnsAfterEffect
<1>1. IInv => ReturnsAfterEffect
  BY DEF IInv, Calling, Gone, ReturnsAfterEffect
<1> QED BY <1>1, OwnerInvariant, PTL

(* A channel with room for one closure per connection never makes a          *)
(* goroutine wait: the queue is an injection into the other callers.         *)
THEOREM OwnerQueueHasRoom == Spec => []QueueHasRoom
<1>1. IInv => QueueHasRoom
  <2> SUFFICES ASSUME IInv, Cardinality(Callers) <= QueueCap,
                      NEW c \in Callers, pc[c] = "send"
               PROVE  Len(jobs) < QueueCap
    BY DEF QueueHasRoom
  <2>0. Types /\ Queued
    BY DEF IInv
  <2>1. \A i \in 1 .. Len(jobs) : jobs[i] \in Callers \ {c}
    <3>1. \A i \in 1 .. Len(jobs) : jobs[i] \in Callers
      BY <2>0, ElementOfSeq DEF Types
    <3> QED BY <2>0, <3>1 DEF Queued
  <2>2. jobs \in [1 .. Len(jobs) -> Callers \ {c}]
    <3>1. jobs \in [1 .. Len(jobs) -> Callers]
      BY <2>0, LenProperties DEF Types
    <3> QED BY <2>1, <3>1
  <2>3. IsInjective(jobs)
    BY <2>0 DEF Types, Queued, IsInjective
  <2>4. jobs \in Injection(1 .. Len(jobs), Callers \ {c})
    BY <2>2, <2>3 DEF Injection
  <2>5. IsFiniteSet(Callers \ {c}) /\ Cardinality(Callers \ {c}) = Cardinality(Callers) - 1
    BY FS_RemoveElement, OwnerAssumption, SMTT(30)
  <2>6. Cardinality(1 .. Len(jobs)) <= Cardinality(Callers \ {c})
    BY <2>4, <2>5, FS_Injection, Zenon
  <2>7. Len(jobs) \in Nat /\ Cardinality(1 .. Len(jobs)) = Len(jobs)
    <3>1. Len(jobs) \in Nat
      BY <2>0 DEF Types
    <3>2. Cardinality(1 .. Len(jobs)) = IF 1 > Len(jobs) THEN 0 ELSE Len(jobs) - 1 + 1
      BY <3>1, FS_Interval, SMTT(30)
    <3> QED BY <3>1, <3>2
  <2>8. Cardinality(Callers) \in Nat
    BY FS_CardinalityType, OwnerAssumption
  <2> QED BY <2>5, <2>6, <2>7, <2>8, OwnerAssumption
<1> QED BY <1>1, OwnerInvariant, PTL

(* No closure is lost or queued twice: a waiting call is in exactly one of   *)
(* the channel, the owner's hands and the calls already done.                *)
THEOREM OwnerKeepsCalls == Spec => []CallIsSomewhere
<1>1. IInv => CallIsSomewhere
  <2> SUFFICES ASSUME IInv, NEW c \in Callers, pc[c] = "wait"
               PROVE  Cardinality({i \in DOMAIN jobs : jobs[i] = c})
                      + (IF running = c THEN 1 ELSE 0) + (IF done[c] THEN 1 ELSE 0) = 1
    BY Zenon DEF CallIsSomewhere
  <2>0. Types /\ Queued /\ Running /\ Calling
    BY DEF IInv
  <2> DEFINE S == {i \in DOMAIN jobs : jobs[i] = c}
  <2>1. CASE \E i \in 1 .. Len(jobs) : jobs[i] = c
    <3>1. PICK i \in 1 .. Len(jobs) : jobs[i] = c
      BY <2>1
    <3>2. S = {i}
      BY <2>0, <3>1 DEF Types, Queued
    <3>3. Cardinality(S) = 1
      BY <3>2, FS_Singleton, Zenon
    <3>4. running # c /\ ~done[c]
      BY <2>0, <3>1 DEF Queued
    <3> QED BY <3>3, <3>4
  <2>2. CASE ~\E i \in 1 .. Len(jobs) : jobs[i] = c
    <3>1. S = {}
      BY <2>0, <2>2 DEF Types
    <3>2. Cardinality(S) = 0
      BY <3>1, FS_EmptySet
    <3>3. running = c \/ done[c]
      BY <2>0, <2>2, Zenon DEF Calling
    <3>4. running = c => ~done[c]
      BY <2>0, OwnerAssumption DEF Running
    <3> QED BY <3>2, <3>3, <3>4
  <2> QED BY <2>1, <2>2
<1> QED BY <1>1, OwnerInvariant, PTL

-----------------------------------------------------------------------------
(* The refinement: the Xlib step is the effect, every other step of the      *)
(* owner but a panic is unseen.                                              *)

Phase == [c \in Callers |-> IF pc[c] \in {"out", "back"} THEN "out"
                            ELSE IF ran[c] = 0 THEN "asked" ELSE "done"]

LEMMA CallerSeen ==
  ASSUME IInv, NEW c \in Callers,
         Enqueue(c) \/ Return(c) \/ \E k \in {"plain", "warp"} : Call(c, k)
  PROVE  [Calls!Next]_<<Phase, Gone>>
<1>0. Types /\ Calling
  BY DEF IInv
<1>1. CASE Enqueue(c)
  BY <1>0, <1>1 DEF Enqueue, Types, Phase, Gone
<1>2. CASE Return(c)
  <2>1. Phase[c] = "done" \/ (Phase[c] = "asked" /\ Gone)
    BY <1>0, <1>2 DEF Return, Calling, Phase
  <2>2. Phase' = [Phase EXCEPT ![c] = "out"] /\ UNCHANGED Gone
    BY <1>0, <1>2, Zenon DEF Return, Types, Phase, Gone
  <2> QED BY <2>1, <2>2, ZenonT(60) DEF Calls!Next, Calls!Return, Phase, Gone
<1>3. CASE \E k \in {"plain", "warp"} : Call(c, k)
  <2>1. Phase[c] = "out"
    BY <1>3 DEF Call, Phase
  <2>2. Phase' = [Phase EXCEPT ![c] = "asked"] /\ UNCHANGED Gone
    <3>1. /\ pc'[c] = "send" /\ ran'[c] = 0
          /\ \A d \in Callers \ {c} : pc'[d] = pc[d] /\ ran'[d] = ran[d]
      BY <1>0, <1>3, ZenonT(60) DEF Call, Types
    <3>2. Phase'[c] = "asked" /\ \A d \in Callers \ {c} : Phase'[d] = Phase[d]
      BY <3>1 DEF Phase
    <3>3. Phase' = [Phase EXCEPT ![c] = "asked"]
      BY <3>2, Zenon DEF Phase
    <3> QED BY <1>3, <3>3 DEF Call, Gone
  <2> QED BY <2>1, <2>2, Zenon DEF Calls!Next, Calls!Ask, Phase, Gone
<1> QED BY <1>1, <1>2, <1>3

LEMMA OwnerSeen == ASSUME IInv, Owner PROVE [Calls!Next]_<<Phase, Gone>>
<1>0. Types /\ Running
  BY DEF IInv
<1>1. CASE Take \/ Lock \/ Unlock \/ Poll \/ Finish \/ Exit
  BY <1>0, <1>1 DEF Take, Lock, Unlock, Poll, Finish, Exit, Phase, Gone
<1>2. CASE Xlib
  <2>1. running \in Callers /\ pc[running] = "wait" /\ ran[running] = 0
    BY <1>0, <1>2 DEF Xlib, Running, Types
  <2>2. Phase[running] = "asked" /\ ~Gone
    BY <1>2, <2>1 DEF Xlib, Phase, Gone
  <2>3. Phase' = [Phase EXCEPT ![running] = "done"] /\ UNCHANGED Gone
    <3>1. /\ pc' = pc /\ ran'[running] = 1
          /\ \A d \in Callers \ {running} : ran'[d] = ran[d]
      BY <1>0, <1>2, <2>1 DEF Xlib, Types
    <3>2. Phase'[running] = "done" /\ \A d \in Callers \ {running} : Phase'[d] = Phase[d]
      BY <2>1, <3>1 DEF Phase
    <3>3. Phase' = [Phase EXCEPT ![running] = "done"]
      BY <3>2, Zenon DEF Phase
    <3> QED BY <1>2, <3>3 DEF Xlib, Gone
  <2> QED BY <2>1, <2>2, <2>3, Zenon DEF Calls!Next, Calls!Effect, Phase, Gone
<1>3. CASE Panic
  <2>1. ~Gone /\ (Gone' = TRUE) /\ UNCHANGED Phase
    BY <1>3 DEF Panic, Phase, Gone
  <2> QED BY <2>1, Zenon DEF Calls!Next, Calls!Break, Phase, Gone
<1> QED BY <1>1, <1>2, <1>3 DEF Owner

(* The queue, the thread and the done channels implement calls that take     *)
(* effect in one step.                                                       *)
THEOREM OwnerImplementsCalls == Spec => ImplementsCalls
<1>1. Init => Calls!Init
  BY DEF Init, Calls!Init
<1>2. IInv /\ [Next]_vars => [Calls!Next]_<<Phase, Gone>>
  <2> SUFFICES ASSUME IInv, [Next]_vars PROVE [Calls!Next]_<<Phase, Gone>>
    BY Zenon
  <2>1. CASE UNCHANGED vars
    BY <2>1 DEF vars, Phase, Gone
  <2> QED BY <2>1, CallerSeen, OwnerSeen, Zenon DEF Next, Caller
<1> QED BY <1>1, <1>2, OwnerInvariant, PTL DEF Spec, ImplementsCalls, Calls!Spec, Phase, Gone

-----------------------------------------------------------------------------
(* How long a call waits. *)

(* xmu is held only during the Xlib calls, or by a process on its way out. *)
HeldInside == xmu => owner \in {"xlib", "unlock"} \/ Gone
NeverBlocked == owner = "lock" => ~xmu

(* startXOwner: the owner thread never waits for xmu, so never for itself:    *)
(* every closure gives it back, and the one that does not (WarpMouse in a      *)
(* panic) is the last one.                                                   *)
THEOREM OwnerIsNeverBlocked == Spec => []NeverBlocked
<1>1. Init => HeldInside
  BY DEF Init, HeldInside
<1>2. HeldInside /\ [Next]_vars => HeldInside'
  <2> SUFFICES ASSUME HeldInside, [Next]_vars PROVE HeldInside'
    OBVIOUS
  <2>1. CASE Owner
    BY <2>1, Zenon DEF HeldInside, Gone, Owner, Take, Lock, Xlib, Unlock, Poll, Finish, Panic, Exit
  <2>2. CASE UNCHANGED <<owner, xmu>>
    BY <2>2 DEF HeldInside, Gone
  <2> QED BY <2>1, <2>2, Zenon DEF Next, Caller, Call, Enqueue, Return, vars
<1>3. HeldInside => NeverBlocked
  BY DEF HeldInside, NeverBlocked, Gone
<1> QED BY <1>1, <1>2, <1>3, PTL DEF Spec

(* The steps the owner has still to take at most for the closure it runs. *)
WorkLeft ==
  CASE owner = "lock"    -> MaxPolls + 4
    [] owner = "xlib"    -> MaxPolls + 3
    [] owner = "unlock"  -> MaxPolls + 2
    [] owner = "poll"    -> MaxPolls - polls + 1
    [] owner = "finish"  -> 1
    [] owner = "exiting" -> 1
    [] OTHER             -> 0

(* The owner has rested, or has come nearer to the end of the closure. *)
Nearer == UNCHANGED <<owner, polls>> \/ WorkLeft' < WorkLeft

(* A step moves a queued closure to no later place, and a step of the owner   *)
(* brings it nearer: the owner works, or the whole queue moves up by one.     *)
InTurn ==
  \A k \in DOMAIN jobs :
    \/ k \in DOMAIN jobs' /\ jobs'[k] = jobs[k] /\ Nearer
    \/ k - 1 \in DOMAIN jobs' /\ jobs'[k - 1] = jobs[k]
    \/ k = 1 /\ running' = jobs[k]

(* The closure that runs goes on or is done. *)
RunsOn == running # NoCaller => (running' = running /\ Nearer) \/ done'[running]

LEMMA WorkShrinks ==
  ASSUME Types, Owner PROVE Take \/ WorkLeft' < WorkLeft
<1>1. /\ MaxPolls \in Nat \ {0} /\ polls \in 0 .. MaxPolls
      /\ owner = "poll" => polls < MaxPolls
  BY OwnerAssumption DEF Types
<1>2. CASE Lock \/ Xlib
  BY <1>1, <1>2 DEF Lock, Xlib, WorkLeft
<1>3. CASE Unlock
  BY <1>1, <1>3 DEF Unlock, WorkLeft
<1>4. CASE Poll
  <2>1. owner = "poll" /\ polls' = polls + 1 /\ owner' \in {"poll", "finish"}
    BY <1>4 DEF Poll
  <2> QED BY <1>1, <2>1 DEF WorkLeft
<1>5. CASE Finish \/ Panic \/ Exit
  BY <1>1, <1>5 DEF Finish, Panic, Exit, WorkLeft
<1> QED BY <1>2, <1>3, <1>4, <1>5, Zenon DEF Owner

(* xOwner.call and startXOwner: calls are served in the order in which they    *)
(* were sent, none is overtaken, and every step of the owner brings the        *)
(* next one nearer, for any number of callers.  At most MaxPolls + 5 steps of  *)
(* the owner go by for each closure in front: with the fairness of FairSpec    *)
(* that is EveryCallReturns.                                                  *)
THEOREM OwnerServesInTurn ==
  Spec => [](WorkLeft \in 0 .. MaxPolls + 4) /\ [][InTurn /\ RunsOn]_vars
<1>1. IInv => WorkLeft \in 0 .. MaxPolls + 4
  BY OwnerAssumption, SMTT(30) DEF IInv, Types, WorkLeft
<1>2. ASSUME IInv, [Next]_vars PROVE [InTurn /\ RunsOn]_vars
  <2>0. Types /\ Running /\ Queued /\ jobs \in Seq(Callers) /\ DOMAIN jobs = 1 .. Len(jobs)
        /\ Len(jobs) \in Nat
    BY <1>2 DEF IInv, Types
  <2>1. CASE UNCHANGED vars
    BY <2>1, Zenon
  <2>2. CASE UNCHANGED <<jobs, owner, polls, running>>
    BY <2>2, Zenon DEF InTurn, RunsOn, Nearer
  <2>3. ASSUME NEW c \in Callers, Enqueue(c) PROVE InTurn /\ RunsOn
    <3>1. jobs' = Append(jobs, c) /\ UNCHANGED <<owner, polls, running>>
      BY <2>3 DEF Enqueue
    <3>2. /\ Len(jobs') = Len(jobs) + 1 /\ \A k \in 1 .. Len(jobs) : jobs'[k] = jobs[k]
          /\ DOMAIN jobs' = 1 .. Len(jobs')
      BY <2>0, <3>1, AppendProperties
    <3>3. \A k \in DOMAIN jobs : k \in DOMAIN jobs' /\ jobs'[k] = jobs[k]
      BY <2>0, <3>2
    <3> QED BY <3>1, <3>3, Zenon DEF InTurn, RunsOn, Nearer
  <2>4. CASE Take
    <3>1. /\ jobs # <<>> /\ running' = Head(jobs) /\ jobs' = Tail(jobs) /\ owner = "recv"
      BY <2>4 DEF Take
    <3>2. /\ Head(jobs) = jobs[1] /\ Len(jobs') = Len(jobs) - 1 /\ DOMAIN jobs' = 1 .. Len(jobs')
          /\ \A k \in 1 .. Len(jobs') : jobs'[k] = jobs[k + 1]
      BY <2>0, <3>1, HeadTailProperties
    <3>3. ASSUME NEW k \in DOMAIN jobs, k # 1
          PROVE  k - 1 \in DOMAIN jobs' /\ jobs'[k - 1] = jobs[k]
      BY <2>0, <3>2, <3>3
    <3>4. running = NoCaller
      BY <2>0, <3>1 DEF Running
    <3> QED BY <3>1, <3>2, <3>3, <3>4, Zenon DEF InTurn, RunsOn
  <2>5. ASSUME Owner, ~Take PROVE InTurn /\ RunsOn
    <3>1. WorkLeft' < WorkLeft
      BY <2>0, <2>5, WorkShrinks, Zenon
    <3>2. UNCHANGED jobs
      BY <2>5, Zenon DEF Owner, Lock, Xlib, Unlock, Poll, Finish, Panic, Exit
    <3>3. CASE running' = running
      BY <3>1, <3>2, <3>3, Zenon DEF InTurn, RunsOn, Nearer
    <3>4. CASE done' = [done EXCEPT ![running] = TRUE]
      <4>1. running # NoCaller => done'[running]
        BY <1>2, <2>0, <3>4, Zenon DEF IInv, Flags, Types
      <4> QED BY <3>1, <3>2, <4>1, Zenon DEF InTurn, RunsOn, Nearer
    <3> QED BY <2>5, <3>3, <3>4, Zenon DEF Owner, Lock, Xlib, Unlock, Poll, Finish, Panic, Exit
  <2> QED BY <1>2, <2>1, <2>2, <2>3, <2>4, <2>5, Zenon DEF Next, Caller, Call, Return
<1>3. IInv /\ [Next]_vars => [InTurn /\ RunsOn]_vars
  BY <1>2
<1> QED BY <1>1, <1>3, OwnerInvariant, PTL DEF Spec
=============================================================================
