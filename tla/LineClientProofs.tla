-------------------------- MODULE LineClientProofs --------------------------
(***************************************************************************)
(* The legacy client for any number of goroutines, calls and lines and for   *)
(* a socket of any size.                                                    *)
(***************************************************************************)
EXTENDS LineClient, SequenceTheorems, TLAPS

(* The type invariant in two parts, one for each kind of reasoning. *)
Flags == {stdout, waiting, ready, deadline, fin, broken} \subseteq BOOLEAN
         /\ timed \in [Threads -> BOOLEAN]
Types ==
  /\ daemon \in {"starting", "listening", "serving", "dead"}
  /\ conn \in Conns
  /\ acc \in Seq(Pieces)
  /\ done \in Seq(Seq(Pieces))
  /\ waits \in 0..MaxWaits
  /\ orphans \in 0..MaxWaits
  /\ open \in {"no", "yes", "closed"}
  /\ mu \in Threads \cup {NoThread}
  /\ pc \in [Threads -> {"idle", "lock", "text", "rest"}]
  /\ op \in [Threads -> {"line", "bad", "close"}]
  /\ calls \in [Threads -> 0..MaxCalls]
  /\ res \in [Threads -> {"nil", "error", "timeout", "closed", "refused"}]
  /\ wire \in Seq(Pieces) /\ Len(wire) <= Room
  /\ ok \in Seq(Lines)

(* A goroutine is left behind only by a call that was made. *)
Waits == orphans + (IF waiting THEN 1 ELSE 0) <= waits

(* Client.mu: one goroutine is inside WriteLine's write, and it holds mu;    *)
(* while it is there nobody closes the connection.                          *)
Mutex ==
  /\ \A t \in Threads : pc[t] \in {"text", "rest"} <=> mu = t
  /\ mu # NoThread => open = "yes"
  /\ fin <=> open = "closed"

(* A goroutine inside a call has made one. *)
Called == \A t \in Threads : pc[t] # "idle" => calls[t] # 0

(* A write deadline is that of the call that holds mu. *)
Timed == deadline => mu # NoThread /\ timed[mu]

(* The pieces of the connection, read (acc) or not (wire), are those of the   *)
(* lines in ok that were not executed yet, and the first half of the line     *)
(* that is being written.                                                    *)
TextOf(l) == [line |-> l, part |-> "text"]
RestOf(l) == [line |-> l, part |-> "rest"]
Current == <<mu, calls[mu]>>
Half == IF mu # NoThread /\ pc[mu] = "rest" THEN 1 ELSE 0
Pending == Len(ok) - Len(done)

Executed ==
  /\ Len(done) <= Len(ok)
  /\ \A i \in 1 .. Len(done) : done[i] = Whole(ok[i])

Flow ==
  /\ Len(acc) \in {0, 1}
  /\ Len(acc) + Len(wire) = 2 * Pending + Half
  /\ \A k \in 1 .. Pending :
       /\ 2 * k - 1 > Len(acc) => wire[2 * k - 1 - Len(acc)] = TextOf(ok[Len(done) + k])
       /\ wire[2 * k - Len(acc)] = RestOf(ok[Len(done) + k])
  /\ Len(acc) = 1 =>
       acc[1] = TextOf(IF Pending = 0 THEN Current ELSE ok[Len(done) + 1])
  /\ Half = 1 /\ Len(wire) > 0 => wire[Len(wire)] = TextOf(Current)

(* Somebody reads the connection, or will. *)
Live == daemon # "dead" /\ ~Unserved

IInv ==
  /\ Flags /\ Types /\ Waits /\ Mutex /\ Called /\ Timed
  /\ ~broken => Executed
  /\ ~broken /\ Live => Flow

-----------------------------------------------------------------------------
LEMMA TypeParts == TypeOK <=> Flags /\ Types
<1>1. TypeOK => Flags
  BY Zenon DEF TypeOK, Flags
<1>2. TypeOK => Types
  BY Zenon DEF TypeOK, Types
<1>3. Flags /\ Types => TypeOK
  BY Zenon DEF TypeOK, Flags, Types
<1> QED BY <1>1, <1>2, <1>3

LEMMA Lengths ==
  ASSUME Types
  PROVE  /\ Len(acc) \in Nat /\ Len(done) \in Nat /\ Len(wire) \in Nat /\ Len(ok) \in Nat
         /\ DOMAIN done = 1 .. Len(done) /\ DOMAIN ok = 1 .. Len(ok)
BY DEF Types

LEMMA InitIInv == Init => IInv
<1> SUFFICES ASSUME Init PROVE IInv
  OBVIOUS
<1>1. Flags
  BY Zenon DEF Init, Flags
<1>2. Types
  BY LineClientAssumption DEF Init, Types, Conns
<1>3. Waits /\ Mutex /\ Called /\ Timed
  BY LineClientAssumption DEF Init, Waits, Mutex, Called, Timed
<1>4. Executed /\ Flow
  BY DEF Init, Executed, Flow, Pending, Half
<1> QED BY <1>1, <1>2, <1>3, <1>4 DEF IInv

(* The connection does not notice a step that leaves the line being written   *)
(* as it is.                                                                 *)
LEMMA FlowStays ==
  ASSUME Types, UNCHANGED <<acc, done, wire, ok>>, Half' = Half,
         Half = 1 => Current' = Current
  PROVE  (Executed => Executed') /\ (Flow => Flow')
<1>1. Pending' = Pending
  BY DEF Pending
<1>2. Half \in {0, 1}
  BY DEF Half
<1>3. Executed => Executed'
  BY Zenon DEF Executed, Whole
<1>4. ASSUME Flow PROVE Flow'
  <2>1. Len(acc) = 1 /\ Pending = 0 => Half = 1
    BY <1>2, <1>4, Lengths DEF Flow
  <2>2. Len(acc) = 1 =>
          acc[1] = TextOf(IF Pending = 0 THEN Current' ELSE ok[Len(done) + 1])
    BY <1>4, <2>1 DEF Flow
  <2> QED BY <1>1, <1>4, <2>2 DEF Flow, TextOf, RestOf
<1> QED BY <1>3, <1>4

(* A step that does not enter or leave WriteLine's write. *)
LEMMA Aside ==
  ASSUME IInv, Flags', Types', Waits', Called', UNCHANGED <<mu, deadline, timed, done, ok, broken>>,
         Live' => Live /\ UNCHANGED <<acc, wire>>,
         \A t \in Threads : pc[t] \in {"text", "rest"} \/ pc'[t] \in {"text", "rest"}
                              => pc'[t] = pc[t] /\ calls'[t] = calls[t],
         mu # NoThread => open' = "yes", fin' <=> open' = "closed"
  PROVE  IInv'
<1>0. Types /\ Mutex /\ Timed
  BY DEF IInv
<1>1. Mutex'
  BY <1>0 DEF Mutex
<1>2. Timed'
  BY <1>0, Zenon DEF Timed
<1>3. Half' = Half /\ (Half = 1 => Current' = Current)
  BY <1>0, SMTT(30) DEF Half, Current, Types
<1>4. Executed => Executed'
  BY DEF Executed, Whole
<1>5. Live' => Live /\ (Flow => Flow')
  BY <1>0, <1>3, FlowStays
<1> QED BY <1>1, <1>2, <1>4, <1>5, Zenon DEF IInv

(* The daemon's start and exit, and WaitReady. *)
LEMMA DaemonStep ==
  ASSUME IInv, Listen \/ PrintReady \/ Die \/ WaitReady \/ Cancelled \/ SeeReady
               \/ OrphanSees \/ SeeEOF
  PROVE  IInv'
<1>0. Flags /\ Types /\ Waits /\ Mutex /\ Called
  BY DEF IInv
<1>1. UNCHANGED <<client, fin, ok, broken, done, conn>>
  BY DEF Listen, PrintReady, Die, WaitReady, Cancelled, SeeReady, OrphanSees, SeeEOF, server, wait
<1>2. UNCHANGED <<open, mu, deadline, pc, op, timed, calls, res, fin, ok, broken, done, conn>>
  BY <1>1 DEF client
<1>3. {stdout, waiting, ready} \subseteq BOOLEAN
  BY <1>0, Zenon DEF Flags
<1>4. {stdout', waiting', ready'} \subseteq BOOLEAN
  BY <1>3, Zenon DEF Listen, PrintReady, Die, WaitReady, Cancelled, SeeReady, OrphanSees, SeeEOF, server, wait
<1>5. Flags'
  BY <1>0, <1>2, <1>4, Zenon DEF Flags
<1>6. Waits' /\ waits' \in 0..MaxWaits /\ orphans' \in 0..MaxWaits
  BY <1>0, LineClientAssumption, SMTT(30)
  DEF Listen, PrintReady, Die, WaitReady, Cancelled, SeeReady, OrphanSees, SeeEOF, server, wait, Waits, Types
<1>7. /\ daemon' \in {"starting", "listening", "serving", "dead"}
      /\ Live' => Live /\ UNCHANGED <<acc, wire>>
      /\ acc' = acc \/ acc' = <<>>
      /\ wire' = wire \/ wire' = <<>>
  BY <1>0, <1>1
  DEF Listen, PrintReady, Die, WaitReady, Cancelled, SeeReady, OrphanSees, SeeEOF, server, wait, Types,
      Live, Unserved
<1>8. Types'
  <2>1. acc' \in Seq(Pieces) /\ wire' \in Seq(Pieces) /\ Len(wire') <= Room
    <3>1. <<>> \in Seq(Pieces) /\ Len(<<>>) = 0
      BY EmptySeq, Zenon
    <3>2. 0 <= Room
      BY LineClientAssumption
    <3> QED BY <1>0, <1>7, <3>1, <3>2, Zenon DEF Types
  <2> QED BY <1>0, <1>2, <1>6, <1>7, <2>1, Zenon DEF Types
<1>9. Called'
  BY <1>0, <1>2, SMTT(30) DEF Called
<1> QED BY <1>0, <1>2, <1>5, <1>6, <1>7, <1>8, <1>9, Aside DEF Mutex

LEMMA DialStep == ASSUME IInv, Dial PROVE IInv'
<1>0. Flags /\ Types /\ Waits /\ Mutex /\ Called
  BY DEF IInv
<1>1. /\ open = "no" /\ open' = "yes"
      /\ UNCHANGED <<daemon, stdout, acc, done, conn, waits, waiting, orphans, ready>>
      /\ UNCHANGED <<mu, deadline, pc, op, timed, calls, res, wire, fin, ok, broken>>
  BY DEF Dial, server, wait
<1>2. Flags'
  BY <1>0, <1>1, Zenon DEF Flags
<1>3. Types'
  BY <1>0, <1>1, Zenon DEF Types
<1>4. Waits' /\ Called'
  BY <1>0, <1>1 DEF Waits, Called
<1>5. fin' <=> open' = "closed"
  BY <1>0, <1>1 DEF Mutex
<1>6. Live' => Live
  BY <1>1 DEF Live, Unserved
<1> QED BY <1>1, <1>2, <1>3, <1>4, <1>5, <1>6, Aside

(* What becomes of the connection before the scanner has it, and behind a     *)
(* line that is too long.                                                    *)
LEMMA ServeStep ==
  ASSUME IInv, Accept \/ Refuse \/ Sniff \/ SniffEOF \/ ReadTooLong
  PROVE  IInv'
<1>0. Flags /\ Types /\ Waits /\ Mutex /\ Called
  BY DEF IInv
<1>1. /\ UNCHANGED <<daemon, stdout, done, wait, client, fin, ok, broken>>
      /\ \/ conn \in {"queued", "sniff"} /\ conn' \in {"sniff", "scan"} /\ UNCHANGED <<acc, wire>>
         \/ conn' \in {"full", "short", "http", "toolong"} /\ acc' = <<>> /\ wire' = <<>>
  BY Zenon DEF Accept, Refuse, Sniff, SniffEOF, ReadTooLong, Drop
<1>2. UNCHANGED <<open, mu, deadline, pc, op, timed, calls, res, waits, waiting, orphans, ready>>
  BY <1>1 DEF client, wait
<1>3. Flags'
  BY <1>0, <1>1, <1>2, Zenon DEF Flags
<1>4. Types'
  <2>1. <<>> \in Seq(Pieces) /\ Len(<<>>) = 0 /\ 0 <= Room
    BY EmptySeq, LineClientAssumption
  <2>2. acc' \in Seq(Pieces) /\ wire' \in Seq(Pieces) /\ Len(wire') <= Room
    BY <1>0, <1>1, <2>1, Zenon DEF Types
  <2>3. conn' \in Conns
    BY <1>1 DEF Conns
  <2> QED BY <1>0, <1>1, <1>2, <2>2, <2>3, ZenonT(60) DEF Types
<1>5. Waits' /\ Called'
  BY <1>0, <1>2 DEF Waits, Called
<1>6. Live' => Live /\ UNCHANGED <<acc, wire>>
  BY <1>1 DEF Live, Unserved
<1> QED BY <1>0, <1>1, <1>2, <1>3, <1>4, <1>5, <1>6, Aside DEF Mutex

(* A call begins, or ends without a write. *)
LEMMA CallStep ==
  ASSUME IInv, NEW t \in Threads, NEW o \in {"line", "bad", "close"}, NEW d \in BOOLEAN, Call(t, o, d)
  PROVE  IInv'
<1>0. Flags /\ Types /\ Waits /\ Mutex /\ Called /\ Timed
  BY DEF IInv
<1>1. /\ pc[t] = "idle" /\ calls[t] < MaxCalls
      /\ calls' = [calls EXCEPT ![t] = @ + 1] /\ op' = [op EXCEPT ![t] = o]
      /\ timed' = [timed EXCEPT ![t] = d] /\ pc' = [pc EXCEPT ![t] = "lock"]
      /\ UNCHANGED <<daemon, stdout, acc, done, conn, waits, waiting, orphans, ready>>
      /\ UNCHANGED <<open, mu, deadline, res, wire, fin, ok, broken>>
  BY DEF Call, server, wait
<1>2. Flags'
  BY <1>0, <1>1, Zenon DEF Flags
<1>3. Types'
  <2>1. calls' \in [Threads -> 0..MaxCalls]
    BY <1>0, <1>1, LineClientAssumption, SMTT(30) DEF Types
  <2>2. /\ pc' \in [Threads -> {"idle", "lock", "text", "rest"}]
        /\ op' \in [Threads -> {"line", "bad", "close"}]
    BY <1>0, <1>1, Zenon DEF Types
  <2> QED BY <1>0, <1>1, <2>1, <2>2, ZenonT(60) DEF Types
<1>4. Waits' /\ Called'
  BY <1>0, <1>1, SMTT(30) DEF Waits, Called, Types
<1>5. mu # t
  BY <1>0, <1>1 DEF Mutex
<1>6. Mutex'
  BY <1>0, <1>1 DEF Mutex, Types
<1>7. Timed'
  BY <1>0, <1>1, <1>5, LineClientAssumption DEF Timed, Types
<1>8. Half' = Half /\ (Half = 1 => Current' = Current)
  BY <1>0, <1>1, <1>5 DEF Half, Current, Types
<1>9. (Executed => Executed') /\ (Flow => Flow')
  BY <1>0, <1>1, <1>8, FlowStays
<1>10. Live' <=> Live
  BY <1>1 DEF Live, Unserved
<1> QED BY <1>1, <1>2, <1>3, <1>4, <1>6, <1>7, <1>9, <1>10, Zenon DEF IInv

LEMMA CallOverStep == ASSUME IInv, NEW t \in Threads, CallOver(t) PROVE IInv'
<1>0. Flags /\ Types /\ Waits /\ Mutex /\ Called
  BY DEF IInv
<1>1. /\ pc[t] = "idle" /\ calls[t] < MaxCalls
      /\ calls' = [calls EXCEPT ![t] = @ + 1] /\ res' = [res EXCEPT ![t] = "error"]
      /\ UNCHANGED <<daemon, stdout, acc, done, conn, waits, waiting, orphans, ready>>
      /\ UNCHANGED <<open, mu, deadline, pc, op, timed, wire, fin, ok, broken>>
  BY DEF CallOver, server, wait
<1>2. Flags'
  BY <1>0, <1>1, Zenon DEF Flags
<1>3. Types'
  <2>1. calls' \in [Threads -> 0..MaxCalls]
    BY <1>0, <1>1, LineClientAssumption, SMTT(30) DEF Types
  <2>2. res' \in [Threads -> {"nil", "error", "timeout", "closed", "refused"}]
    BY <1>0, <1>1, Zenon DEF Types
  <2> QED BY <1>0, <1>1, <2>1, <2>2, ZenonT(60) DEF Types
<1>4. Waits' /\ Called'
  BY <1>0, <1>1, SMTT(30) DEF Waits, Called, Types
<1>5. ASSUME NEW u \in Threads, pc[u] \in {"text", "rest"} \/ pc'[u] \in {"text", "rest"}
      PROVE  pc'[u] = pc[u] /\ calls'[u] = calls[u]
  BY <1>0, <1>1, <1>5 DEF Types
<1>6. Live' => Live
  BY <1>1 DEF Live, Unserved
<1> QED BY <1>0, <1>1, <1>2, <1>3, <1>4, <1>5, <1>6, Aside DEF Mutex

LEMMA NoDeadlineStep == ASSUME IInv, NEW t \in Threads, NoDeadline(t) PROVE IInv'
<1>0. Flags /\ Types /\ Waits /\ Mutex /\ Called
  BY DEF IInv
<1>1. /\ pc[t] = "lock"
      /\ res' = [res EXCEPT ![t] = "error"] /\ pc' = [pc EXCEPT ![t] = "idle"]
      /\ UNCHANGED <<daemon, stdout, acc, done, conn, waits, waiting, orphans, ready>>
      /\ UNCHANGED <<open, mu, deadline, op, timed, calls, wire, fin, ok, broken>>
  BY DEF NoDeadline, Finish, server, wait
<1>2. Flags'
  BY <1>0, <1>1, Zenon DEF Flags
<1>3. Types'
  <2>1. /\ pc' \in [Threads -> {"idle", "lock", "text", "rest"}]
        /\ res' \in [Threads -> {"nil", "error", "timeout", "closed", "refused"}]
    BY <1>0, <1>1 DEF Types
  <2> QED BY <1>0, <1>1, <2>1, ZenonT(60) DEF Types
<1>4. Waits' /\ Called'
  BY <1>0, <1>1 DEF Waits, Called, Types
<1>5. ASSUME NEW u \in Threads, pc[u] \in {"text", "rest"} \/ pc'[u] \in {"text", "rest"}
      PROVE  pc'[u] = pc[u] /\ calls'[u] = calls[u]
  BY <1>0, <1>1, <1>5 DEF Types
<1>6. Live' => Live
  BY <1>1 DEF Live, Unserved
<1> QED BY <1>0, <1>1, <1>2, <1>3, <1>4, <1>5, <1>6, Aside DEF Mutex

LEMMA NoWriteStep == ASSUME IInv, NEW t \in Threads, NoWrite(t) PROVE IInv'
<1>0. Flags /\ Types /\ Waits /\ Mutex /\ Called
  BY DEF IInv
<1> DEFINE r == CASE op[t] = "close" -> "nil" [] open = "closed" -> "closed" [] OTHER -> "refused"
<1>1. /\ pc[t] = "lock" /\ mu = NoThread
      /\ res' = [res EXCEPT ![t] = r] /\ pc' = [pc EXCEPT ![t] = "idle"]
      /\ open' = IF op[t] = "close" THEN "closed" ELSE open
      /\ fin' = (fin \/ op[t] = "close")
      /\ UNCHANGED <<daemon, stdout, acc, done, conn, waits, waiting, orphans, ready>>
      /\ UNCHANGED <<mu, deadline, op, timed, calls, wire, ok, broken>>
  BY DEF NoWrite, MuFree, Finish, server, wait
<1>2. r \in {"nil", "error", "timeout", "closed", "refused"}
  OBVIOUS
<1> HIDE DEF r
<1>3. Flags'
  <2>1. fin' \in BOOLEAN
    BY <1>1, Zenon
  <2> QED BY <1>0, <1>1, <2>1, Zenon DEF Flags
<1>4. Types'
  <2>1. /\ pc' \in [Threads -> {"idle", "lock", "text", "rest"}]
        /\ res' \in [Threads -> {"nil", "error", "timeout", "closed", "refused"}]
        /\ open' \in {"no", "yes", "closed"}
    BY <1>0, <1>1, <1>2 DEF Types
  <2> QED BY <1>0, <1>1, <2>1, Zenon DEF Types
<1>5. Waits' /\ Called'
  BY <1>0, <1>1 DEF Waits, Called, Types
<1>6. fin' <=> open' = "closed"
  BY <1>0, <1>1, Zenon DEF Mutex
<1>7. ASSUME NEW u \in Threads, pc[u] \in {"text", "rest"} \/ pc'[u] \in {"text", "rest"}
      PROVE  pc'[u] = pc[u] /\ calls'[u] = calls[u]
  BY <1>0, <1>1, <1>7 DEF Types
<1>8. Live' => Live
  BY <1>1 DEF Live, Unserved
<1> QED BY <1>1, <1>3, <1>4, <1>5, <1>6, <1>7, <1>8, Aside

(* The write begins: nobody else was writing. *)
LEMMA StartWriteStep == ASSUME IInv, NEW t \in Threads, StartWrite(t) PROVE IInv'
<1>0. Flags /\ Types /\ Waits /\ Mutex /\ Called /\ Timed
  BY SMTT(30) DEF IInv
<1>1. /\ pc[t] = "lock" /\ mu = NoThread /\ open = "yes" /\ mu' = t
      /\ deadline' = (deadline \/ timed[t]) /\ pc' = [pc EXCEPT ![t] = "text"]
      /\ UNCHANGED <<daemon, stdout, acc, done, conn, waits, waiting, orphans, ready>>
      /\ UNCHANGED <<open, op, timed, calls, res, wire, fin, ok, broken>>
  BY DEF StartWrite, MuFree, server, wait
<1>2. Flags'
  <2>1. deadline' \in BOOLEAN
    BY <1>1, Zenon
  <2> QED BY <1>0, <1>1, <2>1, Zenon DEF Flags
<1>3. Types'
  <2>1. /\ pc' \in [Threads -> {"idle", "lock", "text", "rest"}]
        /\ mu' \in Threads \cup {NoThread}
    BY <1>0, <1>1 DEF Types
  <2> QED BY <1>0, <1>1, <2>1, ZenonT(60) DEF Types
<1>4. Waits' /\ Called'
  BY <1>0, <1>1 DEF Waits, Called, Types
<1>5. Mutex'
  BY <1>0, <1>1, LineClientAssumption DEF Mutex, Types
<1>6. Timed'
  <2>1. ~deadline
    BY <1>0, <1>1, Zenon DEF Timed
  <2>2. t # NoThread
    BY LineClientAssumption
  <2> QED BY <1>1, <2>1, <2>2, Zenon DEF Timed
<1>7. Half' = 0 /\ Half = 0
  BY <1>0, <1>1 DEF Half, Types
<1>8. (Executed => Executed') /\ (Flow => Flow')
  BY <1>0, <1>1, <1>7, FlowStays
<1>9. Live' <=> Live
  BY <1>1 DEF Live, Unserved
<1> QED BY <1>1, <1>2, <1>3, <1>4, <1>5, <1>6, <1>8, <1>9, Zenon DEF IInv

(* Where the pieces of a pending line lie on the wire. *)
LEMMA Slots ==
  ASSUME NEW a \in {0, 1}, NEW w \in Nat, NEW p \in Int, NEW h \in {0, 1},
         a + w = 2 * p + h, NEW k \in 1 .. p
  PROVE  /\ 2 * k - a \in 1 .. w
         /\ 2 * k - 1 > a => 2 * k - 1 - a \in 1 .. w
<1>1. a \in Int /\ w \in Int /\ h \in Int /\ k \in Int /\ a >= 0 /\ a <= 1 /\ h >= 0 /\ k >= 1 /\ k <= p
  OBVIOUS
<1>2. 2 * k <= a + w
  BY <1>1
<1> QED BY <1>1, <1>2

LEMMA Counts ==
  ASSUME Types, Flow
  PROVE  /\ Len(acc) \in {0, 1} /\ Len(wire) \in Nat /\ Half \in {0, 1}
         /\ Pending \in Int /\ Len(done) \in Nat /\ Len(ok) = Len(done) + Pending
         /\ Len(acc) + Len(wire) = 2 * Pending + Half
<1>1. Len(wire) \in Nat /\ Len(done) \in Nat /\ Len(ok) \in Nat
  BY Lengths
<1>2. Half \in {0, 1}
  BY DEF Half
<1>3. Pending \in Int /\ Len(ok) = Len(done) + Pending
  BY <1>1 DEF Pending
<1> QED BY <1>1, <1>2, <1>3 DEF Flow

(* What a goroutine inside the write knows. *)
LEMMA Inside ==
  ASSUME IInv, NEW t \in Threads, pc[t] \in {"text", "rest"}
  PROVE  /\ mu = t /\ mu # NoThread /\ open = "yes" /\ ~fin
         /\ Current = <<t, calls[t]>> /\ Current \in Lines
         /\ Half = IF pc[t] = "rest" THEN 1 ELSE 0
         /\ \A u \in Threads \ {t} : pc[u] \notin {"text", "rest"}
<1>0. Types /\ Mutex /\ Called
  BY DEF IInv
<1>1. mu = t /\ t # NoThread
  BY <1>0, LineClientAssumption DEF Mutex
<1>2. open = "yes" /\ ~fin
  BY <1>0, <1>1 DEF Mutex
<1>3. calls[t] \in 1..MaxCalls
  BY <1>0, LineClientAssumption DEF Called, Types
<1>4. \A u \in Threads \ {t} : pc[u] \notin {"text", "rest"}
  BY <1>0, <1>1 DEF Mutex
<1> QED BY <1>1, <1>2, <1>3, <1>4 DEF Current, Half, Lines

(* A piece goes into a socket that has room for it, or nowhere. *)
LEMMA PushStep ==
  ASSUME Types, NEW t \in Threads, NEW part \in {"text", "rest"}, <<t, calls[t]>> \in Lines,
         Push(t, part)
  PROVE  /\ wire' \in Seq(Pieces) /\ Len(wire') <= Room
         /\ ~Unserved =>
              /\ Len(wire') = Len(wire) + 1
              /\ \A j \in 1 .. Len(wire) : wire'[j] = wire[j]
              /\ wire'[Len(wire) + 1] = [line |-> <<t, calls[t]>>, part |-> part]
<1>1. CASE Unserved
  BY <1>1 DEF Push, Types
<1>2. CASE ~Unserved
  <2> DEFINE x == [line |-> <<t, calls[t]>>, part |-> part]
  <2>1. x \in Pieces /\ wire \in Seq(Pieces) /\ wire' = Append(wire, x) /\ Len(wire) < Room
    BY <1>2, SMTT(30) DEF Pieces, Push, Piece, Types
  <2> HIDE DEF x
  <2>2. /\ Append(wire, x) \in Seq(Pieces) /\ Len(Append(wire, x)) = Len(wire) + 1
        /\ \A j \in 1 .. Len(wire) : Append(wire, x)[j] = wire[j]
        /\ Append(wire, x)[Len(wire) + 1] = x
    BY <2>1, AppendProperties
  <2>3. Len(wire) + 1 <= Room
    BY <2>1, LineClientAssumption
  <2> QED BY <2>1, <2>2, <2>3, Zenon DEF x
<1> QED BY <1>1, <1>2

LEMMA PutTextStep == ASSUME IInv, NEW t \in Threads, PutText(t) PROVE IInv'
<1>0. Flags /\ Types /\ Waits /\ Mutex /\ Called /\ Timed
  BY DEF IInv
<1>1. /\ pc[t] = "text" /\ Push(t, "text") /\ pc' = [pc EXCEPT ![t] = "rest"]
      /\ UNCHANGED <<daemon, stdout, acc, done, conn, waits, waiting, orphans, ready>>
      /\ UNCHANGED <<open, mu, deadline, op, timed, calls, res, fin, ok, broken>>
  BY DEF PutText, server, wait
<1>2. /\ mu = t /\ mu # NoThread /\ Current = <<t, calls[t]>> /\ Current \in Lines /\ Half = 0
      /\ \A u \in Threads \ {t} : pc[u] \notin {"text", "rest"}
  BY <1>1, Inside
<1>3. /\ wire' \in Seq(Pieces) /\ Len(wire') <= Room
      /\ Live => /\ Len(wire') = Len(wire) + 1
                 /\ \A j \in 1 .. Len(wire) : wire'[j] = wire[j]
                 /\ wire'[Len(wire) + 1] = TextOf(Current)
  BY <1>0, <1>1, <1>2, PushStep, ZenonT(60) DEF TextOf, Live
<1>live. Live' <=> Live
  BY <1>1 DEF Live, Unserved
<1>4. Flags'
  BY <1>0, <1>1, Zenon DEF Flags
<1>5. Types'
  <2>1. pc' \in [Threads -> {"idle", "lock", "text", "rest"}]
    BY <1>0, <1>1 DEF Types
  <2> QED BY <1>0, <1>1, <1>3, <2>1, ZenonT(60) DEF Types
<1>6. Waits' /\ Called'
  BY <1>0, <1>1, SMTT(30) DEF Waits, Called, Types
<1>7. Mutex'
  BY <1>0, <1>1 DEF Mutex, Types
<1>8. Timed'
  BY <1>0, <1>1, ZenonT(60) DEF Timed
<1>9. Executed => Executed'
  BY <1>1 DEF Executed, Whole
<1>10. Half' = 1 /\ Current' = Current /\ Pending' = Pending
  BY <1>0, <1>1, <1>2 DEF Half, Current, Pending, Types
<1>11. ASSUME Live, Flow PROVE Flow'
  <2>1. /\ Len(acc) \in {0, 1} /\ Len(wire) \in Nat /\ Pending \in Int
        /\ Len(acc) + Len(wire) = 2 * Pending
    BY <1>0, <1>2, <1>11, Counts
  <2>2. ASSUME NEW k \in 1 .. Pending
        PROVE  /\ 2 * k - 1 > Len(acc) =>
                    wire'[2 * k - 1 - Len(acc)] = TextOf(ok[Len(done) + k])
               /\ wire'[2 * k - Len(acc)] = RestOf(ok[Len(done) + k])
    <3>1. /\ 2 * k - Len(acc) \in 1 .. Len(wire)
          /\ 2 * k - 1 > Len(acc) => 2 * k - 1 - Len(acc) \in 1 .. Len(wire)
      BY <1>0, <1>11, Counts, Slots, ZenonT(60)
    <3> QED BY <1>3, <1>11, <3>1, Zenon DEF Flow
  <2>3. Len(acc) = 1 => Pending # 0 /\ acc[1] = TextOf(ok[Len(done) + 1])
    BY <1>11, <2>1 DEF Flow
  <2>4. wire'[Len(wire')] = TextOf(Current')
    BY <1>3, <1>10, <1>11
  <2>5. Len(acc) + Len(wire') = 2 * Pending + 1
    BY <1>3, <1>11, <2>1
  <2> QED BY <1>1, <1>10, <2>1, <2>2, <2>3, <2>4, <2>5, Zenon DEF Flow, TextOf, RestOf
<1> QED BY <1>1, <1>4, <1>5, <1>6, <1>7, <1>8, <1>9, <1>11, <1>live, Zenon DEF IInv

(* The write is over: its deadline and mu are given back. *)
LEMMA UnwindStep ==
  ASSUME IInv, NEW t \in Threads, pc[t] \in {"text", "rest"}, Unwind(t),
         NEW r \in {"nil", "error", "timeout", "closed", "refused"}, Finish(t, r),
         UNCHANGED <<timed, calls, open, fin>>
  PROVE  /\ deadline' = FALSE /\ mu' = NoThread /\ Half' = 0
         /\ pc' \in [Threads -> {"idle", "lock", "text", "rest"}]
         /\ res' \in [Threads -> {"nil", "error", "timeout", "closed", "refused"}]
         /\ Mutex' /\ Called' /\ Timed'
<1>0. Types /\ Mutex /\ Called /\ Timed
  BY DEF IInv
<1>1. /\ mu' = NoThread /\ deadline' = (deadline /\ ~timed[t])
      /\ res' = [res EXCEPT ![t] = r] /\ pc' = [pc EXCEPT ![t] = "idle"]
  BY DEF Unwind, Finish
<1>2. mu = t /\ \A u \in Threads \ {t} : pc[u] \notin {"text", "rest"}
  BY Inside
<1>3. deadline' = FALSE
  BY <1>0, <1>1, <1>2, Zenon DEF Timed
<1>4. /\ pc' \in [Threads -> {"idle", "lock", "text", "rest"}]
      /\ res' \in [Threads -> {"nil", "error", "timeout", "closed", "refused"}]
  BY <1>0, <1>1, ZenonT(60) DEF Types
<1>5. Half' = 0
  BY <1>1 DEF Half
<1>6. Mutex'
  BY <1>0, <1>1, <1>2, LineClientAssumption DEF Mutex, Types
<1>7. Called'
  BY <1>0, <1>1 DEF Called, Types
<1>8. Timed'
  BY <1>3, Zenon DEF Timed
<1> QED BY <1>1, <1>3, <1>4, <1>5, <1>6, <1>7, <1>8

LEMMA PutRestStep == ASSUME IInv, NEW t \in Threads, PutRest(t) PROVE IInv'
<1>0. Flags /\ Types /\ Waits /\ Mutex /\ Called /\ Timed
  BY DEF IInv
<1>1. /\ pc[t] = "rest" /\ Push(t, "rest") /\ ok' = Append(ok, <<t, calls[t]>>)
      /\ Finish(t, "nil") /\ Unwind(t)
      /\ UNCHANGED <<daemon, stdout, acc, done, conn, waits, waiting, orphans, ready>>
      /\ UNCHANGED <<open, op, timed, calls, fin, broken>>
  BY DEF PutRest, server, wait
<1>2. mu = t /\ mu # NoThread /\ Current = <<t, calls[t]>> /\ Current \in Lines /\ Half = 1
  BY <1>1, Inside
<1>3. /\ wire' \in Seq(Pieces) /\ Len(wire') <= Room
      /\ Live => /\ Len(wire') = Len(wire) + 1
                 /\ \A j \in 1 .. Len(wire) : wire'[j] = wire[j]
                 /\ wire'[Len(wire) + 1] = RestOf(Current)
  BY <1>0, <1>1, <1>2, PushStep, ZenonT(60) DEF RestOf, Live
<1>live. Live' <=> Live
  BY <1>1 DEF Live, Unserved
<1>4. /\ deadline' = FALSE /\ mu' = NoThread /\ Half' = 0
      /\ pc' \in [Threads -> {"idle", "lock", "text", "rest"}]
      /\ res' \in [Threads -> {"nil", "error", "timeout", "closed", "refused"}]
      /\ Mutex' /\ Called' /\ Timed'
  BY <1>1, UnwindStep, Zenon
<1>5. /\ ok' \in Seq(Lines) /\ Len(ok') = Len(ok) + 1
      /\ \A j \in 1 .. Len(ok) : ok'[j] = ok[j]
      /\ ok'[Len(ok) + 1] = Current
  <2>1. ok \in Seq(Lines) /\ ok' = Append(ok, Current)
    BY <1>0, <1>1, <1>2 DEF Types
  <2> QED BY <1>2, <2>1, AppendProperties
<1>6. Flags'
  BY <1>0, <1>1, <1>4, Zenon DEF Flags
<1>7. Types'
  BY <1>0, <1>1, <1>3, <1>4, <1>5, Zenon DEF Types
<1>8. Waits'
  BY <1>0, <1>1, SMTT(30) DEF Waits
<1>9. Executed => Executed'
  <2> SUFFICES ASSUME Executed PROVE Executed'
    OBVIOUS
  <2>1. Len(done) \in Nat /\ Len(ok) \in Nat /\ Len(done) <= Len(ok)
    BY <1>0, Lengths DEF Executed
  <2>2. \A i \in 1 .. Len(done) : ok'[i] = ok[i]
    BY <1>5, <2>1, SMTT(30)
  <2> QED BY <1>1, <1>5, <2>1, <2>2 DEF Executed, Whole
<1>10. ASSUME Live, Flow PROVE Flow'
  <2>1. /\ Len(acc) \in {0, 1} /\ Len(wire) \in Nat /\ Pending \in Int
        /\ Len(done) \in Nat /\ Len(ok) \in Nat /\ Len(ok) = Len(done) + Pending
        /\ Len(acc) + Len(wire) = 2 * Pending + 1
    BY <1>0, <1>2, <1>10, Counts, Lengths, Zenon
  <2>2. Pending' = Pending + 1 /\ Pending >= 0
    BY <1>1, <1>5, <2>1, SMTT(30) DEF Pending
  <2>3. ASSUME NEW k \in 1 .. Pending
        PROVE  /\ 2 * k - 1 > Len(acc) =>
                    wire'[2 * k - 1 - Len(acc)] = TextOf(ok'[Len(done) + k])
               /\ wire'[2 * k - Len(acc)] = RestOf(ok'[Len(done) + k])
    <3>1. /\ 2 * k - Len(acc) \in 1 .. Len(wire)
          /\ 2 * k - 1 > Len(acc) => 2 * k - 1 - Len(acc) \in 1 .. Len(wire)
      BY <1>0, <1>10, Counts, Slots, Zenon
    <3>2. ok'[Len(done) + k] = ok[Len(done) + k]
      BY <1>5, <2>1
    <3> QED BY <1>3, <1>10, <3>1, <3>2, ZenonT(60) DEF Flow
  <2>4. ok'[Len(done) + (Pending + 1)] = Current
    BY <1>5, <2>1
  <2>5. 2 * (Pending + 1) - 1 > Len(acc) =>
          wire'[2 * (Pending + 1) - 1 - Len(acc)] = TextOf(Current)
    <3>1. 2 * (Pending + 1) - 1 - Len(acc) = Len(wire)
      BY <2>1
    <3>2. 2 * (Pending + 1) - 1 > Len(acc) => Len(wire) > 0 /\ Len(wire) \in 1 .. Len(wire)
      BY <2>1
    <3> QED BY <1>2, <1>3, <1>10, <3>1, <3>2, Zenon DEF Flow
  <2>6. wire'[2 * (Pending + 1) - Len(acc)] = RestOf(Current)
    <3>1. 2 * (Pending + 1) - Len(acc) = Len(wire) + 1
      BY <2>1
    <3> QED BY <1>3, <1>10, <3>1
  <2>7. \A k \in 1 .. Pending + 1 :
          /\ 2 * k - 1 > Len(acc) =>
               wire'[2 * k - 1 - Len(acc)] = TextOf(ok'[Len(done) + k])
          /\ wire'[2 * k - Len(acc)] = RestOf(ok'[Len(done) + k])
    <3> TAKE k \in 1 .. Pending + 1
    <3>1. k \in 1 .. Pending \/ k = Pending + 1
      BY <2>1
    <3>2. CASE k \in 1 .. Pending
      BY <2>3, <3>2
    <3>3. CASE k = Pending + 1
      BY <2>4, <2>5, <2>6, <3>3, ZenonT(60)
    <3> QED BY <3>1, <3>2, <3>3
  <2>8. Len(acc) = 1 => acc[1] = TextOf(ok'[Len(done) + 1])
    <3>1. CASE Pending = 0
      BY <1>10, <2>1, <2>4, <3>1 DEF Flow
    <3>2. CASE Pending # 0
      <4>1. ok'[Len(done) + 1] = ok[Len(done) + 1]
        BY <1>5, <2>1, <2>2, <3>2
      <4> QED BY <1>10, <3>2, <4>1 DEF Flow
    <3> QED BY <3>1, <3>2
  <2>9. Len(acc) + Len(wire') = 2 * (Pending + 1)
    BY <1>3, <1>10, <2>1, SMTT(30)
  <2>10. Pending' # 0 /\ acc' = acc /\ done' = done
    BY <1>1, <2>1, <2>2
  <2>11. Len(acc') + Len(wire') = 2 * Pending' + Half'
    BY <1>4, <2>1, <2>2, <2>9, <2>10, SMTT(30)
  <2>12. \A k \in 1 .. Pending' :
          /\ 2 * k - 1 > Len(acc') =>
               wire'[2 * k - 1 - Len(acc')] = TextOf(ok'[Len(done') + k])
          /\ wire'[2 * k - Len(acc')] = RestOf(ok'[Len(done') + k])
    BY <2>2, <2>7, <2>10
  <2>13. Len(acc') = 1 =>
          acc'[1] = TextOf(IF Pending' = 0 THEN Current' ELSE ok'[Len(done') + 1])
    BY <2>8, <2>10
  <2> QED BY <1>4, <2>1, <2>10, <2>11, <2>12, <2>13, SMTT(30) DEF Flow, TextOf, RestOf
<1> QED BY <1>1, <1>4, <1>6, <1>7, <1>8, <1>9, <1>10, <1>live, Zenon DEF IInv

LEMMA WriteFailsStep ==
  ASSUME IInv, NEW t \in Threads, NEW r \in {"error", "timeout"}, WriteFails(t, r)
  PROVE  IInv'
<1>0. Flags /\ Types /\ Waits /\ Mutex /\ Called /\ Timed
  BY DEF IInv
<1>1. /\ pc[t] \in {"text", "rest"} /\ broken' = (broken \/ pc[t] = "rest")
      /\ Finish(t, r) /\ Unwind(t)
      /\ UNCHANGED <<daemon, stdout, acc, done, conn, waits, waiting, orphans, ready>>
      /\ UNCHANGED <<open, op, timed, calls, wire, fin, ok>>
  BY ZenonT(60) DEF WriteFails, server, wait
<1>2. mu = t /\ Half = IF pc[t] = "rest" THEN 1 ELSE 0
  BY <1>1, Inside
<1>3. /\ deadline' = FALSE /\ mu' = NoThread /\ Half' = 0
      /\ pc' \in [Threads -> {"idle", "lock", "text", "rest"}]
      /\ res' \in [Threads -> {"nil", "error", "timeout", "closed", "refused"}]
      /\ Mutex' /\ Called' /\ Timed'
  BY <1>1, UnwindStep, Zenon
<1>4. Flags'
  BY <1>0, <1>1, <1>3, ZenonT(60) DEF Flags
<1>5. Types'
  BY <1>0, <1>1, <1>3, Zenon DEF Types
<1>6. Waits'
  BY <1>0, <1>1 DEF Waits
<1>7. ~broken' => ~broken /\ Half = 0
  BY <1>1, <1>2, ZenonT(60)
<1>8. ~broken' => (Executed => Executed') /\ (Flow => Flow')
  BY <1>0, <1>1, <1>3, <1>7, FlowStays, SMTT(30)
<1>9. Live' <=> Live
  BY <1>1 DEF Live, Unserved
<1> QED BY <1>1, <1>3, <1>4, <1>5, <1>6, <1>7, <1>8, <1>9, Zenon DEF IInv

-----------------------------------------------------------------------------
(* The scanner takes the first piece. *)

(* A text follows a whole line, the rest of a line follows its text. *)
LEMMA FirstPiece ==
  ASSUME Types, Flow, wire # <<>>
  PROVE  /\ Head(wire) = wire[1] /\ Len(wire) >= 1
         /\ Head(wire).part = "rest" =>
              Len(acc) = 1 /\ Pending >= 1 /\ wire[1] = RestOf(ok[Len(done) + 1])
                /\ acc[1] = TextOf(ok[Len(done) + 1])
         /\ Head(wire).part # "rest" =>
              Len(acc) = 0
                /\ wire[1] = TextOf(IF Pending = 0 THEN Current ELSE ok[Len(done) + 1])
<1>1. /\ Len(acc) \in {0, 1} /\ Len(wire) \in Nat /\ Half \in {0, 1} /\ Pending \in Int
      /\ Len(acc) + Len(wire) = 2 * Pending + Half
  BY Counts
<1>2. Head(wire) = wire[1] /\ Len(wire) >= 1
  BY DEF Types
<1>3. \A l : TextOf(l).part = "text" /\ RestOf(l).part = "rest"
  BY SMTT(30) DEF TextOf, RestOf
<1>4. CASE Len(acc) = 1
  <2>1. Pending >= 1
    BY <1>1, <1>2, <1>4
  <2>2. 2 * 1 - Len(acc) = 1 /\ 1 \in 1 .. Pending
    BY <1>1, <1>4, <2>1
  <2>3. wire[1] = RestOf(ok[Len(done) + 1])
    BY <2>2 DEF Flow
  <2>4. acc[1] = TextOf(ok[Len(done) + 1])
    BY <1>1, <1>4, <2>1 DEF Flow
  <2> QED BY <1>2, <1>3, <1>4, <2>1, <2>3, <2>4
<1>5. CASE Len(acc) = 0 /\ Pending = 0
  <2>1. Half = 1 /\ Len(wire) = 1
    BY <1>1, <1>2, <1>5
  <2>2. wire[1] = TextOf(Current)
    BY <1>2, <2>1 DEF Flow
  <2> QED BY <1>2, <1>3, <1>5, <2>2
<1>6. CASE Len(acc) = 0 /\ Pending # 0
  <2>1. 1 \in 1 .. Pending
    BY <1>1, <1>2, <1>6
  <2>2. 2 * 1 - 1 > Len(acc) /\ 2 * 1 - 1 - Len(acc) = 1
    BY <1>6
  <2>3. wire[1] = TextOf(ok[Len(done) + 1])
    BY <2>1, <2>2, SMTT(30) DEF Flow
  <2> QED BY <1>2, <1>3, <1>6, <2>3
<1> QED BY <1>1, <1>4, <1>5, <1>6

LEMMA ReadText ==
  ASSUME Types, wire # <<>>, wire' = Tail(wire), Head(wire).part # "rest",
         acc' = Append(acc, Head(wire)), UNCHANGED <<done, ok, mu, pc, calls>>,
         Flow
  PROVE  Flow'
<1>1. /\ Len(acc) \in {0, 1} /\ Len(wire) \in Nat /\ Half \in {0, 1} /\ Pending \in Int
      /\ Len(acc) + Len(wire) = 2 * Pending + Half
  BY Counts
<1>2. /\ Head(wire) = wire[1] /\ Len(wire) >= 1 /\ Len(acc) = 0
      /\ wire[1] = TextOf(IF Pending = 0 THEN Current ELSE ok[Len(done) + 1])
  BY FirstPiece, Zenon
<1>3. /\ Len(wire') = Len(wire) - 1
      /\ \A j \in 1 .. Len(wire) - 1 : wire'[j] = wire[j + 1]
  BY HeadTailProperties DEF Types
<1>4. Len(acc') = 1 /\ acc'[1] = wire[1]
  <2>1. Head(wire) \in Pieces /\ acc \in Seq(Pieces)
    BY HeadTailProperties DEF Types
  <2>2. Len(Append(acc, Head(wire))) = Len(acc) + 1
        /\ Append(acc, Head(wire))[Len(acc) + 1] = Head(wire)
    BY <2>1, AppendProperties
  <2> QED BY <1>2, <2>2, SMTT(30)
<1>5. Half' = Half /\ Current' = Current /\ Pending' = Pending /\ done' = done /\ ok' = ok
  BY DEF Half, Current, Pending
<1>6. Len(acc') + Len(wire') = 2 * Pending' + Half'
  BY <1>1, <1>2, <1>3, <1>4, <1>5
<1>7. ASSUME NEW k \in 1 .. Pending
      PROVE  /\ 2 * k - 1 > 1 => wire'[2 * k - 1 - 1] = TextOf(ok[Len(done) + k])
             /\ wire'[2 * k - 1] = RestOf(ok[Len(done) + k])
  <2>1. 2 * k - 1 \in 1 .. Len(wire) - 1 /\ (2 * k - 1) + 1 = 2 * k - Len(acc)
    BY <1>1, <1>2
  <2>2. 2 * k - 1 > 1 =>
          2 * k - 1 - 1 \in 1 .. Len(wire) - 1 /\ (2 * k - 1 - 1) + 1 = 2 * k - 1 - Len(acc)
            /\ 2 * k - 1 > Len(acc)
    BY <1>1, <1>2
  <2> QED BY <1>3, <2>1, <2>2, ZenonT(60) DEF Flow
<1>8. \A k \in 1 .. Pending' :
        /\ 2 * k - 1 > Len(acc') => wire'[2 * k - 1 - Len(acc')] = TextOf(ok'[Len(done') + k])
        /\ wire'[2 * k - Len(acc')] = RestOf(ok'[Len(done') + k])
  BY <1>4, <1>5, <1>7, ZenonT(60)
<1>9. acc'[1] = TextOf(IF Pending' = 0 THEN Current' ELSE ok'[Len(done') + 1])
  BY <1>2, <1>4, <1>5, Zenon
<1>10. Half' = 1 /\ Len(wire') > 0 => wire'[Len(wire')] = TextOf(Current')
  <2>1. Len(wire') > 0 => Len(wire') \in 1 .. Len(wire) - 1 /\ Len(wire') + 1 = Len(wire)
    BY <1>1, <1>3
  <2> QED BY <1>1, <1>2, <1>3, <1>5, <2>1 DEF Flow
<1> QED BY <1>4, <1>6, <1>8, <1>9, <1>10, ZenonT(60) DEF Flow, TextOf, RestOf

LEMMA Pair ==
  ASSUME NEW S, NEW s \in Seq(S), Len(s) = 2, NEW x \in S, NEW y \in S, s[1] = x, s[2] = y
  PROVE  s = <<x, y>>
<1>1. <<x, y>> \in Seq(S) /\ Len(<<x, y>>) = 2 /\ <<x, y>>[1] = x /\ <<x, y>>[2] = y
  OBVIOUS
<1>2. \A i \in 1 .. Len(s) : s[i] = <<x, y>>[i]
  <2>1. \A i \in 1 .. 2 : i = 1 \/ i = 2
    OBVIOUS
  <2> QED BY <1>1, <2>1, Zenon
<1> QED BY <1>1, <1>2, SeqEqual

LEMMA ReadRest ==
  ASSUME Types, wire # <<>>, wire' = Tail(wire), Head(wire).part = "rest",
         done' = Append(done, Append(acc, Head(wire))), acc' = <<>>,
         UNCHANGED <<ok, mu, pc, calls>>, Executed, Flow
  PROVE  Executed' /\ Flow'
<1>1. /\ Len(acc) \in {0, 1} /\ Len(wire) \in Nat /\ Half \in {0, 1} /\ Pending \in Int
      /\ Len(done) \in Nat /\ Len(ok) = Len(done) + Pending
      /\ Len(acc) + Len(wire) = 2 * Pending + Half
  BY Counts, Zenon
<1>2. /\ Head(wire) = wire[1] /\ Len(wire) >= 1 /\ Len(acc) = 1 /\ Pending >= 1
      /\ wire[1] = RestOf(ok[Len(done) + 1]) /\ acc[1] = TextOf(ok[Len(done) + 1])
  BY FirstPiece, ZenonT(60)
<1>3. /\ Len(wire') = Len(wire) - 1
      /\ \A j \in 1 .. Len(wire) - 1 : wire'[j] = wire[j + 1]
  BY HeadTailProperties DEF Types
<1> DEFINE line == Append(acc, Head(wire))
<1>4. line \in Seq(Pieces) /\ line = Whole(ok[Len(done) + 1])
  <2>1. Head(wire) \in Pieces /\ acc \in Seq(Pieces)
    BY HeadTailProperties DEF Types
  <2>2. /\ line \in Seq(Pieces) /\ Len(line) = Len(acc) + 1
        /\ \A j \in 1 .. Len(acc) : line[j] = acc[j]
        /\ line[Len(acc) + 1] = Head(wire)
    BY <2>1, AppendProperties, SMTT(30)
  <2>3. Len(line) = 2 /\ line[1] = TextOf(ok[Len(done) + 1]) /\ line[2] = RestOf(ok[Len(done) + 1])
    BY <1>2, <2>2
  <2>4. TextOf(ok[Len(done) + 1]) \in Pieces /\ RestOf(ok[Len(done) + 1]) \in Pieces
    <3>1. ok[Len(done) + 1] \in Lines
      BY <1>1, <1>2 DEF Types
    <3> QED BY <3>1, Zenon DEF TextOf, RestOf, Pieces
  <2> HIDE DEF line
  <2>5. line = <<TextOf(ok[Len(done) + 1]), RestOf(ok[Len(done) + 1])>>
    BY <2>2, <2>3, <2>4, Pair, ZenonT(60)
  <2> QED BY <2>2, <2>5, Zenon DEF Whole, TextOf, RestOf
<1> HIDE DEF line
<1>5. /\ done' \in Seq(Seq(Pieces)) /\ Len(done') = Len(done) + 1
      /\ \A j \in 1 .. Len(done) : done'[j] = done[j]
      /\ done'[Len(done) + 1] = line
  <2>1. done \in Seq(Seq(Pieces)) /\ done' = Append(done, line)
    BY DEF Types, line
  <2>2. line \in Seq(Pieces)
    BY <1>4
  <2>3. /\ Append(done, line) \in Seq(Seq(Pieces)) /\ Len(Append(done, line)) = Len(done) + 1
        /\ \A j \in 1 .. Len(done) : Append(done, line)[j] = done[j]
        /\ Append(done, line)[Len(done) + 1] = line
    BY <2>1, <2>2, AppendProperties, ZenonT(60)
  <2> QED BY <2>1, <2>3, Zenon
<1>6. Executed'
  <2>1. Len(done') <= Len(ok')
    BY <1>1, <1>2, <1>5
  <2>2. ASSUME NEW n \in 1 .. Len(done') PROVE done'[n] = Whole(ok'[n])
    <3>1. n \in 1 .. Len(done) \/ n = Len(done) + 1
      BY <1>1, <1>5, SMTT(30)
    <3>2. CASE n \in 1 .. Len(done)
      BY <1>5, <3>2 DEF Executed
    <3>3. CASE n = Len(done) + 1
      BY <1>4, <1>5, <3>3
    <3> QED BY <3>1, <3>2, <3>3
  <2> QED BY <2>1, <2>2 DEF Executed, Whole
<1>7. /\ Half' = Half /\ Current' = Current /\ Pending' = Pending - 1 /\ Len(acc') = 0
      /\ Len(done') = Len(done) + 1 /\ ok' = ok
  <2>1. Half' = Half /\ Current' = Current
    BY DEF Half, Current
  <2>2. Len(acc') = 0
    OBVIOUS
  <2>3. Pending' = Len(ok) - (Len(done) + 1)
    BY <1>5, Zenon DEF Pending
  <2> QED BY <1>1, <1>5, <2>1, <2>2, <2>3
<1>8. Len(acc') + Len(wire') = 2 * Pending' + Half'
  <2>1. Len(wire) - 1 = 2 * (Pending - 1) + Half
    BY <1>1, <1>2, SMTT(30)
  <2>2. Len(acc') + Len(wire') = Len(wire) - 1
    BY <1>1, <1>3, <1>7
  <2> QED BY <1>7, <2>1, <2>2, Zenon
<1>9. ASSUME NEW k \in 1 .. Pending - 1
      PROVE  /\ wire'[2 * k - 1] = TextOf(ok[(Len(done) + 1) + k])
             /\ wire'[2 * k] = RestOf(ok[(Len(done) + 1) + k])
  <2>1. /\ k + 1 \in 1 .. Pending /\ Len(done) + (k + 1) = (Len(done) + 1) + k
        /\ 2 * k - 1 \in 1 .. Len(wire) - 1 /\ 2 * k \in 1 .. Len(wire) - 1
    BY <1>1, <1>2, SMTT(30)
  <2>2. /\ (2 * k - 1) + 1 = 2 * (k + 1) - 1 - Len(acc)
        /\ 2 * (k + 1) - 1 > Len(acc)
        /\ 2 * k + 1 = 2 * (k + 1) - Len(acc)
    BY <1>2
  <2>3. wire[2 * (k + 1) - 1 - Len(acc)] = TextOf(ok[Len(done) + (k + 1)])
        /\ wire[2 * (k + 1) - Len(acc)] = RestOf(ok[Len(done) + (k + 1)])
    BY <2>1, <2>2, Zenon DEF Flow
  <2> QED BY <1>3, <2>1, <2>2, <2>3, ZenonT(60)
<1>10. \A k \in 1 .. Pending' :
        /\ 2 * k - 1 > Len(acc') => wire'[2 * k - 1 - Len(acc')] = TextOf(ok'[Len(done') + k])
        /\ wire'[2 * k - Len(acc')] = RestOf(ok'[Len(done') + k])
  <2> TAKE k \in 1 .. Pending'
  <2>1. k \in 1 .. Pending - 1 /\ 2 * k - 1 - Len(acc') = 2 * k - 1 /\ 2 * k - Len(acc') = 2 * k
    BY <1>1, <1>7, SMTT(30)
  <2> QED BY <1>7, <1>9, <2>1, ZenonT(60)
<1>11. Half' = 1 /\ Len(wire') > 0 => wire'[Len(wire')] = TextOf(Current')
  <2>1. Len(wire') > 0 => Len(wire') \in 1 .. Len(wire) - 1 /\ Len(wire') + 1 = Len(wire)
    BY <1>1, <1>3
  <2> QED BY <1>1, <1>2, <1>3, <1>7, <2>1 DEF Flow
<1>12. Len(acc') \in {0, 1} /\ Len(acc') # 1
  BY <1>7
<1>13. Flow'
  BY <1>8, <1>10, <1>11, <1>12, Zenon DEF Flow, TextOf, RestOf
<1> QED BY <1>6, <1>13

LEMMA ReadStep == ASSUME IInv, Read PROVE IInv'
<1>0. Flags /\ Types /\ Waits /\ Mutex /\ Called /\ Timed
  BY Zenon DEF IInv
<1>1. /\ daemon = "serving" /\ conn = "scan" /\ wire # <<>> /\ wire' = Tail(wire)
      /\ UNCHANGED <<daemon, stdout, conn, waits, waiting, orphans, ready, fin, ok, broken>>
      /\ UNCHANGED <<open, mu, deadline, pc, op, timed, calls, res>>
  BY Zenon DEF Read, wait, client
<1>2. \/ Head(wire).part = "rest" /\ done' = Append(done, Append(acc, Head(wire))) /\ acc' = <<>>
      \/ Head(wire).part # "rest" /\ acc' = Append(acc, Head(wire)) /\ done' = done
  BY Zenon DEF Read
<1>3. /\ wire' \in Seq(Pieces) /\ Len(wire') <= Room /\ Head(wire) \in Pieces
  <2>1. wire \in Seq(Pieces) /\ Len(wire) \in Nat /\ Len(wire) <= Room
    BY <1>0, Lengths DEF Types
  <2>2. Tail(wire) \in Seq(Pieces) /\ Len(Tail(wire)) = Len(wire) - 1 /\ Head(wire) \in Pieces
    BY <1>1, <2>1, HeadTailProperties
  <2> QED BY <1>1, <2>1, <2>2, LineClientAssumption, SMTT(30)
<1>4. acc' \in Seq(Pieces) /\ done' \in Seq(Seq(Pieces))
  <2>1. acc \in Seq(Pieces) /\ done \in Seq(Seq(Pieces)) /\ <<>> \in Seq(Pieces)
    BY <1>0, EmptySeq, Zenon DEF Types
  <2>2. Append(acc, Head(wire)) \in Seq(Pieces)
    BY <1>3, <2>1, AppendProperties, ZenonT(60)
  <2>3. Append(done, Append(acc, Head(wire))) \in Seq(Seq(Pieces))
    BY <2>1, <2>2, AppendProperties
  <2> QED BY <1>2, <2>1, <2>2, <2>3, Zenon
<1>5. Flags'
  BY <1>0, <1>1, Zenon DEF Flags
<1>6. Types'
  BY <1>0, <1>1, <1>3, <1>4, ZenonT(60) DEF Types
<1>7. Waits' /\ Called'
  BY <1>0, <1>1 DEF Waits, Called
<1>8. Mutex' /\ Timed'
  BY <1>0, <1>1, Zenon DEF Mutex, Timed
<1>9. ~broken => Executed' /\ Flow'
  <2> SUFFICES ASSUME ~broken PROVE Executed' /\ Flow'
    OBVIOUS
  <2>0. Live
    BY <1>1 DEF Live, Unserved
  <2>1. Executed /\ Flow
    BY <2>0, Zenon DEF IInv
  <2>2. CASE Head(wire).part = "rest"
    BY <1>0, <1>1, <1>2, <2>1, <2>2, ReadRest, ZenonT(60)
  <2>3. CASE Head(wire).part # "rest"
    <3>1. done' = done /\ acc' = Append(acc, Head(wire))
      BY <1>2, <2>3, Zenon
    <3>2. Flow'
      BY <1>0, <1>1, <2>1, <2>3, <3>1, ReadText, ZenonT(60)
    <3>3. Executed'
      BY <1>1, <2>1, <3>1 DEF Executed, Whole
    <3> QED BY <3>2, <3>3
  <2> QED BY <2>2, <2>3
<1> QED BY <1>1, <1>5, <1>6, <1>7, <1>8, <1>9, Zenon DEF IInv

(* Close waits for the writer, so the scanner meets the end of the connection *)
(* between two lines.                                                       *)
LEMMA ReadEOFStep == ASSUME IInv, ReadEOF PROVE IInv'
<1>0. Flags /\ Types /\ Waits /\ Mutex /\ Called /\ Timed
  BY DEF IInv
<1>1. /\ daemon = "serving" /\ conn = "scan" /\ fin /\ wire = <<>> /\ acc' = <<>>
      /\ done' = IF acc = <<>> THEN done ELSE Append(done, acc)
      /\ conn' = "eof"
      /\ UNCHANGED <<daemon, stdout, waits, waiting, orphans, ready, wire, fin, ok, broken>>
      /\ UNCHANGED <<open, mu, deadline, pc, op, timed, calls, res>>
  BY DEF ReadEOF, wait, client
<1>2. acc' \in Seq(Pieces) /\ done' \in Seq(Seq(Pieces))
  <2>1. acc \in Seq(Pieces) /\ done \in Seq(Seq(Pieces)) /\ <<>> \in Seq(Pieces)
    BY <1>0, EmptySeq, Zenon DEF Types
  <2>2. Append(done, acc) \in Seq(Seq(Pieces))
    BY <2>1, AppendProperties
  <2> QED BY <1>1, <2>1, <2>2, Zenon
<1>3. Flags'
  BY <1>0, <1>1, Zenon DEF Flags
<1>4. Types'
  <2>1. conn' \in Conns
    BY <1>1 DEF Conns
  <2> QED BY <1>0, <1>1, <1>2, <2>1, Zenon DEF Types
<1>5. Waits' /\ Called'
  BY <1>0, <1>1 DEF Waits, Called
<1>6. Mutex' /\ Timed'
  BY <1>0, <1>1, Zenon DEF Mutex, Timed
<1>7. ~broken => Executed' /\ Flow'
  <2> SUFFICES ASSUME ~broken PROVE Executed' /\ Flow'
    OBVIOUS
  <2>0. Live
    BY <1>1 DEF Live, Unserved
  <2>1. Executed /\ Flow
    BY <2>0, Zenon DEF IInv
  <2>2. Half = 0
    BY <1>0, <1>1 DEF Mutex, Half
  <2>3. Len(wire) = 0
    BY <1>1
  <2>4. Len(acc) = 0
    BY <1>0, <2>1, <2>2, <2>3, Counts, SMTT(30)
  <2>5. acc = <<>>
    BY <1>0, <2>4 DEF Types
  <2>6. UNCHANGED <<acc, done, wire, ok>>
    BY <1>1, <2>5, ZenonT(60)
  <2>7. Half' = Half
    BY <1>1 DEF Half
  <2> QED BY <1>0, <2>1, <2>2, <2>6, <2>7, FlowStays
<1> QED BY <1>1, <1>3, <1>4, <1>5, <1>6, <1>7, Zenon DEF IInv

-----------------------------------------------------------------------------
LEMMA NextIInv == IInv /\ [Next]_vars => IInv'
<1> SUFFICES ASSUME IInv, [Next]_vars PROVE IInv'
  OBVIOUS
<1>1. ASSUME UNCHANGED vars PROVE IInv'
  <2>1. /\ UNCHANGED <<daemon, stdout, acc, done, conn, waits, waiting, orphans, ready>>
        /\ UNCHANGED <<open, mu, deadline, pc, op, timed, calls, res, wire, fin, ok, broken>>
    BY <1>1 DEF vars, server, wait, client
  <2>2. Flags' /\ Types'
    BY <2>1, Zenon DEF IInv, Flags, Types
  <2>3. Waits' /\ Called'
    BY <2>1, Zenon DEF IInv, Waits, Called
  <2>4. Mutex' /\ Timed'
    BY <2>1, Zenon DEF IInv, Mutex, Timed
  <2>5. Half' = Half /\ Current' = Current
    BY <2>1, Zenon DEF Half, Current
  <2>6. Types
    BY ZenonT(60) DEF IInv
  <2>7. (Executed => Executed') /\ (Flow => Flow')
    BY <2>1, <2>5, <2>6, FlowStays
  <2>8. Live' <=> Live
    BY <2>1 DEF Live, Unserved
  <2> QED BY <2>1, <2>2, <2>3, <2>4, <2>7, <2>8, ZenonT(60) DEF IInv
<1>2. CASE Listen \/ PrintReady \/ Die \/ WaitReady \/ Cancelled \/ SeeReady
           \/ OrphanSees \/ SeeEOF
  BY <1>2, DaemonStep
<1>3. CASE Read
  BY <1>3, ReadStep
<1>4. CASE ReadEOF
  BY <1>4, ReadEOFStep, Zenon
<1>5. CASE Dial
  BY <1>5, DialStep
<1>6. ASSUME NEW t \in Threads, Writer(t) PROVE IInv'
  BY <1>6, NoWriteStep, StartWriteStep, PutTextStep, PutRestStep, WriteFailsStep, ZenonT(60) DEF Writer
<1>7. ASSUME NEW t \in Threads, WriteFails(t, "timeout") PROVE IInv'
  BY <1>7, WriteFailsStep
<1>8. ASSUME NEW t \in Threads, NEW o \in {"line", "bad", "close"}, NEW d \in BOOLEAN, Call(t, o, d)
      PROVE  IInv'
  BY <1>8, CallStep
<1>9. CASE Accept \/ Refuse \/ Sniff \/ SniffEOF \/ ReadTooLong
  BY <1>9, ServeStep
<1>10. ASSUME NEW t \in Threads, NoDeadline(t) \/ CallOver(t) PROVE IInv'
  BY <1>10, NoDeadlineStep, CallOverStep
<1> QED BY <1>1, <1>2, <1>3, <1>4, <1>5, <1>6, <1>7, <1>8, <1>9, <1>10, ZenonT(60)
        DEF Next, Server, Waiter, Rest

(* Every reachable state has the invariant. *)
THEOREM ClientInvariant == Spec => []IInv
BY InitIInv, NextIInv, PTL DEF Spec

(* Every variable keeps its type and the socket is never filled beyond Room,  *)
(* for any number of goroutines and calls.                                   *)
THEOREM ClientTypeCorrect == Spec => []TypeOK
<1>1. IInv => TypeOK
  BY TypeParts, Zenon DEF IInv
<1> QED BY <1>1, ClientInvariant, PTL

(* WriteLine: until a write stops half-way, the daemon executes exactly the   *)
(* lines that were written, whole, once and in order, for any number of       *)
(* goroutines and lines and any size of the socket.                          *)
THEOREM ClientExecutesWhatWasWritten == Spec => []ExecutesWhatWasWritten
<1>1. IInv => ExecutesWhatWasWritten
  <2> SUFFICES ASSUME IInv, ~broken PROVE Len(done) <= Len(ok) /\ \A i \in DOMAIN done : done[i] = Whole(ok[i])
    BY DEF ExecutesWhatWasWritten
  <2>1. Types /\ Executed
    BY DEF IInv
  <2>2. DOMAIN done = 1 .. Len(done)
    BY <2>1, Lengths, ZenonT(60)
  <2> QED BY <2>1, <2>2, ZenonT(60) DEF Executed
<1> QED BY <1>1, ClientInvariant, PTL

(* WriteLine: a goroutine that writes while the connection has a write        *)
(* deadline set that deadline itself.                                        *)
THEOREM ClientTimesOutByOwnDeadline == Spec => []TimesOutByOwnDeadline
<1>1. IInv => TimesOutByOwnDeadline
  BY DEF IInv, TimesOutByOwnDeadline, Mutex, Timed
<1> QED BY <1>1, ClientInvariant, PTL

(* WriteLine returned nil: while the daemon lives, has not dropped the         *)
(* connection and no write stopped half-way, the line was executed whole or   *)
(* the rest of it, with its newline, is still on its way to the scanner; Close *)
(* does not change that.                                                     *)
NothingLost ==
  ~broken /\ daemon # "dead" /\ ~Unserved =>
    \A i \in DOMAIN ok :
      \/ i \in DOMAIN done /\ done[i] = Whole(ok[i])
      \/ \E j \in DOMAIN wire : wire[j] = RestOf(ok[i])

(* No line whose WriteLine succeeded is dropped, NothingLost, for any number  *)
(* of goroutines and lines.                                                  *)
THEOREM ClientLosesNothing == Spec => []NothingLost
<1>1. IInv => NothingLost
  <2> SUFFICES ASSUME IInv, ~broken, daemon # "dead", ~Unserved, NEW i \in DOMAIN ok
               PROVE  \/ i \in DOMAIN done /\ done[i] = Whole(ok[i])
                      \/ \E j \in DOMAIN wire : wire[j] = RestOf(ok[i])
    BY DEF NothingLost
  <2>1. Types /\ Executed /\ Flow
    BY Zenon DEF IInv, Live
  <2>2. /\ DOMAIN done = 1 .. Len(done) /\ DOMAIN ok = 1 .. Len(ok)
        /\ DOMAIN wire = 1 .. Len(wire)
    BY <2>1, Lengths DEF Types
  <2>3. /\ Len(acc) \in {0, 1} /\ Len(wire) \in Nat /\ Half \in {0, 1} /\ Pending \in Int
        /\ Len(done) \in Nat /\ Len(ok) = Len(done) + Pending
        /\ Len(acc) + Len(wire) = 2 * Pending + Half
    BY <2>1, Counts, Zenon
  <2>4. CASE i \in 1 .. Len(done)
    BY <2>1, <2>2, <2>4, Zenon DEF Executed
  <2>5. CASE i \notin 1 .. Len(done)
    <3>1. i - Len(done) \in 1 .. Pending /\ Len(done) + (i - Len(done)) = i
      BY <2>2, <2>3, <2>5
    <3>2. 2 * (i - Len(done)) - Len(acc) \in 1 .. Len(wire)
      BY <2>3, <3>1, Slots, ZenonT(60)
    <3>3. wire[2 * (i - Len(done)) - Len(acc)] = RestOf(ok[i])
      BY <2>1, <3>1, ZenonT(60) DEF Flow
    <3> QED BY <2>2, <3>2, <3>3, Zenon
  <2> QED BY <2>4, <2>5, ZenonT(60)
<1> QED BY <1>1, ClientInvariant, PTL

(* Client.mu is held only by a goroutine inside its write, whatever way out     *)
(* the calls before it took, and under it the connection is not closed.        *)
MutexGuardsWrites ==
  /\ mu # NoThread => pc[mu] \in {"text", "rest"} /\ open = "yes" /\ ~fin
  /\ \A t, u \in Threads :
       pc[t] \in {"text", "rest"} /\ pc[u] \in {"text", "rest"} => t = u

(* WriteLine and Close: no path leaks the mutex, no two writes overlap and      *)
(* Close never cuts a write short, for any number of goroutines.              *)
THEOREM ClientMutexGuardsWrites == Spec => []MutexGuardsWrites
<1>1. IInv => MutexGuardsWrites
  <2> SUFFICES ASSUME IInv PROVE MutexGuardsWrites
    OBVIOUS
  <2>1. Types /\ Mutex
    BY DEF IInv
  <2> QED BY <2>1 DEF Types, Mutex, MutexGuardsWrites
<1> QED BY <1>1, ClientInvariant, PTL

-----------------------------------------------------------------------------
(* What a write that stops half-way spoils. *)

(* The pieces between the client and done, read (acc) or not (wire). *)
At(a, w, k) == IF k <= Len(a) THEN a[k] ELSE w[k - Len(a)]
Held == Len(acc) + Len(wire)

IsOk(l) == \E i \in DOMAIN ok : ok[i] = l
(* The call of WriteLine that wrote l, or a part of it, has returned. *)
Over(l) == l[2] < calls[l[1]] \/ (l[2] = calls[l[1]] /\ pc[l[1]] = "idle")
(* A first half that a failed write left, or that waits for its rest. *)
Left(p) == p.part = "text" /\ Over(p.line) /\ ~IsOk(p.line)
Writing(p) == p.part = "text" /\ p.line[2] = calls[p.line[1]] /\ pc[p.line[1]] = "rest"

(* The rest of a line stands behind its text; a text stands before its rest,  *)
(* or was left, or is the last piece and its write goes on.                   *)
Linked(k) ==
  /\ At(acc, wire, k).part = "rest" =>
       /\ k > 1 /\ At(acc, wire, k - 1) = TextOf(At(acc, wire, k).line)
       /\ IsOk(At(acc, wire, k).line)
  /\ At(acc, wire, k).part = "text" =>
       \/ Left(At(acc, wire, k))
       \/ k < Held /\ At(acc, wire, k + 1) = RestOf(At(acc, wire, k).line)
       \/ k = Held /\ Writing(At(acc, wire, k))

(* One line the daemon executed. *)
Command(d) ==
  /\ Len(d) > 1 /\ d[Len(d)].part = "rest"
  /\ d[Len(d) - 1] = TextOf(d[Len(d)].line)
  /\ IsOk(d[Len(d)].line)
  /\ \A j \in 1 .. Len(d) - 2 : Left(d[j])
Remains(d) == Len(d) > 0 /\ \A j \in 1 .. Len(d) : Left(d[j])

OkOver == \A l \in Lines : IsOk(l) => Over(l)
Assembling == \A j \in 1 .. Len(acc) : acc[j].part = "text"
Chain == \A k \in 1 .. Held : Linked(k)
HalfWritten ==
  \A t \in Threads : pc[t] = "rest" /\ Live =>
    Held > 0 /\ At(acc, wire, Held) = TextOf(<<t, calls[t]>>)
Dropped == ~Live => acc = <<>> /\ wire = <<>>
Commands ==
  \A i \in 1 .. Len(done) :
    Command(done[i]) \/ (i = Len(done) /\ conn = "eof" /\ Remains(done[i]))

OInv == OkOver /\ Assembling /\ Chain /\ HalfWritten /\ Dropped /\ Commands

(* What a step does to the calls and to ok. *)
LEMMA Progress ==
  ASSUME IInv, [Next]_vars
  PROVE  \/ UNCHANGED <<pc, calls, ok>>
         \/ \E t \in Threads :
              /\ pc[t] = "idle" /\ ok' = ok /\ calls' = [calls EXCEPT ![t] = @ + 1]
              /\ pc' = pc \/ pc' = [pc EXCEPT ![t] = "lock"]
         \/ \E t \in Threads :
              /\ pc[t] # "idle" /\ UNCHANGED <<calls, ok>>
              /\ \/ pc' = [pc EXCEPT ![t] = "idle"]
                 \/ pc[t] # "rest" /\ pc' = [pc EXCEPT ![t] = "text"]
                 \/ pc[t] # "rest" /\ pc' = [pc EXCEPT ![t] = "rest"]
         \/ \E t \in Threads :
              /\ pc[t] = "rest" /\ calls' = calls /\ pc' = [pc EXCEPT ![t] = "idle"]
              /\ ok' = Append(ok, <<t, calls[t]>>)
<1>1. CASE UNCHANGED vars \/ Server \/ Refuse \/ Die \/ Waiter \/ WaitReady \/ Cancelled \/ OrphanSees
           \/ Dial \/ Rest
  BY <1>1, ZenonT(60)
     DEF Server, Listen, PrintReady, Accept, Refuse, Sniff, SniffEOF, Drop, Read, ReadTooLong, ReadEOF,
         Die, Waiter, SeeReady, SeeEOF, WaitReady, Cancelled, OrphanSees, Dial, Rest, vars, client, wait,
         server
<1>2. ASSUME NEW t \in Threads, NEW o \in {"line", "bad", "close"}, NEW d \in BOOLEAN, Call(t, o, d)
      PROVE  /\ pc[t] = "idle" /\ ok' = ok /\ calls' = [calls EXCEPT ![t] = @ + 1]
             /\ pc' = [pc EXCEPT ![t] = "lock"]
  BY <1>2, Zenon DEF Call
<1>3. ASSUME NEW t \in Threads, CallOver(t)
      PROVE  pc[t] = "idle" /\ ok' = ok /\ calls' = [calls EXCEPT ![t] = @ + 1] /\ pc' = pc
  BY <1>3, Zenon DEF CallOver
<1>4. ASSUME NEW t \in Threads, NoWrite(t) \/ NoDeadline(t) \/ StartWrite(t) \/ PutText(t)
      PROVE  /\ pc[t] # "idle" /\ pc[t] # "rest" /\ UNCHANGED <<calls, ok>>
             /\ \E v \in {"idle", "text", "rest"} : pc' = [pc EXCEPT ![t] = v]
  BY <1>4 DEF NoWrite, NoDeadline, StartWrite, PutText, Finish
<1>5. ASSUME NEW t \in Threads, NEW r \in {"error", "timeout"}, WriteFails(t, r)
      PROVE  pc[t] # "idle" /\ UNCHANGED <<calls, ok>> /\ pc' = [pc EXCEPT ![t] = "idle"]
  BY <1>5 DEF WriteFails, Finish
<1>6. ASSUME NEW t \in Threads, PutRest(t)
      PROVE  /\ pc[t] = "rest" /\ calls' = calls /\ pc' = [pc EXCEPT ![t] = "idle"]
             /\ ok' = Append(ok, <<t, calls[t]>>)
  BY <1>6, Zenon DEF PutRest, Finish
<1> QED BY <1>1, <1>2, <1>3, <1>4, <1>5, <1>6, ZenonT(60) DEF Next, Writer

(* A line that is over stays over, and a half that was left stays torn.  A     *)
(* write that goes on is over only when it succeeds or leaves its half.       *)
LEMMA TornForGood ==
  ASSUME IInv, OkOver, [Next]_vars
  PROVE  /\ \A l \in Lines : Over(l) => Over(l)'
         /\ \A l \in Lines : IsOk(l) => IsOk(l)'
         /\ OkOver'
         /\ \A q \in Pieces : Left(q) => Left(q)'
         /\ ok' = ok => \A q \in Pieces : Writing(q) => Writing(q)' \/ Left(q)'
<1>0. /\ pc \in [Threads -> {"idle", "lock", "text", "rest"}] /\ calls \in [Threads -> 0..MaxCalls]
      /\ ok \in Seq(Lines) /\ MaxCalls \in Nat
  BY LineClientAssumption DEF IInv, Types
<1>1. \A l \in Lines : l[1] \in Threads /\ l[2] \in Nat
  BY <1>0 DEF Lines
<1>2. ASSUME NEW u \in Threads
      PROVE  /\ calls[u] \in Nat /\ calls'[u] \in Nat /\ calls'[u] >= calls[u]
             /\ calls'[u] = calls[u] /\ pc[u] = "idle" => pc'[u] = "idle"
             /\ pc[u] = "rest" => calls'[u] = calls[u] /\ pc'[u] \in {"rest", "idle"}
  BY <1>0, Progress, SMTT(30)
<1>3. ASSUME NEW l \in Lines, Over(l) PROVE Over(l)'
  BY <1>1, <1>2, <1>3, SMTT(30) DEF Over
<1>4. \/ ok' = ok
      \/ \E t \in Threads :
           /\ pc[t] = "rest" /\ calls'[t] = calls[t] /\ pc'[t] = "idle"
           /\ ok' = Append(ok, <<t, calls[t]>>) /\ <<t, calls[t]>> \in Lines
  <2>1. ASSUME NEW t \in Threads, pc[t] = "rest", calls' = calls, pc' = [pc EXCEPT ![t] = "idle"]
        PROVE  pc'[t] = "idle" /\ calls'[t] = calls[t] /\ <<t, calls[t]>> \in Lines
    BY <1>0, <2>1, SMTT(30) DEF IInv, Called, Lines
  <2> QED BY <2>1, Progress, ZenonT(60)
<1>5. ASSUME NEW l \in Lines
      PROVE  /\ IsOk(l) => IsOk(l)'
             /\ IsOk(l)' => \/ IsOk(l)
                           \/ /\ l[2] = calls[l[1]] /\ pc[l[1]] = "rest"
                              /\ l[2] = calls'[l[1]] /\ pc'[l[1]] = "idle"
  <2>1. CASE ok' = ok
    BY <2>1 DEF IsOk
  <2>2. ASSUME NEW t \in Threads, pc[t] = "rest", calls'[t] = calls[t], pc'[t] = "idle",
               ok' = Append(ok, <<t, calls[t]>>), <<t, calls[t]>> \in Lines
        PROVE  /\ IsOk(l) => IsOk(l)'
               /\ IsOk(l)' => \/ IsOk(l)
                             \/ /\ l[2] = calls[l[1]] /\ pc[l[1]] = "rest"
                                /\ l[2] = calls'[l[1]] /\ pc'[l[1]] = "idle"
    <3> DEFINE x == <<t, calls[t]>>
    <3>1. ok' = Append(ok, x) /\ x \in Lines
      BY <2>2
    <3> HIDE DEF x
    <3>2. /\ DOMAIN ok = 1 .. Len(ok) /\ Len(ok) \in Nat /\ DOMAIN ok' = 1 .. Len(ok) + 1
          /\ \A i \in 1 .. Len(ok) : ok'[i] = ok[i]
          /\ ok'[Len(ok) + 1] = x
      <4>1. /\ Append(ok, x) \in Seq(Lines) /\ Len(Append(ok, x)) = Len(ok) + 1
            /\ \A i \in 1 .. Len(ok) : Append(ok, x)[i] = ok[i]
            /\ Append(ok, x)[Len(ok) + 1] = x
        BY <1>0, <3>1, AppendProperties
      <4> QED BY <1>0, <3>1, <4>1
    <3>3. (\E i \in DOMAIN ok : ok[i] = l) => \E i \in DOMAIN ok' : ok'[i] = l
      BY <3>2
    <3>4. (\E i \in DOMAIN ok' : ok'[i] = l) => (\E i \in DOMAIN ok : ok[i] = l) \/ l = x
      BY <3>2
    <3>5. l = x => l[1] = t /\ l[2] = calls[t]
      BY DEF x
    <3> QED BY <2>2, <3>3, <3>4, <3>5, Zenon DEF IsOk
  <2>3. CASE ok' # ok
    BY <1>4, <2>2, <2>3, Zenon
  <2> QED BY <2>1, <2>3
<1>6. OkOver'
  BY <1>3, <1>5 DEF OkOver, Over
<1>7. ASSUME NEW q \in Pieces, Left(q) PROVE Left(q)'
  <2>1. q.line \in Lines
    BY SMTT(30) DEF Pieces
  <2>2. ~(q.line[2] = calls[q.line[1]] /\ pc[q.line[1]] = "rest")
    BY <1>1, <1>2, <1>7, <2>1, SMTT(30) DEF Left, Over
  <2> QED BY <1>3, <1>5, <1>7, <2>1, <2>2, Zenon DEF Left
<1>8. ASSUME ok' = ok, NEW q \in Pieces, Writing(q) PROVE Writing(q)' \/ Left(q)'
  <2>1. q.line \in Lines /\ q.line[1] \in Threads
    BY <1>1, SMTT(30) DEF Pieces
  <2>2. ~Over(q.line)
    BY <1>1, <1>2, <1>8, <2>1, SMTT(30) DEF Over, Writing
  <2>3. ~IsOk(q.line) /\ ~IsOk(q.line)'
    BY <1>8, <2>1, <2>2 DEF OkOver, IsOk
  <2>4. q.line[2] = calls'[q.line[1]] /\ pc'[q.line[1]] \in {"rest", "idle"}
    BY <1>2, <1>8, <2>1 DEF Writing
  <2> QED BY <1>8, <2>3, <2>4 DEF Writing, Left, Over
<1> QED BY <1>3, <1>5, <1>6, <1>7, <1>8, Zenon

LEMMA PieceFacts ==
  /\ \A l : TextOf(l).part = "text" /\ TextOf(l).line = l /\ RestOf(l).part = "rest" /\ RestOf(l).line = l
  /\ \A q \in Pieces : q.line \in Lines /\ q.part \in {"text", "rest"}
BY SMTT(30) DEF TextOf, RestOf, Pieces

LEMMA HeldPieces ==
  ASSUME Types
  PROVE  /\ Len(acc) \in Nat /\ Len(wire) \in Nat /\ Held \in Nat
         /\ \A k \in 1 .. Held : At(acc, wire, k) \in Pieces
         /\ \A j \in 1 .. Len(acc) : j \in 1 .. Held /\ At(acc, wire, j) = acc[j] /\ acc[j] \in Pieces
<1>1. /\ Len(acc) \in Nat /\ Len(wire) \in Nat
      /\ \A j \in 1 .. Len(acc) : acc[j] \in Pieces
      /\ \A j \in 1 .. Len(wire) : wire[j] \in Pieces
  BY DEF Types
<1> QED BY <1>1 DEF At, Held

(* What was executed stays what it was. *)
LEMMA CommandStays ==
  ASSUME IInv, OInv, [Next]_vars, NEW d \in Seq(Pieces)
  PROVE  (Command(d) => Command(d)') /\ (Remains(d) => Remains(d)')
<1>1. /\ \A l \in Lines : IsOk(l) => IsOk(l)'
      /\ \A q \in Pieces : Left(q) => Left(q)'
  BY TornForGood, Zenon DEF OInv
<1>2. Len(d) \in Nat /\ \A j \in 1 .. Len(d) : d[j] \in Pieces /\ d[j].line \in Lines
  BY PieceFacts
<1>3. ASSUME Remains(d) PROVE Remains(d)'
  BY <1>1, <1>2, <1>3 DEF Remains
<1>4. ASSUME Command(d) PROVE Command(d)'
  <2>1. Len(d) \in 1 .. Len(d) /\ \A j \in 1 .. Len(d) - 2 : j \in 1 .. Len(d)
    BY <1>2, <1>4 DEF Command
  <2> QED BY <1>1, <1>2, <1>4, <2>1, Zenon DEF Command, TextOf
<1> QED BY <1>3, <1>4

LEMMA CommandsStay ==
  ASSUME IInv, OInv, [Next]_vars, done' = done, conn = "eof" => conn' = "eof"
  PROVE  Commands'
<1>1. \A i \in 1 .. Len(done) : done[i] \in Seq(Pieces)
  BY DEF IInv, Types
<1>2. \A i \in 1 .. Len(done) : (Command(done[i]) => Command(done[i])') /\ (Remains(done[i]) => Remains(done[i])')
  BY <1>1, CommandStays
<1>3. \A i \in 1 .. Len(done) : Command(done[i])' \/ (i = Len(done) /\ conn' = "eof" /\ Remains(done[i])')
  BY <1>2, Zenon DEF OInv, Commands
<1> QED BY <1>3, Zenon DEF Commands, Command, Remains, Left, IsOk, Over, TextOf

(* A step that leaves nothing of the connection. *)
LEMMA EmptyStep ==
  ASSUME IInv, OInv, [Next]_vars, ~Live', acc' = <<>>, wire' = <<>>, done' = done,
         conn = "eof" => conn' = "eof"
  PROVE  OInv'
<1>1. OkOver'
  BY TornForGood DEF OInv
<1>2. Commands'
  BY CommandsStay
<1>3. Assembling' /\ Chain' /\ HalfWritten' /\ Dropped'
  BY DEF Assembling, Chain, Held, HalfWritten, Dropped
<1> QED BY <1>1, <1>2, <1>3 DEF OInv

(* A step that leaves the connection as it is. *)
LEMMA IdleStep ==
  ASSUME IInv, OInv, [Next]_vars, UNCHANGED <<acc, wire, done, ok>>, conn = "eof" => conn' = "eof",
         Live' <=> Live,
         \A u \in Threads : Live /\ pc'[u] = "rest" => pc[u] = "rest" /\ calls'[u] = calls[u]
  PROVE  OInv'
<1>0. Types
  BY DEF IInv
<1>1. OkOver' /\ Commands'
  BY TornForGood, CommandsStay DEF OInv
<1>2. Assembling' /\ Dropped' /\ HalfWritten'
  <2>1. Assembling /\ Dropped /\ HalfWritten /\ Held' = Held
    BY DEF OInv, Held
  <2> QED BY <2>1, SMTT(30) DEF Assembling, Dropped, HalfWritten, At, TextOf
<1>3. ASSUME NEW k \in 1 .. Held PROVE Linked(k)'
  <2>1. Linked(k) /\ Held' = Held
    BY DEF OInv, Chain, Held
  <2> DEFINE q == At(acc, wire, k)
  <2>2. q \in Pieces /\ q.line \in Lines
    BY <1>0, HeldPieces, PieceFacts
  <2>3. /\ IsOk(q.line) => IsOk(q.line)'
        /\ Left(q) => Left(q)'
        /\ Writing(q) => Writing(q)' \/ Left(q)'
    BY <2>2, TornForGood, Zenon DEF OInv
  <2>4. At(acc', wire', k) = q /\ At(acc', wire', k - 1) = At(acc, wire, k - 1)
        /\ At(acc', wire', k + 1) = At(acc, wire, k + 1)
    BY DEF At
  <2> QED BY <2>1, <2>3, <2>4, ZenonT(60) DEF Linked, Left, Writing, IsOk, Over, TextOf, RestOf
<1>4. Chain'
  BY <1>3 DEF Chain, Held
<1> QED BY <1>1, <1>2, <1>4 DEF OInv

(* A piece is written behind those that are there. *)
LEMMA Behind ==
  ASSUME Types, acc' = acc, Len(wire') = Len(wire) + 1,
         \A j \in 1 .. Len(wire) : wire'[j] = wire[j]
  PROVE  /\ Held' = Held + 1
         /\ \A k \in 1 .. Held : At(acc', wire', k) = At(acc, wire, k)
         /\ At(acc', wire', Held + 1) = wire'[Len(wire) + 1]
<1>1. Len(acc) \in Nat /\ Len(wire) \in Nat /\ Len(acc') = Len(acc)
  BY HeldPieces
<1>2. Held = Len(acc) + Len(wire) /\ Held' = Held + 1
  BY <1>1 DEF Held
<1>3. ASSUME NEW k \in 1 .. Held PROVE At(acc', wire', k) = At(acc, wire, k)
  <2>1. CASE k <= Len(acc)
    BY <2>1 DEF At
  <2>2. CASE ~(k <= Len(acc))
    <3>1. k - Len(acc) \in 1 .. Len(wire)
      BY <1>1, <1>2, <2>2
    <3> QED BY <1>1, <2>2, <3>1 DEF At
  <2> QED BY <2>1, <2>2
<1>4. At(acc', wire', Held + 1) = wire'[Len(wire) + 1]
  <2>1. ~(Held + 1 <= Len(acc)) /\ (Held + 1) - Len(acc) = Len(wire) + 1
    BY <1>1, <1>2
  <2> QED BY <1>1, <2>1 DEF At
<1> QED BY <1>2, <1>3, <1>4

LEMMA PutPiece ==
  ASSUME IInv, OInv, NEW t \in Threads, NEW part \in {"text", "rest"}, PutText(t) \/ PutRest(t),
         part = IF pc[t] = "text" THEN "text" ELSE "rest", Live
  PROVE  /\ mu = t /\ UNCHANGED <<acc, done, conn, calls>> /\ Live'
         /\ Held' = Held + 1
         /\ \A k \in 1 .. Held : At(acc', wire', k) = At(acc, wire, k)
         /\ At(acc', wire', Held + 1) = [line |-> <<t, calls[t]>>, part |-> part]
         /\ <<t, calls[t]>> \in Lines
<1>0. Types
  BY DEF IInv
<1>1. /\ Push(t, part) /\ UNCHANGED <<acc, done, conn, calls, daemon>>
      /\ pc[t] \in {"text", "rest"}
  BY DEF PutText, PutRest, server
<1>2. mu = t /\ <<t, calls[t]>> \in Lines
  BY <1>1, Inside
<1>3. Live'
  BY <1>1 DEF Live, Unserved
<1>4. /\ Len(wire') = Len(wire) + 1
      /\ \A j \in 1 .. Len(wire) : wire'[j] = wire[j]
      /\ wire'[Len(wire) + 1] = [line |-> <<t, calls[t]>>, part |-> part]
  BY <1>0, <1>1, <1>2, PushStep, Zenon DEF Live
<1> QED BY <1>0, <1>1, <1>2, <1>3, <1>4, Behind, Zenon

LEMMA OPutText == ASSUME IInv, OInv, [Next]_vars, NEW t \in Threads, PutText(t) PROVE OInv'
<1>0. Types /\ Mutex
  BY DEF IInv
<1>1. CASE ~Live
  <2>1. /\ UNCHANGED <<acc, wire, done, conn, daemon>>
    BY <1>1 DEF PutText, Push, Live, server
  <2>2. ~Live' /\ acc' = <<>> /\ wire' = <<>>
    BY <1>1, <2>1 DEF OInv, Dropped, Live, Unserved
  <2> QED BY <2>1, <2>2, EmptyStep
<1>2. CASE Live
  <2>1. pc[t] = "text" /\ pc' = [pc EXCEPT ![t] = "rest"] /\ ok' = ok
    BY DEF PutText
  <2>l. PICK l \in Lines : l = <<t, calls[t]>>
    BY <1>2, <2>1, PutPiece
  <2>3. PICK n \in Nat : n = Held
    BY <1>0, HeldPieces
  <2>2. /\ mu = t /\ UNCHANGED <<acc, done, conn, calls>> /\ Live'
        /\ Held' = n + 1
        /\ \A k \in 1 .. n : At(acc', wire', k) = At(acc, wire, k)
        /\ At(acc', wire', n + 1) = TextOf(l)
    BY <1>2, <2>1, <2>l, <2>3, PutPiece, ZenonT(60) DEF TextOf
  <2>4. pc'[t] = "rest" /\ \A u \in Threads : u # t => pc'[u] # "rest" /\ pc[u] # "rest"
    BY <1>0, <2>1, <2>2 DEF Types, Mutex
  <2>5. OkOver' /\ Commands'
    BY <2>2, TornForGood, CommandsStay DEF OInv
  <2>6. Assembling' /\ Dropped'
    BY <2>2 DEF OInv, Assembling, Dropped
  <2>7. HalfWritten'
    <3>1. Held' > 0 /\ At(acc', wire', Held') = TextOf(<<t, calls'[t]>>)
      BY <2>2, <2>3, <2>l
    <3> QED BY <2>4, <3>1, Zenon DEF HalfWritten, TextOf, At, Held
  <2>8. ASSUME NEW k \in 1 .. n PROVE Linked(k)'
    <3>1. PICK q \in Pieces : q = At(acc, wire, k)
      BY <1>0, <2>3, HeldPieces
    <3>p. q.line \in Lines /\ q.part \in {"text", "rest"}
      BY PieceFacts
    <3>2. Linked(k) /\ ~Writing(q)
      BY <2>1, <2>3, <2>4, <3>p DEF OInv, Chain, Writing, Lines
    <3>3. (IsOk(q.line) => IsOk(q.line)') /\ (Left(q) => Left(q)')
      BY <3>p, TornForGood, Zenon DEF OInv
    <3>4. At(acc', wire', k) = q
      BY <2>2, <3>1
    <3>5. CASE q.part = "rest"
      <4>1. k > 1 /\ At(acc, wire, k - 1) = TextOf(q.line) /\ IsOk(q.line)'
        BY <3>1, <3>2, <3>3, <3>5 DEF Linked
      <4>2. At(acc', wire', k - 1) = TextOf(q.line)
        BY <2>2, <2>3, <4>1, SMTT(30)
      <4> QED BY <3>4, <3>5, <4>1, <4>2 DEF Linked, IsOk, TextOf
    <3>6. CASE q.part = "text" /\ Left(q)
      BY <3>3, <3>4, <3>6 DEF Linked, Left, IsOk, Over
    <3>7. CASE q.part = "text" /\ ~Left(q)
      <4>1. k < n /\ At(acc, wire, k + 1) = RestOf(q.line)
        BY <2>3, <3>1, <3>2, <3>7 DEF Linked
      <4>2. k < Held' /\ At(acc', wire', k + 1) = RestOf(q.line)
        BY <2>2, <2>3, <4>1
      <4> QED BY <3>4, <3>7, <4>2 DEF Linked, RestOf, Held
    <3> QED BY <3>p, <3>5, <3>6, <3>7
  <2>9. Linked(n + 1)'
    <3>1. Writing(TextOf(l))'
      <4>1. TextOf(l).part = "text" /\ TextOf(l).line[1] = t /\ TextOf(l).line[2] = calls[t]
        BY <2>l DEF TextOf
      <4> QED BY <2>2, <2>4, <4>1, Zenon DEF Writing
    <3>2. TextOf(l).part = "text"
      BY PieceFacts
    <3> QED BY <2>2, <3>1, <3>2, Zenon DEF Linked
  <2>10. Chain'
    <3>1. \A k \in 1 .. n + 1 : k \in 1 .. n \/ k = n + 1
      OBVIOUS
    <3>2. \A k \in 1 .. n + 1 : Linked(k)'
      BY <2>8, <2>9, <3>1, Zenon
    <3> QED BY <2>2, <3>2, Zenon DEF Chain
  <2> QED BY <2>5, <2>6, <2>7, <2>10 DEF OInv
<1> QED BY <1>1, <1>2

LEMMA OPutRest == ASSUME IInv, OInv, [Next]_vars, NEW t \in Threads, PutRest(t) PROVE OInv'
<1>0. Types /\ Mutex
  BY DEF IInv
<1>1. CASE ~Live
  <2>1. /\ UNCHANGED <<acc, wire, done, conn, daemon>>
    BY <1>1 DEF PutRest, Push, Live, server
  <2>2. ~Live' /\ acc' = <<>> /\ wire' = <<>>
    BY <1>1, <2>1 DEF OInv, Dropped, Live, Unserved
  <2> QED BY <2>1, <2>2, EmptyStep
<1>2. CASE Live
  <2>1. pc[t] = "rest" /\ pc' = [pc EXCEPT ![t] = "idle"] /\ ok' = Append(ok, <<t, calls[t]>>)
    BY DEF PutRest, Finish
  <2>l. PICK l \in Lines : l = <<t, calls[t]>>
    BY <1>2, <2>1, PutPiece
  <2>3. PICK n \in Nat : n = Held
    BY <1>0, HeldPieces
  <2>2. /\ mu = t /\ UNCHANGED <<acc, done, conn, calls>> /\ Live'
        /\ Held' = n + 1
        /\ \A k \in 1 .. n : At(acc', wire', k) = At(acc, wire, k)
        /\ At(acc', wire', n + 1) = RestOf(l)
    BY <1>2, <2>1, <2>l, <2>3, PutPiece, ZenonT(60) DEF RestOf
  <2>4. \A u \in Threads : pc'[u] # "rest" /\ (u # t => pc[u] # "rest")
    BY <1>0, <2>1, <2>2 DEF Types, Mutex
  <2>5. OkOver' /\ Commands'
    BY <2>2, TornForGood, CommandsStay DEF OInv
  <2>6. Assembling' /\ Dropped'
    BY <2>2 DEF OInv, Assembling, Dropped
  <2>7. HalfWritten'
    BY <2>4, SMTT(30) DEF HalfWritten
  <2>t. n > 0 /\ At(acc, wire, n) = TextOf(l)
    BY <1>2, <2>1, <2>3, <2>l DEF OInv, HalfWritten
  <2>ok. IsOk(l)'
    <3>1. ok \in Seq(Lines) /\ ok' = Append(ok, l)
      BY <1>0, <2>1, <2>l DEF Types
    <3>2. Len(ok) + 1 \in DOMAIN ok' /\ ok'[Len(ok) + 1] = l
      BY <3>1
    <3> QED BY <3>2 DEF IsOk
  <2>8. ASSUME NEW k \in 1 .. n PROVE Linked(k)'
    <3>1. PICK q \in Pieces : q = At(acc, wire, k)
      BY <1>0, <2>3, HeldPieces
    <3>p. q.line \in Lines /\ q.part \in {"text", "rest"}
      BY PieceFacts
    <3>2. Linked(k)
      BY <2>3, SMTT(30) DEF OInv, Chain
    <3>3. (IsOk(q.line) => IsOk(q.line)') /\ (Left(q) => Left(q)')
      BY <3>p, TornForGood, Zenon DEF OInv
    <3>4. At(acc', wire', k) = q
      BY <2>2, <3>1
    <3>5. CASE q.part = "rest"
      <4>1. k > 1 /\ At(acc, wire, k - 1) = TextOf(q.line) /\ IsOk(q.line)'
        BY <3>1, <3>2, <3>3, <3>5 DEF Linked
      <4>2. At(acc', wire', k - 1) = TextOf(q.line)
        BY <2>2, <2>3, <4>1, SMTT(30)
      <4> QED BY <3>4, <3>5, <4>1, <4>2 DEF Linked, IsOk, TextOf
    <3>6. CASE q.part = "text" /\ Left(q)
      BY <3>3, <3>4, <3>6 DEF Linked, Left, IsOk, Over
    <3>7. CASE q.part = "text" /\ ~Left(q)
      <4>1. k < Held' /\ At(acc', wire', k + 1) = RestOf(q.line)
        <5>1. CASE k < n
          <6>1. At(acc, wire, k + 1) = RestOf(q.line)
            BY <2>3, <3>1, <3>2, <3>7, <5>1 DEF Linked
          <6> QED BY <2>2, <5>1, <6>1
        <5>2. CASE k = n
          <6>1. q.line = l
            BY <2>t, <3>1, <5>2, PieceFacts, SMTT(30)
          <6> QED BY <2>2, <5>2, <6>1
        <5> QED BY <5>1, <5>2
      <4> QED BY <3>4, <3>7, <4>1 DEF Linked, RestOf, Held
    <3> QED BY <3>p, <3>5, <3>6, <3>7
  <2>9. Linked(n + 1)'
    <3>1. RestOf(l).part = "rest" /\ RestOf(l).line = l
      BY PieceFacts
    <3>2. n + 1 > 1 /\ (n + 1) - 1 = n /\ At(acc', wire', n) = TextOf(l)
      BY <2>2, <2>t, SMTT(30)
    <3> QED BY <2>2, <2>ok, <3>1, <3>2 DEF Linked, IsOk, TextOf
  <2>10. Chain'
    <3>1. \A k \in 1 .. n + 1 : k \in 1 .. n \/ k = n + 1
      OBVIOUS
    <3>2. \A k \in 1 .. n + 1 : Linked(k)'
      BY <2>8, <2>9, <3>1, Zenon
    <3> QED BY <2>2, <3>2, Zenon DEF Chain
  <2> QED BY <2>5, <2>6, <2>7, <2>10 DEF OInv
<1> QED BY <1>1, <1>2

(* The scanner takes a text: it changes hands. *)
LEMMA OReadText ==
  ASSUME IInv, OInv, [Next]_vars, Read, Head(wire).part # "rest"
  PROVE  OInv'
<1>0. Types
  BY DEF IInv
<1>1. /\ wire # <<>> /\ wire' = Tail(wire) /\ acc' = Append(acc, Head(wire))
      /\ UNCHANGED <<done, conn, daemon, pc, calls, ok>>
  BY ZenonT(60) DEF Read, client
<1>2. /\ Len(wire') = Len(wire) - 1 /\ Len(wire) >= 1 /\ Head(wire) = wire[1] /\ Head(wire) \in Pieces
      /\ \A j \in 1 .. Len(wire) - 1 : wire'[j] = wire[j + 1]
  BY <1>0, <1>1, HeadTailProperties DEF Types
<1>3. /\ Len(acc') = Len(acc) + 1 /\ acc'[Len(acc) + 1] = wire[1]
      /\ \A j \in 1 .. Len(acc) : acc'[j] = acc[j]
  <2>1. Head(wire) \in Pieces /\ acc \in Seq(Pieces)
    BY <1>0, <1>2 DEF Types
  <2>2. /\ Len(Append(acc, Head(wire))) = Len(acc) + 1
        /\ Append(acc, Head(wire))[Len(acc) + 1] = Head(wire)
        /\ \A j \in 1 .. Len(acc) : Append(acc, Head(wire))[j] = acc[j]
    BY <2>1, AppendProperties
  <2> QED BY <1>1, <1>2, <2>2
<1>4. Len(acc) \in Nat /\ Len(wire) \in Nat /\ Held \in Nat
  BY <1>0, HeldPieces
<1>5. Held' = Held /\ \A k \in 1 .. Held : At(acc', wire', k) = At(acc, wire, k)
  <2>1. Held' = Held
    BY <1>2, <1>3, <1>4 DEF Held
  <2>2. ASSUME NEW k \in 1 .. Held PROVE At(acc', wire', k) = At(acc, wire, k)
    <3>1. CASE k <= Len(acc)
      BY <1>3, <1>4, <3>1 DEF At
    <3>2. CASE k = Len(acc) + 1
      BY <1>3, <1>4, <3>2, SMTT(30) DEF At
    <3>3. CASE k > Len(acc) + 1
      <4>1. /\ k - (Len(acc) + 1) \in 1 .. Len(wire) - 1
            /\ (k - (Len(acc) + 1)) + 1 = k - Len(acc)
        BY <1>4, <3>3 DEF Held
      <4>2. wire'[k - (Len(acc) + 1)] = wire[k - Len(acc)]
        BY <1>2, <4>1
      <4> QED BY <1>3, <1>4, <3>3, <4>2 DEF At
    <3> QED BY <1>4, <3>1, <3>2, <3>3
  <2> QED BY <2>1, <2>2
<1>6. OkOver' /\ Commands'
  BY <1>1, TornForGood, CommandsStay DEF OInv
<1>7. Assembling'
  <2>1. wire[1].part = "text"
    BY <1>2, PieceFacts
  <2> QED BY <1>3, <1>4, <2>1 DEF OInv, Assembling
<1>8. Live' /\ Dropped' /\ HalfWritten'
  <2>1. Live'
    BY <1>1 DEF Read, Live, Unserved
  <2>2. Live
    BY <1>1, <2>1 DEF Live, Unserved
  <2>3. ASSUME NEW t \in Threads, pc'[t] = "rest"
        PROVE  Held' > 0 /\ At(acc', wire', Held') = TextOf(<<t, calls'[t]>>)
    <3>1. Held > 0 /\ At(acc, wire, Held) = TextOf(<<t, calls[t]>>)
      BY <1>1, <2>2, <2>3 DEF OInv, HalfWritten
    <3> QED BY <1>1, <1>4, <1>5, <3>1, SMTT(30)
  <2> QED BY <2>1, <2>3, Zenon DEF Dropped, HalfWritten, TextOf, At, Held
<1>9. PICK n \in Nat : n = Held
  BY <1>4
<1>10. ASSUME NEW k \in 1 .. n PROVE Linked(k)'
  <2>1. PICK q \in Pieces : q = At(acc, wire, k)
    BY <1>0, <1>9, HeldPieces
  <2>2. Linked(k)
    BY <1>9 DEF OInv, Chain
  <2>3. At(acc', wire', k) = q /\ Held' = n
    BY <1>5, <1>9, <2>1, SMTT(30)
  <2>4. (IsOk(q.line)' <=> IsOk(q.line)) /\ (Left(q)' <=> Left(q)) /\ (Writing(q)' <=> Writing(q))
    BY <1>1 DEF IsOk, Left, Writing, Over
  <2>5. /\ k > 1 => At(acc', wire', k - 1) = At(acc, wire, k - 1)
        /\ k < n => At(acc', wire', k + 1) = At(acc, wire, k + 1)
    BY <1>5, <1>9
  <2>6. q.part = "rest" => k > 1 /\ At(acc', wire', k - 1) = TextOf(q.line) /\ IsOk(q.line)'
    BY <2>1, <2>2, <2>4, <2>5, Zenon DEF Linked
  <2>7. q.part = "text" => \/ Left(q)'
                           \/ k < Held' /\ At(acc', wire', k + 1) = RestOf(q.line)
                           \/ k = Held' /\ Writing(q)'
    BY <1>9, <2>1, <2>2, <2>3, <2>4, <2>5, ZenonT(60) DEF Linked
  <2> QED BY <2>3, <2>6, <2>7, ZenonT(60) DEF Linked, TextOf, RestOf, IsOk, Left, Writing, Over
<1>11. Chain'
  BY <1>5, <1>9, <1>10, Zenon DEF Chain
<1> QED BY <1>6, <1>7, <1>8, <1>11 DEF OInv

LEMMA CommandAt ==
  ASSUME NEW CONSTANT e, NEW CONSTANT i, e = done'[i], Command(e)'
  PROVE  Command(done[i])'
BY SMTT(30) DEF Command

(* A line is executed: what was assembled, and the piece with the newline. *)
LEMMA Executes ==
  ASSUME IInv, OInv, [Next]_vars, conn # "eof", conn' = conn \/ conn' = "eof",
         NEW d \in Seq(Pieces), done' = Append(done, d),
         Command(d)' \/ (conn' = "eof" /\ Remains(d)')
  PROVE  Commands'
<1>1. done \in Seq(Seq(Pieces)) /\ Len(done) \in Nat
  BY DEF IInv, Types
<1>2. /\ Len(done') = Len(done) + 1 /\ done'[Len(done) + 1] = d
      /\ \A i \in 1 .. Len(done) : done'[i] = done[i] /\ done[i] \in Seq(Pieces)
  <2>1. /\ Len(Append(done, d)) = Len(done) + 1 /\ Append(done, d)[Len(done) + 1] = d
        /\ \A i \in 1 .. Len(done) : Append(done, d)[i] = done[i]
    BY <1>1, AppendProperties
  <2> QED BY <1>1, <2>1
<1>3. PICK n \in Nat : n = Len(done)
  BY <1>1
<1>4. ASSUME NEW i \in 1 .. n PROVE Command(done[i])'
  <2>1. PICK e \in Seq(Pieces) : e = done[i]
    BY <1>2, <1>3
  <2>2. Command(e)
    BY <1>3, <2>1, Zenon DEF OInv, Commands
  <2>3. Command(e)'
    BY <2>2, CommandStays
  <2>4. e = done'[i]
    BY <1>2, <1>3, <2>1
  <2> QED BY <2>3, <2>4, CommandAt
<1>5. \A i \in 1 .. n + 1 : i \in 1 .. n \/ i = n + 1
  BY SMTT(30)
<1>6. Command(done[n + 1])' \/ (conn' = "eof" /\ Remains(done[n + 1])')
  <2>1. done'[n + 1] = d
    BY <1>2, <1>3
  <2> QED BY <2>1, SMTT(30) DEF Command, Remains
<1>7. Len(done') = n + 1
  BY <1>2, <1>3
<1> QED BY <1>4, <1>5, <1>6, <1>7, Zenon DEF Commands

LEMMA OReadRest ==
  ASSUME IInv, OInv, [Next]_vars, Read, Head(wire).part = "rest"
  PROVE  OInv'
<1>0. Types
  BY DEF IInv
<1>1. /\ wire # <<>> /\ wire' = Tail(wire) /\ acc' = <<>> /\ done' = Append(done, Append(acc, Head(wire)))
      /\ conn = "scan" /\ daemon = "serving"
      /\ UNCHANGED <<conn, daemon, pc, calls, ok>>
  BY ZenonT(60) DEF Read, client
<1>2. /\ Len(wire') = Len(wire) - 1 /\ Len(wire) >= 1 /\ Head(wire) = wire[1] /\ Head(wire) \in Pieces
      /\ \A j \in 1 .. Len(wire) - 1 : wire'[j] = wire[j + 1]
  BY <1>0, <1>1, HeadTailProperties DEF Types
<1>3. Len(acc') = 0
  BY <1>1
<1>4. Len(acc) \in Nat /\ Len(wire) \in Nat /\ Held \in Nat
  BY <1>0, HeldPieces
<1>5. PICK m \in Nat : m = Len(acc) + 1
  BY <1>4
<1>6. PICK n \in Nat : n = Held - m
  BY <1>2, <1>4, <1>5 DEF Held
<1>7. Held' = n /\ Held = n + m
  BY <1>2, <1>3, <1>4, <1>5, <1>6 DEF Held
<1>8. ASSUME NEW k \in 1 .. n PROVE k + m \in 1 .. Held /\ At(acc', wire', k) = At(acc, wire, k + m)
  <2>1. k \in 1 .. Len(wire) - 1 /\ (k + m) - Len(acc) = k + 1 /\ ~(k + m <= Len(acc)) /\ ~(k <= 0) /\ k - 0 = k
    BY <1>4, <1>5, <1>6 DEF Held
  <2>2. wire'[k] = wire[k + 1]
    BY <1>2, <2>1
  <2>3. At(acc', wire', k) = wire'[k] /\ At(acc, wire, k + m) = wire[k + 1]
    BY <1>3, <2>1 DEF At
  <2> QED BY <1>7, <2>2, <2>3
<1>9. m \in 1 .. Held /\ At(acc, wire, m) = wire[1] /\ wire[1].part = "rest"
  BY <1>2, <1>4, <1>5 DEF At, Held
<1>10. /\ m > 1 /\ acc[m - 1] = TextOf(wire[1].line) /\ IsOk(wire[1].line)
  <2>1. Linked(m)
    BY <1>9, SMTT(30) DEF OInv, Chain
  <2>2. m > 1 /\ At(acc, wire, m - 1) = TextOf(wire[1].line) /\ IsOk(wire[1].line)
    BY <1>9, <2>1, ZenonT(60) DEF Linked
  <2> QED BY <1>4, <1>5, <2>2 DEF At
<1>11. ASSUME NEW j \in 1 .. m - 2 PROVE Left(acc[j])
  <2>1. j \in 1 .. Len(acc) /\ j + 1 \in 1 .. Len(acc) /\ j < Held
    BY <1>2, <1>4, <1>5, SMTT(30) DEF Held
  <2>2. /\ At(acc, wire, j) = acc[j] /\ At(acc, wire, j + 1) = acc[j + 1] /\ j \in 1 .. Held
        /\ acc[j].part = "text" /\ acc[j + 1].part = "text"
    BY <1>0, <2>1, HeldPieces, SMTT(30) DEF OInv, Assembling
  <2>3. Linked(j)
    BY <2>2 DEF OInv, Chain
  <2>4. acc[j + 1] # RestOf(acc[j].line)
    BY <2>2, PieceFacts
  <2>5. j # Held
    BY <1>4, <2>1
  <2> QED BY <2>2, <2>3, <2>4, <2>5, ZenonT(60) DEF Linked
<1>12. PICK d \in Seq(Pieces) : d = Append(acc, Head(wire))
  <2>1. Head(wire) \in Pieces /\ acc \in Seq(Pieces)
    BY <1>0, <1>2 DEF Types
  <2>2. Append(acc, Head(wire)) \in Seq(Pieces)
    BY <2>1, AppendProperties
  <2> QED BY <2>2, Zenon
<1>13. /\ Len(d) = m /\ d[m] = wire[1] /\ \A j \in 1 .. m - 1 : d[j] = acc[j]
  <2>1. Head(wire) \in Pieces /\ acc \in Seq(Pieces)
    BY <1>0, <1>2 DEF Types
  <2>2. /\ Len(Append(acc, Head(wire))) = Len(acc) + 1
        /\ Append(acc, Head(wire))[Len(acc) + 1] = Head(wire)
        /\ \A j \in 1 .. Len(acc) : Append(acc, Head(wire))[j] = acc[j]
    BY <2>1, AppendProperties
  <2> QED BY <1>2, <1>4, <1>5, <1>12, <2>2, SMTT(30)
<1>14. Command(d)'
  <2>1. Command(d)
    <3>1. m - 1 \in 1 .. m - 1 /\ \A j \in 1 .. m - 2 : j \in 1 .. m - 1
      BY <1>10
    <3>2. \A j \in 1 .. m - 2 : Left(d[j])
      BY <1>11, <1>13, <3>1
    <3> QED BY <1>9, <1>10, <1>13, <3>1, <3>2 DEF Command
  <2> QED BY <2>1, CommandStays, SMTT(30)
<1>15. Commands'
  BY <1>1, <1>12, <1>14, Executes
<1>16. OkOver' /\ Assembling' /\ Live' /\ Live /\ Dropped'
  <2>1. OkOver'
    BY TornForGood, Zenon DEF OInv
  <2>2. Live' /\ Live
    BY <1>1 DEF Live, Unserved
  <2>3. Assembling' /\ Dropped'
    BY <1>3, <2>2 DEF Assembling, Dropped
  <2> QED BY <2>1, <2>2, <2>3
<1>17. HalfWritten'
  <2>1. ASSUME NEW t \in Threads, pc'[t] = "rest"
        PROVE  Held' > 0 /\ At(acc', wire', Held') = TextOf(<<t, calls'[t]>>)
    <3>1. Held > 0 /\ At(acc, wire, Held) = TextOf(<<t, calls[t]>>)
      BY <1>1, <1>16, <2>1, SMTT(30) DEF OInv, HalfWritten
    <3>2. n # 0
      BY <1>7, <1>9, <3>1, PieceFacts
    <3> QED BY <1>1, <1>7, <1>8, <3>1, <3>2, SMTT(30)
  <2> QED BY <2>1, Zenon DEF HalfWritten, TextOf, At, Held
<1>18. ASSUME NEW k \in 1 .. n PROVE Linked(k)'
  <2>1. PICK q \in Pieces : q = At(acc, wire, k + m)
    BY <1>0, <1>8, HeldPieces
  <2>2. Linked(k + m)
    BY <1>8 DEF OInv, Chain
  <2>3. At(acc', wire', k) = q /\ Held' = n
    BY <1>7, <1>8, <2>1
  <2>4. (IsOk(q.line)' <=> IsOk(q.line)) /\ (Left(q)' <=> Left(q)) /\ (Writing(q)' <=> Writing(q))
    BY <1>1 DEF IsOk, Left, Writing, Over
  <2>5. q.part = "rest" => k > 1 /\ At(acc', wire', k - 1) = TextOf(q.line) /\ IsOk(q.line)'
    <3> SUFFICES ASSUME q.part = "rest" PROVE k > 1 /\ At(acc', wire', k - 1) = TextOf(q.line) /\ IsOk(q.line)'
      BY ZenonT(60)
    <3>1. At(acc, wire, (k + m) - 1) = TextOf(q.line) /\ IsOk(q.line)'
      BY <2>1, <2>2, <2>4, SMTT(30) DEF Linked
    <3>2. CASE k = 1
      <4>1. (k + m) - 1 = m
        BY <3>2
      <4>2. At(acc, wire, m) = TextOf(q.line)
        BY <3>1, <4>1, Zenon
      <4> QED BY <1>9, <4>2, PieceFacts
    <3>3. CASE k > 1
      <4>1. k - 1 \in 1 .. n /\ (k - 1) + m = (k + m) - 1
        BY <3>3
      <4> QED BY <1>8, <3>1, <3>3, <4>1
    <3> QED BY <3>2, <3>3
  <2>6. q.part = "text" => \/ Left(q)'
                           \/ k < Held' /\ At(acc', wire', k + 1) = RestOf(q.line)
                           \/ k = Held' /\ Writing(q)'
    <3>1. q.part = "text" => \/ Left(q)
                             \/ k + m < Held /\ At(acc, wire, (k + m) + 1) = RestOf(q.line)
                             \/ k + m = Held /\ Writing(q)
      BY <2>1, <2>2, Zenon DEF Linked
    <3>2. ASSUME k + m < Held
          PROVE  k < Held' /\ At(acc', wire', k + 1) = At(acc, wire, (k + m) + 1)
      <4>1. k + 1 \in 1 .. n /\ (k + 1) + m = (k + m) + 1
        BY <1>7, <3>2
      <4> QED BY <1>7, <1>8, <4>1
    <3>3. k + m = Held => k = Held'
      BY <1>7
    <3> QED BY <2>4, <3>1, <3>2, <3>3, ZenonT(60)
  <2> QED BY <2>3, <2>5, <2>6, ZenonT(60) DEF Linked, TextOf, RestOf, IsOk, Left, Writing, Over
<1>19. Chain'
  BY <1>7, <1>18, Zenon DEF Chain
<1> QED BY <1>15, <1>16, <1>17, <1>19 DEF OInv

(* The end of the connection: nobody writes any more, so that what was         *)
(* assembled are halves that were left.                                      *)
LEMMA OReadEOF == ASSUME IInv, OInv, [Next]_vars, ReadEOF PROVE OInv'
<1>0. Types /\ Mutex
  BY DEF IInv
<1>1. /\ wire = <<>> /\ fin /\ conn = "scan" /\ conn' = "eof" /\ acc' = <<>> /\ wire' = <<>>
      /\ done' = IF acc = <<>> THEN done ELSE Append(done, acc)
      /\ UNCHANGED <<daemon, pc, calls, ok>> /\ daemon = "serving"
  BY DEF ReadEOF, client
<1>2. \A u \in Threads : pc[u] # "rest"
  BY <1>0, <1>1, LineClientAssumption DEF Mutex
<1>3. OkOver' /\ Assembling' /\ Chain' /\ HalfWritten' /\ Dropped'
  <2>1. OkOver'
    BY TornForGood, Zenon DEF OInv
  <2>2. Len(acc') = 0 /\ Held' = 0
    BY <1>1 DEF Held
  <2>3. Assembling' /\ Chain'
    BY <2>2 DEF Assembling, Chain
  <2>4. HalfWritten' /\ Dropped'
    BY <1>1, <1>2, Zenon DEF HalfWritten, Dropped
  <2> QED BY <2>1, <2>3, <2>4
<1>4. Held = Len(acc) /\ Len(acc) \in Nat
  BY <1>0, <1>1, HeldPieces DEF Held
<1>5. ASSUME NEW j \in 1 .. Len(acc) PROVE Left(acc[j])
  <2>1. At(acc, wire, j) = acc[j] /\ acc[j] \in Pieces /\ acc[j].part = "text" /\ acc[j].line \in Lines
    BY <1>0, HeldPieces, PieceFacts DEF OInv, Assembling
  <2>2. Linked(j)
    BY <1>4, SMTT(30) DEF OInv, Chain
  <2>3. ~Writing(acc[j])
    BY <1>2, <2>1, SMTT(30) DEF Writing, Lines
  <2>4. j < Held => At(acc, wire, j + 1) # RestOf(acc[j].line)
    <3> SUFFICES ASSUME j < Held PROVE At(acc, wire, j + 1) # RestOf(acc[j].line)
      OBVIOUS
    <3>1. j + 1 \in 1 .. Len(acc)
      BY <1>4
    <3>2. At(acc, wire, j + 1).part = "text"
      BY <1>0, <3>1, HeldPieces DEF OInv, Assembling
    <3> QED BY <3>2, PieceFacts
  <2> QED BY <2>1, <2>2, <2>3, <2>4, Zenon DEF Linked
<1>6. Commands'
  <2>1. CASE acc = <<>>
    BY <1>1, <2>1, CommandsStay
  <2>2. CASE acc # <<>>
    <3>1. PICK d \in Seq(Pieces) : d = acc
      BY <1>0 DEF Types
    <3>2. Len(d) > 0
      BY <2>2, <3>1
    <3>3. Remains(d)
      BY <1>5, <3>1, <3>2 DEF Remains
    <3>4. Remains(d)'
      BY <3>3, CommandStays
    <3>5. done' = Append(done, d) /\ conn # "eof" /\ conn' = "eof"
      BY <1>1, <2>2, <3>1
    <3> QED BY <3>4, <3>5, Executes
  <2> QED BY <2>1, <2>2
<1> QED BY <1>3, <1>6 DEF OInv

LEMMA NextOInv == ASSUME IInv, OInv, [Next]_vars PROVE OInv'
<1>0. Types /\ Mutex
  BY DEF IInv
<1>1. CASE Die \/ Refuse \/ SniffEOF \/ ReadTooLong \/ (Sniff /\ Drop("http"))
  <2>1. /\ acc' = <<>> /\ wire' = <<>> /\ done' = done
        /\ conn = "eof" => conn' = "eof"
        /\ daemon' = "dead" \/ conn' \in {"full", "short", "http", "toolong"}
    BY <1>1, SMTT(30) DEF Die, Refuse, SniffEOF, ReadTooLong, Sniff, Drop
  <2> QED BY <2>1, EmptyStep, SMTT(30) DEF Live, Unserved
<1>2. CASE UNCHANGED vars \/ Listen \/ PrintReady \/ Waiter \/ WaitReady \/ Cancelled \/ OrphanSees \/ Dial
           \/ Rest \/ Accept \/ (Sniff /\ ~Drop("http"))
  <2>1. /\ UNCHANGED <<acc, wire, done, ok, pc, calls>>
        /\ \/ daemon' = daemon
           \/ daemon = "starting" /\ daemon' = "listening"
           \/ daemon = "listening" /\ daemon' = "serving"
        /\ \/ conn' = conn
           \/ conn \in {"queued", "sniff"} /\ conn' \in {"sniff", "scan"}
    <3>1. CASE Listen \/ PrintReady \/ Accept \/ (Sniff /\ ~Drop("http"))
      <4>1. ASSUME Sniff, ~Drop("http")
            PROVE  conn = "sniff" /\ conn' = "scan" /\ UNCHANGED <<daemon, acc, wire, done, ok, client>>
        BY <4>1, Zenon DEF Sniff
      <4> QED BY <3>1, <4>1 DEF Listen, PrintReady, Accept, client
    <3>2. CASE UNCHANGED vars \/ Waiter \/ WaitReady \/ Cancelled \/ OrphanSees \/ Dial \/ Rest
      BY <3>2, ZenonT(60)
         DEF Waiter, SeeReady, SeeEOF, WaitReady, Cancelled, OrphanSees, Dial, Rest, vars, client, server
    <3> QED BY <1>2, <3>1, <3>2, SMTT(30)
  <2>2. (Live' <=> Live) /\ (conn = "eof" => conn' = "eof")
    BY <2>1 DEF Live, Unserved
  <2> QED BY <2>1, <2>2, IdleStep
<1>3. ASSUME NEW t \in Threads,
             \/ \E o \in {"line", "bad", "close"}, d \in BOOLEAN : Call(t, o, d)
             \/ CallOver(t) \/ NoWrite(t) \/ NoDeadline(t) \/ StartWrite(t)
             \/ WriteFails(t, "error") \/ WriteFails(t, "timeout")
      PROVE  OInv'
  <2>1. /\ UNCHANGED <<acc, wire, done, ok, conn, daemon>>
        /\ \/ pc' = pc
           \/ pc' = [pc EXCEPT ![t] = "lock"]
           \/ pc' = [pc EXCEPT ![t] = "text"]
           \/ pc' = [pc EXCEPT ![t] = "idle"]
        /\ calls' = calls \/ (pc[t] = "idle" /\ calls' = [calls EXCEPT ![t] = @ + 1])
    BY <1>3, ZenonT(60) DEF Call, CallOver, NoWrite, NoDeadline, StartWrite, WriteFails, Finish, server
  <2>2. \A u \in Threads : pc'[u] = "rest" => pc[u] = "rest" /\ calls'[u] = calls[u]
    BY <1>0, <2>1 DEF Types
  <2>3. Live' <=> Live
    BY <2>1 DEF Live, Unserved
  <2> QED BY <2>1, <2>2, <2>3, IdleStep
<1>4. ASSUME NEW t \in Threads, PutText(t) \/ PutRest(t) PROVE OInv'
  BY <1>4, OPutText, OPutRest
<1>5. CASE Read \/ ReadEOF
  BY <1>5, OReadText, OReadRest, OReadEOF
<1> QED BY <1>1, <1>2, <1>3, <1>4, <1>5, ZenonT(60) DEF Next, Server, Writer

(* WriteLine: whatever writes stopped half-way before, what the daemon executes *)
(* as one line ends with one line whose WriteLine returned nil, whole, behind   *)
(* halves that failed writes left and nothing else; only the last thing it      *)
(* executes, at the end of the connection, can be such halves alone.  For any   *)
(* number of goroutines and lines and any size of the socket.                 *)
THEOREM ClientOneCommandPerLine == Spec => []OneCommandPerLine
<1>1. Init => OInv
  <2> SUFFICES ASSUME Init PROVE OInv
    OBVIOUS
  <2>1. /\ ok = <<>> /\ acc = <<>> /\ wire = <<>> /\ done = <<>>
        /\ \A t \in Threads : pc[t] = "idle"
    BY DEF Init
  <2> QED BY <2>1
      DEF OInv, OkOver, IsOk, Assembling, Chain, Held, HalfWritten, Dropped, Commands
<1>2. IInv /\ OInv /\ [Next]_vars => OInv'
  BY NextOInv
<1>3. IInv /\ OInv => OneCommandPerLine
  <2> SUFFICES ASSUME IInv, OInv, NEW i \in DOMAIN done
               PROVE  LET d == done[i]  n == Len(d) IN
                      IF d[n].part = "rest"
                      THEN /\ n > 1 /\ d[n - 1] = [d[n] EXCEPT !.part = "text"]
                           /\ \E j \in DOMAIN ok : ok[j] = d[n].line
                           /\ \A j \in 1 .. n - 2 : Torn(d[j])
                      ELSE i = Len(done) /\ conn = "eof" /\ \A j \in 1 .. n : Torn(d[j])
    BY DEF OneCommandPerLine
  <2>1. PICK d \in Seq(Pieces) : d = done[i]
    BY DEF IInv, Types
  <2>2. PICK n \in Nat : n = Len(d)
    OBVIOUS
  <2>3. i \in 1 .. Len(done)
    BY SMTT(30) DEF IInv, Types
  <2>4. Command(d) \/ (i = Len(done) /\ conn = "eof" /\ Remains(d))
    BY <2>1, <2>3 DEF OInv, Commands
  <2>5. \A q : Left(q) => Torn(q) /\ q.part = "text"
    BY DEF Left, Torn, IsOk
  <2>6. CASE Command(d)
    <3>1. n \in 1 .. Len(d) /\ d[n] \in Pieces /\ d[n].part = "rest"
      BY <2>2, <2>6 DEF Command
    <3>2. TextOf(d[n].line) = [d[n] EXCEPT !.part = "text"]
      BY <3>1 DEF Pieces, TextOf
    <3>3. /\ n > 1 /\ d[n - 1] = [d[n] EXCEPT !.part = "text"]
          /\ \E j \in DOMAIN ok : ok[j] = d[n].line
          /\ \A j \in 1 .. n - 2 : Torn(d[j])
      BY <2>2, <2>5, <2>6, <3>2, Zenon DEF Command, IsOk
    <3> QED BY <2>1, <2>2, <3>1, <3>3, Zenon
  <2>7. CASE i = Len(done) /\ conn = "eof" /\ Remains(d)
    <3>1. d[n].part = "text"
      BY <2>2, <2>5, <2>7 DEF Remains
    <3>2. \A j \in 1 .. n : Torn(d[j])
      BY <2>2, <2>5, <2>7 DEF Remains
    <3> QED BY <2>1, <2>2, <2>7, <3>1, <3>2
  <2> QED BY <2>4, <2>6, <2>7
<1> QED BY <1>1, <1>2, <1>3, ClientInvariant, PTL DEF Spec

-----------------------------------------------------------------------------
(* After Close. *)

(* What a step may do once the connection is closed: it takes from the wire,    *)
(* and a WriteLine returns ErrClosed or what it refuses.                       *)
NothingAfterClose ==
  open = "closed" =>
    /\ open' = "closed" /\ ok' = ok /\ broken' = broken
    /\ wire' \in {wire, Tail(wire), <<>>}
    /\ \A t \in Threads : op[t] = "line" /\ pc[t] = "lock" /\ pc'[t] = "idle" => res'[t] = "closed"

(* Close: conn is set to nil under mu, so that no goroutine writes to the        *)
(* connection afterwards, those that waited for mu meanwhile included.         *)
THEOREM ClientWritesNothingAfterClose == Spec => [][NothingAfterClose]_vars
<1>1. ASSUME IInv, Next, open = "closed"
      PROVE  /\ open' = "closed" /\ ok' = ok /\ broken' = broken
             /\ wire' \in {wire, Tail(wire), <<>>}
             /\ \A t \in Threads :
                  op[t] = "line" /\ pc[t] = "lock" /\ pc'[t] = "idle" => res'[t] = "closed"
  <2>0. /\ pc \in [Threads -> {"idle", "lock", "text", "rest"}] /\ mu \in Threads \cup {NoThread}
        /\ op \in [Threads -> {"line", "bad", "close"}]
        /\ res \in [Threads -> {"nil", "error", "timeout", "closed", "refused"}]
    BY <1>1 DEF IInv, Types
  <2>1. \A t \in Threads : pc[t] \notin {"text", "rest"}
    BY <1>1, LineClientAssumption DEF IInv, Mutex
  <2>2. CASE Server \/ Refuse \/ Die \/ Waiter \/ WaitReady \/ Cancelled \/ OrphanSees \/ Dial \/ Rest
    <3>1. UNCHANGED <<open, ok, broken, pc>> /\ wire' \in {wire, Tail(wire), <<>>}
      BY <1>1, <2>2, Zenon
         DEF Server, Listen, PrintReady, Accept, Refuse, Sniff, SniffEOF, Drop, Read, ReadTooLong,
             ReadEOF, Die, Waiter, SeeReady, SeeEOF, WaitReady,
             Cancelled, OrphanSees, Dial, Rest, vars, client, wait, server
    <3> QED BY <1>1, <3>1
  <2>3. ASSUME NEW t \in Threads, NEW o \in {"line", "bad", "close"}, NEW d \in BOOLEAN, Call(t, o, d)
        PROVE  NothingAfterClose
    <3>1. UNCHANGED <<open, ok, broken, wire>> /\ pc' = [pc EXCEPT ![t] = "lock"]
      BY <2>3, Zenon DEF Call
    <3> QED BY <1>1, <2>0, <3>1 DEF NothingAfterClose
  <2>4. ASSUME NEW t \in Threads, Writer(t) \/ WriteFails(t, "timeout")
        PROVE  NothingAfterClose
    <3>1. NoWrite(t)
      BY <1>1, <2>1, <2>4, Zenon DEF Writer, StartWrite, PutText, PutRest, WriteFails
    <3>2. /\ UNCHANGED <<ok, broken, wire>> /\ pc' = [pc EXCEPT ![t] = "idle"]
          /\ open' = IF op[t] = "close" THEN "closed" ELSE open
          /\ \E r : res' = [res EXCEPT ![t] = r] /\ (op[t] = "line" => r = "closed")
      <4>1. (CASE op[t] = "close"  -> "nil"
               [] open = "closed" -> "closed"
               [] OTHER           -> "refused") = "closed" \/ op[t] # "line"
        BY <1>1, <2>0
      <4> QED BY <3>1, <4>1, Zenon DEF NoWrite, Finish
    <3> QED BY <1>1, <2>0, <3>2 DEF NothingAfterClose
  <2>5. ASSUME NEW t \in Threads, NoDeadline(t) \/ CallOver(t)
        PROVE  NothingAfterClose
    <3>1. UNCHANGED <<open, ok, broken, wire, pc>>
      BY <1>1, <2>5 DEF NoDeadline, CallOver
    <3> QED BY <1>1, <3>1, SMTT(30) DEF NothingAfterClose
  <2> QED BY <1>1, <2>2, <2>3, <2>4, <2>5, ZenonT(60) DEF Next, NothingAfterClose
<1>2. IInv /\ [Next]_vars => [NothingAfterClose]_vars
  BY <1>1, Zenon DEF NothingAfterClose
<1> QED BY <1>2, ClientInvariant, PTL DEF Spec

-----------------------------------------------------------------------------
(* READY. *)

RInv ==
  /\ stdout \/ ready => daemon \in {"serving", "dead"}
  /\ ready => ~waiting
  /\ daemon = "serving" /\ ~stdout => waits >= 1 /\ (waiting => waits >= 2)

LEMMA NextRInv == ASSUME IInv, RInv, [Next]_vars PROVE RInv'
<1>0. /\ waits \in Nat /\ orphans \in Nat
      /\ waiting => waits >= 1
      /\ orphans > 0 => waits >= 1 /\ (waiting => waits >= 2)
  <2>1. waits \in Nat /\ orphans \in Nat
    BY LineClientAssumption DEF IInv, Types
  <2>2. CASE waiting
    <3>1. orphans + 1 <= waits
      BY <2>2, Zenon DEF IInv, Waits
    <3> QED BY <2>1, <3>1
  <2>3. CASE ~waiting
    <3>1. orphans + 0 <= waits
      BY <2>3, Zenon DEF IInv, Waits
    <3> QED BY <2>1, <2>3, <3>1
  <2> QED BY <2>2, <2>3, Zenon
<1>1. \/ UNCHANGED <<daemon, stdout, ready, waits, waiting>>
      \/ Listen \/ PrintReady \/ Die \/ WaitReady \/ Cancelled \/ SeeReady \/ OrphanSees \/ SeeEOF
  BY ZenonT(60)
     DEF Next, Server, Accept, Refuse, Sniff, SniffEOF, Drop, Waiter, Read, ReadTooLong, ReadEOF, Dial,
         NoDeadline, CallOver, Finish, Writer, NoWrite, StartWrite, PutText, PutRest,
         WriteFails, Call, Rest, vars, client, wait, server
<1>2. CASE UNCHANGED <<daemon, stdout, ready, waits, waiting>>
  BY <1>2, Zenon DEF RInv
<1>3. CASE Listen \/ PrintReady \/ Die
  <2>1. /\ UNCHANGED <<waits, waiting, ready>>
        /\ \/ daemon = "starting" /\ daemon' = "listening" /\ stdout' = stdout
           \/ daemon' = "serving" /\ stdout' = TRUE
           \/ daemon' = "dead"
    BY <1>3, Zenon DEF Listen, PrintReady, Die, wait
  <2> QED BY <2>1 DEF RInv
<1>4. CASE WaitReady
  BY <1>0, <1>4 DEF WaitReady, server, RInv
<1>5. CASE Cancelled \/ SeeEOF
  BY <1>0, <1>5 DEF Cancelled, SeeEOF, server, RInv
<1>6. CASE SeeReady
  BY <1>0, <1>6 DEF SeeReady, RInv
<1>7. CASE OrphanSees
  BY <1>0, <1>7 DEF OrphanSees, RInv
<1> QED BY <1>1, <1>2, <1>3, <1>4, <1>5, <1>6, <1>7, Zenon

(* WaitReady: READY stands for a daemon that listens, and the line is there for   *)
(* a call that no cancelled one came before; only the goroutine a cancelled call *)
(* leaves behind can take it away.  This is the safety half of FirstWaitReturns. *)
ReadyIsSound ==
  /\ ready => daemon \in {"serving", "dead"}
  /\ waiting /\ waits = 1 /\ daemon = "serving" => stdout

(* ReadyIsSound, however the start of the daemon, its exit and the calls of      *)
(* WaitReady and their cancellations interleave.                               *)
THEOREM ClientReadyIsSound == Spec => []ReadyIsSound
<1>1. Init => RInv
  BY DEF Init, RInv
<1>2. IInv /\ RInv /\ [Next]_vars => RInv'
  BY NextRInv
<1>3. RInv => ReadyIsSound
  BY DEF RInv, ReadyIsSound
<1> QED BY <1>1, <1>2, <1>3, ClientInvariant, PTL DEF Spec
=============================================================================
