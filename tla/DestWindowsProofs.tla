------------------------- MODULE DestWindowsProofs -------------------------
(***************************************************************************)
(* Window operations for any number of clients, windows, applications,      *)
(* changes and restarts.                                                    *)
(***************************************************************************)
EXTENDS DestWindows, SequenceTheorems, TLAPS

(* The type invariant in two parts, one for each kind of reasoning. *)
Flags == mutated \in [Conns -> BOOLEAN] /\ quiet \in [Conns -> BOOLEAN]
Server ==
  /\ list \in Seq(Xids)
  /\ app \in [Xids -> Apps \cup {NoApp}]
  /\ supported \in SUBSET Atoms
  /\ changes \in Nat /\ changes <= MaxChanges
  /\ restarts \in Nat /\ restarts <= MaxRestarts
Backend ==
  /\ gen \in Nat /\ gen >= 1
  /\ hash \in Seq(Xids) \cup {NoList}
  /\ busy \in Conns \cup {NoConn}
Requests ==
  /\ pc \in [Conns -> Labels]
  /\ op \in [Conns -> {"inspect", "activate", "fullscreen"}]
  /\ ref \in [Conns -> Ref \cup {NoRef}]
  /\ code \in [Conns -> {"Submitted", "Conflict", "Unavailable"}]
  /\ snap \in [Conns -> SUBSET Snapshot]

(* A generation is paid for with a change: one that a client has not yet     *)
(* observed when the list read last is not the list now.                     *)
Counted ==
  /\ gen <= changes + 1
  /\ hash # NoList /\ hash # refreshClientList => gen <= changes

(* What a reply with boot b, generation g and list l says of a daemon in its *)
(* r-th run with generation n and list h: it is not of the future, and if it *)
(* carries the current generation its list is the current one.               *)
Known(b, g, l, r, n, h) ==
  b <= r /\ (b = r => h # NoList /\ g <= n /\ (g = n => l = h))

WithRef == {"reval", "class", "pid", "mutate", "active"}
InJob == {"describe", "class", "pid"}

Local(c) ==
  /\ pc[c] \in InJob <=> busy = c
  /\ pc[c] \in InJob => hash # NoList
  /\ pc[c] \in WithRef =>
       ref[c] \in Ref /\ Known(ref[c].boot, ref[c].gen, ref[c].from, restarts, gen, hash)
  /\ pc[c] \in {"class", "pid"} => ref[c].gen = gen
  /\ \A s \in snap[c] : Known(s.boot, s.gen, s.list, restarts, gen, hash)

(* What the checks made so far are worth while nothing changes. *)
Target(c) ==
  quiet[c] =>
    /\ pc[c] \in {"class", "pid", "mutate", "active"}
    /\ In(ref[c].xid, list)
    /\ pc[c] \in {"pid", "mutate"} => ref[c].class \in {NoApp, app[ref[c].xid]}
    /\ pc[c] = "mutate" => ref[c].pid \in {NoApp, app[ref[c].xid]}

Clean(c) == mutated[c] => pc[c] = "active" \/ (pc[c] = "reply" /\ code[c] # "Conflict")

IInv ==
  /\ Flags /\ Server /\ Backend /\ Requests /\ Counted
  /\ \A c \in Conns : Local(c)
  /\ \A c \in Conns : Target(c)
  /\ \A c \in Conns : Clean(c)
  /\ SameGenSameList

LEMMA InitIInv == Init => IInv
<1> SUFFICES ASSUME Init PROVE IInv
  OBVIOUS
<1>1. Flags
  BY ZenonT(60) DEF Init, Flags
<1>2. Server /\ Backend
  BY WindowsAssumption, EmptySeq DEF Init, Server, Backend
<1>3. Requests
  BY DEF Init, Requests, Labels
<1>4. Counted /\ SameGenSameList
  BY DEF Init, Counted, SameGenSameList
<1>5. ASSUME NEW c \in Conns PROVE Local(c) /\ Target(c) /\ Clean(c)
  BY <1>5, WindowsAssumption DEF Init, Local, Target, Clean, InJob, WithRef
<1> QED BY <1>1, <1>2, <1>3, <1>4, <1>5 DEF IInv

-----------------------------------------------------------------------------
(* x11.go's refresh_client_list reads a list of windows, all of them managed. *)
LEMMA ReadIsList ==
  ASSUME list \in Seq(Xids)
  PROVE  /\ refreshClientList \in Seq(Xids)
         /\ \A x : In(x, refreshClientList) => In(x, list)
<1> DEFINE n == IF Len(list) <= MaxList THEN Len(list) ELSE MaxList
<1>1. n \in Nat /\ n <= Len(list) /\ Len(list) \in Nat
  BY WindowsAssumption, LenProperties
<1> HIDE DEF n
<1>2. /\ SubSeq(list, 1, n) \in Seq(Xids) /\ Len(SubSeq(list, 1, n)) = n
      /\ \A k \in 1..n : SubSeq(list, 1, n)[k] = list[k]
  BY <1>1
<1>3. refreshClientList = SubSeq(list, 1, n)
  BY DEF refreshClientList, n
<1>4. ASSUME NEW x, In(x, SubSeq(list, 1, n)) PROVE In(x, list)
  <2>1. PICK k \in DOMAIN SubSeq(list, 1, n) : SubSeq(list, 1, n)[k] = x
    BY <1>4, ZenonT(60) DEF In
  <2>2. k \in 1..n
    BY <1>2, <2>1, LenProperties
  <2>3. k \in DOMAIN list
    BY <1>1, <2>2, LenProperties
  <2> QED BY <1>2, <2>1, <2>2, <2>3 DEF In
<1> QED BY <1>2, <1>3, <1>4

-----------------------------------------------------------------------------
(* The X server. *)

LEMMA ChangeStep ==
  ASSUME IInv, Change, list' \in Seq(Xids), app' \in [Xids -> Apps \cup {NoApp}],
         supported' \in SUBSET Atoms
  PROVE  IInv'
<1>0. /\ Flags /\ Server /\ Backend /\ Requests /\ Counted /\ SameGenSameList
      /\ \A c \in Conns : Local(c) /\ Clean(c)
  BY DEF IInv
<1>1. /\ changes < MaxChanges /\ changes' = changes + 1 /\ quiet' = [c \in Conns |-> FALSE]
      /\ UNCHANGED <<gen, hash, busy, pc, op, ref, code, mutated, snap, restarts>>
  BY DEF Change
<1>2. Flags'
  BY <1>0, <1>1, ZenonT(60) DEF Flags
<1>3. Server'
  BY <1>0, <1>1, WindowsAssumption DEF Server
<1>4. Backend' /\ Requests' /\ SameGenSameList'
  BY <1>0, <1>1 DEF Backend, Requests, SameGenSameList
<1>5. Counted'
  BY <1>0, <1>1 DEF Counted, Backend, Server
<1>6. ASSUME NEW c \in Conns PROVE Local(c)'
  BY <1>0, <1>1 DEF Local
<1>7. ASSUME NEW c \in Conns PROVE Target(c)' /\ Clean(c)'
  BY <1>0, <1>1, ZenonT(60) DEF Target, Clean
<1> QED BY <1>2, <1>3, <1>4, <1>5, <1>6, <1>7 DEF IInv

LEMMA ServerStep ==
  ASSUME IInv, (\E x \in Xids : Destroy(x) \/ \E a \in Apps : Create(x, a)) \/ ManagerChanges
  PROVE  IInv'
<1>0. list \in Seq(Xids) /\ app \in [Xids -> Apps \cup {NoApp}] /\ supported \in SUBSET Atoms
  BY DEF IInv, Server
<1>1. ASSUME NEW x \in Xids, NEW a \in Apps, Create(x, a) PROVE IInv'
  <2>1. list' \in Seq(Xids)
    BY <1>0, <1>1, AppendProperties, ZenonT(60) DEF Create
  <2> QED BY <1>0, <1>1, <2>1, ChangeStep DEF Create
<1>2. ASSUME NEW x \in Xids, Destroy(x) PROVE IInv'
  <2>1. PICK i \in DOMAIN list : list' = SubSeq(list, 1, i - 1) \o SubSeq(list, i + 1, Len(list))
    BY <1>2, ZenonT(60) DEF Destroy
  <2>2. i \in 1 .. Len(list) /\ Len(list) \in Nat
    BY <1>0, <2>1, LenProperties
  <2>3. SubSeq(list, 1, i - 1) \in Seq(Xids) /\ SubSeq(list, i + 1, Len(list)) \in Seq(Xids)
    <3>1. \A m, n \in Int : m >= 1 /\ n <= Len(list) => SubSeq(list, m, n) \in Seq(Xids)
      BY <1>0, SubSeqProperties
    <3> QED BY <2>2, <3>1
  <2>4. list' \in Seq(Xids)
    BY <2>1, <2>3, ConcatProperties
  <2> QED BY <1>0, <1>2, <2>4, ChangeStep, SMTT(30) DEF Destroy
<1>3. ASSUME ManagerChanges PROVE IInv'
  <2>1. supported' \in SUBSET Atoms
    BY <1>3 DEF ManagerChanges, Atoms
  <2> QED BY <1>0, <1>3, <2>1, ChangeStep DEF ManagerChanges
<1> QED BY <1>1, <1>2, <1>3

-----------------------------------------------------------------------------
(* The requests.  A step of connection c leaves the other connections alone, *)
(* and moves the generation only when no job is half done.                   *)

Alone(c) ==
  \A d \in Conns \ {c} :
    /\ pc'[d] = pc[d] /\ ref'[d] = ref[d] /\ code'[d] = code[d] /\ snap'[d] = snap[d]
    /\ mutated'[d] = mutated[d] /\ quiet'[d] = quiet[d]
    /\ busy' = d <=> busy = d

Observes == busy = NoConn /\ gen' = Observe /\ hash' = refreshClientList

(* What a step of any connection keeps. *)
LEMMA KnownStays ==
  ASSUME IInv, UNCHANGED <<server, restarts>>, UNCHANGED <<gen, hash>> \/ Observes,
         NEW b \in Nat, NEW g \in Nat, NEW l, Known(b, g, l, restarts, gen, hash)
  PROVE  Known(b, g, l, restarts', gen', hash')
<1>1. restarts' = restarts /\ restarts \in Nat /\ gen \in Nat /\ refreshClientList # NoList
  BY WindowsAssumption, ReadIsList DEF IInv, Server, Backend
<1>2. CASE UNCHANGED <<gen, hash>>
  BY <1>1, <1>2
<1>3. CASE Observes
  BY <1>1, <1>3 DEF Observes, Observe, Known
<1> QED BY <1>2, <1>3

LEMMA ConnStep ==
  ASSUME IInv, NEW c \in Conns, UNCHANGED <<server, restarts>>,
         UNCHANGED <<gen, hash>> \/ Observes,
         Flags', Requests', busy' \in Conns \cup {NoConn}, Alone(c),
         Local(c)', Target(c)', Clean(c)', SameGenSameList'
  PROVE  IInv'
<1>0. /\ Flags /\ Server /\ Backend /\ Requests /\ Counted
      /\ \A d \in Conns : Local(d) /\ Target(d) /\ Clean(d)
  BY DEF IInv
<1>1. UNCHANGED <<list, app, supported, changes, restarts>>
  BY DEF server
<1>2. Server'
  BY <1>0, <1>1 DEF Server
<1>3. Backend' /\ Counted'
  <2>0. /\ UNCHANGED refreshClientList /\ refreshClientList \in Seq(Xids)
        /\ changes \in Nat
    BY <1>0, <1>1, ReadIsList DEF refreshClientList, Server
  <2>1. CASE UNCHANGED <<gen, hash>>
    BY <1>0, <1>1, <2>0, <2>1 DEF Backend, Counted
  <2>2. CASE Observes
    BY <1>0, <1>1, <2>0, <2>2, SMTT(30) DEF Observes, Observe, Backend, Counted
  <2> QED BY <2>1, <2>2
<1>4. ASSUME NEW d \in Conns, d # c PROVE Local(d)'
  <2>1. /\ pc'[d] = pc[d] /\ ref'[d] = ref[d] /\ snap'[d] = snap[d]
        /\ busy' = d <=> busy = d
    BY <1>4, Zenon DEF Alone
  <2>2. pc[d] \in InJob => UNCHANGED <<gen, hash>>
    BY <1>0, <1>4, WindowsAssumption, Zenon DEF Local, Observes
  <2>3. pc[d] \in WithRef =>
          ref[d] \in Ref /\ Known(ref[d].boot, ref[d].gen, ref[d].from, restarts', gen', hash')
    <3> SUFFICES ASSUME pc[d] \in WithRef
                 PROVE  /\ ref[d] \in Ref
                        /\ Known(ref[d].boot, ref[d].gen, ref[d].from, restarts', gen', hash')
      BY Zenon
    <3>1. ref[d] \in Ref /\ Known(ref[d].boot, ref[d].gen, ref[d].from, restarts, gen, hash)
      BY <1>0, Zenon DEF Local
    <3>2. ref[d].boot \in Nat /\ ref[d].gen \in Nat
      BY <3>1 DEF Ref
    <3> QED BY <3>1, <3>2, KnownStays, Zenon
  <2>4. ASSUME NEW s \in snap[d] PROVE Known(s.boot, s.gen, s.list, restarts', gen', hash')
    <3>1. s \in Snapshot /\ Known(s.boot, s.gen, s.list, restarts, gen, hash)
      BY <1>0, <2>4, Zenon DEF Local, Requests
    <3>2. s.boot \in Nat /\ s.gen \in Nat
      BY <3>1 DEF Snapshot
    <3> QED BY <3>1, <3>2, KnownStays, Zenon
  <2>5. pc[d] \in {"class", "pid"} => pc[d] \in InJob
    BY DEF InJob
  <2> QED BY <1>0, <2>1, <2>2, <2>3, <2>4, <2>5, Zenon DEF Local
<1>5. ASSUME NEW d \in Conns, d # c PROVE Target(d)' /\ Clean(d)'
  <2>1. /\ pc'[d] = pc[d] /\ ref'[d] = ref[d] /\ code'[d] = code[d]
        /\ mutated'[d] = mutated[d] /\ quiet'[d] = quiet[d]
    BY <1>5 DEF Alone
  <2>2. Target(d)'
    BY <1>0, <1>1, <2>1, ZenonT(60) DEF Target, In
  <2>3. Clean(d)'
    BY <1>0, <2>1, ZenonT(60) DEF Clean
  <2> QED BY <2>2, <2>3
<1> QED BY <1>2, <1>3, <1>4, <1>5, ZenonT(60) DEF IInv

(* The replies a client keeps are known after the step as well. *)
LEMMA SnapsKnown ==
  ASSUME IInv, NEW c \in Conns, UNCHANGED <<server, restarts>>,
         UNCHANGED <<gen, hash>> \/ Observes
  PROVE  \A s \in snap[c] : Known(s.boot, s.gen, s.list, restarts', gen', hash')
<1> SUFFICES ASSUME NEW s \in snap[c] PROVE Known(s.boot, s.gen, s.list, restarts', gen', hash')
  OBVIOUS
<1>1. s \in Snapshot /\ Known(s.boot, s.gen, s.list, restarts, gen, hash)
  BY DEF IInv, Local, Requests
<1>2. s.boot \in Nat /\ s.gen \in Nat
  BY <1>1 DEF Snapshot
<1> QED BY <1>1, <1>2, KnownStays

(* Dispatch returns: the outcome is Conflict only if nothing was mutated.    *)
LEMMA AnswerStep ==
  ASSUME IInv, NEW c \in Conns, NEW o \in {"Submitted", "Conflict", "Unavailable"},
         Answer(c, o), UNCHANGED <<server, restarts, snap>>,
         UNCHANGED <<gen, hash>> \/ Observes, Flags',
         \A d \in Conns \ {c} : mutated'[d] = mutated[d],
         o = "Conflict" => ~mutated'[c],
         busy' = NoConn, busy \in {NoConn, c}
  PROVE  IInv'
<1>0. /\ Flags /\ Requests /\ SameGenSameList
  BY DEF IInv
<1>1. /\ pc' = [pc EXCEPT ![c] = "reply"] /\ code' = [code EXCEPT ![c] = o]
      /\ op' = [op EXCEPT ![c] = "inspect"] /\ ref' = [ref EXCEPT ![c] = NoRef]
      /\ quiet' = [quiet EXCEPT ![c] = FALSE]
  BY DEF Answer, Goto
<1>2. pc'[c] = "reply" /\ code'[c] = o
  BY <1>0, <1>1 DEF Requests
<1>3. ~quiet'[c]
  BY <1>0, <1>1, ZenonT(60) DEF Flags
<1>4. Requests'
  BY <1>0, <1>1, ZenonT(60) DEF Requests, Labels
<1>5. Alone(c)
  <2> SUFFICES ASSUME NEW d \in Conns \ {c}
               PROVE  /\ pc'[d] = pc[d] /\ ref'[d] = ref[d] /\ code'[d] = code[d]
                      /\ snap'[d] = snap[d] /\ mutated'[d] = mutated[d]
                      /\ quiet'[d] = quiet[d]
                      /\ busy' = d <=> busy = d
    BY ZenonT(60) DEF Alone
  <2>1. pc'[d] = pc[d] /\ ref'[d] = ref[d] /\ code'[d] = code[d] /\ snap'[d] = snap[d]
    BY <1>0, <1>1 DEF Requests
  <2>2. quiet'[d] = quiet[d]
    BY <1>0, <1>1, ZenonT(60) DEF Flags
  <2>3. busy' = d <=> busy = d
    BY WindowsAssumption, Zenon
  <2> QED BY <2>1, <2>2, <2>3
<1>6. Local(c)'
  <2>1. \A s \in snap'[c] : Known(s.boot, s.gen, s.list, restarts', gen', hash')
    BY SnapsKnown, ZenonT(60)
  <2>2. busy' # c
    BY WindowsAssumption
  <2> QED BY <1>2, <2>1, <2>2, Zenon DEF Local, InJob, WithRef
<1>7. Target(c)' /\ Clean(c)'
  BY <1>2, <1>3, ZenonT(60) DEF Target, Clean
<1>8. SameGenSameList'
  BY <1>0 DEF SameGenSameList
<1> QED BY <1>4, <1>5, <1>6, <1>7, <1>8, ConnStep, ZenonT(60)

(* A step that only moves c to label l. *)
LEMMA MoveStep ==
  ASSUME IInv, NEW c \in Conns, NEW l \in Labels,
         Goto(c, l), UNCHANGED <<server, restarts, snap, ref>>,
         UNCHANGED <<gen, hash>> \/ Observes, Flags', Requests',
         \A d \in Conns \ {c} : /\ code'[d] = code[d]
                                /\ mutated'[d] = mutated[d] /\ quiet'[d] = quiet[d]
                                /\ busy' = d <=> busy = d,
         busy' \in Conns \cup {NoConn}, busy' = c <=> l \in InJob,
         l \in InJob => hash' # NoList,
         l \in WithRef => pc[c] \in WithRef,
         l \in {"class", "pid"} => ref[c].gen = gen',
         Target(c)', Clean(c)'
  PROVE  IInv'
<1>0. /\ Flags /\ Requests /\ SameGenSameList /\ Local(c)
  BY ZenonT(60) DEF IInv
<1>1. pc' = [pc EXCEPT ![c] = l] /\ pc'[c] = l /\ ref'[c] = ref[c]
  BY <1>0 DEF Goto, Requests
<1>2. Alone(c)
  <2>1. \A d \in Conns \ {c} : pc'[d] = pc[d]
    BY <1>0, <1>1, Zenon DEF Requests
  <2> QED BY <2>1, ZenonT(60) DEF Alone
<1>3. l \in WithRef =>
        ref[c] \in Ref /\ Known(ref[c].boot, ref[c].gen, ref[c].from, restarts', gen', hash')
  <2> SUFFICES ASSUME l \in WithRef
               PROVE  /\ ref[c] \in Ref
                      /\ Known(ref[c].boot, ref[c].gen, ref[c].from, restarts', gen', hash')
    BY Zenon
  <2>1. ref[c] \in Ref /\ Known(ref[c].boot, ref[c].gen, ref[c].from, restarts, gen, hash)
    BY <1>0, Zenon DEF Local
  <2>2. ref[c].boot \in Nat /\ ref[c].gen \in Nat
    BY <2>1, ZenonT(60) DEF Ref
  <2> QED BY <2>1, <2>2, KnownStays, Zenon
<1>4. \A s \in snap'[c] : Known(s.boot, s.gen, s.list, restarts', gen', hash')
  BY SnapsKnown
<1>5. Local(c)'
  BY <1>1, <1>3, <1>4, ZenonT(60) DEF Local
<1>6. SameGenSameList'
  BY <1>0 DEF SameGenSameList
<1> QED BY <1>2, <1>5, <1>6, ConnStep, ZenonT(60)

LEMMA AskInspectStep == ASSUME IInv, NEW c \in Conns, AskInspect(c) PROVE IInv'
<1>0. /\ Flags /\ Requests /\ Backend /\ Local(c) /\ Target(c) /\ Clean(c)
  BY DEF IInv
<1>1. /\ pc[c] = "idle" /\ Goto(c, "clients")
      /\ UNCHANGED <<server, gen, hash, busy, op, ref, code, mutated, quiet, snap, restarts>>
  BY DEF AskInspect
<1>2. Flags'
  BY <1>0, <1>1, ZenonT(60) DEF Flags
<1>3. Requests' /\ pc'[c] = "clients"
  BY <1>0, <1>1, Zenon DEF Requests, Labels, Goto
<1>4. ~quiet[c] /\ ~mutated[c] /\ busy # c
  BY <1>0, <1>1, Zenon DEF Target, Clean, Local, InJob
<1>5. Target(c)' /\ Clean(c)'
  BY <1>1, <1>4, ZenonT(60) DEF Target, Clean
<1>6. "clients" \in Labels /\ "clients" \notin InJob /\ "clients" \notin WithRef
  BY Zenon DEF Labels, InJob, WithRef
<1>7. busy' \in Conns \cup {NoConn} /\ busy' # c
  BY <1>0, <1>1, <1>4, Zenon DEF Backend
<1> QED BY <1>1, <1>2, <1>3, <1>5, <1>6, <1>7, MoveStep

LEMMA ReplyStep == ASSUME IInv, NEW c \in Conns, Reply(c) PROVE IInv'
<1>0. /\ Flags /\ Requests /\ Backend /\ Local(c) /\ Target(c) /\ Clean(c)
  BY DEF IInv
<1>1. /\ pc[c] = "reply" /\ Goto(c, "idle") /\ code' = [code EXCEPT ![c] = "Submitted"]
      /\ mutated' = [mutated EXCEPT ![c] = FALSE]
      /\ UNCHANGED <<server, gen, hash, busy, op, ref, quiet, snap, restarts>>
  BY DEF Reply
<1>2. Flags' /\ ~mutated'[c] /\ \A d \in Conns \ {c} : mutated'[d] = mutated[d]
  BY <1>0, <1>1, ZenonT(60) DEF Flags
<1>3. Requests' /\ pc'[c] = "idle" /\ \A d \in Conns \ {c} : code'[d] = code[d]
  BY <1>0, <1>1, Zenon DEF Requests, Labels, Goto
<1>4. ~quiet[c] /\ busy # c
  BY <1>0, <1>1, Zenon DEF Target, Local, InJob
<1>5. Target(c)' /\ Clean(c)'
  BY <1>1, <1>2, <1>4, ZenonT(60) DEF Target, Clean
<1>6. "idle" \in Labels /\ "idle" \notin InJob /\ "idle" \notin WithRef
  BY Zenon DEF Labels, InJob, WithRef
<1>7. busy' \in Conns \cup {NoConn} /\ busy' # c
  BY <1>0, <1>1, <1>4, Zenon DEF Backend
<1> QED BY <1>1, <1>2, <1>3, <1>5, <1>6, <1>7, MoveStep, ZenonT(60)

(* A reference is made from a reply the client keeps. *)
LEMMA AskMutationStep ==
  ASSUME IInv, NEW c \in Conns, NEW o \in {"activate", "fullscreen"}, AskMutation(c, o)
  PROVE  IInv'
<1>0. /\ Flags /\ Requests /\ Backend /\ SameGenSameList /\ Local(c) /\ Target(c) /\ Clean(c)
  BY Zenon DEF IInv
<1>1. /\ pc[c] = "idle" /\ pc' = [pc EXCEPT ![c] = "reval"] /\ op' = [op EXCEPT ![c] = o]
      /\ UNCHANGED <<server, gen, hash, busy, code, mutated, quiet, snap, restarts>>
  BY SMTT(30) DEF AskMutation, Goto
<1>2. PICK s \in snap[c] : \E i \in DOMAIN s.list : \E class, pid \in {NoApp, s.apps[s.list[i]]} :
        ref' = [ref EXCEPT ![c] = [boot |-> s.boot, gen |-> s.gen, xid |-> s.list[i],
                                   class |-> class, pid |-> pid, from |-> s.list]]
  BY ZenonT(60) DEF AskMutation
<1>3. PICK i \in DOMAIN s.list : \E class, pid \in {NoApp, s.apps[s.list[i]]} :
        ref' = [ref EXCEPT ![c] = [boot |-> s.boot, gen |-> s.gen, xid |-> s.list[i],
                                   class |-> class, pid |-> pid, from |-> s.list]]
  BY <1>2, ZenonT(60)
<1>4. PICK class, pid \in {NoApp, s.apps[s.list[i]]} :
        ref' = [ref EXCEPT ![c] = [boot |-> s.boot, gen |-> s.gen, xid |-> s.list[i],
                                   class |-> class, pid |-> pid, from |-> s.list]]
  BY <1>3, ZenonT(60)
<1> DEFINE r == [boot |-> s.boot, gen |-> s.gen, xid |-> s.list[i], class |-> class,
                 pid |-> pid, from |-> s.list]
<1>5. s \in Snapshot /\ Known(s.boot, s.gen, s.list, restarts, gen, hash)
  BY <1>0, <1>2, Zenon DEF Local, Requests
<1>6. /\ s.boot \in Nat /\ s.gen \in Nat /\ s.list \in Seq(Xids)
      /\ s.apps \in [Xids -> Apps \cup {NoApp}]
  BY <1>5, ZenonT(60) DEF Snapshot
<1>7. s.list[i] \in Xids
  BY <1>3, <1>6, ElementOfSeq, LenProperties, SMTT(30)
<1>8. class \in Apps \cup {NoApp} /\ pid \in Apps \cup {NoApp}
  BY <1>4, <1>6, <1>7, Zenon
<1>9. r \in Ref
  BY <1>6, <1>7, <1>8, Zenon DEF Ref
<1>10. Requests' /\ ref'[c] = r /\ pc'[c] = "reval"
  BY <1>0, <1>1, <1>4, <1>9, Zenon DEF Requests, Labels
<1>11. \A d \in Conns \ {c} : pc'[d] = pc[d] /\ ref'[d] = ref[d]
  BY <1>0, <1>1, <1>4, Zenon DEF Requests
<1>12. Alone(c)
  BY <1>1, <1>11, ZenonT(60) DEF Alone
<1>13. ~quiet[c] /\ ~mutated[c] /\ busy # c
  BY <1>0, <1>1, ZenonT(60) DEF Target, Clean, Local, InJob
<1>14. Local(c)'
  BY <1>0, <1>1, <1>5, <1>9, <1>10, <1>13 DEF Local, InJob, WithRef
<1>15. Flags' /\ Target(c)' /\ Clean(c)'
  BY <1>0, <1>1, <1>13, ZenonT(60) DEF Flags, Target, Clean
<1>16. SameGenSameList' /\ busy' \in Conns \cup {NoConn}
  BY <1>0, <1>1 DEF SameGenSameList, Backend
<1> QED BY <1>1, <1>10, <1>12, <1>14, <1>15, <1>16, ConnStep, ZenonT(60)

-----------------------------------------------------------------------------
(* ManagedClients. *)

LEMMA NotObservedStep ==
  ASSUME IInv, NEW c \in Conns, NotObserved(c), busy = NoConn,
         UNCHANGED <<busy, server, mutated, snap, restarts>>
  PROVE  IInv'
<1>1. Flags /\ Answer(c, "Unavailable") /\ UNCHANGED <<gen, hash>>
  BY DEF IInv, NotObserved
<1>2. Flags'
  BY <1>1, ZenonT(60) DEF Flags, Answer
<1> QED BY <1>1, <1>2, AnswerStep

LEMMA ClientsStep == ASSUME IInv, NEW c \in Conns, Clients(c) PROVE IInv'
<1>0. /\ Flags /\ Server /\ Requests /\ Backend /\ Local(c) /\ Target(c) /\ Clean(c)
  BY DEF IInv
<1>1. /\ pc[c] = "clients" /\ busy = NoConn /\ UNCHANGED <<server, mutated, snap, restarts>>
  BY DEF Clients
<1>2. CASE NotObserved(c) /\ UNCHANGED busy
  BY <1>1, <1>2, NotObservedStep, Zenon
<1>3. CASE /\ gen' = Observe /\ hash' = refreshClientList /\ busy' = c
           /\ Continue(c, "describe") /\ UNCHANGED quiet
  <2>1. Goto(c, "describe") /\ UNCHANGED <<code, op, ref>>
    BY <1>3 DEF Continue
  <2>2. Flags'
    BY <1>0, <1>1, <1>3, ZenonT(60) DEF Flags
  <2>3. Requests' /\ pc'[c] = "describe"
    BY <1>0, <1>1, <2>1, ZenonT(60) DEF Requests, Labels, Goto
  <2>4. ~quiet[c] /\ ~mutated[c]
    BY <1>0, <1>1 DEF Target, Clean
  <2>5. Target(c)' /\ Clean(c)'
    BY <1>1, <1>3, <2>4, ZenonT(60) DEF Target, Clean
  <2>6. "describe" \in Labels /\ "describe" \in InJob /\ "describe" \notin WithRef
    BY Zenon DEF Labels, InJob, WithRef
  <2>7. hash' # NoList
    BY <1>0, <1>3, WindowsAssumption, ReadIsList, Zenon DEF Server
  <2>8. \A d \in Conns \ {c} : busy' = d <=> busy = d
    BY <1>1, <1>3, WindowsAssumption, Zenon
  <2>9. Observes
    BY <1>1, <1>3 DEF Observes
  <2> QED BY <1>1, <1>3, <2>1, <2>2, <2>3, <2>5, <2>6, <2>7, <2>8, <2>9, MoveStep, ZenonT(60)
<1> QED BY <1>2, <1>3 DEF Clients

(* The reply carries the current generation with the current list. *)
LEMMA DescribeStep == ASSUME IInv, NEW c \in Conns, Describe(c) PROVE IInv'
<1>0. /\ Flags /\ Server /\ Requests /\ Backend /\ SameGenSameList
      /\ \A d \in Conns : Local(d) /\ Target(d) /\ Clean(d)
  BY Zenon DEF IInv
<1> DEFINE seen == [x \in Xids |-> IF In(x, hash) THEN app[x] ELSE NoApp]
<1> DEFINE t == [boot |-> restarts, gen |-> gen, list |-> hash, apps |-> seen]
<1>1. /\ pc[c] = "describe" /\ snap' = [snap EXCEPT ![c] = {t}] /\ busy' = NoConn
      /\ Answer(c, "Submitted") /\ UNCHANGED <<server, gen, hash, mutated, restarts>>
  BY Zenon DEF Describe
<1>2. /\ pc' = [pc EXCEPT ![c] = "reply"] /\ code' = [code EXCEPT ![c] = "Submitted"]
      /\ op' = [op EXCEPT ![c] = "inspect"] /\ ref' = [ref EXCEPT ![c] = NoRef]
      /\ quiet' = [quiet EXCEPT ![c] = FALSE]
  BY <1>1, Zenon DEF Answer, Goto
<1>3. busy = c /\ hash # NoList
  BY <1>0, <1>1, Zenon DEF Local, InJob
<1>4. t \in Snapshot
  <2>1. seen \in [Xids -> Apps \cup {NoApp}]
    BY <1>0, ZenonT(60) DEF Server
  <2> HIDE DEF seen
  <2> QED BY <1>0, <1>3, <2>1, Zenon DEF Snapshot, Server, Backend
<1>5. Requests' /\ pc'[c] = "reply" /\ code'[c] = "Submitted" /\ snap'[c] = {t}
  BY <1>0, <1>1, <1>2, <1>4 DEF Requests, Labels
<1>6. Flags' /\ ~quiet'[c] /\ \A d \in Conns \ {c} : quiet'[d] = quiet[d]
  BY <1>0, <1>1, <1>2, ZenonT(60) DEF Flags
<1>7. \A d \in Conns \ {c} :
        pc'[d] = pc[d] /\ ref'[d] = ref[d] /\ code'[d] = code[d] /\ snap'[d] = snap[d]
  BY <1>0, <1>1, <1>2, ZenonT(60) DEF Requests
<1>8. \A d \in Conns \ {c} : busy' = d <=> busy = d
  BY <1>1, <1>3, WindowsAssumption
<1>9. Alone(c)
  BY <1>1, <1>6, <1>7, <1>8, ZenonT(60) DEF Alone
<1>10. Known(t.boot, t.gen, t.list, restarts', gen', hash')
  BY <1>0, <1>1, <1>3, SMTT(30) DEF Known, Server, Backend
<1>11. Local(c)'
  <2>1. busy' # c
    BY <1>1, WindowsAssumption
  <2> QED BY <1>5, <1>10, <2>1, ZenonT(60) DEF Local, InJob, WithRef
<1>12. Target(c)' /\ Clean(c)'
  <2>1. code'[c] # "Conflict"
    BY <1>5, Zenon
  <2> QED BY <1>5, <1>6, <2>1, ZenonT(60) DEF Target, Clean
<1>13. SameGenSameList'
  <2>1. ASSUME NEW d \in Conns \ {c}, NEW s \in snap[d], s.boot = restarts, s.gen = gen
        PROVE  s.list = hash
    BY <1>0, <2>1, Zenon DEF Local, Known, Backend, Server
  <2>2. t.boot = restarts /\ t.gen = gen /\ t.list = hash
    BY Zenon
  <2> SUFFICES ASSUME NEW d \in Conns, NEW e \in Conns, NEW s \in snap'[d], NEW u \in snap'[e],
                      s.boot = u.boot, s.gen = u.gen
               PROVE  s.list = u.list
    BY SMTT(30) DEF SameGenSameList
  <2>3. CASE d = c /\ e = c
    BY <1>5, <2>3, Zenon
  <2>4. CASE d = c /\ e # c
    BY <1>5, <1>7, <2>1, <2>2, <2>4, ZenonT(60)
  <2>5. CASE d # c /\ e = c
    BY <1>5, <1>7, <2>1, <2>2, <2>5, SMTT(30)
  <2>6. CASE d # c /\ e # c
    BY <1>0, <1>7, <2>6 DEF SameGenSameList
  <2> QED BY <2>3, <2>4, <2>5, <2>6, Zenon
<1>14. busy' \in Conns \cup {NoConn}
  BY <1>1
<1> QED BY <1>1, <1>5, <1>6, <1>9, <1>11, <1>12, <1>13, <1>14, ConnStep, ZenonT(60)

-----------------------------------------------------------------------------
(* Revalidate and the mutation. *)

LEMMA RevalidateStep == ASSUME IInv, NEW c \in Conns, Revalidate(c) PROVE IInv'
<1>0. /\ Flags /\ Server /\ Requests /\ Backend /\ Local(c) /\ Target(c) /\ Clean(c)
  BY DEF IInv
<1>1. /\ pc[c] = "reval" /\ busy = NoConn /\ UNCHANGED <<server, mutated, snap, restarts>>
  BY Zenon DEF Revalidate
<1>2. ~quiet[c] /\ ~mutated[c]
  BY <1>0, <1>1, Zenon DEF Target, Clean
<1>3. CASE NotObserved(c) /\ UNCHANGED busy
  BY <1>1, <1>3, NotObservedStep, SMTT(30)
<1>4. CASE /\ gen' = Observe /\ hash' = refreshClientList /\ Matches(c)
           /\ Continue(c, "class") /\ busy' = c /\ quiet' = [quiet EXCEPT ![c] = TRUE]
  <2>1. Goto(c, "class") /\ UNCHANGED <<code, op, ref>>
    BY <1>4 DEF Continue
  <2>2. Flags' /\ \A d \in Conns \ {c} : quiet'[d] = quiet[d]
    BY <1>0, <1>1, <1>4, ZenonT(60) DEF Flags
  <2>3. Requests' /\ pc'[c] = "class"
    BY <1>0, <1>1, <2>1, Zenon DEF Requests, Labels, Goto
  <2>4. ref[c].gen = gen /\ gen' = gen /\ In(ref[c].xid, list)
    BY <1>0, <1>4, ReadIsList DEF Matches, Observe, Server
  <2>5. In(ref'[c].xid, list')
    BY <1>1, <2>1, <2>4, ZenonT(60) DEF server
  <2>6. Target(c)' /\ Clean(c)'
    BY <1>1, <1>2, <2>3, <2>5, ZenonT(60) DEF Target, Clean
  <2>7. "class" \in Labels /\ "class" \in InJob /\ pc[c] \in WithRef
    BY <1>1, Zenon DEF Labels, InJob, WithRef
  <2>8. hash' # NoList
    BY <1>0, <1>4, WindowsAssumption, ReadIsList, Zenon DEF Server
  <2>9. \A d \in Conns \ {c} : busy' = d <=> busy = d
    BY <1>1, <1>4, WindowsAssumption
  <2>10. Observes
    BY <1>1, <1>4, Zenon DEF Observes
  <2> QED BY <1>1, <1>4, <2>1, <2>2, <2>3, <2>4, <2>6, <2>7, <2>8, <2>9, <2>10, MoveStep, ZenonT(60)
<1>5. CASE /\ gen' = Observe /\ hash' = refreshClientList /\ Answer(c, "Conflict") /\ UNCHANGED busy
  <2>1. Flags'
    BY <1>0, <1>1, <1>5, ZenonT(60) DEF Flags, Answer
  <2>2. ~mutated'[c] /\ Observes
    BY <1>1, <1>2, <1>5, Zenon DEF Observes
  <2> QED BY <1>1, <1>5, <2>1, <2>2, AnswerStep
<1> QED BY <1>3, <1>4, <1>5 DEF Revalidate

LEMMA CheckClassStep == ASSUME IInv, NEW c \in Conns, CheckClass(c) PROVE IInv'
<1>0. /\ Flags /\ Requests /\ Backend /\ Local(c) /\ Target(c) /\ Clean(c)
  BY DEF IInv
<1>1. pc[c] = "class" /\ UNCHANGED <<server, gen, hash, mutated, snap, restarts>>
  BY Zenon DEF CheckClass
<1>2. busy = c /\ ~mutated[c] /\ hash # NoList /\ ref[c].gen = gen
  BY <1>0, <1>1, Zenon DEF Local, Clean, InJob
<1>3. CASE /\ ref[c].class \in {NoApp, app[ref[c].xid]}
           /\ Continue(c, "pid") /\ UNCHANGED <<busy, quiet>>
  <2>1. Goto(c, "pid") /\ UNCHANGED <<code, op, ref>>
    BY <1>3, Zenon DEF Continue
  <2>2. Flags'
    BY <1>0, <1>1, <1>3, ZenonT(60) DEF Flags
  <2>3. Requests' /\ pc'[c] = "pid"
    BY <1>0, <1>1, <2>1 DEF Requests, Labels, Goto
  <2>4. quiet[c] => In(ref'[c].xid, list') /\ ref'[c].class \in {NoApp, app'[ref'[c].xid]}
    BY <1>0, <1>1, <1>3, <2>1, ZenonT(60) DEF Target, server
  <2>5. Target(c)' /\ Clean(c)'
    BY <1>1, <1>2, <1>3, <2>3, <2>4, ZenonT(60) DEF Target, Clean
  <2>6. "pid" \in Labels /\ "pid" \in InJob /\ pc[c] \in WithRef
    BY <1>1, ZenonT(60) DEF Labels, InJob, WithRef
  <2> QED BY <1>1, <1>2, <1>3, <2>1, <2>2, <2>3, <2>5, <2>6, MoveStep, Zenon
<1>4. CASE Answer(c, "Conflict") /\ busy' = NoConn
  <2>1. Flags'
    BY <1>0, <1>1, <1>4, ZenonT(60) DEF Flags, Answer
  <2> QED BY <1>1, <1>2, <1>4, <2>1, AnswerStep
<1> QED BY <1>3, <1>4, Zenon DEF CheckClass, windowClass

LEMMA CheckPIDStep == ASSUME IInv, NEW c \in Conns, CheckPID(c) PROVE IInv'
<1>0. /\ Flags /\ Requests /\ Backend /\ Local(c) /\ Target(c) /\ Clean(c)
  BY DEF IInv
<1>1. /\ pc[c] = "pid" /\ busy' = NoConn
      /\ UNCHANGED <<server, gen, hash, mutated, snap, restarts>>
  BY Zenon DEF CheckPID
<1>2. busy = c /\ ~mutated[c]
  BY <1>0, <1>1, Zenon DEF Local, Clean, InJob
<1>3. CASE /\ ref[c].pid \in {NoApp, app[ref[c].xid]}
           /\ Continue(c, "mutate") /\ UNCHANGED quiet
  <2>1. Goto(c, "mutate") /\ UNCHANGED <<code, op, ref>>
    BY <1>3 DEF Continue
  <2>2. Flags'
    BY <1>0, <1>1, <1>3, ZenonT(60) DEF Flags
  <2>3. Requests' /\ pc'[c] = "mutate"
    BY <1>0, <1>1, <2>1 DEF Requests, Labels, Goto
  <2>4. quiet[c] => /\ In(ref'[c].xid, list') /\ ref'[c].class \in {NoApp, app'[ref'[c].xid]}
                    /\ ref'[c].pid \in {NoApp, app'[ref'[c].xid]}
    <3>1. UNCHANGED <<list, app>>
      BY <1>1, Zenon DEF server
    <3>2. quiet[c] => In(ref[c].xid, list) /\ ref[c].class \in {NoApp, app[ref[c].xid]}
      BY <1>0, <1>1, Zenon DEF Target
    <3> QED BY <1>3, <2>1, <3>1, <3>2, ZenonT(60)
  <2>5. Target(c)' /\ Clean(c)'
    BY <1>1, <1>2, <1>3, <2>3, <2>4, ZenonT(60) DEF Target, Clean
  <2>6. "mutate" \in Labels /\ "mutate" \notin InJob /\ pc[c] \in WithRef
    BY <1>1 DEF Labels, InJob, WithRef
  <2>7. busy' # c /\ \A d \in Conns \ {c} : busy' = d <=> busy = d
    BY <1>1, <1>2, WindowsAssumption, ZenonT(60)
  <2> QED BY <1>1, <1>3, <2>1, <2>2, <2>3, <2>5, <2>6, <2>7, MoveStep, ZenonT(60)
<1>4. CASE Answer(c, "Conflict")
  <2>1. Flags'
    BY <1>0, <1>1, <1>4, ZenonT(60) DEF Flags, Answer
  <2> QED BY <1>1, <1>2, <1>4, <2>1, AnswerStep
<1> QED BY <1>3, <1>4, Zenon DEF CheckPID, windowPID

LEMMA MutateStep == ASSUME IInv, NEW c \in Conns, Mutate(c) PROVE IInv'
<1>0. /\ Flags /\ Requests /\ Backend /\ Local(c) /\ Target(c) /\ Clean(c)
  BY DEF IInv
<1>1. pc[c] = "mutate" /\ busy = NoConn /\ UNCHANGED <<server, gen, hash, busy, snap, restarts>>
  BY ZenonT(60) DEF Mutate
<1>2. CASE Answer(c, "Unavailable") /\ UNCHANGED mutated
  <2>1. Flags'
    BY <1>0, <1>2, ZenonT(60) DEF Flags, Answer
  <2> QED BY <1>1, <1>2, <2>1, AnswerStep
<1>3. ASSUME mutated' = [mutated EXCEPT ![c] = TRUE],
             NEW o \in {"Submitted", "Unavailable"}, Answer(c, o)
      PROVE  IInv'
  <2>1. Flags' /\ \A d \in Conns \ {c} : mutated'[d] = mutated[d]
    BY <1>0, <1>3, ZenonT(60) DEF Flags, Answer
  <2> QED BY <1>1, <1>3, <2>1, AnswerStep, ZenonT(60)
<1>4. CASE /\ mutated' = [mutated EXCEPT ![c] = TRUE]
           /\ Continue(c, "active") /\ UNCHANGED quiet
  <2>1. Goto(c, "active") /\ UNCHANGED <<code, op, ref>>
    BY <1>4 DEF Continue
  <2>2. Flags' /\ \A d \in Conns \ {c} : mutated'[d] = mutated[d]
    BY <1>0, <1>4, ZenonT(60) DEF Flags
  <2>3. Requests' /\ pc'[c] = "active"
    BY <1>0, <1>1, <2>1 DEF Requests, Labels, Goto
  <2>4. quiet[c] => In(ref'[c].xid, list')
    BY <1>0, <1>1, <2>1, ZenonT(60) DEF Target, server
  <2>5. Target(c)' /\ Clean(c)'
    BY <1>4, <2>3, <2>4 DEF Target, Clean
  <2>6. "active" \in Labels /\ "active" \notin InJob /\ pc[c] \in WithRef
    BY <1>1 DEF Labels, InJob, WithRef
  <2>7. busy' # c
    BY <1>1, WindowsAssumption
  <2> QED BY <1>1, <1>4, <2>1, <2>2, <2>3, <2>5, <2>6, <2>7, MoveStep, ZenonT(60)
<1> QED BY <1>2, <1>3, <1>4, Zenon DEF Mutate, SendEvent

LEMMA ActiveStep == ASSUME IInv, NEW c \in Conns, Active(c) PROVE IInv'
<1>1. /\ busy = NoConn /\ UNCHANGED <<server, gen, hash, busy, mutated, snap, restarts>>
  BY DEF Active
<1>2. PICK o \in {"Submitted", "Unavailable"} : Answer(c, o)
  BY DEF Active
<1>3. Flags'
  BY <1>1, <1>2, ZenonT(60) DEF IInv, Flags, Answer
<1> QED BY <1>1, <1>2, <1>3, AnswerStep

-----------------------------------------------------------------------------
(* A restart: what clients keep is of an earlier run from now on. *)

LEMMA RestartStep == ASSUME IInv, Restart PROVE IInv'
<1>0. /\ Flags /\ Server /\ Requests /\ Backend /\ SameGenSameList
      /\ \A c \in Conns : Local(c)
  BY DEF IInv
<1>1. /\ restarts < MaxRestarts /\ restarts' = restarts + 1 /\ gen' = 1 /\ hash' = NoList
      /\ busy' = NoConn /\ pc' = [c \in Conns |-> "idle"] /\ op' = [c \in Conns |-> "inspect"]
      /\ ref' = [c \in Conns |-> NoRef] /\ code' = [c \in Conns |-> "Submitted"]
      /\ mutated' = [c \in Conns |-> FALSE] /\ quiet' = [c \in Conns |-> FALSE]
      /\ UNCHANGED <<list, app, supported, changes, snap>>
  BY DEF Restart, server
<1>2. Flags'
  BY <1>1, ZenonT(60) DEF Flags
<1>3. Server'
  BY <1>0, <1>1, WindowsAssumption DEF Server
<1>4. Backend' /\ Counted'
  BY <1>0, <1>1, SMTT(30) DEF Backend, Counted, Server
<1>5. Requests' /\ SameGenSameList'
  BY <1>0, <1>1, ZenonT(60) DEF Requests, Labels, SameGenSameList
<1>6. ASSUME NEW c \in Conns PROVE Local(c)'
  <2>1. ASSUME NEW s \in snap[c] PROVE Known(s.boot, s.gen, s.list, restarts', gen', hash')
    <3>1. s \in Snapshot /\ Known(s.boot, s.gen, s.list, restarts, gen, hash)
      BY <1>0, <2>1, Zenon DEF Local, Requests
    <3>2. s.boot \in Nat /\ restarts \in Nat
      BY <1>0, <3>1, Zenon DEF Snapshot, Server
    <3> QED BY <1>1, <3>1, <3>2, SMTT(30) DEF Known
  <2> QED BY <1>1, <2>1, WindowsAssumption, Zenon DEF Local, InJob, WithRef
<1>7. ASSUME NEW c \in Conns PROVE Target(c)' /\ Clean(c)'
  BY <1>1, ZenonT(60) DEF Target, Clean
<1> QED BY <1>2, <1>3, <1>4, <1>5, <1>6, <1>7 DEF IInv

LEMMA NextIInv == IInv /\ [Next]_vars => IInv'
<1> SUFFICES ASSUME IInv, [Next]_vars PROVE IInv'
  BY Zenon
<1>1. ASSUME NEW c \in Conns, Serve(c) PROVE IInv'
  BY <1>1, ClientsStep, DescribeStep, RevalidateStep, CheckClassStep, CheckPIDStep,
     MutateStep, ActiveStep, ReplyStep, Zenon DEF Serve
<1>2. CASE UNCHANGED vars
  <2>0. UNCHANGED <<list, app, supported, changes, gen, hash, busy, pc, op, ref, code,
                    mutated, quiet, snap, restarts>>
    BY <1>2 DEF vars, server, request
  <2>1. Flags' /\ \A c \in Conns : Target(c)' /\ Clean(c)'
    BY <2>0, ZenonT(60) DEF IInv, Flags, Target, Clean, In
  <2>2. Server' /\ Backend' /\ Requests' /\ Counted' /\ SameGenSameList'
    <3>1. UNCHANGED refreshClientList
      BY <2>0 DEF refreshClientList
    <3> QED BY <2>0, <3>1, SMTT(30) DEF IInv, Server, Backend, Requests, Counted, SameGenSameList
  <2>3. \A c \in Conns : Local(c)'
    BY <2>0, ZenonT(60) DEF IInv, Local
  <2> QED BY <2>1, <2>2, <2>3 DEF IInv
<1> QED BY <1>1, <1>2, ServerStep, AskInspectStep, AskMutationStep, RestartStep, ZenonT(60) DEF Next

(* The inductive invariant of the window operations. *)
THEOREM WindowsInvariant == Spec => []IInv
BY InitIInv, NextIInv, PTL DEF Spec

(* Every variable keeps its type, and observeGen has moved at most once for  *)
(* each change at the X server.                                              *)
THEOREM WindowsTypeCorrect == Spec => []TypeOK
<1>1. IInv => TypeOK
  <2> SUFFICES ASSUME IInv PROVE TypeOK
    OBVIOUS
  <2>0. Flags /\ Server /\ Backend /\ Requests /\ Counted
    BY DEF IInv
  <2>1. gen \in 1 .. MaxChanges + 1 /\ changes \in 0 .. MaxChanges /\ restarts \in 0 .. MaxRestarts
    BY <2>0, WindowsAssumption DEF Server, Backend, Counted
  <2> QED BY <2>0, <2>1, ZenonT(60) DEF Flags, Server, Backend, Requests, TypeOK
<1> QED BY <1>1, WindowsInvariant, PTL

(* ManagedClients: within one run of the daemon, replies with one observeGen *)
(* list the same windows.                                                    *)
THEOREM GenerationNamesList == Spec => []SameGenSameList
<1>1. IInv => SameGenSameList
  BY Zenon DEF IInv
<1> QED BY <1>1, WindowsInvariant, PTL

(* Revalidate: a reference of this run passes only against the list it was   *)
(* taken from.                                                               *)
THEOREM RevalidatedRefIsCurrent == Spec => []PassedRefSawThisList
<1>1. IInv => PassedRefSawThisList
  <2> SUFFICES ASSUME IInv, NEW c \in Conns, pc[c] \in {"class", "pid"},
                      ref[c].boot = restarts
               PROVE  hash = ref[c].from
    BY ZenonT(60) DEF PassedRefSawThisList
  <2>1. Local(c) /\ restarts \in Nat /\ gen \in Nat
    BY SMTT(30) DEF IInv, Server, Backend
  <2> QED BY <2>1, Zenon DEF Local, WithRef, Known
<1> QED BY <1>1, WindowsInvariant, PTL

(* If the X server is quiet from Revalidate on, the mutation meets a managed *)
(* window of the class and PID asked for.                                    *)
THEOREM MutationMeetsTarget == Spec => []QuietTargetMatches
<1>1. IInv => QuietTargetMatches
  <2> SUFFICES ASSUME IInv, NEW c \in Conns, pc[c] = "mutate", quiet[c]
               PROVE  /\ In(ref[c].xid, list)
                      /\ ref[c].class \in {NoApp, app[ref[c].xid]}
                      /\ ref[c].pid \in {NoApp, app[ref[c].xid]}
    BY ZenonT(60) DEF QuietTargetMatches
  <2>1. Target(c)
    BY ZenonT(60) DEF IInv
  <2> QED BY <2>1, ZenonT(60) DEF Target
<1> QED BY <1>1, WindowsInvariant, PTL

(* Dispatch answers Conflict only when it has mutated nothing. *)
THEOREM ConflictIsClean == Spec => []ConflictMeansNoMutation
<1>1. IInv => ConflictMeansNoMutation
  <2> SUFFICES ASSUME IInv, NEW c \in Conns, pc[c] = "reply", code[c] = "Conflict", mutated[c]
               PROVE  FALSE
    BY ZenonT(60) DEF ConflictMeansNoMutation
  <2>1. Clean(c)
    BY DEF IInv
  <2> QED BY <2>1, Zenon DEF Clean
<1> QED BY <1>1, WindowsInvariant, PTL

-----------------------------------------------------------------------------
(* The generation of the daemon, step by step. *)

(* Within a run observeGen goes up by one exactly when the list that is read    *)
(* differs from the one read before, and never in the middle of a job.         *)
GenerationFollowsList ==
  restarts' = restarts =>
    /\ gen' = IF hash # NoList /\ hash' # hash THEN gen + 1 ELSE gen
    /\ busy # NoConn => UNCHANGED <<gen, hash>>

LEMMA Observing ==
  ASSUME NEW c \in Conns, Clients(c) \/ Revalidate(c)
  PROVE  /\ busy = NoConn
         /\ \/ UNCHANGED <<gen, hash>>
            \/ gen' = Observe /\ hash' = refreshClientList
BY Zenon DEF Clients, Revalidate, NotObserved

LEMMA NotObserving ==
  ASSUME Next
  PROVE  \/ \E c \in Conns : Clients(c) \/ Revalidate(c)
         \/ UNCHANGED <<gen, hash>>
         \/ Restart
BY ZenonT(60) DEF Next, Create, Destroy, ManagerChanges, Change, Serve, Describe, CheckClass, CheckPID,
                  Mutate, Active, Reply, AskInspect, AskMutation

(* ManagedClients and Revalidate share listHash and observeGen: whichever of     *)
(* them, for whichever connection, reads a changed list first moves the          *)
(* generation, and the other then finds it moved.                              *)
THEOREM GenerationMovesWithList == Spec => [][GenerationFollowsList]_vars
<1>1. ASSUME IInv, Next, restarts' = restarts
      PROVE  /\ gen' = IF hash # NoList /\ hash' # hash THEN gen + 1 ELSE gen
             /\ busy # NoConn => UNCHANGED <<gen, hash>>
  <2>1. ASSUME NEW c \in Conns, Clients(c) \/ Revalidate(c)
        PROVE  GenerationFollowsList
    <3>1. /\ busy = NoConn
          /\ \/ UNCHANGED <<gen, hash>>
             \/ gen' = Observe /\ hash' = refreshClientList
      BY <2>1, Observing, Zenon
    <3>2. CASE UNCHANGED <<gen, hash>>
      BY <3>2, Zenon DEF GenerationFollowsList
    <3>3. CASE gen' = Observe /\ hash' = refreshClientList
      <4>1. gen' = IF hash # NoList /\ hash # hash' THEN gen + 1 ELSE gen
        BY <3>3, Zenon DEF Observe
      <4> QED BY <3>1, <4>1, Zenon DEF GenerationFollowsList
    <3> QED BY <3>1, <3>2, <3>3, Zenon
  <2>2. ~Restart
    <3>1. restarts \in Nat
      BY <1>1 DEF IInv, Server
    <3> QED BY <1>1, <3>1 DEF Restart
  <2> QED BY <1>1, <2>1, <2>2, NotObserving, Zenon DEF GenerationFollowsList
<1>2. IInv /\ [Next]_vars => [GenerationFollowsList]_vars
  BY <1>1, Zenon DEF GenerationFollowsList
<1> QED BY <1>2, WindowsInvariant, PTL DEF Spec

-----------------------------------------------------------------------------
(* References of any run. *)

(* The reference of c is past the list check. *)
Listed(c) == pc[c] \in {"class", "pid"} => In(ref[c].xid, hash)

LEMMA ListedStays ==
  ASSUME NEW c \in Conns, Listed(c), ref'[c] = ref[c], hash' = hash,
         pc'[c] \in {"class", "pid"} => pc[c] \in {"class", "pid"}
  PROVE  Listed(c)'
BY Zenon DEF Listed, In

LEMMA NextListed ==
  ASSUME IInv, \A c \in Conns : Listed(c), Next, NEW c \in Conns
  PROVE  Listed(c)'
<1>0. /\ pc \in [Conns -> Labels] /\ ref \in [Conns -> Ref \cup {NoRef}] /\ Listed(c)
      /\ Local(c) /\ NoConn \notin Conns
  BY WindowsAssumption, Zenon DEF IInv, Requests
<1>1. CASE Restart
  BY <1>1 DEF Restart, Listed
<1>2. CASE UNCHANGED <<pc, ref, hash>>
  BY <1>0, <1>2, ListedStays, Zenon
<1>3. ASSUME NEW d \in Conns,
             \E l \in Labels \ {"class", "pid"} : pc' = [pc EXCEPT ![d] = l],
             hash' = hash \/ busy = NoConn,
             \A e \in Conns \ {d} : ref'[e] = ref[e]
      PROVE  Listed(c)'
  <2>1. CASE c = d
    <3>1. pc'[c] \notin {"class", "pid"}
      BY <1>0, <1>3, <2>1
    <3> QED BY <3>1, Zenon DEF Listed
  <2>2. CASE c # d
    <3>1. pc'[c] = pc[c] /\ ref'[c] = ref[c]
      BY <1>0, <1>3, <2>2, ZenonT(60)
    <3>2. pc[c] \in {"class", "pid"} => busy # NoConn
      BY <1>0 DEF Local, InJob
    <3> QED BY <1>0, <1>3, <3>1, <3>2, ListedStays, Zenon DEF Listed
  <2> QED BY <2>1, <2>2
<1>4. ASSUME NEW d \in Conns, pc[d] = "class", pc' = [pc EXCEPT ![d] = "pid"], UNCHANGED <<ref, hash>>
      PROVE  Listed(c)'
  <2>1. pc'[c] \in {"class", "pid"} => pc[c] \in {"class", "pid"}
    BY <1>0, <1>4
  <2> QED BY <1>0, <1>4, <2>1, ListedStays, Zenon
<1>5. ASSUME NEW d \in Conns, busy = NoConn, pc' = [pc EXCEPT ![d] = "class"], ref' = ref,
             hash' = refreshClientList, Matches(d)
      PROVE  Listed(c)'
  <2>1. CASE c = d
    <3>1. In(ref[c].xid, refreshClientList)
      BY <1>5, <2>1, Zenon DEF Matches
    <3> QED BY <1>5, <3>1, Zenon DEF Listed, In
  <2>2. CASE c # d
    <3>1. pc'[c] = pc[c]
      BY <1>0, <1>5, <2>2, SMTT(30)
    <3>2. pc[c] \notin {"class", "pid"}
      BY <1>0, <1>5 DEF Local, InJob
    <3> QED BY <3>1, <3>2, Zenon DEF Listed
  <2> QED BY <2>1, <2>2
<1>6. ASSUME NEW d \in Conns, NEW o, Answer(d, o), hash' = hash \/ busy = NoConn
      PROVE  Listed(c)'
  <2>1. pc' = [pc EXCEPT ![d] = "reply"] /\ ref' = [ref EXCEPT ![d] = NoRef]
    BY <1>6 DEF Answer, Goto
  <2>2. \A e \in Conns \ {d} : ref'[e] = ref[e]
    BY <1>0, <2>1
  <2>3. "reply" \in Labels \ {"class", "pid"}
    BY DEF Labels
  <2> QED BY <1>3, <1>6, <2>1, <2>2, <2>3, Zenon
<1>7. ASSUME NEW d \in Conns, NEW l \in Labels \ {"class", "pid"}, Goto(d, l), ref' = ref,
             hash' = hash \/ busy = NoConn
      PROVE  Listed(c)'
  BY <1>3, <1>7, Zenon DEF Goto
<1>8. {"idle", "clients", "describe", "reval", "mutate", "active", "reply"}
         \subseteq Labels \ {"class", "pid"}
  BY DEF Labels
<1>9. ASSUME NEW d \in Conns, Clients(d) \/ Describe(d) \/ AskInspect(d) \/ Reply(d) PROVE Listed(c)'
  BY <1>6, <1>7, <1>8, <1>9, Zenon
     DEF Clients, NotObserved, Continue, Describe, AskInspect, Reply
<1>10. ASSUME NEW d \in Conns, NEW o, AskMutation(d, o) PROVE Listed(c)'
  <2>1. /\ pc' = [pc EXCEPT ![d] = "reval"] /\ hash' = hash
        /\ \E r : ref' = [ref EXCEPT ![d] = r]
    BY <1>10, Zenon DEF AskMutation, Goto
  <2>2. \A e \in Conns \ {d} : ref'[e] = ref[e]
    BY <1>0, <2>1
  <2> QED BY <1>3, <1>8, <2>1, <2>2, Zenon
<1>11. ASSUME NEW d \in Conns, Revalidate(d) PROVE Listed(c)'
  BY <1>5, <1>6, <1>11, Zenon DEF Revalidate, NotObserved, Continue, Goto
<1>12. ASSUME NEW d \in Conns, CheckClass(d) PROVE Listed(c)'
  BY <1>4, <1>6, <1>12, Zenon DEF CheckClass, Continue, Goto
<1>13. ASSUME NEW d \in Conns, CheckPID(d) PROVE Listed(c)'
  BY <1>6, <1>7, <1>8, <1>13, Zenon DEF CheckPID, Continue
<1>14. ASSUME NEW d \in Conns, Mutate(d) \/ Active(d) PROVE Listed(c)'
  BY <1>6, <1>7, <1>8, <1>14, Zenon DEF Mutate, Active, Continue
<1>15. CASE \/ \E x \in Xids : Destroy(x) \/ \E a \in Apps : Create(x, a)
            \/ ManagerChanges
  <2>1. UNCHANGED <<pc, ref, hash>>
    BY <1>15, Zenon DEF Destroy, Create, ManagerChanges, Change
  <2> QED BY <1>2, <2>1
<1> QED BY <1>1, <1>9, <1>10, <1>11, <1>12, <1>13, <1>14, <1>15, ZenonT(60) DEF Next, Serve

(* A reference that got past the list check carries the current generation and    *)
(* names a window of the list just read, also when it comes from an earlier run   *)
(* of the daemon, whose generations started at 1 too.                            *)
PassedRefIsListed ==
  \A c \in Conns :
    pc[c] \in {"class", "pid"} => In(ref[c].xid, hash) /\ ref[c].gen = gen

(* Revalidate: PassedRefIsListed, for references of any run.  Together with        *)
(* QuietTargetMatches it is what a restart leaves a client with.                 *)
THEOREM RevalidatedRefIsListed == Spec => []PassedRefIsListed
<1>1. Init => \A c \in Conns : Listed(c)
  BY DEF Init, Listed
<1>2. IInv /\ (\A c \in Conns : Listed(c)) /\ [Next]_vars => (\A c \in Conns : Listed(c))'
  <2>1. ASSUME IInv, \A c \in Conns : Listed(c), Next PROVE \A c \in Conns : Listed(c)'
    BY <2>1, NextListed, Zenon
  <2>2. ASSUME \A c \in Conns : Listed(c), UNCHANGED vars PROVE \A c \in Conns : Listed(c)'
    BY <2>2, ListedStays, Zenon DEF vars, request
  <2> QED BY <2>1, <2>2
<1>3. ASSUME IInv, \A c \in Conns : Listed(c), NEW c \in Conns, pc[c] \in {"class", "pid"}
      PROVE  In(ref[c].xid, hash) /\ ref[c].gen = gen
  BY <1>3, Zenon DEF IInv, Local, Listed
<1>4. IInv /\ (\A c \in Conns : Listed(c)) => PassedRefIsListed
  BY <1>3, Zenon DEF PassedRefIsListed
<1> QED BY <1>1, <1>2, <1>4, WindowsInvariant, PTL DEF Spec
=============================================================================
