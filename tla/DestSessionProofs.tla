------------------------- MODULE DestSessionProofs -------------------------
(* Machine-checked proofs about DestSession, for any connections, inputs,    *)
(* names, limits and faults.                                                 *)
EXTENDS DestSession, FiniteSetTheorems, TLAPS

(* What each label says about the locals of the goroutine. *)
Located(c) ==
  /\ pc[c] \in {"none", "backlog", "closed"} => held[c] = {}
  /\ pc[c] = "keycode" => req[c].op = "key" /\ req[c].arg \in Names
  /\ pc[c] \in {"send", "note"} => cur[c] \in Inputs /\ req[c].op \in {"key", "button"}
  /\ pc[c] = "window" => req[c].op = "window"
  /\ pc[c] = "forget" => cur[c] \in todo[c]

(* Connection c handles only inputs its client names. *)
WithinUses(c) ==
  /\ held[c] \subseteq Uses[c] /\ todo[c] \subseteq Uses[c]
  /\ pc[c] \in {"send", "note"} => cur[c] \in Uses[c]
  /\ pc[c] = "keycode" => KeycodeOf[req[c].arg] \in Uses[c] \cup {NoInput}

(* What Release has done so far: the snapshot still to lift is tracked, and  *)
(* something else is tracked exactly when an up has failed.                  *)
Releasing(c) ==
  /\ pc[c] \in {"release", "forget"} =>
       /\ todo[c] \subseteq held[c]
       /\ code[c] = "Submitted" <=> held[c] = todo[c]
       /\ code[c] # "Submitted" => BackendFaults
  /\ pc[c] = "reply" /\ req[c].op = "release" =>
       (code[c] = "Submitted" <=> held[c] = {})

Local(c) == Located(c) /\ WithinUses(c) /\ Releasing(c)

IInv ==
  /\ TypeOK
  /\ \A c \in Conns : Local(c)

(* The inductive invariant holds before the first client connects. *)
LEMMA InitIInv == Init => IInv
  BY ConstantsAssumption, SMTT(30)
  DEF Init, IInv, TypeOK, Local, Located, WithinUses, Releasing, Labels, Codes, Request, NoRequest, Ops, Inputs

(* Type correctness is inductive by itself, given the labels' facts. *)
LEMMA TypeStep == TypeOK /\ (\A c \in Conns : Located(c)) /\ [Next]_vars => TypeOK'
<1> SUFFICES ASSUME TypeOK, \A c \in Conns : Located(c), [Next]_vars PROVE TypeOK'
  OBVIOUS
<1> USE ConstantsAssumption DEF TypeOK, Goto, Labels, Codes
<1>1. ASSUME NEW c \in Conns, Connect(c) PROVE TypeOK'
  BY <1>1 DEF Connect
<1>2. ASSUME NEW c \in Conns, Accept(c) PROVE TypeOK'
  BY <1>2 DEF Accept
<1>3. ASSUME NEW c \in Conns, NEW r \in Lines(c), ReadLine(c, r) PROVE TypeOK'
  <2>1. r \in Request /\ (r.op = "button" => r.arg \in Inputs)
    BY ZenonT(60) DEF Lines, Request, Ops, Inputs
  <2>2. Decoded(r) \in Labels /\ DecodeCode(r) \in Codes
    BY <2>1 DEF Decoded, DecodeCode, Request, Ops
  <2> QED BY <1>3, <2>1, <2>2 DEF ReadLine
<1>4. ASSUME NEW c \in Conns, KeycodeFor(c) PROVE TypeOK'
  BY <1>4 DEF KeycodeFor, Located, Inputs
<1>5. ASSUME NEW c \in Conns, Send(c) PROVE TypeOK'
  BY <1>5 DEF Send, SendFails, XTest, Located
<1>6. ASSUME NEW c \in Conns, Note(c) PROVE TypeOK'
  BY <1>6 DEF Note, Noted, Located
<1>7. ASSUME NEW c \in Conns, Window(c) PROVE TypeOK'
  BY <1>7 DEF Window
<1>8. ASSUME NEW c \in Conns, ReleaseUp(c) PROVE TypeOK'
  BY <1>8 DEF ReleaseUp, ReleaseFails, Releasable, XTest
<1>9. ASSUME NEW c \in Conns, Forget(c) PROVE TypeOK'
  BY <1>9 DEF Forget
<1>10. ASSUME NEW c \in Conns, ReleaseDone(c) PROVE TypeOK'
  BY <1>10 DEF ReleaseDone
<1>11. ASSUME NEW c \in Conns, Close(c) PROVE TypeOK'
  BY <1>11 DEF Close, NoRequest, Request, Ops
<1>12. ASSUME NEW c \in Conns, FreeSlot(c) PROVE TypeOK'
  BY <1>12 DEF FreeSlot
<1>13. ASSUME NEW c \in Conns, Reply(c) PROVE TypeOK'
  BY <1>13 DEF Reply, NoRequest, Request, Ops
<1>14. ASSUME NEW c \in Conns, ReplyFails(c) \/ ScanEnds(c) \/ ScanDeadline(c) PROVE TypeOK'
  BY <1>14, ZenonT(60) DEF ReplyFails, ScanEnds, ScanDeadline, EndLoop
<1>15. CASE Crash
  BY <1>15 DEF Crash, NoRequest, Request, Ops
<1>16. CASE UNCHANGED vars
  BY <1>16 DEF vars, goroutine
<1> QED
  BY <1>1, <1>2, <1>3, <1>4, <1>5, <1>6, <1>7, <1>8, <1>9, <1>10, <1>11, <1>12, <1>13,
     <1>14, <1>15, <1>16, ZenonT(60) DEF Next, Step, Client

(* Taking an element of both away keeps two sets equal, or different. *)
LEMMA RemoveBoth ==
  \A H, T, k : k \in T /\ T \subseteq H => (H \ {k} = T \ {k} <=> H = T)
<1> SUFFICES ASSUME NEW H, NEW T, NEW k, k \in T, T \subseteq H, H \ {k} = T \ {k}
             PROVE  H = T
  OBVIOUS
<1> QED OBVIOUS

(* The labels' facts and those of Release are preserved by every step. *)
LEMMA LocalStep == IInv /\ [Next]_vars => \A c \in Conns : Local(c)'
<1> SUFFICES ASSUME IInv, [Next]_vars, NEW e \in Conns PROVE Local(e)'
  OBVIOUS
<1> USE ConstantsAssumption DEF IInv, TypeOK, Goto, Local, Located, WithinUses, Releasing
<1>1. ASSUME NEW c \in Conns, Connect(c) PROVE Local(e)'
  BY <1>1, ZenonT(60) DEF Connect
<1>2. ASSUME NEW c \in Conns, Accept(c) PROVE Local(e)'
  BY <1>2, SMTT(30) DEF Accept
<1>3. ASSUME NEW c \in Conns, NEW r \in Lines(c), ReadLine(c, r)
      PROVE Local(e)'
  <2>1. /\ r \in Request
        /\ r.op = "button" => r.arg \in Inputs
        /\ r.op = "key" => r.arg \in Names
        /\ r.op = "key" => KeycodeOf[r.arg] \in Uses[c] \cup {NoInput}
        /\ r.op = "button" => r.arg \in Uses[c]
    BY ZenonT(60) DEF Lines, Request, Ops, Inputs
  <2>2. /\ Decoded(r) \in {"reply", "keycode", "send", "window", "release"}
        /\ Decoded(r) = "keycode" <=> r.op = "key"
        /\ Decoded(r) = "send" <=> r.op = "button"
        /\ Decoded(r) = "window" <=> r.op = "window"
        /\ Decoded(r) = "release" <=> r.op = "release"
        /\ r.op = "release" => DecodeCode(r) = "Submitted"
    BY <2>1 DEF Decoded, DecodeCode, Request, Ops
  <2> QED BY <1>3, <2>1, <2>2 DEF ReadLine
<1>4. ASSUME NEW c \in Conns, KeycodeFor(c) PROVE Local(e)'
  BY <1>4 DEF KeycodeFor, Inputs
<1>5. ASSUME NEW c \in Conns, Send(c) PROVE Local(e)'
  BY <1>5 DEF Send, SendFails, XTest
<1>6. ASSUME NEW c \in Conns, Note(c) PROVE Local(e)'
  BY <1>6 DEF Note, Noted
<1>7. ASSUME NEW c \in Conns, Window(c) PROVE Local(e)'
  BY <1>7, ZenonT(60) DEF Window
<1>8. ASSUME NEW c \in Conns, ReleaseUp(c) PROVE Local(e)'
  BY <1>8, SMTT(30) DEF ReleaseUp, ReleaseFails, Releasable, XTest
<1>9. ASSUME NEW c \in Conns, Forget(c) PROVE Local(e)'
  <2>0. pc[c] = "forget"
    BY <1>9 DEF Forget
  <2>1. /\ cur[c] \in todo[c] /\ todo[c] \subseteq held[c]
        /\ code[c] = "Submitted" <=> held[c] = todo[c]
    BY <2>0
  <2>2. held[c] \ {cur[c]} = todo[c] \ {cur[c]} <=> held[c] = todo[c]
    <3> DEFINE H == held[c]
    <3> DEFINE T == todo[c]
    <3> DEFINE k == cur[c]
    <3>1. k \in T /\ T \subseteq H
      BY <2>1
    <3> HIDE DEF H, T, k
    <3>2. H \ {k} = T \ {k} <=> H = T
      BY ONLY <3>1, RemoveBoth, SMTT(30)
    <3> QED BY ONLY <3>2 DEF H, T, k
  <2> QED BY <1>9, <2>1, <2>2 DEF Forget
<1>10. ASSUME NEW c \in Conns, ReleaseDone(c) PROVE Local(e)'
  BY <1>10, ZenonT(60) DEF ReleaseDone
<1>11. ASSUME NEW c \in Conns, Close(c) PROVE Local(e)'
  BY <1>11 DEF Close, NoRequest
<1>12. ASSUME NEW c \in Conns, FreeSlot(c) PROVE Local(e)'
  BY <1>12, ZenonT(60) DEF FreeSlot
<1>13. ASSUME NEW c \in Conns, Reply(c) PROVE Local(e)'
  BY <1>13, ZenonT(60) DEF Reply, NoRequest
<1>14. ASSUME NEW c \in Conns, ReplyFails(c) \/ ScanEnds(c) \/ ScanDeadline(c)
       PROVE Local(e)'
  BY <1>14, SMTT(30) DEF ReplyFails, ScanEnds, ScanDeadline, EndLoop
<1>15. CASE Crash
  BY <1>15, SMTT(30) DEF Crash
<1>16. CASE UNCHANGED vars
  BY <1>16 DEF vars, goroutine
<1> QED
  BY <1>1, <1>2, <1>3, <1>4, <1>5, <1>6, <1>7, <1>8, <1>9, <1>10, <1>11, <1>12, <1>13,
     <1>14, <1>15, <1>16, Zenon DEF Next, Step, Client

(* The inductive invariant holds throughout. *)
THEOREM Invariance == Spec => []IInv
<1>1. IInv /\ [Next]_vars => IInv'
  BY TypeStep, LocalStep DEF IInv, Local
<1> QED BY <1>1, InitIInv, PTL DEF Spec
(***************************************************************************)
(* The sessions implement the ledger.                                      *)
(***************************************************************************)
Ans == [c \in Conns |-> {i \in Inputs : AnswersFor(c, i)}]

(* The step moves only connection c. *)
Frame(c) ==
  \A d \in Conns \ {c} : /\ pc'[d] = pc[d] /\ held'[d] = held[d]
                         /\ cur'[d] = cur[d] /\ req'[d] = req[d]

(* No X call of connection c awaits its bookkeeping. *)
Settled(c) == pc[c] \notin {"note", "forget"}

(* The functions the ledger is computed from. *)
Maps ==
  /\ pc \in [Conns -> Labels]
  /\ held \in [Conns -> SUBSET Inputs]
  /\ cur \in [Conns -> Inputs \cup {NoInput}]
  /\ req \in [Conns -> Request]

(* A step of one connection changes only that connection's entries. *)
LEMMA AnsFrame ==
  ASSUME NEW c \in Conns, Frame(c)
  PROVE  \A S : Ans'[c] = S => Ans' = [Ans EXCEPT ![c] = S]
<1>1. \A d \in Conns \ {c}, i \in Inputs : AnswersFor(d, i)' <=> AnswersFor(d, i)
  BY DEF AnswersFor, LiftUnderWay, PressUnderWay, Frame
<1>2. \A d \in Conns \ {c} : Ans'[d] = Ans[d]
  BY <1>1 DEF Ans
<1>3. Ans \in [Conns -> SUBSET Inputs] /\ Ans' \in [Conns -> SUBSET Inputs]
  BY DEF Ans
<1> QED BY <1>2, <1>3

(* The connection's own entries, spelled out for the label it stands at. *)
EntriesByLabel ==
  \A c \in Conns :
    /\ Settled(c) => Ans[c] = held[c]
    /\ pc[c] = "note" /\ req[c].press /\ cur[c] \in Inputs => Ans[c] = held[c] \cup {cur[c]}
    /\ pc[c] = "note" /\ ~req[c].press => Ans[c] = held[c] \ {cur[c]}
    /\ pc[c] = "forget" => Ans[c] = held[c] \ {cur[c]}

(* What a connection answers for, read off its label. *)
LEMMA AnsAt == TypeOK => EntriesByLabel
  BY DEF EntriesByLabel, Settled, Ans, AnswersFor, LiftUnderWay, PressUnderWay, TypeOK, Request

(* A step that leaves the X server and what c answers for alone leaves the   *)
(* ledger alone.                                                             *)
LEMMA Unseen ==
  ASSUME NEW c \in Conns, Frame(c), Ans'[c] = Ans[c], down' = down, orphans' = orphans
  PROVE  [Ledger!Next]_(Ledger!ledger)
<1>1. Ans' = [Ans EXCEPT ![c] = Ans[c]]
  BY AnsFrame
<1>2. Ans' = Ans
  BY <1>1, ZenonT(60) DEF Ans
<1> QED BY <1>2 DEF Ledger!ledger, Ans

(* So does one between two labels at which nothing awaits bookkeeping. *)
LEMMA Bookkept ==
  ASSUME NEW c \in Conns, EntriesByLabel, EntriesByLabel', Frame(c), Settled(c), Settled(c)',
         held'[c] = held[c], down' = down, orphans' = orphans
  PROVE  [Ledger!Next]_(Ledger!ledger)
<1>1. Ans'[c] = Ans[c]
  BY DEF EntriesByLabel
<1> QED BY <1>1, Unseen

(* An XTEST transition is an entry of the ledger. *)
LEMMA Entered ==
  ASSUME NEW c \in Conns, NEW i \in Uses[c], NEW press \in BOOLEAN, Frame(c), XTest(i, press),
         Ans'[c] = IF press THEN Ans[c] \cup {i} ELSE Ans[c] \ {i}
  PROVE  Ledger!Next
<1>1. CASE press
  <2>1. Ans' = [Ans EXCEPT ![c] = Ans[c] \cup {i}] /\ down' = down \cup {i} /\ orphans' = orphans \ {i}
    BY <1>1, AnsFrame DEF XTest
  <2>2. Ledger!Press(c, i)
    BY <2>1 DEF Ledger!Press, Ans
  <2> QED BY <2>2 DEF Ledger!Next
<1>2. CASE ~press
  <2>1. Ans' = [Ans EXCEPT ![c] = Ans[c] \ {i}] /\ down' = down \ {i} /\ orphans' = orphans \ {i}
    BY <1>2, AnsFrame, SMTT(30) DEF XTest
  <2>2. Ledger!Lift(c, i)
    BY <2>1 DEF Ledger!Lift, Ans
  <2> QED BY <2>2 DEF Ledger!Next
<1> QED BY <1>1, <1>2

(* Every step of the server is a step of the ledger or leaves it unchanged:  *)
(* the X call is the ledger's entry, the bookkeeping after it is invisible.  *)
LEMMA Simulation == IInv /\ IInv' /\ [Next]_vars => [Ledger!Next]_(Ledger!ledger)
<1>a. TypeOK' => EntriesByLabel'
  BY AnsAt, PTL
<1> SUFFICES ASSUME Maps, \A c \in Conns : Local(c), EntriesByLabel, EntriesByLabel', [Next]_vars
             PROVE  [Ledger!Next]_(Ledger!ledger)
  BY <1>a, AnsAt DEF IInv, TypeOK, Maps
<1>1. ASSUME NEW c \in Conns, Connect(c) PROVE [Ledger!Next]_(Ledger!ledger)
  <2>1. /\ Frame(c) /\ Settled(c) /\ Settled(c)'
        /\ held'[c] = held[c] /\ down' = down /\ orphans' = orphans
    BY <1>1, SMTT(30) DEF Maps, Connect, Goto, Frame, Settled
  <2> QED BY <2>1, Bookkept
<1>2. ASSUME NEW c \in Conns, Accept(c) PROVE [Ledger!Next]_(Ledger!ledger)
  <2>1. held[c] = {}
    BY <1>2, ZenonT(60) DEF Accept, Local, Located
  <2>2. /\ Frame(c) /\ Settled(c) /\ Settled(c)'
        /\ held'[c] = held[c] /\ down' = down /\ orphans' = orphans
    BY <1>2, <2>1, ZenonT(60) DEF Maps, Accept, Goto, Frame, Settled
  <2> QED BY <2>2, Bookkept
<1>3. ASSUME NEW c \in Conns, KeycodeFor(c) PROVE [Ledger!Next]_(Ledger!ledger)
  <2>1. /\ Frame(c) /\ Settled(c) /\ Settled(c)'
        /\ held'[c] = held[c] /\ down' = down /\ orphans' = orphans
    BY <1>3, SMTT(30) DEF Maps, KeycodeFor, Goto, Frame, Settled
  <2> QED BY <2>1, Bookkept
<1>4. ASSUME NEW c \in Conns, Note(c) PROVE [Ledger!Next]_(Ledger!ledger)
  <2>1. pc[c] = "note" /\ cur[c] \in Inputs /\ req[c].press \in BOOLEAN
    BY <1>4 DEF Note, Local, Located, Maps, Request
  <2>2. /\ Frame(c) /\ pc'[c] = "reply" /\ held'[c] = Noted(c, cur[c], req[c].press)
        /\ down' = down /\ orphans' = orphans
    BY <1>4, ZenonT(60) DEF Maps, Note, Goto, Frame
  <2>3. Ans'[c] = held'[c]
    BY <2>2, SMTT(30) DEF EntriesByLabel, Settled
  <2>4. Ans[c] = IF req[c].press THEN held[c] \cup {cur[c]} ELSE held[c] \ {cur[c]}
    BY <2>1, ZenonT(60) DEF EntriesByLabel
  <2>5. Ans'[c] = Ans[c]
    BY <2>2, <2>3, <2>4 DEF Noted
  <2> QED BY <2>2, <2>5, Unseen, SMTT(30)
<1>5. ASSUME NEW c \in Conns, Window(c) PROVE [Ledger!Next]_(Ledger!ledger)
  <2>1. /\ Frame(c) /\ Settled(c) /\ Settled(c)'
        /\ held'[c] = held[c] /\ down' = down /\ orphans' = orphans
    BY <1>5 DEF Maps, Window, Goto, Frame, Settled
  <2> QED BY <2>1, Bookkept
<1>6. ASSUME NEW c \in Conns, Forget(c) PROVE [Ledger!Next]_(Ledger!ledger)
  <2>1. /\ Frame(c) /\ pc[c] = "forget" /\ pc'[c] = "release" /\ held'[c] = held[c] \ {cur[c]}
        /\ down' = down /\ orphans' = orphans
    BY <1>6 DEF Maps, Forget, Goto, Frame
  <2>2. Ans'[c] = Ans[c]
    BY <2>1, Zenon DEF EntriesByLabel, Settled
  <2> QED BY <2>1, <2>2, Unseen, SMTT(30)
<1>7. ASSUME NEW c \in Conns, ReleaseDone(c) PROVE [Ledger!Next]_(Ledger!ledger)
  <2>1. /\ Frame(c) /\ Settled(c) /\ Settled(c)'
        /\ held'[c] = held[c] /\ down' = down /\ orphans' = orphans
    BY <1>7 DEF Maps, ReleaseDone, Goto, Frame, Settled
  <2> QED BY <2>1, Bookkept
<1>8. ASSUME NEW c \in Conns, FreeSlot(c) PROVE [Ledger!Next]_(Ledger!ledger)
  <2>1. /\ Frame(c) /\ Settled(c) /\ Settled(c)'
        /\ held'[c] = held[c] /\ down' = down /\ orphans' = orphans
    BY <1>8 DEF Maps, FreeSlot, Goto, Frame, Settled
  <2> QED BY <2>1, Bookkept
<1>9. ASSUME NEW c \in Conns, Reply(c) PROVE [Ledger!Next]_(Ledger!ledger)
  <2>1. /\ Frame(c) /\ Settled(c) /\ Settled(c)'
        /\ held'[c] = held[c] /\ down' = down /\ orphans' = orphans
    BY <1>9 DEF Maps, Reply, Goto, Frame, Settled
  <2> QED BY <2>1, Bookkept
<1>10. ASSUME NEW c \in Conns, NEW r \in Lines(c), ReadLine(c, r)
       PROVE [Ledger!Next]_(Ledger!ledger)
  <2>1. Decoded(r) \notin {"note", "forget"}
    BY ZenonT(60) DEF Decoded, Lines
  <2>2. /\ Frame(c) /\ Settled(c) /\ Settled(c)'
        /\ held'[c] = held[c] /\ down' = down /\ orphans' = orphans
    BY <1>10, <2>1, SMTT(30) DEF Maps, ReadLine, Goto, Frame, Settled
  <2> QED BY <2>2, Bookkept
<1>11. ASSUME NEW c \in Conns, ReplyFails(c) \/ ScanEnds(c) \/ ScanDeadline(c)
       PROVE [Ledger!Next]_(Ledger!ledger)
  <2>1. EndLoop(c) /\ pc[c] \in {"reply", "read"}
    BY <1>11, SMTT(30) DEF ReplyFails, ScanEnds, ScanDeadline
  <2>2. /\ Frame(c) /\ Settled(c) /\ Settled(c)'
        /\ held'[c] = held[c] /\ down' = down /\ orphans' = orphans
    BY <2>1 DEF Maps, EndLoop, Goto, Frame, Settled
  <2> QED BY <2>2, Bookkept
<1>12. ASSUME NEW c \in Conns, Send(c) PROVE [Ledger!Next]_(Ledger!ledger)
  <2>1. /\ pc[c] = "send" /\ held' = held /\ cur' = cur /\ req' = req
        /\ \/ XTest(cur[c], req[c].press) /\ Goto(c, "note")
           \/ SendFails(c)
    BY <1>12, ZenonT(60) DEF Send
  <2>2. cur[c] \in Uses[c] /\ cur[c] \in Inputs /\ req[c].press \in BOOLEAN
    BY <2>1, SMTT(30) DEF Local, Located, WithinUses, Maps, Request
  <2>3. Ans[c] = held[c]
    BY <2>1, SMTT(30) DEF EntriesByLabel, Settled
  <2>4. CASE SendFails(c)
    <3>1. /\ Frame(c) /\ Settled(c) /\ Settled(c)'
          /\ held'[c] = held[c] /\ down' = down /\ orphans' = orphans
      BY <2>1, <2>4, SMTT(30) DEF Maps, SendFails, Goto, Frame, Settled
    <3> QED BY <3>1, Bookkept
  <2>5. CASE XTest(cur[c], req[c].press) /\ Goto(c, "note")
    <3>1. Frame(c) /\ pc'[c] = "note" /\ held'[c] = held[c] /\ cur'[c] = cur[c] /\ req'[c] = req[c]
      BY <2>1, <2>5 DEF Maps, Goto, Frame
    <3>2. Ans'[c] = IF req[c].press THEN Ans[c] \cup {cur[c]} ELSE Ans[c] \ {cur[c]}
      BY <2>2, <2>3, <3>1, ZenonT(60) DEF EntriesByLabel
    <3> QED BY <2>2, <2>5, <3>1, <3>2, Entered, Zenon
  <2> QED BY <2>1, <2>4, <2>5, Zenon
<1>13. ASSUME NEW c \in Conns, ReleaseUp(c) PROVE [Ledger!Next]_(Ledger!ledger)
  <2>1. PICK i \in Releasable(c) :
          \/ XTest(i, FALSE) /\ cur' = [cur EXCEPT ![c] = i] /\ Goto(c, "forget")
          \/ UNCHANGED <<pc, cur, down, orphans>>
    BY <1>13, ZenonT(60) DEF ReleaseUp, ReleaseFails
  <2>2. pc[c] = "release" /\ held' = held /\ req' = req
    BY <1>13 DEF ReleaseUp
  <2>3. i \in Uses[c]
    BY <2>1 DEF Releasable, Local, WithinUses
  <2>4. Ans[c] = held[c]
    BY <2>2, ZenonT(60) DEF EntriesByLabel, Settled
  <2>5. CASE UNCHANGED <<pc, cur, down, orphans>>
    <3>1. Frame(c) /\ Settled(c) /\ Settled(c)' /\ held'[c] = held[c]
      BY <2>2, <2>5, SMTT(30) DEF Frame, Settled
    <3> QED BY <2>5, <3>1, Bookkept, SMTT(30)
  <2>6. CASE XTest(i, FALSE) /\ cur' = [cur EXCEPT ![c] = i] /\ Goto(c, "forget")
    <3>1. Frame(c) /\ pc'[c] = "forget" /\ held'[c] = held[c] /\ cur'[c] = i
      BY <2>2, <2>6, ZenonT(60) DEF Maps, Goto, Frame
    <3>2. Ans'[c] = IF FALSE THEN Ans[c] \cup {i} ELSE Ans[c] \ {i}
      BY <2>4, <3>1 DEF EntriesByLabel
    <3> QED BY <2>3, <2>6, <3>1, <3>2, Entered, ZenonT(60)
  <2> QED BY <2>1, <2>5, <2>6, Zenon
<1>14. ASSUME NEW c \in Conns, Close(c) PROVE [Ledger!Next]_(Ledger!ledger)
  <2>1. /\ Frame(c) /\ Settled(c) /\ Settled(c)' /\ held'[c] = {}
        /\ down' = down /\ orphans' = orphans \cup (held[c] \cap down)
    BY <1>14, Zenon DEF Maps, Close, Goto, Frame, Settled
  <2>2. Ans[c] = held[c] /\ Ans'[c] = {}
    BY <2>1, Zenon DEF EntriesByLabel
  <2>3. CASE held[c] = {}
    BY <2>1, <2>2, <2>3, Unseen, ZenonT(60)
  <2>4. CASE held[c] # {}
    <3>1. BackendFaults
      BY <1>14, <2>4, ZenonT(60) DEF Close, Local, Releasing
    <3>2. Ans' = [Ans EXCEPT ![c] = {}]
      BY <2>1, <2>2, AnsFrame, ZenonT(60)
    <3>3. Ledger!Abandon(c)
      BY <2>1, <2>2, <3>1, <3>2, ZenonT(60) DEF Ledger!Abandon, Ans
    <3> QED BY <3>3, ZenonT(60) DEF Ledger!Next
  <2> QED BY <2>3, <2>4, ZenonT(60)
<1>15. CASE Crash
  <2>1. \A c \in Conns : pc'[c] = "none" /\ held'[c] = {}
    BY <1>15, SMTT(30) DEF Crash
  <2>2. \A c \in Conns : Ans'[c] = {}
    BY <2>1 DEF EntriesByLabel, Settled
  <2>3. Ans' = [c \in Conns |-> {}]
    BY <2>2 DEF Ans
  <2> QED BY <1>15, <2>3 DEF Crash, Ledger!Next, Ledger!Exit, Ans
<1>16. CASE UNCHANGED vars
  <2>1. Ans' = Ans
    BY <1>16 DEF vars, goroutine, Ans, AnswersFor, LiftUnderWay, PressUnderWay
  <2> QED BY <1>16, <2>1, ZenonT(60) DEF vars, Ledger!ledger, Ans
<1> QED
  BY <1>1, <1>2, <1>3, <1>4, <1>5, <1>6, <1>7, <1>8, <1>9, <1>10, <1>11, <1>12, <1>13,
     <1>14, <1>15, <1>16, ZenonT(60) DEF Next, Step, Client

(* The destination server implements the hold ledger: whatever the           *)
(* interleaving of connections, the send-then-record steps of Dispatch and   *)
(* of Session.Release behave as atomic entries, and without backend faults   *)
(* no session ever leaves with entries.                                      *)
THEOREM LedgerRefinement == Spec => ImplementsLedger
<1>1. Init => Ledger!Init
  BY SMTT(30) DEF Init, Ledger!Init, AnswersFor, LiftUnderWay, PressUnderWay
<1> QED BY <1>1, Simulation, Invariance, PTL DEF Spec, ImplementsLedger, Ledger!Spec
(***************************************************************************)
(* What the ledger gives: invariants of the abstract steps.                *)
(***************************************************************************)
Private(c, i) == \A d \in Conns \ {c} : i \notin Uses[d]

OwnedInLedger == \A i \in down \ orphans : \E c \in Conns : i \in Ans[c]
PrivateInLedger == \A c \in Conns : \A i \in Ans[c] : Private(c, i) => i \in down

(* Every entry of the ledger keeps inputs owned and private holds down. *)
LEMMA LedgerStep ==
  ASSUME Ans \in [Conns -> SUBSET Inputs], OwnedInLedger, PrivateInLedger,
         [Ledger!Next]_(Ledger!ledger)
  PROVE  OwnedInLedger' /\ PrivateInLedger'
<1> USE DEF OwnedInLedger, PrivateInLedger
<1>1. ASSUME NEW c \in Conns, NEW i \in Uses[c],
             down' = down \cup {i}, orphans' = orphans \ {i},
             Ans' = [Ans EXCEPT ![c] = @ \cup {i}]
      PROVE  OwnedInLedger' /\ PrivateInLedger'
  BY <1>1
<1>2. ASSUME NEW c \in Conns, NEW i \in Uses[c],
             down' = down \ {i}, orphans' = orphans \ {i},
             Ans' = [Ans EXCEPT ![c] = @ \ {i}]
      PROVE  OwnedInLedger' /\ PrivateInLedger'
  BY <1>2 DEF Private
<1>3. ASSUME NEW c \in Conns, down' = down, orphans' = orphans \cup (Ans[c] \cap down),
             Ans' = [Ans EXCEPT ![c] = {}]
      PROVE  OwnedInLedger' /\ PrivateInLedger'
  BY <1>3
<1>4. ASSUME down' = down, orphans' = down, Ans' = [c \in Conns |-> {}]
      PROVE  OwnedInLedger' /\ PrivateInLedger'
  BY <1>4
<1>5. ASSUME down' = down, orphans' = orphans, Ans' = Ans
      PROVE  OwnedInLedger' /\ PrivateInLedger'
  BY <1>5
<1> QED
  BY <1>1, <1>2, <1>3, <1>4, <1>5, ZenonT(60)
  DEF Ledger!Next, Ledger!Press, Ledger!Lift, Ledger!Abandon, Ledger!Exit, Ledger!ledger, Ans
(* The invariants of the ledger, on the server's state. *)
THEOREM LedgerInvariants == Spec => [](OwnedInLedger /\ PrivateInLedger)
<1>1. Init => OwnedInLedger /\ PrivateInLedger
  BY DEF Init, OwnedInLedger, PrivateInLedger, Ans, AnswersFor, LiftUnderWay, PressUnderWay
<1>2. IInv /\ IInv' /\ OwnedInLedger /\ PrivateInLedger /\ [Next]_vars
        => OwnedInLedger' /\ PrivateInLedger'
  <2>1. Ans \in [Conns -> SUBSET Inputs]
    BY DEF Ans
  <2> QED BY <2>1, Simulation, LedgerStep
<1> QED BY <1>1, <1>2, Invariance, PTL DEF Spec

(* Every variable of the server keeps its type. *)
THEOREM TypeCorrectness == Spec => []TypeOK
<1>1. IInv => TypeOK
  BY DEF IInv
<1> QED BY <1>1, Invariance, PTL

(* No input is left down without a live session that will lift it, unless a  *)
(* failed up or an exit orphaned it: for any number of clients and inputs.   *)
THEOREM Ownership == Spec => []EveryDownInputIsOwned
<1>1. IInv /\ OwnedInLedger => EveryDownInputIsOwned
  BY DEF OwnedInLedger, EveryDownInputIsOwned, Ans
<1> QED BY <1>1, Invariance, LedgerInvariants, PTL

(* A hold on an input no other client names is down at the X server for as   *)
(* long as the session answers for it.                                       *)
THEOREM PrivateHolds == Spec => []PrivateHoldIsDown
<1>1. IInv /\ PrivateInLedger => PrivateHoldIsDown
  BY DEF PrivateInLedger, PrivateHoldIsDown, Private, Ans
<1> QED BY <1>1, Invariance, LedgerInvariants, PTL

(* Release answers Submitted exactly when nothing is tracked any more. *)
THEOREM ReleaseOutcome == Spec => []ReleaseOutcomeIsExact
<1>1. IInv => ReleaseOutcomeIsExact
  BY Zenon DEF IInv, Local, Releasing, ReleaseOutcomeIsExact
<1> QED BY <1>1, Invariance, PTL

(* An input goes up only on an explicit up, or in the Release of a session   *)
(* that tracks it.                                                           *)
THEOREM ReleaseIsSessionScoped == Spec => LiftsOnlyOwnHolds
<1> DEFINE Own(i) == \E c \in Conns : \/ pc[c] = "send" /\ cur[c] = i /\ ~req[c].press
                                      \/ pc[c] = "release" /\ i \in held[c]
<1>1. ASSUME IInv, Next, NEW i \in down \ down' PROVE Own(i)
  <2>1. ASSUME NEW c \in Conns, Send(c) PROVE Own(i)
    BY <1>1, <2>1, ZenonT(60) DEF Send, SendFails, XTest
  <2>2. ASSUME NEW c \in Conns, ReleaseUp(c) PROVE Own(i)
    <3>1. i \in todo[c] /\ pc[c] = "release"
      BY <1>1, <2>2 DEF ReleaseUp, ReleaseFails, Releasable, XTest
    <3> QED BY <1>1, <3>1, SMTT(30) DEF IInv, Local, Releasing
  <2> QED
    BY <1>1, <2>1, <2>2, ZenonT(60)
    DEF Next, Step, Client, Accept, Connect, ReadLine, KeycodeFor, Note, Window, Forget,
        ReleaseDone, Close, FreeSlot, Reply, ReplyFails, ScanEnds, ScanDeadline, EndLoop, Crash
<1>2. ASSUME IInv, [Next]_vars PROVE [\A i \in down \ down' : Own(i)]_vars
  BY <1>1, <1>2
<1> QED BY <1>2, Invariance, PTL DEF Spec, LiftsOnlyOwnHolds
(* Without backend faults and exits nothing is ever orphaned. *)
THEOREM NoOrphans == Spec => []OrphansNeedFailure
<1>1. Init => OrphansNeedFailure
  BY SMTT(30) DEF Init, OrphansNeedFailure
<1>2. IInv /\ OrphansNeedFailure /\ [Next]_vars => OrphansNeedFailure'
  <2> SUFFICES ASSUME IInv, OrphansNeedFailure, [Next]_vars PROVE OrphansNeedFailure'
    OBVIOUS
  <2>1. ASSUME NEW c \in Conns, Close(c) PROVE OrphansNeedFailure'
    <3>1. held[c] = {} \/ BackendFaults
      BY <2>1 DEF Close, IInv, Local, Releasing
    <3> QED BY <2>1, <3>1, ZenonT(60) DEF Close, OrphansNeedFailure
  <2>2. CASE Crash
    BY <2>2, ConstantsAssumption DEF Crash, OrphansNeedFailure, IInv, TypeOK
  <2>3. ASSUME orphans' \subseteq orphans, crashes' = crashes PROVE OrphansNeedFailure'
    BY <2>3, Zenon DEF OrphansNeedFailure
  <2> QED
    BY <2>1, <2>2, <2>3, ZenonT(60)
    DEF Next, vars, goroutine, Step, Client, Connect, Accept, ReadLine, KeycodeFor, Send,
        SendFails, XTest, Note, Window, ReleaseUp, ReleaseFails, Forget, ReleaseDone, FreeSlot,
        Reply, ReplyFails, ScanEnds, ScanDeadline, EndLoop
<1> QED BY <1>1, <1>2, Invariance, PTL DEF Spec

(***************************************************************************)
(* Slot accounting.                                                        *)
(***************************************************************************)
ServedSet == {c \in Conns : Served(c)}

(* Accept takes a slot, FreeSlot returns it, Crash drops them all, and no    *)
(* other step changes who is served.                                         *)
LEMMA SlotStep ==
  ASSUME IInv, SlotsCountServed, [Next]_vars PROVE SlotsCountServed'
<1> USE ConstantsAssumption DEF IInv, TypeOK, Served, Idle, Goto
<1>a. IsFiniteSet(ServedSet) /\ slots = Cardinality(ServedSet) /\ slots \in Nat /\ slots <= MaxConns
  BY FS_Subset, FS_CardinalityType DEF SlotsCountServed, ServedSet
<1>b. ASSUME ServedSet' = ServedSet, slots' = slots PROVE SlotsCountServed'
  BY <1>a, <1>b, ZenonT(60) DEF SlotsCountServed, ServedSet
<1>1. ASSUME NEW c \in Conns, Accept(c) PROVE SlotsCountServed'
  <2>1. CASE Turned(c)
    <3>1. ServedSet' = ServedSet /\ slots' = slots
      BY <1>1, <2>1, SMTT(30) DEF Accept, ServedSet
    <3> QED BY <3>1, <1>b, ZenonT(60)
  <2>2. CASE ~Turned(c)
    <3>1. ServedSet' = ServedSet \cup {c} /\ c \notin ServedSet
      BY <1>1, <2>2, SMTT(30) DEF Accept, ServedSet
    <3>2. slots' = slots + 1 /\ slots < MaxConns
      BY <1>1, <2>2, <1>a DEF Accept, Turned
    <3>3. Cardinality(ServedSet') = Cardinality(ServedSet) + 1
      BY <3>1, <1>a, FS_AddElement, Zenon
    <3> QED BY <3>2, <3>3, <1>a, SMTT(30) DEF SlotsCountServed, ServedSet
  <2> QED BY <2>1, <2>2, ZenonT(60)
<1>2. ASSUME NEW c \in Conns, FreeSlot(c) PROVE SlotsCountServed'
  <2>1. ServedSet' = ServedSet \ {c} /\ c \in ServedSet /\ slots' = slots - 1
    BY <1>2 DEF FreeSlot, ServedSet
  <2>2. Cardinality(ServedSet') = Cardinality(ServedSet) - 1
    BY <2>1, <1>a, FS_RemoveElement, ZenonT(60)
  <2> QED BY <2>1, <2>2, <1>a, SMTT(30) DEF SlotsCountServed, ServedSet
<1>3. CASE Crash
  <2>1. ServedSet' = {} /\ slots' = 0
    BY <1>3 DEF Crash, ServedSet
  <2>2. Cardinality(ServedSet') = 0
    BY <2>1, FS_EmptySet
  <2> QED BY <2>1, <2>2 DEF SlotsCountServed, ServedSet
<1>4. ASSUME NEW c \in Conns, NEW r \in Lines(c), ReadLine(c, r) PROVE SlotsCountServed'
  <2>1. Decoded(r) \notin {"none", "backlog"}
    BY ZenonT(60) DEF Decoded, Lines
  <2>2. ServedSet' = ServedSet /\ slots' = slots
    BY <1>4, <2>1, Zenon DEF ReadLine, ServedSet
  <2> QED BY <2>2, <1>b
<1>5. ASSUME NEW c \in Conns,
             \/ Connect(c) \/ KeycodeFor(c) \/ Send(c) \/ Note(c) \/ Window(c)
             \/ ReleaseUp(c) \/ Forget(c) \/ ReleaseDone(c) \/ Close(c) \/ Reply(c)
             \/ ReplyFails(c) \/ ScanEnds(c) \/ ScanDeadline(c)
      PROVE  SlotsCountServed'
  <2>1. slots' = slots /\ \A d \in Conns : Idle(d)' <=> Idle(d)
    BY <1>5, ZenonT(60)
    DEF Connect, KeycodeFor, Send, SendFails, Note, Window, ReleaseUp, ReleaseFails, Forget, ReleaseDone,
        Close, Reply, ReplyFails, ScanEnds, ScanDeadline, EndLoop
  <2>2. ServedSet' = ServedSet
    BY <2>1 DEF ServedSet
  <2> QED BY <2>1, <2>2, <1>b
<1>6. CASE UNCHANGED vars
  <2>1. ServedSet' = ServedSet /\ slots' = slots
    BY <1>6 DEF vars, goroutine, ServedSet
  <2> QED BY <2>1, <1>b
<1> QED BY <1>1, <1>2, <1>3, <1>4, <1>5, <1>6, ZenonT(60) DEF Next, Step, Client

(* The tokens in connSem are exactly the served connections, at most         *)
(* destMaxConns of them.                                                     *)
THEOREM SlotAccounting == Spec => []SlotsCountServed
<1>1. Init => SlotsCountServed
  <2>1. ASSUME Init PROVE {c \in Conns : Served(c)} = {} /\ slots = 0
    BY <2>1 DEF Init, Served, Idle
  <2>2. Cardinality({}) = 0
    BY FS_EmptySet, Zenon
  <2>3. 0 <= MaxConns
    BY ConstantsAssumption
  <2> QED BY <2>1, <2>2, <2>3, Zenon DEF SlotsCountServed
<1>2. IInv /\ SlotsCountServed /\ [Next]_vars => SlotsCountServed'
  BY SlotStep
<1> QED BY <1>1, <1>2, Invariance, PTL DEF Spec

(* The safety half of InputSettles: a daemon that has not failed and serves    *)
(* nobody, so that connSem is empty, has no input down.                       *)
NobodyHoldsNothingDown ==
  slots = 0 /\ ~BackendFaults /\ crashes = 0 => down = {}

(* However the connections came and went, when the last slot is given back     *)
(* every key and button is up (Release deferred before the slot is returned).  *)
THEOREM AllUpWhenNobodyIsServed == Spec => []NobodyHoldsNothingDown
<1>1. ASSUME IInv, EveryDownInputIsOwned, OrphansNeedFailure, SlotsCountServed,
             slots = 0, ~BackendFaults, crashes = 0
      PROVE  down = {}
  <2> DEFINE S == {c \in Conns : Served(c)}
  <2>1. IsFiniteSet(S) /\ Cardinality(S) = 0
    <3>1. S \in SUBSET Conns /\ IsFiniteSet(Conns)
      BY ConstantsAssumption
    <3>2. IsFiniteSet(S)
      BY <3>1, FS_Subset, Zenon
    <3> QED BY <1>1, <3>2 DEF SlotsCountServed
  <2>2. \A c \in Conns : ~Served(c)
    BY <2>1, FS_EmptySet
  <2>3. orphans = {}
    BY <1>1, SMTT(30) DEF OrphansNeedFailure
  <2>4. ASSUME NEW c \in Conns, NEW i PROVE ~AnswersFor(c, i)
    <3>1. pc[c] \in {"none", "backlog"} /\ Located(c)
      BY <1>1, <2>2 DEF Served, Idle, IInv, Local
    <3> QED BY <3>1 DEF AnswersFor, PressUnderWay, Located
  <2> QED BY <1>1, <2>3, <2>4, ZenonT(60) DEF EveryDownInputIsOwned
<1>2. IInv /\ EveryDownInputIsOwned /\ OrphansNeedFailure /\ SlotsCountServed => NobodyHoldsNothingDown
  BY <1>1, Zenon DEF NobodyHoldsNothingDown
<1> QED BY <1>2, Invariance, Ownership, NoOrphans, SlotAccounting, PTL

-----------------------------------------------------------------------------
(* What one client can rely on. *)

(* The inputs only the client of c names. *)
PrivateOf(c) == {i \in Inputs : Private(c, i)}

(* A client that shares none of its inputs finds them down exactly while its   *)
(* session answers for them, but for what a failure left behind.              *)
ExactForPrivate ==
  \A c \in Conns : \A i \in PrivateOf(c) \ orphans : i \in down <=> AnswersFor(c, i)

(* A Release that was answered with Submitted has lifted them all, and so has  *)
(* a connection that is gone.                                                 *)
ReleasedIsUp ==
  \A c \in Conns :
    \/ pc[c] = "reply" /\ req[c].op = "release" /\ code[c] = "Submitted"
    \/ pc[c] \in {"none", "backlog", "closed"}
    => PrivateOf(c) \cap down \subseteq orphans

(* Session: the maps of a session and the X server agree about the inputs no    *)
(* other client names, at every step of any number of connections.            *)
THEOREM PrivateInputsAreExact == Spec => []ExactForPrivate
<1>1. ASSUME IInv, EveryDownInputIsOwned, PrivateHoldIsDown,
             NEW c \in Conns, NEW i \in PrivateOf(c) \ orphans
      PROVE  i \in down <=> AnswersFor(c, i)
  <2>1. ASSUME NEW d \in Conns, AnswersFor(d, i) PROVE i \in Uses[d]
    BY <1>1, <2>1 DEF AnswersFor, PressUnderWay, IInv, Local, WithinUses
  <2>2. i \in Inputs /\ \A d \in Conns \ {c} : i \notin Uses[d]
    BY DEF PrivateOf, Private
  <2>3. AnswersFor(c, i) => i \in down
    BY <1>1, <2>2, Zenon DEF PrivateHoldIsDown
  <2>4. ASSUME i \in down PROVE AnswersFor(c, i)
    <3>1. PICK d \in Conns : AnswersFor(d, i)
      BY <1>1, <2>4, Zenon DEF EveryDownInputIsOwned
    <3> QED BY <2>1, <2>2, <3>1, Zenon
  <2> QED BY <2>3, <2>4, SMTT(30)
<1>2. IInv /\ EveryDownInputIsOwned /\ PrivateHoldIsDown => ExactForPrivate
  BY <1>1, Zenon DEF ExactForPrivate
<1> QED BY <1>2, Invariance, Ownership, PrivateHolds, PTL

(* Session.Release and serveVNextConn: whatever the client pressed before and   *)
(* however other connections interleave, Submitted for a release, and the end   *)
(* of the connection, mean that its own inputs are up.                         *)
THEOREM ReleaseMeansUp == Spec => []ReleasedIsUp
<1>1. ASSUME IInv, ExactForPrivate, NEW c \in Conns,
             \/ pc[c] = "reply" /\ req[c].op = "release" /\ code[c] = "Submitted"
             \/ pc[c] \in {"none", "backlog", "closed"}
      PROVE  PrivateOf(c) \cap down \subseteq orphans
  <2>1. held[c] = {} /\ pc[c] # "note"
    BY <1>1 DEF IInv, Local, Located, Releasing
  <2>2. \A i : ~AnswersFor(c, i)
    BY <2>1 DEF AnswersFor, PressUnderWay
  <2> QED BY <1>1, <2>2, ZenonT(60) DEF ExactForPrivate
<1>2. IInv /\ ExactForPrivate => ReleasedIsUp
  BY <1>1, Zenon DEF ReleasedIsUp
<1> QED BY <1>2, Invariance, PrivateInputsAreExact, PTL

(* Every step of a Release tries one more input of its snapshot, or ends it. *)
Smaller(S, T) == S \subseteq T /\ S # T
ReleaseProceeds ==
  \A c \in Conns : pc[c] \in {"release", "forget"} =>
    \/ UNCHANGED <<pc[c], todo[c]>>
    \/ Smaller(todo'[c], todo[c])
    \/ pc[c] = "release" /\ pc'[c] = "forget" /\ todo'[c] = todo[c]
    \/ pc[c] = "release" /\ todo[c] = {} /\ pc'[c] \in {"reply", "closed"}
    \/ crashes' # crashes

(* Session.Release: each up is tried once and nobody adds to the snapshot, so   *)
(* a Release takes at most two steps for each input its session tracks, ups     *)
(* that fail included.                                                        *)
THEOREM ReleaseIsBounded == Spec => [][ReleaseProceeds]_vars
<1>1. ASSUME IInv, Next, NEW c \in Conns, pc[c] \in {"release", "forget"}
      PROVE  \/ UNCHANGED <<pc[c], todo[c]>>
             \/ Smaller(todo'[c], todo[c])
             \/ pc[c] = "release" /\ pc'[c] = "forget" /\ todo'[c] = todo[c]
             \/ pc[c] = "release" /\ todo[c] = {} /\ pc'[c] \in {"reply", "closed"}
             \/ crashes' # crashes
  <2>0. pc \in [Conns -> Labels] /\ todo \in [Conns -> SUBSET Inputs] /\ crashes \in Int
    BY <1>1, ConstantsAssumption DEF IInv, TypeOK
  <2>1. CASE Crash
    BY <2>0, <2>1 DEF Crash
  <2>2. ASSUME NEW d \in Conns \ {c}, Accept(d) \/ Step(d) \/ Client(d)
        PROVE  UNCHANGED <<pc[c], todo[c]>>
    BY <2>0, <2>2, ZenonT(60)
       DEF Step, Client, Accept, Connect, ReadLine, KeycodeFor, Send, SendFails, Note, Window,
           ReleaseUp, ReleaseFails, Forget, ReleaseDone, Close, FreeSlot, Reply, ReplyFails,
           ScanEnds, ScanDeadline, EndLoop, Goto
  <2>3. CASE ReleaseUp(c)
    <3>1. PICK i \in Releasable(c) :
            \/ Goto(c, "forget") /\ UNCHANGED todo
            \/ todo' = [todo EXCEPT ![c] = @ \ {i}]
      BY <2>3, Zenon DEF ReleaseUp, ReleaseFails
    <3>2. i \in todo[c]
      BY <3>1 DEF Releasable
    <3>3. pc[c] = "release"
      BY <2>3 DEF ReleaseUp
    <3> QED BY <2>0, <3>1, <3>2, <3>3 DEF Goto, Smaller
  <2>4. CASE Forget(c)
    <3>1. cur[c] \in todo[c] /\ todo'[c] = todo[c] \ {cur[c]}
      BY <1>1, <2>0, <2>4, Zenon DEF Forget, IInv, Local, Located
    <3> QED BY <3>1, Zenon DEF Smaller
  <2>5. CASE ReleaseDone(c) \/ Close(c)
    BY <2>0, <2>5, Zenon DEF ReleaseDone, Close, Goto
  <2>6. CASE Accept(c) \/ Step(c) \/ Client(c)
    BY <1>1, <2>3, <2>4, <2>5, <2>6, ZenonT(60)
       DEF Step, Client, Accept, Connect, ReadLine, KeycodeFor, Send, Note, Window, FreeSlot,
           Reply, ReplyFails, ScanEnds, ScanDeadline
  <2> QED BY <1>1, <2>1, <2>2, <2>6, ZenonT(60) DEF Next
<1>2. IInv /\ [Next]_vars => [ReleaseProceeds]_vars
  BY <1>1, Zenon DEF ReleaseProceeds
<1> QED BY <1>2, Invariance, PTL DEF Spec
=============================================================================
