---------------------------- MODULE LegacyProofs ----------------------------
(***************************************************************************)
(* The legacy server for any number of connections, slots, keys, buttons    *)
(* and commands: its invariants, and that it implements LegacyInput.        *)
(***************************************************************************)
EXTENDS Legacy, FiniteSetTheorems, TLAPS

(* The type invariant in two parts, one for each kind of reasoning. *)
Flags == ws \in [Conns -> BOOLEAN] /\ gone \in [Conns -> BOOLEAN] /\ alive \in BOOLEAN
Types ==
  /\ mode \in {"tcp", "stdin"}
  /\ pc \in [Conns -> Labels]
  /\ cmd \in [Conns -> Commands \cup {NoCommand}]
  /\ at \in [Conns -> 1..6]
  /\ slots \in Int
  /\ xmu \in Conns \cup {NoConn}
  /\ down \subseteq Inputs
  /\ pointer \in (0 .. ScreenW - 1) \X (0 .. ScreenH - 1)
  /\ lines \in 0..MaxLines

(* xmu: the goroutine inside handleCommand or releaseAllHeld holds it. *)
Mutex == \A c \in Conns : pc[c] \in {"run", "release"} => xmu = c

(* The calls of a script are made in order, and each once. *)
InScript == \A c \in Conns : pc[c] = "run" => at[c] <= Len(Script(cmd[c])) + 1

(* What a modclick has done so far is still so. *)
Clicking ==
  \A c \in Conns :
    pc[c] = "run" /\ cmd[c].op = "modclick" =>
      /\ at[c] \in {2, 3, 4} => cmd[c].key \in down
      /\ at[c] \in {3, 4, 5} => pointer = OnScreen(cmd[c].to)

IInv == Flags /\ Types /\ Mutex /\ InScript /\ Clicking /\ IdleIsLifted /\ SlotsMatchServed

-----------------------------------------------------------------------------
(* Scripts. *)

LEMMA CommandTypes ==
  ASSUME NEW m \in Commands \cup {NoCommand}
  PROVE  /\ m.op \in Ops /\ m.key \in Keys \cup {NoKey} /\ m.button \in Inputs \cup {NoButton}
         /\ m.to \in Int \X Int
<1>1. CASE m \in Commands
  BY <1>1, LegacyAssumption DEF Command
<1>2. CASE m = NoCommand
  BY <1>2 DEF NoCommand, Ops
<1> QED BY <1>1, <1>2

(* No script has more than five calls, and each is an X call of a kind the   *)
(* display knows.                                                            *)
LEMMA ScriptShape ==
  ASSUME NEW m \in Commands \cup {NoCommand}
  PROVE  /\ Len(Script(m)) \in 0..5
         /\ \A k \in 1 .. Len(Script(m)) :
              \/ \E i \in Inputs \cup {NoButton} : Script(m)[k] = Press(i) \/ Script(m)[k] = Lift(i)
              \/ \E p \in Int \X Int : Script(m)[k] = Warp(p)
              \/ Script(m)[k] = LiftAll
<1>1. m.op \in Ops /\ m.key \in Keys \cup {NoKey} /\ m.button \in Inputs \cup {NoButton}
      /\ m.to \in Int \X Int
  BY CommandTypes
<1>2. m.key # NoKey => m.key \in Inputs
  BY <1>1 DEF Inputs
<1>3. CASE Script(m) = <<>>
  BY <1>3
<1>4. CASE Script(m) # <<>>
  <2>1. m.op \in {"keydown", "keyup", "key", "modclick"} => m.key \in Inputs
    BY <1>2, <1>4 DEF Script, WithKey
  <2>2. CASE m.op \in {"keydown", "keyup", "mousemove", "mousedown", "mouseup", "releaseall"}
    <3>1. CASE m.op \in {"keydown", "keyup", "mousedown", "mouseup"}
      <4>1. \E i \in Inputs \cup {NoButton} : Script(m) = <<Press(i)>> \/ Script(m) = <<Lift(i)>>
        BY <1>1, <1>4, <2>1, <3>1 DEF Script, WithKey
      <4> QED BY <4>1, SMTT(30)
    <3>2. CASE m.op \in {"mousemove", "releaseall"}
      <4>1. Script(m) = <<Warp(m.to)>> \/ Script(m) = <<LiftAll>>
        BY <3>2 DEF Script
      <4> QED BY <1>1, <4>1, SMTT(30)
    <3> QED BY <2>2, <3>1, <3>2
  <2>3. CASE m.op \in {"key", "click"}
    <3>1. \E i \in Inputs \cup {NoButton} : Script(m) = <<Press(i), Lift(i)>>
      BY <1>1, <1>4, <2>1, <2>3, SMTT(30) DEF Script, WithKey
    <3> QED BY <3>1
  <2>4. CASE m.op = "modclick"
    <3>1. Script(m) = <<Press(m.key), Warp(m.to), Press(m.button), Lift(m.button), Lift(m.key)>>
      BY <1>4, <2>4, SMTT(30) DEF Script, WithKey
    <3> QED BY <1>1, <2>1, <2>4, <3>1
  <2>5. CASE m.op \in {"none", "unknown"}
    BY <1>4, <2>5, ZenonT(60) DEF Script
  <2> QED BY <1>1, <2>2, <2>3, <2>4, <2>5 DEF Ops
<1> QED BY <1>3, <1>4

(* The pointer stays on the screen, wherever the command says. *)
LEMMA Warped ==
  ASSUME NEW p \in Int \X Int
  PROVE  OnScreen(p) \in (0 .. ScreenW - 1) \X (0 .. ScreenH - 1)
<1>1. ASSUME NEW v \in Int, NEW n \in Nat \ {0} PROVE Clamp(v, n) \in 0 .. n - 1
  BY DEF Clamp
<1>2. ASSUME NEW v \in Int PROVE CInt(v) \in Int
  BY LegacyAssumption DEF CInt
<1>3. p[1] \in Int /\ p[2] \in Int
  OBVIOUS
<1> QED BY <1>1, <1>2, <1>3, LegacyAssumption, ZenonT(60) DEF OnScreen

LEMMA Called ==
  ASSUME Types, NEW e, XCall(e),
         \/ \E i \in Inputs \cup {NoButton} : e = Press(i) \/ e = Lift(i)
         \/ \E p \in Int \X Int : e = Warp(p)
         \/ e = LiftAll
  PROVE  down' \subseteq Inputs /\ pointer' \in (0 .. ScreenW - 1) \X (0 .. ScreenH - 1)
<1>1. down' \subseteq Inputs
  BY DEF Types, XCall, Press, Lift, Warp, LiftAll
<1>2. pointer' \in (0 .. ScreenW - 1) \X (0 .. ScreenH - 1)
  BY Warped DEF Types, XCall, Press, Lift, Warp, LiftAll
<1> QED BY <1>1, <1>2

(* A modclick that is dropped has no calls, the others have these five. *)
LEMMA ModclickScript ==
  ASSUME NEW m \in Commands \cup {NoCommand}, m.op = "modclick", Len(Script(m)) > 0
  PROVE  /\ m.key \in Keys
         /\ Script(m) = <<Press(m.key), Warp(m.to), Press(m.button), Lift(m.button), Lift(m.key)>>
BY CommandTypes DEF Script, WithKey

-----------------------------------------------------------------------------
(* The initial state. *)
LEMMA InitIInv == Init => IInv
<1> SUFFICES ASSUME Init PROVE IInv
  OBVIOUS
<1> DEFINE stdin == CHOOSE c \in Conns : TRUE
<1>1. /\ mode \in {"tcp", "stdin"} /\ xmu = NoConn /\ slots = 0 /\ lines = 0
      /\ down = {} /\ pointer = <<0, 0>> /\ cmd = [c \in Conns |-> NoCommand]
      /\ at = [c \in Conns |-> 1]
      /\ pc = [c \in Conns |-> IF mode = "stdin" /\ c = stdin THEN "read" ELSE "none"]
  BY DEF Init
<1>2. Flags
  BY Zenon DEF Init, Flags
<1>3. Types
  <2>1. pc \in [Conns -> Labels]
    BY <1>1 DEF Labels
  <2>2. pointer \in (0 .. ScreenW - 1) \X (0 .. ScreenH - 1)
    BY <1>1, LegacyAssumption
  <2>3. lines \in 0..MaxLines
    BY <1>1, LegacyAssumption
  <2> QED BY <1>1, <2>1, <2>2, <2>3 DEF Types
<1>4. \A c \in Conns : pc[c] \in {"read", "none"}
  BY <1>1
<1>5. Mutex /\ InScript /\ Clicking
  BY <1>4 DEF Mutex, InScript, Clicking
<1>6. IdleIsLifted
  BY <1>1 DEF IdleIsLifted
<1>7. SlotsMatchServed
  <2> SUFFICES ASSUME mode = "tcp" PROVE slots = Cardinality(Served) /\ slots <= MaxConns
    BY DEF SlotsMatchServed
  <2>1. Served = {}
    BY <1>1 DEF Served
  <2> QED BY <1>1, <2>1, FS_EmptySet, LegacyAssumption
<1> QED BY <1>2, <1>3, <1>5, <1>6, <1>7 DEF IInv

-----------------------------------------------------------------------------
(* Steps outside the mutex. *)

(* A goroutine that is not inside the mutex moves and touches no display.    *)
LEMMA Outside ==
  ASSUME IInv, NEW c \in Conns, pc[c] \notin {"run", "release"},
         NEW l \in Labels \ {"run", "release"}, pc' = [pc EXCEPT ![c] = l],
         UNCHANGED <<mode, at, xmu, down, pointer>>,
         cmd' \in [Conns -> Commands \cup {NoCommand}], \A d \in Conns \ {c} : cmd'[d] = cmd[d],
         slots' \in Int, lines' \in 0..MaxLines
  PROVE  Types' /\ Mutex' /\ InScript' /\ Clicking'
<1>0. pc \in [Conns -> Labels] /\ Types
  BY DEF IInv, Types
<1>1. pc' \in [Conns -> Labels]
  BY <1>0
<1>2. \A d \in Conns : pc'[d] \in {"run", "release"} => d # c /\ pc[d] = pc'[d]
  BY <1>0
<1>3. Types'
  BY <1>0, <1>1 DEF Types
<1>4. Mutex'
  BY <1>2 DEF IInv, Mutex
<1>5. InScript'
  BY <1>2 DEF IInv, InScript
<1>6. Clicking'
  BY <1>2 DEF IInv, Clicking
<1> QED BY <1>3, <1>4, <1>5, <1>6

LEMMA StillLifted ==
  ASSUME IdleIsLifted, UNCHANGED <<down, alive>>, Commanding' = {} => Commanding = {}
  PROVE  IdleIsLifted'
BY DEF IdleIsLifted

LEMMA StillServed ==
  ASSUME SlotsMatchServed, UNCHANGED <<mode, slots>>, Served' = Served
  PROVE  SlotsMatchServed'
BY DEF SlotsMatchServed

LEMMA AcceptStep == ASSUME IInv, NEW c \in Conns, Accept(c) PROVE IInv'
<1>0. Flags /\ Types /\ pc \in [Conns -> Labels] /\ slots \in Int
  BY DEF IInv, Types
<1>1. /\ mode = "tcp" /\ pc[c] = "none" /\ slots < MaxConns /\ slots' = slots + 1
      /\ pc' = [pc EXCEPT ![c] = "sniff"]
      /\ UNCHANGED <<mode, ws, gone, cmd, at, xmu, down, pointer, alive, lines>>
  BY DEF Accept, SlotFree, Goto, display
<1>2. Flags'
  BY <1>0, <1>1, Zenon DEF Flags
<1>3. Types' /\ Mutex' /\ InScript' /\ Clicking'
  <2>1. slots' \in Int /\ lines' \in 0..MaxLines /\ cmd' \in [Conns -> Commands \cup {NoCommand}]
    BY <1>0, <1>1 DEF Types
  <2> QED BY <1>1, <2>1, Outside, Zenon DEF Labels
<1>4. IdleIsLifted'
  <2>1. Commanding' = Commanding
    BY <1>0, <1>1 DEF Commanding
  <2> QED BY <1>1, <2>1, StillLifted DEF IInv
<1>5. SlotsMatchServed'
  <2>1. Served' = Served \cup {c} /\ c \notin Served /\ IsFiniteSet(Served)
    <3>1. Served' = Served \cup {c} /\ c \notin Served /\ Served \subseteq Conns
      BY <1>0, <1>1 DEF Served
    <3> QED BY <3>1, FS_Subset, LegacyAssumption
  <2>2. Cardinality(Served') = Cardinality(Served) + 1
    BY <2>1, FS_AddElement, Zenon
  <2>3. slots = Cardinality(Served)
    BY <1>1 DEF IInv, SlotsMatchServed
  <2>4. slots' = Cardinality(Served') /\ slots' <= MaxConns
    BY <1>0, <1>1, <2>2, <2>3, LegacyAssumption
  <2> QED BY <2>4 DEF SlotsMatchServed
<1> QED BY <1>2, <1>3, <1>4, <1>5, SMTT(30) DEF IInv

LEMMA FreeSlotStep == ASSUME IInv, NEW c \in Conns, FreeSlot(c) PROVE IInv'
<1>0. Flags /\ Types /\ pc \in [Conns -> Labels] /\ slots \in Int
  BY DEF IInv, Types
<1>1. /\ pc[c] = "free" /\ slots' = slots - 1 /\ pc' = [pc EXCEPT ![c] = "none"]
      /\ UNCHANGED <<mode, ws, gone, cmd, at, xmu, down, pointer, alive, lines>>
  BY DEF FreeSlot, Goto, display
<1>2. Flags'
  BY <1>0, <1>1, Zenon DEF Flags
<1>3. Types' /\ Mutex' /\ InScript' /\ Clicking'
  <2>1. slots' \in Int /\ lines' \in 0..MaxLines /\ cmd' \in [Conns -> Commands \cup {NoCommand}]
    BY <1>0, <1>1 DEF Types
  <2> QED BY <1>1, <2>1, Outside, Zenon DEF Labels
<1>4. IdleIsLifted'
  <2>1. Commanding' = Commanding
    BY <1>0, <1>1 DEF Commanding
  <2> QED BY <1>1, <2>1, StillLifted DEF IInv
<1>5. SlotsMatchServed'
  <2> SUFFICES ASSUME mode = "tcp" PROVE slots' = Cardinality(Served') /\ slots' <= MaxConns
    BY <1>1 DEF SlotsMatchServed
  <2>1. Served' = Served \ {c} /\ c \in Served /\ IsFiniteSet(Served)
    <3>1. Served' = Served \ {c} /\ c \in Served /\ Served \subseteq Conns
      BY <1>0, <1>1 DEF Served
    <3> QED BY <3>1, FS_Subset, LegacyAssumption
  <2>2. Cardinality(Served') = Cardinality(Served) - 1
    BY <2>1, FS_RemoveElement, Zenon
  <2>3. slots = Cardinality(Served) /\ slots <= MaxConns
    BY DEF IInv, SlotsMatchServed
  <2> QED BY <1>0, <1>1, <2>2, <2>3, LegacyAssumption, SMTT(30)
<1> QED BY <1>2, <1>3, <1>4, <1>5 DEF IInv

(* The other steps outside the mutex: the goroutine serves its connection     *)
(* before and after them.                                                    *)
LEMMA Serving ==
  ASSUME IInv, NEW c \in Conns, pc[c] \notin {"none", "run", "release"},
         NEW l \in Labels \ {"none", "sniff", "run", "release"}, pc' = [pc EXCEPT ![c] = l], Flags',
         l \in {"close", "free"} => pc[c] \in {"sniff", "close"},
         UNCHANGED <<mode, at, slots, xmu, down, pointer, alive>>,
         cmd' \in [Conns -> Commands \cup {NoCommand}], \A d \in Conns \ {c} : cmd'[d] = cmd[d],
         lines' \in 0..MaxLines
  PROVE  IInv'
<1>0. pc \in [Conns -> Labels] /\ slots' \in Int
  BY DEF IInv, Types
<1>1. Types' /\ Mutex' /\ InScript' /\ Clicking'
  BY <1>0, Outside, ZenonT(60)
<1>2. IdleIsLifted'
  <2>1. Commanding' = {} => Commanding = {}
    BY <1>0 DEF Commanding, Labels
  <2> QED BY <2>1, StillLifted DEF IInv
<1>3. SlotsMatchServed'
  <2>1. Served' = Served
    BY <1>0 DEF Served
  <2> QED BY <2>1, StillServed DEF IInv
<1> QED BY <1>1, <1>2, <1>3 DEF IInv

LEMMA PlainStep ==
  ASSUME IInv, NEW c \in Conns,
         Handled(c) \/ Ack(c) \/ ScanEnds(c) \/ Close(c) \/ HangUp(c)
         \/ (\E upgraded \in BOOLEAN : Sniff(c, upgraded)) \/ (\E m \in Commands : ReadLine(c, m))
  PROVE  IInv'
<1>0. Flags /\ Types /\ cmd \in [Conns -> Commands \cup {NoCommand}] /\ lines \in 0..MaxLines
  BY DEF IInv, Types
<1>1. CASE Handled(c) \/ Ack(c) \/ ScanEnds(c)
  <2>1. /\ pc[c] \in {"sniff", "ack", "read"}
        /\ UNCHANGED <<mode, ws, gone, cmd, at, slots, xmu, down, pointer, alive, lines>>
        /\ \/ pc[c] = "sniff" /\ pc' = [pc EXCEPT ![c] = "close"]
           \/ pc' = [pc EXCEPT ![c] = "read"]
           \/ pc' = [pc EXCEPT ![c] = "lockrel"]
    BY <1>1 DEF Handled, Ack, ScanEnds, Goto, display
  <2>2. Flags'
    BY <1>0, <2>1, Zenon DEF Flags
  <2> QED BY <1>0, <2>1, <2>2, Serving, ZenonT(60) DEF Labels
<1>2. CASE Close(c)
  <2>1. /\ pc[c] = "close" /\ pc' = [pc EXCEPT ![c] = "free"]
        /\ gone' = [gone EXCEPT ![c] = FALSE] /\ ws' = [ws EXCEPT ![c] = FALSE]
        /\ UNCHANGED <<mode, cmd, at, slots, xmu, down, pointer, alive, lines>>
    BY <1>2 DEF Close, Goto, display
  <2>2. Flags'
    BY <1>0, <2>1, Zenon DEF Flags
  <2> QED BY <1>0, <2>1, <2>2, Serving, Zenon DEF Labels
<1>3. CASE HangUp(c)
  <2>1. /\ gone' = [gone EXCEPT ![c] = TRUE]
        /\ UNCHANGED <<mode, pc, ws, cmd, at, slots, xmu, down, pointer, alive, lines>>
    BY <1>3 DEF HangUp, display
  <2>2. Flags'
    BY <1>0, <2>1, Zenon DEF Flags
  <2>3. Types' /\ Mutex' /\ InScript' /\ Clicking'
    BY <2>1 DEF IInv, Types, Mutex, InScript, Clicking
  <2>4. IdleIsLifted' /\ SlotsMatchServed'
    <3>1. Commanding' = Commanding /\ Served' = Served
      BY <2>1 DEF Commanding, Served
    <3> QED BY <2>1, <3>1, StillLifted, StillServed DEF IInv
  <2> QED BY <2>2, <2>3, <2>4, SMTT(30) DEF IInv
<1>4. ASSUME NEW upgraded \in BOOLEAN, Sniff(c, upgraded) PROVE IInv'
  <2>1. /\ pc[c] = "sniff" /\ pc' = [pc EXCEPT ![c] = "read"]
        /\ ws' = [ws EXCEPT ![c] = upgraded]
        /\ UNCHANGED <<mode, gone, cmd, at, slots, xmu, down, pointer, alive, lines>>
    BY <1>4 DEF Sniff, Goto, display
  <2>2. Flags'
    BY <1>0, <2>1, Zenon DEF Flags
  <2> QED BY <1>0, <2>1, <2>2, Serving, Zenon DEF Labels
<1>5. ASSUME NEW m \in Commands, ReadLine(c, m) PROVE IInv'
  <2>1. /\ pc[c] = "read" /\ lines < MaxLines /\ lines' = lines + 1
        /\ cmd' = [cmd EXCEPT ![c] = m]
        /\ UNCHANGED <<mode, ws, gone, at, slots, xmu, down, pointer, alive>>
        /\ \/ pc' = [pc EXCEPT ![c] = "read"]
           \/ pc' = [pc EXCEPT ![c] = "ack"]
           \/ pc' = [pc EXCEPT ![c] = "lock"]
    <3>1. AfterLine(c) \in {"read", "ack"}
      BY DEF AfterLine
    <3> QED BY <1>5, <3>1, Zenon DEF ReadLine, Goto, display
  <2>2. Flags'
    BY <1>0, <2>1, Zenon DEF Flags
  <2>3. /\ lines' \in 0..MaxLines /\ cmd' \in [Conns -> Commands \cup {NoCommand}]
        /\ \A d \in Conns \ {c} : cmd'[d] = cmd[d]
    BY <1>0, <2>1, LegacyAssumption
  <2> QED BY <2>1, <2>2, <2>3, Serving DEF Labels
<1> QED BY <1>1, <1>2, <1>3, <1>4, <1>5, SMTT(30)

-----------------------------------------------------------------------------
(* Steps into, inside and out of the mutex. *)

(* Where nobody else is inside, the calls of c concern c alone. *)
LEMMA Alone ==
  ASSUME Mutex, Types, NEW c \in Conns, xmu \in {c, NoConn}, NEW d \in Conns \ {c}
  PROVE  pc[d] \notin {"run", "release"}
BY LegacyAssumption DEF Mutex

LEMMA LockStep == ASSUME IInv, NEW c \in Conns, Lock(c) PROVE IInv'
<1>0. Flags /\ Types /\ Mutex /\ pc \in [Conns -> Labels] /\ at \in [Conns -> 1..6]
      /\ cmd \in [Conns -> Commands \cup {NoCommand}]
  BY DEF IInv, Types
<1>1. /\ pc[c] = "lock" /\ xmu = NoConn /\ xmu' = c /\ at' = [at EXCEPT ![c] = 1]
      /\ pc' = [pc EXCEPT ![c] = "run"]
      /\ UNCHANGED <<mode, ws, gone, cmd, slots, down, pointer, alive, lines>>
  BY DEF Lock, XmuFree, Goto, display
<1>2. Flags'
  BY <1>0, <1>1, Zenon DEF Flags
<1>3. \A d \in Conns : pc'[d] \in {"run", "release"} => d = c /\ at'[d] = 1
  BY <1>0, <1>1, Alone, SMTT(30)
<1>4. Types'
  BY <1>0, <1>1, SMTT(30) DEF Types, Labels
<1>5. Mutex' /\ Clicking'
  BY <1>1, <1>3 DEF Mutex, Clicking
<1>6. InScript'
  <2>1. Len(Script(cmd[c])) \in Nat
    BY <1>0, ScriptShape, SMTT(30)
  <2> QED BY <1>1, <1>3, <2>1, SMTT(30) DEF InScript
<1>7. IdleIsLifted' /\ SlotsMatchServed'
  <2>1. Commanding' = Commanding /\ Served' = Served
    BY <1>0, <1>1 DEF Commanding, Served
  <2> QED BY <1>1, <2>1, StillLifted, StillServed, SMTT(30) DEF IInv
<1> QED BY <1>2, <1>4, <1>5, <1>6, <1>7 DEF IInv

LEMMA LockReleaseStep == ASSUME IInv, NEW c \in Conns, LockRelease(c) PROVE IInv'
<1>0. Flags /\ Types /\ Mutex /\ pc \in [Conns -> Labels]
  BY DEF IInv, Types
<1>1. /\ pc[c] = "lockrel" /\ xmu = NoConn /\ xmu' = c
      /\ pc' = [pc EXCEPT ![c] = "release"]
      /\ UNCHANGED <<mode, ws, gone, cmd, at, slots, down, pointer, alive, lines>>
  BY DEF LockRelease, XmuFreeToRelease, Goto, display
<1>2. Flags'
  BY <1>0, <1>1, Zenon DEF Flags
<1>3. \A d \in Conns : (pc'[d] \in {"run", "release"} => d = c) /\ pc'[d] # "run"
  BY <1>0, <1>1, Alone, Zenon
<1>4. Types'
  BY <1>0, <1>1, ZenonT(60) DEF Types, Labels
<1>5. Mutex' /\ Clicking' /\ InScript'
  BY <1>1, <1>3 DEF Mutex, Clicking, InScript
<1>6. IdleIsLifted' /\ SlotsMatchServed'
  <2>1. Commanding' = Commanding /\ Served' = Served
    BY <1>0, <1>1 DEF Commanding, Served
  <2> QED BY <1>1, <2>1, StillLifted, StillServed DEF IInv
<1> QED BY <1>2, <1>4, <1>5, <1>6, SMTT(30) DEF IInv

(* The modifier of a modclick goes down first and up last, with the warp      *)
(* and the button between.                                                   *)
LEMMA RunStep == ASSUME IInv, NEW c \in Conns, Run(c) PROVE IInv'
<1>0. Flags /\ Types /\ Mutex /\ pc \in [Conns -> Labels] /\ at \in [Conns -> 1..6]
      /\ cmd[c] \in Commands \cup {NoCommand} /\ down \subseteq Inputs
  BY DEF IInv, Types
<1> DEFINE calls == Script(cmd[c])
<1>1. /\ pc[c] = "run" /\ at[c] <= Len(calls) /\ XCall(calls[at[c]])
      /\ at' = [at EXCEPT ![c] = at[c] + 1]
      /\ UNCHANGED <<mode, pc, ws, gone, cmd, slots, xmu, alive, lines>>
  BY DEF Run
<1>2. Flags'
  BY <1>0, <1>1, Zenon DEF Flags
<1>3. \A d \in Conns : pc[d] \in {"run", "release"} => d = c
  BY <1>0, <1>1, Alone, ZenonT(60) DEF Mutex
<1>4. Len(calls) \in 0..5 /\ at[c] \in 1 .. Len(calls) /\ at'[c] = at[c] + 1
      /\ at' \in [Conns -> 1..6]
  BY <1>0, <1>1, ScriptShape, SMTT(30)
<1>5. Types'
  <2>1. down' \subseteq Inputs /\ pointer' \in (0 .. ScreenW - 1) \X (0 .. ScreenH - 1)
    <3> HIDE DEF calls
    <3>1. \/ \E i \in Inputs \cup {NoButton} : calls[at[c]] = Press(i) \/ calls[at[c]] = Lift(i)
          \/ \E p \in Int \X Int : calls[at[c]] = Warp(p)
          \/ calls[at[c]] = LiftAll
      BY <1>0, <1>4, ScriptShape, Zenon DEF calls
    <3> QED BY <1>0, <1>1, <3>1, Called, Zenon
  <2> QED BY <1>0, <1>1, <1>4, <2>1, Zenon DEF Types
<1>6. Mutex' /\ InScript'
  BY <1>0, <1>1, <1>3, <1>4, SMTT(30) DEF Mutex, InScript
<1>7. Clicking'
  <2> SUFFICES ASSUME cmd[c].op = "modclick"
               PROVE  /\ at'[c] \in {2, 3, 4} => cmd[c].key \in down'
                      /\ at'[c] \in {3, 4, 5} => pointer' = OnScreen(cmd[c].to)
    BY <1>1, <1>3, SMTT(30) DEF Clicking
  <2>1. /\ cmd[c].key \in Inputs
        /\ calls = <<Press(cmd[c].key), Warp(cmd[c].to), Press(cmd[c].button),
                     Lift(cmd[c].button), Lift(cmd[c].key)>>
    <3>1. Len(calls) > 0
      BY <1>4
    <3>2. cmd[c].key \in Keys
          /\ calls = <<Press(cmd[c].key), Warp(cmd[c].to), Press(cmd[c].button),
                       Lift(cmd[c].button), Lift(cmd[c].key)>>
      BY <1>0, <3>1, ModclickScript, Zenon
    <3> QED BY <3>2, ZenonT(60) DEF Inputs
  <2>2. /\ at[c] \in {2, 3, 4} => cmd[c].key \in down
        /\ at[c] \in {3, 4, 5} => pointer = OnScreen(cmd[c].to)
    BY <1>1, ZenonT(60) DEF IInv, Clicking
  <2> HIDE DEF calls
  <2>3. CASE at[c] = 1
    <3>1. XCall(Press(cmd[c].key))
      BY <1>1, <2>1, <2>3
    <3>2. down' = down \cup ({cmd[c].key} \cap Inputs)
      BY <3>1 DEF XCall, Press
    <3> QED BY <1>4, <2>1, <2>3, <3>2, SMTT(30)
  <2>4. CASE at[c] = 2
    <3>1. XCall(Warp(cmd[c].to))
      BY <1>1, <2>1, <2>4
    <3>2. down' = down /\ pointer' = OnScreen(cmd[c].to)
      BY <3>1, SMTT(30) DEF XCall, Warp
    <3> QED BY <2>2, <2>4, <3>2, Zenon
  <2>5. CASE at[c] = 3
    <3>1. XCall(Press(cmd[c].button))
      BY <1>1, <2>1, <2>5
    <3>2. down' = down \cup ({cmd[c].button} \cap Inputs) /\ pointer' = pointer
      BY <3>1, SMTT(30) DEF XCall, Press
    <3> QED BY <2>2, <2>5, <3>2, Zenon
  <2>6. CASE at[c] = 4
    <3>1. XCall(Lift(cmd[c].button))
      BY <1>1, <2>1, <2>6
    <3>2. pointer' = pointer
      BY <3>1, SMTT(30) DEF XCall, Lift
    <3> QED BY <1>4, <2>2, <2>6, <3>2, SMTT(30)
  <2>7. CASE at[c] = 5
    BY <1>4, <2>7, SMTT(30)
  <2>8. Len(calls) = 5
    BY <2>1, SMTT(30)
  <2>9. at[c] = 1 \/ at[c] = 2 \/ at[c] = 3 \/ at[c] = 4 \/ at[c] = 5
    BY <1>4, <2>8
  <2> QED BY <2>3, <2>4, <2>5, <2>6, <2>7, <2>9, ZenonT(60)
<1>8. IdleIsLifted' /\ SlotsMatchServed'
  <2>1. c \in Commanding' /\ Served' = Served
    BY <1>1, SMTT(30) DEF Commanding, Served
  <2> QED BY <1>1, <2>1, StillServed, Zenon DEF IInv, IdleIsLifted
<1> QED BY <1>2, <1>5, <1>6, <1>7, <1>8, SMTT(30) DEF IInv

LEMMA UnlockStep == ASSUME IInv, NEW c \in Conns, Unlock(c) PROVE IInv'
<1>0. Flags /\ Types /\ Mutex /\ pc \in [Conns -> Labels] /\ at \in [Conns -> 1..6]
      /\ cmd \in [Conns -> Commands \cup {NoCommand}]
  BY DEF IInv, Types
<1>1. /\ pc[c] = "run" /\ xmu' = NoConn /\ cmd' = [cmd EXCEPT ![c] = NoCommand]
      /\ at' = [at EXCEPT ![c] = 1]
      /\ UNCHANGED <<mode, ws, gone, slots, down, pointer, alive, lines>>
      /\ \E l \in {"read", "ack"} : pc' = [pc EXCEPT ![c] = l]
  <2>1. AfterLine(c) \in {"read", "ack"}
    BY DEF AfterLine
  <2> QED BY <2>1, ZenonT(60) DEF Unlock, Goto, display
<1>2. Flags'
  BY <1>0, <1>1, Zenon DEF Flags
<1>3. \A d \in Conns : pc'[d] \notin {"run", "release"}
  BY <1>0, <1>1, Alone, SMTT(30) DEF Mutex
<1>4. Types'
  BY <1>0, <1>1 DEF Types, Labels
<1>5. Mutex' /\ Clicking' /\ InScript'
  BY <1>3 DEF Mutex, Clicking, InScript
<1>6. IdleIsLifted' /\ SlotsMatchServed'
  <2>1. Commanding' = Commanding /\ Served' = Served
    BY <1>0, <1>1 DEF Commanding, Served
  <2> QED BY <1>1, <2>1, StillLifted, StillServed, Zenon DEF IInv
<1> QED BY <1>2, <1>4, <1>5, <1>6 DEF IInv

LEMMA ReleaseStep == ASSUME IInv, NEW c \in Conns, Release(c) PROVE IInv'
<1>0. Flags /\ Types /\ Mutex /\ pc \in [Conns -> Labels] /\ down \subseteq Inputs
      /\ mode \in {"tcp", "stdin"}
  BY DEF IInv, Types
<1>1. /\ pc[c] = "release" /\ xmu' = NoConn /\ XCall(LiftAll)
      /\ UNCHANGED <<mode, ws, gone, cmd, at, slots, lines>>
      /\ \/ mode = "stdin" /\ pc' = [pc EXCEPT ![c] = "none"] /\ alive' = FALSE
         \/ mode # "stdin" /\ pc' = [pc EXCEPT ![c] = "close"] /\ alive' = alive
  BY DEF Release, Goto
<1>2. down' = down \ Liftable /\ pointer' = pointer
  BY <1>1 DEF XCall, LiftAll
<1>3. Flags'
  BY <1>0, <1>1, Zenon DEF Flags
<1>4. \A d \in Conns : pc'[d] \notin {"run", "release"}
  BY <1>0, <1>1, Alone, SMTT(30) DEF Mutex
<1>5. Types'
  BY <1>0, <1>1, <1>2, SMTT(30) DEF Types, Labels
<1>6. Mutex' /\ Clicking' /\ InScript'
  BY <1>4 DEF Mutex, Clicking, InScript
<1>7. IdleIsLifted'
  BY <1>0, <1>2 DEF IdleIsLifted, Inputs, Liftable
<1>8. SlotsMatchServed'
  <2> SUFFICES ASSUME mode = "tcp" PROVE SlotsMatchServed'
    BY <1>1, SMTT(30) DEF SlotsMatchServed
  <2>1. Served' = Served
    BY <1>0, <1>1 DEF Served
  <2> QED BY <1>1, <2>1, StillServed, SMTT(30) DEF IInv
<1> QED BY <1>3, <1>5, <1>6, <1>7, <1>8, Zenon DEF IInv

LEMMA ExitStep == ASSUME IInv, Exit PROVE IInv'
<1>0. Flags /\ Types
  BY DEF IInv
<1>1. /\ alive' = FALSE /\ pc' = [c \in Conns |-> "none"] /\ cmd' = [c \in Conns |-> NoCommand]
      /\ at' = [c \in Conns |-> 1] /\ xmu' = NoConn /\ slots' = 0
      /\ UNCHANGED <<mode, down, pointer, lines>>
  BY DEF Exit, display
<1>2. Flags'
  BY Zenon DEF Exit, Flags
<1>3. Types'
  BY <1>0, <1>1, SMTT(30) DEF Types, Labels
<1>4. Mutex' /\ Clicking' /\ InScript'
  BY <1>1 DEF Mutex, Clicking, InScript
<1>5. IdleIsLifted'
  BY <1>1 DEF IdleIsLifted
<1>6. SlotsMatchServed'
  <2>1. Served' = {}
    BY <1>1 DEF Served
  <2> QED BY <1>1, <2>1, FS_EmptySet, LegacyAssumption, SMTT(30) DEF SlotsMatchServed
<1> QED BY <1>2, <1>3, <1>4, <1>5, <1>6, SMTT(30) DEF IInv

LEMMA NextIInv == ASSUME IInv, [Next]_vars PROVE IInv'
<1>1. CASE UNCHANGED vars
  <2>1. UNCHANGED <<mode, pc, ws, gone, cmd, at, slots, xmu, down, pointer, alive, lines>>
    BY <1>1 DEF vars, conn, display
  <2>2. Flags' /\ Types' /\ Mutex'
    BY <2>1, Zenon DEF IInv, Flags, Types, Mutex
  <2>3. InScript' /\ Clicking'
    BY <2>1, Zenon DEF IInv, InScript, Clicking
  <2>4. IdleIsLifted' /\ SlotsMatchServed'
    <3>1. Commanding' = Commanding /\ Served' = Served
      BY <2>1 DEF Commanding, Served
    <3> QED BY <2>1, <3>1, StillLifted, StillServed, SMTT(30) DEF IInv
  <2> QED BY <2>2, <2>3, <2>4, SMTT(30) DEF IInv
<1>2. ASSUME NEW c \in Conns, Step(c) \/ Lock(c) \/ LockRelease(c) \/ Peer(c) PROVE IInv'
  <2>1. CASE Step(c)
    BY <2>1, RunStep, UnlockStep, ReleaseStep, FreeSlotStep, PlainStep, SMTT(30) DEF Step
  <2>2. CASE Peer(c)
    BY <2>2, AcceptStep, PlainStep DEF Peer
  <2> QED BY <1>2, <2>1, <2>2, LockStep, LockReleaseStep, ZenonT(60)
<1>3. CASE Exit
  BY <1>3, ExitStep
<1> QED BY <1>1, <1>2, <1>3 DEF Next

(* The invariant is inductive: xmu holds off every other goroutine while a    *)
(* command or a release runs, and a slot goes with every served connection.   *)
THEOREM LegacyInvariant == Spec => []IInv
BY InitIInv, NextIInv, PTL DEF Spec

(* Every variable has its type and, whatever coordinates a command names and  *)
(* however wide Go's int is, move_mouse leaves the pointer on the screen.     *)
THEOREM LegacyTypeCorrect == Spec => []TypeOK
<1>1. IInv => TypeOK
  BY Zenon DEF IInv, Flags, Types, TypeOK
<1> QED BY <1>1, LegacyInvariant, PTL

(* serveTCP: for any number of clients and any maxConns, the slots taken are   *)
(* the connections served, and never more than the limit.                    *)
THEOREM LegacySlots == Spec => []SlotsMatchServed
<1>1. IInv => SlotsMatchServed
  BY DEF IInv
<1> QED BY <1>1, LegacyInvariant, PTL

(* handleCommand: for any clients and commands, a modclick finds its modifier  *)
(* down and the pointer at its target when it presses and lifts its button.   *)
THEOREM LegacyModclick == Spec => []ModclickIsWhole
<1>1. IInv => ModclickIsWhole
  BY DEF IInv, Clicking, ModclickIsWhole
<1> QED BY <1>1, LegacyInvariant, PTL

(* serveTCP's releaseAllHeld: for any clients and commands, once nobody is     *)
(* left who may send commands, no key and no button up to 3 is down.          *)
THEOREM LegacyIdle == Spec => []IdleIsLifted
<1>1. IInv => IdleIsLifted
  BY DEF IInv
<1> QED BY <1>1, LegacyInvariant, PTL

-----------------------------------------------------------------------------
(* Module Legacy implements module LegacyInput.  A command is seen when it    *)
(* gets xmu, a connection leaves when releaseAllHeld gets it; the X calls      *)
(* that follow are stuttering steps.                                         *)

(* The refinement needs to know a little more: a mutex that is taken has a    *)
(* holder inside, a command that waits or runs was read, and standard input   *)
(* has no second connection.                                                 *)
Holder == xmu # NoConn => pc[xmu] \in {"run", "release"}
Loaded == \A c \in Conns : pc[c] \in {"lock", "run"} => cmd[c] \in Commands
Single == mode = "stdin" => \A c, d \in Conns : pc[c] # "none" /\ pc[d] # "none" => c = d
RInv == Holder /\ Loaded /\ Single

LEMMA InitRInv == Init => RInv
<1> SUFFICES ASSUME Init PROVE RInv
  OBVIOUS
<1> DEFINE stdin == CHOOSE c \in Conns : TRUE
<1>1. /\ xmu = NoConn
      /\ pc = [c \in Conns |-> IF mode = "stdin" /\ c = stdin THEN "read" ELSE "none"]
  BY DEF Init
<1> HIDE DEF stdin
<1> QED BY <1>1 DEF RInv, Holder, Loaded, Single

LEMMA NextRInv == ASSUME IInv, RInv, [Next]_vars PROVE RInv'
<1>0. /\ pc \in [Conns -> Labels] /\ cmd \in [Conns -> Commands \cup {NoCommand}]
      /\ xmu \in Conns \cup {NoConn} /\ mode \in {"tcp", "stdin"}
      /\ Mutex /\ Holder /\ Loaded /\ Single
  BY DEF IInv, Types, RInv
<1>1. CASE UNCHANGED vars
  BY <1>0, <1>1, ZenonT(60) DEF vars, conn, RInv, Holder, Loaded, Single
<1>2. ASSUME NEW c \in Conns, Accept(c) PROVE RInv'
  BY <1>0, <1>2, ZenonT(60) DEF Accept, Goto, RInv, Holder, Loaded, Single
<1>3. ASSUME NEW c \in Conns, NEW l \in {"none", "read", "ack", "close", "free", "lockrel"},
             pc[c] \in {"sniff", "read", "ack", "close", "free"}, pc' = [pc EXCEPT ![c] = l],
             UNCHANGED <<mode, cmd, xmu>>
      PROVE  RInv'
  BY <1>0, <1>3, ZenonT(60) DEF RInv, Holder, Loaded, Single
<1>4. ASSUME NEW c \in Conns, NEW m \in Commands, ReadLine(c, m) PROVE RInv'
  <2>1. AfterLine(c) \in {"read", "ack"}
    BY DEF AfterLine
  <2> QED BY <1>0, <1>4, <2>1 DEF ReadLine, Goto, RInv, Holder, Loaded, Single
<1>5. ASSUME NEW c \in Conns, HangUp(c) PROVE RInv'
  BY <1>0, <1>5, ZenonT(60) DEF HangUp, RInv, Holder, Loaded, Single
<1>6. ASSUME NEW c \in Conns, Lock(c) \/ LockRelease(c) PROVE RInv'
  BY <1>0, <1>6, ZenonT(60) DEF Lock, LockRelease, Goto, RInv, Holder, Loaded, Single
<1>7. ASSUME NEW c \in Conns, Run(c) PROVE RInv'
  BY <1>0, <1>7, Zenon DEF Run, RInv, Holder, Loaded, Single
<1>8. ASSUME NEW c \in Conns, Unlock(c) PROVE RInv'
  <2>1. AfterLine(c) \in {"read", "ack"}
    BY SMTT(30) DEF AfterLine
  <2> QED BY <1>0, <1>8, <2>1 DEF Unlock, Goto, RInv, Holder, Loaded, Single
<1>9. ASSUME NEW c \in Conns, Release(c) PROVE RInv'
  <2>1. /\ pc[c] = "release" /\ xmu' = NoConn /\ UNCHANGED <<mode, cmd>>
        /\ pc' = [pc EXCEPT ![c] = "none"] \/ pc' = [pc EXCEPT ![c] = "close"]
    BY <1>9, ZenonT(60) DEF Release, Goto
  <2> QED BY <1>0, <2>1 DEF RInv, Holder, Loaded, Single
<1>10. CASE Exit
  BY <1>10, Zenon DEF Exit, RInv, Holder, Loaded, Single
<1>11. ASSUME NEW c \in Conns, Handled(c) \/ Ack(c) \/ ScanEnds(c) PROVE RInv'
  BY <1>3, <1>11, ZenonT(60) DEF Handled, Ack, ScanEnds, Goto
<1>12. ASSUME NEW c \in Conns, Close(c) \/ FreeSlot(c) PROVE RInv'
  BY <1>3, <1>12 DEF Close, FreeSlot, Goto
<1>13. ASSUME NEW c \in Conns, NEW upgraded \in BOOLEAN, Sniff(c, upgraded) PROVE RInv'
  BY <1>3, <1>13, ZenonT(60) DEF Sniff, Goto
<1>14. ASSUME NEW c \in Conns, Step(c) \/ Lock(c) \/ LockRelease(c) \/ Peer(c) PROVE RInv'
  BY <1>2, <1>4, <1>5, <1>6, <1>7, <1>8, <1>9, <1>11, <1>12, <1>13, <1>14, ZenonT(60) DEF Step, Peer
<1> QED BY <1>1, <1>10, <1>14, SMTT(30) DEF Next

-----------------------------------------------------------------------------
(* What the calls of a script come to. *)

LEMMA CallsDiffer ==
  /\ \A i, j : (Press(i) = Press(j) <=> i = j) /\ (Lift(i) = Lift(j) <=> i = j)
  /\ \A i, j : Press(i) # Lift(j) /\ Press(i) # Warp(j) /\ Lift(i) # Warp(j)
  /\ \A i : Press(i) # LiftAll /\ Lift(i) # LiftAll /\ Warp(i) # LiftAll
  /\ \A i : Press(i).act = "press" /\ Lift(i).act = "lift" /\ Warp(i).act = "warp"
  /\ \A i : Press(i).on = i /\ Lift(i).on = i /\ Warp(i).on = i
  /\ LiftAll.act = "liftall"
BY DEF Press, Lift, Warp, LiftAll

(* One call. *)
Applied(d, e) ==
  CASE e.act = "press"   -> d \cup ({e.on} \cap Inputs)
    [] e.act = "lift"    -> d \ {e.on}
    [] e.act = "liftall" -> d \ Liftable
    [] OTHER             -> d

LEMMA NothingLeft ==
  ASSUME NEW d, NEW calls, Len(calls) \in Nat, NEW n \in Nat, n > Len(calls)
  PROVE  Finished(d, calls, n) = d /\ ~WillWarp(calls, n)
BY SMTT(30) DEF Finished, WillWarp

LEMMA OneLeft ==
  ASSUME NEW d \in SUBSET Inputs, NEW calls, NEW n \in Nat, Len(calls) = n,
         \/ \E i \in Inputs \cup {NoButton} : calls[n] = Press(i) \/ calls[n] = Lift(i)
         \/ \E p \in Int \X Int : calls[n] = Warp(p)
         \/ calls[n] = LiftAll
  PROVE  Finished(d, calls, n) = Applied(d, calls[n])
<1>1. \A k : k \in n .. n <=> k = n
  OBVIOUS
<1>2. \A j \in n + 1 .. n : FALSE
  BY SMTT(30)
<1>3. Finished(d, calls, n) =
        (d \ ({i \in Inputs : calls[n] = Lift(i)}
              \cup (IF calls[n].act = "liftall" THEN Liftable ELSE {})))
        \cup {i \in Inputs : calls[n] = Press(i)}
  BY <1>1, <1>2 DEF Finished
<1>4. CASE \E i \in Inputs \cup {NoButton} : calls[n] = Press(i)
  BY <1>3, <1>4, CallsDiffer DEF Applied
<1>5. CASE \E i \in Inputs \cup {NoButton} : calls[n] = Lift(i)
  BY <1>3, <1>5, CallsDiffer, SMTT(30) DEF Applied
<1>6. CASE \E p \in Int \X Int : calls[n] = Warp(p)
  BY <1>3, <1>6, CallsDiffer DEF Applied
<1>7. CASE calls[n] = LiftAll
  BY <1>3, <1>7, CallsDiffer, SMTT(30) DEF Applied
<1> QED BY <1>4, <1>5, <1>6, <1>7

(* Press and lift. *)
LEMMA Tap ==
  ASSUME NEW d \in SUBSET Inputs, NEW i \in Inputs \cup {NoButton}
  PROVE  Finished(d, <<Press(i), Lift(i)>>, 1) = d \ {i}
<1> DEFINE calls == <<Press(i), Lift(i)>>
<1>1. Len(calls) = 2 /\ calls[1] = Press(i) /\ calls[2] = Lift(i)
  BY ZenonT(60)
<1> HIDE DEF calls
<1>2. {j \in Inputs : \E k \in 1 .. Len(calls) : calls[k] = Lift(j)} = {i} \cap Inputs
  BY <1>1, CallsDiffer, SMTT(30)
<1>3. {j \in Inputs : \E k \in 1 .. Len(calls) :
         calls[k] = Press(j) /\ \A l \in k + 1 .. Len(calls) : calls[l] # Lift(j)} = {}
  BY <1>1, CallsDiffer, SMTT(30)
<1>4. ~\E k \in 1 .. Len(calls) : calls[k].act = "liftall"
  BY <1>1, CallsDiffer
<1>5. Finished(d, calls, 1) = d \ {i}
  BY <1>2, <1>3, <1>4, ZenonT(60) DEF Finished
<1> QED BY <1>5 DEF calls

(* A modclick, whole or with its first calls made. *)
LEMMA ModclickLeft ==
  ASSUME NEW d \in SUBSET Inputs, NEW m, NEW calls,
         calls = <<Press(m.key), Warp(m.to), Press(m.button), Lift(m.button), Lift(m.key)>>,
         NEW n \in 1 .. 4
  PROVE  Finished(d, calls, n) = d \ {m.key, m.button}
<1>1. /\ Len(calls) = 5 /\ calls[1] = Press(m.key) /\ calls[2] = Warp(m.to)
      /\ calls[3] = Press(m.button) /\ calls[4] = Lift(m.button) /\ calls[5] = Lift(m.key)
  BY ZenonT(60)
<1>2. {j \in Inputs : \E k \in n .. Len(calls) : calls[k] = Lift(j)} = {m.key, m.button} \cap Inputs
  BY <1>1, CallsDiffer, SMTT(30)
<1>3. {j \in Inputs : \E k \in n .. Len(calls) :
         calls[k] = Press(j) /\ \A l \in k + 1 .. Len(calls) : calls[l] # Lift(j)} = {}
  BY <1>1, CallsDiffer, SMTT(30)
<1>4. ~\E k \in n .. Len(calls) : calls[k].act = "liftall"
  BY <1>1, CallsDiffer, SMTT(30)
<1> QED BY <1>2, <1>3, <1>4, Zenon DEF Finished

LEMMA ScriptForms ==
  ASSUME NEW m \in Commands \cup {NoCommand}
  PROVE  \/ Len(Script(m)) = 0
         \/ Len(Script(m)) = 1
         \/ \E i \in Inputs \cup {NoButton} : Script(m) = <<Press(i), Lift(i)>>
         \/ Script(m) = <<Press(m.key), Warp(m.to), Press(m.button), Lift(m.button), Lift(m.key)>>
<1>1. m.op \in Ops /\ m.key \in Keys \cup {NoKey} /\ m.button \in Inputs \cup {NoButton}
  BY CommandTypes
<1>2. CASE m.op \in {"key", "click"}
  <2>1. m.key # NoKey => m.key \in Inputs
    BY <1>1 DEF Inputs
  <2> QED BY <1>1, <1>2, <2>1, ZenonT(60) DEF Script, WithKey
<1>3. CASE m.op = "modclick"
  BY <1>3, SMTT(30) DEF Script, WithKey
<1>4. CASE m.op \notin {"key", "click", "modclick"}
  BY <1>1, <1>4, ZenonT(60) DEF Script, WithKey, Ops
<1> QED BY <1>2, <1>3, <1>4, SMTT(30)

LEMMA WarpsTo ==
  ASSUME NEW m \in Commands \cup {NoCommand}, NEW k \in 1 .. Len(Script(m)),
         Script(m)[k].act = "warp"
  PROVE  Script(m)[k].on = m.to
<1>1. m.op \in Ops
  BY CommandTypes, SMTT(30)
<1>2. CASE m.op = "modclick"
  BY <1>2, CallsDiffer, SMTT(30) DEF Script, WithKey
<1>3. CASE m.op # "modclick"
  BY <1>1, <1>3, CallsDiffer, SMTT(30) DEF Script, WithKey, Ops
<1> QED BY <1>2, <1>3, SMTT(30)

(* Making a call and then the rest is what was to be done. *)
LEMMA CallThenRest ==
  ASSUME NEW m \in Commands \cup {NoCommand}, NEW d \in SUBSET Inputs,
         NEW n \in 1 .. Len(Script(m))
  PROVE  Finished(Applied(d, Script(m)[n]), Script(m), n + 1) = Finished(d, Script(m), n)
<1> DEFINE calls == Script(m)
<1>1. Len(calls) \in Nat /\ n \in Nat /\ n >= 1 /\ n <= Len(calls)
  BY ScriptShape, SMTT(30)
<1>2. ASSUME NEW k \in 1 .. Len(calls)
      PROVE  \/ \E i \in Inputs \cup {NoButton} : calls[k] = Press(i) \/ calls[k] = Lift(i)
             \/ \E p \in Int \X Int : calls[k] = Warp(p)
             \/ calls[k] = LiftAll
  BY ScriptShape
<1>3. \/ Len(calls) = 0
      \/ Len(calls) = 1
      \/ \E i \in Inputs \cup {NoButton} : calls = <<Press(i), Lift(i)>>
      \/ calls = <<Press(m.key), Warp(m.to), Press(m.button), Lift(m.button), Lift(m.key)>>
  BY ScriptForms, Zenon
<1> HIDE DEF calls
<1>4. Applied(d, calls[n]) \in SUBSET Inputs
  BY SMTT(30) DEF Applied
<1>5. CASE n = Len(calls)
  <2>1. Finished(Applied(d, calls[n]), calls, n + 1) = Applied(d, calls[n])
    BY <1>1, <1>5, NothingLeft, SMTT(30)
  <2>2. Finished(d, calls, n) = Applied(d, calls[n])
    <3>1. n \in 1 .. Len(calls)
      BY <1>1
    <3> QED BY <1>1, <1>2, <1>5, <3>1, OneLeft, ZenonT(60)
  <2> QED BY <2>1, <2>2 DEF calls
<1>6. ASSUME n < Len(calls), NEW i \in Inputs \cup {NoButton}, calls = <<Press(i), Lift(i)>>
      PROVE  Finished(Applied(d, calls[n]), calls, n + 1) = Finished(d, calls, n)
  <2>1. n = 1 /\ Len(calls) = 2 /\ calls[1] = Press(i) /\ calls[2] = Lift(i)
    BY <1>1, <1>6, SMTT(30)
  <2>2. Applied(d, calls[1]) = d \cup ({i} \cap Inputs)
    BY <2>1, CallsDiffer DEF Applied
  <2>3. Finished(Applied(d, calls[1]), calls, 2) = Applied(Applied(d, calls[1]), calls[2])
    BY <1>4, <2>1, OneLeft, ZenonT(60)
  <2>4. Finished(Applied(d, calls[1]), calls, 2) = (d \cup ({i} \cap Inputs)) \ {i}
    BY <2>1, <2>2, <2>3, CallsDiffer DEF Applied
  <2>5. Finished(d, calls, 1) = d \ {i}
    BY <1>6, Tap, SMTT(30)
  <2>6. n + 1 = 2
    BY <2>1, SMTT(30)
  <2> QED BY <2>1, <2>4, <2>5, <2>6, ZenonT(60)
<1>7. ASSUME n < Len(calls),
             calls = <<Press(m.key), Warp(m.to), Press(m.button), Lift(m.button), Lift(m.key)>>
      PROVE  Finished(Applied(d, calls[n]), calls, n + 1) = Finished(d, calls, n)
  <2>1. /\ Len(calls) = 5 /\ calls[1] = Press(m.key) /\ calls[2] = Warp(m.to)
        /\ calls[3] = Press(m.button) /\ calls[4] = Lift(m.button) /\ calls[5] = Lift(m.key)
    BY <1>7, ZenonT(60)
  <2>2. n \in 1 .. 4
    BY <1>1, <1>7, <2>1, SMTT(30)
  <2>3. Finished(d, calls, n) = d \ {m.key, m.button}
    BY <1>7, <2>2, ModclickLeft, ZenonT(60)
  <2>4. CASE n = 4
    <3>1. Finished(Applied(d, calls[4]), calls, 5) = Applied(Applied(d, calls[4]), calls[5])
      <4>1. \E i \in Inputs \cup {NoButton} : calls[5] = Lift(i)
        BY <1>2, <2>1, CallsDiffer
      <4>2. Applied(d, calls[4]) \in SUBSET Inputs /\ 5 \in Nat
        BY <1>4, <2>4, ZenonT(60)
      <4> QED BY <2>1, <4>1, <4>2, OneLeft, ZenonT(60)
    <3>2. Applied(Applied(d, calls[4]), calls[5]) = (d \ {m.button}) \ {m.key}
      BY <2>1, CallsDiffer DEF Applied
    <3>3. n + 1 = 5
      BY <2>4, SMTT(30)
    <3> QED BY <2>3, <2>4, <3>1, <3>2, <3>3, SMTT(30)
  <2>5. CASE n \in 1 .. 3
    <3>1. n + 1 \in 1 .. 4
      BY <2>5, SMTT(30)
    <3>2. Finished(Applied(d, calls[n]), calls, n + 1) = Applied(d, calls[n]) \ {m.key, m.button}
      <4> DEFINE q == Applied(d, calls[n]) r == n + 1
      <4>1. q \in SUBSET Inputs /\ r \in 1 .. 4
        BY <1>4, <3>1, SMTT(30)
      <4> HIDE DEF q, r
      <4>2. Finished(q, calls, r) = q \ {m.key, m.button}
        BY <1>7, <4>1, ModclickLeft, ZenonT(60)
      <4> QED BY <4>2 DEF q, r
    <3>3. Applied(d, calls[n]) \ {m.key, m.button} = d \ {m.key, m.button}
      BY <2>1, <2>5, CallsDiffer DEF Applied
    <3> QED BY <2>3, <3>2, <3>3, SMTT(30)
  <2> QED BY <2>2, <2>4, <2>5
<1>8. n = Len(calls) \/ n < Len(calls)
  BY <1>1
<1>9. ASSUME NEW l \in Nat, n < l PROVE l # 0 /\ l # 1
  BY <1>1, <1>9
<1>10. Finished(Applied(d, calls[n]), calls, n + 1) = Finished(d, calls, n)
  BY <1>1, <1>3, <1>5, <1>6, <1>7, <1>8, <1>9, Zenon DEF calls
<1> QED BY <1>10 DEF calls

(* All calls of a script together do what the command is for. *)
LEMMA ScriptMatchesEffect ==
  ASSUME NEW m \in Commands, NEW d \in SUBSET Inputs
  PROVE  Finished(d, Script(m), 1) = (d \ EffectOf(m).up) \cup EffectOf(m).down
<1>1. m.op \in Ops /\ m.key \in Keys \cup {NoKey} /\ m.button \in Inputs \cup {NoButton}
      /\ m.to \in Int \X Int
  BY CommandTypes, ZenonT(60)
<1>2. NoKey \notin Inputs /\ NoButton \notin Inputs /\ (m.key # NoKey => m.key \in Inputs)
  BY <1>1, LegacyAssumption, ZenonT(60) DEF Inputs
<1>3. ASSUME NEW calls, Len(calls) = 0 PROVE Finished(d, calls, 1) = d
  BY <1>3, NothingLeft
<1>4. ASSUME NEW e, \/ \E i \in Inputs \cup {NoButton} : e = Press(i) \/ e = Lift(i)
                    \/ \E p \in Int \X Int : e = Warp(p)
                    \/ e = LiftAll
      PROVE  Finished(d, <<e>>, 1) = Applied(d, e)
  <2> DEFINE calls == <<e>>
  <2>1. Len(calls) = 1 /\ calls[1] = e /\ 1 \in Nat
    OBVIOUS
  <2> HIDE DEF calls
  <2>2. Finished(d, calls, 1) = Applied(d, calls[1])
    BY <1>4, <2>1, OneLeft, ZenonT(60)
  <2> QED BY <2>1, <2>2 DEF calls
<1>5. CASE m.op \in {"none", "unknown"}
  <2>1. Script(m) = <<>> /\ EffectOf(m).up = {} /\ EffectOf(m).down = {}
    BY <1>5, ZenonT(60) DEF Script, EffectOf
  <2> QED BY <1>3, <2>1
<1>6. CASE m.op = "keydown"
  <2>1. EffectOf(m).up = {} /\ EffectOf(m).down = {m.key} \cap Inputs
    BY <1>6 DEF EffectOf
  <2>2. CASE m.key = NoKey
    BY <1>2, <1>3, <1>6, <2>1, <2>2, SMTT(30) DEF Script, WithKey
  <2>3. CASE m.key # NoKey
    <3>1. Script(m) = <<Press(m.key)>>
      BY <1>6, <2>3, ZenonT(60) DEF Script, WithKey
    <3>2. Finished(d, Script(m), 1) = Applied(d, Press(m.key))
      BY <1>2, <1>4, <2>3, <3>1, ZenonT(60)
    <3> QED BY <2>1, <3>2, CallsDiffer DEF Applied
  <2> QED BY <2>2, <2>3, ZenonT(60)
<1>7. CASE m.op = "keyup"
  <2>1. EffectOf(m).up = {m.key} /\ EffectOf(m).down = {}
    BY <1>7 DEF EffectOf
  <2>2. CASE m.key = NoKey
    BY <1>2, <1>3, <1>7, <2>1, <2>2, SMTT(30) DEF Script, WithKey
  <2>3. CASE m.key # NoKey
    <3>1. Script(m) = <<Lift(m.key)>>
      BY <1>7, <2>3, Zenon DEF Script, WithKey
    <3>2. Finished(d, Script(m), 1) = Applied(d, Lift(m.key))
      BY <1>2, <1>4, <2>3, <3>1, ZenonT(60)
    <3> QED BY <2>1, <3>2, CallsDiffer DEF Applied
  <2> QED BY <2>2, <2>3, Zenon
<1>8. CASE m.op = "key"
  <2>1. EffectOf(m).up = (IF HoldOK(m.hold) THEN {m.key} ELSE {}) /\ EffectOf(m).down = {}
    BY <1>8, ZenonT(60) DEF EffectOf
  <2>2. CASE m.key = NoKey \/ ~HoldOK(m.hold)
    <3>1. Script(m) = <<>>
      BY <1>8, <2>2, ZenonT(60) DEF Script, WithKey
    <3> QED BY <1>2, <1>3, <2>1, <2>2, <3>1, SMTT(30)
  <2>3. CASE m.key # NoKey /\ HoldOK(m.hold)
    <3>1. Script(m) = <<Press(m.key), Lift(m.key)>>
      BY <1>8, <2>3, ZenonT(60) DEF Script, WithKey
    <3>2. Finished(d, Script(m), 1) = d \ {m.key}
      BY <1>2, <2>3, <3>1, Tap, ZenonT(60)
    <3> QED BY <2>1, <2>3, <3>2, SMTT(30)
  <2> QED BY <2>2, <2>3, Zenon
<1>9. CASE m.op = "mousemove"
  <2>1. Script(m) = <<Warp(m.to)>> /\ EffectOf(m).up = {} /\ EffectOf(m).down = {}
    BY <1>9, ZenonT(60) DEF Script, EffectOf
  <2>2. Finished(d, Script(m), 1) = Applied(d, Warp(m.to))
    BY <1>1, <1>4, <2>1
  <2> QED BY <2>1, <2>2, CallsDiffer DEF Applied
<1>10. CASE m.op = "mousedown"
  <2>1. Script(m) = <<Press(m.button)>> /\ EffectOf(m).up = {}
        /\ EffectOf(m).down = {m.button} \cap Inputs
    BY <1>10, ZenonT(60) DEF Script, EffectOf
  <2>2. Finished(d, Script(m), 1) = Applied(d, Press(m.button))
    BY <1>1, <1>4, <2>1
  <2> QED BY <2>1, <2>2, CallsDiffer DEF Applied
<1>11. CASE m.op = "mouseup"
  <2>1. Script(m) = <<Lift(m.button)>> /\ EffectOf(m).up = {m.button} /\ EffectOf(m).down = {}
    BY <1>11, ZenonT(60) DEF Script, EffectOf
  <2>2. Finished(d, Script(m), 1) = Applied(d, Lift(m.button))
    BY <1>1, <1>4, <2>1, ZenonT(60)
  <2> QED BY <2>1, <2>2, CallsDiffer, SMTT(30) DEF Applied
<1>12. CASE m.op = "click"
  <2>1. Script(m) = <<Press(m.button), Lift(m.button)>> /\ EffectOf(m).up = {m.button}
        /\ EffectOf(m).down = {}
    BY <1>12, ZenonT(60) DEF Script, EffectOf
  <2> QED BY <1>1, <2>1, Tap, SMTT(30)
<1>13. CASE m.op = "modclick"
  <2>1. EffectOf(m).up = (IF m.numeric /\ m.key # NoKey THEN {m.key, m.button} ELSE {})
        /\ EffectOf(m).down = {}
    BY <1>13, ZenonT(60) DEF EffectOf
  <2>2. CASE ~m.numeric \/ m.key = NoKey
    <3>1. Script(m) = <<>>
      BY <1>13, <2>2, ZenonT(60) DEF Script, WithKey
    <3> QED BY <1>3, <2>1, <2>2, <3>1, SMTT(30)
  <2>3. CASE m.numeric /\ m.key # NoKey
    <3>1. Script(m) = <<Press(m.key), Warp(m.to), Press(m.button), Lift(m.button), Lift(m.key)>>
      BY <1>13, <2>3, ZenonT(60) DEF Script, WithKey
    <3>2. 1 \in 1 .. 4
      OBVIOUS
    <3>3. Finished(d, Script(m), 1) = d \ {m.key, m.button}
      BY <3>1, <3>2, ModclickLeft, ZenonT(60)
    <3> QED BY <2>1, <2>3, <3>3
  <2> QED BY <2>2, <2>3, Zenon
<1>14. CASE m.op = "releaseall"
  <2>1. Script(m) = <<LiftAll>> /\ EffectOf(m).up = Liftable /\ EffectOf(m).down = {}
    BY <1>14, ZenonT(60) DEF Script, EffectOf
  <2>2. Finished(d, Script(m), 1) = Applied(d, LiftAll)
    BY <1>4, <2>1, ZenonT(60)
  <2> QED BY <2>1, <2>2, CallsDiffer, SMTT(30) DEF Applied
<1> QED BY <1>1, <1>5, <1>6, <1>7, <1>8, <1>9, <1>10, <1>11, <1>12, <1>13, <1>14, Zenon DEF Ops

LEMMA WarpMatchesEffect ==
  ASSUME NEW m \in Commands
  PROVE  IF WillWarp(Script(m), 1)
         THEN EffectOf(m).to = OnScreen(m.to) /\ EffectOf(m).to # <<>>
         ELSE EffectOf(m).to = <<>>
<1>0. OnScreen(m.to) # <<>>
  BY DEF OnScreen
<1>1. m.op \in Ops
  BY CommandTypes, Zenon
<1>2. CASE m.op = "mousemove" \/ (m.op = "modclick" /\ m.numeric /\ m.key # NoKey)
  <2>1. EffectOf(m).to = OnScreen(m.to)
    BY <1>2, ZenonT(60) DEF EffectOf
  <2>2. \E k \in 1 .. Len(Script(m)) : Script(m)[k] = Warp(m.to)
    <3>1. \/ Script(m) = <<Warp(m.to)>>
          \/ Script(m) = <<Press(m.key), Warp(m.to), Press(m.button), Lift(m.button), Lift(m.key)>>
      BY <1>2 DEF Script, WithKey
    <3>2. CASE Script(m) = <<Warp(m.to)>>
      <4>1. 1 \in 1 .. Len(Script(m)) /\ Script(m)[1] = Warp(m.to)
        BY <3>2
      <4> QED BY <4>1
    <3>3. CASE Script(m) = <<Press(m.key), Warp(m.to), Press(m.button), Lift(m.button), Lift(m.key)>>
      <4>1. 2 \in 1 .. Len(Script(m)) /\ Script(m)[2] = Warp(m.to)
        BY <3>3, SMTT(30)
      <4> QED BY <4>1, ZenonT(60)
    <3> QED BY <3>1, <3>2, <3>3, ZenonT(60)
  <2> QED BY <1>0, <2>1, <2>2, CallsDiffer, ZenonT(60) DEF WillWarp
<1>3. CASE ~(m.op = "mousemove" \/ (m.op = "modclick" /\ m.numeric /\ m.key # NoKey))
  <2>1. EffectOf(m).to = <<>>
    <3>1. CASE m.op \notin {"mousemove", "modclick"}
      BY <3>1, ZenonT(60) DEF EffectOf
    <3>2. CASE m.op = "modclick" /\ (~m.numeric \/ m.key = NoKey)
      BY <3>2, Zenon DEF EffectOf
    <3> QED BY <1>3, <3>1, <3>2, Zenon
  <2>2. \A k \in 1 .. Len(Script(m)) : Script(m)[k].act # "warp"
    <3>1. CASE m.op = "modclick"
      <4>1. Script(m) = <<>>
        BY <1>3, <3>1, ZenonT(60) DEF Script, WithKey
      <4> QED BY <4>1
    <3>2. CASE m.op \in {"key", "click"}
      BY <3>2, CallsDiffer, SMTT(30) DEF Script, WithKey
    <3>3. CASE m.op \notin {"key", "click", "modclick"}
      <4>1. m.op # "mousemove"
        BY <1>3, ZenonT(60)
      <4>2. Script(m) = <<>> \/ Script(m) = <<LiftAll>>
            \/ \E i : Script(m) = <<Press(i)>> \/ Script(m) = <<Lift(i)>>
        BY <1>1, <3>3, <4>1, ZenonT(60) DEF Script, WithKey, Ops
      <4> QED BY <4>2, CallsDiffer, SMTT(30)
    <3> QED BY <3>1, <3>2, <3>3, ZenonT(60)
  <2> QED BY <2>1, <2>2 DEF WillWarp
<1> QED BY <1>2, <1>3, SMTT(30)

-----------------------------------------------------------------------------
(* The state users see. *)
OnMap == [c \in Conns |-> pc[c] \in {"read", "lock", "run", "ack", "lockrel"}]
DownMap == Finished(down, Calls, From)
PointerMap == IF WillWarp(Calls, From) THEN OnScreen(cmd[xmu].to) ELSE pointer

LEMMA Unseen ==
  ASSUME OnMap' = OnMap, DownMap' = DownMap, PointerMap' = PointerMap, alive' = alive
  PROVE  UNCHANGED Abstract!input
BY DEF Abstract!input, OnMap, DownMap, PointerMap

(* Where nobody holds xmu, users see the display itself. *)
LEMMA Idle ==
  ASSUME xmu = NoConn
  PROVE  DownMap = down /\ PointerMap = pointer
<1>1. Calls = <<>> /\ From = 1 /\ Len(<<>>) = 0
  BY DEF Calls, From
<1>2. Finished(down, <<>>, 1) = down /\ ~WillWarp(<<>>, 1)
  BY NothingLeft
<1> QED BY <1>1, <1>2, ZenonT(60) DEF DownMap, PointerMap

LEMMA IdleNext ==
  ASSUME xmu' = NoConn
  PROVE  DownMap' = down' /\ PointerMap' = pointer'
<1>1. Calls' = <<>> /\ From' = 1 /\ Len(<<>>) = 0
  BY DEF Calls, From
<1>2. Finished(down', <<>>, 1) = down' /\ ~WillWarp(<<>>, 1)
  BY NothingLeft
<1> QED BY <1>1, <1>2, ZenonT(60) DEF DownMap, PointerMap

(* Steps that do not concern the holder of xmu show nothing of the display.   *)
LEMMA DisplayUnseen ==
  ASSUME UNCHANGED <<xmu, down, pointer>>,
         xmu # NoConn => pc'[xmu] = pc[xmu] /\ cmd'[xmu] = cmd[xmu] /\ at'[xmu] = at[xmu]
  PROVE  DownMap' = DownMap /\ PointerMap' = PointerMap
<1>1. CASE xmu = NoConn
  BY <1>1, Idle, IdleNext, ZenonT(60)
<1>2. CASE xmu # NoConn
  <2>1. Calls' = Calls /\ From' = From
    BY <1>2, ZenonT(60) DEF Calls, From
  <2> QED BY <1>2, <2>1, ZenonT(60) DEF DownMap, PointerMap
<1> QED BY <1>1, <1>2, SMTT(30)

(* What the simulation uses of both invariants. *)
Known ==
  /\ pc \in [Conns -> Labels] /\ cmd \in [Conns -> Commands \cup {NoCommand}]
  /\ at \in [Conns -> 1..6] /\ xmu \in Conns \cup {NoConn} /\ down \in SUBSET Inputs
  /\ Mutex /\ Holder /\ Loaded /\ Single

(* The goroutine of c moves outside the mutex; on or off, c stays. *)
LEMMA OutsideUnseen ==
  ASSUME Known, NEW c \in Conns, pc[c] \notin {"run", "release"},
         NEW l \in Labels, pc' = [pc EXCEPT ![c] = l],
         l \in {"read", "lock", "run", "ack", "lockrel"}
           <=> pc[c] \in {"read", "lock", "run", "ack", "lockrel"},
         UNCHANGED <<xmu, down, pointer, at, alive>>,
         \A d \in Conns \ {c} : cmd'[d] = cmd[d]
  PROVE  UNCHANGED Abstract!input
<1>1. xmu # c
  BY LegacyAssumption, Zenon DEF Known, Holder
<1>2. DownMap' = DownMap /\ PointerMap' = PointerMap
  BY <1>1, DisplayUnseen, ZenonT(60) DEF Known
<1>3. OnMap' = OnMap
  BY SMTT(30) DEF Known, OnMap
<1> QED BY <1>2, <1>3, Unseen, ZenonT(60)

LEMMA JoinSeen ==
  ASSUME Known, alive, NEW c \in Conns, NEW upgraded \in BOOLEAN, Sniff(c, upgraded)
  PROVE  Abstract!Join(c)
<1>1. /\ pc[c] = "sniff" /\ pc' = [pc EXCEPT ![c] = "read"]
      /\ UNCHANGED <<xmu, down, pointer, at, cmd, alive>>
  BY Zenon DEF Sniff, Goto, display
<1>2. xmu # c
  BY <1>1, LegacyAssumption, Zenon DEF Known, Holder
<1>3. DownMap' = DownMap /\ PointerMap' = PointerMap
  BY <1>1, <1>2, DisplayUnseen, SMTT(30) DEF Known
<1>4. ~OnMap[c] /\ OnMap' = [OnMap EXCEPT ![c] = TRUE]
  BY <1>1, ZenonT(60) DEF Known, OnMap
<1> QED BY <1>1, <1>3, <1>4, Zenon DEF Abstract!Join, OnMap, DownMap, PointerMap

LEMMA CommandSeen ==
  ASSUME Known, alive, NEW c \in Conns, Lock(c)
  PROVE  Abstract!Command(c, cmd[c])
<1>1. /\ pc[c] = "lock" /\ xmu = NoConn /\ xmu' = c /\ at' = [at EXCEPT ![c] = 1]
      /\ pc' = [pc EXCEPT ![c] = "run"] /\ UNCHANGED <<cmd, down, pointer, alive>>
  BY SMTT(30) DEF Lock, XmuFree, Goto, display
<1>2. cmd[c] \in Commands /\ down \in SUBSET Inputs
  BY <1>1 DEF Known, Loaded
<1>3. DownMap = down /\ PointerMap = pointer
  BY <1>1, Idle, ZenonT(60)
<1>4. Calls' = Script(cmd[c]) /\ From' = 1
  BY <1>1, LegacyAssumption, Zenon DEF Known, Calls, From
<1>5. DownMap' = (DownMap \ EffectOf(cmd[c]).up) \cup EffectOf(cmd[c]).down
  <2>1. DownMap' = Finished(down, Script(cmd[c]), 1)
    BY <1>1, <1>4, ZenonT(60) DEF DownMap
  <2> QED BY <1>2, <1>3, <2>1, ScriptMatchesEffect, ZenonT(60)
<1>6. PointerMap' = IF EffectOf(cmd[c]).to = <<>> THEN PointerMap ELSE EffectOf(cmd[c]).to
  <2>1. PointerMap' = IF WillWarp(Script(cmd[c]), 1) THEN OnScreen(cmd[c].to) ELSE pointer
    BY <1>1, <1>4, SMTT(30) DEF PointerMap
  <2> QED BY <1>2, <1>3, <2>1, WarpMatchesEffect, ZenonT(60)
<1>7. OnMap' = OnMap /\ OnMap[c]
  <2>1. OnMap[c]
    BY <1>1, ZenonT(60) DEF OnMap
  <2>2. OnMap' = OnMap
    BY <1>1 DEF Known, OnMap
  <2> QED BY <2>1, <2>2
<1> QED BY <1>1, <1>5, <1>6, <1>7, ZenonT(60) DEF Abstract!Command, OnMap, DownMap, PointerMap

LEMMA RunUnseen ==
  ASSUME Known, NEW c \in Conns, Run(c)
  PROVE  UNCHANGED Abstract!input
<1> DEFINE calls == Script(cmd[c]) e == Script(cmd[c])[at[c]]
<1>1. /\ pc[c] = "run" /\ at[c] <= Len(calls) /\ XCall(e)
      /\ at' = [at EXCEPT ![c] = at[c] + 1] /\ UNCHANGED <<pc, cmd, xmu, alive>>
  BY DEF Run
<1>2. /\ cmd[c] \in Commands \cup {NoCommand} /\ down \in SUBSET Inputs
      /\ xmu = c /\ xmu # NoConn /\ at[c] \in 1..6
  BY <1>1, LegacyAssumption, ZenonT(60) DEF Known, Mutex
<1>3. at[c] \in 1 .. Len(calls) /\ at'[c] = at[c] + 1 /\ Len(calls) \in Nat
  BY <1>1, <1>2, ScriptShape, SMTT(30) DEF Known
<1>4. Calls = calls /\ From = at[c] /\ Calls' = calls /\ From' = at[c] + 1
  BY <1>1, <1>2, <1>3, ZenonT(60) DEF Calls, From
<1>5. down' = Applied(down, e)
  BY <1>1, ZenonT(60) DEF XCall, Applied
<1>6. pointer' = IF e.act = "warp" THEN OnScreen(e.on) ELSE pointer
  BY <1>1, SMTT(30) DEF XCall
<1>7. DownMap' = DownMap
  <2>1. Finished(Applied(down, e), calls, at[c] + 1) = Finished(down, calls, at[c])
    BY <1>2, <1>3, CallThenRest, ZenonT(60)
  <2> QED BY <1>4, <1>5, <2>1, ZenonT(60) DEF DownMap
<1>8. PointerMap' = PointerMap
  <2>1. e.act = "warp" => e.on = cmd[c].to
    BY <1>2, <1>3, WarpsTo, SMTT(30)
  <2>2. WillWarp(calls, at[c]) <=> e.act = "warp" \/ WillWarp(calls, at[c] + 1)
    <3> HIDE DEF calls
    <3>1. e = calls[at[c]]
      BY DEF calls
    <3>2. \A k : k \in at[c] .. Len(calls) <=> k = at[c] \/ k \in at[c] + 1 .. Len(calls)
      BY <1>3, SMTT(30)
    <3> QED BY <3>1, <3>2, ZenonT(60) DEF WillWarp
  <2>3. PointerMap = IF WillWarp(calls, at[c]) THEN OnScreen(cmd[c].to) ELSE pointer
    BY <1>2, <1>4, ZenonT(60) DEF PointerMap
  <2>4. PointerMap' = IF WillWarp(calls, at[c] + 1) THEN OnScreen(cmd[c].to) ELSE pointer'
    BY <1>1, <1>2, <1>4, ZenonT(60) DEF PointerMap
  <2> HIDE DEF calls, e
  <2> QED BY <1>6, <2>1, <2>2, <2>3, <2>4, ZenonT(60)
<1>9. OnMap' = OnMap
  BY <1>1, SMTT(30) DEF OnMap
<1> QED BY <1>1, <1>7, <1>8, <1>9, Unseen, ZenonT(60)

LEMMA UnlockUnseen ==
  ASSUME Known, NEW c \in Conns, Unlock(c)
  PROVE  UNCHANGED Abstract!input
<1>1. /\ pc[c] = "run" /\ at[c] > Len(Script(cmd[c])) /\ xmu' = NoConn
      /\ UNCHANGED <<down, pointer, alive>>
      /\ \E l \in {"read", "ack"} : pc' = [pc EXCEPT ![c] = l]
  <2>1. AfterLine(c) \in {"read", "ack"}
    BY DEF AfterLine
  <2> QED BY <2>1, ZenonT(60) DEF Unlock, Goto, display
<1>2. /\ cmd[c] \in Commands \cup {NoCommand} /\ xmu = c /\ xmu # NoConn /\ at[c] \in Nat
  BY <1>1, LegacyAssumption, SMTT(30) DEF Known, Mutex
<1>3. Calls = Script(cmd[c]) /\ From = at[c]
  BY <1>1, <1>2, ZenonT(60) DEF Calls, From
<1>4. Finished(down, Script(cmd[c]), at[c]) = down /\ ~WillWarp(Script(cmd[c]), at[c])
  <2>1. Len(Script(cmd[c])) \in Nat
    BY <1>2, ScriptShape, SMTT(30)
  <2> QED BY <1>1, <1>2, <2>1, NothingLeft, ZenonT(60)
<1>5. DownMap = down /\ PointerMap = pointer
  BY <1>3, <1>4, SMTT(30) DEF DownMap, PointerMap
<1>6. DownMap' = down' /\ PointerMap' = pointer'
  BY <1>1, IdleNext, SMTT(30)
<1>7. OnMap' = OnMap
  BY <1>1, SMTT(30) DEF Known, OnMap
<1> QED BY <1>1, <1>5, <1>6, <1>7, Unseen, SMTT(30)

(* release_all as the calls of a script. *)
LEMMA LiftAllLeft ==
  ASSUME NEW d \in SUBSET Inputs
  PROVE  Finished(d, <<LiftAll>>, 1) = d \ Liftable /\ ~WillWarp(<<LiftAll>>, 1)
<1> DEFINE calls == <<LiftAll>>
<1>1. Len(calls) = 1 /\ calls[1] = LiftAll /\ 1 \in Nat
  OBVIOUS
<1> HIDE DEF calls
<1>2. Finished(d, calls, 1) = Applied(d, LiftAll)
  BY <1>1, OneLeft, ZenonT(60)
<1>3. ~WillWarp(calls, 1)
  BY <1>1, CallsDiffer DEF WillWarp
<1>4. Applied(d, LiftAll) = d \ Liftable
  BY CallsDiffer, Zenon DEF Applied
<1> QED BY <1>2, <1>3, <1>4 DEF calls

LEMMA LeaveSeen ==
  ASSUME Known, alive, NEW c \in Conns, LockRelease(c)
  PROVE  Abstract!Leave(c)
<1>1. /\ pc[c] = "lockrel" /\ xmu = NoConn /\ xmu' = c /\ c # NoConn
      /\ pc' = [pc EXCEPT ![c] = "release"] /\ UNCHANGED <<down, pointer, alive>>
  BY LegacyAssumption DEF LockRelease, XmuFreeToRelease, Goto, display
<1>2. DownMap = down /\ PointerMap = pointer
  BY <1>1, Idle, ZenonT(60)
<1>3. Calls' = <<LiftAll>> /\ From' = 1
  BY <1>1, SMTT(30) DEF Known, Calls, From
<1>4. DownMap' = DownMap \ Liftable /\ PointerMap' = PointerMap
  BY <1>1, <1>2, <1>3, LiftAllLeft, ZenonT(60) DEF Known, DownMap, PointerMap
<1>5. OnMap[c]
  BY <1>1, Zenon DEF OnMap
<1>6. OnMap' = [OnMap EXCEPT ![c] = FALSE]
  <2>1. pc'[c] \notin {"read", "lock", "run", "ack", "lockrel"}
        /\ \A d \in Conns \ {c} : pc'[d] = pc[d]
    BY <1>1 DEF Known
  <2>2. OnMap' = [d \in Conns |-> IF d = c THEN FALSE ELSE OnMap[d]]
    <3>1. ASSUME NEW d \in Conns
          PROVE  (pc'[d] \in {"read", "lock", "run", "ack", "lockrel"})
                   = IF d = c THEN FALSE ELSE OnMap[d]
      <4>1. CASE d = c
        <5>1. (pc'[d] \in {"read", "lock", "run", "ack", "lockrel"}) = FALSE
          BY <2>1, <4>1, SMT, SMTT(30)
        <5> QED BY <4>1, <5>1, ZenonT(60)
      <4>2. CASE d # c
        BY <2>1, <4>2 DEF OnMap
      <4> QED BY <4>1, <4>2, ZenonT(60)
    <3> QED BY <3>1, Zenon DEF OnMap
  <2>3. [OnMap EXCEPT ![c] = FALSE] = [d \in Conns |-> IF d = c THEN FALSE ELSE OnMap[d]]
    BY Zenon DEF OnMap
  <2> QED BY <2>2, <2>3, ZenonT(60)
<1> QED BY <1>1, <1>4, <1>5, <1>6, ZenonT(60) DEF Abstract!Leave, OnMap, DownMap, PointerMap

(* The release itself: nothing new to see, unless standard input ended. *)
LEMMA ReleaseSeen ==
  ASSUME Known, mode \in {"tcp", "stdin"}, alive, NEW c \in Conns, Release(c)
  PROVE  Abstract!Die \/ UNCHANGED Abstract!input
<1>1. /\ pc[c] = "release" /\ xmu' = NoConn /\ XCall(LiftAll)
      /\ \/ mode = "stdin" /\ pc' = [pc EXCEPT ![c] = "none"] /\ alive' = FALSE
         \/ mode # "stdin" /\ pc' = [pc EXCEPT ![c] = "close"] /\ alive' = alive
  BY ZenonT(60) DEF Release, Goto
<1>2. down' = down \ Liftable /\ pointer' = pointer
  BY <1>1 DEF XCall, LiftAll
<1>3. xmu = c /\ xmu # NoConn /\ down \in SUBSET Inputs
  BY <1>1, LegacyAssumption, ZenonT(60) DEF Known, Mutex
<1>4. Calls = <<LiftAll>> /\ From = 1
  BY <1>1, <1>3, SMTT(30) DEF Calls, From
<1>5. DownMap = down \ Liftable /\ PointerMap = pointer
  BY <1>3, <1>4, LiftAllLeft, SMTT(30) DEF DownMap, PointerMap
<1>6. DownMap' = down' /\ PointerMap' = pointer'
  BY <1>1, IdleNext, SMTT(30)
<1>7. CASE mode # "stdin"
  <2>1. OnMap' = OnMap
    <3>1. pc' = [pc EXCEPT ![c] = "close"] /\ pc[c] = "release"
      BY <1>1, <1>7, ZenonT(60)
    <3>2. ASSUME NEW d \in Conns
          PROVE  (pc'[d] \in {"read", "lock", "run", "ack", "lockrel"})
                   = (pc[d] \in {"read", "lock", "run", "ack", "lockrel"})
      BY <3>1 DEF Known
    <3> QED BY <3>2, SMTT(30) DEF OnMap
  <2> QED BY <1>1, <1>2, <1>5, <1>6, <1>7, <2>1, Unseen, ZenonT(60)
<1>8. CASE mode = "stdin"
  <2>1. \A d \in Conns : pc'[d] = "none"
    BY <1>1, <1>8 DEF Known, Single
  <2>2. OnMap' = [d \in Conns |-> FALSE]
    <3>1. ASSUME NEW d \in Conns
          PROVE  (pc'[d] \in {"read", "lock", "run", "ack", "lockrel"}) = FALSE
      BY <2>1
    <3> QED BY <3>1, Zenon DEF OnMap
  <2>3. DownMap' \in SUBSET Inputs
    BY <1>2, <1>3, <1>6
  <2>4. Abstract!Die
    BY <1>1, <1>8, <2>2, <2>3, ZenonT(60) DEF Abstract!Die, OnMap, DownMap
  <2> QED BY <2>4, ZenonT(60)
<1> QED BY <1>7, <1>8

LEMMA ExitSeen == ASSUME Known, alive, Exit PROVE Abstract!Die
<1>1. alive' = FALSE /\ pc' = [c \in Conns |-> "none"] /\ xmu' = NoConn /\ down' = down
  BY DEF Exit, display
<1>2. DownMap' \in SUBSET Inputs
  BY <1>1, IdleNext DEF Known
<1>3. OnMap' = [d \in Conns |-> FALSE]
  <2>1. ASSUME NEW d \in Conns
        PROVE  (pc'[d] \in {"read", "lock", "run", "ack", "lockrel"}) = FALSE
    BY <1>1
  <2> QED BY <2>1, ZenonT(60) DEF OnMap
<1> QED BY <1>1, <1>2, <1>3, ZenonT(60) DEF Abstract!Die, OnMap, DownMap

(* The steps outside the mutex, but for the moment a connection joins. *)
LEMMA PlainUnseen ==
  ASSUME Known, NEW c \in Conns,
         Accept(c) \/ FreeSlot(c) \/ Handled(c) \/ Ack(c) \/ ScanEnds(c) \/ Close(c) \/ HangUp(c)
         \/ \E m \in Commands : ReadLine(c, m)
  PROVE  UNCHANGED Abstract!input
<1>1. CASE HangUp(c)
  <2>1. UNCHANGED <<pc, cmd, at, xmu, down, pointer, alive>>
    BY <1>1, Zenon DEF HangUp, display
  <2>2. DownMap' = DownMap /\ PointerMap' = PointerMap
    BY <2>1, DisplayUnseen, ZenonT(60)
  <2>3. OnMap' = OnMap
    BY <2>1, SMTT(30) DEF OnMap
  <2> QED BY <2>1, <2>2, <2>3, Unseen, ZenonT(60)
<1>2. ASSUME NEW m \in Commands, ReadLine(c, m) PROVE UNCHANGED Abstract!input
  <2>1. /\ pc[c] = "read" /\ cmd' = [cmd EXCEPT ![c] = m]
        /\ UNCHANGED <<at, xmu, down, pointer, alive>>
        /\ \E l \in {"read", "ack", "lock"} : pc' = [pc EXCEPT ![c] = l]
    <3>1. AfterLine(c) \in {"read", "ack"}
      BY DEF AfterLine
    <3> QED BY <1>2, <3>1, ZenonT(60) DEF ReadLine, Goto, display
  <2>2. PICK l \in {"read", "ack", "lock"} : pc' = [pc EXCEPT ![c] = l]
    BY <2>1, ZenonT(60)
  <2>3. \A d \in Conns \ {c} : cmd'[d] = cmd[d]
    BY <2>1 DEF Known
  <2> QED BY <2>1, <2>2, <2>3, OutsideUnseen, ZenonT(60) DEF Labels
<1>3. CASE Accept(c) \/ FreeSlot(c) \/ Handled(c) \/ Close(c)
  <2>1. /\ pc[c] \in {"none", "free", "sniff", "close"}
        /\ UNCHANGED <<cmd, at, xmu, down, pointer, alive>>
        /\ \E l \in {"none", "free", "sniff", "close"} : pc' = [pc EXCEPT ![c] = l]
    BY <1>3, SMTT(30) DEF Accept, FreeSlot, Handled, Close, Goto, display
  <2>2. PICK l \in {"none", "free", "sniff", "close"} : pc' = [pc EXCEPT ![c] = l]
    BY <2>1, Zenon
  <2> QED BY <2>1, <2>2, OutsideUnseen, ZenonT(60) DEF Labels
<1>4. CASE Ack(c) \/ ScanEnds(c)
  <2>1. /\ pc[c] \in {"ack", "read"}
        /\ UNCHANGED <<cmd, at, xmu, down, pointer, alive>>
        /\ \E l \in {"read", "lockrel"} : pc' = [pc EXCEPT ![c] = l]
    BY <1>4, SMTT(30) DEF Ack, ScanEnds, Goto, display
  <2>2. PICK l \in {"read", "lockrel"} : pc' = [pc EXCEPT ![c] = l]
    BY <2>1, ZenonT(60)
  <2> QED BY <2>1, <2>2, OutsideUnseen, ZenonT(60) DEF Labels
<1> QED BY <1>1, <1>2, <1>3, <1>4, ZenonT(60)

LEMMA NextSeen ==
  ASSUME IInv, RInv, [Next]_vars
  PROVE  [Abstract!Next]_(Abstract!input)
<1>0. Known /\ mode \in {"tcp", "stdin"}
  BY DEF IInv, Types, RInv, Known
<1>1. CASE UNCHANGED vars
  <2>1. UNCHANGED <<pc, cmd, at, xmu, down, pointer, alive>>
    BY <1>1, ZenonT(60) DEF vars, conn, display
  <2>2. DownMap' = DownMap /\ PointerMap' = PointerMap /\ OnMap' = OnMap
    BY <2>1, DisplayUnseen DEF OnMap
  <2> QED BY <2>1, <2>2, Unseen, ZenonT(60)
<1>2. ASSUME alive, NEW c \in Conns, Step(c) \/ Peer(c)
      PROVE  Abstract!Join(c) \/ Abstract!Die \/ UNCHANGED Abstract!input
  <2>1. CASE Run(c) \/ Unlock(c)
    BY <1>0, <2>1, RunUnseen, UnlockUnseen, ZenonT(60)
  <2>2. CASE Release(c)
    BY <1>0, <1>2, <2>2, ReleaseSeen, ZenonT(60)
  <2>3. CASE \E upgraded \in BOOLEAN : Sniff(c, upgraded)
    BY <1>0, <1>2, <2>3, JoinSeen, ZenonT(60)
  <2>4. CASE Accept(c) \/ FreeSlot(c) \/ Handled(c) \/ Ack(c) \/ ScanEnds(c) \/ Close(c) \/ HangUp(c)
             \/ \E m \in Commands : ReadLine(c, m)
    BY <1>0, <2>4, PlainUnseen, SMTT(30)
  <2> QED BY <1>2, <2>1, <2>2, <2>3, <2>4, ZenonT(60) DEF Step, Peer
<1>3. ASSUME alive, NEW c \in Conns, Lock(c) PROVE \E m \in Commands : Abstract!Command(c, m)
  <2>1. cmd[c] \in Commands
    BY <1>0, <1>3 DEF Lock, Known, Loaded
  <2> QED BY <1>0, <1>3, <2>1, CommandSeen, ZenonT(60)
<1>4. ASSUME alive, NEW c \in Conns, LockRelease(c) PROVE Abstract!Leave(c)
  BY <1>0, <1>4, LeaveSeen, ZenonT(60)
<1>5. CASE alive /\ Exit
  BY <1>0, <1>5, ExitSeen, ZenonT(60) DEF Abstract!Next
<1> QED BY <1>1, <1>2, <1>3, <1>4, <1>5, ZenonT(60) DEF Next, Abstract!Next

LEMMA InitSeen == Init => Abstract!Init
<1> SUFFICES ASSUME Init PROVE Abstract!Init
  OBVIOUS
<1>1. DownMap = {}
  BY Idle DEF Init
<1>2. OnMap \in [Conns -> BOOLEAN]
  <2>1. ASSUME NEW c \in Conns
        PROVE  (pc[c] \in {"read", "lock", "run", "ack", "lockrel"}) \in BOOLEAN
    OBVIOUS
  <2> QED BY <2>1, Zenon DEF OnMap
<1>3. alive = TRUE
  BY DEF Init
<1> QED BY <1>1, <1>2, <1>3, ZenonT(60) DEF Abstract!Init, OnMap, DownMap

(* v2line.Dispatch under xmu, for any number of clients and any commands:      *)
(* users see every command take effect as a whole, in one step, and every      *)
(* command connection lift everything when it leaves, as module LegacyInput    *)
(* says.                                                                     *)
THEOREM LegacyRefinesInput == Spec => AtomicCommands
<1>1. Init => IInv /\ RInv
  BY InitIInv, InitRInv
<1>2. IInv /\ RInv /\ [Next]_vars => (IInv /\ RInv)'
  BY NextIInv, NextRInv
<1>3. IInv /\ RInv /\ [Next]_vars => [Abstract!Next]_(Abstract!input)
  BY NextSeen, Zenon
<1> QED BY <1>1, <1>2, <1>3, InitSeen, PTL DEF Spec, AtomicCommands, Abstract!Spec

-----------------------------------------------------------------------------
(* The mutex is given back. *)

(* xmu is never left locked: whoever holds it is inside. *)
HeldInside == xmu # NoConn => pc[xmu] \in {"run", "release"}

(* The X calls the holder has still to make, and the deferred Unlock. *)
CallsLeft(c) == IF pc[c] = "run" THEN Len(Script(cmd[c])) + 2 - at[c] ELSE 1

(* ... with at most five X calls and the Unlock before it. *)
HolderIsInside ==
  xmu # NoConn => pc[xmu] \in {"run", "release"} /\ CallsLeft(xmu) \in 1..6

(* A step while xmu is held is the holder's next call, its Unlock or the end   *)
(* of the process, or it concerns neither the holder nor the display.         *)
HolderGoesOn ==
  xmu # NoConn =>
    \/ UNCHANGED <<xmu, down, pointer>> /\ CallsLeft(xmu)' = CallsLeft(xmu)
    \/ xmu' = xmu /\ CallsLeft(xmu)' = CallsLeft(xmu) - 1
    \/ xmu' = NoConn /\ CallsLeft(xmu) = 1
    \/ alive' = FALSE

(* No X call without xmu. *)
DisplayIsGuarded == xmu = NoConn => UNCHANGED <<down, pointer>>

Inside == HeldInside' /\ HolderGoesOn /\ DisplayIsGuarded

LEMMA AsideStep ==
  ASSUME IInv, HeldInside, UNCHANGED <<xmu, at, down, pointer>>,
         \A d \in Conns : pc[d] \in {"run", "release"} => pc'[d] = pc[d] /\ cmd'[d] = cmd[d]
  PROVE  Inside
<1>1. xmu # NoConn => xmu \in Conns /\ pc[xmu] \in {"run", "release"}
  BY DEF IInv, Types, HeldInside
<1>2. xmu # NoConn => pc'[xmu] = pc[xmu] /\ cmd'[xmu] = cmd[xmu]
  BY <1>1, Zenon
<1>3. xmu # NoConn => CallsLeft(xmu)' = CallsLeft(xmu)
  BY <1>2, ZenonT(60) DEF CallsLeft
<1> QED BY <1>1, <1>2, <1>3, ZenonT(60) DEF Inside, HeldInside, HolderGoesOn, DisplayIsGuarded

LEMMA PlainAside ==
  ASSUME IInv, HeldInside, NEW c \in Conns,
         Accept(c) \/ FreeSlot(c) \/ Handled(c) \/ Ack(c) \/ ScanEnds(c) \/ Close(c) \/ HangUp(c)
         \/ (\E upgraded \in BOOLEAN : Sniff(c, upgraded)) \/ (\E m \in Commands : ReadLine(c, m))
  PROVE  Inside
<1>0. pc \in [Conns -> Labels] /\ cmd \in [Conns -> Commands \cup {NoCommand}]
  BY ZenonT(60) DEF IInv, Types
<1>1. CASE HangUp(c)
  BY <1>1, AsideStep, SMTT(30) DEF HangUp, display
<1>2. CASE \E m \in Commands : ReadLine(c, m)
  <2>1. PICK m \in Commands : ReadLine(c, m)
    BY <1>2
  <2>2. /\ pc[c] = "read" /\ cmd' = [cmd EXCEPT ![c] = m] /\ UNCHANGED <<xmu, at, down, pointer>>
        /\ \E l : pc' = [pc EXCEPT ![c] = l]
    BY <2>1, ZenonT(60) DEF ReadLine, Goto, display
  <2>3. \A d \in Conns : pc[d] \in {"run", "release"} => pc'[d] = pc[d] /\ cmd'[d] = cmd[d]
    BY <1>0, <2>2
  <2> QED BY <2>2, <2>3, AsideStep, ZenonT(60)
<1>3. CASE Accept(c) \/ FreeSlot(c) \/ Handled(c) \/ Ack(c) \/ ScanEnds(c) \/ Close(c)
           \/ \E upgraded \in BOOLEAN : Sniff(c, upgraded)
  <2>1. /\ pc[c] \in {"none", "free", "sniff", "ack", "read", "close"}
        /\ UNCHANGED <<xmu, at, cmd, down, pointer>>
        /\ \E l : pc' = [pc EXCEPT ![c] = l]
    BY <1>3, Zenon
       DEF Accept, FreeSlot, Handled, Ack, ScanEnds, Close, Sniff, Goto, display
  <2>2. \A d \in Conns : pc[d] \in {"run", "release"} => pc'[d] = pc[d] /\ cmd'[d] = cmd[d]
    BY <1>0, <2>1, ZenonT(60)
  <2> QED BY <2>1, <2>2, AsideStep, ZenonT(60)
<1> QED BY <1>1, <1>2, <1>3, ZenonT(60)

LEMMA NextInside ==
  ASSUME IInv, HeldInside, Next
  PROVE  Inside
<1>0. /\ pc \in [Conns -> Labels] /\ xmu \in Conns \cup {NoConn} /\ at \in [Conns -> 1..6]
      /\ cmd \in [Conns -> Commands \cup {NoCommand}]
  BY SMTT(30) DEF IInv, Types
<1>1. ASSUME NEW c \in Conns, Lock(c) \/ LockRelease(c) PROVE Inside
  <2>1. /\ xmu = NoConn /\ xmu' = c /\ UNCHANGED <<down, pointer>>
        /\ pc' = [pc EXCEPT ![c] = "run"] \/ pc' = [pc EXCEPT ![c] = "release"]
    BY <1>1, ZenonT(60) DEF Lock, LockRelease, XmuFree, XmuFreeToRelease, Goto, display
  <2>2. pc'[c] \in {"run", "release"}
    BY <1>0, <2>1
  <2> QED BY <2>1, <2>2 DEF Inside, HeldInside, HolderGoesOn, DisplayIsGuarded
<1>2. ASSUME NEW c \in Conns, Run(c) PROVE Inside
  <2>1. /\ pc[c] = "run" /\ at' = [at EXCEPT ![c] = at[c] + 1] /\ UNCHANGED <<pc, cmd, xmu>>
    BY <1>2, Zenon DEF Run
  <2>2. xmu = c /\ c # NoConn
    BY <2>1, LegacyAssumption, ZenonT(60) DEF IInv, Mutex
  <2>3. Len(Script(cmd[c])) \in 0..5 /\ at[c] \in 1..6 /\ at'[c] = at[c] + 1
    BY <1>0, <2>1, ScriptShape, SMTT(30)
  <2>4. CallsLeft(xmu)' = CallsLeft(xmu) - 1
    BY <2>1, <2>2, <2>3, SMTT(30) DEF CallsLeft
  <2> QED BY <2>1, <2>2, <2>4, ZenonT(60) DEF Inside, HeldInside, HolderGoesOn, DisplayIsGuarded
<1>3. ASSUME NEW c \in Conns, Unlock(c) \/ Release(c) PROVE Inside
  <2>1. /\ pc[c] \in {"run", "release"} /\ xmu' = NoConn
        /\ pc[c] = "run" => at[c] > Len(Script(cmd[c]))
    BY <1>3, ZenonT(60) DEF Unlock, Release
  <2>2. xmu = c /\ c # NoConn
    BY <2>1, LegacyAssumption DEF IInv, Mutex
  <2>3. Len(Script(cmd[c])) \in 0..5 /\ at[c] \in 1..6
    BY <1>0, ScriptShape, ZenonT(60)
  <2>4. pc[c] = "run" => at[c] = Len(Script(cmd[c])) + 1
    BY <2>1, <2>3, SMTT(30) DEF IInv, InScript
  <2>5. CallsLeft(xmu) = 1
    BY <2>2, <2>3, <2>4, SMTT(30) DEF CallsLeft
  <2> QED BY <2>1, <2>2, <2>5, ZenonT(60) DEF Inside, HeldInside, HolderGoesOn, DisplayIsGuarded
<1>4. CASE Exit
  BY <1>4, ZenonT(60) DEF Exit, display, Inside, HeldInside, HolderGoesOn, DisplayIsGuarded
<1>5. CASE UNCHANGED vars
  BY <1>5, AsideStep DEF vars, conn, display
<1> QED BY <1>1, <1>2, <1>3, <1>4, <1>5, PlainAside, ZenonT(60) DEF Next, Step, Peer

(* handleCommand and releaseAllHeld: the deferred Unlock always runs.  A        *)
(* goroutine that holds xmu is inside one of them, with at most five X calls    *)
(* and the Unlock before it.                                                  *)
THEOREM XmuIsNeverLost == Spec => []HolderIsInside
<1>1. Init => HeldInside
  BY DEF Init, HeldInside
<1>2. IInv /\ HeldInside /\ [Next]_vars => HeldInside'
  <2>1. IInv /\ HeldInside /\ UNCHANGED vars => Inside
    BY AsideStep DEF vars, conn, display
  <2> QED BY <2>1, NextInside, ZenonT(60) DEF Inside
<1>3. ASSUME IInv, HeldInside, xmu # NoConn
      PROVE  pc[xmu] \in {"run", "release"} /\ CallsLeft(xmu) \in 1..6
  <2>1. xmu \in Conns /\ pc[xmu] \in {"run", "release"} /\ at[xmu] \in 1..6
        /\ cmd[xmu] \in Commands \cup {NoCommand}
    BY <1>3 DEF IInv, Types, HeldInside
  <2>2. Len(Script(cmd[xmu])) \in 0..5
    BY <2>1, ScriptShape, Zenon
  <2>3. pc[xmu] = "run" => at[xmu] <= Len(Script(cmd[xmu])) + 1
    BY <1>3, <2>1, ZenonT(60) DEF IInv, InScript
  <2>4. CASE pc[xmu] = "run"
    <3>1. CallsLeft(xmu) = Len(Script(cmd[xmu])) + 2 - at[xmu]
      BY <2>4, Zenon DEF CallsLeft
    <3>2. ASSUME NEW n \in 0..5, NEW k \in 1..6, k <= n + 1 PROVE n + 2 - k \in 1..6
      BY <3>2
    <3>3. Len(Script(cmd[xmu])) + 2 - at[xmu] \in 1..6
      BY <2>1, <2>2, <2>3, <2>4, <3>2, ZenonT(60)
    <3> QED BY <2>1, <3>1, <3>3, ZenonT(60)
  <2>5. CASE pc[xmu] # "run"
    BY <2>1, <2>5 DEF CallsLeft
  <2> QED BY <2>4, <2>5, ZenonT(60)
<1>4. IInv /\ HeldInside => HolderIsInside
  BY <1>3, Zenon DEF HolderIsInside
<1> QED BY <1>1, <1>2, <1>4, LegacyInvariant, PTL DEF Spec

(* xmu: only its holder reaches the display, and every step of the holder is    *)
(* one of the calls it has left, so no client, by hanging up or by not reading  *)
(* its acknowledgements, keeps the others waiting.                            *)
THEOREM HolderIsUndisturbed == Spec => [][HolderGoesOn /\ DisplayIsGuarded]_vars
<1>1. IInv /\ HeldInside /\ [Next]_vars => [HolderGoesOn /\ DisplayIsGuarded]_vars
  BY NextInside, Zenon DEF Inside
<1>2. HolderIsInside => HeldInside
  BY Zenon DEF HeldInside, HolderIsInside
<1> QED BY <1>1, <1>2, LegacyInvariant, XmuIsNeverLost, PTL DEF Spec
=============================================================================
