------------------------------- MODULE Legacy -------------------------------
(***************************************************************************)
(* The legacy server: serveTCP with its connection slots (or standard       *)
(* input), the look at the first bytes that tells commands, WebSocket and   *)
(* health probes apart, one goroutine per connection that runs command lines *)
(* (handleCommand, v2line.Dispatch) under the process-wide mutex xmu, and    *)
(* releaseAllHeld when a command connection ends.                           *)
(*                                                                         *)
(* Every X call of a command is a step of its own, so that the daemon can   *)
(* exit, and other goroutines can act, between two of them.  Bytes, frames  *)
(* and lines are the subject of modules LineReader and LineClient.            *)
(***************************************************************************)
EXTENDS Integers, Sequences, FiniteSets

CONSTANTS
  Conns,        \* client connections; an identity is reused once closed
  NoConn,
  Keys,         \* keycodes the X server has
  NoKey,        \* keycode 0: XStringToKeysym or XKeysymToKeycode found nothing
  LowButtons,   \* the buttons release_all lifts: 1, 2 and 3
  HighButtons,  \* the other buttons of the pointer
  NoButton,     \* what strconv.Atoi makes of a malformed number, button 0
  Commands,     \* the command lines clients write
  ScreenW, ScreenH,
  HalfInt,      \* 2^31: Go's int is cut to a C int
  MaxConns,     \* maxConns
  MaxLines      \* bound: command lines written in a behaviour

Inputs == Keys \cup LowButtons \cup HighButtons
Liftable == Keys \cup LowButtons

(* A line after strings.Fields.  "none" is a blank line, "unknown" any       *)
(* opcode or argument count that Dispatch ignores.                           *)
Ops == {"none", "unknown", "keydown", "keyup", "key", "mousemove", "mousedown",
        "mouseup", "click", "modclick", "releaseall"}
Command == [op : Ops, key : Keys \cup {NoKey}, button : Inputs \cup {NoButton},
            to : Int \X Int, hold : Int, numeric : BOOLEAN]

ASSUME LegacyAssumption ==
  /\ IsFiniteSet(Conns)
  /\ NoConn \notin Conns
  /\ NoKey \notin Inputs
  /\ NoButton \notin Inputs
  /\ Commands \subseteq Command
  /\ ScreenW \in Nat \ {0} /\ ScreenH \in Nat \ {0}
  /\ HalfInt \in Nat \ {0}
  /\ MaxConns \in Nat
  /\ MaxLines \in Nat

VARIABLES
  mode,     \* "tcp" (serveTCP) or "stdin"
  pc,       \* pc[c]: where the goroutine of connection c stands
  ws,       \* ws[c]: upgraded, every line is acknowledged
  gone,     \* gone[c]: the peer has closed the connection
  cmd,      \* cmd[c]: the line being handled
  at,       \* at[c]: the X call of its script that is next
  slots,    \* tokens in connSem
  xmu,      \* the goroutine that holds xmu
  down,     \* X server: inputs that are down
  pointer,  \* X server: where the pointer is
  alive,    \* the process runs
  lines     \* command lines written so far

conn == <<pc, ws, gone, cmd, at>>
display == <<down, pointer>>
vars == <<mode, conn, slots, xmu, display, alive, lines>>

-----------------------------------------------------------------------------
(* v2line.Dispatch: the X calls a command makes, in order. *)

Press(i) == [act |-> "press", on |-> i]
Lift(i) == [act |-> "lift", on |-> i]
Warp(p) == [act |-> "warp", on |-> p]
LiftAll == [act |-> "liftall", on |-> NoKey]

HoldOK(h) == h \in 20..500

(* keycodeOrLog: a command whose keysym has no keycode is dropped. *)
WithKey(k, calls) == IF k = NoKey THEN <<>> ELSE calls

Script(m) ==
  CASE m.op = "keydown"    -> WithKey(m.key, <<Press(m.key)>>)
    [] m.op = "keyup"      -> WithKey(m.key, <<Lift(m.key)>>)
    [] m.op = "key"        -> IF HoldOK(m.hold)
                              THEN WithKey(m.key, <<Press(m.key), Lift(m.key)>>) ELSE <<>>
    [] m.op = "mousemove"  -> <<Warp(m.to)>>
    [] m.op = "mousedown"  -> <<Press(m.button)>>
    [] m.op = "mouseup"    -> <<Lift(m.button)>>
    [] m.op = "click"      -> <<Press(m.button), Lift(m.button)>>
    [] m.op = "modclick"   -> IF m.numeric
                              THEN WithKey(m.key, <<Press(m.key), Warp(m.to), Press(m.button),
                                                    Lift(m.button), Lift(m.key)>>)
                              ELSE <<>>
    [] m.op = "releaseall" -> <<LiftAll>>
    [] OTHER               -> <<>>

(* The C side: int is 32 bits wide, and move_mouse keeps to the screen. *)
CInt(v) == ((v + HalfInt) % (2 * HalfInt)) - HalfInt
ClampWide(v, n) == IF v < 0 THEN 0 ELSE IF v > n THEN n - 1 ELSE v   \* mutant: off by one
Clamp(v, n) == IF v < 0 THEN 0 ELSE IF v >= n THEN n - 1 ELSE v
OnScreen(p) == <<Clamp(CInt(p[1]), ScreenW), Clamp(CInt(p[2]), ScreenH)>>

(* One X call.  A button the server does not have is an X error, which the   *)
(* error handler logs.                                                       *)
XCall(e) ==
  /\ down' = CASE e.act = "press"   -> down \cup ({e.on} \cap Inputs)
               [] e.act = "lift"    -> down \ {e.on}
               [] e.act = "liftall" -> down \ Liftable
               [] OTHER             -> down
  /\ pointer' = IF e.act = "warp" THEN OnScreen(e.on) ELSE pointer

-----------------------------------------------------------------------------
NoCommand == [op |-> "none", key |-> NoKey, button |-> NoButton, to |-> <<0, 0>>,
              hold |-> 0, numeric |-> FALSE]

(* main: a listener, or standard input as the only connection. *)
Init ==
  /\ mode \in {"tcp", "stdin"}
  /\ LET stdin == CHOOSE c \in Conns : TRUE
     IN  pc = [c \in Conns |-> IF mode = "stdin" /\ c = stdin THEN "read" ELSE "none"]
  /\ ws = [c \in Conns |-> FALSE]
  /\ gone = [c \in Conns |-> FALSE]
  /\ cmd = [c \in Conns |-> NoCommand]
  /\ at = [c \in Conns |-> 1]
  /\ slots = 0
  /\ xmu = NoConn
  /\ down = {}
  /\ pointer = <<0, 0>>
  /\ alive = TRUE
  /\ lines = 0

Goto(c, l) == pc' = [pc EXCEPT ![c] = l]

(* serveTCP: a connection that finds no slot is closed at once, which leaves  *)
(* the server as it was.                                                     *)
SlotFreeLate == slots <= MaxConns   \* mutant: one connection too many
SlotFree == slots < MaxConns

Accept(c) ==
  /\ mode = "tcp"
  /\ pc[c] = "none"
  /\ SlotFree
  /\ slots' = slots + 1
  /\ Goto(c, "sniff")
  /\ UNCHANGED <<mode, ws, gone, cmd, at, xmu, display, alive, lines>>

(* The peer closes its end, or keep-alive finds that it vanished. *)
HangUp(c) ==
  /\ pc[c] \in {"sniff", "read", "lock", "run", "ack"}
  /\ ~gone[c]
  /\ gone' = [gone EXCEPT ![c] = TRUE]
  /\ UNCHANGED <<mode, pc, ws, cmd, at, slots, xmu, display, alive, lines>>

(* tryUpgradeWS: anything but "GET " is a command connection, a request with *)
(* a key is upgraded, and the rest (a health probe, a broken request, fewer  *)
(* than four bytes) is handled here and the connection closed.               *)
Sniff(c, upgraded) ==
  /\ pc[c] = "sniff"
  /\ Goto(c, "read")
  /\ ws' = [ws EXCEPT ![c] = upgraded]
  /\ UNCHANGED <<mode, gone, cmd, at, slots, xmu, display, alive, lines>>

Handled(c) ==
  /\ pc[c] = "sniff"
  /\ Goto(c, "close")
  /\ UNCHANGED <<mode, ws, gone, cmd, at, slots, xmu, display, alive, lines>>

-----------------------------------------------------------------------------
(* serveScanner and serveScannerWithAck. *)

AfterLine(c) == IF ws[c] THEN "ack" ELSE "read"

(* A blank line does not take the mutex. *)
ReadLine(c, m) ==
  /\ pc[c] = "read"
  /\ lines < MaxLines
  /\ lines' = lines + 1
  /\ cmd' = [cmd EXCEPT ![c] = m]
  /\ Goto(c, IF m.op = "none" THEN AfterLine(c) ELSE "lock")
  /\ UNCHANGED <<mode, ws, gone, at, slots, xmu, display, alive>>

XmuIgnored(c) == TRUE   \* mutant: handleCommand without xmu.Lock
XmuFree(c) == xmu = NoConn

Lock(c) ==
  /\ pc[c] = "lock"
  /\ XmuFree(c)
  /\ xmu' = c
  /\ at' = [at EXCEPT ![c] = 1]
  /\ Goto(c, "run")
  /\ UNCHANGED <<mode, ws, gone, cmd, slots, display, alive, lines>>

Run(c) ==
  /\ pc[c] = "run"
  /\ at[c] <= Len(Script(cmd[c]))
  /\ XCall(Script(cmd[c])[at[c]])
  /\ at' = [at EXCEPT ![c] = @ + 1]
  /\ UNCHANGED <<mode, pc, ws, gone, cmd, slots, xmu, alive, lines>>

(* The deferred Unlock; the acknowledgement is written after it. *)
UnlockAfterAck(c) ==   \* mutant: the acknowledgement is written under xmu
  /\ pc[c] = "run"
  /\ at[c] > Len(Script(cmd[c]))
  /\ ~ws[c] \/ gone[c]
  /\ xmu' = NoConn
  /\ Goto(c, AfterLine(c))
  /\ cmd' = [cmd EXCEPT ![c] = NoCommand]
  /\ at' = [at EXCEPT ![c] = 1]
  /\ UNCHANGED <<mode, ws, gone, slots, display, alive, lines>>
UnlockSkipped(c) ==   \* mutant: a dropped command returns without Unlock
  /\ pc[c] = "run"
  /\ at[c] > Len(Script(cmd[c]))
  /\ at[c] > 1
  /\ xmu' = NoConn
  /\ Goto(c, AfterLine(c))
  /\ cmd' = [cmd EXCEPT ![c] = NoCommand]
  /\ at' = [at EXCEPT ![c] = 1]
  /\ UNCHANGED <<mode, ws, gone, slots, display, alive, lines>>
Unlock(c) ==
  /\ pc[c] = "run"
  /\ at[c] > Len(Script(cmd[c]))
  /\ xmu' = NoConn
  /\ Goto(c, AfterLine(c))
  /\ cmd' = [cmd EXCEPT ![c] = NoCommand]
  /\ at' = [at EXCEPT ![c] = 1]
  /\ UNCHANGED <<mode, ws, gone, slots, display, alive, lines>>

(* The write returns when the peer reads, or fails; either way is ignored. *)
Ack(c) ==
  /\ pc[c] = "ack"
  /\ Goto(c, "read")
  /\ UNCHANGED <<mode, ws, gone, cmd, at, slots, xmu, display, alive, lines>>

-----------------------------------------------------------------------------
(* The end of a command connection: end of file, a close frame, an overlong  *)
(* line or a read error.  No deadline ends a silent one.                     *)
ScanEndsQuietly(c) ==   \* mutant: an upgraded connection ends like a probe
  /\ pc[c] = "read"
  /\ Goto(c, IF ws[c] THEN "close" ELSE "lockrel")
  /\ UNCHANGED <<mode, ws, gone, cmd, at, slots, xmu, display, alive, lines>>
ScanEnds(c) ==
  /\ pc[c] = "read"
  /\ Goto(c, "lockrel")
  /\ UNCHANGED <<mode, ws, gone, cmd, at, slots, xmu, display, alive, lines>>

XmuIgnoredToRelease(c) == TRUE   \* mutant: releaseAllHeld without xmu.Lock
XmuFreeToRelease(c) == xmu = NoConn

LockRelease(c) ==
  /\ pc[c] = "lockrel"
  /\ XmuFreeToRelease(c)
  /\ xmu' = c
  /\ Goto(c, "release")
  /\ UNCHANGED <<mode, ws, gone, cmd, at, slots, display, alive, lines>>

(* release_all, and the deferred Unlock.  On standard input main returns. *)
Release(c) ==
  /\ pc[c] = "release"
  /\ XCall(LiftAll)
  /\ xmu' = NoConn
  /\ IF mode = "stdin" THEN Goto(c, "none") /\ alive' = FALSE
     ELSE Goto(c, "close") /\ UNCHANGED alive
  /\ UNCHANGED <<mode, ws, gone, cmd, at, slots, lines>>

(* The deferred calls of the goroutine: the connection, then the slot. *)
Close(c) ==
  /\ pc[c] = "close"
  /\ Goto(c, "free")
  /\ gone' = [gone EXCEPT ![c] = FALSE]
  /\ ws' = [ws EXCEPT ![c] = FALSE]
  /\ UNCHANGED <<mode, cmd, at, slots, xmu, display, alive, lines>>

FreeSlot(c) ==
  /\ pc[c] = "free"
  /\ Goto(c, "none")
  /\ slots' = slots - 1
  /\ UNCHANGED <<mode, ws, gone, cmd, at, xmu, display, alive, lines>>

(* x_io_error_handler: the process exits wherever it stands. *)
Exit ==
  /\ alive' = FALSE
  /\ pc' = [c \in Conns |-> "none"]
  /\ ws' = [c \in Conns |-> FALSE]
  /\ gone' = [c \in Conns |-> FALSE]
  /\ cmd' = [c \in Conns |-> NoCommand]
  /\ at' = [c \in Conns |-> 1]
  /\ xmu' = NoConn
  /\ slots' = 0
  /\ UNCHANGED <<mode, display, lines>>

-----------------------------------------------------------------------------
(* The steps of a goroutine that need nobody else. *)
Step(c) ==
  \/ Run(c) \/ Unlock(c) \/ Release(c) \/ Close(c) \/ FreeSlot(c)
  \/ gone[c] /\ (Handled(c) \/ Ack(c) \/ ScanEnds(c))

(* The steps that wait for a peer. *)
Peer(c) ==
  \/ Accept(c) \/ HangUp(c) \/ Handled(c) \/ Ack(c) \/ ScanEnds(c)
  \/ \E upgraded \in BOOLEAN : Sniff(c, upgraded)
  \/ \E m \in Commands : ReadLine(c, m)

Next ==
  \/ alive /\ \E c \in Conns : Step(c) \/ Lock(c) \/ LockRelease(c) \/ Peer(c)
  \/ alive /\ Exit
  \/ ~alive /\ UNCHANGED vars

Spec == Init /\ [][Next]_vars

(* Goroutines run, and a Mutex is not withheld from a waiter for ever (its   *)
(* starvation mode hands it over).  Nothing is assumed of peers.             *)
FairSpec ==
  /\ Spec
  /\ \A c \in Conns : /\ WF_vars(alive /\ Step(c))
                      /\ SF_vars(alive /\ (Lock(c) \/ LockRelease(c)))

-----------------------------------------------------------------------------
(* Properties. *)

Labels == {"none", "sniff", "read", "lock", "run", "ack", "lockrel",
           "release", "close", "free"}

(* Every variable has its type, and the pointer is on the screen. *)
TypeOK ==
  /\ mode \in {"tcp", "stdin"}
  /\ pc \in [Conns -> Labels]
  /\ ws \in [Conns -> BOOLEAN]
  /\ gone \in [Conns -> BOOLEAN]
  /\ cmd \in [Conns -> Commands \cup {NoCommand}]
  /\ at \in [Conns -> 1..6]
  /\ slots \in Int
  /\ xmu \in Conns \cup {NoConn}
  /\ down \subseteq Inputs
  /\ pointer \in (0 .. ScreenW - 1) \X (0 .. ScreenH - 1)
  /\ alive \in BOOLEAN
  /\ lines \in 0..MaxLines

(* serveTCP: a slot is taken by every connection a goroutine serves, and by  *)
(* nothing else, probes and broken requests included; so the limit is never  *)
(* passed and no slot leaks.                                                 *)
Served == {c \in Conns : pc[c] # "none"}
SlotsMatchServed ==
  mode = "tcp" => /\ slots = Cardinality(Served)
                  /\ slots <= MaxConns

(* handleCommand and releaseAllHeld under one xmu: when a modclick presses   *)
(* its button, its modifier is still down and the pointer still at its       *)
(* target, whatever other connections send and whoever hangs up meanwhile.   *)
ModclickIsWhole ==
  \A c \in Conns :
    pc[c] = "run" /\ cmd[c].op = "modclick" /\ at[c] \in {3, 4} =>
      /\ cmd[c].key \in down
      /\ pointer = OnScreen(cmd[c].to)

(* serveTCP's releaseAllHeld: once no connection that could send commands is *)
(* left, only buttons above 3 can still be down, however the connections     *)
(* ended and in whatever order their last commands and releases ran.         *)
Commanding == {c \in Conns : pc[c] \in {"read", "lock", "run", "ack", "lockrel", "release"}}
IdleIsLifted == alive /\ Commanding = {} => down \subseteq HighButtons

(* The calls the holder of xmu has still to make, from the n-th on, are made  *)
(* in one piece: the state users see is the one after them.                  *)
Calls ==
  IF xmu = NoConn THEN <<>>
  ELSE IF pc[xmu] = "release" THEN <<LiftAll>> ELSE Script(cmd[xmu])
From == IF xmu # NoConn /\ pc[xmu] = "run" THEN at[xmu] ELSE 1
Finished(d, calls, n) ==
  LET lifts == {i \in Inputs : \E k \in n .. Len(calls) : calls[k] = Lift(i)}
      presses == {i \in Inputs : \E k \in n .. Len(calls) :
                    /\ calls[k] = Press(i)
                    /\ \A j \in k + 1 .. Len(calls) : calls[j] # Lift(i)}
      all == IF \E k \in n .. Len(calls) : calls[k].act = "liftall" THEN Liftable ELSE {}
  IN  (d \ (lifts \cup all)) \cup presses
WillWarp(calls, n) == \E k \in n .. Len(calls) : calls[k].act = "warp"

(* What a whole command does, said without its steps. *)
EffectOf(m) ==
  LET modclicked == m.op = "modclick" /\ m.numeric /\ m.key # NoKey
      tapped == modclicked \/ (m.op = "key" /\ HoldOK(m.hold))
      Of(i, p) == IF p THEN {i} ELSE {}
  IN  [down |-> (Of(m.key, m.op = "keydown") \cup Of(m.button, m.op = "mousedown")) \cap Inputs,
       up |-> Of(m.key, m.op = "keyup" \/ tapped)
              \cup Of(m.button, m.op \in {"mouseup", "click"} \/ modclicked)
              \cup (IF m.op = "releaseall" THEN Liftable ELSE {}),
       to |-> IF m.op = "mousemove" \/ modclicked THEN OnScreen(m.to) ELSE <<>>]

Abstract == INSTANCE LegacyInput
  WITH Effect <- EffectOf,
       Nowhere <- <<>>,
       on <- [c \in Conns |-> pc[c] \in {"read", "lock", "run", "ack", "lockrel"}],
       down <- Finished(down, Calls, From),
       pointer <- IF WillWarp(Calls, From) THEN OnScreen(cmd[xmu].to) ELSE pointer

(* v2line.Dispatch is a sequence of X calls, yet to every client a command   *)
(* takes effect at once, at the moment it gets xmu, and a command connection *)
(* lifts everything exactly once, when it leaves; a probe lifts nothing.     *)
(* Only the exit of the daemon can leave a command half done.                *)
AtomicCommands == Abstract!Spec

(* serveTCP: a connection whose peer hung up is closed and its slot returned, *)
(* while other peers stay silent, flood the mutex or stop reading.           *)
GoneClientIsCleanedUp == \A c \in Conns : gone[c] ~> pc[c] = "none"

(* handleCommand: a command that was read gets the mutex and completes, even *)
(* though a WebSocket client that never reads its acknowledgements blocks    *)
(* its own goroutine for ever.                                               *)
CommandsComplete ==
  \A c \in Conns : pc[c] = "lock" ~> pc[c] \in {"read", "ack", "none"}
=============================================================================
