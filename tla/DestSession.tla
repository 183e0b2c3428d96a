---------------------------- MODULE DestSession ----------------------------
(***************************************************************************)
(* The destination server: the accept loop and its connection slots        *)
(* (serveVNext), one goroutine per connection (serveVNextConn), the        *)
(* validate-then-dispatch path (HandleLine, Dispatch) and the per-connection *)
(* record of held keys and buttons (Session).                              *)
(*                                                                         *)
(* Every X call of a goroutine takes effect in one step: module XOwner     *)
(* shows that the owner thread serialises them.  The step in which a call  *)
(* takes effect and the step in which the session records it are separate, *)
(* so that other connections act in between.                               *)
(*                                                                         *)
(* Keys and mouse buttons go through two maps and two backend methods of   *)
(* the same shape; here both are inputs, and held[c] is the union of the   *)
(* session's two maps.                                                     *)
(***************************************************************************)
EXTENDS Integers, FiniteSets

CONSTANTS
  Conns,          \* client connections; an identity is reused once closed
  Keys,           \* keycodes
  Buttons,        \* mouse buttons Decode accepts (1..3)
  Names,          \* key names a client may write
  NoInput,        \* keycode 0, and the value of "no input"
  KeycodeOf,      \* the X server's answer to KeycodeFor for each name
  Uses,           \* Uses[c]: the inputs the client of connection c ever names
  UidOf, GidOf,   \* SO_PEERCRED of each connection
  AllowUids,      \* -vnext-allow
  AllowGids,      \* -vnext-allow-gid, {} when not given
  MaxConns,       \* destMaxConns
  BackendFaults,  \* may SendKey and SendButton return an error?
  MaxRequests,    \* bound: requests written in a behaviour
  MaxCrashes      \* bound: daemon exits (and restarts) in a behaviour

Inputs == Keys \cup Buttons

ASSUME ConstantsAssumption ==
  /\ IsFiniteSet(Conns)
  /\ NoInput \notin Inputs
  /\ KeycodeOf \in [Names -> Keys \cup {NoInput}]
  /\ Uses \in [Conns -> SUBSET Inputs]
  /\ MaxConns \in Nat
  /\ BackendFaults \in BOOLEAN
  /\ MaxRequests \in Nat
  /\ MaxCrashes \in Nat

VARIABLES
  pc,       \* pc[c]: where the goroutine of connection c stands
  closing,  \* closing[c]: its read loop has ended, the deferred Release runs
  req,      \* req[c]: the request being dispatched
  cur,      \* cur[c]: the input whose X call is under way
  code,     \* code[c]: Outcome.Code of the request (or of the Release)
  held,     \* held[c]: Session.keys and Session.buttons
  todo,     \* todo[c]: the snapshot Release still has to send ups for
  slots,    \* tokens in connSem
  down,     \* X server: inputs that are down
  orphans,  \* inputs down that no session is left to lift
  sent,     \* requests written so far
  crashes   \* exits so far

goroutine == <<pc, closing, req, cur, code, held, todo>>
vars == <<goroutine, slots, down, orphans, sent, crashes>>

-----------------------------------------------------------------------------
(* Requests and outcomes. *)

Codes == {"Submitted", "NotSubmitted", "InvalidRequest", "Conflict", "Unavailable"}
Ops == {"key", "button", "release", "window", "unknown", "invalid"}

(* A request after Decode.  "window" stands for the operations that touch no *)
(* held input: move, inspect, activate and fullscreen.                       *)
Request == [op : Ops, arg : Names \cup Buttons \cup {NoInput}, press : BOOLEAN]
NoRequest == [op |-> "unknown", arg |-> NoInput, press |-> FALSE]

(* The lines the client of connection c may write. *)
Lines(c) ==
  LET names == {n \in Names : KeycodeOf[n] \in Uses[c] \cup {NoInput}}
  IN  [op : {"key"}, arg : names, press : BOOLEAN]
      \cup [op : {"button"}, arg : Uses[c] \cap Buttons, press : BOOLEAN]
      \cup [op : {"release", "window", "unknown", "invalid"}, arg : {NoInput},
            press : {FALSE}]

Idle(c) == pc[c] \in {"none", "backlog"}
Served(c) == ~Idle(c)

AllowPeer(c) ==
  /\ UidOf[c] \in AllowUids
  /\ AllowGids = {} \/ GidOf[c] \in AllowGids

Init ==
  /\ pc = [c \in Conns |-> "none"]
  /\ closing = [c \in Conns |-> FALSE]
  /\ req = [c \in Conns |-> NoRequest]
  /\ cur = [c \in Conns |-> NoInput]
  /\ code = [c \in Conns |-> "Submitted"]
  /\ held = [c \in Conns |-> {}]
  /\ todo = [c \in Conns |-> {}]
  /\ slots = 0
  /\ down = {}
  /\ orphans = {}
  /\ sent = 0
  /\ crashes = 0

Goto(c, l) == pc' = [pc EXCEPT ![c] = l]

-----------------------------------------------------------------------------
(* The accept loop. *)

(* A client connects to the socket. *)
Connect(c) ==
  /\ pc[c] = "none"
  /\ Goto(c, "backlog")
  /\ UNCHANGED <<closing, req, cur, code, held, todo, slots, down, orphans, sent, crashes>>

(* Accept, then admission, then a slot: a peer that is not allowed, or finds *)
(* no free slot, is closed at once.                                          *)
TurnedLate(c) == ~AllowPeer(c) \/ slots > MaxConns   \* mutant: one too many
Turned(c) == ~AllowPeer(c) \/ slots >= MaxConns

Accept(c) ==
  /\ pc[c] = "backlog"
  /\ IF Turned(c)
     THEN Goto(c, "none") /\ UNCHANGED <<held, slots>>
     ELSE /\ Goto(c, "read")
          /\ held' = [held EXCEPT ![c] = {}]
          /\ slots' = slots + 1
  /\ UNCHANGED <<closing, req, cur, code, todo, down, orphans, sent, crashes>>

-----------------------------------------------------------------------------
(* HandleLine: Decode, then Dispatch. *)

Decoded(r) ==
  CASE r.op = "invalid" -> "reply"
    [] r.op = "unknown" -> "reply"
    [] r.op = "key"     -> "keycode"
    [] r.op = "button"  -> "send"
    [] r.op = "window"  -> "window"
    [] r.op = "release" -> "release"

DecodeCode(r) ==
  CASE r.op = "invalid" -> "InvalidRequest"
    [] r.op = "unknown" -> "NotSubmitted"
    [] OTHER            -> "Submitted"

ReadLine(c, r) ==
  /\ pc[c] = "read"
  /\ sent < MaxRequests
  /\ sent' = sent + 1
  /\ req' = [req EXCEPT ![c] = r]
  /\ code' = [code EXCEPT ![c] = DecodeCode(r)]
  /\ cur' = [cur EXCEPT ![c] = IF r.op = "button" THEN r.arg ELSE NoInput]
  /\ todo' = [todo EXCEPT ![c] = IF r.op = "release" THEN held[c] ELSE {}]
  /\ Goto(c, Decoded(r))
  /\ UNCHANGED <<closing, held, slots, down, orphans, crashes>>

(* OpKey, first call: an unresolved name is refused. *)
KeycodeFor(c) ==
  LET kc == KeycodeOf[req[c].arg]
  IN  /\ pc[c] = "keycode"
      /\ IF kc = NoInput
         THEN /\ code' = [code EXCEPT ![c] = "InvalidRequest"]
              /\ Goto(c, "reply")
              /\ UNCHANGED cur
         ELSE /\ cur' = [cur EXCEPT ![c] = kc]
              /\ Goto(c, "send")
              /\ UNCHANGED code
      /\ UNCHANGED <<closing, req, held, todo, slots, down, orphans, sent, crashes>>

(* What an XTEST transition does to the X server's key and button state. *)
XTest(i, press) ==
  /\ down' = IF press THEN down \cup {i} ELSE down \ {i}
  /\ orphans' = orphans \ {i}

SendFails(c) ==
  /\ BackendFaults
  /\ code' = [code EXCEPT ![c] = "Unavailable"]
  /\ Goto(c, "reply")
  /\ UNCHANGED <<down, orphans>>

Send(c) ==
  /\ pc[c] = "send"
  /\ \/ XTest(cur[c], req[c].press) /\ Goto(c, "note") /\ UNCHANGED code
     \/ SendFails(c)
  /\ UNCHANGED <<closing, req, cur, held, todo, slots, sent, crashes>>

(* noteKey, noteButton. *)
NotedNothing(c, i, press) == held[c]                  \* mutant: hold not recorded
NotedIgnoringUps(c, i, press) == held[c] \cup {i}     \* mutant: up does not delete
Noted(c, i, press) == IF press THEN held[c] \cup {i} ELSE held[c] \ {i}

Note(c) ==
  /\ pc[c] = "note"
  /\ held' = [held EXCEPT ![c] = Noted(c, cur[c], req[c].press)]
  /\ Goto(c, "reply")
  /\ UNCHANGED <<closing, req, cur, code, todo, slots, down, orphans, sent, crashes>>

(* move, inspect, activate, fullscreen: no held input is touched. *)
Window(c) ==
  /\ pc[c] = "window"
  /\ \E o \in {"Submitted", "Conflict", "Unavailable"} : code' = [code EXCEPT ![c] = o]
  /\ Goto(c, "reply")
  /\ UNCHANGED <<closing, req, cur, held, todo, slots, down, orphans, sent, crashes>>

-----------------------------------------------------------------------------
(* Session.Release: keys of the snapshot first, then its buttons, each up    *)
(* tried once; what could not be lifted stays tracked.                       *)

ReleasableGlobal(c) == down   \* mutant: a global releaseall
Releasable(c) ==
  IF todo[c] \cap Keys # {} THEN todo[c] \cap Keys ELSE todo[c]

ReleaseFailsSilently(c, i) ==   \* mutant: the error is not reported
  /\ BackendFaults
  /\ todo' = [todo EXCEPT ![c] = @ \ {i}]
  /\ UNCHANGED <<pc, cur, code, down, orphans>>
ReleaseFails(c, i) ==
  /\ BackendFaults
  /\ code' = [code EXCEPT ![c] = "Unavailable"]
  /\ todo' = [todo EXCEPT ![c] = @ \ {i}]
  /\ UNCHANGED <<pc, cur, down, orphans>>

ReleaseUp(c) ==
  /\ pc[c] = "release"
  /\ \E i \in Releasable(c) :
       \/ /\ XTest(i, FALSE)
          /\ cur' = [cur EXCEPT ![c] = i]
          /\ Goto(c, "forget")
          /\ UNCHANGED <<code, todo>>
       \/ ReleaseFails(c, i)
  /\ UNCHANGED <<closing, req, held, slots, sent, crashes>>

ForgetSnapshot(c) ==   \* mutant: the whole snapshot is deleted after one up
  /\ pc[c] = "forget"
  /\ held' = [held EXCEPT ![c] = @ \ todo[c]]
  /\ todo' = [todo EXCEPT ![c] = {}]
  /\ Goto(c, "release")
  /\ UNCHANGED <<closing, req, cur, code, slots, down, orphans, sent, crashes>>
Forget(c) ==
  /\ pc[c] = "forget"
  /\ held' = [held EXCEPT ![c] = @ \ {cur[c]}]
  /\ todo' = [todo EXCEPT ![c] = @ \ {cur[c]}]
  /\ Goto(c, "release")
  /\ UNCHANGED <<closing, req, cur, code, slots, down, orphans, sent, crashes>>

(* The snapshot is used up: a release request is answered, and the deferred  *)
(* Release of a closing connection is followed by conn.Close.                *)
ReleaseDone(c) ==
  /\ pc[c] = "release"
  /\ todo[c] = {}
  /\ ~closing[c]
  /\ Goto(c, "reply")
  /\ UNCHANGED <<closing, req, cur, code, held, todo, slots, down, orphans, sent, crashes>>

Close(c) ==
  /\ pc[c] = "release"
  /\ todo[c] = {}
  /\ closing[c]
  /\ Goto(c, "closed")
  /\ closing' = [closing EXCEPT ![c] = FALSE]
  /\ req' = [req EXCEPT ![c] = NoRequest]
  /\ cur' = [cur EXCEPT ![c] = NoInput]
  /\ code' = [code EXCEPT ![c] = "Submitted"]
  /\ held' = [held EXCEPT ![c] = {}]
  /\ orphans' = orphans \cup (held[c] \cap down)
  /\ UNCHANGED <<todo, slots, down, sent, crashes>>

(* The goroutine of serveVNext returns its slot. *)
FreeSlot(c) ==
  /\ pc[c] = "closed"
  /\ Goto(c, "none")
  /\ slots' = slots - 1
  /\ UNCHANGED <<closing, req, cur, code, held, todo, down, orphans, sent, crashes>>

-----------------------------------------------------------------------------
(* The read loop of serveVNextConn. *)

(* The loop ends and the deferred Release takes its snapshot. *)
EndLoopWithoutRelease(c) ==   \* mutant: no deferred Release
  /\ closing' = [closing EXCEPT ![c] = TRUE]
  /\ todo' = [todo EXCEPT ![c] = {}]
  /\ code' = [code EXCEPT ![c] = "Submitted"]
  /\ Goto(c, "release")
  /\ UNCHANGED <<req, cur, held, slots, down, orphans, sent, crashes>>
EndLoop(c) ==
  /\ closing' = [closing EXCEPT ![c] = TRUE]
  /\ todo' = [todo EXCEPT ![c] = held[c]]
  /\ code' = [code EXCEPT ![c] = "Submitted"]
  /\ Goto(c, "release")
  /\ UNCHANGED <<req, cur, held, slots, down, orphans, sent, crashes>>

(* The answer is written; the locals of the iteration go out of scope. *)
Reply(c) ==
  /\ pc[c] = "reply"
  /\ Goto(c, "read")
  /\ req' = [req EXCEPT ![c] = NoRequest]
  /\ cur' = [cur EXCEPT ![c] = NoInput]
  /\ code' = [code EXCEPT ![c] = "Submitted"]
  /\ UNCHANGED <<closing, held, todo, slots, down, orphans, sent, crashes>>

(* The peer is gone, or does not read within the write deadline. *)
ReplyFails(c) == pc[c] = "reply" /\ EndLoop(c)

(* EOF, a read error or an overlong line. *)
ScanEnds(c) == pc[c] = "read" /\ EndLoop(c)

(* The read deadline destReadIdle expires. *)
ScanDeadlineUnset(c) == pc[c] = "read" /\ FALSE /\ UNCHANGED vars   \* mutant
ScanDeadline(c) == pc[c] = "read" /\ EndLoop(c)

-----------------------------------------------------------------------------
(* The process exits (Accept error, X I/O error, owner panic) and is started *)
(* again: every session is gone, the X server keeps its state.               *)
Crash ==
  /\ crashes < MaxCrashes
  /\ crashes' = crashes + 1
  /\ pc' = [c \in Conns |-> "none"]
  /\ closing' = [c \in Conns |-> FALSE]
  /\ req' = [c \in Conns |-> NoRequest]
  /\ cur' = [c \in Conns |-> NoInput]
  /\ code' = [c \in Conns |-> "Submitted"]
  /\ held' = [c \in Conns |-> {}]
  /\ todo' = [c \in Conns |-> {}]
  /\ slots' = 0
  /\ orphans' = down
  /\ UNCHANGED <<down, sent>>

(* The steps a connection's goroutine takes by itself. *)
Step(c) ==
  \/ KeycodeFor(c) \/ Send(c) \/ Note(c) \/ Window(c)
  \/ ReleaseUp(c) \/ Forget(c) \/ ReleaseDone(c) \/ Close(c) \/ FreeSlot(c)
  \/ Reply(c) \/ ScanDeadline(c)

(* The steps that depend on the client. *)
Client(c) ==
  \/ Connect(c)
  \/ \E r \in Lines(c) : ReadLine(c, r)
  \/ ReplyFails(c)
  \/ ScanEnds(c)

Next ==
  \/ \E c \in Conns : Accept(c) \/ Step(c) \/ Client(c)
  \/ Crash

Spec == Init /\ [][Next]_vars

(* Goroutines and the accept loop keep running, and the idle deadline fires; *)
(* nothing is assumed of clients.                                            *)
FairSpec == Spec /\ \A c \in Conns : WF_vars(Step(c)) /\ WF_vars(Accept(c))

-----------------------------------------------------------------------------
(* Properties. *)

Labels == {"none", "backlog", "read", "keycode", "send", "note", "window",
           "release", "forget", "reply", "closed"}

(* Every variable has its type; the types are those of the Go variables. *)
TypeOK ==
  /\ pc \in [Conns -> Labels]
  /\ closing \in [Conns -> BOOLEAN]
  /\ req \in [Conns -> Request]
  /\ cur \in [Conns -> Inputs \cup {NoInput}]
  /\ code \in [Conns -> Codes]
  /\ held \in [Conns -> SUBSET Inputs]
  /\ todo \in [Conns -> SUBSET Inputs]
  /\ slots \in Int
  /\ down \in SUBSET Inputs
  /\ orphans \in SUBSET Inputs
  /\ sent \in 0..MaxRequests
  /\ crashes \in 0..MaxCrashes

(* Between an X call and its bookkeeping the session's maps are behind the   *)
(* X server: a press under way is not yet tracked, a lifted input still is.  *)
PressUnderWay(c, i) == pc[c] = "note" /\ cur[c] = i /\ req[c].press
LiftUnderWay(c, i) ==
  /\ cur[c] = i
  /\ pc[c] = "forget" \/ (pc[c] = "note" /\ ~req[c].press)

(* Connection c answers for input i: its next Release sends an up for i. *)
AnswersFor(c, i) ==
  \/ i \in held[c] /\ ~LiftUnderWay(c, i)
  \/ PressUnderWay(c, i)

(* The ledger the sessions keep between them. *)
Ledger == INSTANCE HoldLedger WITH
  Faults <- BackendFaults,
  answers <- [c \in Conns |-> {i \in Inputs : AnswersFor(c, i)}]

(* The two-step bookkeeping of the sessions, interleaved, implements the     *)
(* atomic ledger: every X call of Dispatch and Release is one entry of the   *)
(* ledger, and every other step leaves it alone.                             *)
ImplementsLedger == Ledger!Spec

(* Whatever the interleaving of connections, an input that is down has a     *)
(* live session whose Release will lift it, unless a failed up or an exit of *)
(* the daemon orphaned it (Session, noteKey, noteButton, Release).           *)
EveryDownInputIsOwned ==
  \A i \in down \ orphans : \E c \in Conns : AnswersFor(c, i)

(* An input is orphaned only by a failed up or by an exit of the daemon: no  *)
(* path out of serveVNextConn skips the Release.                             *)
OrphansNeedFailure == orphans # {} => BackendFaults \/ crashes > 0

(* Release reports success only when the session tracks nothing any more,    *)
(* and an error only while the hold it could not lift is still tracked.      *)
ReleaseOutcomeIsExact ==
  \A c \in Conns :
    ((pc[c] = "reply" /\ req[c].op = "release") \/ (pc[c] = "release" /\ todo[c] = {}))
      => (code[c] = "Submitted" <=> held[c] = {})

(* connSem counts exactly the connections being served, never more than      *)
(* destMaxConns: no path out of serveVNextConn leaks or returns twice a slot. *)
SlotsCountServed ==
  /\ slots = Cardinality({c \in Conns : Served(c)})
  /\ slots <= MaxConns

(* As long as no other client names an input, the session that tracks it and *)
(* the X server agree that it is down.                                       *)
PrivateHoldIsDown ==
  \A c \in Conns, i \in Inputs :
    (\A d \in Conns \ {c} : i \notin Uses[d]) /\ AnswersFor(c, i) => i \in down

(* An input goes up only on an explicit up request for it, or in a Release   *)
(* of a session that tracks it; Release is never a global releaseall.        *)
LiftsOnlyOwnHolds ==
  [][\A i \in down \ down' : \E c \in Conns :
       \/ pc[c] = "send" /\ cur[c] = i /\ ~req[c].press
       \/ pc[c] = "release" /\ i \in held[c]]_vars

(* With finitely many requests, every served connection ends and gives its   *)
(* slot back: silent clients are closed by the idle deadline.                *)
EveryConnectionEnds ==
  \A c \in Conns : Served(c) ~> pc[c] = "none"

(* When clients fall silent, every input goes up again: the idle deadline    *)
(* ends each connection and the deferred Release lifts what it holds (for a  *)
(* backend that does not fail and a daemon that does not exit).              *)
InputSettles ==
  (sent = MaxRequests /\ ~BackendFaults) ~> (down = {} \/ crashes > 0)
=============================================================================
