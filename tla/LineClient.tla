----------------------------- MODULE LineClient -----------------------------
(***************************************************************************)
(* Package x11input, the Go client of the legacy protocol, from the launch   *)
(* of the daemon to the last line: WaitReady on the daemon's output, Dial,   *)
(* WriteLine and Close from several goroutines, and the server's scanner at  *)
(* the other end of the connection.                                         *)
(*                                                                         *)
(* A line is two pieces, its text and the rest with the newline, so that a   *)
(* write can stop half-way; the socket holds Room pieces, so that a slow     *)
(* server makes writers wait.  Module LineReader shows that the scanner gets *)
(* a plain connection's bytes into lines exactly.                           *)
(*                                                                         *)
(* The server takes four bytes before it knows what a connection is.  The    *)
(* pieces of a "tiny" line, a character and its newline, are a byte each;    *)
(* the text of any other line has four.  A "get" line begins with "GET ".    *)
(* The text of a "huge" line is 1 MiB, which WriteLine takes and the scanner *)
(* does not; all other lines are far from that, also one behind the other.   *)
(***************************************************************************)
EXTENDS Integers, Sequences, FiniteSets

CONSTANTS
  Threads,    \* goroutines that share one Client
  NoThread,
  Room,       \* pieces the socket buffers hold
  MaxCalls,   \* bound: calls of a goroutine
  MaxWaits,   \* bound: calls of WaitReady
  KindOf      \* what a goroutine writes in its n-th call

Lines == Threads \X (1..MaxCalls)
Pieces == [line : Lines, part : {"text", "rest"}]

ASSUME LineClientAssumption ==
  /\ IsFiniteSet(Threads)
  /\ NoThread \notin Threads
  /\ Room \in Nat \ (0..3)
  /\ MaxCalls \in Nat
  /\ MaxWaits \in Nat
  /\ KindOf \in [Lines -> {"plain", "tiny", "get", "huge"}]

VARIABLES
  (* the daemon *)
  daemon,     \* "starting", "listening", "serving" (it printed READY) or "dead"
  stdout,     \* READY stands unread on its standard output
  acc,        \* pieces of the line its scanner is assembling
  done,       \* lines it executed, each the sequence of pieces it was made of
  conn,       \* what it has made of the connection
  (* WaitReady *)
  waits,      \* calls made
  waiting,    \* a call is in progress
  orphans,    \* goroutines of cancelled calls, still in Scan
  ready,      \* a call returned READY
  (* the Client *)
  open,       \* "no" (not dialled), "yes" or "closed" (conn is nil)
  mu,         \* holder of Client.mu
  deadline,   \* the connection has a write deadline
  pc,         \* where a goroutine stands
  op,         \* its call: "line", "bad" (a line WriteLine refuses) or "close"
  timed,      \* its context has a deadline
  calls,      \* calls it has made
  res,        \* the result of its last call
  (* the connection *)
  wire,       \* pieces written and not yet read
  fin,        \* the client's end is closed
  (* history *)
  ok,         \* lines whose WriteLine returned nil, in the order of the writes
  broken      \* a write stopped half-way

server == <<daemon, stdout, acc, done, conn>>
wait == <<waits, waiting, orphans, ready>>
client == <<open, mu, deadline, pc, op, timed, calls, res>>
vars == <<server, wait, client, wire, fin, ok, broken>>

(* Before the scanner runs a connection is "queued" by the kernel and then in *)
(* tryUpgradeWS ("sniff"); "scan" is serveScanner, which ends at the end of   *)
(* the connection ("eof") or at a line that is too long.  The handler also    *)
(* returns, and closes the connection, when it is one too many ("full"), when *)
(* it ends within four bytes ("short") or is no HTTP request that it knows.   *)
Conns == {"queued", "sniff", "scan", "eof", "full", "short", "http", "toolong"}
Unserved == conn \in {"full", "short", "http", "toolong"}

Piece(t, part) == [line |-> <<t, calls[t]>>, part |-> part]

-----------------------------------------------------------------------------
Init ==
  /\ daemon = "starting"
  /\ stdout = FALSE
  /\ acc = <<>>
  /\ done = <<>>
  /\ conn = "queued"
  /\ waits = 0
  /\ waiting = FALSE
  /\ orphans = 0
  /\ ready = FALSE
  /\ open = "no"
  /\ mu = NoThread
  /\ deadline = FALSE
  /\ pc = [t \in Threads |-> "idle"]
  /\ op = [t \in Threads |-> "line"]
  /\ timed = [t \in Threads |-> FALSE]
  /\ calls = [t \in Threads |-> 0]
  /\ res = [t \in Threads |-> "nil"]
  /\ wire = <<>>
  /\ fin = FALSE
  /\ ok = <<>>
  /\ broken = FALSE

(* serveTCP: up to three attempts to listen, then the READY line.  The        *)
(* daemon may also exit, at any time.                                        *)
Listen ==
  /\ daemon = "starting"
  /\ daemon' = "listening"
  /\ UNCHANGED <<stdout, acc, done, conn, wait, client, wire, fin, ok, broken>>

PrintReady ==
  /\ daemon = "listening"
  /\ daemon' = "serving"
  /\ stdout' = TRUE
  /\ UNCHANGED <<acc, done, conn, wait, client, wire, fin, ok, broken>>

Die ==
  /\ daemon # "dead"
  /\ daemon' = "dead"
  /\ wire' = <<>>
  /\ acc' = <<>>
  /\ UNCHANGED <<stdout, done, conn, wait, client, fin, ok, broken>>

-----------------------------------------------------------------------------
(* WaitReady: a goroutine scans one line; a cancelled call leaves it behind. *)
WaitReady ==
  /\ ~waiting
  /\ ~ready
  /\ waits < MaxWaits
  /\ waits' = waits + 1
  /\ waiting' = TRUE
  /\ UNCHANGED <<server, orphans, ready, client, wire, fin, ok, broken>>

Cancelled ==
  /\ waiting
  /\ waiting' = FALSE
  /\ orphans' = orphans + 1
  /\ UNCHANGED <<server, waits, ready, client, wire, fin, ok, broken>>

(* The line goes to whichever goroutine reads it. *)
SeeReady ==
  /\ waiting
  /\ stdout
  /\ stdout' = FALSE
  /\ waiting' = FALSE
  /\ ready' = TRUE
  /\ UNCHANGED <<daemon, acc, done, conn, waits, orphans, client, wire, fin, ok, broken>>

OrphanSees ==
  /\ orphans > 0
  /\ stdout
  /\ stdout' = FALSE
  /\ orphans' = orphans - 1
  /\ UNCHANGED <<daemon, acc, done, conn, waits, waiting, ready, client, wire, fin, ok, broken>>

SeeNoEOF == FALSE /\ UNCHANGED vars   \* mutant: a silent end of file is no result
SeeEOF ==
  /\ waiting
  /\ daemon = "dead"
  /\ ~stdout
  /\ waiting' = FALSE
  /\ UNCHANGED <<server, waits, orphans, ready, client, wire, fin, ok, broken>>

(* Dial, by a caller that saw READY. *)
Dial ==
  /\ ready
  /\ open = "no"
  /\ daemon \in {"listening", "serving"}
  /\ open' = "yes"
  /\ UNCHANGED <<server, wait, mu, deadline, pc, op, timed, calls, res, wire, fin, ok, broken>>

-----------------------------------------------------------------------------
(* WriteLine and Close. *)

Call(t, o, d) ==
  /\ open # "no"
  /\ pc[t] = "idle"
  /\ calls[t] < MaxCalls
  /\ d => o = "line"
  /\ calls' = [calls EXCEPT ![t] = @ + 1]
  /\ op' = [op EXCEPT ![t] = o]
  /\ timed' = [timed EXCEPT ![t] = d]
  /\ pc' = [pc EXCEPT ![t] = "lock"]
  /\ UNCHANGED <<server, wait, open, mu, deadline, res, wire, fin, ok, broken>>

(* WriteLine with a context that is nil or over. *)
CallOver(t) ==
  /\ open # "no"
  /\ pc[t] = "idle"
  /\ calls[t] < MaxCalls
  /\ calls' = [calls EXCEPT ![t] = @ + 1]
  /\ res' = [res EXCEPT ![t] = "error"]
  /\ UNCHANGED <<server, wait, open, mu, deadline, pc, op, timed, wire, fin, ok, broken>>

Finish(t, r) ==
  /\ res' = [res EXCEPT ![t] = r]
  /\ pc' = [pc EXCEPT ![t] = "idle"]

(* Calls that end under the lock: the connection is gone, the line is not     *)
(* one line or too long, or the call is Close.                               *)
MuIgnored(t) == TRUE   \* mutant: the mutex is forgotten
MuFree(t) == mu = NoThread

NoWrite(t) ==
  /\ pc[t] = "lock"
  /\ MuFree(t)
  /\ open = "closed" \/ op[t] # "line"
  /\ Finish(t, CASE op[t] = "close"  -> "nil"
                 [] open = "closed" -> "closed"
                 [] OTHER           -> "refused")
  /\ open' = IF op[t] = "close" THEN "closed" ELSE open
  /\ fin' = (fin \/ op[t] = "close")
  /\ UNCHANGED <<server, wait, mu, deadline, op, timed, calls, wire, ok, broken>>

(* SetWriteDeadline fails: nothing is set, and nothing written. *)
NoDeadline(t) ==
  /\ pc[t] = "lock"
  /\ MuFree(t)
  /\ open = "yes"
  /\ op[t] = "line"
  /\ timed[t]
  /\ Finish(t, "error")
  /\ UNCHANGED <<server, wait, open, mu, deadline, op, timed, calls, wire, fin, ok, broken>>

StartWrite(t) ==
  /\ pc[t] = "lock"
  /\ MuFree(t)
  /\ open = "yes"
  /\ op[t] = "line"
  /\ mu' = t
  /\ deadline' = (deadline \/ timed[t])
  /\ pc' = [pc EXCEPT ![t] = "text"]
  /\ UNCHANGED <<server, wait, open, op, timed, calls, res, wire, fin, ok, broken>>

(* The socket takes a piece, also when nobody will read it. *)
Push(t, part) ==
  /\ daemon # "dead"
  /\ ~fin
  /\ IF Unserved THEN UNCHANGED wire
     ELSE Len(wire) < Room /\ wire' = Append(wire, Piece(t, part))

PutText(t) ==
  /\ pc[t] = "text"
  /\ Push(t, "text")
  /\ pc' = [pc EXCEPT ![t] = "rest"]
  /\ UNCHANGED <<server, wait, open, mu, deadline, op, timed, calls, res, fin, ok, broken>>

(* The deferred calls: the deadline is taken back, then the mutex. *)
UnwindKeeps(t) ==   \* mutant: the deadline stays
  /\ mu' = NoThread
  /\ UNCHANGED deadline
Unwind(t) ==
  /\ mu' = NoThread
  /\ deadline' = (deadline /\ ~timed[t])

PutRest(t) ==
  /\ pc[t] = "rest"
  /\ Push(t, "rest")
  /\ ok' = Append(ok, <<t, calls[t]>>)
  /\ Finish(t, "nil")
  /\ Unwind(t)
  /\ UNCHANGED <<server, wait, open, op, timed, calls, fin, broken>>

(* The deadline of the connection passes, or its other end is gone.  What was *)
(* written stays written, and the Client stays usable.                       *)
WriteFailsLocked(t, r) ==   \* mutant: the error path returns without Unlock
  /\ pc[t] \in {"text", "rest"}
  /\ IF r = "timeout" THEN deadline ELSE daemon = "dead" \/ fin \/ Unserved
  /\ broken' = (broken \/ pc[t] = "rest")
  /\ Finish(t, r)
  /\ UNCHANGED <<server, wait, open, mu, deadline, op, timed, calls, wire, fin, ok>>
WriteRetried(t, r) ==   \* mutant: the line is written again
  /\ pc[t] \in {"text", "rest"}
  /\ IF r = "timeout" THEN deadline ELSE daemon = "dead" \/ fin \/ Unserved
  /\ broken' = (broken \/ pc[t] = "rest")
  /\ pc' = [pc EXCEPT ![t] = "text"]
  /\ UNCHANGED <<server, wait, open, mu, deadline, op, timed, calls, res, wire, fin, ok>>
WriteFails(t, r) ==
  /\ pc[t] \in {"text", "rest"}
  /\ IF r = "timeout" THEN deadline ELSE daemon = "dead" \/ fin \/ Unserved
  /\ broken' = (broken \/ pc[t] = "rest")
  /\ Finish(t, r)
  /\ Unwind(t)
  /\ UNCHANGED <<server, wait, open, op, timed, calls, wire, fin, ok>>

-----------------------------------------------------------------------------
(* serveTCP: a connection is accepted, or dropped when ten others are served. *)
Accept ==
  /\ daemon = "serving"
  /\ open # "no"
  /\ conn = "queued"
  /\ conn' = "sniff"
  /\ UNCHANGED <<daemon, stdout, acc, done, wait, client, wire, fin, ok, broken>>

(* The handler is gone, and what was written to it is lost. *)
Drop(c) ==
  /\ conn' = c
  /\ wire' = <<>>
  /\ acc' = <<>>
  /\ UNCHANGED <<daemon, stdout, done, wait, client, fin, ok, broken>>

Refuse ==
  /\ daemon = "serving"
  /\ open # "no"
  /\ conn = "queued"
  /\ Drop("full")

(* tryUpgradeWS waits for four bytes, which the scanner reads again.  After    *)
(* "GET " it reads header lines; without a whole upgrade request, which no      *)
(* caller of WriteLine means to send, none of them is executed.               *)
FourBytes == Len(wire) >= 4 \/ \E j \in DOMAIN wire : KindOf[wire[j].line] # "tiny"

Sniff ==
  /\ daemon = "serving"
  /\ conn = "sniff"
  /\ FourBytes
  /\ IF KindOf[Head(wire).line] = "get" THEN Drop("http")
     ELSE conn' = "scan"
          /\ UNCHANGED <<daemon, stdout, acc, done, wait, client, wire, fin, ok, broken>>

SniffEOF ==
  /\ daemon = "serving"
  /\ conn = "sniff"
  /\ fin
  /\ ~FourBytes
  /\ Drop("short")

(* The scanner of serveScanner: a newline ends the line it is assembling. *)
Read ==
  /\ daemon = "serving"
  /\ conn = "scan"
  /\ wire # <<>>
  /\ ~(KindOf[Head(wire).line] = "huge" /\ Head(wire).part = "rest")
  /\ wire' = Tail(wire)
  /\ IF Head(wire).part = "rest"
     THEN done' = Append(done, Append(acc, Head(wire))) /\ acc' = <<>>
     ELSE acc' = Append(acc, Head(wire)) /\ UNCHANGED done
  /\ UNCHANGED <<daemon, stdout, conn, wait, client, fin, ok, broken>>

(* bufio.ErrTooLong: the buffer is full before the newline comes. *)
ReadTooLong ==
  /\ daemon = "serving"
  /\ conn = "scan"
  /\ wire # <<>>
  /\ \E j \in 1 .. Len(acc) + 1 : KindOf[Append(acc, Head(wire))[j].line] = "huge"
  /\ Drop("toolong")

(* The end of the connection: what is left is executed as a last line. *)
ReadEOFEarly ==   \* mutant: the end of the connection drops what is unread
  /\ daemon = "serving"
  /\ conn = "scan"
  /\ fin
  /\ conn' = "eof"
  /\ wire' = <<>>
  /\ acc' = <<>>
  /\ UNCHANGED <<daemon, stdout, done, wait, client, fin, ok, broken>>
ReadEOF ==
  /\ daemon = "serving"
  /\ conn = "scan"
  /\ fin
  /\ wire = <<>>
  /\ conn' = "eof"
  /\ done' = IF acc = <<>> THEN done ELSE Append(done, acc)
  /\ acc' = <<>>
  /\ UNCHANGED <<daemon, stdout, wait, client, wire, fin, ok, broken>>

-----------------------------------------------------------------------------
Server ==
  Listen \/ PrintReady \/ Accept \/ Sniff \/ SniffEOF \/ Read \/ ReadTooLong \/ ReadEOF
Waiter == SeeReady \/ SeeEOF
Writer(t) == NoWrite(t) \/ StartWrite(t) \/ PutText(t) \/ PutRest(t) \/ WriteFails(t, "error")

(* Callers need not make another call. *)
Rest == (\A t \in Threads : pc[t] = "idle") /\ UNCHANGED vars

Next ==
  \/ Server \/ Refuse \/ Die
  \/ Waiter \/ WaitReady \/ Cancelled \/ OrphanSees \/ Dial
  \/ \E t \in Threads :
       \/ Writer(t) \/ WriteFails(t, "timeout") \/ NoDeadline(t) \/ CallOver(t)
       \/ \E o \in {"line", "bad", "close"}, d \in BOOLEAN : Call(t, o, d)
  \/ Rest

Spec == Init /\ [][Next]_vars

(* The daemon and the goroutines run, and Client.mu is not withheld from a    *)
(* waiter for ever.  A deadline may pass or not, contexts may be cancelled or *)
(* not.                                                                      *)
FairSpec ==
  /\ Spec
  /\ WF_vars(Server)
  /\ WF_vars(Waiter)
  /\ \A t \in Threads : SF_vars(Writer(t))

-----------------------------------------------------------------------------
(* Properties. *)

(* Every variable has its type, and the socket holds no more than Room. *)
TypeOK ==
  /\ daemon \in {"starting", "listening", "serving", "dead"}
  /\ {stdout, waiting, ready, deadline, fin, broken} \subseteq BOOLEAN
  /\ conn \in Conns
  /\ acc \in Seq(Pieces)
  /\ done \in Seq(Seq(Pieces))
  /\ waits \in 0..MaxWaits
  /\ orphans \in 0..MaxWaits
  /\ open \in {"no", "yes", "closed"}
  /\ mu \in Threads \cup {NoThread}
  /\ pc \in [Threads -> {"idle", "lock", "text", "rest"}]
  /\ op \in [Threads -> {"line", "bad", "close"}]
  /\ timed \in [Threads -> BOOLEAN]
  /\ calls \in [Threads -> 0..MaxCalls]
  /\ res \in [Threads -> {"nil", "error", "timeout", "closed", "refused"}]
  /\ wire \in Seq(Pieces) /\ Len(wire) <= Room
  /\ ok \in Seq(Lines)

Whole(l) == <<[line |-> l, part |-> "text"], [line |-> l, part |-> "rest"]>>

(* WriteLine: until a write stops half-way, the daemon executes the lines     *)
(* whose WriteLine succeeded, whole, in the order of the writes and once,     *)
(* however the goroutines interleave, block on a full socket and close.       *)
ExecutesWhatWasWritten ==
  ~broken => /\ Len(done) <= Len(ok)
             /\ \A i \in DOMAIN done : done[i] = Whole(ok[i])

(* WriteLine's deadline is taken back before the mutex is: a call whose       *)
(* context has no deadline never times out on that of an earlier call.        *)
TimesOutByOwnDeadline ==
  \A t \in Threads : pc[t] \in {"text", "rest"} /\ deadline => timed[t]

(* A piece of a line whose WriteLine did not return nil: a first half that a  *)
(* failed write left behind.                                                 *)
Torn(p) == p.part = "text" /\ \A i \in DOMAIN ok : ok[i] # p.line

(* "the daemon may have already executed a prefix of the line": a write that   *)
(* stops half-way spoils the next line and no other.  What the daemon executes *)
(* as one line is one line whose WriteLine returned nil, whole and alone at    *)
(* the end, with nothing before it but halves that failed writes left; or, at  *)
(* the end of the connection only, such halves alone.                        *)
OneCommandPerLine ==
  \A i \in DOMAIN done :
    LET d == done[i]  n == Len(d) IN
    IF d[n].part = "rest"
    THEN /\ n > 1 /\ d[n - 1] = [d[n] EXCEPT !.part = "text"]
         /\ \E j \in DOMAIN ok : ok[j] = d[n].line
         /\ \A j \in 1 .. n - 2 : Torn(d[j])
    ELSE i = Len(done) /\ conn = "eof" /\ \A j \in 1 .. n : Torn(d[j])

(* The handler gets to see four bytes of the lines that were written. *)
Recognised == Len(ok) > 1 \/ (Len(ok) = 1 /\ KindOf[ok[1]] # "tiny")

(* WriteLine returned nil: the daemon executes that line as it was written,    *)
(* also when Close follows at once.  It does not when it exits, when an        *)
(* earlier write stopped half-way, when the connection was one too many, when  *)
(* less than four bytes are ever written to it or "GET " first, and when this  *)
(* line or one before it is too long for the scanner.                        *)
NilIsExecuted ==
  \A l \in Lines :
    (Recognised /\ \E i \in DOMAIN ok : ok[i] = l) ~>
      \/ \E i \in DOMAIN done : done[i] = Whole(l)
      \/ broken \/ daemon = "dead" \/ conn = "full"
      \/ ok # <<>> /\ KindOf[ok[1]] = "get"
      \/ \E i, j \in DOMAIN ok : i <= j /\ KindOf[ok[i]] = "huge" /\ ok[j] = l

(* Every call returns while the daemon reads, Close behind a stalled write    *)
(* included.                                                                 *)
CallsReturn == \A t \in Threads : pc[t] # "idle" ~> pc[t] = "idle"

(* WaitReady: a call with no cancelled call before it returns when the daemon *)
(* prints READY or exits.                                                    *)
FirstWaitReturns == (waiting /\ waits = 1) ~> ~waiting
=============================================================================
