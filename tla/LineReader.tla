----------------------------- MODULE LineReader -----------------------------
(***************************************************************************)
(* From the bytes of one connection to the lines that are executed:         *)
(* serveScanner, serveScannerWithAck and the dest session read through a     *)
(* bufio.Scanner with a buffer that starts at InitBuf and grows to MaxBuf;   *)
(* on an upgraded connection wsConn.Read stands between the two and hands    *)
(* the scanner one text frame per Read.                                     *)
(*                                                                         *)
(* A unit of the stream is a byte that knows its line and its place in it.   *)
(* Masking, opcodes and the three forms of a frame's length are abstracted   *)
(* to the frame's kind and payload.  One step takes the scanner from one     *)
(* read to the next; what the peer sends is chosen when it is read.  The     *)
(* module begins where tryUpgradeWS has returned a reader: a connection it   *)
(* drops has no lines.                                                       *)
(***************************************************************************)
EXTENDS Integers, Sequences, FiniteSetsExt

CONSTANTS
  Streams,    \* what a peer may write: sequences of units
  InitBuf,    \* 64 KiB, the buffer of sc.Buffer
  MaxBuf,     \* 1 MiB, the limit of sc.Buffer and of a frame
  MaxEmpty    \* bufio.maxConsecutiveEmptyReads

Unit == [line : Nat, pos : Nat, last : BOOLEAN]

(* A unit's line is one more than the newlines before it. *)
Newlines(s, k) == {j \in 1 .. k - 1 : s[j].last}
Numbered(s) == \A k \in DOMAIN s : s[k].line = 1 + Cardinality(Newlines(s, k))

ASSUME LineReaderAssumption ==
  /\ Streams \subseteq Seq(Unit)
  /\ \A s \in Streams : Numbered(s)
  /\ InitBuf \in Nat \ {0}
  /\ MaxBuf \in Nat
  /\ InitBuf <= MaxBuf
  /\ MaxEmpty \in Nat

VARIABLES
  framed,   \* the connection was upgraded to WebSocket
  stream,   \* everything the peer writes, in order
  sent,     \* units of it that are on their way or gone
  buf,      \* the scanner's unread data, buf[start:end]
  start,    \* where it begins in the buffer
  size,     \* the length of the buffer
  empties,  \* consecutive reads that brought nothing
  err,      \* the scanner's error
  out,      \* the lines executed
  ended,    \* Scan has returned false
  cut,      \* bytes were dropped: a frame lost its tail, or was no text frame
  modest    \* every data frame was an unfragmented text frame that held whole
            \* lines and at most half of InitBuf

reader == <<buf, start, size, empties, err, ended>>
vars == <<framed, stream, sent, reader, out, cut, modest>>

-----------------------------------------------------------------------------
Init ==
  /\ framed \in BOOLEAN
  /\ stream \in Streams
  /\ sent = 0
  /\ buf = <<>>
  /\ start = 0
  /\ size = InitBuf
  /\ empties = 0
  /\ err = "none"
  /\ out = <<>>
  /\ ended = FALSE
  /\ cut = FALSE
  /\ modest = TRUE

(* ScanLines: the place of the first newline. *)
HasLine == \E k \in DOMAIN buf : buf[k].last
LineEnd(k) == k \in DOMAIN buf /\ buf[k].last /\ \A j \in 1 .. k - 1 : ~buf[j].last

(* A complete line is executed before anything more is read. *)
Token(k) ==
  /\ ~ended
  /\ LineEnd(k)
  /\ out' = Append(out, SubSeq(buf, 1, k - 1))
  /\ buf' = SubSeq(buf, k + 1, Len(buf))
  /\ start' = start + k
  /\ UNCHANGED <<framed, stream, sent, size, empties, err, ended, cut, modest>>

(* After an error of any kind what is left is a last line; then Scan ends.   *)
LastToken ==
  /\ ~ended
  /\ err # "none"
  /\ ~HasLine
  /\ IF buf # <<>>
     THEN out' = Append(out, buf) /\ buf' = <<>> /\ UNCHANGED ended
     ELSE ended' = TRUE /\ UNCHANGED <<buf, out>>
  /\ UNCHANGED <<framed, stream, sent, start, size, empties, err, cut, modest>>

-----------------------------------------------------------------------------
(* Before a read the data moves to the front when the buffer is used up or   *)
(* more than half of it lies behind, and a full buffer doubles.              *)
ShiftLate == start > 0 /\ start + Len(buf) = size   \* mutant: moved only when used up
Shift == start > 0 /\ (start + Len(buf) = size \/ start > size \div 2)

Start == IF Shift THEN 0 ELSE start
Full == Start + Len(buf) = size
DoubledFreely == 2 * size   \* mutant: the limit is forgotten
Doubled == IF 2 * size <= MaxBuf THEN 2 * size ELSE MaxBuf
Size == IF Full THEN Doubled ELSE size
Free == Size - (Start + Len(buf))

Reading == ~ended /\ err = "none" /\ ~HasLine

(* The buffer is at its limit and holds no newline: ErrTooLong. *)
TooLongEarly == Full /\ 2 * size >= MaxBuf   \* mutant: refused when it should grow
TooLongNow == Full /\ size >= MaxBuf

TooLong ==
  /\ Reading
  /\ TooLongNow
  /\ err' = "toolong"
  /\ ended' = TRUE
  /\ start' = Start
  /\ UNCHANGED <<framed, stream, sent, buf, size, empties, out, cut, modest>>

(* The next n units of the stream, of which the first k reach the buffer. *)
Take(n, k) ==
  /\ sent' = sent + n
  /\ buf' = buf \o SubSeq(stream, sent + 1, sent + k)
  /\ start' = Start
  /\ size' = Size
  /\ empties' = 0
  /\ UNCHANGED <<framed, stream, err, out, ended>>

(* A plain connection: what does not fit stays in the socket. *)
ReadPlainAgain(n) ==   \* mutant: the prefix of connReader is not consumed
  /\ Reading
  /\ ~framed
  /\ ~TooLongNow
  /\ n \in 1..Free
  /\ IF sent = 0 /\ buf = <<>>
     THEN /\ buf' = SubSeq(stream, 1, n)
          /\ UNCHANGED <<framed, stream, sent, start, size, empties, err, out, ended>>
     ELSE Take(n, n)
  /\ UNCHANGED <<cut, modest>>
ReadPlain(n) ==
  /\ Reading
  /\ ~framed
  /\ ~TooLongNow
  /\ n \in 1..Free
  /\ Take(n, n)
  /\ UNCHANGED <<cut, modest>>

(* wsConn.Read of a text frame: copy(p, payload), and the rest is dropped. *)
ReadFrame(n) ==
  /\ Reading
  /\ framed
  /\ ~TooLongNow
  /\ n \in 1..MaxBuf
  /\ Take(n, IF n <= Free THEN n ELSE Free)
  /\ cut' = (cut \/ n > Free)
  /\ modest' = (modest /\ stream[sent + n].last /\ 2 * n <= InitBuf)

(* wsConn.Read of any other data frame, a binary one or the continuation of  *)
(* a fragmented text: skipped whole, and the scanner's read goes on.         *)
SkipFrame(n) ==
  /\ Reading
  /\ framed
  /\ ~TooLongNow
  /\ n \in 1..MaxBuf
  /\ sent' = sent + n
  /\ cut' = TRUE
  /\ modest' = FALSE
  /\ UNCHANGED <<framed, stream, reader, out>>

(* A frame with no payload: the scanner reads again, but not for ever. *)
ReadEmpty ==
  /\ Reading
  /\ framed
  /\ ~TooLongNow
  /\ start' = Start
  /\ size' = Size
  /\ IF empties < MaxEmpty
     THEN empties' = empties + 1 /\ UNCHANGED err
     ELSE err' = "noprogress" /\ UNCHANGED empties
  /\ UNCHANGED <<framed, stream, sent, buf, out, ended, cut, modest>>

(* End of file, a close frame, a frame over the limit, or a broken socket.   *)
ReadError ==
  /\ Reading
  /\ ~TooLongNow
  /\ err' = "read"
  /\ start' = Start
  /\ size' = Size
  /\ UNCHANGED <<framed, stream, sent, buf, empties, out, ended, cut, modest>>

(* A ping is answered, and a pong skipped, inside wsConn.Read.               *)
Next ==
  \/ \E k \in DOMAIN buf : Token(k)
  \/ LastToken
  \/ TooLong
  \/ ReadEmpty
  \/ ReadError
  \/ \E n \in 1 .. Len(stream) - sent : ReadPlain(n) \/ ReadFrame(n) \/ SkipFrame(n)
  \/ ended /\ UNCHANGED vars

Spec == Init /\ [][Next]_vars

-----------------------------------------------------------------------------
(* Properties. *)

(* The scanner's indices stay inside its buffer: 0 <= start <= end <= length, *)
(* and the buffer never passes its limit.                                    *)
TypeOK ==
  /\ framed \in BOOLEAN
  /\ stream \in Streams
  /\ sent \in 0..Len(stream)
  /\ buf \in Seq(Unit)
  /\ start \in Nat
  /\ size \in InitBuf..MaxBuf
  /\ start + Len(buf) <= size
  /\ empties \in 0..MaxEmpty
  /\ err \in {"none", "toolong", "noprogress", "read"}
  /\ out \in Seq(Seq(Unit))
  /\ ended \in BOOLEAN
  /\ cut \in BOOLEAN
  /\ modest \in BOOLEAN

(* The text of line i is a stretch of the stream, without the newline. *)
TextUnits(i) == {k \in DOMAIN stream : stream[k].line = i /\ ~stream[k].last}
Text(i) ==
  LET first == Min(TextUnits(i))
  IN  IF TextUnits(i) = {} THEN <<>>
      ELSE SubSeq(stream, first, first + Cardinality(TextUnits(i)) - 1)

(* serveScanner: as long as no text frame was cut and no other data frame     *)
(* skipped, the lines executed are the lines written, in their order, whole   *)
(* and once, however the bytes were cut into reads and frames; only after an  *)
(* error may the last one be the beginning of a line whose newline never      *)
(* came.                                                                     *)
LinesSurvive ==
  ~cut =>
    \A i \in DOMAIN out :
      \/ out[i] = Text(i)
      \/ /\ i = Len(out) /\ err # "none"
         /\ \E k \in 0..Len(Text(i)) : out[i] = SubSeq(Text(i), 1, k)

(* wsConn.Read drops what does not fit and every data frame but a text one,   *)
(* yet a peer that sends nothing but unfragmented text frames, of whole lines *)
(* and at most half of the initial buffer, never loses a byte: the scanner    *)
(* has then always that much room when it reads.                             *)
ModestFramesSurvive == modest => ~cut

(* serveScanner: a line is refused as too long only when its text fills the   *)
(* whole limit, never because of the lines before it in the buffer, unless a  *)
(* frame was cut or skipped.                                                 *)
RefusedOnlyTooLong ==
  err = "toolong" /\ ~cut => Len(Text(Len(out) + 1)) >= MaxBuf
=============================================================================
