-------------------------- MODULE LineReaderProofs --------------------------
(***************************************************************************)
(* The scanner's buffer, for streams, buffers and limits of any size.       *)
(***************************************************************************)
EXTENDS LineReader, SequenceTheorems, FiniteSetTheorems, TLAPS

(* While no frame was cut, the buffer is the part of the stream that has been *)
(* read and not executed.                                                    *)
Slice ==
  /\ Len(buf) <= sent
  /\ \A j \in 1 .. Len(buf) : buf[j] = stream[sent - Len(buf) + j]

(* A peer with modest frames leaves nothing behind the last newline. *)
EndsWithLine == buf # <<>> => buf[Len(buf)].last

IInv ==
  /\ TypeOK
  /\ ~framed => ~cut
  /\ modest /\ framed => ~cut /\ EndsWithLine
  /\ ~cut => Slice
  /\ err = "toolong" => ended /\ start = 0 /\ Len(buf) = MaxBuf /\ ~HasLine

(* The type invariant in two parts, one for each kind of reasoning. *)
Flags == {framed, ended, cut, modest} \subseteq BOOLEAN
Buffer ==
  /\ stream \in Streams /\ stream \in Seq(Unit) /\ Len(stream) \in Nat
  /\ sent \in 0..Len(stream)
  /\ buf \in Seq(Unit) /\ Len(buf) \in Nat
  /\ start \in Nat
  /\ size \in InitBuf..MaxBuf
  /\ start + Len(buf) <= size
  /\ empties \in 0..MaxEmpty
  /\ err \in {"none", "toolong", "noprogress", "read"}
  /\ out \in Seq(Seq(Unit))

LEMMA TypeParts == TypeOK <=> Flags /\ Buffer
<1>1. TypeOK => Flags
  BY Zenon DEF TypeOK, Flags
<1>2. TypeOK => Buffer
  BY LineReaderAssumption DEF TypeOK, Buffer
<1>3. Flags /\ Buffer => TypeOK
  BY Zenon DEF TypeOK, Flags, Buffer
<1> QED BY <1>1, <1>2, <1>3

LEMMA InitIInv == Init => IInv
<1> SUFFICES ASSUME Init PROVE IInv
  OBVIOUS
<1>1. stream \in Seq(Unit) /\ Len(stream) \in Nat
  BY LineReaderAssumption DEF Init
<1>2. Flags
  BY Zenon DEF Init, Flags
<1>3. Buffer
  BY <1>1, LineReaderAssumption DEF Init, Buffer
<1>4. Slice /\ EndsWithLine
  BY <1>1 DEF Init, Slice, EndsWithLine
<1> QED BY <1>2, <1>3, <1>4, TypeParts DEF Init, IInv

(* The buffer after it was moved and grown, when the next read starts. *)
LEMMA Room ==
  ASSUME Buffer, ~TooLongNow
  PROVE  /\ Start \in Nat /\ Size \in InitBuf..MaxBuf /\ size <= Size
         /\ Free \in Nat \ {0} /\ Start + Len(buf) + Free = Size
         /\ buf = <<>> => 2 * Free >= size
<1>1. InitBuf \in Nat /\ InitBuf > 0 /\ MaxBuf \in Nat /\ InitBuf <= MaxBuf
  BY LineReaderAssumption
<1>2. /\ start \in Nat /\ size \in Nat /\ InitBuf <= size /\ size <= MaxBuf
      /\ Len(buf) \in Nat /\ start + Len(buf) <= size
  BY <1>1 DEF Buffer
<1>3. Start \in Nat /\ Start + Len(buf) <= size /\ (Start = start \/ Start = 0)
  BY <1>2 DEF Start
<1>4. CASE Full
  <2>1. size < MaxBuf
    BY <1>1, <1>2, <1>4 DEF TooLongNow
  <2>2. Size \in Nat /\ size < Size /\ Size <= MaxBuf
    BY <1>1, <1>2, <1>4, <2>1 DEF Size, Doubled
  <2>3. buf # <<>>
    <3>1. SUFFICES ASSUME buf = <<>> PROVE FALSE
      OBVIOUS
    <3>2. Len(buf) = 0
      BY <3>1
    <3> QED BY <1>1, <1>2, <1>4, <3>2 DEF Full, Start, Shift
  <2> QED BY <1>1, <1>2, <1>3, <1>4, <2>2, <2>3 DEF Free, Full
<1>5. CASE ~Full
  <2>1. Size = size /\ Free = size - (Start + Len(buf)) /\ Start + Len(buf) # size
    BY <1>5 DEF Size, Free, Full
  <2>2. ASSUME buf = <<>> PROVE 2 * Free >= size
    <3>1. Len(buf) = 0
      BY <2>2
    <3>2. CASE Shift
      BY <1>2, <2>1, <3>1, <3>2 DEF Start
    <3>3. CASE ~Shift
      BY <1>1, <1>2, <2>1, <3>1, <3>3 DEF Start, Shift
    <3> QED BY <3>2, <3>3
  <2> QED BY <1>1, <1>2, <1>3, <2>1, <2>2
<1> QED BY <1>4, <1>5

(* What is left of a sequence behind its k-th element, and before it. *)
LEMMA Behind ==
  ASSUME NEW S, NEW s \in Seq(S), NEW k \in 1 .. Len(s)
  PROVE  /\ SubSeq(s, k + 1, Len(s)) \in Seq(S)
         /\ Len(SubSeq(s, k + 1, Len(s))) = Len(s) - k
         /\ \A j \in 1 .. Len(s) - k : SubSeq(s, k + 1, Len(s))[j] = s[k + j]
         /\ SubSeq(s, 1, k - 1) \in Seq(S)
<1>1. Len(s) \in Nat /\ k \in Int /\ k + 1 \in Int /\ k - 1 \in Int /\ 1 \in Int
  OBVIOUS
<1>2. (\A j \in k + 1 .. Len(s) : s[j] \in S) /\ (\A j \in 1 .. k - 1 : s[j] \in S)
  BY <1>1, ElementOfSeq
<1>3. /\ SubSeq(s, k + 1, Len(s)) \in Seq(S)
      /\ Len(SubSeq(s, k + 1, Len(s))) = IF k + 1 <= Len(s) THEN Len(s) - (k + 1) + 1 ELSE 0
      /\ \A j \in 1 .. Len(s) - (k + 1) + 1 : SubSeq(s, k + 1, Len(s))[j] = s[k + 1 + j - 1]
  BY <1>1, <1>2, SubSeqProperties
<1>4. SubSeq(s, 1, k - 1) \in Seq(S)
  BY <1>1, <1>2, SubSeqProperties
<1> QED BY <1>1, <1>3, <1>4

(* What a step that reads no frame has to show. *)
LEMMA StepIInv ==
  ASSUME IInv, Flags', Buffer', UNCHANGED <<framed, cut, modest>>,
         Slice => Slice', EndsWithLine => EndsWithLine',
         err' = "toolong" => ended' /\ start' = 0 /\ Len(buf') = MaxBuf /\ ~HasLine'
  PROVE  IInv'
<1>1. TypeOK'
  BY TypeParts, PTL
<1>2. ~framed' => ~cut'
  BY Zenon DEF IInv
<1>3. modest' /\ framed' => ~cut' /\ EndsWithLine'
  BY Zenon DEF IInv
<1>4. ~cut' => Slice'
  BY Zenon DEF IInv
<1> QED BY <1>1, <1>2, <1>3, <1>4, Zenon DEF IInv

(* Lines leave the buffer from the front. *)
LEMMA TokenStep == ASSUME IInv, NEW k \in DOMAIN buf, Token(k) PROVE IInv'
<1>0. Flags /\ Buffer
  BY TypeParts DEF IInv
<1>1. Len(buf) \in Nat /\ buf \in Seq(Unit) /\ k \in 1 .. Len(buf)
  BY <1>0 DEF Buffer
<1>2. /\ out' = Append(out, SubSeq(buf, 1, k - 1)) /\ buf' = SubSeq(buf, k + 1, Len(buf))
      /\ start' = start + k /\ ~ended
      /\ UNCHANGED <<framed, stream, sent, size, empties, err, ended, cut, modest>>
  BY DEF Token
<1>3. /\ buf' \in Seq(Unit) /\ Len(buf') = Len(buf) - k
      /\ \A j \in 1 .. Len(buf) - k : buf'[j] = buf[k + j]
      /\ SubSeq(buf, 1, k - 1) \in Seq(Unit)
  BY <1>1, <1>2, Behind, Zenon
<1>4. out' \in Seq(Seq(Unit))
  BY <1>0, <1>2, <1>3 DEF Buffer
<1>5. Buffer'
  <2>0. start \in Nat /\ size \in Nat /\ start + Len(buf) <= size
    BY <1>0, LineReaderAssumption DEF Buffer
  <2>1. start' \in Nat /\ Len(buf') \in Nat /\ start' + Len(buf') <= size' /\ size' = size
    <3>1. start' = start + k /\ Len(buf') = Len(buf) - k /\ size' = size
      BY <1>2, <1>3
    <3>2. start + k \in Nat /\ Len(buf) - k \in Nat /\ start + k + (Len(buf) - k) <= size
      BY <1>1, <2>0
    <3> QED BY <3>1, <3>2, Zenon
  <2> QED BY <1>0, <1>2, <1>3, <1>4, <2>1, Zenon DEF Buffer
<1>6. Flags'
  BY <1>0, <1>2, Zenon DEF Flags
<1>7. ASSUME Slice PROVE Slice'
  <2>1. sent \in Nat /\ sent' = sent /\ stream' = stream
    BY <1>0, <1>2 DEF Buffer
  <2>2. Len(buf') <= sent'
    BY <1>1, <1>3, <1>7, <2>1 DEF Slice
  <2>3. ASSUME NEW j \in 1 .. Len(buf) - k
        PROVE  buf'[j] = stream[sent - (Len(buf) - k) + j]
    <3>1. k + j \in 1 .. Len(buf) /\ sent - Len(buf) + (k + j) = sent - (Len(buf) - k) + j
      BY <1>1, <2>1, SMTT(30)
    <3>2. buf[k + j] = stream[sent - Len(buf) + (k + j)]
      BY <1>7, <3>1 DEF Slice
    <3> QED BY <1>3, <3>1, <3>2
  <2> QED BY <1>3, <2>1, <2>2, <2>3 DEF Slice
<1>8. ASSUME EndsWithLine PROVE EndsWithLine'
  <2> SUFFICES ASSUME buf' # <<>> PROVE buf'[Len(buf')].last
    BY DEF EndsWithLine
  <2>1. Len(buf') # 0
    BY <1>3, EmptySeq
  <2>2. /\ Len(buf) - k \in 1 .. Len(buf) - k /\ k + (Len(buf) - k) = Len(buf)
        /\ Len(buf) # 0
    <3>1. Len(buf) - k # 0
      BY <1>3, <2>1, Zenon
    <3>2. ASSUME NEW n \in Nat, n - k # 0, k \in 1 .. n
          PROVE  n - k \in 1 .. n - k /\ k + (n - k) = n /\ n # 0
      BY <3>2
    <3> QED BY <1>1, <3>1, <3>2, Zenon
  <2>3. buf'[Len(buf) - k] = buf[Len(buf)]
    BY <1>3, <2>2, Zenon
  <2>4. buf # <<>>
    BY <2>2, EmptySeq, Zenon
  <2> QED BY <1>3, <1>8, <2>3, <2>4, Zenon DEF EndsWithLine
<1>9. err' # "toolong"
  BY <1>2 DEF IInv
<1> QED BY <1>2, <1>5, <1>6, <1>7, <1>8, <1>9, StepIInv DEF IInv

(* What is left becomes a last line, or the scanner ends. *)
LEMMA LastTokenStep == ASSUME IInv, LastToken PROVE IInv'
<1>0. Flags /\ Buffer
  BY TypeParts DEF IInv
<1>1. ~ended /\ UNCHANGED <<framed, stream, sent, start, size, empties, err, cut, modest>>
  BY DEF LastToken
<1>2. err' # "toolong"
  BY <1>1 DEF IInv
<1>3. CASE buf # <<>> /\ out' = Append(out, buf) /\ buf' = <<>> /\ UNCHANGED ended
  <2>1. out' \in Seq(Seq(Unit)) /\ buf' \in Seq(Unit) /\ Len(buf') = 0
    BY <1>0, <1>3 DEF Buffer
  <2>2. start' + Len(buf') <= size' /\ Len(buf') \in Nat
    <3>1. start \in Nat /\ size \in Nat /\ start + Len(buf) <= size /\ Len(buf) \in Nat
      BY <1>0, LineReaderAssumption DEF Buffer
    <3> QED BY <1>1, <2>1, <3>1
  <2>3. Buffer'
    BY <1>0, <1>1, <2>1, <2>2, Zenon DEF Buffer
  <2>4. Flags'
    BY <1>0, <1>1, <1>3, Zenon DEF Flags
  <2>5. Slice'
    BY <1>0, <1>1, <2>1 DEF Slice, Buffer
  <2>6. EndsWithLine'
    BY <1>3 DEF EndsWithLine
  <2> QED BY <1>1, <1>2, <2>3, <2>4, <2>5, <2>6, StepIInv, ZenonT(60)
<1>4. CASE buf = <<>> /\ ended' = TRUE /\ UNCHANGED <<buf, out>>
  <2>1. Buffer'
    BY <1>0, <1>1, <1>4, Zenon DEF Buffer
  <2>2. Flags'
    BY <1>0, <1>1, <1>4, Zenon DEF Flags
  <2>3. (Slice => Slice') /\ (EndsWithLine => EndsWithLine')
    BY <1>1, <1>4 DEF Slice, EndsWithLine
  <2> QED BY <1>1, <1>2, <2>1, <2>2, <2>3, StepIInv, ZenonT(60)
<1> QED BY <1>3, <1>4, Zenon DEF LastToken

(* The data fills the whole buffer, which is at its limit. *)
LEMMA TooLongStep == ASSUME IInv, TooLong PROVE IInv'
<1>0. Flags /\ Buffer
  BY TypeParts DEF IInv
<1>1. /\ ~HasLine /\ TooLongNow /\ err' = "toolong" /\ ended' = TRUE /\ start' = Start
      /\ UNCHANGED <<framed, stream, sent, buf, size, empties, out, cut, modest>>
  BY DEF TooLong, Reading
<1>2. /\ start \in Nat /\ size \in Nat /\ size <= MaxBuf /\ MaxBuf \in Nat
      /\ Len(buf) \in Nat /\ start + Len(buf) <= size
  BY <1>0, LineReaderAssumption DEF Buffer
<1>3. Start = 0 /\ Len(buf) = MaxBuf
  BY <1>1, <1>2 DEF TooLongNow, Full, Start, Shift
<1>4. Buffer'
  <2>1. start' \in Nat /\ start' + Len(buf') <= size' /\ err' = "toolong"
    BY <1>1, <1>2, <1>3
  <2> QED BY <1>0, <1>1, <2>1, Zenon DEF Buffer
<1>5. Flags'
  BY <1>0, <1>1, Zenon DEF Flags
<1>6. (Slice => Slice') /\ (EndsWithLine => EndsWithLine')
  BY <1>1 DEF Slice, EndsWithLine
<1>7. ended' /\ start' = 0 /\ Len(buf') = MaxBuf /\ ~HasLine'
  BY <1>1, <1>3 DEF HasLine
<1> QED BY <1>1, <1>4, <1>5, <1>6, <1>7, StepIInv, ZenonT(60)

(* A read that brings nothing still moves and grows the buffer. *)
LEMMA NothingRead ==
  ASSUME IInv, Reading, ~TooLongNow, start' = Start, size' = Size,
         empties' \in 0..MaxEmpty, err' \in {"none", "noprogress", "read"},
         UNCHANGED <<framed, stream, sent, buf, out, ended, cut, modest>>
  PROVE  IInv'
<1>0. Flags /\ Buffer
  BY TypeParts DEF IInv
<1>1. Buffer'
  <2>1. /\ Start \in Nat /\ Size \in InitBuf..MaxBuf /\ Free \in Nat
        /\ Start + Len(buf) + Free = Size
    BY <1>0, Room
  <2>2. Start + Len(buf) <= Size
    BY <1>0, <2>1, LineReaderAssumption DEF Buffer
  <2> QED BY <1>0, <2>1, <2>2 DEF Buffer
<1>2. Flags'
  BY <1>0, Zenon DEF Flags
<1>3. (Slice => Slice') /\ (EndsWithLine => EndsWithLine')
  BY DEF Slice, EndsWithLine
<1> QED BY <1>1, <1>2, <1>3, StepIInv, ZenonT(60)

LEMMA ReadEmptyStep == ASSUME IInv, ReadEmpty PROVE IInv'
<1>0. empties \in 0..MaxEmpty /\ err = "none"
  BY DEF IInv, TypeOK, ReadEmpty, Reading
<1>1. empties' \in 0..MaxEmpty /\ err' \in {"none", "noprogress", "read"}
  BY <1>0, LineReaderAssumption DEF ReadEmpty
<1> QED BY <1>1, NothingRead DEF ReadEmpty

LEMMA ReadErrorStep == ASSUME IInv, ReadError PROVE IInv'
<1>1. empties' \in 0..MaxEmpty /\ err' \in {"none", "noprogress", "read"}
  BY DEF IInv, TypeOK, ReadError
<1> QED BY <1>1, NothingRead DEF ReadError

(* The next k units of the stream behind what the buffer holds. *)
LEMMA Behold ==
  ASSUME NEW S, NEW s \in Seq(S), NEW b \in Seq(S), NEW p \in Nat, NEW k \in Nat,
         k > 0, p + k <= Len(s)
  PROVE  /\ b \o SubSeq(s, p + 1, p + k) \in Seq(S)
         /\ Len(b \o SubSeq(s, p + 1, p + k)) = Len(b) + k
         /\ \A j \in 1 .. Len(b) : (b \o SubSeq(s, p + 1, p + k))[j] = b[j]
         /\ \A j \in 1 .. k : (b \o SubSeq(s, p + 1, p + k))[Len(b) + j] = s[p + j]
<1> DEFINE t == SubSeq(s, p + 1, p + k)
<1>1. Len(s) \in Nat /\ Len(b) \in Nat /\ p + 1 \in Int /\ p + k \in Int
  OBVIOUS
<1>2. \A j \in p + 1 .. p + k : s[j] \in S
  BY <1>1, ElementOfSeq
<1>3. /\ t \in Seq(S)
      /\ Len(t) = IF p + 1 <= p + k THEN p + k - (p + 1) + 1 ELSE 0
      /\ \A j \in 1 .. p + k - (p + 1) + 1 : t[j] = s[p + 1 + j - 1]
  BY <1>1, <1>2, SubSeqProperties
<1>4. Len(t) = k /\ \A j \in 1 .. k : t[j] = s[p + j]
  BY <1>1, <1>3
<1> HIDE DEF t
<1>5. /\ b \o t \in Seq(S)
      /\ Len(b \o t) = Len(b) + Len(t)
      /\ \A j \in 1 .. Len(b) + Len(t) :
           (b \o t)[j] = IF j <= Len(b) THEN b[j] ELSE t[j - Len(b)]
  BY <1>3, ConcatProperties, Zenon
<1>6. \A j \in 1 .. Len(b) : (b \o t)[j] = b[j]
  BY <1>1, <1>4, <1>5
<1>7. \A j \in 1 .. k : (b \o t)[Len(b) + j] = t[j]
  BY <1>1, <1>4, <1>5
<1> QED BY <1>4, <1>5, <1>6, <1>7 DEF t

(* A read of n units of which the first k are kept: the buffer has room for  *)
(* them, and stays the unread part of the stream if nothing was dropped.      *)
LEMMA TakeStep ==
  ASSUME IInv, Reading, ~TooLongNow, NEW n \in 1 .. Len(stream) - sent, NEW k \in 1 .. n,
         k <= Free, Take(n, k)
  PROVE  /\ Buffer' /\ err' = "none"
         /\ Slice /\ k = n => Slice'
         /\ buf' # <<>> /\ buf'[Len(buf')] = stream[sent + k]
<1>0. Buffer
  BY TypeParts DEF IInv
<1>1. /\ sent' = sent + n /\ buf' = buf \o SubSeq(stream, sent + 1, sent + k)
      /\ start' = Start /\ size' = Size /\ empties' = 0
      /\ UNCHANGED <<framed, stream, err, out, ended>> /\ err = "none"
  BY DEF Take, Reading
<1>2. /\ sent \in Nat /\ Len(stream) \in Nat /\ sent <= Len(stream) /\ Len(buf) \in Nat
      /\ stream \in Seq(Unit) /\ buf \in Seq(Unit)
  BY <1>0 DEF Buffer
<1>3. n \in Nat /\ k \in Nat /\ k > 0 /\ k <= n /\ sent + n <= Len(stream) /\ sent + k <= Len(stream)
  BY <1>2
<1>4. /\ buf' \in Seq(Unit) /\ Len(buf') = Len(buf) + k
      /\ \A j \in 1 .. Len(buf) : buf'[j] = buf[j]
      /\ \A j \in 1 .. k : buf'[Len(buf) + j] = stream[sent + j]
  BY <1>1, <1>2, <1>3, Behold, SMTT(30)
<1>5. /\ Start \in Nat /\ Size \in InitBuf..MaxBuf /\ Free \in Nat
      /\ Start + Len(buf) + Free = Size
  BY <1>0, Room
<1>6. Buffer'
  <2>1. Start + (Len(buf) + k) <= Size /\ Len(buf) + k \in Nat
    BY <1>2, <1>3, <1>5, LineReaderAssumption, SMTT(30)
  <2>2. sent' \in 0..Len(stream') /\ Len(buf') \in Nat /\ start' + Len(buf') <= size'
    <3>1. sent' = sent + n /\ stream' = stream /\ start' = Start /\ size' = Size
          /\ Len(buf') = Len(buf) + k
      BY <1>1, <1>4
    <3>2. sent + n \in 0..Len(stream)
      BY <1>2, <1>3, SMTT(30)
    <3> QED BY <2>1, <3>1, <3>2, ZenonT(60)
  <2>3. empties' \in 0..MaxEmpty
    BY <1>1, LineReaderAssumption
  <2> QED BY <1>0, <1>1, <1>4, <1>5, <2>2, <2>3, ZenonT(60) DEF Buffer
<1>7. ASSUME Slice, k = n PROVE Slice'
  <2>1. Len(buf) + k <= sent + k /\ sent + k - (Len(buf) + k) = sent - Len(buf)
    BY <1>2, <1>3, <1>7 DEF Slice
  <2>2. ASSUME NEW j \in 1 .. Len(buf) + k PROVE buf'[j] = stream[sent - Len(buf) + j]
    <3>1. CASE j <= Len(buf)
      BY <1>2, <1>4, <1>7, <3>1, SMTT(30) DEF Slice
    <3>2. CASE j > Len(buf)
      <4>1. j - Len(buf) \in 1 .. k /\ Len(buf) + (j - Len(buf)) = j
            /\ sent + (j - Len(buf)) = sent - Len(buf) + j
        BY <1>2, <1>3, <3>2
      <4> QED BY <1>4, <4>1
    <3> QED BY <1>2, <1>3, <3>1, <3>2
  <2>3. sent' = sent + k /\ stream' = stream /\ Len(buf') = Len(buf) + k
    BY <1>1, <1>4, <1>7
  <2>4. Len(buf') <= sent' /\ sent' - Len(buf') = sent - Len(buf)
    BY <1>2, <1>3, <2>1, <2>3, SMTT(30)
  <2>5. \A j \in 1 .. Len(buf') : buf'[j] = stream'[sent' - Len(buf') + j]
    BY <2>2, <2>3, <2>4, Zenon
  <2> QED BY <2>4, <2>5, Zenon DEF Slice
<1>8. buf' # <<>> /\ buf'[Len(buf')] = stream[sent + k]
  <2>1. k \in 1 .. k /\ Len(buf') > 0
    BY <1>2, <1>3, <1>4
  <2> QED BY <1>4, <2>1, EmptySeq
<1> QED BY <1>1, <1>6, <1>7, <1>8, Zenon

LEMMA ReadPlainStep ==
  ASSUME IInv, NEW n \in 1 .. Len(stream) - sent, ReadPlain(n) PROVE IInv'
<1>0. Flags /\ Buffer
  BY TypeParts DEF IInv
<1>1. /\ Reading /\ ~framed /\ ~TooLongNow /\ n <= Free /\ Take(n, n) /\ n \in 1 .. n
      /\ UNCHANGED <<framed, cut, modest, ended>>
  <2>1. Len(stream) \in Nat /\ sent \in Nat /\ Free \in Nat
    BY <1>0, Room DEF Buffer, ReadPlain
  <2> QED BY <2>1 DEF ReadPlain, Take
<1>2. Buffer' /\ err' = "none" /\ (Slice => Slice')
  BY <1>1, TakeStep
<1>3. Flags'
  BY <1>0, <1>1, Zenon DEF Flags
<1>4. TypeOK'
  BY <1>2, <1>3, TypeParts, PTL
<1>5. ~framed' /\ ~cut /\ ~cut'
  BY <1>1, Zenon DEF IInv
<1>6. Slice'
  BY <1>2, <1>5, Zenon DEF IInv
<1> QED BY <1>2, <1>4, <1>5, <1>6 DEF IInv

(* A frame is cut only where it, or one before it, is not modest: a reader    *)
(* that holds no complete line holds nothing at all when all frames were      *)
(* modest, and then half of its buffer is free.                             *)
LEMMA ReadFrameStep ==
  ASSUME IInv, NEW n \in 1 .. Len(stream) - sent, ReadFrame(n) PROVE IInv'
<1>0. Flags /\ Buffer
  BY TypeParts DEF IInv
<1> DEFINE k == IF n <= Free THEN n ELSE Free
<1>1. /\ Reading /\ framed /\ ~TooLongNow /\ Take(n, k)
      /\ cut' = (cut \/ n > Free)
      /\ modest' = (modest /\ stream[sent + n].last /\ 2 * n <= InitBuf)
      /\ framed' = framed /\ ended' = ended
  BY DEF ReadFrame, Take
<1>2. Len(stream) \in Nat /\ sent \in Nat /\ n \in Nat /\ n > 0 /\ Free \in Nat /\ Free > 0
  BY <1>0, <1>1, Room, SMTT(30) DEF Buffer
<1>3. k \in 1 .. n /\ k <= Free /\ (n <= Free => k = n)
  BY <1>2
<1> HIDE DEF k
<1>4. /\ Buffer' /\ err' = "none"
      /\ Slice /\ k = n => Slice'
      /\ buf'[Len(buf')] = stream[sent + k]
  BY <1>1, <1>3, TakeStep
<1>5. Flags'
  <2>1. cut' \in BOOLEAN /\ modest' \in BOOLEAN
    BY <1>1, Zenon
  <2> QED BY <1>0, <1>1, <2>1, Zenon DEF Flags
<1>6. TypeOK'
  BY <1>4, <1>5, TypeParts, PTL
<1>7. ASSUME modest' PROVE ~cut' /\ EndsWithLine'
  <2>1. modest /\ stream[sent + n].last /\ 2 * n <= InitBuf
    BY <1>1, <1>7, Zenon
  <2>2. ~cut /\ EndsWithLine
    BY <1>1, <2>1, Zenon DEF IInv
  <2>3. buf = <<>>
    <3> SUFFICES ASSUME buf # <<>> PROVE FALSE
      OBVIOUS
    <3>1. Len(buf) \in DOMAIN buf
      BY <1>0, EmptySeq DEF Buffer
    <3> QED BY <1>1, <2>2, <3>1, ZenonT(60) DEF EndsWithLine, Reading, HasLine
  <2>4. n <= Free
    <3>1. 2 * Free >= size /\ size >= InitBuf /\ size \in Nat /\ InitBuf \in Nat
      BY <1>0, <1>1, <2>3, Room, LineReaderAssumption, SMTT(30) DEF Buffer
    <3> QED BY <1>2, <2>1, <3>1, SMTT(30)
  <2>5. ~(n > Free)
    BY <1>2, <2>4
  <2>6. ~cut'
    BY <1>1, <2>2, <2>5, Zenon
  <2>7. EndsWithLine'
    BY <1>3, <1>4, <2>1, <2>4, SMTT(30) DEF EndsWithLine
  <2> QED BY <2>6, <2>7
<1>8. ASSUME ~cut' PROVE Slice'
  <2>1. ~cut /\ ~(n > Free)
    BY <1>1, <1>8, Zenon
  <2>2. Slice /\ k = n
    BY <1>2, <1>3, <2>1 DEF IInv
  <2> QED BY <1>4, <2>2
<1> QED BY <1>1, <1>4, <1>6, <1>7, <1>8, ZenonT(60) DEF IInv

(* A skipped frame leaves the scanner as it was. *)
LEMMA SkipFrameStep ==
  ASSUME IInv, NEW n \in 1 .. Len(stream) - sent, SkipFrame(n) PROVE IInv'
<1>0. Flags /\ Buffer
  BY TypeParts DEF IInv
<1>1. /\ framed /\ err = "none" /\ sent' = sent + n /\ cut' = TRUE /\ modest' = FALSE
      /\ UNCHANGED <<framed, stream, buf, start, size, empties, err, ended, out>>
  BY DEF SkipFrame, Reading, reader
<1>2. Flags'
  BY <1>0, <1>1, Zenon DEF Flags
<1>3. Buffer'
  <2>1. sent + n \in 0 .. Len(stream)
    BY <1>0, SMTT(30) DEF Buffer
  <2> QED BY <1>0, <1>1, <2>1, ZenonT(60) DEF Buffer
<1>4. TypeOK'
  BY <1>2, <1>3, TypeParts, PTL
<1> QED BY <1>1, <1>4, ZenonT(60) DEF IInv

LEMMA NextIInv == ASSUME IInv, [Next]_vars PROVE IInv'
<1>1. CASE UNCHANGED vars
  <2>1. UNCHANGED <<framed, stream, sent, buf, start, size, empties, err, ended, out, cut, modest>>
    BY <1>1 DEF vars, reader
  <2>2. (TypeOK => TypeOK') /\ (Slice => Slice') /\ (EndsWithLine => EndsWithLine')
        /\ (~HasLine => ~HasLine')
    BY <2>1 DEF TypeOK, Slice, EndsWithLine, HasLine
  <2> QED BY <2>1, <2>2, Zenon DEF IInv
<1>2. CASE \E k \in DOMAIN buf : Token(k)
  BY <1>2, TokenStep
<1>3. CASE LastToken
  BY <1>3, LastTokenStep
<1>4. CASE TooLong
  BY <1>4, TooLongStep, ZenonT(60)
<1>5. CASE ReadEmpty
  BY <1>5, ReadEmptyStep
<1>6. CASE ReadError
  BY <1>6, ReadErrorStep
<1>7. CASE \E n \in 1 .. Len(stream) - sent : ReadPlain(n) \/ ReadFrame(n) \/ SkipFrame(n)
  BY <1>7, ReadPlainStep, ReadFrameStep, SkipFrameStep
<1> QED BY <1>1, <1>2, <1>3, <1>4, <1>5, <1>6, <1>7, ZenonT(60) DEF Next

(* The invariant is inductive: along every run of the scanner its indices    *)
(* stay in the buffer, what it holds is the unread part of the stream unless  *)
(* a frame was cut or skipped, and it refuses a line only with a full buffer. *)
THEOREM ReaderInvariant == Spec => []IInv
BY InitIInv, NextIInv, PTL DEF Spec

(* For every buffer and limit: 0 <= start <= end <= len(buf) <= MaxBuf.       *)
THEOREM ReaderTypeCorrect == Spec => []TypeOK
<1>1. IInv => TypeOK
  BY Zenon DEF IInv
<1> QED BY <1>1, ReaderInvariant, PTL

(* wsConn.Read drops what does not fit and every data frame but a text one; a  *)
(* peer that sends nothing but unfragmented text frames, of whole lines and at *)
(* most half of the initial buffer, loses nothing, whatever the sizes of the   *)
(* buffer, of the limit and of the frames.                                    *)
THEOREM ReaderKeepsModestFrames == Spec => []ModestFramesSurvive
<1>1. IInv => ModestFramesSurvive
  BY Zenon DEF IInv, ModestFramesSurvive
<1> QED BY <1>1, ReaderInvariant, PTL

(* The part of the stream that a refusal is about: MaxBuf units, read one      *)
(* after the other and none of them a newline.                               *)
NoNewlineFor(p) ==
  /\ p + MaxBuf <= sent
  /\ \A j \in 1 .. MaxBuf : ~stream[p + j].last

(* Unless a frame was cut or skipped, ErrTooLong comes only when the peer       *)
(* really wrote MaxBuf units without a newline; how its bytes were split over   *)
(* reads does not matter, nor what the buffer held before.                     *)
THEOREM ReaderRefusesOnlyTooLong ==
  Spec => [](err = "toolong" /\ ~cut => \E p \in Nat : NoNewlineFor(p))
<1>1. ASSUME IInv, err = "toolong", ~cut PROVE \E p \in Nat : NoNewlineFor(p)
  <2>1. Slice /\ Len(buf) = MaxBuf /\ ~HasLine /\ Buffer
    BY <1>1, TypeParts DEF IInv
  <2>2. sent \in Nat /\ MaxBuf \in Nat /\ sent - MaxBuf \in Nat /\ DOMAIN buf = 1 .. MaxBuf
    BY <2>1, LineReaderAssumption DEF Buffer, Slice
  <2>3. \A j \in 1 .. MaxBuf : ~stream[(sent - MaxBuf) + j].last
    BY <2>1, <2>2, Zenon DEF Slice, HasLine
  <2>4. NoNewlineFor(sent - MaxBuf)
    BY <2>2, <2>3 DEF NoNewlineFor
  <2> QED BY <2>2, <2>4
<1>2. IInv => (err = "toolong" /\ ~cut => \E p \in Nat : NoNewlineFor(p))
  BY <1>1
<1> QED BY <1>2, ReaderInvariant, PTL

-----------------------------------------------------------------------------
(* The lines that come out.                                                 *)

(* Line n ends at unit p of the stream, or p is its beginning. *)
At(p, n) == IF p = 0 THEN n = 0 ELSE stream[p].last /\ stream[p].line = n

Consumed == sent - Len(buf)

(* As long as there is something to execute or to read, the reader stands      *)
(* behind the last line it executed.                                         *)
Aligned == err = "none" \/ buf # <<>> => At(Consumed, Len(out))

(* What was executed is what was written; a last piece comes from an empty     *)
(* reader that has failed.                                                   *)
Piece(i) == \E k \in 0..Len(Text(i)) : out[i] = SubSeq(Text(i), 1, k)
Survived ==
  \A i \in 1 .. Len(out) :
    out[i] = Text(i) \/ (i = Len(out) /\ err # "none" /\ buf = <<>> /\ Piece(i))

LInv == ~cut => Aligned /\ Survived

(* Lines are numbered by the newlines before them. *)
LEMMA LineNumber ==
  ASSUME stream \in Streams, NEW k \in 1 .. Len(stream)
  PROVE  /\ stream \in Seq(Unit) /\ Len(stream) \in Nat
         /\ stream[k].line = 1 + Cardinality(Newlines(stream, k))
         /\ IsFiniteSet(Newlines(stream, k)) /\ Cardinality(Newlines(stream, k)) \in Nat
<1>1. stream \in Seq(Unit) /\ Len(stream) \in Nat /\ DOMAIN stream = 1 .. Len(stream)
  BY LineReaderAssumption
<1>2. stream[k].line = 1 + Cardinality(Newlines(stream, k))
  BY <1>1, LineReaderAssumption, ZenonT(60) DEF Numbered
<1>3. IsFiniteSet(1 .. k - 1)
  BY <1>1, FS_Interval
<1>4. Newlines(stream, k) \in SUBSET (1 .. k - 1)
  BY Zenon DEF Newlines
<1>5. IsFiniteSet(Newlines(stream, k))
  BY <1>3, <1>4, FS_Subset, Zenon
<1> QED BY <1>1, <1>2, <1>5, FS_CardinalityType, ZenonT(60)

LEMMA FirstLine ==
  ASSUME stream \in Streams, Len(stream) >= 1
  PROVE  stream[1].line = 1
<1>1. stream \in Seq(Unit) /\ Len(stream) \in Nat
  BY LineReaderAssumption
<1>2. Newlines(stream, 1) = {}
  BY DEF Newlines
<1>3. 1 \in 1 .. Len(stream)
  BY <1>1
<1> QED BY <1>2, <1>3, LineNumber, FS_EmptySet, SMTT(30)

LEMMA NextLine ==
  ASSUME stream \in Streams, NEW k \in 1 .. Len(stream), k + 1 <= Len(stream), stream[k].last
  PROVE  stream[k + 1].line = stream[k].line + 1
<1>1. stream \in Seq(Unit) /\ Len(stream) \in Nat
  BY LineReaderAssumption
<1>2. k + 1 \in 1 .. Len(stream)
  BY <1>1
<1>3. Newlines(stream, k + 1) = Newlines(stream, k) \cup {k} /\ k \notin Newlines(stream, k)
  BY <1>1 DEF Newlines
<1>4. IsFiniteSet(Newlines(stream, k)) /\ Cardinality(Newlines(stream, k)) \in Nat
  BY LineNumber
<1>5. Cardinality(Newlines(stream, k + 1)) = Cardinality(Newlines(stream, k)) + 1
  BY <1>3, <1>4, FS_AddElement, Zenon
<1> QED BY <1>2, <1>4, <1>5, LineNumber, SMTT(30)

(* Line numbers grow along the stream, exactly at the newlines. *)
LEMMA LinesGrow ==
  ASSUME stream \in Streams, NEW j \in 1 .. Len(stream), NEW k \in j .. Len(stream)
  PROVE  /\ stream[j].line \in Nat /\ stream[k].line \in Nat /\ stream[j].line <= stream[k].line
         /\ (\A m \in j .. k - 1 : ~stream[m].last) => stream[j].line = stream[k].line
         /\ (\E m \in j .. k - 1 : stream[m].last) => stream[j].line < stream[k].line
<1>1. stream \in Seq(Unit) /\ Len(stream) \in Nat
  BY LineReaderAssumption
<1>2. k \in 1 .. Len(stream)
  BY <1>1
<1> DEFINE A == Newlines(stream, j)
           B == Newlines(stream, k)
<1>3. /\ stream[j].line = 1 + Cardinality(A) /\ Cardinality(A) \in Nat
      /\ stream[k].line = 1 + Cardinality(B) /\ IsFiniteSet(B) /\ Cardinality(B) \in Nat
  BY <1>2, LineNumber, Zenon
<1>4. A \in SUBSET B
  BY <1>1 DEF Newlines
<1>5. Cardinality(A) <= Cardinality(B) /\ (Cardinality(B) = Cardinality(A) => B = A)
  BY <1>3, <1>4, FS_Subset, Zenon
<1>6. (\A m \in j .. k - 1 : ~stream[m].last) => A = B
  BY <1>1 DEF Newlines
<1>7. (\E m \in j .. k - 1 : stream[m].last) => A # B
  BY <1>1 DEF Newlines
<1> HIDE DEF A, B
<1> QED BY <1>3, <1>5, <1>6, <1>7, SMTT(30)

(* Up to the next newline and with it, the units behind line n are line n + 1. *)
LEMMA LineBehind ==
  ASSUME stream \in Streams, NEW p \in 0 .. Len(stream), NEW n \in Nat, At(p, n),
         NEW m \in Nat, p + m <= Len(stream), \A j \in p + 1 .. p + m : ~stream[j].last
  PROVE  \A q \in p + 1 .. p + m + 1 : q <= Len(stream) => stream[q].line = n + 1
<1>1. stream \in Seq(Unit) /\ Len(stream) \in Nat /\ DOMAIN stream = 1 .. Len(stream)
  BY LineReaderAssumption
<1>2. ASSUME p + 1 <= Len(stream) PROVE stream[p + 1].line = n + 1
  <2>1. CASE p = 0
    <3>1. n = 0 /\ p + 1 = 1
      BY <2>1 DEF At
    <3> QED BY <1>2, <3>1, FirstLine
  <2>2. CASE p # 0
    <3>1. stream[p].last /\ stream[p].line = n /\ p \in 1 .. Len(stream)
      BY <1>1, <2>2 DEF At
    <3> QED BY <1>2, <3>1, NextLine, ZenonT(60)
  <2> QED BY <2>1, <2>2, Zenon
<1>3. ASSUME NEW q \in p + 1 .. p + m + 1, q <= Len(stream) PROVE stream[q].line = n + 1
  <2>1. p + 1 \in 1 .. Len(stream) /\ q \in p + 1 .. Len(stream)
    BY <1>1, <1>3
  <2>2. \A j \in p + 1 .. q - 1 : ~stream[j].last
    BY <1>1
  <2>3. stream[p + 1].line = stream[q].line
    BY <2>1, <2>2, LinesGrow, ZenonT(60)
  <2> QED BY <1>1, <1>2, <2>1, <2>3, SMTT(30)
<1> QED BY <1>3

(* The m units behind the end of line n that are not newlines are text of       *)
(* line n + 1, of which nothing comes earlier; when a newline follows, they     *)
(* are all of it.                                                            *)
LEMMA NextText ==
  ASSUME stream \in Streams, NEW p \in 0 .. Len(stream), NEW n \in Nat, At(p, n),
         NEW m \in Nat, p + m <= Len(stream), \A j \in p + 1 .. p + m : ~stream[j].last
  PROVE  /\ p + 1 .. p + m \subseteq TextUnits(n + 1)
         /\ TextUnits(n + 1) \subseteq p + 1 .. Len(stream)
         /\ p + m + 1 <= Len(stream) /\ stream[p + m + 1].last => TextUnits(n + 1) = p + 1 .. p + m
<1>1. stream \in Seq(Unit) /\ Len(stream) \in Nat /\ DOMAIN stream = 1 .. Len(stream)
  BY LineReaderAssumption
<1>3. \A q \in p + 1 .. p + m + 1 : q <= Len(stream) => stream[q].line = n + 1
  BY LineBehind, ZenonT(60)
<1>4. p + 1 .. p + m \subseteq TextUnits(n + 1)
  <2> SUFFICES ASSUME NEW q \in p + 1 .. p + m PROVE q \in TextUnits(n + 1)
    OBVIOUS
  <2>1. q \in p + 1 .. p + m + 1 /\ q <= Len(stream) /\ q \in 1 .. Len(stream)
    BY <1>1
  <2> QED BY <1>1, <1>3, <2>1, ZenonT(60) DEF TextUnits
<1>5. ASSUME NEW q \in TextUnits(n + 1) PROVE q \in p + 1 .. Len(stream)
  <2>1. q \in 1 .. Len(stream) /\ stream[q].line = n + 1
    BY <1>1, <1>5, Zenon DEF TextUnits
  <2> SUFFICES ASSUME q <= p PROVE FALSE
    BY <1>1, <2>1
  <2>2. p \in q .. Len(stream) /\ p # 0
    BY <1>1, <2>1
  <2>3. stream[q].line <= stream[p].line /\ stream[p].line = n
    BY <2>1, <2>2, LinesGrow, ZenonT(60) DEF At
  <2> QED BY <2>1, <2>3
<1>6. ASSUME p + m + 1 <= Len(stream), stream[p + m + 1].last, NEW q \in TextUnits(n + 1)
      PROVE  q \in p + 1 .. p + m
  <2>1. q \in p + 1 .. Len(stream) /\ stream[q].line = n + 1 /\ ~stream[q].last
    BY <1>5, ZenonT(60) DEF TextUnits
  <2>2. q # p + m + 1
    BY <1>6, <2>1, ZenonT(60)
  <2> SUFFICES ASSUME q > p + m + 1 PROVE FALSE
    BY <1>1, <2>1, <2>2, SMTT(30)
  <2>3. /\ p + m + 1 \in 1 .. Len(stream) /\ q \in p + m + 1 .. Len(stream)
        /\ p + m + 1 \in p + m + 1 .. q - 1 /\ p + m + 1 \in p + 1 .. p + m + 1
    BY <1>1, <1>6, <2>1, SMTT(30)
  <2>4. stream[p + m + 1].line < stream[q].line
    BY <1>6, <2>3, LinesGrow, ZenonT(60)
  <2>5. stream[p + m + 1].line = n + 1
    BY <1>3, <1>6, <2>3, ZenonT(60)
  <2> QED BY <2>1, <2>4, <2>5, SMTT(30)
<1> QED BY <1>4, <1>5, <1>6, ZenonT(60)

(* A stretch of a sequence that lies inside it. *)
LEMMA Stretch ==
  ASSUME NEW S, NEW s \in Seq(S), NEW p \in Nat, NEW c \in Nat, c > 0, p + c <= Len(s)
  PROVE  /\ SubSeq(s, p + 1, p + c) \in Seq(S)
         /\ Len(SubSeq(s, p + 1, p + c)) = c
         /\ \A j \in 1 .. c : SubSeq(s, p + 1, p + c)[j] = s[p + j]
<1> DEFINE first == p + 1
           final == p + c
           t == SubSeq(s, first, final)
<1>1. /\ first \in Int /\ final \in Int /\ first <= final /\ final - first + 1 = c
      /\ \A j \in 1 .. c : first + j - 1 = p + j
  OBVIOUS
<1>2. \A j \in first .. final : s[j] \in S
  <2>1. Len(s) \in Nat
    OBVIOUS
  <2> QED BY <2>1, ElementOfSeq
<1> HIDE DEF first, final
<1>3. /\ t \in Seq(S)
      /\ Len(t) = IF first <= final THEN final - first + 1 ELSE 0
      /\ \A j \in 1 .. final - first + 1 : t[j] = s[first + j - 1]
  BY <1>1, <1>2, SubSeqProperties, SMTT(30)
<1> HIDE DEF t
<1>4. Len(t) = c /\ \A j \in 1 .. c : t[j] = s[p + j]
  BY <1>1, <1>3, Zenon
<1> QED BY <1>3, <1>4, Zenon DEF t, first, final

(* The same for Text, element by element. *)
LEMMA TextBegins ==
  ASSUME stream \in Streams, NEW p \in 0 .. Len(stream), NEW n \in Nat, At(p, n),
         NEW m \in Nat, p + m <= Len(stream), \A j \in p + 1 .. p + m : ~stream[j].last,
         m > 0 \/ (p + m + 1 <= Len(stream) /\ stream[p + m + 1].last)
  PROVE  /\ Text(n + 1) \in Seq(Unit) /\ m <= Len(Text(n + 1))
         /\ p + m + 1 <= Len(stream) /\ stream[p + m + 1].last => Len(Text(n + 1)) = m
         /\ \A j \in 1 .. m : Text(n + 1)[j] = stream[p + j]
<1>1. stream \in Seq(Unit) /\ Len(stream) \in Nat /\ DOMAIN stream = 1 .. Len(stream)
  BY LineReaderAssumption
<1> DEFINE U == TextUnits(n + 1)
<1>2. /\ p + 1 .. p + m \subseteq U /\ U \subseteq p + 1 .. Len(stream)
      /\ p + m + 1 <= Len(stream) /\ stream[p + m + 1].last => U = p + 1 .. p + m
  BY NextText, Zenon
<1>3. Text(n + 1) = IF U = {} THEN <<>> ELSE SubSeq(stream, Min(U), Min(U) + Cardinality(U) - 1)
  BY Zenon DEF Text
<1> HIDE DEF U
<1>4. CASE m = 0
  <2>1. p + 1 .. p + m = {}
    BY <1>1, <1>4
  <2>2. U = {}
    BY <1>2, <1>4, <2>1, SMTT(30)
  <2>3. Text(n + 1) = <<>>
    BY <1>3, <2>2, Zenon
  <2>4. <<>> \in Seq(Unit) /\ Len(<<>>) = 0
    BY EmptySeq, Zenon
  <2>5. m <= 0 /\ \A j \in 1 .. m : FALSE
    BY <1>4
  <2> QED BY <1>4, <2>3, <2>4, <2>5, ZenonT(60)
<1>5. CASE m > 0
  <2>1. p + 1 \in U /\ \A q \in U : q \in Int /\ p + 1 <= q
    BY <1>1, <1>2, <1>5, SMTT(30)
  <2>2. Min(U) = p + 1
    <3>1. Min(U) \in U /\ \A q \in U : Min(U) <= q
      <4>1. \E x \in U : \A y \in U : x <= y
        BY <2>1, ZenonT(60)
      <4> QED BY <4>1, ZenonT(60) DEF Min
    <3> QED BY <2>1, <3>1, SMTT(30)
  <2>3. /\ IsFiniteSet(p + 1 .. Len(stream)) /\ Cardinality(p + 1 .. Len(stream)) = Len(stream) - p
        /\ IsFiniteSet(p + 1 .. p + m) /\ Cardinality(p + 1 .. p + m) = m
    BY <1>1, <1>5, FS_Interval, SMTT(30)
  <2>4. IsFiniteSet(U) /\ Cardinality(U) <= Len(stream) - p
    BY <1>2, <2>3, FS_Subset, ZenonT(60)
  <2>5. Cardinality(U) \in Nat /\ m <= Cardinality(U)
    BY <1>2, <2>3, <2>4, FS_Subset, FS_CardinalityType
  <2> DEFINE c == Cardinality(U)
  <2>6. p + m + 1 <= Len(stream) /\ stream[p + m + 1].last => c = m
    BY <1>2, <2>3
  <2>7. Text(n + 1) = SubSeq(stream, p + 1, p + c)
    <3>1. p + 1 + c - 1 = p + c
      BY <1>1, <2>5, SMTT(30)
    <3> QED BY <1>3, <2>1, <2>2, <3>1, ZenonT(60)
  <2>8. c \in Nat /\ m <= c /\ p + c <= Len(stream) /\ c > 0 /\ p \in Nat
    BY <1>1, <1>5, <2>4, <2>5, SMTT(30)
  <2> HIDE DEF c
  <2>9. /\ SubSeq(stream, p + 1, p + c) \in Seq(Unit)
        /\ Len(SubSeq(stream, p + 1, p + c)) = c
        /\ \A j \in 1 .. c : SubSeq(stream, p + 1, p + c)[j] = stream[p + j]
    BY <1>1, <2>8, Stretch, SMTT(30)
  <2>10. Text(n + 1) \in Seq(Unit) /\ Len(Text(n + 1)) = c
         /\ \A j \in 1 .. c : Text(n + 1)[j] = stream[p + j]
    BY <2>7, <2>9, ZenonT(60)
  <2>11. \A j \in 1 .. m : j \in 1 .. c
    BY <2>8
  <2> QED BY <2>6, <2>8, <2>10, <2>11, ZenonT(60)
<1> QED BY <1>4, <1>5

(* What the buffer holds before its first newline is the beginning of the     *)
(* next line; with the newline, the whole of it.                             *)
LEMMA BufferText ==
  ASSUME Buffer, Slice, At(Consumed, Len(out)), NEW m \in 0 .. Len(buf),
         \A j \in 1 .. m : ~buf[j].last,
         m > 0 \/ (m + 1 <= Len(buf) /\ buf[m + 1].last)
  PROVE  /\ Text(Len(out) + 1) \in Seq(Unit) /\ m <= Len(Text(Len(out) + 1))
         /\ m + 1 <= Len(buf) /\ buf[m + 1].last => Len(Text(Len(out) + 1)) = m
         /\ \A j \in 1 .. m : Text(Len(out) + 1)[j] = buf[j]
<1> DEFINE p == Consumed
           n == Len(out)
<1>1. /\ stream \in Streams /\ sent \in Nat /\ sent <= Len(stream) /\ Len(stream) \in Nat
      /\ Len(buf) \in Nat /\ n \in Nat /\ Len(buf) <= sent
  BY DEF Buffer, Slice
<1>2. p \in Int /\ p = sent - Len(buf)
  BY <1>1 DEF Consumed
<1>3. \A j \in 1 .. Len(buf) : buf[j] = stream[p + j]
  BY <1>2, Zenon DEF Slice
<1> HIDE DEF p, n
<1>4. p \in 0 .. Len(stream) /\ p + m <= Len(stream) /\ m \in Nat
  BY <1>1, <1>2
<1>5. At(p, n)
  BY Zenon DEF p, n
<1>6. \A j \in p + 1 .. p + m : ~stream[j].last
  <2> TAKE j \in p + 1 .. p + m
  <2>1. j - p \in 1 .. m /\ j - p \in 1 .. Len(buf) /\ p + (j - p) = j
    BY <1>1, <1>4, SMTT(30)
  <2> QED BY <1>3, <2>1, Zenon
<1>7. m + 1 <= Len(buf) => p + m + 1 <= Len(stream) /\ stream[p + m + 1] = buf[m + 1]
  <2>1. m + 1 <= Len(buf) => p + m + 1 <= Len(stream) /\ m + 1 \in 1 .. Len(buf)
                               /\ p + (m + 1) = p + m + 1
    BY <1>1, <1>2, <1>4, SMTT(30)
  <2> QED BY <1>3, <2>1, Zenon
<1>8. /\ Text(n + 1) \in Seq(Unit) /\ m <= Len(Text(n + 1))
      /\ p + m + 1 <= Len(stream) /\ stream[p + m + 1].last => Len(Text(n + 1)) = m
      /\ \A j \in 1 .. m : Text(n + 1)[j] = stream[p + j]
  BY <1>1, <1>4, <1>5, <1>6, <1>7, TextBegins, ZenonT(60)
<1>9. \A j \in 1 .. m : j \in 1 .. Len(buf)
  BY <1>1
<1> QED BY <1>3, <1>7, <1>8, <1>9, ZenonT(60) DEF n

LEMMA InitLInv == Init => LInv
<1> SUFFICES ASSUME Init PROVE Aligned /\ Survived
  BY DEF LInv
<1>1. sent = 0 /\ buf = <<>> /\ out = <<>>
  BY DEF Init
<1>2. Consumed = 0 /\ Len(out) = 0
  <2>1. Len(<<>>) = 0
    BY EmptySeq, Zenon
  <2>2. Consumed = 0 - 0 /\ Len(out) = 0
    BY <1>1, <2>1, Zenon DEF Consumed
  <2> QED BY <2>2
<1>3. Aligned
  BY <1>2, Zenon DEF Aligned, At
<1>4. Survived
  BY <1>2 DEF Survived
<1> QED BY <1>3, <1>4, ZenonT(60)

LEMMA TextStays == ASSUME stream' = stream PROVE \A i : Text(i)' = Text(i)
BY DEF Text, TextUnits

(* A step that executes nothing and keeps the reader where it stands. *)
LEMMA NothingExecuted ==
  ASSUME IInv, LInv, ~cut' => ~cut /\ Consumed' = Consumed, UNCHANGED <<stream, out>>, err = "none"
  PROVE  LInv'
<1> SUFFICES ASSUME ~cut' PROVE Aligned' /\ Survived'
  BY Zenon DEF LInv
<1>1. Aligned /\ Survived /\ Consumed' = Consumed
  BY Zenon DEF LInv
<1>2. At(Consumed, Len(out))
  BY <1>1, ZenonT(60) DEF Aligned
<1>3. Aligned'
  BY <1>1, <1>2, ZenonT(60) DEF Aligned, At
<1>4. \A i \in 1 .. Len(out) : out[i] = Text(i)
  BY <1>1, Zenon DEF Survived
<1>5. \A i \in 1 .. Len(out) : out'[i] = Text(i)'
  BY <1>4, TextStays
<1>6. Survived'
  BY <1>5, Zenon DEF Survived
<1> QED BY <1>3, <1>6, ZenonT(60)

(* A whole line comes out. *)
AllWhole == \A i \in 1 .. Len(out) : out[i] = Text(i)

LEMMA TokenStands ==
  ASSUME IInv, LInv, NEW k \in DOMAIN buf, Token(k), ~cut'
  PROVE  At(Consumed, Len(out))' /\ Survived' /\ AllWhole'
<1>0. Buffer
  BY TypeParts, ZenonT(60) DEF IInv
<1>1. /\ LineEnd(k) /\ out' = Append(out, SubSeq(buf, 1, k - 1))
      /\ buf' = SubSeq(buf, k + 1, Len(buf))
      /\ UNCHANGED <<stream, sent, err, cut>>
  BY DEF Token
<1>2. Slice /\ Aligned /\ Survived
  BY <1>1, ZenonT(60) DEF IInv, LInv
<1>3. /\ Len(buf) \in Nat /\ buf \in Seq(Unit) /\ k \in 1 .. Len(buf) /\ out \in Seq(Seq(Unit))
      /\ buf[k].last /\ \A j \in 1 .. k - 1 : ~buf[j].last
  BY <1>0, <1>1, SMTT(30) DEF Buffer, LineEnd
<1>4. buf # <<>> /\ At(Consumed, Len(out))
  <2>1. buf # <<>>
    BY <1>3
  <2> QED BY <1>2, <2>1 DEF Aligned
<1> DEFINE line == SubSeq(buf, 1, k - 1)
           n == Len(out)
<1>5. line \in Seq(Unit) /\ Len(line) = k - 1 /\ \A j \in 1 .. k - 1 : line[j] = buf[j]
  <2>1. \A j \in 1 .. k - 1 : buf[j] \in Unit
    BY <1>3, ElementOfSeq
  <2>2. k - 1 \in Int /\ 1 \in Int /\ k - 1 >= 0
    BY <1>3, SMTT(30)
  <2>3. /\ line \in Seq(Unit) /\ Len(line) = IF 1 <= k - 1 THEN k - 1 - 1 + 1 ELSE 0
        /\ \A j \in 1 .. k - 1 - 1 + 1 : line[j] = buf[1 + j - 1]
    BY <2>1, <2>2, SubSeqProperties, SMTT(30)
  <2> HIDE DEF line
  <2> QED BY <2>2, <2>3
<1>6. /\ Text(n + 1) \in Seq(Unit) /\ Len(Text(n + 1)) = k - 1
      /\ \A j \in 1 .. k - 1 : Text(n + 1)[j] = buf[j]
  <2>1. k - 1 \in 0 .. Len(buf) /\ (k - 1) + 1 = k /\ k <= Len(buf)
    BY <1>3
  <2> QED BY <1>0, <1>2, <1>3, <1>4, <2>1, BufferText, ZenonT(60)
<1> HIDE DEF line
<1>7. line = Text(n + 1)
  <2>1. Len(line) = Len(Text(n + 1)) /\ \A j \in 1 .. Len(line) : line[j] = Text(n + 1)[j]
    BY <1>5, <1>6, ZenonT(60)
  <2> QED BY <1>5, <1>6, <2>1, SeqEqual, ZenonT(60)
<1>8. /\ n \in Nat /\ Len(out') = n + 1 /\ out'[n + 1] = line
      /\ \A i \in 1 .. n : out'[i] = out[i]
  <2>1. out' = Append(out, line)
    BY <1>1 DEF line
  <2> QED BY <1>3, <1>5, <2>1, AppendProperties, SMTT(30)
<1>9. Survived' /\ AllWhole'
  <2>1. \A i \in 1 .. n : out[i] = Text(i)
    BY <1>2, <1>4, ZenonT(60) DEF Survived
  <2>2. ASSUME NEW i \in 1 .. Len(out') PROVE out'[i] = Text(i)'
    <3>1. i \in 1 .. n \/ i = n + 1
      BY <1>8
    <3>2. Text(i)' = Text(i)
      BY <1>1, TextStays, ZenonT(60)
    <3> QED BY <1>7, <1>8, <2>1, <3>1, <3>2, ZenonT(60)
  <2> QED BY <2>2, Zenon DEF Survived, AllWhole
<1>10. At(Consumed, Len(out))'
  <2> DEFINE p == Consumed
  <2>1. /\ sent \in Nat /\ Len(buf) <= sent /\ sent <= Len(stream) /\ Len(stream) \in Nat
        /\ p = sent - Len(buf) /\ p \in Nat /\ stream \in Streams
    BY <1>0, <1>2 DEF Buffer, Slice, Consumed
  <2>2. Len(buf') = Len(buf) - k
    BY <1>1, <1>3, Behind, ZenonT(60)
  <2>3. Consumed' = p + k
    <3>1. sent' = sent
      BY <1>1, Zenon
    <3>2. Consumed' = sent - (Len(buf) - k)
      BY <2>2, <3>1, ZenonT(60) DEF Consumed
    <3> QED BY <1>3, <2>1, <3>2
  <2>4. buf[k] = stream[p + k] /\ \A j \in 1 .. k - 1 : buf[j] = stream[p + j]
    BY <1>2, <1>3, SMTT(30) DEF Slice, Consumed
  <2> HIDE DEF p
  <2>5. /\ p + (k - 1) + 1 = p + k /\ p + k <= Len(stream) /\ p + k # 0 /\ p \in 0 .. Len(stream)
        /\ k - 1 \in Nat /\ p + (k - 1) <= Len(stream)
    BY <1>3, <2>1, SMTT(30)
  <2>6. \A j \in p + 1 .. p + (k - 1) : ~stream[j].last
    <3> TAKE j \in p + 1 .. p + (k - 1)
    <3>1. j - p \in 1 .. k - 1 /\ p + (j - p) = j
      BY <1>3, <2>1, SMTT(30)
    <3> QED BY <1>3, <2>4, <3>1, ZenonT(60)
  <2>7. stream[p + k].line = n + 1
    <3>1. At(p, n)
      BY <1>4 DEF p
    <3>2. \A q \in p + 1 .. p + (k - 1) + 1 : q <= Len(stream) => stream[q].line = n + 1
      BY <1>8, <2>1, <2>5, <2>6, <3>1, LineBehind, ZenonT(60)
    <3>3. p + k \in p + 1 .. p + (k - 1) + 1
      BY <1>3, <2>1
    <3> QED BY <2>5, <3>2, <3>3, ZenonT(60)
  <2>8. At(p + k, n + 1)
    BY <1>3, <2>4, <2>5, <2>7, ZenonT(60) DEF At
  <2> QED BY <1>1, <1>8, <2>3, <2>8, ZenonT(60) DEF At
<1> QED BY <1>9, <1>10, ZenonT(60)

LEMMA TokenLines == ASSUME IInv, LInv, NEW k \in DOMAIN buf, Token(k) PROVE LInv'
<1>1. ~cut' => At(Consumed, Len(out))' /\ Survived'
  BY TokenStands, ZenonT(60)
<1> QED BY <1>1, Zenon DEF LInv, Aligned

(* What is left when the reading has failed is the beginning of a line. *)
LEMMA LastTokenLines == ASSUME IInv, LInv, LastToken PROVE LInv'
<1> SUFFICES ASSUME ~cut' PROVE Aligned' /\ Survived'
  BY Zenon DEF LInv
<1>0. Buffer
  BY TypeParts, ZenonT(60) DEF IInv
<1>1. err # "none" /\ ~HasLine /\ UNCHANGED <<stream, sent, err, cut>>
  BY DEF LastToken
<1>2. Slice /\ Aligned /\ Survived
  BY <1>1, Zenon DEF IInv, LInv
<1>3. CASE buf # <<>> /\ out' = Append(out, buf) /\ buf' = <<>>
  <2> DEFINE n == Len(out)
             m == Len(buf)
  <2>1. /\ m \in Nat /\ m > 0 /\ buf \in Seq(Unit) /\ out \in Seq(Seq(Unit)) /\ n \in Nat
        /\ DOMAIN buf = 1 .. m
    BY <1>0, <1>3, EmptySeq DEF Buffer
  <2>2. \A j \in 1 .. m : ~buf[j].last
    BY <1>1, <2>1, ZenonT(60) DEF HasLine
  <2>3. At(Consumed, n)
    BY <1>2, <1>3, ZenonT(60) DEF Aligned
  <2>4. /\ Text(n + 1) \in Seq(Unit) /\ m <= Len(Text(n + 1))
        /\ \A j \in 1 .. m : Text(n + 1)[j] = buf[j]
    <3>1. m \in 0 .. Len(buf)
      BY <2>1
    <3> QED BY <1>0, <1>2, <2>1, <2>2, <2>3, <3>1, BufferText, ZenonT(60)
  <2>5. buf = SubSeq(Text(n + 1), 1, m) /\ m \in 0 .. Len(Text(n + 1))
    <3> DEFINE t == Text(n + 1)
    <3>1. t \in Seq(Unit) /\ m <= Len(t) /\ Len(t) \in Nat /\ \A j \in 1 .. m : t[j] = buf[j]
      BY <2>4, SMTT(30)
    <3> HIDE DEF t
    <3>2. /\ SubSeq(t, 0 + 1, 0 + m) \in Seq(Unit) /\ Len(SubSeq(t, 0 + 1, 0 + m)) = m
          /\ \A j \in 1 .. m : SubSeq(t, 0 + 1, 0 + m)[j] = t[0 + j]
      <4>1. 0 \in Nat /\ 0 + m <= Len(t)
        BY <2>1, <3>1
      <4> QED BY <2>1, <3>1, <4>1, Stretch, SMTT(30)
    <3>3. 0 + 1 = 1 /\ 0 + m = m /\ \A j \in 1 .. m : 0 + j = j
      BY <2>1
    <3>4. /\ SubSeq(t, 1, m) \in Seq(Unit) /\ Len(SubSeq(t, 1, m)) = m
          /\ \A j \in 1 .. m : SubSeq(t, 1, m)[j] = t[j]
      BY <3>2, <3>3, Zenon
    <3>5. buf = SubSeq(t, 1, m)
      <4>1. \A j \in 1 .. Len(buf) : buf[j] = SubSeq(t, 1, m)[j]
        BY <3>1, <3>4, Zenon
      <4> QED BY <2>1, <3>4, <4>1, SeqEqual, ZenonT(60)
    <3> QED BY <2>1, <3>1, <3>5, SMTT(30) DEF t
  <2>6. /\ Len(out') = n + 1 /\ out'[n + 1] = buf
        /\ \A i \in 1 .. n : out'[i] = out[i]
    BY <1>3, <2>1, AppendProperties, SMTT(30)
  <2>7. Aligned'
    BY <1>1, <1>3, Zenon DEF Aligned
  <2> HIDE DEF n, m
  <2>8. \A i : Text(i)' = Text(i)
    BY <1>1, TextStays, Zenon
  <2>9. ASSUME NEW i \in 1 .. n PROVE out'[i] = Text(i)'
    BY <1>2, <1>3, <2>6, <2>8, ZenonT(60) DEF Survived, n
  <2>10. Survived'
    <3> SUFFICES ASSUME NEW i \in 1 .. Len(out')
                 PROVE  \/ out'[i] = Text(i)'
                        \/ i = Len(out') /\ err' # "none" /\ buf' = <<>> /\ Piece(i)'
      BY Zenon DEF Survived
    <3>1. i \in 1 .. n \/ i = n + 1
      BY <2>1, <2>6, SMTT(30)
    <3>2. CASE i \in 1 .. n
      BY <2>9, <3>2, Zenon
    <3>3. CASE i = n + 1
      <4>1. Text(i)' = Text(n + 1) /\ i = Len(out') /\ out'[i] = buf
        BY <2>6, <2>8, <3>3, ZenonT(60)
      <4>2. m \in 0 .. Len(Text(i)') /\ out'[i] = SubSeq(Text(i)', 1, m)
        BY <2>5, <4>1, Zenon
      <4>3. Piece(i)'
        BY <4>2, ZenonT(60) DEF Piece
      <4> QED BY <1>1, <1>3, <4>1, <4>3, ZenonT(60)
    <3> QED BY <3>1, <3>2, <3>3, ZenonT(60)
  <2> QED BY <2>7, <2>10, ZenonT(60)
<1>4. CASE buf = <<>> /\ UNCHANGED <<buf, out>>
  <2>1. Aligned'
    BY <1>1, <1>4, ZenonT(60) DEF Aligned
  <2>2. \A i : Text(i)' = Text(i)
    BY <1>1, TextStays
  <2>3. \A i : Piece(i)' <=> Piece(i)
    BY <1>4, <2>2, Zenon DEF Piece
  <2>4. Survived'
    BY <1>1, <1>2, <1>4, <2>2, <2>3, ZenonT(60) DEF Survived
  <2> QED BY <2>1, <2>4
<1> QED BY <1>3, <1>4, Zenon DEF LastToken

(* A read that keeps all it takes leaves the reader where it stands. *)
LEMMA TakeLines ==
  ASSUME IInv, LInv, Reading, ~TooLongNow, NEW n \in 1 .. Len(stream) - sent, NEW k \in 1 .. n,
         k <= Free, Take(n, k), ~cut' => ~cut /\ k = n
  PROVE  LInv'
<1>0. Buffer
  BY TypeParts, ZenonT(60) DEF IInv
<1>1. sent' = sent + n /\ buf' = buf \o SubSeq(stream, sent + 1, sent + k)
      /\ UNCHANGED <<stream, out>> /\ err = "none"
  BY ZenonT(60) DEF Take, Reading
<1>2. /\ sent \in Nat /\ Len(stream) \in Nat /\ sent <= Len(stream) /\ Len(buf) \in Nat
      /\ stream \in Seq(Unit) /\ buf \in Seq(Unit)
  BY <1>0 DEF Buffer
<1>3. n \in Nat /\ k \in Nat /\ k > 0 /\ k <= n /\ sent + k <= Len(stream)
  BY <1>2, SMTT(30)
<1>4. Len(buf') = Len(buf) + k
  BY <1>1, <1>2, <1>3, Behold, SMTT(30)
<1>5. k = n => Consumed' = Consumed
  <2>1. Consumed' = (sent + n) - (Len(buf) + k)
    BY <1>1, <1>4, ZenonT(60) DEF Consumed
  <2> QED BY <1>2, <1>3, <2>1, SMTT(30) DEF Consumed
<1> QED BY <1>1, <1>5, NothingExecuted, ZenonT(60)

LEMMA NextLInv == ASSUME IInv, LInv, [Next]_vars PROVE LInv'
<1>0. Buffer
  BY TypeParts DEF IInv
<1>1. CASE UNCHANGED vars
  <2>1. UNCHANGED <<stream, sent, buf, err, out, cut>>
    BY <1>1, ZenonT(60) DEF vars, reader
  <2>2. \A i : Text(i)' = Text(i)
    BY <2>1, TextStays, Zenon
  <2>3. \A i : Piece(i)' <=> Piece(i)
    BY <2>1, <2>2, Zenon DEF Piece
  <2>4. Survived => Survived'
    BY <2>1, <2>2, <2>3, ZenonT(60) DEF Survived
  <2>5. Aligned => Aligned'
    BY <2>1 DEF Aligned, At, Consumed
  <2> QED BY <2>1, <2>4, <2>5, ZenonT(60) DEF LInv
<1>2. CASE \E k \in DOMAIN buf : Token(k)
  BY <1>2, TokenLines, ZenonT(60)
<1>3. CASE LastToken
  BY <1>3, LastTokenLines, SMTT(30)
<1>4. CASE TooLong \/ ReadEmpty \/ ReadError
  <2>1. UNCHANGED <<stream, sent, buf, out, cut>> /\ err = "none"
    BY <1>4 DEF TooLong, ReadEmpty, ReadError, Reading
  <2>2. Consumed' = Consumed
    BY <2>1 DEF Consumed
  <2> QED BY <2>1, <2>2, NothingExecuted, ZenonT(60)
<1>5. ASSUME NEW n \in 1 .. Len(stream) - sent, ReadPlain(n) PROVE LInv'
  <2>1. Reading /\ ~TooLongNow /\ Take(n, n) /\ cut' = cut /\ n \in 1 .. Free
    BY <1>5, ZenonT(60) DEF ReadPlain
  <2>2. Free \in Nat /\ Len(stream) \in Nat /\ sent \in Nat
    BY <1>0, <2>1, Room, SMTT(30) DEF Buffer
  <2>3. n \in 1 .. n /\ n <= Free
    BY <2>1, <2>2
  <2>4. ~cut' => ~cut /\ n = n
    BY <2>1, Zenon
  <2> QED BY <2>1, <2>3, <2>4, TakeLines, ZenonT(60)
<1>6. ASSUME NEW n \in 1 .. Len(stream) - sent, ReadFrame(n) PROVE LInv'
  <2> DEFINE k == IF n <= Free THEN n ELSE Free
  <2>1. Reading /\ ~TooLongNow /\ Take(n, k) /\ cut' = (cut \/ n > Free)
    BY <1>6, ZenonT(60) DEF ReadFrame
  <2>2. Free \in Nat /\ Free > 0 /\ Len(stream) \in Nat /\ sent \in Nat
    BY <1>0, <2>1, Room, SMTT(30) DEF Buffer
  <2>3. k \in 1 .. n /\ k <= Free /\ (~(n > Free) => k = n)
    BY <2>2
  <2> HIDE DEF k
  <2>4. ~cut' => ~cut /\ k = n
    BY <2>1, <2>3, Zenon
  <2> QED BY <2>1, <2>3, <2>4, TakeLines, ZenonT(60)
<1>7. ASSUME NEW n \in 1 .. Len(stream) - sent, SkipFrame(n) PROVE LInv'
  BY <1>7, Zenon DEF SkipFrame, LInv
<1> QED BY <1>1, <1>2, <1>3, <1>4, <1>5, <1>6, <1>7, ZenonT(60) DEF Next

(* Along every run the reader stands behind the last line it executed, and     *)
(* what it executed is what was written, as long as no frame was cut or        *)
(* skipped.                                                                  *)
THEOREM ReaderAligned == Spec => []LInv
<1>1. IInv /\ LInv /\ [Next]_vars => LInv'
  BY NextLInv
<1> QED BY <1>1, InitLInv, ReaderInvariant, PTL DEF Spec

(* serveScanner: for streams, buffers and limits of any size and however the   *)
(* bytes are cut into reads and frames, the lines executed are the lines       *)
(* written, in order, whole and once, until a text frame is cut or another     *)
(* data frame skipped; only the last one before the end may be the beginning   *)
(* of a line.                                                                 *)
THEOREM ReaderKeepsLines == Spec => []LinesSurvive
<1>1. ASSUME IInv, LInv PROVE LinesSurvive
  <2> SUFFICES ASSUME ~cut, NEW i \in DOMAIN out
               PROVE  \/ out[i] = Text(i)
                      \/ /\ i = Len(out) /\ err # "none"
                         /\ \E k \in 0..Len(Text(i)) : out[i] = SubSeq(Text(i), 1, k)
    BY Zenon DEF LinesSurvive
  <2>1. Survived
    BY <1>1, Zenon DEF LInv
  <2>2. i \in 1 .. Len(out)
    BY <1>1, TypeParts, SMTT(30) DEF IInv, Buffer
  <2> QED BY <2>1, <2>2, Zenon DEF Survived, Piece
<1>2. IInv /\ LInv => LinesSurvive
  BY <1>1, SMTT(30)
<1> QED BY <1>2, ReaderInvariant, ReaderAligned, PTL

(* serveScanner: for buffers and limits of any size a line is refused as too    *)
(* long only when its own text fills the limit.                              *)
THEOREM ReaderRefusesOnlyLongLines == Spec => []RefusedOnlyTooLong
<1>1. ASSUME IInv, LInv PROVE RefusedOnlyTooLong
  <2> SUFFICES ASSUME err = "toolong", ~cut PROVE Len(Text(Len(out) + 1)) >= MaxBuf
    BY DEF RefusedOnlyTooLong
  <2>1. Slice /\ Aligned /\ Buffer /\ Len(buf) = MaxBuf /\ ~HasLine
    BY <1>1, TypeParts, ZenonT(60) DEF IInv, LInv
  <2>2. MaxBuf \in Nat /\ MaxBuf > 0 /\ DOMAIN buf = 1 .. MaxBuf /\ buf # <<>>
    BY <2>1, LineReaderAssumption DEF Buffer
  <2>3. At(Consumed, Len(out))
    BY <2>1, <2>2 DEF Aligned
  <2>4. MaxBuf \in 0 .. Len(buf) /\ \A j \in 1 .. MaxBuf : ~buf[j].last
    BY <2>1, <2>2 DEF HasLine
  <2>5. Text(Len(out) + 1) \in Seq(Unit) /\ MaxBuf <= Len(Text(Len(out) + 1))
    BY <2>1, <2>2, <2>3, <2>4, BufferText, ZenonT(60)
  <2> QED BY <2>2, <2>5, ZenonT(60)
<1>2. IInv /\ LInv => RefusedOnlyTooLong
  BY <1>1
<1> QED BY <1>2, ReaderInvariant, ReaderAligned, PTL

(* A peer that needs no luck: a plain connection, or unfragmented text frames   *)
(* only, of whole lines and at most half of the initial buffer.  What it wrote  *)
(* comes out with no proviso about lost bytes, whatever the sizes.             *)
Faithful ==
  \A i \in DOMAIN out :
    out[i] = Text(i) \/ (i = Len(out) /\ err # "none" /\ Piece(i))

(* serveScanner on a plain connection, or behind wsConn.Read when every data     *)
(* frame was a modest text frame: every line executed is the line written.     *)
THEOREM ReaderIsFaithful == Spec => [](~framed \/ modest => Faithful)
<1>1. ASSUME IInv, LInv, ~framed \/ modest PROVE Faithful
  <2>1. ~cut
    BY <1>1, Zenon DEF IInv
  <2>2. Survived
    BY <1>1, <2>1, Zenon DEF LInv
  <2>3. DOMAIN out = 1 .. Len(out)
    BY <1>1, TypeParts DEF IInv, Buffer
  <2> QED BY <2>2, <2>3, Zenon DEF Survived, Faithful
<1>2. IInv /\ LInv => (~framed \/ modest => Faithful)
  BY <1>1
<1> QED BY <1>2, ReaderInvariant, ReaderAligned, PTL

(* A line whose newline the reader has taken out of its buffer was executed. *)
Passed == \A k \in 1 .. Consumed : stream[k].last => stream[k].line <= Len(out)
NoLineSkipped == ~cut => Passed

LEMMA AlignedPassed ==
  ASSUME Buffer, Slice, At(Consumed, Len(out)) PROVE Passed
<1>1. /\ stream \in Streams /\ Len(stream) \in Nat /\ Consumed \in Nat /\ Consumed <= Len(stream)
  BY DEF Buffer, Slice, Consumed
<1>2. ASSUME NEW k \in 1 .. Consumed, stream[k].last PROVE stream[k].line <= Len(out)
  <2>1. Consumed # 0 /\ k \in 1 .. Len(stream) /\ Consumed \in k .. Len(stream)
    BY <1>1
  <2>2. stream[Consumed].line = Len(out)
    BY <2>1, Zenon DEF At
  <2>3. stream[k].line <= stream[Consumed].line
    BY <1>1, <2>1, LinesGrow, ZenonT(60)
  <2> QED BY <2>2, <2>3, SMTT(30)
<1> QED BY <1>2 DEF Passed

LEMMA NextNoLineSkipped == ASSUME IInv, LInv, NoLineSkipped, [Next]_vars PROVE NoLineSkipped'
<1> SUFFICES ASSUME ~cut' PROVE Passed'
  BY Zenon DEF NoLineSkipped
<1>0. IInv' /\ LInv'
  BY NextIInv, NextLInv, SMTT(30)
<1>1. Buffer' /\ Slice' /\ Aligned'
  <2>1. TypeOK' /\ Slice' /\ Aligned'
    BY <1>0, Zenon DEF IInv, LInv
  <2> QED BY <2>1, TypeParts, PTL
<1>2. CASE err' = "none" \/ buf' # <<>>
  <2>1. At(Consumed, Len(out))'
    BY <1>1, <1>2, ZenonT(60) DEF Aligned
  <2> QED BY <1>1, <2>1, AlignedPassed, PTL
<1>3. CASE err' # "none" /\ buf' = <<>>
  <2>0. Buffer
    BY TypeParts, Zenon DEF IInv
  <2>1. CASE LastToken /\ buf # <<>>
    <3>1. /\ ~HasLine /\ out' = Append(out, buf) /\ UNCHANGED <<stream, sent, cut>>
      BY <2>1 DEF LastToken
    <3>2. Slice /\ Passed
      BY <3>1, Zenon DEF IInv, NoLineSkipped
    <3>3. /\ Len(buf) \in Nat /\ sent \in Nat /\ Len(buf) <= sent /\ DOMAIN buf = 1 .. Len(buf)
          /\ Len(out) \in Nat /\ Len(out') = Len(out) + 1 /\ Consumed = sent - Len(buf)
          /\ stream \in Streams /\ Len(stream) \in Nat /\ sent <= Len(stream)
      BY <2>0, <3>1, <3>2, SMTT(30) DEF Buffer, Slice, Consumed
    <3>4. Consumed' = sent
      <4>1. Len(<<>>) = 0
        BY EmptySeq, Zenon
      <4>2. Consumed' = sent - 0
        BY <1>3, <3>1, <4>1, ZenonT(60) DEF Consumed
      <4> QED BY <3>3, <4>2, SMTT(30)
    <3>5. ASSUME NEW k \in 1 .. sent, stream[k].last PROVE stream[k].line <= Len(out) + 1
      <4>1. k \in 1 .. Consumed
        <5> SUFFICES ASSUME k > Consumed PROVE FALSE
          BY <3>3
        <5>1. k - Consumed \in 1 .. Len(buf) /\ Consumed + (k - Consumed) = k
          BY <3>3
        <5>2. buf[k - Consumed] = stream[k]
          BY <3>2, <3>3, <5>1, ZenonT(60) DEF Slice
        <5> QED BY <3>1, <3>3, <3>5, <5>1, <5>2, ZenonT(60) DEF HasLine
      <4>2. stream[k].line <= Len(out)
        BY <3>2, <3>5, <4>1, ZenonT(60) DEF Passed
      <4>3. stream[k].line \in Nat
        <5>1. k \in 1 .. Len(stream) /\ k \in k .. Len(stream)
          BY <3>3
        <5> QED BY <3>3, <5>1, LinesGrow, ZenonT(60)
      <4> QED BY <3>3, <4>2, <4>3, SMTT(30)
    <3> QED BY <3>1, <3>3, <3>4, <3>5, ZenonT(60) DEF Passed
  <2>2. CASE ~(LastToken /\ buf # <<>>)
    <3>1. \/ UNCHANGED <<stream, sent, buf, out, cut>>
          \/ \E k \in DOMAIN buf : Token(k)
          \/ err' = "none"
      BY <2>2, ZenonT(60) DEF Next, vars, reader, LastToken, TooLong, ReadEmpty, ReadError, ReadPlain,
                  ReadFrame, SkipFrame, Take, Reading
    <3>2. ASSUME UNCHANGED <<stream, sent, buf, out, cut>> PROVE Passed'
      <4>1. Passed /\ Consumed' = Consumed
        BY <3>2 DEF NoLineSkipped, Consumed
      <4> QED BY <3>2, <4>1, ZenonT(60) DEF Passed
    <3>3. ASSUME NEW k \in DOMAIN buf, Token(k) PROVE Passed'
      <4>1. At(Consumed, Len(out))'
        BY <3>3, TokenStands, ZenonT(60)
      <4> QED BY <1>1, <4>1, AlignedPassed, PTL
    <3> QED BY <1>3, <3>1, <3>2, <3>3, ZenonT(60)
  <2> QED BY <2>1, <2>2, ZenonT(60)
<1> QED BY <1>2, <1>3, SMTT(30)

(* serveScanner: no line is skipped or left behind.  Until a text frame is cut  *)
(* or another data frame skipped, a line whose newline has been read is         *)
(* executed, or its newline still lies in the buffer.                          *)
THEOREM ReaderSkipsNoLine == Spec => []NoLineSkipped
<1>1. Init => NoLineSkipped
  <2> SUFFICES ASSUME Init PROVE Passed
    BY DEF NoLineSkipped
  <2>1. Consumed = 0
    <3>1. sent = 0 /\ Len(buf) = 0
      BY EmptySeq, Zenon DEF Init
    <3>2. Consumed = 0 - 0
      BY <3>1, Zenon DEF Consumed
    <3> QED BY <3>2
  <2> QED BY <2>1 DEF Passed
<1>2. IInv /\ LInv /\ NoLineSkipped /\ [Next]_vars => NoLineSkipped'
  BY NextNoLineSkipped
<1> QED BY <1>1, <1>2, ReaderInvariant, ReaderAligned, PTL DEF Spec

(* More than that: it came out whole, also when a read failed in between. *)
PassedWhole ==
  \A k \in 1 .. Consumed :
    stream[k].last => /\ stream[k].line \in 1 .. Len(out)
                      /\ out[stream[k].line] = Text(stream[k].line)
WInv == ~cut => PassedWhole

LEMMA WholeSoFar ==
  ASSUME Buffer, Slice, Passed, AllWhole PROVE PassedWhole
<1>1. Consumed \in Nat /\ Consumed <= Len(stream) /\ Len(stream) \in Nat /\ stream \in Streams
      /\ Len(out) \in Nat
  BY DEF Buffer, Slice, Consumed
<1>2. ASSUME NEW k \in 1 .. Consumed, stream[k].last PROVE stream[k].line \in 1 .. Len(out)
  <2>1. k \in 1 .. Len(stream)
    BY <1>1
  <2>2. stream[k].line = 1 + Cardinality(Newlines(stream, k)) /\ Cardinality(Newlines(stream, k)) \in Nat
    BY <1>1, <2>1, LineNumber, ZenonT(60)
  <2>3. stream[k].line <= Len(out)
    BY <1>2, Zenon DEF Passed
  <2> QED BY <1>1, <2>2, <2>3, SMTT(30)
<1> QED BY <1>2, Zenon DEF PassedWhole, AllWhole

(* The last piece of a failed reader ends no line. *)
LEMMA LastTokenPasses ==
  ASSUME IInv, PassedWhole, LastToken, buf # <<>>, ~cut' PROVE PassedWhole'
<1>0. Buffer
  BY TypeParts, Zenon DEF IInv
<1>1. /\ ~HasLine /\ out' = Append(out, buf) /\ buf' = <<>> /\ UNCHANGED <<stream, sent, cut>>
  BY DEF LastToken
<1>2. Slice
  BY <1>1, Zenon DEF IInv
<1>3. /\ Len(buf) \in Nat /\ sent \in Nat /\ Len(buf) <= sent /\ DOMAIN buf = 1 .. Len(buf)
      /\ Len(out) \in Nat /\ out \in Seq(Seq(Unit)) /\ buf \in Seq(Unit)
      /\ Consumed = sent - Len(buf)
  BY <1>0, <1>2, SMTT(30) DEF Buffer, Slice, Consumed
<1>4. Len(out') = Len(out) + 1 /\ \A i \in 1 .. Len(out) : out'[i] = out[i]
  BY <1>1, <1>3, AppendProperties, SMTT(30)
<1>5. Consumed' = sent
  <2>1. Len(<<>>) = 0
    BY EmptySeq, Zenon
  <2>2. Consumed' = sent - 0
    BY <1>1, <2>1, ZenonT(60) DEF Consumed
  <2> QED BY <1>3, <2>2
<1>6. ASSUME NEW k \in 1 .. sent, stream[k].last
      PROVE  /\ stream[k].line \in 1 .. Len(out')
             /\ out'[stream[k].line] = Text(stream[k].line)
  <2>1. k \in 1 .. Consumed
    <3> SUFFICES ASSUME k > Consumed PROVE FALSE
      BY <1>3, SMTT(30)
    <3>1. k - Consumed \in 1 .. Len(buf) /\ sent - Len(buf) + (k - Consumed) = k
      BY <1>3
    <3>2. buf[k - Consumed] = stream[k]
      BY <1>2, <3>1, Zenon DEF Slice
    <3> QED BY <1>1, <1>3, <1>6, <3>1, <3>2, ZenonT(60) DEF HasLine
  <2>2. stream[k].line \in 1 .. Len(out) /\ out[stream[k].line] = Text(stream[k].line)
    BY <1>6, <2>1, ZenonT(60) DEF PassedWhole
  <2>3. ASSUME NEW i \in 1 .. Len(out) PROVE i \in 1 .. Len(out')
    BY <1>3, <1>4, <2>3, SMTT(30)
  <2> QED BY <1>4, <2>2, <2>3, ZenonT(60)
<1>7. \A i : Text(i)' = Text(i)
  BY <1>1, TextStays, ZenonT(60)
<1> QED BY <1>1, <1>5, <1>6, <1>7, ZenonT(60) DEF PassedWhole

LEMMA NextWInv ==
  ASSUME IInv, LInv, NoLineSkipped, WInv, [Next]_vars PROVE WInv'
<1> SUFFICES ASSUME ~cut' PROVE PassedWhole'
  BY Zenon DEF WInv
<1>0. IInv' /\ LInv' /\ NoLineSkipped'
  BY NextIInv, NextLInv, NextNoLineSkipped
<1>1. Buffer' /\ Slice' /\ Survived' /\ Passed'
  <2>1. TypeOK' /\ Slice' /\ Survived' /\ Passed'
    BY <1>0, Zenon DEF IInv, LInv, NoLineSkipped
  <2> QED BY <2>1, TypeParts, PTL
<1>2. CASE err' = "none" \/ buf' # <<>>
  <2>1. AllWhole'
    BY <1>1, <1>2, ZenonT(60) DEF Survived, AllWhole
  <2> QED BY <1>1, <2>1, WholeSoFar, PTL
<1>3. ASSUME NEW k \in DOMAIN buf, Token(k) PROVE PassedWhole'
  <2>1. AllWhole'
    BY <1>3, TokenStands, ZenonT(60)
  <2> QED BY <1>1, <2>1, WholeSoFar, PTL
<1>4. CASE LastToken /\ buf # <<>>
  <2>1. PassedWhole
    BY <1>4, Zenon DEF WInv, LastToken
  <2> QED BY <1>4, <2>1, LastTokenPasses, ZenonT(60)
<1>5. ASSUME UNCHANGED <<stream, sent, buf, out, cut>> PROVE PassedWhole'
  <2>1. PassedWhole /\ Consumed' = Consumed
    BY <1>5, ZenonT(60) DEF WInv, Consumed
  <2>2. \A i : Text(i)' = Text(i)
    BY <1>5, TextStays, ZenonT(60)
  <2> QED BY <1>5, <2>1, <2>2, ZenonT(60) DEF PassedWhole
<1>6. \/ UNCHANGED <<stream, sent, buf, out, cut>>
      \/ \E k \in DOMAIN buf : Token(k)
      \/ LastToken /\ buf # <<>>
      \/ err' = "none"
  BY ZenonT(60) DEF Next, vars, reader, LastToken, TooLong, ReadEmpty, ReadError, ReadPlain,
                    ReadFrame, SkipFrame, Take, Reading
<1> QED BY <1>2, <1>3, <1>4, <1>5, <1>6, ZenonT(60)

(* Scan returns false with nothing left in the buffer, or for a long line. *)
EndsEmpty == ended => buf = <<>> \/ err = "toolong"

LEMMA NextEndsEmpty ==
  ASSUME IInv, EndsEmpty, [Next]_vars PROVE EndsEmpty'
<1>1. \/ UNCHANGED <<ended, buf, err>>
      \/ ended' = TRUE /\ (buf' = <<>> \/ err' = "toolong")
      \/ ~ended /\ ended' = ended
  BY ZenonT(60) DEF Next, vars, reader, Token, LastToken, TooLong, ReadEmpty, ReadError, ReadPlain,
                    ReadFrame, SkipFrame, Take, Reading
<1> QED BY <1>1, ZenonT(60) DEF EndsEmpty

(* What Scan has seen when it returns false. *)
EveryLineExecuted ==
  ended /\ err # "toolong" /\ ~cut =>
    \A k \in 1 .. sent :
      stream[k].last => /\ stream[k].line \in DOMAIN out
                        /\ out[stream[k].line] = Text(stream[k].line)

(* serveScanner: when the loop over Scan ends, be it at the end of the           *)
(* connection, by a close frame or a broken socket, every line whose newline    *)
(* had arrived has been executed as it was written.  Only a line over the       *)
(* limit, a cut text frame or a data frame of another kind loses lines.        *)
THEOREM ReaderExecutesEveryLine == Spec => []EveryLineExecuted
<1>1. Init => WInv /\ EndsEmpty
  <2> SUFFICES ASSUME Init PROVE PassedWhole /\ EndsEmpty
    BY SMTT(30) DEF WInv
  <2>1. sent = 0 /\ Len(buf) = 0
    BY EmptySeq, Zenon DEF Init
  <2>2. Consumed = 0
    BY <2>1 DEF Consumed
  <2> QED BY <2>2 DEF PassedWhole, EndsEmpty, Init
<1>2. ASSUME IInv, WInv, EndsEmpty, ended, err # "toolong", ~cut,
             NEW k \in 1 .. sent, stream[k].last
      PROVE  stream[k].line \in DOMAIN out /\ out[stream[k].line] = Text(stream[k].line)
  <2>1. Buffer /\ buf = <<>> /\ PassedWhole
    BY <1>2, TypeParts, ZenonT(60) DEF IInv, WInv, EndsEmpty
  <2>2. Consumed = sent
    <3>1. Len(<<>>) = 0
      BY EmptySeq, Zenon
    <3>2. Consumed = sent - 0
      BY <2>1, <3>1, ZenonT(60) DEF Consumed
    <3> QED BY <2>1, <3>2, SMTT(30) DEF Buffer
  <2>3. DOMAIN out = 1 .. Len(out)
    BY <2>1 DEF Buffer
  <2> QED BY <1>2, <2>1, <2>2, <2>3, ZenonT(60) DEF PassedWhole
<1>3. IInv /\ WInv /\ EndsEmpty => EveryLineExecuted
  BY <1>2, Zenon DEF EveryLineExecuted
<1>4. IInv /\ LInv /\ NoLineSkipped /\ WInv /\ EndsEmpty /\ [Next]_vars => (WInv /\ EndsEmpty)'
  BY NextWInv, NextEndsEmpty
<1> QED BY <1>1, <1>3, <1>4, ReaderInvariant, ReaderAligned, ReaderSkipsNoLine, PTL DEF Spec
=============================================================================
