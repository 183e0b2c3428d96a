---------------------------- MODULE MCLineReader ----------------------------
(***************************************************************************)
(* Module LineReader for TLC: streams of two to four lines.                 *)
(***************************************************************************)
EXTENDS LineReader, SequencesExt

CONSTANT Sizes

Flat(sizes) ==
  FlattenSeq([i \in DOMAIN sizes |->
    [k \in 1..sizes[i] |-> [line |-> i, pos |-> k, last |-> k = sizes[i]]]])

MCSizes ==
  {s \in [1..2 -> {1, 3, 6, 9, 10}] : s[1] + s[2] <= 11}
    \cup [1..3 -> {1, 2, 3}]
    \cup [1..4 -> {1, 2}]
MCStreams == {Flat(sizes) : sizes \in Sizes}
=============================================================================
