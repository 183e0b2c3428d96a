------------------------------ MODULE MCDecode ------------------------------
(***************************************************************************)
(* Module Decode for TLC: the lines one edit away from a request that is     *)
(* accepted.                                                                *)
(***************************************************************************)
EXTENDS Decode, SequencesExt

M(name, val) == [name |-> name, val |-> val]
Good(names) == [j \in DOMAIN names |-> M(names[j], "good")]
Whole(op, names) == <<M("op", op)>> \o Good(names)

Accepted ==
  { Whole("move", <<"x", "y">>), Whole("key", <<"name", "press">>),
    Whole("button", <<"button", "press">>), Whole("inspect", <<>>),
    Whole("release", <<>>), Whole("other", <<"x">>),
    Whole("activate", <<"displayGen", "observeGen", "xid">>),
    Whole("activate", <<"displayGen", "observeGen", "xid", "expectedClass", "expectedPID">>),
    Whole("fullscreen", <<"displayGen", "observeGen", "xid", "add">>) }

AnyMember == {m \in Member : m.val \in ValuesOf(m.name)}

Edited(s) ==
  {s} \cup {RemoveAt(s, j) : j \in DOMAIN s}
      \cup {InsertAt(s, j, m) : j \in 1 .. Len(s) + 1, m \in AnyMember}
      \cup {ReplaceAt(s, j, m) : j \in DOMAIN s, m \in AnyMember}

MCLines == {[kind |-> k, members |-> s] : k \in {"object", "open", "trailing", "value", "blank"},
                                          s \in UNION {Edited(a) : a \in Accepted}}
=============================================================================
