---------------------------- MODULE DecodeProofs ----------------------------
(***************************************************************************)
(* Decode accepts exactly the requests the protocol documents, for lines of  *)
(* any length.                                                              *)
(***************************************************************************)
EXTENDS Decode, TLAPS

(* The members before place n are known, well-formed and different. *)
CleanTo(n) ==
  /\ line.kind \notin {"blank", "value"}
  /\ \A j \in 1..n : At(j).name \in knownWireKeys /\ At(j).val # "broken"
  /\ \A j, h \in 1..n : At(j).name = At(h).name => j = h

(* The outcome and the Request are those of the line. *)
Right ==
  /\ code = "Submitted" <=> Clean /\ \E op \in Ops : Complete(op)
  /\ code = "NotSubmitted" <=> Clean /\ \A j \in Places : At(j).name = "op" => At(j).val \notin Ops
  /\ RequestIsPopulated

(* The loop invariant of scanTopLevelJSON, and what each pass hands on. *)
IInv ==
  /\ TypeOK
  /\ line \in Lines
  /\ pass = "start" => i = 1 /\ seen = {}
  /\ pass \in {"start", "scan"} => w = [k \in knownWireKeys |-> "absent"]
  /\ pass \in {"scan", "fill", "switch"} =>
       CleanTo(i - 1) /\ seen = {At(j).name : j \in 1 .. i - 1}
  /\ pass \in {"fill", "switch"} => i = Len(line.members) + 1
  /\ pass = "switch" => ~FillError /\ w = Filled
  /\ IF pass = "done" THEN Right ELSE code = "none" /\ req = NoRequest

(* Members are records with a name and a value. *)
LEMMA MemberType ==
  ASSUME line \in Lines
  PROVE  /\ line \in Line
         /\ Len(line.members) \in Nat
         /\ Places = 1 .. Len(line.members)
         /\ \A j \in Places : /\ At(j) \in Member
                              /\ At(j).name \in Names
                              /\ At(j).val \in ValuesOf(At(j).name)
<1>1. line \in Line /\ line.members \in Seq(Member)
  BY DecodeAssumption DEF Line
<1>2. Places = 1 .. Len(line.members) /\ Len(line.members) \in Nat
  BY <1>1 DEF Places
<1>3. \A j \in Places : At(j) \in Member
  BY <1>1, <1>2 DEF At
<1>4. \A j \in Places : At(j).name \in Names
  BY <1>3 DEF Member
<1>5. \A j \in Places : At(j).val \in ValuesOf(At(j).name)
  BY DecodeAssumption DEF At, Places
<1> QED BY <1>1, <1>2, <1>3, <1>4, <1>5

(* A line that is not clean is rightly an InvalidRequest. *)
LEMMA RefusedRight ==
  ASSUME ~Clean, InvalidRequest, line' = line
  PROVE  Right' /\ pass' = "done"
<1>1. ~Clean' /\ code' = "InvalidRequest" /\ req' = NoRequest /\ pass' = "done"
  BY DEF InvalidRequest, Return, Clean, At, Places
<1>2. DOMAIN req' = {}
  BY <1>1 DEF NoRequest
<1> QED BY <1>1, <1>2 DEF Right, RequestIsPopulated

(* In a clean line a member sets the field of its own name, and no other      *)
(* member does.                                                              *)
LEMMA FilledBy ==
  ASSUME line \in Lines, Clean, NEW k \in knownWireKeys
  PROVE  /\ \A j \in Places : At(j).name = k /\ At(j).val # "null" => Filled[k] = At(j).val
         /\ (\A j \in Places : At(j).name = k => At(j).val = "null") => Filled[k] = "absent"
<1>1. \A j \in Places : Fold(At(j).name) = At(j).name
  BY DEF Clean, Fold, knownWireKeys
<1>2. ASSUME NEW j \in Places, At(j).name = k, At(j).val # "null"
      PROVE  Filled[k] = At(j).val
  <2>1. SetBy(k) = {j}
    BY <1>1, <1>2 DEF SetBy, Clean
  <2>2. j <= j
    BY MemberType
  <2>3. (CHOOSE m \in SetBy(k) : \A h \in SetBy(k) : h <= m) = j
    BY <2>1, <2>2
  <2> QED BY <2>1, <2>3, Zenon DEF Filled
<1>3. ASSUME \A j \in Places : At(j).name = k => At(j).val = "null"
      PROVE  Filled[k] = "absent"
  <2>1. SetBy(k) = {}
    BY <1>1, <1>3 DEF SetBy
  <2> QED BY <2>1 DEF Filled
<1> QED BY <1>2, <1>3

(* The values the members of a clean line can have. *)
LEMMA CleanValues ==
  ASSUME line \in Lines, Clean, NEW j \in Places
  PROVE  /\ At(j).name # "op" => At(j).val \in {"good", "refused", "null"}
         /\ At(j).name \notin {"op", "name", "button", "xid"} => At(j).val \in {"good", "null"}
<1>1. /\ At(j).name \in knownWireKeys /\ At(j).val \notin {"wrong", "broken"}
      /\ At(j).val \in ValuesOf(At(j).name)
  BY MemberType DEF Clean
<1>2. Fold(At(j).name) = At(j).name
  BY <1>1 DEF Fold, knownWireKeys
<1> QED BY <1>1, <1>2 DEF ValuesOf, Values

(* What the switch finds in wire, said of the members. *)
LEMMA WireIs ==
  ASSUME line \in Lines, Clean, w = Filled, NEW k \in knownWireKeys \ {"op"}
  PROVE  /\ w[k] # "absent" <=> \E j \in Places : At(j).name = k /\ At(j).val # "null"
         /\ w[k] = "good" <=> \E j \in Places : At(j).name = k /\ At(j).val = "good"
         /\ w[k] \in {"absent", "good", "refused"}
         /\ k \notin {"name", "button", "xid"} => w[k] # "refused"
<1>1. \A j \in Places : At(j).name = k =>
        /\ At(j).val \in {"good", "refused", "null"}
        /\ k \notin {"name", "button", "xid"} => At(j).val \in {"good", "null"}
  BY CleanValues
<1>2. CASE \A j \in Places : At(j).name = k => At(j).val = "null"
  BY <1>2, FilledBy
<1>3. ASSUME NEW j \in Places, At(j).name = k, At(j).val # "null"
      PROVE  /\ w[k] # "absent" <=> \E h \in Places : At(h).name = k /\ At(h).val # "null"
             /\ w[k] = "good" <=> \E h \in Places : At(h).name = k /\ At(h).val = "good"
             /\ w[k] \in {"absent", "good", "refused"}
             /\ k \notin {"name", "button", "xid"} => w[k] # "refused"
  <2>1. w[k] = At(j).val
    BY <1>3, FilledBy
  <2>2. \A h \in Places : At(h).name = k => h = j
    BY <1>3 DEF Clean
  <2> QED BY <1>1, <1>3, <2>1, <2>2
<1> QED BY <1>2, <1>3

(* The operation is the value of the one member op, if there is one. *)
LEMMA OpIs ==
  ASSUME line \in Lines, Clean, w = Filled
  PROVE  /\ \A j \in Places : At(j).name = "op" => At(j).val = w["op"]
         /\ w["op"] \in Ops => "op" \in Present
<1>1. "op" \in knownWireKeys
  BY DEF knownWireKeys
<1>2. \A j \in Places : At(j).name = "op" => At(j).val # "null"
  BY MemberType, Zenon DEF Fold, ValuesOf, OpValues, Ops
<1>3. \A j \in Places : At(j).name = "op" => At(j).val = w["op"]
  BY <1>1, <1>2, FilledBy
<1>4. ("op" \notin Present) => w["op"] = "absent"
  BY <1>1, FilledBy DEF Present
<1> QED BY <1>3, <1>4 DEF Ops

(* Of all operations only the one the line names can be complete. *)
LEMMA OnlyOwnOp ==
  ASSUME line \in Lines, Clean, w = Filled, NEW op \in Ops, Complete(op)
  PROVE  w["op"] = op
<1>1. PICK j \in Places : At(j).name = "op"
  BY DEF Complete, Present
<1>2. At(j).val = op
  BY <1>1 DEF Complete
<1> QED BY <1>1, <1>2, OpIs

(* The case of an operation accepts the lines that are complete for it. *)
LEMMA SwitchIsComplete ==
  ASSUME line \in Lines, Clean, w = Filled, seen = Present,
         NEW op \in Ops, w["op"] = op
  PROVE  Switch(op) <=> Complete(op)
<1> DEFINE Ok(k) == \E j \in Places : At(j).name = k /\ At(j).val = "good"
<1>1. \A k \in knownWireKeys \ {"op"} :
        /\ w[k] = "good" <=> Ok(k)
        /\ k \notin {"name", "button", "xid"} => (w[k] # "absent" <=> Ok(k))
        /\ w[k] = "good" => w[k] # "absent"
  BY WireIs
<1>2. \A j \in Places : At(j).name = "op" => At(j).val = op
  BY OpIs
<1>3. "op" \in Present
  BY OpIs
<1>4. \A j, h \in Places : At(j).name = At(h).name => j = h
  BY DEF Clean
<1>5. (\A j \in Places : At(j).name \in Present) /\ \A k \in Present : \E j \in Places : At(j).name = k
  BY DEF Present
<1>6. \A allowed : ~extraSeen(allowed) <=> Present \subseteq allowed
  BY DEF extraSeen
<1>7. Complete(op) <=>
        /\ Present \subseteq {"op"} \cup Required(op) \cup Optional(op)
        /\ \A k \in Required(op) : Ok(k)
  <2>1. ({"op"} \cup Required(op) \subseteq Present
          /\ \A j \in Places : At(j).name \in Required(op) => At(j).val = "good")
          <=> \A k \in Required(op) : Ok(k)
    BY <1>3, <1>4, <1>5
  <2> QED BY <1>2, <2>1 DEF Complete
<1> HIDE DEF Ok
<1>k. knownWireKeys \ {"op"} = {"x", "y", "name", "press", "button", "displayGen", "observeGen",
                  "xid", "expectedClass", "expectedPID", "add"}
  BY DEF knownWireKeys
<1>a. CASE op = "move"
  BY <1>a, <1>1, <1>k, <1>6, <1>7 DEF Switch, Required, Optional
<1>b. CASE op = "key"
  BY <1>b, <1>1, <1>k, <1>6, <1>7 DEF Switch, Required, Optional
<1>c. CASE op = "button"
  BY <1>c, <1>1, <1>k, <1>6, <1>7 DEF Switch, Required, Optional
<1>d. CASE op \in {"inspect", "release"}
  BY <1>d, <1>1, <1>k, <1>6, <1>7, Zenon DEF Switch, Required, Optional
<1>e. CASE op = "activate"
  BY <1>e, <1>1, <1>k, <1>6, <1>7 DEF Switch, Required, Optional, Window, Expect, windowFromWire
<1>f. CASE op = "fullscreen"
  BY <1>f, <1>1, <1>k, <1>6, <1>7 DEF Switch, Required, Optional, Window, Expect, windowFromWire
<1> QED BY <1>a, <1>b, <1>c, <1>d, <1>e, <1>f DEF Ops

(* The case copies the documented fields. *)
LEMMA FieldsDocumented ==
  ASSUME NEW op \in Ops
  PROVE  /\ Fields(op) = Required(op) \cup Optional(op)
         /\ Fields(op) \subseteq knownWireKeys \ {"op"}
<1>1. CASE op \in {"move", "key", "button"}
  BY <1>1 DEF Fields, Required, Optional, knownWireKeys
<1>2. CASE op \in {"inspect", "release"}
  BY <1>2, Zenon DEF Fields, Required, Optional
<1>3. CASE op = "activate"
  BY <1>3 DEF Fields, Required, Optional, Window, Expect, knownWireKeys
<1>4. CASE op = "fullscreen"
  BY <1>4 DEF Fields, Required, Optional, Window, Expect, knownWireKeys
<1> QED BY <1>1, <1>2, <1>3, <1>4 DEF Ops

LEMMA InitIInv == Init => IInv
<1> SUFFICES ASSUME Init PROVE IInv
  OBVIOUS
<1>1. line \in Lines /\ line \in Line /\ Len(line.members) \in Nat
  BY MemberType DEF Init
<1>2. TypeOK
  BY <1>1 DEF Init, TypeOK, NoRequest
<1> QED BY <1>1, <1>2 DEF Init, IInv

(* The first token. *)
LEMMA StartStep == ASSUME IInv, Start PROVE IInv'
<1>1. CASE line.kind \in {"blank", "value"}
  <2>1. ~Clean /\ InvalidRequest /\ line' = line /\ UNCHANGED <<i, seen, w>>
    BY <1>1 DEF Start, Clean
  <2>2. Right' /\ pass' = "done"
    BY <2>1, RefusedRight
  <2>3. TypeOK'
    BY <2>1 DEF IInv, TypeOK, InvalidRequest, Return, NoRequest
  <2> QED BY <2>1, <2>2, <2>3 DEF IInv
<1>2. CASE line.kind \notin {"blank", "value"}
  <2>1. pass' = "scan" /\ pass = "start" /\ UNCHANGED <<line, i, seen, w, code, req>>
    BY <1>2 DEF Start
  <2>2. TypeOK'
    BY <2>1 DEF IInv, TypeOK
  <2>3. i = 1 /\ seen = {}
    BY <2>1 DEF IInv
  <2>4. CleanTo(i - 1)' /\ seen' = {At(j).name : j \in 1 .. i - 1}'
    BY <1>2, <2>1, <2>3 DEF CleanTo, At
  <2> QED BY <2>1, <2>2, <2>4 DEF IInv
<1> QED BY <1>1, <1>2

(* One turn of the loop in scanTopLevelJSON. *)
LEMMA ScanStep == ASSUME IInv, ScanMember PROVE IInv'
<1>0. /\ pass = "scan" /\ line' = line /\ w' = w /\ i \in 1 .. Len(line.members)
      /\ CleanTo(i - 1) /\ seen = {At(j).name : j \in 1 .. i - 1}
      /\ line \in Lines /\ Len(line.members) \in Nat /\ Places = 1 .. Len(line.members)
  BY MemberType DEF IInv, TypeOK, ScanMember
<1>1. CASE Bad(At(i))
  <2>1. ~Clean
    BY <1>0, <1>1 DEF Clean, Bad
  <2>2. InvalidRequest /\ UNCHANGED <<i, seen>>
    BY <1>1 DEF ScanMember
  <2>3. Right' /\ pass' = "done"
    BY <1>0, <2>1, <2>2, RefusedRight
  <2>4. TypeOK'
    BY <1>0, <2>2 DEF IInv, TypeOK, InvalidRequest, Return, NoRequest
  <2> QED BY <1>0, <2>2, <2>3, <2>4 DEF IInv
<1>2. CASE ~Bad(At(i))
  <2>1. seen' = seen \cup {At(i).name} /\ i' = i + 1 /\ UNCHANGED <<pass, code, req>>
    BY <1>2 DEF ScanMember
  <2>2. At(i).name \in knownWireKeys /\ At(i).name \notin seen /\ At(i).val # "broken"
    BY <1>2 DEF Bad
  <2>3. TypeOK'
    BY <1>0, <2>1, <2>2 DEF IInv, TypeOK
  <2>4. 1 .. i' - 1 = (1 .. i - 1) \cup {i}
    BY <1>0, <2>1
  <2>5. CleanTo(i)
    BY <1>0, <2>2 DEF CleanTo
  <2>6. CleanTo(i - 1)' /\ seen' = {At(j).name : j \in 1 .. i - 1}'
    BY <1>0, <2>1, <2>4, <2>5 DEF CleanTo, At
  <2> QED BY <1>0, <2>1, <2>3, <2>6, Zenon DEF IInv
<1> QED BY <1>1, <1>2

LEMMA ScanEndStep == ASSUME IInv, ScanEnd PROVE IInv'
<1>1. /\ pass = "scan" /\ pass' = "fill" /\ UNCHANGED <<line, i, seen, w, code, req>>
      /\ i = Len(line.members) + 1
  BY MemberType DEF IInv, TypeOK, ScanEnd
<1>2. TypeOK'
  BY <1>1 DEF IInv, TypeOK
<1> QED BY <1>1, <1>2 DEF IInv, CleanTo, At

(* After both passes the line is clean and seen holds its names. *)
LEMMA FillIsClean ==
  ASSUME IInv, pass \in {"fill", "switch"}
  PROVE  /\ line \in Lines /\ seen = Present
         /\ Clean <=> ~FillError
<1>1. line \in Lines /\ Places = 1 .. i - 1 /\ CleanTo(i - 1) /\ seen = {At(j).name : j \in Places}
  BY MemberType DEF IInv
<1>2. Clean <=> ~FillError
  BY <1>1 DEF Clean, FillError, CleanTo
<1> QED BY <1>1, <1>2 DEF Present

(* dec.Decode(&w). *)
LEMMA FillStep == ASSUME IInv, Fill PROVE IInv'
<1>0. pass = "fill" /\ UNCHANGED <<line, i, seen>> /\ line \in Lines
  BY DEF IInv, Fill
<1>1. CASE FillError
  <2>1. ~Clean /\ InvalidRequest /\ w' = w
    BY <1>0, <1>1, FillIsClean DEF Fill
  <2>2. Right' /\ pass' = "done"
    BY <1>0, <2>1, RefusedRight
  <2>3. TypeOK'
    BY <1>0, <2>1 DEF IInv, TypeOK, InvalidRequest, Return, NoRequest
  <2> QED BY <1>0, <2>1, <2>2, <2>3 DEF IInv
<1>2. CASE ~FillError
  <2>1. w' = Filled /\ pass' = "switch" /\ UNCHANGED <<code, req>>
    BY <1>2 DEF Fill
  <2>2. Filled \in [knownWireKeys -> Values \cup OpValues \cup {"absent"}]
    <3>1. \A k : SetBy(k) \subseteq Places
      BY DEF SetBy
    <3>2. \A j \in Places : At(j).val \in Values \cup OpValues
      BY <1>0, MemberType DEF ValuesOf
    <3>3. ASSUME NEW k \in knownWireKeys
          PROVE  (IF SetBy(k) = {} THEN "absent"
                  ELSE At(CHOOSE j \in SetBy(k) : \A h \in SetBy(k) : h <= j).val)
                 \in Values \cup OpValues \cup {"absent"}
      <4>1. CASE SetBy(k) = {}
        BY <4>1
      <4>2. CASE SetBy(k) # {}
        <5>1. Clean
          BY <1>0, <1>2, FillIsClean
        <5>2. PICK j \in Places : Fold(At(j).name) = k /\ At(j).val # "null"
          BY <4>2 DEF SetBy
        <5>3. At(j).name = k
          BY <5>1, <5>2 DEF Clean, Fold, knownWireKeys
        <5>4. Filled[k] = At(j).val
          BY <1>0, <5>1, <5>2, <5>3, FilledBy
        <5> QED BY <4>2, <5>4, <3>2 DEF Filled
      <4> QED BY <4>1, <4>2
    <3> QED BY <3>3, Zenon DEF Filled
  <2>3. TypeOK'
    BY <1>0, <2>1, <2>2, SMTT(30) DEF IInv, TypeOK
  <2>4. ~FillError' /\ w' = Filled'
    BY <1>0, <1>2, <2>1 DEF FillError, Filled, SetBy, Places, At
  <2>5. CleanTo(i - 1)' /\ seen' = {At(j).name : j \in 1 .. i - 1}'
    BY <1>0 DEF IInv, CleanTo, At
  <2> QED BY <1>0, <2>1, <2>3, <2>4, <2>5 DEF IInv
<1> QED BY <1>1, <1>2

(* The switch. *)
LEMMA CheckStep == ASSUME IInv, Check PROVE IInv'
<1>0. pass = "switch" /\ UNCHANGED <<line, i, seen, w>> /\ w = Filled
  BY DEF IInv, Check
<1>1. line \in Lines /\ seen = Present /\ Clean
  BY <1>0, FillIsClean DEF IInv
<1>2. \A j \in Places : At(j).name \in knownWireKeys /\ Fold(At(j).name) = At(j).name
  BY <1>1 DEF Clean, Fold, knownWireKeys
<1>3. Clean' = Clean /\ (\A op : Complete(op)' = Complete(op)) /\ Places' = Places
      /\ (\A j : At(j)' = At(j))
  BY <1>0 DEF Clean, Complete, Places, At, Present
<1>4. CASE w["op"] \notin Ops
  <2>1. pass' = "done" /\ code' = "NotSubmitted" /\ req' = NoRequest /\ DOMAIN req' = {}
    BY <1>4 DEF Check, Return, NoRequest
  <2>2. \A op \in Ops : ~Complete(op)
    BY <1>0, <1>1, <1>4, OnlyOwnOp
  <2>3. \A j \in Places : At(j).name = "op" => At(j).val \notin Ops
    BY <1>0, <1>1, <1>4, OpIs
  <2>4. Right'
    BY <1>1, <1>3, <2>1, <2>2, <2>3 DEF Right, RequestIsPopulated
  <2>5. TypeOK'
    BY <1>0, <2>1 DEF IInv, TypeOK
  <2> QED BY <1>0, <1>1, <2>1, <2>4, <2>5 DEF IInv
<1>5. CASE w["op"] \in Ops
  <2> DEFINE op == w["op"]
  <2>1. PICK j \in Places : At(j).name = "op" /\ At(j).val = op
    BY <1>0, <1>1, <1>5, OpIs DEF Present
  <2>2. (\E o \in Ops : Complete(o)) <=> Complete(op)
    BY <1>0, <1>1, <1>5, OnlyOwnOp
  <2>3. Switch(op) <=> Complete(op)
    BY <1>0, <1>1, <1>5, SwitchIsComplete
  <2>4. CASE ~Switch(op)
    <3>1. pass' = "done" /\ code' = "InvalidRequest" /\ req' = NoRequest /\ DOMAIN req' = {}
      BY <1>5, <2>4 DEF Check, InvalidRequest, Return, NoRequest
    <3>2. Right'
      BY <1>3, <1>5, <2>1, <2>2, <2>3, <2>4, <3>1 DEF Right, RequestIsPopulated
    <3>3. TypeOK'
      BY <1>0, <3>1 DEF IInv, TypeOK
    <3> QED BY <1>0, <1>1, <3>1, <3>2, <3>3 DEF IInv
  <2>5. CASE Switch(op)
    <3>1. pass' = "done" /\ code' = "Submitted" /\ req' = Request(op)
      BY <1>5, <2>5 DEF Check, Return
    <3>2. /\ DOMAIN req' = {"op"} \cup Required(op) \cup Optional(op)
          /\ \A k \in {"op"} \cup Required(op) \cup Optional(op) : req'[k] = w[k]
          /\ Required(op) \cup Optional(op) \subseteq knownWireKeys \ {"op"}
      BY <1>5, <3>1, FieldsDocumented DEF Request
    <3>a. ASSUME NEW h \in Places PROVE OnlyMember(At(h).name, At(h).val)
      BY <1>1, <1>2 DEF OnlyMember, Clean
    <3>b. ASSUME NEW k \in Required(op) PROVE req'[k] = "good" /\ OnlyMember(k, "good")
      <4>1. PICK h \in Places : At(h).name = k
        BY <2>3, <2>5 DEF Complete, Present
      <4>2. At(h).val = "good"
        BY <2>3, <2>5, <4>1 DEF Complete
      <4>3. k \in knownWireKeys \ {"op"} /\ req'[k] = w[k]
        BY <3>2
      <4>4. w[k] = "good"
        BY <1>0, <1>1, <4>1, <4>2, <4>3, WireIs
      <4>5. OnlyMember(k, "good")
        BY <3>a, <4>1, <4>2
      <4> QED BY <4>3, <4>4, <4>5
    <3>c. ASSUME NEW k \in Optional(op)
          PROVE  IF \E j_1 \in Places : At(j_1).name = k /\ At(j_1).val # "null"
                 THEN OnlyMember(k, req'[k]) ELSE req'[k] = "absent"
      <4>1. req'[k] = w[k] /\ k \in knownWireKeys \ {"op"}
        BY <3>2
      <4>2. CASE \E h \in Places : At(h).name = k /\ At(h).val # "null"
        <5>1. PICK h \in Places : At(h).name = k /\ At(h).val # "null"
          BY <4>2
        <5>2. w[k] = At(h).val
          BY <1>0, <1>1, <4>1, <5>1, FilledBy
        <5> QED BY <3>a, <4>1, <4>2, <5>1, <5>2
      <4> QED BY <1>0, <1>1, <4>1, <4>2, WireIs
    <3>d. req'["op"] = op /\ OnlyMember("op", op)
      BY <2>1, <3>2, <3>a
    <3>e. \A k, v : OnlyMember(k, v)' <=> OnlyMember(k, v)
      BY <1>3 DEF OnlyMember
    <3>3. RequestIsPopulated'
      BY <1>3, <1>5, <3>1, <3>2, <3>b, <3>c, <3>d, <3>e DEF RequestIsPopulated
    <3>4. Right'
      BY <1>1, <1>3, <1>5, <2>1, <2>2, <2>3, <2>5, <3>1, <3>3 DEF Right
    <3>5. DOMAIN req' \subseteq knownWireKeys
      BY <3>2 DEF knownWireKeys
    <3>6. TypeOK'
      BY <1>0, <3>1, <3>5 DEF IInv, TypeOK
    <3> QED BY <1>0, <1>1, <3>1, <3>4, <3>6 DEF IInv
  <2> QED BY <2>4, <2>5
<1> QED BY <1>4, <1>5

LEMMA StepIInv == IInv /\ [Next]_vars => IInv'
<1> SUFFICES ASSUME IInv, [Next]_vars PROVE IInv'
  OBVIOUS
<1>1. CASE UNCHANGED vars
  <2>1. line' = line /\ pass' = pass /\ i' = i /\ seen' = seen /\ w' = w /\ code' = code /\ req' = req
    BY <1>1 DEF vars
  <2>2. TypeOK'
    BY <2>1 DEF IInv, TypeOK
  <2>3. CleanTo(i - 1)' = CleanTo(i - 1) /\ {At(j).name : j \in 1 .. i - 1}' = {At(j).name : j \in 1 .. i - 1}
    BY <2>1 DEF CleanTo, At
  <2>4. FillError' = FillError /\ Filled' = Filled
    BY <2>1 DEF FillError, Filled, SetBy, Places, At
  <2>5. Clean' = Clean /\ (\A op : Complete(op)' = Complete(op)) /\ RequestIsPopulated' = RequestIsPopulated
        /\ Places' = Places /\ (\A j : At(j)' = At(j))
    BY <2>1 DEF Clean, Complete, RequestIsPopulated, OnlyMember, Places, At, Present
  <2>6. Right' = Right
    BY <2>1, <2>5 DEF Right
  <2> QED BY <2>1, <2>2, <2>3, <2>4, <2>6, Zenon DEF IInv
<1>2. CASE Start \/ ScanMember \/ ScanEnd \/ Fill \/ Check
  BY <1>2, StartStep, ScanStep, ScanEndStep, FillStep, CheckStep
<1> QED BY <1>1, <1>2 DEF Next

(* Decode's state is inductively right: the loop invariant of the scan, what   *)
(* each pass hands to the next, and the outcome of the line.                  *)
THEOREM DecodeInvariant == Spec => []IInv
<1> QED BY InitIInv, StepIInv, PTL DEF Spec

(* Every variable of Decode has its type, for lines of any length. *)
THEOREM DecodeTypeCorrect == Spec => []TypeOK
<1>1. IInv => TypeOK
  BY DEF IInv
<1> QED BY <1>1, DecodeInvariant, PTL

(* Decode submits exactly the documented requests: no line of any length with  *)
(* a folded, repeated, extra or ill-typed member, or with a required one        *)
(* missing, null or of a value the operation does not take, gets through both   *)
(* passes and the switch, and every other line does.                           *)
THEOREM DecodeIsStrict == Spec => []SubmittedIsStrict
<1>1. IInv => SubmittedIsStrict
  BY DEF IInv, Right, SubmittedIsStrict
<1> QED BY <1>1, DecodeInvariant, PTL

(* Decode answers NotSubmitted to exactly the clean objects with no known op. *)
THEOREM DecodeKeepsNotSubmitted == Spec => []NotSubmittedIsUnknownOp
<1>1. IInv => NotSubmittedIsUnknownOp
  BY DEF IInv, Right, NotSubmittedIsUnknownOp
<1> QED BY <1>1, DecodeInvariant, PTL

(* Decode never returns a Request that is only partially populated: with       *)
(* Submitted it has every documented field of its operation, each with the      *)
(* value of the only member that sets it, and with any other outcome none.      *)
THEOREM DecodePopulates == Spec => []RequestIsPopulated
<1>1. IInv => RequestIsPopulated
  BY DEF IInv, Right, RequestIsPopulated
<1> QED BY <1>1, DecodeInvariant, PTL
=============================================================================
