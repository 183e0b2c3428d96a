------------------------------- MODULE Decode -------------------------------
(***************************************************************************)
(* vnext.Decode: one JSON line to a Request and an outcome.  It goes over    *)
(* the line twice: scanTopLevelJSON walks the members and knows names        *)
(* exactly, then encoding/json fills the struct wire, which by itself would  *)
(* fold the case of names and let the last of two members win.  A switch     *)
(* then asks for the fields of the operation.                               *)
(*                                                                         *)
(* A line is a sequence of members and what is around them; a value is known *)
(* by what Decode makes of it.                                              *)
(***************************************************************************)
EXTENDS Integers, Sequences, FiniteSets

CONSTANT Lines   \* the lines given to Decode

knownWireKeys == {"op", "x", "y", "name", "press", "button", "displayGen", "observeGen",
                  "xid", "expectedClass", "expectedPID", "add"}
Ops == {"move", "key", "button", "inspect", "activate", "fullscreen", "release"}

(* "OP" is a name that differs from a known one in case only. *)
Names == knownWireKeys \cup {"OP", "other"}
Fold(k) == IF k = "OP" THEN "op" ELSE k

(* "refused" has the right type and a value the operation does not take: an   *)
(* empty name, button 0, xid 0.  "wrong" has the wrong type or overflows, and *)
(* "broken" is no JSON.  The value of op is its string, "" for null; an empty *)
(* expectedClass and an expectedPID of 0 are what null leaves there.          *)
Values == {"good", "refused", "null", "wrong", "broken"}
OpValues == Ops \cup {"", "other", "wrong", "broken"}
ValuesOf(name) ==
  IF Fold(name) = "op" THEN OpValues
  ELSE IF name \in {"name", "button", "xid"} THEN Values ELSE Values \ {"refused"}
Member == [name : Names, val : Values \cup OpValues]

(* What surrounds the members: "object" {...}, "open" an object that does not *)
(* end, "trailing" more text behind it, "value" another JSON value, "blank"   *)
(* nothing or more than maxJSONLine.                                         *)
Line == [kind : {"object", "open", "trailing", "value", "blank"}, members : Seq(Member)]

ASSUME DecodeAssumption ==
  /\ Lines \subseteq Line
  /\ \A l \in Lines : \A j \in DOMAIN l.members :
       l.members[j].val \in ValuesOf(l.members[j].name)

VARIABLES
  line,   \* the line
  pass,   \* "start", "scan", "fill", "switch" or "done"
  i,      \* the member dec.Token is at
  seen,   \* names met by scanTopLevelJSON
  w,      \* the struct wire: name -> value, "absent" when no member set it
  code,   \* the outcome
  req     \* the Request: the fields that are set, by their names, -> value

vars == <<line, pass, i, seen, w, code, req>>

At(j) == line.members[j]
Places == DOMAIN line.members

(* Request{} *)
NoRequest == [k \in {} |-> "absent"]

-----------------------------------------------------------------------------
Init ==
  /\ line \in Lines
  /\ pass = "start"
  /\ i = 1
  /\ seen = {}
  /\ w = [k \in knownWireKeys |-> "absent"]
  /\ code = "none"
  /\ req = NoRequest

Return(c, r) ==
  /\ pass' = "done"
  /\ code' = c
  /\ req' = r
InvalidRequest == Return("InvalidRequest", NoRequest)

(* The length checks, and the first token of scanTopLevelJSON. *)
Start ==
  /\ pass = "start"
  /\ IF line.kind \in {"blank", "value"} THEN InvalidRequest
     ELSE pass' = "scan" /\ UNCHANGED <<code, req>>
  /\ UNCHANGED <<line, i, seen, w>>

(* One member: an unknown or repeated name ends the scan, a value is skipped. *)
DupIgnored(m) == m.name \notin knownWireKeys \/ m.val = "broken"   \* mutant: the last one wins
Bad(m) == m.name \notin knownWireKeys \/ m.name \in seen \/ m.val = "broken"

ScanMember ==
  /\ pass = "scan"
  /\ i <= Len(line.members)
  /\ IF Bad(At(i)) THEN InvalidRequest /\ UNCHANGED <<i, seen>>
     ELSE /\ seen' = seen \cup {At(i).name}
          /\ i' = i + 1
          /\ UNCHANGED <<pass, code, req>>
  /\ UNCHANGED <<line, w>>

ScanEnd ==
  /\ pass = "scan"
  /\ i > Len(line.members)
  /\ pass' = "fill"
  /\ UNCHANGED <<line, i, seen, w, code, req>>

(* dec.Decode(&w): a null leaves a field as it was, the last member wins.     *)
SetBy(k) == {j \in Places : Fold(At(j).name) = k /\ At(j).val # "null"}
Filled ==
  [k \in knownWireKeys |->
     IF SetBy(k) = {} THEN "absent" ELSE At(CHOOSE j \in SetBy(k) : \A h \in SetBy(k) : h <= j).val]
TrailingKept ==   \* mutant: nothing looks behind the object
  line.kind = "open" \/ \E j \in Places : At(j).val \in {"wrong", "broken"}
FillError == line.kind # "object" \/ \E j \in Places : At(j).val \in {"wrong", "broken"}

Fill ==
  /\ pass = "fill"
  /\ IF FillError THEN InvalidRequest /\ UNCHANGED w
     ELSE w' = Filled /\ pass' = "switch" /\ UNCHANGED <<code, req>>
  /\ UNCHANGED <<line, i, seen>>

-----------------------------------------------------------------------------
(* The switch.  windowFromWire asks for the generations and a non-zero xid.   *)
extraSeen(allowed) == \E k \in seen : k \notin allowed

Window == {"displayGen", "observeGen", "xid"}
Expect == {"expectedClass", "expectedPID"}
windowFromWire ==
  /\ w["displayGen"] # "absent"
  /\ w["observeGen"] # "absent"
  /\ w["xid"] = "good"

Switch(op) ==
  CASE op = "move" ->
         ~extraSeen({"op", "x", "y"}) /\ w["x"] # "absent" /\ w["y"] # "absent"
    [] op = "key" ->
         ~extraSeen({"op", "name", "press"}) /\ w["name"] = "good" /\ w["press"] # "absent"
    [] op = "button" ->
         ~extraSeen({"op", "button", "press"}) /\ w["button"] = "good" /\ w["press"] # "absent"
    [] op \in {"inspect", "release"} ->
         ~extraSeen({"op"})
    [] op = "activate" ->
         windowFromWire /\ ~extraSeen({"op"} \cup Window \cup Expect)
    [] op = "fullscreen" ->
         windowFromWire /\ w["add"] # "absent" /\ ~extraSeen({"op", "add"} \cup Window \cup Expect)

(* The fields that the case copies from wire, those of WindowRef included. *)
FieldsWithoutAdd(op) ==   \* mutant: fullscreen leaves AddState as it is
  CASE op = "move"   -> {"x", "y"}
    [] op = "key"    -> {"name", "press"}
    [] op = "button" -> {"button", "press"}
    [] op \in {"activate", "fullscreen"} -> Window \cup Expect
    [] OTHER         -> {}
Fields(op) ==
  CASE op = "move"       -> {"x", "y"}
    [] op = "key"        -> {"name", "press"}
    [] op = "button"     -> {"button", "press"}
    [] op = "activate"   -> Window \cup Expect
    [] op = "fullscreen" -> Window \cup Expect \cup {"add"}
    [] OTHER             -> {}

Request(op) == [k \in {"op"} \cup Fields(op) |-> w[k]]

Check ==
  /\ pass = "switch"
  /\ IF w["op"] \notin Ops THEN Return("NotSubmitted", NoRequest)
     ELSE IF Switch(w["op"]) THEN Return("Submitted", Request(w["op"]))
     ELSE InvalidRequest
  /\ UNCHANGED <<line, i, seen, w>>

Next ==
  \/ Start
  \/ ScanMember
  \/ ScanEnd
  \/ Fill
  \/ Check
  \/ pass = "done" /\ UNCHANGED vars

Spec == Init /\ [][Next]_vars

-----------------------------------------------------------------------------
(* Properties.  The reference speaks of the line alone. *)

(* Every variable has its type. *)
TypeOK ==
  /\ line \in Line
  /\ pass \in {"start", "scan", "fill", "switch", "done"}
  /\ i \in 1 .. Len(line.members) + 1
  /\ seen \subseteq knownWireKeys
  /\ w \in [knownWireKeys -> Values \cup OpValues \cup {"absent"}]
  /\ code \in {"none", "Submitted", "NotSubmitted", "InvalidRequest"}
  /\ DOMAIN req \subseteq knownWireKeys

(* The documented members of an operation, beside op. *)
Required(op) ==
  CASE op = "move"       -> {"x", "y"}
    [] op = "key"        -> {"name", "press"}
    [] op = "button"     -> {"button", "press"}
    [] op = "activate"   -> {"displayGen", "observeGen", "xid"}
    [] op = "fullscreen" -> {"displayGen", "observeGen", "xid", "add"}
    [] OTHER             -> {}
Optional(op) == IF op \in {"activate", "fullscreen"} THEN {"expectedClass", "expectedPID"} ELSE {}
Present == {At(j).name : j \in Places}

(* One object, known names, none twice, every value of its type. *)
Clean ==
  /\ line.kind = "object"
  /\ \A j \in Places : At(j).name \in knownWireKeys /\ At(j).val \notin {"wrong", "broken"}
  /\ \A j, h \in Places : At(j).name = At(h).name => j = h

(* The members a request of operation op may have, with values it takes; an   *)
(* optional one may be null, and then counts as left out.                    *)
Complete(op) ==
  /\ {"op"} \cup Required(op) \subseteq Present
  /\ Present \subseteq {"op"} \cup Required(op) \cup Optional(op)
  /\ \A j \in Places :
       /\ At(j).name = "op" => At(j).val = op
       /\ At(j).name \in Required(op) => At(j).val = "good"

(* PROTOCOL.md, "JSON requests": Submitted is the outcome of exactly the      *)
(* lines that hold one object with the documented members of one operation,   *)
(* each once, the required ones complete, and all of the right type; folded    *)
(* names, repeated members, a null in a required member and text behind the   *)
(* object never get through both passes and the switch.  A null in            *)
(* expectedClass or expectedPID does get through, as if it were not there.    *)
SubmittedIsStrict ==
  pass = "done" => (code = "Submitted" <=> Clean /\ \E op \in Ops : Complete(op))

(* NotSubmitted is kept for a clean object whose operation is not known.      *)
NotSubmittedIsUnknownOp ==
  pass = "done" =>
    (code = "NotSubmitted" <=>
       Clean /\ \A j \in Places : At(j).name = "op" => At(j).val \notin Ops)

(* The only member that sets field k has value v. *)
OnlyMember(k, v) ==
  \E j \in Places : /\ At(j).name = k /\ At(j).val = v
                    /\ \A h \in Places : Fold(At(h).name) = k => h = j

(* "Decode never returns a Request that is only partially populated": a        *)
(* submitted Request has all the documented fields of its operation and no     *)
(* other; each required one has the value of the only member of that name,     *)
(* one the operation takes, and an optional one has that value or, when the    *)
(* line leaves it out or null, none.  With any other outcome it is empty.      *)
RequestIsPopulated ==
  pass = "done" =>
    IF code = "Submitted"
    THEN /\ req["op"] \in Ops /\ OnlyMember("op", req["op"])
         /\ DOMAIN req = {"op"} \cup Required(req["op"]) \cup Optional(req["op"])
         /\ \A k \in Required(req["op"]) : req[k] = "good" /\ OnlyMember(k, "good")
         /\ \A k \in Optional(req["op"]) :
              IF \E j \in Places : At(j).name = k /\ At(j).val # "null"
              THEN OnlyMember(k, req[k]) ELSE req[k] = "absent"
    ELSE DOMAIN req = {}
=============================================================================
