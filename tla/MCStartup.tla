----------------------------- MODULE MCStartup -----------------------------
(* Small instances of Startup. *)
EXTENDS Startup

CONSTANTS p1, p2, p3, u, v, root

(* p1 and p2 are root's, who may write to /run; they compete for one lock and *)
(* one socket path.  p3 is the daemon of another user, who has to lock in     *)
(* /tmp and may have created the lock file there first.                      *)
MCProcs == {p1, p2, p3}
MCUserOf == [p \in MCProcs |-> IF p = p3 THEN v ELSE root]
MCDisplayVar == [p \in MCProcs |-> ":99"]
MCLockName == [d \in {":99", ":99.0"} |-> IF d = ":99" THEN "-99" ELSE "-99-0"]
MCServerOf == [d \in {":99", ":99.0"} |-> "x99"]
MCFlagsOf == [p \in MCProcs |-> [tcp |-> p = p3, ws |-> FALSE,
                                 vnext |-> IF p = p3 THEN "none" ELSE "good"]]
MCPath == [p \in MCProcs |-> "a"]
MCParentOwner == [a \in {"a"} |-> root]

(* p1 and p2 are given one socket path but spell DISPLAY differently, so they *)
(* hold different locks; p3 competes with p1 for its lock.                   *)
PathUserOf == [p \in MCProcs |-> u]
PathParentOwner == [a \in {"a"} |-> u]
PathDisplayVar == [p \in MCProcs |-> IF p = p2 THEN ":99.0" ELSE ":99"]

(* A daemon of root beside a daemon of u, on the same DISPLAY string. *)
TwoProcs == {p1, p2}
TwoUserOf == [p \in TwoProcs |-> IF p = p1 THEN u ELSE root]
TwoDisplayVar == [p \in TwoProcs |-> ":99"]
TwoFlagsOf == [p \in TwoProcs |-> [tcp |-> FALSE, ws |-> FALSE,
                                   vnext |-> IF p = p1 THEN "good" ELSE "none"]]
TwoPath == [p \in TwoProcs |-> "a"]
TwoParentOwner == [a \in {"a"} |-> u]
=============================================================================
