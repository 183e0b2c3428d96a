---------------------------- MODULE DestWindows ----------------------------
(***************************************************************************)
(* Window operations of the destination server: inspect (ManagedClients),   *)
(* activate and fullscreen (Revalidate, then the mutation, as separate jobs *)
(* of the X owner), with windows coming and going at the X server meanwhile. *)
(*                                                                         *)
(* The list hash is taken to be collision free: hash holds the list itself. *)
(* A window's class and PID are those of the application that created it,   *)
(* and empty when the window is gone.                                       *)
(***************************************************************************)
EXTENDS Integers, Sequences

CONSTANTS
  Conns,         \* connections
  Xids,          \* window identifiers; the X server reuses them
  Apps,          \* applications, each with its own class and PID
  NoApp,         \* class "" and PID 0: no window, or "do not check"
  NoConn,
  NoRef,
  NoList,        \* listHash = 0: no list observed yet
  MaxList,       \* 256, the windows refreshClientList reads
  MaxChanges,    \* bound: changes at the X server
  MaxRestarts    \* bound: restarts of the daemon

ASSUME WindowsAssumption ==
  /\ NoApp \notin Apps
  /\ NoConn \notin Conns
  /\ NoList \notin Seq(Xids)
  /\ MaxList \in Nat
  /\ MaxChanges \in Nat
  /\ MaxRestarts \in Nat

VARIABLES
  list,       \* X server: _NET_CLIENT_LIST
  app,        \* X server: app[x], the application behind window x
  supported,  \* X server: the atoms of _NET_SUPPORTED
  gen,        \* xDestBackend.observeGen (displayGen is always 1)
  hash,       \* xDestBackend.listHash
  busy,       \* the connection whose job the owner is in the middle of
  pc,         \* pc[c]: where the request of connection c stands
  op,         \* op[c]: its operation
  ref,        \* ref[c]: its WindowRef, and the list it was taken from
  code,       \* code[c]: its outcome
  mutated,    \* mutated[c]: the request has sent its mutation
  quiet,      \* quiet[c]: nothing changed at the X server since Revalidate began
  snap,       \* snap[c]: the inspect reply the client keeps, if any
  changes, restarts

server == <<list, app, supported, changes>>
request == <<pc, op, ref, code, mutated, quiet>>
vars == <<server, gen, hash, busy, request, snap, restarts>>

Atoms == {"list", "active", "fullscreen"}

(* An inspect reply and a reference.  boot (the run of the daemon) and from  *)
(* (the list the reference was taken from) are not on the wire.              *)
Snapshot == [boot : Nat, gen : Nat, list : Seq(Xids), apps : [Xids -> Apps \cup {NoApp}]]
Ref == [boot : Nat, gen : Nat, xid : Xids, class : Apps \cup {NoApp},
        pid : Apps \cup {NoApp}, from : Seq(Xids)]

In(x, l) == \E i \in DOMAIN l : l[i] = x

Init ==
  /\ list = <<>>
  /\ app = [x \in Xids |-> NoApp]
  /\ supported = Atoms
  /\ gen = 1
  /\ hash = NoList
  /\ busy = NoConn
  /\ pc = [c \in Conns |-> "idle"]
  /\ op = [c \in Conns |-> "inspect"]
  /\ ref = [c \in Conns |-> NoRef]
  /\ code = [c \in Conns |-> "Submitted"]
  /\ mutated = [c \in Conns |-> FALSE]
  /\ quiet = [c \in Conns |-> FALSE]
  /\ snap = [c \in Conns |-> {}]
  /\ changes = 0
  /\ restarts = 0

Goto(c, l) == pc' = [pc EXCEPT ![c] = l]

(* Dispatch returns outcome o; the request is not needed any more. *)
Answer(c, o) ==
  /\ Goto(c, "reply")
  /\ code' = [code EXCEPT ![c] = o]
  /\ op' = [op EXCEPT ![c] = "inspect"]
  /\ ref' = [ref EXCEPT ![c] = NoRef]
  /\ quiet' = [quiet EXCEPT ![c] = FALSE]

(* Dispatch goes on with its next step, l. *)
Continue(c, l) == Goto(c, l) /\ UNCHANGED <<code, op, ref>>

-----------------------------------------------------------------------------
(* The X server: windows are created and destroyed, the window manager comes *)
(* and goes.  An identifier may come back with another application.          *)

Change ==
  /\ changes < MaxChanges
  /\ changes' = changes + 1
  /\ quiet' = [c \in Conns |-> FALSE]
  /\ UNCHANGED <<gen, hash, busy, pc, op, ref, code, mutated, snap, restarts>>

Create(x, a) ==
  /\ ~In(x, list)
  /\ list' = Append(list, x)
  /\ app' = [app EXCEPT ![x] = a]
  /\ UNCHANGED supported
  /\ Change

Destroy(x) ==
  /\ \E i \in DOMAIN list :
       /\ list[i] = x
       /\ list' = SubSeq(list, 1, i - 1) \o SubSeq(list, i + 1, Len(list))
  /\ app' = [app EXCEPT ![x] = NoApp]
  /\ UNCHANGED supported
  /\ Change

ManagerChanges ==
  /\ supported' \in {{}, {"list"}, Atoms} \ {supported}
  /\ UNCHANGED <<list, app>>
  /\ Change

-----------------------------------------------------------------------------
(* A client writes a request: inspect, or an operation on a window of the    *)
(* reply it keeps, with or without the class and PID checks.                 *)

AskInspect(c) ==
  /\ pc[c] = "idle"
  /\ Goto(c, "clients")
  /\ UNCHANGED <<server, gen, hash, busy, op, ref, code, mutated, quiet, snap, restarts>>

AskMutation(c, o) ==
  /\ pc[c] = "idle"
  /\ \E s \in snap[c] : \E i \in DOMAIN s.list :
       LET x == s.list[i]
       IN  \E class, pid \in {NoApp, s.apps[x]} :
             ref' = [ref EXCEPT ![c] =
               [boot |-> s.boot, gen |-> s.gen, xid |-> x, class |-> class,
                pid |-> pid, from |-> s.list]]
  /\ op' = [op EXCEPT ![c] = o]
  /\ Goto(c, "reval")
  /\ UNCHANGED <<server, gen, hash, busy, code, mutated, quiet, snap, restarts>>

-----------------------------------------------------------------------------
(* ManagedClients, in two steps: the list is read and its generation fixed,  *)
(* then the windows are described.                                           *)

(* The reads of x11.go.  A list is read as far as it fits the array, and a   *)
(* window that is gone has neither class nor PID.                            *)
netSupportedHas(a) == a \in supported
refreshClientList == SubSeq(list, 1, IF Len(list) <= MaxList THEN Len(list) ELSE MaxList)
windowClass(x) == app[x]
windowPID(x) == app[x]

(* observeGen moves when a list differs from the one observed before. *)
ObserveNever == gen   \* mutant: the generation does not move
ObserveAlways == gen + 1   \* mutant: every observation moves it
Observe == IF hash # NoList /\ hash # refreshClientList THEN gen + 1 ELSE gen

(* The screen has no size, the window manager does not support the list, or  *)
(* the list cannot be read.                                                  *)
NotObserved(c) == Answer(c, "Unavailable") /\ UNCHANGED <<gen, hash>>

Clients(c) ==
  /\ pc[c] = "clients"
  /\ busy = NoConn
  /\ \/ NotObserved(c) /\ UNCHANGED busy
     \/ /\ netSupportedHas("list")
        /\ gen' = Observe
        /\ hash' = refreshClientList
        /\ busy' = c
        /\ Continue(c, "describe")
        /\ UNCHANGED quiet
  /\ UNCHANGED <<server, mutated, snap, restarts>>

(* A reply describes the windows of the list that was read. *)
Describe(c) ==
  /\ pc[c] = "describe"
  /\ snap' = [snap EXCEPT ![c] = {[boot |-> restarts, gen |-> gen,
                                     list |-> hash,
                                     apps |-> [x \in Xids |-> IF In(x, hash) THEN app[x] ELSE NoApp]]}]
  /\ busy' = NoConn
  /\ Answer(c, "Submitted")
  /\ UNCHANGED <<server, gen, hash, mutated, restarts>>

-----------------------------------------------------------------------------
(* Revalidate: list and generation, then class, then PID. *)

MatchesAnyGen(c) ==   \* mutant: the generation is not compared
  /\ hash \in {NoList, refreshClientList}
  /\ In(ref[c].xid, refreshClientList)
Matches(c) ==
  /\ hash \in {NoList, refreshClientList}
  /\ ref[c].gen = gen
  /\ In(ref[c].xid, refreshClientList)

Revalidate(c) ==
  /\ pc[c] = "reval"
  /\ busy = NoConn
  /\ \/ NotObserved(c) /\ UNCHANGED busy
     \/ /\ netSupportedHas("list")
        /\ gen' = Observe
        /\ hash' = refreshClientList
        /\ IF Matches(c)
           THEN /\ Continue(c, "class")
                /\ busy' = c
                /\ quiet' = [quiet EXCEPT ![c] = TRUE]
           ELSE Answer(c, "Conflict") /\ UNCHANGED busy
  /\ UNCHANGED <<server, mutated, snap, restarts>>

CheckClass(c) ==
  /\ pc[c] = "class"
  /\ IF ref[c].class \in {NoApp, windowClass(ref[c].xid)}
     THEN Continue(c, "pid") /\ UNCHANGED <<busy, quiet>>
     ELSE Answer(c, "Conflict") /\ busy' = NoConn
  /\ UNCHANGED <<server, gen, hash, mutated, snap, restarts>>

CheckPIDSkipped(c) ==   \* mutant: the PID is not compared
  /\ pc[c] = "pid"
  /\ Goto(c, "mutate")
  /\ busy' = NoConn
  /\ UNCHANGED <<server, gen, hash, op, ref, code, mutated, quiet, snap, restarts>>
CheckPID(c) ==
  /\ pc[c] = "pid"
  /\ IF ref[c].pid \in {NoApp, windowPID(ref[c].xid)}
     THEN Continue(c, "mutate") /\ UNCHANGED quiet
     ELSE Answer(c, "Conflict")
  /\ busy' = NoConn
  /\ UNCHANGED <<server, gen, hash, mutated, snap, restarts>>

-----------------------------------------------------------------------------
(* The mutation, a job of its own: ActivateAlwaysBoth or SetFullscreen. *)

Needs(o) == IF o = "activate" THEN "active" ELSE "fullscreen"

(* The client message to the window manager; activate sets the focus too. *)
SendEvent(c) == mutated' = [mutated EXCEPT ![c] = TRUE]

Mutate(c) ==
  /\ pc[c] = "mutate"
  /\ busy = NoConn
  /\ \/ /\ netSupportedHas(Needs(op[c]))
        /\ SendEvent(c)
        /\ \/ op[c] = "activate" /\ Continue(c, "active") /\ UNCHANGED quiet
           \/ op[c] = "activate" /\ Answer(c, "Unavailable")   \* setInputFocus failed
           \/ op[c] = "fullscreen" /\ Answer(c, "Submitted")
     \/ Answer(c, "Unavailable") /\ UNCHANGED mutated   \* no support, or no XSendEvent
  /\ UNCHANGED <<server, gen, hash, busy, snap, restarts>>

(* ActiveWindow, the last call of activate. *)
ActiveConflicts(c) ==   \* mutant: another active window is answered with Conflict
  /\ pc[c] = "active"
  /\ busy = NoConn
  /\ Answer(c, IF netSupportedHas("active") THEN "Submitted" ELSE "Conflict")
  /\ UNCHANGED <<server, gen, hash, busy, mutated, snap, restarts>>
Active(c) ==
  /\ pc[c] = "active"
  /\ busy = NoConn
  /\ Answer(c, IF netSupportedHas("active") THEN "Submitted" ELSE "Unavailable")
  /\ UNCHANGED <<server, gen, hash, busy, mutated, snap, restarts>>

(* The answer is written. *)
Reply(c) ==
  /\ pc[c] = "reply"
  /\ Goto(c, "idle")
  /\ code' = [code EXCEPT ![c] = "Submitted"]
  /\ mutated' = [mutated EXCEPT ![c] = FALSE]
  /\ UNCHANGED <<server, gen, hash, busy, op, ref, quiet, snap, restarts>>

(* The daemon restarts: destBackend starts both generations at 1 again.      *)
(* Clients keep what they know.                                              *)
Restart ==
  /\ restarts < MaxRestarts
  /\ restarts' = restarts + 1
  /\ gen' = 1
  /\ hash' = NoList
  /\ busy' = NoConn
  /\ pc' = [c \in Conns |-> "idle"]
  /\ op' = [c \in Conns |-> "inspect"]
  /\ ref' = [c \in Conns |-> NoRef]
  /\ code' = [c \in Conns |-> "Submitted"]
  /\ mutated' = [c \in Conns |-> FALSE]
  /\ quiet' = [c \in Conns |-> FALSE]
  /\ UNCHANGED <<server, snap>>

Serve(c) ==
  \/ Clients(c) \/ Describe(c)
  \/ Revalidate(c) \/ CheckClass(c) \/ CheckPID(c)
  \/ Mutate(c) \/ Active(c) \/ Reply(c)

Next ==
  \/ \E x \in Xids : Destroy(x) \/ \E a \in Apps : Create(x, a)
  \/ ManagerChanges
  \/ \E c \in Conns : Serve(c) \/ AskInspect(c)
  \/ \E c \in Conns, o \in {"activate", "fullscreen"} : AskMutation(c, o)
  \/ Restart

Spec == Init /\ [][Next]_vars

-----------------------------------------------------------------------------
(* Properties. *)

Labels == {"idle", "clients", "describe", "reval", "class", "pid", "mutate", "active", "reply"}

(* Every variable has its type, and a generation moves only for a change. *)
TypeOK ==
  /\ list \in Seq(Xids)
  /\ app \in [Xids -> Apps \cup {NoApp}]
  /\ supported \in SUBSET Atoms
  /\ gen \in 1 .. MaxChanges + 1
  /\ hash \in Seq(Xids) \cup {NoList}
  /\ busy \in Conns \cup {NoConn}
  /\ pc \in [Conns -> Labels]
  /\ op \in [Conns -> {"inspect", "activate", "fullscreen"}]
  /\ ref \in [Conns -> Ref \cup {NoRef}]
  /\ code \in [Conns -> {"Submitted", "Conflict", "Unavailable"}]
  /\ mutated \in [Conns -> BOOLEAN]
  /\ quiet \in [Conns -> BOOLEAN]
  /\ snap \in [Conns -> SUBSET Snapshot]
  /\ changes \in 0..MaxChanges
  /\ restarts \in 0..MaxRestarts

(* Within one run of the daemon a generation stands for one client list:     *)
(* replies to different clients that carry the same observeGen list the same *)
(* windows in the same order, whoever observed the change (ManagedClients or *)
(* Revalidate).                                                              *)
SameGenSameList ==
  \A c, d \in Conns : \A s \in snap[c], t \in snap[d] :
    s.boot = t.boot /\ s.gen = t.gen => s.list = t.list

(* A reference gets past the list check only if the list read then is the    *)
(* list of the reply it was taken from (a reply of this run of the daemon).  *)
PassedRefSawThisList ==
  \A c \in Conns :
    pc[c] \in {"class", "pid"} /\ ref[c].boot = restarts => hash = ref[c].from

(* If nothing happens at the X server from Revalidate to the mutation, the   *)
(* window mutated is managed and is the application the client asked for,    *)
(* whatever other connections did in between.                                *)
QuietTargetMatches ==
  \A c \in Conns : pc[c] = "mutate" /\ quiet[c] =>
    /\ In(ref[c].xid, list)
    /\ ref[c].class \in {NoApp, app[ref[c].xid]}
    /\ ref[c].pid \in {NoApp, app[ref[c].xid]}

(* Conflict means no mutation occurred. *)
ConflictMeansNoMutation ==
  \A c \in Conns : pc[c] = "reply" /\ code[c] = "Conflict" => ~mutated[c]
=============================================================================
