--------------------------- MODULE StartupProofs ---------------------------
(***************************************************************************)
(* The singleton lock admits one daemon per user and DISPLAY string, and a   *)
(* destination daemon keeps its socket path, as long as no daemon falls back  *)
(* from /run on a passing error, for any number of processes, users, DISPLAY  *)
(* strings and paths.                                                       *)
(***************************************************************************)
EXTENDS Startup, TLAPS

(* Where p stands, its lock file says so: past openLockFile it owns the file, *)
(* past flock it holds the lock, and it has fallen back to /tmp only if its   *)
(* user can never open the file in /run, or on an error that slipped records. *)
Sound(p) ==
  /\ Authority(p) => flocked[Lockfile(p)] = p
  /\ pc[p] \notin {"down", "open"} => creator[Lockfile(p)] = UserOf[p]
  /\ file[p] = "tmp" /\ slipped[p] # "now" => ~CanOpen(p, <<"run", Name(p)>>)

IInv == TypeOK /\ \A p \in Procs : Sound(p)

(* The lock files of a process are lock files. *)
LEMMA LockfileType ==
  ASSUME TypeOK, NEW p \in Procs
  PROVE  /\ Lockfile(p) \in Lockfiles
         /\ <<"run", Name(p)>> \in Lockfiles
         /\ Path[p] \in Paths
         /\ UserOf[p] \in Users
BY StartupAssumption DEF TypeOK, Lockfile, Lockfiles, Name, Dirs, Paths

(* Every variable has its type when no process runs. *)
LEMMA InitIInv == Init => IInv
<1> SUFFICES ASSUME Init PROVE IInv
  OBVIOUS
<1>1. TypeOK
  BY StartupAssumption DEF Init, TypeOK, Labels, Dirs, Found
<1>2. ASSUME NEW p \in Procs PROVE Sound(p)
  BY DEF Init, Sound, Authority
<1> QED BY <1>1, <1>2 DEF IInv

(* A process that exits leaves a well-typed state, and gives up only its own *)
(* lock.                                                                     *)
LEMMA DieStep ==
  ASSUME IInv, NEW p \in Procs, NEW s \in [Paths -> Found], DieLeaving(p, s)
  PROVE  IInv'
<1> USE DEF IInv
<1>1. TypeOK'
  BY StartupAssumption DEF DieLeaving, Goto, TypeOK, Labels, Dirs, Found
<1>2. ASSUME NEW q \in Procs PROVE Sound(q)'
  <2>1. CASE q = p
    BY <2>1 DEF DieLeaving, Goto, TypeOK, Sound, Authority
  <2>2. CASE q # p
    <3>1. /\ pc'[q] = pc[q] /\ file'[q] = file[q] /\ creator' = creator
          /\ Lockfile(q)' = Lockfile(q) /\ slipped'[q] = slipped[q]
      BY <2>2 DEF DieLeaving, Goto, TypeOK, Lockfile, Name
    <3>2. Authority(q) => flocked'[Lockfile(q)] = q
      BY <2>2, LockfileType, Zenon DEF DieLeaving, Sound
    <3> QED BY <3>1, <3>2 DEF Sound, Authority, CanOpen, Name
  <2> QED BY <2>1, <2>2
<1> QED BY <1>1, <1>2

(* A step that moves one process between labels and leaves the lock files    *)
(* alone keeps every process sound, if it does not pass the lock.            *)
LEMMA MoveStep ==
  ASSUME IInv, TypeOK', NEW p \in Procs, NEW l \in Labels, Goto(p, l),
         Authority(p), UNCHANGED <<file, slipped, creator, flocked>>
  PROVE  IInv'
<1>1. ASSUME NEW q \in Procs PROVE Sound(q)'
  BY ZenonT(60) DEF IInv, TypeOK, Goto, Sound, Authority, Lockfile, Name, CanOpen
<1> QED BY <1>1 DEF IInv

(* Creating a lock file keeps what is known of every other process, and never *)
(* opens /run to a user who had to fall back.                                 *)
LEMMA CreatedKeeps ==
  ASSUME IInv, NEW p \in Procs, CanOpen(p, Lockfile(p)), Created(p), NEW q \in Procs
  PROVE  /\ creator' \in [Lockfiles -> Users \cup {NoUser}]
         /\ creator'[Lockfile(p)] = UserOf[p]
         /\ pc[q] \notin {"down", "open"} => creator'[Lockfile(q)] = UserOf[q]
         /\ ~CanOpen(q, <<"run", Name(q)>>) => ~CanOpen(q, <<"run", Name(q)>>)'
<1> USE DEF IInv
<1>1. /\ creator' \in [Lockfiles -> Users \cup {NoUser}]
      /\ creator'[Lockfile(p)] = UserOf[p]
  BY LockfileType, Zenon DEF TypeOK, Created
<1>2. ASSUME pc[q] \notin {"down", "open"} PROVE creator'[Lockfile(q)] = UserOf[q]
  <2>1. creator[Lockfile(q)] = UserOf[q]
    BY <1>2, Zenon DEF Sound
  <2>2. CASE Lockfile(q) = Lockfile(p)
    <3>1. UserOf[q] \in Users /\ NoUser \notin Users
      BY LockfileType, StartupAssumption
    <3>2. UserOf[p] = UserOf[q]
      BY <2>1, <2>2, <3>1 DEF CanOpen
    <3> QED BY <1>1, <2>2, <3>2
  <2>3. CASE Lockfile(q) # Lockfile(p)
    BY <2>1, <2>3, LockfileType, Zenon DEF TypeOK, Created
  <2> QED BY <2>2, <2>3
<1>3. ASSUME ~CanOpen(q, <<"run", Name(q)>>) PROVE ~CanOpen(q, <<"run", Name(q)>>)'
  BY <1>3, LockfileType, ZenonT(60) DEF TypeOK, CanOpen, Created, Name
<1> QED BY <1>1, <1>2, <1>3

(* openLockFile, and the fallback when it fails. *)
LEMMA OpenStep ==
  ASSUME IInv, NEW p \in Procs, OpenLockFile(p)
  PROVE  IInv'
<1> USE DEF IInv
<1>0. sock \in [Paths -> Found] /\ pc[p] = "open"
  BY DEF TypeOK, OpenLockFile
<1>1. CASE Die(p)
  BY <1>0, <1>1, DieStep DEF Die
<1>2. CASE /\ CanOpen(p, Lockfile(p))
           /\ Created(p)
           /\ Goto(p, "flock")
           /\ UNCHANGED <<file, slipped, tries, flocked, lockOn, sock>>
  <2>1. TypeOK'
    BY <1>2, CreatedKeeps, Zenon DEF TypeOK, Goto, Labels
  <2>2. ASSUME NEW q \in Procs PROVE Sound(q)'
    <3>1. Lockfile(q)' = Lockfile(q) /\ file'[q] = file[q] /\ slipped'[q] = slipped[q]
      BY <1>2 DEF Lockfile, Name
    <3>2. Authority(q)' => flocked'[Lockfile(q)] = q
      BY <1>2, Zenon DEF TypeOK, Goto, Sound, Authority
    <3>3. pc'[q] \notin {"down", "open"} => creator'[Lockfile(q)] = UserOf[q]
      <4>1. CASE q = p
        BY <1>2, <4>1, CreatedKeeps, Zenon
      <4>2. CASE q # p
        <5>1. pc'[q] = pc[q]
          BY <1>2, <4>2 DEF TypeOK, Goto
        <5> QED BY <1>2, <5>1, CreatedKeeps, Zenon
      <4> QED BY <4>1, <4>2
    <3>4. file[q] = "tmp" /\ slipped[q] # "now" => ~CanOpen(q, <<"run", Name(q)>>)'
      BY <1>2, CreatedKeeps, Zenon DEF Sound
    <3> QED BY <3>1, <3>2, <3>3, <3>4 DEF Sound, Name
  <2> QED BY <2>1, <2>2
<1>3. CASE /\ file[p] = "run"
           /\ file' = [file EXCEPT ![p] = "tmp"]
           /\ slipped' = [slipped EXCEPT ![p] = IF CanOpen(p, Lockfile(p)) THEN "now" ELSE @]
           /\ UNCHANGED creator \/ (CanOpen(p, Lockfile(p)) /\ Created(p))
           /\ UNCHANGED <<pc, tries, flocked, lockOn, sock>>
  <2>1. creator' \in [Lockfiles -> Users \cup {NoUser}]
    BY <1>3, CreatedKeeps, Zenon DEF TypeOK
  <2>2. TypeOK'
    BY <1>3, <2>1 DEF TypeOK, Dirs
  <2>3. ASSUME NEW q \in Procs PROVE Sound(q)'
    <3>1. /\ pc[q] \notin {"down", "open"} => creator'[Lockfile(q)] = UserOf[q]
          /\ ~CanOpen(q, <<"run", Name(q)>>) => ~CanOpen(q, <<"run", Name(q)>>)'
      <4>1. CASE UNCHANGED creator
        BY <4>1, Zenon DEF Sound, CanOpen, Name
      <4> QED BY <1>3, <4>1, CreatedKeeps, Zenon
    <3>2. CASE q = p
      <4>1. /\ pc'[p] = "open" /\ file'[p] = "tmp"
            /\ slipped'[p] = IF CanOpen(p, Lockfile(p)) THEN "now" ELSE slipped[p]
        BY <1>0, <1>3, Zenon DEF TypeOK
      <4>2. Lockfile(p) = <<"run", Name(p)>>
        BY <1>3 DEF Lockfile
      <4> QED BY <3>1, <3>2, <4>1, <4>2 DEF Sound, Authority
    <3>3. CASE q # p
      <4>1. /\ pc'[q] = pc[q] /\ file'[q] = file[q] /\ slipped'[q] = slipped[q]
            /\ Lockfile(q)' = Lockfile(q) /\ flocked' = flocked
        BY <1>3, <3>3 DEF TypeOK, Lockfile, Name
      <4> QED BY <3>1, <4>1, Zenon DEF Sound, Authority
    <3> QED BY <3>2, <3>3
  <2> QED BY <2>2, <2>3
<1> QED BY <1>1, <1>2, <1>3, Zenon DEF OpenLockFile, OpenFails

(* flock: only a free lock is taken, so nobody else is past it. *)
LEMMA FlockStep ==
  ASSUME IInv, NEW p \in Procs, Flock(p)
  PROVE  IInv'
<1> USE DEF IInv
<1>0. sock \in [Paths -> Found]
  BY DEF TypeOK
<1>1. CASE Die(p)
  BY <1>0, <1>1, DieStep DEF Die
<1>2. CASE /\ Locked(p)
           /\ flocked' = [flocked EXCEPT ![Lockfile(p)] = p]
           /\ tries' = [tries EXCEPT ![p] = 0]
           /\ Goto(p, "display")
           /\ UNCHANGED <<file, slipped, creator, lockOn, sock>>
  <2>1. TypeOK'
    <3>1. tries' \in [Procs -> 0 .. MaxTries - 1]
      BY <1>2, StartupAssumption DEF TypeOK
    <3>2. flocked' \in [Lockfiles -> Procs \cup {NoProc}]
      BY <1>2, LockfileType, Zenon DEF TypeOK
    <3>3. pc' \in [Procs -> Labels]
      BY <1>2 DEF TypeOK, Goto, Labels
    <3> QED BY <1>2, <3>1, <3>2, <3>3 DEF TypeOK
  <2>2. ASSUME NEW q \in Procs PROVE Sound(q)'
    <3>1. Lockfile(q)' = Lockfile(q) /\ file'[q] = file[q]
      BY <1>2 DEF Lockfile, Name
    <3>2. Authority(q)' => flocked'[Lockfile(q)] = q
      <4>1. CASE q = p
        BY <1>2, <4>1, LockfileType, Zenon DEF TypeOK
      <4>2. CASE q # p
        BY <1>2, <4>2, LockfileType, StartupAssumption, ZenonT(60)
        DEF TypeOK, Goto, Sound, Authority, Locked
      <4> QED BY <4>1, <4>2
    <3>3. pc'[q] \notin {"down", "open"} => creator[Lockfile(q)] = UserOf[q]
      BY <1>2, Zenon DEF Flock, TypeOK, Goto, Sound
    <3> QED BY <1>2, <3>1, <3>2, <3>3 DEF Sound, Name, CanOpen
  <2> QED BY <2>1, <2>2
<1>3. CASE /\ TriesLeft(p)
           /\ tries' = [tries EXCEPT ![p] = Tried(p)]
           /\ UNCHANGED <<pc, file, slipped, creator, flocked, lockOn, sock>>
  <2>1. TypeOK'
    BY <1>3, StartupAssumption DEF TypeOK, TriesLeft, Tried
  <2>2. ASSUME NEW q \in Procs PROVE Sound(q)'
    BY <1>3 DEF Sound, Authority, Lockfile, Name, CanOpen
  <2> QED BY <2>1, <2>2
<1> QED BY <1>1, <1>2, <1>3 DEF Flock

(* Past the lock nothing touches the lock files: each step moves its process *)
(* on, or ends it.                                                           *)
LEMMA ServeStep ==
  ASSUME IInv, NEW p \in Procs,
         \/ OpenDisplay(p) \/ NoDisplay(p) \/ Lstat(p) \/ Dial(p) \/ Remove(p)
         \/ Bind(p) \/ Listen(p) \/ Chmod(p) \/ Undo(p) \/ ServeLegacy(p) \/ Stop(p)
  PROVE  IInv'
<1> USE DEF IInv
<1>0. sock \in [Paths -> Found] /\ [sock EXCEPT ![Path[p]] = "nothing"] \in [Paths -> Found]
  BY Zenon DEF TypeOK, Found
<1>1. CASE Die(p)
  BY <1>0, <1>1, DieStep DEF Die
<1>2. CASE Undo(p)
  BY <1>0, <1>2, DieStep, ZenonT(60) DEF Undo
<1>3. ASSUME NEW l \in Labels, Goto(p, l), Authority(p),
             UNCHANGED <<file, slipped, tries, creator, flocked>>,
             lockOn' \in [Servers -> BOOLEAN], sock' \in [Paths -> Found]
      PROVE  IInv'
  <2>1. TypeOK'
    BY <1>3 DEF TypeOK, Goto
  <2> QED BY <1>3, <2>1, MoveStep
<1>4. CASE OpenDisplay(p)
  <2>1. lockOn' \in [Servers -> BOOLEAN]
    BY <1>4, Zenon DEF OpenDisplay, TypeOK, ClearModifierLock, Toggle
  <2>2. PICK l \in Labels : Goto(p, l)
    BY <1>4 DEF OpenDisplay, Labels
  <2> QED BY <1>3, <1>4, <2>1, <2>2 DEF OpenDisplay, TypeOK, Authority
<1>5. CASE Bind(p)
  BY <1>1, <1>3, <1>5 DEF Bind, TypeOK, Found, Labels, Authority
<1>6. CASE Remove(p)
  BY <1>0, <1>1, <1>3, <1>6 DEF Remove, TypeOK, Labels, Authority
<1>7. CASE Lstat(p) \/ Dial(p)
  BY <1>1, <1>3, <1>7, ZenonT(60) DEF Lstat, Dial, TypeOK, Labels, Authority
<1>8. CASE Listen(p) \/ Chmod(p) \/ ServeLegacy(p)
  BY <1>1, <1>3, <1>8 DEF Listen, Chmod, ServeLegacy, TypeOK, Labels, Authority
<1>9. CASE NoDisplay(p) \/ Stop(p)
  BY <1>1, <1>9 DEF NoDisplay, Stop
<1> QED BY <1>2, <1>4, <1>5, <1>6, <1>7, <1>8, <1>9

(* Types, and where each process stands with respect to its lock file. *)
THEOREM Invariance == Spec => []IInv
<1>1. IInv /\ [Next]_vars => IInv'
  <2> SUFFICES ASSUME IInv, [Next]_vars PROVE IInv'
    OBVIOUS
  <2>1. ASSUME NEW p \in Procs, Start(p) PROVE IInv'
    <3>1. TypeOK'
      BY <2>1 DEF IInv, Start, Goto, TypeOK, Labels
    <3>2. ASSUME NEW q \in Procs PROVE Sound(q)'
      BY <2>1, SMTT(30) DEF IInv, TypeOK, Start, Goto, Sound, Authority, Lockfile, Name, CanOpen
    <3> QED BY <3>1, <3>2 DEF IInv
  <2>2. CASE UNCHANGED vars
    BY <2>2 DEF vars, IInv, TypeOK, Sound, Authority, Lockfile, Name, CanOpen
  <2> QED BY <2>1, <2>2, OpenStep, FlockStep, ServeStep DEF Next, Step
<1> QED BY <1>1, InitIInv, PTL DEF Spec

(* No process exceeds its flock attempts, and every variable has its type. *)
THEOREM TypeCorrectness == Spec => []TypeOK
<1>1. IInv => TypeOK
  BY DEF IInv
<1> QED BY <1>1, Invariance, PTL

(* Two processes past the lock use the same lock file, because one that had   *)
(* to fall back to /tmp could never open the file in /run, unless one of them  *)
(* is in /tmp on an error.                                                    *)
LEMMA OneAuthorityFollows == IInv => OneAuthority
<1> SUFFICES ASSUME IInv, NEW p \in Procs, NEW q \in Procs,
                    Authority(p), Authority(q), SameLock(p, q), p # q
             PROVE  \/ file[p] = "tmp" /\ slipped[p] = "now" /\ file[q] = "run"
                    \/ file[q] = "tmp" /\ slipped[q] = "now" /\ file[p] = "run"
  BY DEF OneAuthority
<1>1. /\ flocked[Lockfile(p)] = p /\ flocked[Lockfile(q)] = q
      /\ creator[Lockfile(p)] = UserOf[p] /\ creator[Lockfile(q)] = UserOf[q]
  BY Zenon DEF IInv, Sound, Authority
<1>2. file[p] # file[q]
  BY <1>1 DEF Lockfile, SameLock
<1>3. file[p] \in {"run", "tmp"} /\ file[q] \in {"run", "tmp"}
  BY DEF IInv, TypeOK, Dirs
<1>4. ASSUME NEW a \in {p, q}, NEW b \in {p, q}, file[a] = "tmp", file[b] = "run"
      PROVE  slipped[a] = "now"
  <2>1. Lockfile(b) = <<"run", Name(a)>> /\ UserOf[a] = UserOf[b]
    BY <1>4 DEF Lockfile, SameLock
  <2>2. CanOpen(a, <<"run", Name(a)>>)
    BY <1>1, <2>1 DEF CanOpen
  <2> QED BY <1>4, <2>2, Zenon DEF IInv, Sound
<1> QED BY <1>2, <1>3, <1>4, Zenon

(* At most one daemon per user and DISPLAY string gets past                  *)
(* acquireSingletonLock, and at most two, one for each directory, when an     *)
(* error other than that of permission made one of them fall back to /tmp.    *)
THEOREM Singleton == Spec => []OneAuthority
BY OneAuthorityFollows, Invariance, PTL

(* Where the README's "one mutation authority per X11 DISPLAY" is true: the   *)
(* daemons of one X server are one user's and spell DISPLAY alike, and none    *)
(* that runs fell back to /tmp from a lock file it may open.                  *)
OneSpelling == \A p, q \in Procs : Server(p) = Server(q) => SameLock(p, q)
NoneSlipped == \A p \in Procs : slipped[p] # "now"

(* acquireSingletonLock: with one user and one spelling per X server there is  *)
(* one authority per display while no running daemon fell back on an error.    *)
(* Without the first two it fails in the run two_users.                       *)
THEOREM AuthorityPerDisplay == Spec => [](OneSpelling /\ NoneSlipped => OneAuthorityPerDisplay)
<1>1. OneAuthority => (OneSpelling /\ NoneSlipped => OneAuthorityPerDisplay)
  BY Zenon DEF OneAuthority, OneSpelling, NoneSlipped, OneAuthorityPerDisplay
<1> QED BY <1>1, Singleton, PTL

-----------------------------------------------------------------------------
(* The socket path. *)

Dest(p) == FlagsOf[p].vnext # "none"
Rivals(p, q) == Dest(p) /\ Dest(q) /\ Path[p] = Path[q]

(* Everybody given the path of p competes for its lock, and none slipped.     *)
OneLock(p) == \A q \in Procs : Rivals(p, q) => SameLock(p, q) /\ slipped[q] = "never"

(* Only destination daemons come near a socket path, and one whose rivals all *)
(* compete for its lock finds its own socket there from bind on.              *)
OnPath == {"lstat", "dial", "remove", "bind", "listen", "chmod", "undo"}
Placed(p) ==
  /\ pc[p] \in OnPath => Dest(p)
  /\ pc[p] = "legacy" => ~Dest(p)
  /\ /\ pc[p] \in {"listen", "chmod", "serve"}
     /\ Dest(p)
     /\ OneLock(p)
     => sock[Path[p]] = p

SInv == \A p \in Procs : Placed(p)

(* What the step of one process does to another: if it is past the lock too,  *)
(* the two do not share a path whose daemons share a lock.                   *)
LEMMA NoRivalPastLock ==
  ASSUME IInv, NEW p \in Procs, NEW q \in Procs, p # q, Authority(p), Authority(q),
         Dest(p), Dest(q), OneLock(p)
  PROVE  Path[p] # Path[q]
<1> SUFFICES ASSUME Path[p] = Path[q] PROVE FALSE
  OBVIOUS
<1>1. OneAuthority
  BY OneAuthorityFollows
<1>2. SameLock(p, q) /\ slipped[p] = "never" /\ slipped[q] = "never"
  BY Zenon DEF OneLock, Rivals
<1>3. slipped[p] = "now" \/ slipped[q] = "now"
  BY <1>1, <1>2, Zenon DEF OneAuthority
<1> QED BY <1>2, <1>3

(* Who has not slipped after a step had not before it. *)
LEMMA NeverBefore ==
  ASSUME TypeOK, [Next]_vars, NEW q \in Procs, slipped'[q] = "never"
  PROVE  slipped[q] = "never"
<1>0. slipped \in [Procs -> {"never", "earlier", "now"}]
  BY DEF TypeOK
<1>1. CASE UNCHANGED slipped
  BY <1>1
<1>2. ASSUME NEW p \in Procs, NEW s, DieLeaving(p, s) PROVE slipped[q] = "never"
  BY <1>0, <1>2 DEF DieLeaving
<1>3. ASSUME NEW p \in Procs, OpenFails(p) PROVE slipped[q] = "never"
  <2>1. CASE slipped' = [slipped EXCEPT ![p] = IF CanOpen(p, Lockfile(p)) THEN "now" ELSE @]
    BY <1>0, <2>1
  <2> QED BY <1>2, <1>3, <2>1, Zenon DEF OpenFails, Die
<1>4. CASE UNCHANGED vars
  BY <1>1, <1>4 DEF vars
<1>5. ASSUME NEW p \in Procs, Start(p) \/ Step(p) \/ Stop(p) PROVE slipped[q] = "never"
  BY <1>1, <1>2, <1>3, <1>5, Zenon
     DEF Step, Start, Stop, Die, OpenLockFile, Flock, OpenDisplay, NoDisplay, Lstat, Dial,
         Remove, Bind, Listen, Chmod, Undo, ServeLegacy
<1> QED BY <1>4, <1>5, Zenon DEF Next

LEMMA OneLockBefore ==
  ASSUME TypeOK, [Next]_vars, NEW p \in Procs, OneLock(p)'
  PROVE  OneLock(p)
BY NeverBefore, Zenon DEF OneLock, Rivals, Dest, SameLock, Name

(* A step of p that leaves everybody else's socket alone, or works on p's own *)
(* path past the lock, keeps the others in place.                            *)
LEMMA OthersPlaced ==
  ASSUME IInv, SInv, [Next]_vars, NEW p \in Procs, NEW q \in Procs, p # q, pc'[q] = pc[q],
         \/ \A a \in Paths : sock[a] = q => sock'[a] = q
         \/ /\ Authority(p) /\ Dest(p)
            /\ \A a \in Paths : sock[a] = q /\ a # Path[p] => sock'[a] = q
  PROVE  Placed(q)'
<1>1. Path[q] \in Paths /\ Placed(q)
  BY LockfileType, Zenon DEF IInv, SInv
<1>2. ASSUME pc[q] \in {"listen", "chmod", "serve"}, Dest(q), OneLock(q)'
      PROVE  sock'[Path[q]] = q
  <2>0. OneLock(q)
    BY <1>2, OneLockBefore DEF IInv
  <2>1. sock[Path[q]] = q
    BY <1>1, <1>2, <2>0, Zenon DEF Placed
  <2>2. Authority(q)
    BY <1>2 DEF Authority
  <2>3. Authority(p) /\ Dest(p) => Path[p] # Path[q]
    BY <1>2, <2>0, <2>2, NoRivalPastLock, Zenon
  <2> QED BY <1>1, <2>1, <2>3, Zenon
<1>3. (pc'[q] \in OnPath => Dest(q)) /\ (pc'[q] = "legacy" => ~Dest(q))
  BY <1>1, Zenon DEF Placed
<1> QED BY <1>2, <1>3, Zenon DEF Placed, Dest

(* An exit takes only the process's own socket from a path. *)
LEMMA DiePlaced ==
  ASSUME IInv, SInv, [Next]_vars, NEW p \in Procs, Die(p)
  PROVE  SInv'
<1>1. ASSUME NEW q \in Procs PROVE Placed(q)'
  <2>1. CASE q = p
    BY <2>1 DEF IInv, TypeOK, Die, DieLeaving, Goto, Placed, OnPath
  <2>2. CASE q # p
    <3>1. pc'[q] = pc[q] /\ \A a \in Paths : sock[a] = q => sock'[a] = q
      BY <2>2 DEF IInv, TypeOK, Die, DieLeaving, Goto
    <3> QED BY <2>2, <3>1, OthersPlaced, Zenon
  <2> QED BY <2>1, <2>2, ZenonT(60)
<1> QED BY <1>1 DEF SInv

(* So does the unlink after a failed chmod, where rivals share a lock. *)
LEMMA UndoPlaced ==
  ASSUME IInv, SInv, [Next]_vars, NEW p \in Procs, Undo(p)
  PROVE  SInv'
<1>1. Authority(p) /\ Dest(p)
  BY DEF Undo, Authority, SInv, Placed, OnPath
<1>2. ASSUME NEW q \in Procs PROVE Placed(q)'
  <2>1. CASE q = p
    BY <2>1 DEF IInv, TypeOK, Undo, DieLeaving, Goto, Placed, OnPath
  <2>2. CASE q # p
    <3>1. pc'[q] = pc[q]
      BY <2>2 DEF IInv, TypeOK, Undo, DieLeaving, Goto
    <3>2. \A a \in Paths : sock[a] = q /\ a # Path[p] => sock'[a] = q
      BY <2>2 DEF IInv, TypeOK, Undo, DieLeaving
    <3> QED BY <1>1, <2>2, <3>1, <3>2, OthersPlaced, Zenon
  <2> QED BY <2>1, <2>2
<1> QED BY <1>2 DEF SInv

(* A step that moves p to label l and touches no path. *)
LEMMA MovePlaced ==
  ASSUME IInv, SInv, [Next]_vars, NEW p \in Procs, NEW l, Goto(p, l), UNCHANGED sock,
         l \in OnPath => Dest(p), l = "legacy" => ~Dest(p),
         l \in {"listen", "chmod", "serve"} => pc[p] \in {"listen", "chmod"} \/ ~Dest(p)
  PROVE  SInv'
<1>1. ASSUME NEW q \in Procs PROVE Placed(q)'
  <2>1. CASE q = p
    <3>1. OneLock(p)' => OneLock(p)
      BY OneLockBefore DEF IInv
    <3> QED BY <2>1, <3>1 DEF IInv, TypeOK, SInv, Goto, Placed, Dest
  <2>2. CASE q # p
    <3>1. pc'[q] = pc[q] /\ \A a \in Paths : sock[a] = q => sock'[a] = q
      BY <2>2 DEF IInv, TypeOK, Goto
    <3> QED BY <2>2, <3>1, OthersPlaced, Zenon
  <2> QED BY <2>1, <2>2, SMTT(30)
<1> QED BY <1>1 DEF SInv

(* remove and bind work on the path of the process itself. *)
LEMMA PathPlaced ==
  ASSUME IInv, SInv, [Next]_vars, NEW p \in Procs, Remove(p) \/ Bind(p)
  PROVE  SInv'
<1>1. Authority(p) /\ Dest(p) /\ Path[p] \in Paths
  BY LockfileType, ZenonT(60) DEF Remove, Bind, Authority, SInv, Placed, OnPath, IInv
<1>2. CASE Die(p)
  BY <1>2, DiePlaced
<1>3. CASE \/ Goto(p, "bind") /\ sock' = [sock EXCEPT ![Path[p]] = "nothing"]
           \/ Goto(p, "listen") /\ sock' = [sock EXCEPT ![Path[p]] = p]
  <2>1. ASSUME NEW q \in Procs PROVE Placed(q)'
    <3>1. CASE q = p
      BY <1>1, <1>3, <3>1 DEF IInv, TypeOK, Goto, Placed, OnPath, Dest
    <3>2. CASE q # p
      <4>1. pc'[q] = pc[q]
        BY <1>3, <3>2 DEF IInv, TypeOK, Goto
      <4>2. \A a \in Paths : sock[a] = q /\ a # Path[p] => sock'[a] = q
        BY <1>3 DEF IInv, TypeOK
      <4> QED BY <1>1, <3>2, <4>1, <4>2, OthersPlaced, Zenon
    <3> QED BY <3>1, <3>2
  <2> QED BY <2>1 DEF SInv
<1> QED BY <1>2, <1>3 DEF Remove, Bind

LEMMA NextPlaced == ASSUME IInv, SInv, [Next]_vars PROVE SInv'
<1>1. CASE UNCHANGED vars
  BY <1>1 DEF vars, SInv, Placed, OneLock, Dest, Rivals, SameLock, Name
<1>2. ASSUME NEW p \in Procs, Start(p) PROVE SInv'
  BY <1>2, MovePlaced, SMTT(30) DEF Start, OnPath
<1>3. ASSUME NEW p \in Procs, OpenLockFile(p) \/ Flock(p) PROVE SInv'
  <2>1. CASE Die(p)
    BY <2>1, DiePlaced, ZenonT(60)
  <2>2. CASE UNCHANGED <<pc, sock>>
    <3>1. ASSUME NEW q \in Procs PROVE OneLock(q)' => OneLock(q)
      BY OneLockBefore DEF IInv
    <3> QED BY <2>2, <3>1 DEF SInv, Placed, Dest
  <2>3. CASE UNCHANGED sock /\ (Goto(p, "flock") \/ Goto(p, "display"))
    BY <2>3, MovePlaced, ZenonT(60) DEF OnPath
  <2> QED BY <1>3, <2>1, <2>2, <2>3 DEF OpenLockFile, OpenFails, Flock
<1>4. ASSUME NEW p \in Procs, OpenDisplay(p) PROVE SInv'
  BY <1>4, MovePlaced DEF OpenDisplay, OnPath, Dest
<1>5. ASSUME NEW p \in Procs, NoDisplay(p) \/ Stop(p) PROVE SInv'
  BY <1>5, DiePlaced DEF NoDisplay, Stop
<1>6. ASSUME NEW p \in Procs, Lstat(p) \/ Dial(p) PROVE SInv'
  <2>1. CASE Die(p)
    BY <2>1, DiePlaced
  <2>2. CASE UNCHANGED sock /\ (Goto(p, "bind") \/ Goto(p, "remove") \/ Goto(p, "dial"))
    <3>1. Dest(p)
      BY <1>6 DEF Lstat, Dial, SInv, Placed, OnPath
    <3> QED BY <2>2, <3>1, MovePlaced
  <2> QED BY <1>6, <2>1, <2>2 DEF Lstat, Dial
<1>7. ASSUME NEW p \in Procs, Listen(p) \/ Chmod(p) PROVE SInv'
  <2>1. Dest(p)
    BY <1>7 DEF Listen, Chmod, SInv, Placed, OnPath
  <2> QED BY <1>7, <2>1, MovePlaced DEF Listen, Chmod
<1>8. ASSUME NEW p \in Procs, ServeLegacy(p) PROVE SInv'
  <2>1. ~Dest(p)
    BY <1>8 DEF ServeLegacy, SInv, Placed
  <2> QED BY <1>8, <2>1, MovePlaced, DiePlaced DEF ServeLegacy, OnPath
<1> QED BY <1>1, <1>2, <1>3, <1>4, <1>5, <1>6, <1>7, <1>8, UndoPlaced, PathPlaced DEF Next, Step

(* A destination daemon that serves is the one its socket path leads to, if   *)
(* the daemons given that path compete for one lock and none fell back from   *)
(* it on an error: a second one is not past the lock, so nobody removes,      *)
(* replaces or unlinks the socket between the calls of listenUnixDest or      *)
(* later.                                                                    *)
THEOREM SocketKept == Spec => []SocketIsServed
<1>1. Init => SInv
  BY DEF Init, SInv, Placed, OnPath
<1>2. IInv /\ SInv => SocketIsServed
  BY DEF SInv, Placed, SocketIsServed, OneLock, Dest, Rivals
<1> QED BY <1>1, <1>2, NextPlaced, Invariance, PTL DEF Spec

-----------------------------------------------------------------------------
(* What the start does to the display, and how long it takes. *)

(* clear_modifier_lock, twice a press and a release of the lock key: no start   *)
(* changes a modifier lock, on or off, so the locks are off afterwards only if  *)
(* they were before (run modifier_locks).                                     *)
THEOREM ModifierLocksAreLeft == Spec => [][lockOn' = lockOn]_vars
<1>1. ASSUME TypeOK, [Next]_vars PROVE lockOn' = lockOn
  <2>1. ASSUME NEW p \in Procs, OpenDisplay(p) PROVE lockOn' = lockOn
    <3>1. /\ lockOn \in [Servers -> BOOLEAN]
          /\ lockOn' = [lockOn EXCEPT ![Server(p)] = ~ ~lockOn[Server(p)]]
      BY <1>1, <2>1, Zenon DEF TypeOK, OpenDisplay, ClearModifierLock, Toggle
    <3> QED BY <3>1
  <2>2. ASSUME NEW p \in Procs, NEW s, DieLeaving(p, s) PROVE lockOn' = lockOn
    BY <2>2 DEF DieLeaving
  <2>3. CASE UNCHANGED vars
    BY <2>3 DEF vars
  <2>4. ASSUME NEW p \in Procs, Start(p) \/ Step(p) \/ Stop(p) PROVE lockOn' = lockOn
    BY <2>1, <2>2, <2>4, Zenon
       DEF Step, Start, Stop, Die, OpenLockFile, OpenFails, Flock, NoDisplay, Lstat, Dial, Remove,
           Bind, Listen, Chmod, Undo, ServeLegacy
  <2> QED BY <1>1, <2>3, <2>4, Zenon DEF Next
<1>2. TypeOK /\ [Next]_vars => [lockOn' = lockOn]_vars
  BY <1>1
<1> QED BY <1>2, TypeCorrectness, PTL DEF Spec

(* The steps a start has still to take at most: each file system call is one,   *)
(* each attempt at the lock is one, and the lock file may be opened twice.     *)
Ahead == [down |-> 0, serve |-> 0, undo |-> 1, legacy |-> 1, chmod |-> 2, listen |-> 3,
          bind |-> 4, remove |-> 5, dial |-> 6, lstat |-> 7, display |-> 8, flock |-> 8,
          open |-> 9]
StepsLeft(p) ==
  Ahead[pc[p]] + (IF pc[p] = "flock" THEN MaxTries - tries[p] ELSE 0)
  + (IF pc[p] = "open" THEN MaxTries + (IF file[p] = "run" THEN 1 ELSE 0) ELSE 0)

(* Whoever takes a step, a start is as far as before or nearer to its end. *)
NearerTheEnd ==
  \A p \in Procs : pc[p] \notin {"down", "serve"} =>
    UNCHANGED <<pc[p], file[p], tries[p]>> \/ StepsLeft(p)' < StepsLeft(p)

(* What a process's own step does to its locals. *)
LEMMA OwnStep ==
  ASSUME TypeOK, NEW p \in Procs, Start(p) \/ Step(p) \/ Stop(p),
         pc[p] \notin {"down", "serve"}
  PROVE  StepsLeft(p)' < StepsLeft(p)
<1>0. /\ pc \in [Procs -> Labels] /\ file \in [Procs -> Dirs]
      /\ tries \in [Procs -> 0 .. MaxTries - 1] /\ MaxTries \in Nat \ {0}
  BY StartupAssumption, Zenon DEF TypeOK
<1>1. StepsLeft(p) > 0
  BY <1>0, SMTT(30) DEF StepsLeft, Ahead, Labels
<1>2. ASSUME NEW s, DieLeaving(p, s) PROVE StepsLeft(p)' = 0
  <2>1. pc'[p] = "down"
    BY <1>0, <1>2, ZenonT(60) DEF DieLeaving, Goto
  <2> QED BY <2>1 DEF StepsLeft, Ahead
<1>3. CASE OpenLockFile(p)
  <2>1. CASE Goto(p, "flock") /\ UNCHANGED <<file, tries>>
    <3>1. pc[p] = "open" /\ pc'[p] = "flock" /\ tries'[p] \in 0 .. MaxTries - 1
      BY <1>0, <1>3, <2>1, ZenonT(60) DEF OpenLockFile, Goto
    <3> QED BY <1>0, <3>1 DEF StepsLeft, Ahead
  <2>2. CASE file[p] = "run" /\ file' = [file EXCEPT ![p] = "tmp"] /\ UNCHANGED pc
    <3>1. pc[p] = "open" /\ pc'[p] = "open" /\ file'[p] = "tmp"
      BY <1>0, <1>3, <2>2 DEF OpenLockFile
    <3> QED BY <1>0, <2>2, <3>1 DEF StepsLeft, Ahead
  <2> QED BY <1>1, <1>2, <1>3, <2>1, <2>2, SMTT(30) DEF OpenLockFile, OpenFails, Die
<1>4. CASE Flock(p)
  <2>1. CASE Goto(p, "display")
    <3>1. pc[p] = "flock" /\ pc'[p] = "display" /\ tries[p] \in 0 .. MaxTries - 1
      BY <1>0, <1>4, <2>1, SMTT(30) DEF Flock, Goto
    <3> QED BY <1>0, <3>1 DEF StepsLeft, Ahead
  <2>2. CASE tries' = [tries EXCEPT ![p] = Tried(p)] /\ UNCHANGED pc
    <3>1. /\ pc[p] = "flock" /\ pc'[p] = "flock" /\ tries[p] \in 0 .. MaxTries - 1
          /\ tries'[p] = tries[p] + 1
      BY <1>0, <1>4, <2>2, SMTT(30) DEF Flock, Tried
    <3> QED BY <1>0, <3>1 DEF StepsLeft, Ahead
  <2> QED BY <1>1, <1>2, <1>4, <2>1, <2>2, ZenonT(60) DEF Flock, Die
<1>5. ASSUME NEW l, Goto(p, l), pc[p] \notin {"open", "flock"}, l \in Labels \ {"open", "flock"},
             Ahead[l] < Ahead[pc[p]]
      PROVE  StepsLeft(p)' < StepsLeft(p)
  <2>1. pc'[p] = l
    BY <1>0, <1>5, ZenonT(60) DEF Goto
  <2> QED BY <1>0, <1>5, <2>1 DEF StepsLeft, Ahead, Labels
<1>6. CASE OpenDisplay(p) \/ NoDisplay(p)
  BY <1>1, <1>2, <1>5, <1>6 DEF OpenDisplay, NoDisplay, Die, Ahead, Labels
<1>7. CASE Lstat(p)
  BY <1>1, <1>2, <1>5, <1>7, SMTT(30) DEF Lstat, Die, Ahead, Labels
<1>8. CASE Dial(p) \/ Remove(p) \/ Bind(p)
  BY <1>1, <1>2, <1>5, <1>8 DEF Dial, Remove, Bind, Die, Ahead, Labels
<1>9. CASE Listen(p) \/ Chmod(p)
  BY <1>5, <1>9 DEF Listen, Chmod, Ahead, Labels
<1>10. CASE Undo(p) \/ ServeLegacy(p) \/ Stop(p)
  BY <1>1, <1>2, <1>5, <1>10 DEF Undo, ServeLegacy, Stop, Die, Ahead, Labels
<1> QED BY <1>3, <1>4, <1>6, <1>7, <1>8, <1>9, <1>10, Zenon DEF Start, Step

(* Nobody else's step touches them. *)
LEMMA OthersStep ==
  ASSUME TypeOK, NEW p \in Procs, NEW q \in Procs \ {p}, Start(q) \/ Step(q) \/ Stop(q)
  PROVE  UNCHANGED <<pc[p], file[p], tries[p]>>
<1>0. pc \in [Procs -> Labels] /\ file \in [Procs -> Dirs] /\ tries \in [Procs -> 0 .. MaxTries - 1]
  BY DEF TypeOK
<1>1. ASSUME NEW s, DieLeaving(q, s) PROVE UNCHANGED <<pc[p], file[p], tries[p]>>
  BY <1>0, <1>1 DEF DieLeaving, Goto
<1>2. ASSUME NEW l, Goto(q, l) PROVE UNCHANGED pc[p]
  BY <1>0, <1>2 DEF Goto
<1>3. CASE OpenLockFile(q) \/ Flock(q)
  BY <1>0, <1>1, <1>2, <1>3, Zenon DEF OpenLockFile, OpenFails, Flock, Die
<1> QED BY <1>1, <1>2, <1>3
        DEF Start, Step, Stop, Die, OpenDisplay, NoDisplay, Lstat, Dial, Remove, Bind, Listen,
            Chmod, Undo, ServeLegacy

(* acquireSingletonLock, init_display and listenUnixDest end: of its own steps  *)
(* a start takes at most MaxTries + 10, however the other processes interfere   *)
(* and whoever keeps the lock.  With the fairness of FairSpec that is StartEnds. *)
THEOREM StartIsBounded ==
  Spec => [](\A p \in Procs : StepsLeft(p) \in 0 .. MaxTries + 10) /\ [][NearerTheEnd]_vars
<1>1. ASSUME TypeOK, NEW p \in Procs PROVE StepsLeft(p) \in 0 .. MaxTries + 10
  <2>1. pc[p] \in Labels /\ tries[p] \in 0 .. MaxTries - 1 /\ MaxTries \in Nat \ {0}
    BY <1>1, StartupAssumption DEF TypeOK
  <2> QED BY <2>1, SMTT(30) DEF StepsLeft, Ahead, Labels
<1>2. ASSUME TypeOK, [Next]_vars PROVE [NearerTheEnd]_vars
  <2> SUFFICES ASSUME ~UNCHANGED vars, NEW p \in Procs, pc[p] \notin {"down", "serve"}
               PROVE  UNCHANGED <<pc[p], file[p], tries[p]>> \/ StepsLeft(p)' < StepsLeft(p)
    BY Zenon DEF NearerTheEnd
  <2>1. PICK q \in Procs : Start(q) \/ Step(q) \/ Stop(q)
    BY <1>2, Zenon DEF Next
  <2>2. CASE q = p
    BY <1>2, <2>1, <2>2, OwnStep, Zenon
  <2>3. CASE q # p
    BY <1>2, <2>1, <2>3, OthersStep, ZenonT(60)
  <2> QED BY <2>2, <2>3
<1>3. TypeOK => \A p \in Procs : StepsLeft(p) \in 0 .. MaxTries + 10
  BY <1>1
<1>4. TypeOK /\ [Next]_vars => [NearerTheEnd]_vars
  BY <1>2
<1> QED BY <1>3, <1>4, TypeCorrectness, PTL DEF Spec
=============================================================================
