------------------------------ MODULE Startup ------------------------------
(***************************************************************************)
(* How a daemon becomes the mutation authority of an X11 display: flag       *)
(* admission, the singleton lock (acquireSingletonLock), the display         *)
(* (init_display) and the listener (listenUnixDest, serveTCP, or standard    *)
(* input).  Several processes start, exit and start again on one machine.    *)
(***************************************************************************)
EXTENDS Integers, FiniteSets

CONSTANTS
  Procs,        \* daemon processes; one may be started again after it exited
  NoProc,
  Users,        \* effective user ids
  NoUser,
  UserOf,       \* UserOf[p]: euid of p
  DisplayVar,   \* DisplayVar[p]: the DISPLAY string p is started with
  LockName,     \* LockName[d]: displayLockName of DISPLAY string d
  ServerOf,     \* ServerOf[d]: the X server DISPLAY string d names
  RunWriters,   \* users that may create files in /run
  FlagsOf,      \* FlagsOf[p]: which of -tcp, -ws and -vnext p is given
  Path,         \* Path[p]: the path of -vnext
  ParentOwner,  \* ParentOwner[a]: who owns the private directory that holds a
  MaxTries      \* flock attempts (20 in the code)

Dirs == {"run", "tmp"}
Lockfiles == Dirs \X {LockName[d] : d \in DOMAIN LockName}
Servers == {ServerOf[d] : d \in DOMAIN ServerOf}
Paths == {Path[p] : p \in Procs}
Specs == {"none", "good", "bad"}

ASSUME StartupAssumption ==
  /\ NoProc \notin Procs
  /\ NoUser \notin Users
  /\ UserOf \in [Procs -> Users]
  /\ DisplayVar \in [Procs -> DOMAIN LockName]
  /\ DOMAIN ServerOf = DOMAIN LockName
  /\ FlagsOf \in [Procs -> [tcp : BOOLEAN, ws : BOOLEAN, vnext : Specs]]
  /\ ParentOwner \in [Paths -> Users]
  /\ MaxTries \in Nat \ {0}

VARIABLES
  pc,         \* pc[p]: how far p's start has come; "down" when not running
  file,       \* file[p]: the directory of the lock file p has open
  slipped,    \* slipped[p]: p, who may open its lock file in /run, fell back to
              \* /tmp all the same: "never", "earlier" (in a former run) or "now"
  tries,      \* tries[p]: attempts made in the current retry loop
  creator,    \* creator[f]: owner of lock file f, NoUser if there is none
  flocked,    \* flocked[f]: the process that holds the flock of f
  lockOn,     \* lockOn[x]: X server x has a modifier lock (Caps Lock) on
  sock        \* sock[a]: what is at path a

(* What an Lstat of the socket path finds: nothing, a regular file, a        *)
(* symbolic link, a socket nobody listens on, or the socket of a process.    *)
Found == {"nothing", "regular", "symlink", "dead"} \cup Procs

vars == <<pc, file, slipped, tries, creator, flocked, lockOn, sock>>

Init ==
  /\ pc = [p \in Procs |-> "down"]
  /\ file = [p \in Procs |-> "run"]
  /\ slipped = [p \in Procs |-> "never"]
  /\ tries = [p \in Procs |-> 0]
  /\ creator = [f \in Lockfiles |-> NoUser]
  /\ flocked = [f \in Lockfiles |-> NoProc]
  /\ lockOn \in [Servers -> BOOLEAN]
  /\ sock \in [Paths -> {"nothing", "regular", "symlink", "dead"}]

Name(p) == LockName[DisplayVar[p]]
Server(p) == ServerOf[DisplayVar[p]]
Lockfile(p) == <<file[p], Name(p)>>
Goto(p, l) == pc' = [pc EXCEPT ![p] = l]

(* The process is gone, leaving s at the socket paths: the kernel drops its  *)
(* flock and its listener, and the socket file stays.                        *)
DieLeaving(p, s) ==
  /\ Goto(p, "down")
  /\ file' = [file EXCEPT ![p] = "run"]
  /\ slipped' = [slipped EXCEPT ![p] = IF @ = "now" THEN "earlier" ELSE @]
  /\ tries' = [tries EXCEPT ![p] = 0]
  /\ flocked' = [f \in Lockfiles |-> IF flocked[f] = p THEN NoProc ELSE flocked[f]]
  /\ sock' = [a \in Paths |-> IF s[a] = p THEN "dead" ELSE s[a]]
  /\ UNCHANGED <<creator, lockOn>>

Die(p) == DieLeaving(p, sock)

-----------------------------------------------------------------------------
(* AdmitFlags: -ws aliases -tcp, and a legacy address excludes -vnext; then  *)
(* the socket path and the allowlists are parsed.                            *)

Legacy(p) == FlagsOf[p].tcp \/ FlagsOf[p].ws
Admitted(p) == FlagsOf[p].vnext = "none" \/ (FlagsOf[p].vnext = "good" /\ ~Legacy(p))

(* A process whose flags are refused exits before it touches anything. *)
Start(p) ==
  /\ pc[p] = "down"
  /\ Admitted(p)
  /\ Goto(p, "open")
  /\ UNCHANGED <<file, slipped, tries, creator, flocked, lockOn, sock>>

-----------------------------------------------------------------------------
(* The singleton lock. *)

(* openLockFile: O_CREAT without O_EXCL, then the owner must be the euid.     *)
(* These are the conditions that last; CanOpen does not promise an open.      *)
CanOpen(p, f) ==
  \/ creator[f] = UserOf[p]
  \/ creator[f] = NoUser /\ (f[1] = "run" => UserOf[p] \in RunWriters)

Created(p) == creator' = [creator EXCEPT ![Lockfile(p)] = UserOf[p]]

(* An error of any kind, of permission or not (too many open files, no memory *)
(* or space), makes the loop go on with /tmp; after one of fstat the file is   *)
(* there.  When /tmp fails too, the process exits.                           *)
OpenFails(p) ==
  \/ /\ file[p] = "run"
     /\ file' = [file EXCEPT ![p] = "tmp"]
     /\ slipped' = [slipped EXCEPT ![p] = IF CanOpen(p, Lockfile(p)) THEN "now" ELSE @]
     /\ UNCHANGED creator \/ (CanOpen(p, Lockfile(p)) /\ Created(p))
     /\ UNCHANGED <<pc, tries, flocked, lockOn, sock>>
  \/ /\ file[p] = "tmp"
     /\ Die(p)

OpenLockFile(p) ==
  /\ pc[p] = "open"
  /\ \/ /\ CanOpen(p, Lockfile(p))
        /\ Created(p)
        /\ Goto(p, "flock")
        /\ UNCHANGED <<file, slipped, tries, flocked, lockOn, sock>>
     \/ OpenFails(p)

LockIgnored(p) == TRUE                     \* mutant: flock's error is dropped
Locked(p) == flocked[Lockfile(p)] = NoProc

TriedForever(p) == tries[p]                \* mutant: the loop does not count
Tried(p) == tries[p] + 1

TriesLeft(p) == Tried(p) < MaxTries

Flock(p) ==
  /\ pc[p] = "flock"
  /\ \/ /\ Locked(p)
        /\ flocked' = [flocked EXCEPT ![Lockfile(p)] = p]
        /\ tries' = [tries EXCEPT ![p] = 0]
        /\ Goto(p, "display")
        /\ UNCHANGED <<file, slipped, creator, lockOn, sock>>
     \/ /\ ~Locked(p)
        /\ TriesLeft(p)
        /\ tries' = [tries EXCEPT ![p] = Tried(p)]
        /\ UNCHANGED <<pc, file, slipped, creator, flocked, lockOn, sock>>
     \/ /\ ~Locked(p)
        /\ ~TriesLeft(p)
        /\ Die(p)

-----------------------------------------------------------------------------
(* init_display. *)

(* External: a press and a release of a lock key turn its lock over. *)
Toggle(on) == ~on

ClearModifierLock(on) == Toggle(Toggle(on))

OpenDisplay(p) ==
  /\ pc[p] = "display"
  /\ lockOn' = [lockOn EXCEPT ![Server(p)] = ClearModifierLock(@)]
  /\ Goto(p, IF FlagsOf[p].vnext = "none" THEN "legacy" ELSE "lstat")
  /\ UNCHANGED <<file, slipped, tries, creator, flocked, sock>>

(* XOpenDisplay failed fifteen times, or the server is Xwayland and refused. *)
NoDisplay(p) == pc[p] = "display" /\ Die(p)

-----------------------------------------------------------------------------
(* The listener.  Each file system call of listenUnixDest is a step. *)

Listening(q) == pc[q] \in {"chmod", "serve"}

(* checkUnixParent: the directory is private to the euid. *)
PrivateParent(p) == ParentOwner[Path[p]] = UserOf[p]

Lstat(p) ==
  LET found == sock[Path[p]] IN
  /\ pc[p] = "lstat"
  /\ \/ /\ PrivateParent(p)
        /\ found # "symlink"
        /\ Goto(p, CASE found = "nothing" -> "bind"
                     [] found = "regular" -> "remove"
                     [] OTHER -> "dial")
        /\ UNCHANGED <<file, slipped, tries, creator, flocked, lockOn, sock>>
     \/ /\ ~PrivateParent(p) \/ found = "symlink"
        /\ Die(p)

(* Only a refused connection shows that nobody serves the socket; a missing  *)
(* path is another error, and the start fails.                               *)
Refused(found) == found = "dead" \/ (found \in Procs /\ ~Listening(found))

Dial(p) ==
  /\ pc[p] = "dial"
  /\ \/ /\ Refused(sock[Path[p]])
        /\ Goto(p, "remove")
        /\ UNCHANGED <<file, slipped, tries, creator, flocked, lockOn, sock>>
     \/ /\ ~Refused(sock[Path[p]])
        /\ Die(p)

Remove(p) ==
  /\ pc[p] = "remove"
  /\ \/ /\ sock[Path[p]] # "nothing"
        /\ sock' = [sock EXCEPT ![Path[p]] = "nothing"]
        /\ Goto(p, "bind")
        /\ UNCHANGED <<file, slipped, tries, creator, flocked, lockOn>>
     \/ /\ sock[Path[p]] = "nothing"   \* somebody else removed it
        /\ Die(p)

Bind(p) ==
  /\ pc[p] = "bind"
  /\ \/ /\ sock[Path[p]] = "nothing"
        /\ sock' = [sock EXCEPT ![Path[p]] = p]
        /\ Goto(p, "listen")
        /\ UNCHANGED <<file, slipped, tries, creator, flocked, lockOn>>
     \/ /\ sock[Path[p]] # "nothing"   \* address already in use
        /\ Die(p)

Listen(p) ==
  /\ pc[p] = "listen"
  /\ Goto(p, "chmod")
  /\ UNCHANGED <<file, slipped, tries, creator, flocked, lockOn, sock>>

Chmod(p) ==
  /\ pc[p] = "chmod"
  /\ Goto(p, IF sock[Path[p]] = "nothing" THEN "undo" ELSE "serve")
  /\ UNCHANGED <<file, slipped, tries, creator, flocked, lockOn, sock>>

(* After a failed chmod the path is unlinked, whoever's socket is there now. *)
Undo(p) == pc[p] = "undo" /\ DieLeaving(p, [sock EXCEPT ![Path[p]] = "nothing"])

(* serveTCP, or standard input when there is no address. *)
ServeLegacy(p) ==
  /\ pc[p] = "legacy"
  /\ \/ /\ Goto(p, "serve")
        /\ UNCHANGED <<file, slipped, tries, creator, flocked, lockOn, sock>>
     \/ /\ FlagsOf[p].tcp \/ FlagsOf[p].ws   \* three attempts to listen failed
        /\ Die(p)

(* A signal, a lost X connection, an accept error or the end of input. *)
Stop(p) == pc[p] # "down" /\ Die(p)

Step(p) ==
  \/ OpenLockFile(p) \/ Flock(p) \/ OpenDisplay(p) \/ NoDisplay(p)
  \/ Lstat(p) \/ Dial(p) \/ Remove(p) \/ Bind(p) \/ Listen(p) \/ Chmod(p)
  \/ Undo(p) \/ ServeLegacy(p)

Next == \E p \in Procs : Start(p) \/ Step(p) \/ Stop(p)

Spec == Init /\ [][Next]_vars

(* A started process keeps running its start-up code; nobody is obliged to    *)
(* start or to stop a process.                                               *)
FairSpec == Spec /\ \A p \in Procs : WF_vars(Step(p))

-----------------------------------------------------------------------------
Labels == {"down", "open", "flock", "display", "legacy", "lstat", "dial",
           "remove", "bind", "listen", "chmod", "undo", "serve"}

(* Every variable has its type, and no process exceeds the attempts that     *)
(* acquireSingletonLock allows itself.                                       *)
TypeOK ==
  /\ pc \in [Procs -> Labels]
  /\ file \in [Procs -> Dirs]
  /\ slipped \in [Procs -> {"never", "earlier", "now"}]
  /\ tries \in [Procs -> 0 .. MaxTries - 1]
  /\ creator \in [Lockfiles -> Users \cup {NoUser}]
  /\ flocked \in [Lockfiles -> Procs \cup {NoProc}]
  /\ lockOn \in [Servers -> BOOLEAN]
  /\ sock \in [Paths -> Found]

Authority(p) == pc[p] \notin {"down", "open", "flock"}
SameLock(p, q) == UserOf[p] = UserOf[q] /\ Name(p) = Name(q)

(* Two processes of one user and one DISPLAY string are past the singleton    *)
(* lock together (main calls acquireSingletonLock before initDisplay) only    *)
(* with one of them in /run and the other in /tmp, where it is because an     *)
(* error made it fall back from a lock file it may open: a fallback for want   *)
(* of permission, whoever created the files, never divides them.             *)
OneAuthority ==
  \A p, q \in Procs :
    Authority(p) /\ Authority(q) /\ SameLock(p, q) /\ p # q =>
      \/ file[p] = "tmp" /\ slipped[p] = "now" /\ file[q] = "run"
      \/ file[q] = "tmp" /\ slipped[q] = "now" /\ file[p] = "run"

(* A destination daemon that serves is the one its socket path leads to,     *)
(* provided the daemons configured with that path compete for one lock and    *)
(* none of them fell back from it on an error: the probe, remove, bind and    *)
(* chmod calls of listenUnixDest are not atomic.                             *)
SocketIsServed ==
  \A p \in Procs :
    /\ pc[p] = "serve"
    /\ FlagsOf[p].vnext # "none"
    /\ \A q \in Procs : Path[q] = Path[p] /\ FlagsOf[q].vnext # "none" =>
                          SameLock(p, q) /\ slipped[q] = "never"
    => sock[Path[p]] = p

(* A start comes to an end: the process serves or exits, even while another  *)
(* process keeps the lock for ever.                                          *)
StartEnds == \A p \in Procs : pc[p] # "down" ~> pc[p] \in {"serve", "down"}

(* README.md: one mutation authority per X11 DISPLAY. *)
OneAuthorityPerDisplay ==
  \A p, q \in Procs : Authority(p) /\ Authority(q) /\ Server(p) = Server(q) => p = q

(* x11.go on clear_modifier_lock: the locks are off once the display is      *)
(* initialised, whatever their state was.                                    *)
LocksAreOff == \A p \in Procs : pc[p] = "serve" => ~lockOn[Server(p)]
=============================================================================
