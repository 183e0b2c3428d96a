# A TLA+ model of the X11 input daemon

The daemon (`src/cmd/xtest-server`) injects keys, buttons, pointer motion and
window-manager requests into one X11 display. It runs in one of two modes: the
*destination* server (`-vnext`), a Unix socket with JSON requests and typed
outcomes, and the *legacy* server (`-tcp`, `-ws`, standard input) with one
command per line. `src/x11input` is the Go client of the legacy server. This
directory models both modes, the start of the daemon and the client.

## Parts of the system

| Part | Code | Module |
|---|---|---|
| Sessions, dispatch, accept loop | `internal/vnext/session.go`, `dispatch.go`, `dest.go` | `DestSession` |
| The thread that owns the X connection | `dest_owner.go`, backend methods of `dest.go` | `XOwner` |
| Inspect, activate, fullscreen | backend methods of `dest.go`, `x11.go` | `DestWindows` |
| Request decoding | `internal/vnext/request.go` | `Decode` |
| Flags, singleton lock, display, listener | `main.go`, `admission.go`, `lock.go`, `x11.go`, `dest.go` | `Startup` |
| Legacy connections and commands | `serve.go`, `handle.go`, `v2line/dispatch.go`, `ws.go`, `x11.go` | `Legacy` |
| From bytes and frames to lines | `serve.go`, `ws.go`, `bufio.Scanner` | `LineReader` |
| Legacy client | `x11input/client.go` | `LineClient` |

A connection of the destination server reads a line, decodes it and dispatches
it. Each X call of the dispatch is a closure queued for the owner thread.
`XOwner` shows that such a call takes effect once, in one step (it implements
`AtomicCalls`). `DestSession` and `DestWindows` therefore make every X call one
step. What happens between two X calls, or between an X call and the
bookkeeping after it, is left to every interleaving.

The legacy server has no owner thread: goroutines take the mutex `xmu` for a
whole command. `Legacy` shows that this makes a command atomic to its users (it
implements `LegacyInput`). It takes the lines as given; `LineReader` shows which
lines come out of a connection, and `LineClient` which of a client's lines get
there.

## Modules

**`DestSession`.** `pc[c]` is where the goroutine of connection `c` stands;
`held[c]` is its `Session` (both maps), `todo[c]` the snapshot of a `Release`,
`slots` the tokens of `connSem`, `down` the state of the X server. `ReadLine`,
`KeycodeFor`, `Send`, `Note` are the steps of a key request; `ReleaseUp`,
`Forget`, `ReleaseDone` those of `Session.Release`; `EndLoop` and `Close` the
deferred calls of `serveVNextConn`. `Crash` is an exit and restart of the
process: sessions are gone, the X server keeps its keys down. `orphans` is a
history variable: inputs that no session is left to lift. The request operation
`window` stands for move, inspect, activate and fullscreen, which touch no hold.

**`HoldLedger`** is what the sessions promise: one table of who answers for
which input, changed in the same step as the X server. `ImplementsLedger` maps
the sessions onto it: a connection answers for what its maps hold, plus a press
whose `noteKey` has yet to run, minus a lift whose deletion has yet to run.

**`XOwner`** has the channel (`jobs`), the callers waiting for `done`, the owner
thread, the mutex, `waitPointer`'s polls and a panicking closure. **`AtomicCalls`**
is its abstract specification.

**`DestWindows`** has the X server's client list, applications and supported
atoms, the backend's generation and hash, and one request per connection.
`refreshClientList` reads the list as far as it fits its array. The checks of
`Revalidate`, the mutation and `ActiveWindow` are separate steps, so windows
change in between. `busy` marks the connection whose job the owner is in the
middle of. `quiet`, `ref.from` and `ref.boot` are history.

**`Decode`** has one line, a sequence of members with a name and a value, and
takes it through the two passes of `vnext.Decode`: `ScanMember` is the loop of
`scanTopLevelJSON`, `Fill` the decoder of `encoding/json` (which folds case,
skips nulls and lets the last member win), `Check` the switch over operations. A
value is known by what `Decode` makes of it: good, of the right type but refused
(an empty name, button 0, xid 0), null, of the wrong type, or not JSON. `req` is
the `Request`, from its fields to their values. The properties compare code and
`req` with the line alone, through two tables of the documented members
(`Required`, `Optional`).

**`Startup`** has processes with a user, a `DISPLAY` string and flags; the lock
files and who created and locked them; and what is at each socket path. Each
system call of `acquireSingletonLock` and `listenUnixDest` is a step. An open of
a lock file may fail at any time (`OpenFails`), also where `CanOpen` allows it:
the code does not tell a missing permission from an error that passes, and goes
on with `/tmp`. `slipped` remembers that, as history. A process may stop at any
point and be started again.

**`Legacy`** has one goroutine per connection: `Sniff` and `Handled` are the
ways out of `tryUpgradeWS`, `ReadLine` and `Ack` the loops of `serveScanner` and
`serveScannerWithAck`, `Lock`, `Run` and `Unlock` those of `handleCommand`, and
`ScanEnds`, `LockRelease`, `Release`, `Close`, `FreeSlot` the end of a
connection. `Script` is `v2line.Dispatch`: the X calls of a command, in order.
`Run` makes one of them, so the daemon can exit between two. Coordinates wrap to
a C `int` before `move_mouse` clamps them. Standard input is one connection that
is there from the start. **`LegacyInput`** is what users see: commands in one
piece, and one lift of everything when a command connection leaves.

**`LineReader`** is `bufio.Scanner` with the sizes the servers give it, on a
plain socket or behind `wsConn.Read`. A unit of the stream is a byte that knows
its line. `Shift`, `Doubled` and `TooLongNow` are the scanner's decisions before
a read; `ReadFrame` copies one text frame into the room that is left and drops
the rest, `SkipFrame` drops a continuation or binary frame. The module begins
behind `tryUpgradeWS`: a connection that one drops has no lines. `cut` (something
was dropped) and `modest` (all frames were text, whole lines and small) are
history.

**`LineClient`** has the daemon's output with `WaitReady` and the goroutines
that cancelled calls leave behind, one `Client` that several goroutines use, a
socket with bounded room, and the server at the other end. A line is two
pieces, so that a write can stop half-way. `conn` is what the server has made of
the connection: `Accept` or `Refuse` (ten others are served), `Sniff` and
`SniffEOF` for the four bytes of `tryUpgradeWS`, then the scanner, until the end
of the connection or a line that is too long. `KindOf` says of a line whether it
is one character, begins with `GET ` or is too long for the scanner. What is
written to a connection the server has dropped is lost, and the client learns of
it late or never. `ok` and `broken` are history.

`MC*` modules give the constants their values.

## Runs

| Run | Shows | States |
|---|---|---|
| `session` | holds are owned, `Release` is exact and session-scoped, the ledger is implemented | 573,856 |
| `slots` | slots are counted exactly; connections end; input goes up again | 102,104 |
| `owner` | callers find room in the queue; X calls are atomic, happen at most once and return | 23,873 |
| `windows` | a generation names one client list; what passes revalidation is what was asked for; `Conflict` means no mutation | 1,798,607 |
| `startup` | one authority per user and `DISPLAY` string, but for a daemon that an error sent to `/tmp`; a daemon that serves owns its socket path, if those given that path compete for one lock | 35,208 |
| `startup_paths` | every start ends, also when daemons race for one path | 8,156 |
| `legacy` | commands are atomic, a modclick is whole, the last to leave lifts everything but high buttons, slots are exact; commands complete and gone clients are cleaned up | 93,418 |
| `lines` | the lines written are the lines executed; which frames are safe; which lines are refused | 195,110 |
| `client` | lines arrive whole, in order and once; a torn write spoils one command; when a nil result is a promise; calls return | 148,622 |
| `decode` | exactly the documented requests are accepted, exactly the unknown operations are `NotSubmitted`, and a `Request` holds the members of its line | 107,703 |

Deadlock is checked in every run but `owner`, where a panic ends the process
for good.

Two more runs end in a counterexample. Each states what a comment or document
says and the code does not do:

| Run | The text | What happens |
|---|---|---|
| `modifier_locks` | `x11.go:42`: toggling twice guarantees "off" | a lock that was on stays on |
| `two_users` | `README.md:14`: one authority per `DISPLAY` | root locks in `/run`, another user in `/tmp` |

## Limits of the code that the models show

The properties are stated so that they hold; these are the cases they leave out.

- `PrivateHoldIsDown` speaks of inputs that one client uses. When two clients
  name the same key and one lifts it, the other session's `KeyDown`
  (`session.go:92`) still answers true.
- `QuietTargetMatches` needs a quiet X server. `Revalidate` and the mutation are
  two jobs of the owner, so `PROTOCOL.md:74` ("immediately before mutation")
  leaves room for a change of the list, and for another request, in between.
- `PassedRefSawThisList` speaks of references of the current run of the daemon.
  Generations start at 1 in every run, so an older reference can pass
  (`request.go:32` calls it durable).
- `waitPointer` polls without the mutex that `dest.go:38` says every Xlib call
  takes. Only the owner thread makes X calls, so nothing overlaps.
- `ReturnsAfterEffect` leaves out a panic: it closes `done` on its way out, so the
  caller can go on, and answer, before the process exits.
- `OneAuthority` leaves out a daemon that met an error with its lock file in
  `/run`, any error, and went on to `/tmp` (`lock.go:64`): it does not see the
  lock of the same user's daemon in `/run`, and both go on. It says that this is
  the only way.
- `SocketIsServed` needs one lock for a path, and no daemon of that path that
  fell back like this. Daemons that spell `DISPLAY` differently hold different
  locks and can take a path from each other.
- `IdleIsLifted` leaves out buttons above 3: `release_all` does not lift them.
- `LinesSurvive` leaves out cut and skipped frames: `wsConn.Read` drops what does
  not fit the scanner's buffer, and every data frame but a text frame
  (`ws.go:164`), so a message in several frames loses all but its first.
- A line of exactly 1 MiB is refused by the scanner, which needs room for the
  newline, although `WriteLine` (`client.go:127`) lets it through.
- `ExecutesWhatWasWritten` ends at the first write that stopped half-way: the
  client stays usable, and the next line is glued to the half on its way.
  `OneCommandPerLine` says what holds from there on: that line is spoilt, and no
  other.
- `NilIsExecuted` lists when a line is lost although `WriteLine` returned nil: the
  daemon exits, an earlier write stopped half-way, ten other connections are
  served, fewer than four bytes are ever written to the connection
  (`ws.go:28`; one line of one character, for example), its first line begins
  with `GET `, or this line or one before it is 1 MiB.
- `SubmittedIsStrict` lets a null pass as `expectedClass` or `expectedPID`, which
  the code does not tell from a member that is not there.
- `FirstWaitReturns` speaks of the first `WaitReady`. The goroutine of a
  cancelled call can take the READY line from a later one.

## Bounds

- `session`: two clients that share a key, one of them with a key and a button
  of its own, a name without a keycode, two names of one key, four requests, one
  crash, failing ups. Two clients are enough for every conflict over one input;
  four requests allow press, press, lift, release.
- `slots`: four clients for two slots, one of them refused by the allowlist, one
  key, two requests, one crash; ups do not fail, as `InputSettles` needs.
- `owner`: three callers, a queue of three, two polls of the pointer (the code has ten connections and a
  queue of 256; what matters is that callers do not exceed the queue).
- `windows`: two clients, three windows of which two are read (256 in the code),
  two applications, three changes at the X server (create, destroy, create again
  with the same identifier; or one window more than is read), one restart.
  Connections, windows and applications are symmetric.
- `startup`: three processes, two lock attempts instead of twenty. Two compete
  for a lock and a path, the third is another user's; any open may fail. In `startup_paths` all are
  one user's and two spellings of `DISPLAY` share a path.
- `legacy`: three connections for two slots, two command lines in a behaviour, one key, one low
  and one high button, a 3 by 2 screen. The eight commands have no X call, one,
  two and five, and include a blank line, a hold time out of range, a
  coordinate beyond the screen and one that wraps (2^31 is 8). Two lines are
  enough for one command to meet another, or the release of a connection that
  leaves. The proofs cover all commands.
- `lines`: a buffer of 4 that grows to 8 and 9 (64 KiB and 1 MiB in the code;
  the odd limit lets doubling meet it), streams of up to eleven units in two to
  four lines, with lines up to one unit over the limit, one empty frame in a row
  tolerated (100 in the code).
- `client`: two goroutines with two calls each, room for four pieces (as many as
  two tiny lines have bytes, so that the server can tell the connection), two
  calls of `WaitReady`. First calls write a tiny line; of the second ones one
  begins with `GET ` and one is too long. A call that is refused, or over before
  it begins, lets each of them be the first line.
- `decode`: every line that is one removal, insertion or replacement of a member
  away from a request, with every kind of text around it.

The proofs hold for every value of these constants that the named assumptions allow.

## Fairness

`DestSession!FairSpec`: goroutines and the accept loop keep running, and the
idle deadline fires; nothing is assumed of clients. `XOwner!FairSpec`: the owner
thread and goroutines inside a call keep running. `Startup!FairSpec`: a started
process keeps running its start-up code. All are weak fairness of steps the Go
scheduler or the kernel takes by itself; no step of a client, and no start or
stop of a process, is fair.

`Legacy!FairSpec` has weak fairness of a goroutine's own steps and strong
fairness of taking `xmu`: other goroutines may take the mutex in between, but
Go's `sync.Mutex` hands it to a waiter that has waited too long. Sending,
reading and hanging up are not fair; a write to a peer that is gone returns.
`LineClient!FairSpec` has weak fairness of the daemon and of the waiting
goroutine, and strong fairness of writers, for the mutex and for room in the
socket that another writer may fill. Deadlines, cancellations and the exit of
the daemon may happen or not.

## Proofs

Each proof module finds an inductive invariant `IInv`, proves that the initial
state has it and that every action keeps it (a step or a lemma per action), and
derives the theorems. The assumptions are named where the constants are declared
(`ConstantsAssumption`, `OwnerAssumption`, `WindowsAssumption`,
`StartupAssumption`, `LegacyAssumption`, `LineReaderAssumption`,
`LineClientAssumption`, `DecodeAssumption`). They give constants their types,
keep the values for "none" apart, make counted sets finite and say that a buffer
starts no larger than its limit. `LineReaderAssumption` also says how the units
of a stream are labelled: a unit's line is one more than the newlines before it.
That restricts no bytes a peer may write. `QueueHasRoom` has its condition on the number of callers in its
statement.

- **`DestSessionProofs`** (775 obligations): types, `LedgerRefinement`,
  `Ownership`, `PrivateHolds`, `ReleaseOutcome`, `ReleaseIsSessionScoped`,
  `NoOrphans`, `SlotAccounting`, `AllUpWhenNobodyIsServed`,
  `PrivateInputsAreExact`, `ReleaseMeansUp`, `ReleaseIsBounded`. `IInv` adds what each label means (`Located`),
  that a connection's inputs are those its client names (`WithinUses`), and what
  a `Release` under way has settled (`Releasing`): without the last one, `Close`
  could drop holds that were never tried. Ownership and private holds are proved
  of the ledger, whose steps are fewer, and carried back.
  `AllUpWhenNobodyIsServed` joins three others: with no slot taken nobody is
  served, so nobody owns an input, so none is down (unless ups fail or the daemon
  crashed). The last three say what one client can rely on. An input only it
  names is down exactly while its session answers for it. `Submitted` for a
  release, and the end of the connection, mean that these inputs are up. A
  `Release` shrinks its snapshot with each input it tries, failed ups included.
- **`XOwnerProofs`** (756): `OwnerReturnsAfterEffect`, `OwnerQueueHasRoom`,
  `OwnerKeepsCalls`, `OwnerImplementsCalls`, `OwnerIsNeverBlocked`,
  `OwnerServesInTurn`. `IInv` says that the queue holds
  each waiting caller at most once and that the running closure is in none of
  its places. The room in the queue is then a pigeonhole argument: positions of
  the queue map one to one to callers other than the one that wants to send.
  `OwnerServesInTurn` has a rank, the steps left of the running closure
  (`WorkLeft`): a step of the owner lowers it or moves the whole queue up, and no
  step of a caller moves a queued call back.
- **`DestWindowsProofs`** (1281): `GenerationNamesList`,
  `RevalidatedRefIsCurrent`, `MutationMeetsTarget`, `ConflictIsClean`,
  `GenerationMovesWithList`, `RevalidatedRefIsListed`. The key is
  `Known`: a reply of this run has a generation no later than the current one,
  and if it is the current one its list is the list read last. Every observation
  keeps that for all replies and references, whoever makes it. `Counted` pays
  for a generation with a change of the list. Generations start at 1 in every run
  of the daemon, so a reference of an earlier run may pass against another list
  than its own; `RevalidatedRefIsListed` says what is left then: the window is in
  the list just read (and `QuietTargetMatches`, that its class and PID match).
- **`StartupProofs`** (728): `Singleton`, `AuthorityPerDisplay`, `SocketKept`,
  `ModifierLocksAreLeft`, `StartIsBounded`. Holding a lock is not
  enough, since there are two lock files. The invariant says that a process fell
  back to `/tmp` only if its user can never open the file in `/run`, or by an
  error that `slipped` remembers; so two daemons without such an error use one
  file. For the socket, `SInv` says that a daemon whose rivals
  all compete for its lock (`OneLock`) finds its own socket at its path from bind on.
  `Singleton` shows that no rival is past the lock then (`NoRivalPastLock`), so
  nobody else removes or binds that path; an exit removes only its own socket.
  `AuthorityPerDisplay` states the condition (`OneSpelling`) under which the
  repository's "one mutation authority per X11 DISPLAY" is true; the run
  `two_users` shows that it is needed. `StartIsBounded` has the rank `StepsLeft`: a
  process's own step lowers it, another process's step leaves it alone.
- **`LegacyProofs`** (2035): types with the pointer on the screen, `LegacySlots`,
  `LegacyModclick`, `LegacyIdle`, `LegacyRefinesInput`, `XmuIsNeverLost`,
  `HolderIsUndisturbed`. `IInv` says who may hold
  `xmu`, which inputs the script of its holder has down so far, and that an input
  can be down only while some connection is there whose release will lift it. In
  the refinement the abstract display is the one after the calls that the holder
  of `xmu` has still to make (`Finished`); taking `xmu` is then the command, and
  each call a stutter. The last two theorems are about the mutex itself: it is
  held only by a goroutine inside, whose calls left (`CallsLeft`, at most six with
  the `Unlock`) go down by one with each of its steps and with no other.
- **`LineReaderProofs`** (1948): indices inside the buffer,
  `ReaderKeepsModestFrames`, `ReaderKeepsLines`, `ReaderRefusesOnlyLongLines`,
  `ReaderRefusesOnlyTooLong`, `ReaderIsFaithful`, `ReaderSkipsNoLine`,
  `ReaderExecutesEveryLine`. `IInv` says
  that the buffer is a slice of the stream and ends with a line as long as frames
  are modest; after `Shift` at least half of the buffer is free then. For the
  lines, `LInv` adds that until a frame is cut or skipped the unread data begins right
  behind line `Len(out)` of the stream (`Aligned`) and that what was executed is
  what was written (`Survived`). The next token is then a stretch of the stream
  from there to the next newline, which is `Text(Len(out) + 1)` (`NextText`).
  The reference `Text` is a stretch given by a minimum and a count, not by
  recursion, so no induction over the stream is needed. `ReaderIsFaithful` needs
  no proviso about cut or skipped frames: a plain connection and modest frames
  have none.
  `LinesSurvive` alone would allow a reader that stops early;
  `ReaderExecutesEveryLine` excludes that: `PassedWhole` says that a line whose
  newline left the buffer came out whole, and `EndsEmpty` that `Scan` ends with
  an empty buffer, or for a line over the limit.
- **`LineClientProofs`** (2552): types, `ClientExecutesWhatWasWritten`,
  `ClientOneCommandPerLine`,
  `ClientTimesOutByOwnDeadline`, `ClientLosesNothing`, `ClientMutexGuardsWrites`,
  `ClientWritesNothingAfterClose`, `ClientReadyIsSound`.
  The key is `Flow`: the pieces in the scanner and on the wire are, in order,
  those of the lines that succeeded and were not executed yet, followed by at
  most the first half of the line being written. It holds until a write stops
  half-way (`broken`), the daemon dies or drops the connection; `Executed`
  survives the last two. Behind a torn write `Flow` is lost, and `OInv` takes its
  place: every rest stands right behind its text (`Chain`), and a text without
  one is either the last piece of a write that goes on or was left by a call that
  returned (`Left`), which never gets into `ok` later (`TornForGood`). What the
  scanner takes up to a newline is then one whole line behind such halves.
  `Mutex`
  says that `Client.mu` is held exactly by the goroutine inside its write and
  that `Close` does not happen then, `Timed` that a deadline on the connection is
  that of the call that holds `mu`. For READY, `RInv` says who can have read the
  line: a first call of `WaitReady`, which has no goroutine of a cancelled call
  beside it, finds it unread.
- **`DecodeProofs`** (557): `DecodeIsStrict`, `DecodeKeepsNotSubmitted`,
  `DecodePopulates`, for every line. `IInv` says that `seen` is the set of names
  up to the current member, none of them twice, and that the struct holds what
  the members set.

Only model-checked: liveness (`EveryConnectionEnds`, `InputSettles`,
`EveryCallReturns`, `StartEnds`, `GoneClientIsCleanedUp`, `CommandsComplete`,
`NilIsExecuted`, `CallsReturn`, `FirstWaitReturns`), which TLAPS 1.4.5 does not
prove under fairness. What is proved of the safety argument behind each of them:

| Liveness property | Proved part |
| --- | --- |
| `InputSettles` | `AllUpWhenNobodyIsServed` |
| `EveryConnectionEnds` | `ReleaseIsBounded` for its loop |
| `EveryCallReturns` | `OwnerIsNeverBlocked`, `OwnerServesInTurn` |
| `StartEnds` | `StartIsBounded` |
| `CommandsComplete`, `GoneClientIsCleanedUp` | `XmuIsNeverLost`, `HolderIsUndisturbed` for the wait for `xmu` |
| `NilIsExecuted` | `ClientLosesNothing` |
| `CallsReturn` | `ClientMutexGuardsWrites` for the wait for `Client.mu` |
| `FirstWaitReturns` | `ClientReadyIsSound` |

Every invariant, action property and refinement of a passing run is a theorem.

## Not modelled, and abstractions

- The client list's hash is taken to be injective and never 0.
- `Describe` reads all windows of one reply in one step; geometry, names and
  states of windows, which are data of the reply, are left out.
- The spelling of flags, socket paths and allowlists: good or bad.
- JSON text and the splitting of a command line into fields and numbers. A
  malformed number is button 0 or coordinate 0, as in the code.
- Masks, the three forms of a frame's length, the bytes of upgrade headers and
  of pongs. Data that a client sends in the same packet as its upgrade request
  is lost with the header scanner; `LineReader` starts after the upgrade.
- A client that writes a whole upgrade request with `WriteLine`, line by line. In
  `LineClient` a connection that begins with `GET ` executes no line.
- `bufio.Scanner`, `encoding/json`, `sync.Mutex` and sockets are external code,
  modelled as the daemon uses them.
- Log redaction, ready lines and the test backends (`fake.go`,
  `panic_backend.go`) have no state of their own in the daemon;
  `move_mouse_fake` and `close_display` have no caller in it.
