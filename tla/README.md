# A TLA+ verification of InvariOS

InvariOS is a small operating system whose whole user space is one Go program
running as PID 1, plus the OpenBao server it starts. These modules model the
part of it that runs on a node (installing the disk, booting, taking a lease,
answering the management API, owning the workload, going down) and the command
that builds what a node installs. TLC checks them on small instances. TLAPS checks
the proofs of every safety property that a passing run checks, of the two action
properties and of the three refinements, for every value of the constants; and that
what the program writes by hand (the load option, the initramfs, the UKI) is read back
for every input, not only the bounded ones that the runs try. Liveness is left to TLC.

All file references are relative to `src/`. A name in `code font` is either Go
(with its file) or TLA+ (with its module).

## 1. Inventory

| component | state it keeps | operations | modelled in |
|---|---|---|---|
| supervisor (`internal/supervise`) | `bootstrapped`, `stopping`, `cmd`; two unbuffered request channels; `bootstrap.json` on STATE | `Bootstrap`, `Stop`, `Run`, `PersistMode`, `PersistedMode` | `Supervisor`, `Decision` |
| boot and power sequence (`cmd/root.go`) | where the boot goroutine is, `srvDone` | `runBoot`, `runPower`, choice of `runInstall` | `Node`, `Install` |
| power requests (`internal/power`) | the one recorded action, the channel `done` | `Request`, `Done`, `Action`, `Do` | `Node`, `Install`, `Console` |
| management API (`internal/mgmtapi`) | the HTTP server, its running handlers | `serve`, `POST /bootstrap`, `POST /power` | `Node` |
| volumes (`internal/mount/volumes.go`) | how STATE and DATA are mounted | `Volumes`, `UnmountVolumes` | `Node`, `Install` |
| install sequence (`internal/install`) | none of its own: the disk and NVRAM | `Detect`, `Run` | `Install` |
| disk (`internal/disk`) | the GPT table, three file systems | `CheckMinimumSize`, `IsInstalled`, `Partition`, `WaitForPartition`, `Format` | `Install`, `Disk` |
| install marker (`internal/meta`) | two copies of a checksummed block on META | `Init`, `Wipe`, `IsInitialized` | `Install` |
| boot entries (`internal/efi`) | `Boot####`, `BootOrder`, `LoaderEntryDefault` | `EnsureBootEntry`, `SetDefault`, the encoding and decoding of their variables | `BootEntry`, `LoadOption`, `Install` |
| network (`internal/network`) | the lease held, the retry timer, address, route, `resolv.conf` | `Up`, `maintain` and what it calls | `Lease` |
| console (`internal/console`) | the stdout pipe, drain's buffer, the two consoles | `Setup`, `drain`, `Flush`, `Fatal` | `Console` |
| build command (`cmd/build.go`) | scratch and output directories, the tags of the registry | `runBuild` | `Build` |
| OpenBao download (`internal/openbao`) | the download cache, which outlives builds | `Fetch` | `Build` |
| OCI images (`internal/ociimage`, `internal/bootimage`) | two goroutines and a pipe during a pull | `Pull`, `Extract`, `Push` | `Extract`, `Build` |
| initramfs (`internal/initramfs`) | none: a file | `WriteCPIO` | `Cpio`, `Build` |
| UKI and PE (`internal/uki`) | none: a file | `Build`, `AssembleNative` | `Pe`, `Build` |
| pseudo file systems, small tables (`internal/mount`, `parttype`, `paths`, `version`) | none | straight lines and constants | not modelled |

How they interact. The boot goroutine mounts the volumes, brings the network up
(which leaves the goroutine `maintain` behind), starts the goroutine
`Supervisor.Run`, replays a persisted decision through it, starts the HTTP server
and then waits for one of two events: the server failing, or a power request.
Handlers run on goroutines of `net/http`; they reach the supervisor only by
sending a request to `Run` and waiting for the reply, and reach the boot goroutine
only through `power.Pending`. `runPower` then drains the server, stops the
workload, unmounts, syncs and reboots. Install runs instead of all this when the
disk does not read as installed. Every one of them prints through one pipe.
A build runs on another machine: it downloads a release, pulls images, writes the
initramfs and the UKI, pushes the boot image under the tag it has compiled into the
UKI, and writes the media. Install, booted from such a medium, pulls by that tag.

What is hard in it, and so what the properties are about:

* *Interleavings.* Handlers, the recovery at boot, `Run`, the workload's own exit,
  a Stop with a deadline, and a drain with a deadline. A handler may outlive the
  drain, a caller may leave between its send and its reply, Stop may give up on a
  `Run` that is still busy.
* *Loss of power.* Between any two steps of the install and of the power
  sequence; between the write, the rename and the write-back of
  `bootstrap.json`; between the two copies of META's marker; between the
  firmware's variables.
* *Partial failure.* `runPower` logs failures and goes on; `Install` stops at once
  and must be able to start over; `apply` fails half-way; one of two consoles
  fails or blocks.
* *Left-overs.* A build that failed or was killed leaves directories, a download
  cache and a registry to the next one, of another release or under the same tag.
* *Bytes written by hand.* Load options for the firmware, an archive for the kernel,
  a PE file for the firmware's loader, partition sizes for mkfs: nothing on the way
  says that they are wrong, the machine just does not boot.
* *Time.* The lease's T1, its end and the retries between; the deadlines of drain,
  Stop and Flush.

What makes each part correct, in one sentence: the supervisor starts at most one
workload a boot, never loses hold of it, remembers what it started and starts
nothing once it stops; the node tells clients the truth, keeps what it
acknowledged, and goes down when asked; the marker proves a complete
installation, and an installation always gets there once failures stop; nobody
else's boot entry is touched; the address in use is covered by a lease; printing
never stops a node whose consoles do not block; what a build publishes is whole, and a medium finds its own build.

`PROJECT.json` lists the hazards line by line with the properties that watch them.

## 2. Modules

```
Decision  <--refines--  Supervisor  <--INSTANCE, refines--  Node
                            ^                           ^  (MCNode)
                     SupervisorProofs <--INSTANCE--- NodeProofs

Installation <--refines-+
BootEntry <--INSTANCE-- Install, Disk <--EXTENDS-- MCInstall, LoadOption
                           ^                           ^ EXTENDS
                      InstallProofs               FormatProofs

Extract <--INSTANCE-- Build, Cpio, Pe <--EXTENDS-- MCBuild <--EXTENDS-- BuildProofs

Lease (MCLease) <--EXTENDS-- LeaseProofs     Console <--EXTENDS-- ConsoleProofs

SeqWithout <--EXTENDS-- BootEntry, Console
SeqProofs  <--EXTENDS-- InstallProofs, ConsoleProofs, BuildProofs, FormatProofs
```

**Supervisor** (`supervisor.go`, `stop.go`, `state.go`, `bootstrap.go`, `bao.go`).
One action per step of the goroutine `Run` (`Accept`, `WriteTemp`, `Rename`,
`PersistFails`, `BootstrapUnknown`, `StartFails`, `StartWorkload`, `AcceptStop`,
`StoppedInGrace`, `Kill`, `Killed`), per step of a caller of `Bootstrap` (`Call`,
`Collect`, `Abandon`) and of `Stop` (`CallStop`, `AbandonStop`), and of the world
(`WorkloadExits`, `GraceExpires`, `CancelCall`, `Sync`, `Restart`). A rendezvous on an
unbuffered channel is one action of both sides; the reply channel has a buffer of
one. `file` is `bootstrap.json` as the running system reads it, `onDisk` the *set* of
contents a loss of power may leave: a rename that was not synced adds the new
content and `Torn` (the new name without its data) to it, `Sync` reduces it to
`file`. A mode is a model value; `Implemented` are those `Bootstrap` has a case for.

**Decision** is what the supervisor promises without goroutines, channels or
signals: decide, launch, end, close, and after a power cycle find a decision that
was not yet settled. `Supervisor` refines it (`ImplementsDecision`): "the workload that
runs" is computed from `workload` and `want`, `closed` is the moment `Run` takes the stop
request.

**Node** (`root.go`, `mgmtapi.go`, `power.go`, `volumes.go`). The supervisor's variables
are used through `S == INSTANCE Supervisor`: a step of the supervisor that the code
calls is a conjunct of the node's action, and its other steps are taken by the
node under the node's conditions (STATE must be mounted read-write for `PersistMode`
to succeed). Around it are the boot goroutine (`main`), the server (`srv`), the
recorded power action, both mounts and each handler. A request is a mode or a
power action; a bad body is a choice. `ImplementsSupervisor` checks that the whole
composition only does to the supervisor what `Supervisor` allows.

**BootEntry** (`efi.go`). `EnsureBootEntry` reads BootOrder, looks for our label in it,
else for a free number, writes `Boot####`, then BootOrder; it may fail or the
machine may stop between the two. An entry of ours that cannot be read does not
end the call: `findByLabel` skips it (`efi.go:341-343`) and the call may go on with a
new number. `unread`, which only records, holds the entries of ours that this
happened to in the call. Entries are the partition they point at, or
`Vendor`. Here a variable is what it means; **LoadOption** has its bytes:
`buildLoadOption` with its device path, and on the other side `loadOptionHeader` and
`bootOrder` as this program reads them and `Booted` as the UEFI specification has the
firmware read them. Strings are sequences of UTF-16 code units, integers sequences of
bytes of a given width.

**Install** (`install.go`, `disk.go`, `meta.go`, `efi.go`, `power.go`). PID 1 from `Detect` to
reboot(2), one action per step, with a failure of each step and a loss of power
between any two. Tables are numbered by the run of Install that wrote them;
everything made for a table carries its number, which is how the fresh GUIDs of
each run are told apart. META is a pair of copies, and until its fsync the disk
may hold any mixture of old, new and cut-off copies (`HalfWritten`). The disk has a
size: `CheckMinimumSize` refuses a small one before anything is written, and mkfs.xfs
one on which DATA comes out too small (`Refused`). **Disk** has the sizes of the
partitions; what the GPT library keeps for itself is a constant.

**Installation** is what this promises without steps, copies or caches: the one variable
is the set of what a start may find that comes after a loss of power now. An
installation becomes whole in one step, on a disk where nothing was to be found, and
only a new table takes it away. `Install` refines it (`ImplementsInstallation`): `finds` is
computed from the pairs `metaOnDisk`, the table and what `Complete` demands.

**Lease** (`network.go`). `Up` and `maintain` in units of 30 seconds; the server may stay
silent or change what it offers; each kernel operation of `apply` and `unapply` may
fail, leaving what the code had already done.

**Console** (`console.go`, with `Do` of `power.go`). A pipe of a few lines, drain's read
and its two writes, consoles that work, fail or block, writers that block in
write(2), Flush and Fatal.

**Build** (`build.go`, `fetch.go`). `runBuild` step by step, for builds that follow each other
in one working tree: each may be of another release and have the tag of an earlier
one. A step that fails and a kill at any moment leave `Fragment`, the cache as it is,
and a download in the middle the file it had created. `registry` names the build
behind each tag, `out` the build each medium is of. Copies between scratch
directories are folded into the step that makes what is copied.

**Extract** (`ociimage.go`) is a pull inside a build: the exporting and the extracting
goroutine, the unbuffered pipe between them, the ways either may end and close it.
`Build` runs it through `E == INSTANCE Extract`, as the code calls it.

**Cpio** (`cpio.go`) is where `WriteCPIO` puts headers and data and where the kernel looks
for them; **Pe** (`native.go`) where `AssembleNative` puts sections in the file and in
memory, and what a loader relies on. Both are pure: no variables, and recursion only
as recursive functions and folds, so that `BuildProofs` can use them.

**SeqWithout** has the loop of `EnsureBootEntry` that copies BootOrder without one number
(`efi.go:432-436`). It says what SelectSeq says, but with a set where that has an
operator, which a lemma cannot be stated about.

Operators named after a defect (`WriteInPlace`, `RefusalIgnoresStopping`, ...) are not
part of the model: each is the form a named definition would take with a
plausible bug in it, kept to show that the property watching it can fail.

## 3. What is checked

| run | checks | on |
|---|---|---|
| `supervisor` | nine properties, refinement and liveness included | 2 calls a boot, 2 modes (one implemented), any number of restarts |
| `supervisor_torn` | `NeverUnparseable` fails | the same |
| `node` | truth and durability of answers, orderly power sequence, refinement | 2 requests a boot, 2 modes, 1 restart |
| `node_live` | `PowerRequestHonoured`, `RequestsAnswered` | 2 requests, 1 mode, no restart |
| `node_quiet` | `StopMeansQuiet` fails | the same |
| `install` | marker, wipe, boot entries, their bytes, progress | 4 numbers, every NVRAM with up to 2 of them listed, 3 faults, 4 runs of Install, 3 sizes of disk |
| `install_stale` | `FailedInstallRunsAgain` fails | 3 numbers, 2 faults, the same 3 sizes |
| `disk_minimum` | `MinimumInstalls` fails | the same |
| `lease` | coverage, kernel state, timers, recovery | 2 addresses, 5 offers, leases of 6 units or for ever, T1 absent, early, late |
| `lease_reconfigure` | `RenewalConverges` fails | the same |
| `console` | order, loss, flush, liveness | 2 writers, pipe of 2, buffer of 1, 4 lines |
| `build` | what is published, media, cache, formats, liveness | 3 builds, 2 releases, 2 tags, images of 2 chunks; format inputs below |

### Supervisor

`OneWorkload`, `WorkloadRemembered`, `RunningIsReachable`, `StoppedIsQuiet` and
`AnswersAreTrue` are invariants, `NoStartWhileStopping` an action property,
`ImplementsDecision` the refinement. `NobodyWaitsForever` says that every call of Stop
and of Bootstrap returns. Two callers are the least with which one is
refused, races with the other, or arrives after a stop (a caller whose context ends is told
so, which claims nothing of what its request does); the proofs below lift the
safety part to any number. Two modes, one of which `Bootstrap` does not know, are the
least with which the persisted mode and the running one could differ. Restarts are
not bounded: a boot's state is forgotten, so there are finitely many states.

### Node

`AcknowledgedSurvives`: a client that received 200 finds its mode after an orderly
reboot, because from the sync on `onDisk` is exactly that mode. It excludes a server
that failed by itself, see the list in section 6. `QuietWhenStopped`,
`AnsweredBeforeStop` and `FirstRequestWins` are the order of the power sequence;
`StatusesAreTrue` is the client's view. Two handlers are the least with which a
bootstrap races with a power request, or two power requests or two bootstraps
with each other; together with the recovery at boot the supervisor then sees three
callers. The one restart lets the second boot find whatever the first one left.

### Install and boot entries

`MarkerMeansComplete` says that a marker written for the table now on disk implies that
the three file systems belong to that table, that the boot files are durable and
that the firmware boots this installation first. `MidwayIsUnmarked` says that from
the first mkfs on no marker can survive a loss of power until all is complete; it
needs the fsync of `Wipe`, and the property is stated of every pair a loss of power
could leave. `ImplementsInstallation` adds that from the marker on nothing but
a new table takes an installation away, and that no step goes straight from an old
marker to a new one. `EventuallyBoots` bounds the damage: whatever up to three faults leave
behind, some later run reaches `booted`. Three faults are enough to interrupt a
re-install that follows an interrupted install, and `MaxRuns > MaxFaults` leaves a run
that nothing interrupts. `VendorsUntouched` and `OursFirstOnce` are of
`EnsureBootEntry` as it is called there, from every NVRAM of four numbers, numbers
that are listed without an entry and entries that are not listed included.
`OursFirstOnce` says that a call that succeeds leaves our entry first, that BootOrder
repeats no number, and that a number of ours joins BootOrder only if none of ours was
listed or none of those could be read. That a failed read adds a second entry of ours
is what the code does (see section 5); each of the run's faults may be such reads.
`EventuallyBoots` has two premises: DATA fits on the disk, and the firmware has more
free numbers than faults can use up, each at most one: an entry that is orphaned, or one
more because ours could not be read. The three sizes are one that is refused, the
smallest that is not (which `disk_minimum` is about) and the smallest that works.

`LoadOptionReadsBack` is about bytes, on the same inputs whenever an entry was written: labels and paths of up to
two code units (a backslash, a unit of one byte, one of two, the greatest), partition
numbers and blocks at the edge of a byte and of three, order lists of up to three, and
every sequence of up to seven bytes as somebody else's entry.

### Lease

`AddressCovered` and `KernelMatchesLease` hold until an operation fails;
`NeverSleepsPastExpiry` and `LostRecovers` hold whatever fails. T1 of 1 and of 7 units in
leases of 6 cover a T1 before and after the lease's end, and 6 units pass through
several halvings of the retry interval down to its minimum.

### Console

`NothingLost` is the order and completeness of the log on a console that never failed;
`LastWordsRead` is what Flush is for; `PrintReturns` is what `drain` was written for: consoles may fail for ever and nobody is
blocked. Four lines are one more than pipe and buffer hold together, so that a writer
really blocks.

### Build

`ImageIsWhole` is about everything that goes before a push: whatever failed or was
killed earlier, a tag never names a build from an incomplete rootfs. The checksum and
the wait for both goroutines carry it. `OutMatchesRegistry` needs the output directory
to be cleared before the tag is chosen. `CachedBuildsVerify` is what `downloadIfMissing`
is careful for, and says where that ends: at a kill, and at another release. Three
builds let a second one reuse what the first left and a third one take its tag; an
image of two chunks lets a goroutine fail before, between and after them.

`ArchiveUnpacks` and `SectionsLoad` are on the same inputs in every build: pairs of entries with names
of 1 to 4 bytes and sizes of 0 to 5 (so every padding), in a field that wraps at 8; stubs
of 1 to 16 sections of uneven sizes (the headers cross a file alignment twice) with files
around the alignments. The proofs below lift both to every number.

### Fairness

* `Supervisor!Fairness`: the goroutine `Run` is scheduled and its file operations
  return; a caller whose answer is there or whose context is cancelled resumes; a
  deadline passes; a process that was sent SIGKILL dies. Nothing is assumed of a
  workload that only got SIGTERM, of clients or of restarts.
* `Node!PowerFairness`, for `PowerRequestHonoured`: the boot goroutine, the server's own
  goroutine, the timers, `Run` after it has taken the stop request, SIGKILL, and the
  boot goroutine's own call at recovery. Clients, handlers and a busy `Run` are
  assumed nothing of: that is the point of the three deadlines. System calls of the
  boot goroutine, unmount(2) among them, are assumed to return, with or without success. `RequestFairness` is
  the premise of `RequestsAnswered` and adds handlers (readTimeout bounds a body) and `Run`.
* `Install!FairSpec`: the machine runs and somebody cycles the power of one that hangs.
* `Build!Spec`: a build that runs goes on. Every step of a build is a tool that returns or
  a transfer that the network ends one way or the other; failures are not assumed.
* `Lease!FairSpec`: time passes, the goroutine runs, and a server that is asked for ever
  some day grants a lease that can be applied (strong fairness of that one step).
* `Console!FairSpec`: goroutines run, timers fire, and a system call that can return does.

## 4. What is proved

### The supervisor

`SupervisorProofs` holds its theorems, all from the named assumption
`SupervisorAssumption` (the implemented modes are modes; `Absent`, `Torn` and `None` are
values of their own), for every `Caller`, `Mode` and `Implemented`:

| theorem | says |
|---|---|
| `TypeCorrect` | `Spec => []TypeOK` |
| `Inductive` | `Spec => []IInv` |
| `AtMostOneWorkload` | `Spec => []OneWorkload` |
| `FileNamesWorkload` | `Spec => []WorkloadRemembered` |
| `NoOrphan` | `Spec => []RunningIsReachable` |
| `QuietAfterStop` | `Spec => []StoppedIsQuiet` |
| `TruthfulAnswers` | `Spec => []AnswersAreTrue` |
| `NothingStartsWhileStopping` | `Spec => NoStartWhileStopping` |
| `Implements` | `Spec => D!Spec` |

None of these invariants is inductive by itself. `OneWorkload` needs to know that
while `Run` is between taking a request and replying nothing has been started and
nothing is stopping (`ServingInv`), which in turn needs that `bootstrapped` is true
exactly when something was started (`StartedInv`). `WorkloadRemembered` needs that the
file is what the request names at the moment it is started (also `ServingInv`), and
that a call which was not taken yet has had no effect (`CallInv`). `StoppedIsQuiet`
needs that a stopping supervisor holds no process (`StopInv`) and that every running
workload is either held or waited for (`RunningIsReachable`). `AnswersAreTrue` is carried
by the same statement about the replies still in their channels (`AnswerInv`). `IInv` is
their conjunction. The preservation proof has one lemma per kind of step
(`CallKeeps`, `CallerStepKeeps`, `AcceptKeeps`, `PersistKeeps`, `RejectKeeps`, `StartKeeps`,
`ExitKeeps`, `AcceptStopKeeps`, `FinishStopKeeps`, `OtherKeeps`, `RestartKeeps`, `StutterKeeps`).

`Implements` maps each step to a step of `Decision` or a stutter. The mapping uses a
CHOOSE for the workload that runs; `RunningValue` shows from `OneWorkload` that it is the
value one expects.

### The node

`NodeProofs` shows, for every `Handler` and `Mode`, from `NodeAssumption` (the boot goroutine
is not a handler; the special values differ) and `NodeModes` (a mode is not called
like a power action):

| theorem | says |
|---|---|
| `NodeImplementsSupervisor` | `Spec => S!Spec` |
| `NodeOneWorkload` | `Spec => []S!OneWorkload` |
| `NodeTypeCorrect` | `Spec => []TypeOK` |
| `UnmountsAreQuiet` | `Spec => []QuietWhenStopped` |
| `OneRequestWins` | `Spec => []FirstRequestWins` |
| `ClientsKnow` | `Spec => []StatusesAreTrue` |
| `AnswersPrecedeStop` | `Spec => []AnsweredBeforeStop` |
| `AcknowledgedIsDurable` | `Spec => []AcknowledgedSurvives` |

The first one carries the others: each action of the node is shown to be a step of
`Supervisor` or to leave it alone, and `SupervisorProofs` is instantiated with the node's
callers, so that the supervisor's `IInv` is an invariant of the node
(`NodeSupervisorInv`). Next to it each property needs a small invariant of the node's
own. `QuietWhenStopped`: the boot goroutine is past Stop only when its call has a
result (`StopCallInv`), and a result from `Run` means a stopping supervisor without a
process. `FirstRequestWins`: a handler that has not decided has no status, and a
recorded action has exactly one handler that was told 202 (`PowerInv`).
`StatusesAreTrue`: a handler calls with the mode it was asked for (`PhaseInv`), its
status follows from the answer of that call, which no later step changes (`OkInv`,
`AlreadyInv`, `CallKept`), and the client hears that status or nothing (`HeardInv`);
that the answer is true is the supervisor's `AnswerInv`. `AnsweredBeforeStop`: main is at
Stop only when the server is over, and a server that drained has no handler left
(`DrainInv`); a handler that is done was heard, or its client had left, or the drain had
timed out (`RespondedInv`). `AcknowledgedSurvives`: from the sync to the end of the
boot, if anybody has heard 200, what is on the disk is the file (`SyncedInv`), and the
file is what that client asked for. It holds because who heard 200 had its workload
started (`HeardMeansStarted`), so `Run` is past its writes for good, and because nobody
hears anything new that late (`DrainInv` again).

### The installation

`InstallProofs` shows, from `InstallAssumption` (finitely many numbers of entries, names that
differ) and `DiskAssumption`, for every number of entries, of faults and of runs of
Install and every set of sizes:

| theorem | says |
|---|---|
| `Invariance` | `Spec => []IInv` |
| `InstallTypeCorrect` | `Spec => []TypeOK` |
| `MarkedIsComplete` | `Spec => []MarkerMeansComplete` |
| `MidwayUnmarked` | `Spec => []MidwayIsUnmarked` |
| `OursComesFirstOnce` | `Spec => OursFirstOnce` |
| `VendorsKept` | `Spec => VendorsUntouched` |
| `Refinement` | `Spec => ImplementsInstallation` |

`MarkerMeansComplete` is about all that a loss of power may leave, so the invariant has
to follow each copy of the marker through every step. `MetaInv` says when the two copies
and the disk agree, that they are empty between the wipe and the last step, and that
before the wipe none of them can name the new table. `FilesInv` and `MadeInv` say what the
steps done so far have left of the boot files, the file systems and the loader entry.
`UnmarkedInv` is `MidwayIsUnmarked` with each file system taken for itself (one that is
broken is enough), `MarkedInv` the half of `MarkerMeansComplete` that is about the disk. `FreshInv`
is what keeps a new table's number apart from all that is older. `NvramInv` and
`CallInv` are BootOrder: no number is listed twice, and what `EnsureBootEntry` has read is
still so when it writes, because no one else writes while it runs; a number that was
free when chosen belongs to nobody else, and one that BootOrder did not list was chosen
only because none of ours that it lists could be read. TLC checked `IInv` on
the bounds of the run before it was proved.

The refinement mapping is `finds`, a set computed from the marker copies and the table.
`Layout` and `Erase` empty it, `Commit` (the last step) adds to it, `Settle` is a write-back; every other step
leaves it alone, by `UnmarkedInv` and `MarkedInv`. That `B!Without` leaves the
other numbers and their order alone is in the lemmas of `SeqProofs`.

### The console

`ConsoleProofs` shows, from `ConsoleAssumption`, for every set of writers, every number of
lines and every size of pipe and buffer:

| theorem | says |
|---|---|
| `Invariance` | `Spec => []IInv` |
| `TypeCorrect` | `Spec => []TypeOK` |
| `NoLineLost` | `Spec => []NothingLost` |
| `LastWordsOut` | `Spec => []LastWordsRead` |

The two properties are nearly inductive. What is missing is that nothing was printed
before Setup (`SetupInv`) and that the boot goroutine, which is the one that calls Flush,
is not inside a write at the same time (`WriterInv`): otherwise a last line could get
into the pipe after Flush had found it empty. The proof is about lists: what drain takes
is the front of the pipe and is appended to what was shown (`TakenIsAPrefix`).

### The lease

`LeaseProofs` shows, from `LeaseAssumption`, for every set of addresses and offers, every
lease time and every T1:

| theorem | says |
|---|---|
| `LeaseTypeCorrect` | `Spec => []TypeOK` |
| `WakesInTime` | `Spec => []NeverSleepsPastExpiry` |
| `KernelFollowsLease` | `Spec => []KernelMatchesLease` |
| `AddressesCovered` | `Spec => []AddressCovered` |

`WakesInTime` rests on the two timers (`RetryInTime`, `RenewInTime`). The other two need
what the kernel has in every phase, also where no lease is held (`KernelInv`): `apply`
only adds, so that nothing is left of an earlier lease depends on the phase it is
called in. `AddressesCovered` then follows from the timer: the address in use is that
of a lease which cannot have ended while `maintain` sleeps.

### The build

`BuildProofs` shows, from `BuildAssumption`, for any number of builds, releases and tags
and images of any length:

| theorem | says |
|---|---|
| `PublishedIsWhole` | `Spec => []ImageIsWhole` |
| `MediaFindTheirBuild` | `Spec => []OutMatchesRegistry` |
| `CacheIsSound` | `Spec => []CachedBuildsVerify` |

The invariant says what has been done by the time a build is at a step: the archive
that is extracted is whole (`CacheInv`), the rootfs has what the steps before put there
(`RootfsInv`), the output directory is empty from the moment it was cleared until the
push (`MediaInv`). A build that stops keeps all of it, because nothing is said of the
scratch directories while none runs.

It also proves that what a build writes can be read, from `PeAssumption` (alignments as
the PE format allows them) and `CpioAssumption`:

| theorem | says |
|---|---|
| `HeadersFit` | the headers of a UKI end before its first section, for every number of sections |
| `AddedBehind` | a file of any length is added behind the section before it and loaded whole |
| `UkiLoads` | a UKI of any stub laid out as PE demands and any files: every section is on its own, in the file and in memory |
| `UkiIsLoadable` | `Spec => []SectionsLoad` |
| `EntryUnpacks` | an entry of any name and size below 2^32 is found by the kernel, and so is the next one |
| `ArchiveUnpacked` | so is every entry of an archive of any number of them |
| `InitramfsUnpacks` | `Spec => []ArchiveUnpacks` |

`HeadersFit` is the interesting one: `SizeOfHeaders` forgets the four bytes of the PE
signature, and the headers still fit because what it adds up is always four more than a
multiple of eight: rounding up to the file alignment, a multiple of eight, adds at
least four. The theorems about whole lists follow each part to the next (`PlacesExist`,
`PlacesOrdered`, `PlacesIn`): every offset is the end of what is before it.

### The formats of the installer

`FormatProofs` has the sizes of the disk, from `DiskAssumption`, and the bytes of the
firmware's variables:

| theorem | says |
|---|---|
| `DataFitsFrom` | the size from which a disk can be installed is `MinimumDiskSize` and what the GPT takes |
| `SmallestDiskFails` | so a disk of `MinimumDiskSize` is let pass and then fails, whatever the GPT takes |
| `OptionIsReadBack` | for every label, path, partition, GUID and range of blocks: the firmware boots what the load option was made for, and we find our label |
| `OnlyOursFound` | whatever bytes an entry has, it counts as ours exactly if its description is our label |
| `OrderIsReadBack` | a BootOrder of any length is read as it was written |
| `VariablesReadBack` | `Spec => []LoadOptionReadsBack` |

What `OptionIsReadBack` assumes is that strings have no zero in them, that numbers are below
2^31, and that the device path is shorter than 2^16 bytes, its length being a
field of 16 bits; the code does not check this, and writes a path of some twenty characters. The
proof puts every field at its offset (`HardDriveIs`, `FilePathIs`, `OptionParts`), and shows
that the walk of the firmware goes from one node to the next (`WalkStep`, `WalkOfThree`).
Numbers and strings are read as they were written (`ReadUint32`, `BeginsDecodes`); the other direction,
that bytes which decode to the label are those we write, is `DecodedBegins`.

### Lists and recursion

The library's induction theorems take an operator, which the provers cannot instantiate.
`SeqProofs` does without: `Least` (a set of numbers that is not empty has a least one) gives
induction in terms of a *set* (`UpTo`, `SeqInduction`), and from it that a recursive function
exists and is what its definition says (`Recursion`, `RecursionTyped`). With them it shows what
`Without` leaves of a list, and the other modules what FlattenSeq, `Walk`, `Sections`
and `Unpacks` compute for every input.

### Only model-checked

All liveness (fairness and ENABLED are beyond the prover): `NobodyWaitsForever`,
`PowerRequestHonoured`, `RequestsAnswered`, `EventuallyBoots`, `LostRecovers`,
`PrintReturns` and `BuildEnds`. And the five properties that do not hold, by their nature.

## 5. Findings

Five runs are expected to fail; each shows a line of the repository that the code
does not keep. They are listed with their quotations in `PROJECT.json`.

* `node_quiet`: Stop may give up on a `Run` busy with a bootstrap, which then starts its
  workload while the volumes are being unmounted (`stop.go:28`, `root.go:182`).
* `supervisor_torn`: `PersistMode` renames a file it never synced (`state.go:32-35`).
* `install_stale`: on a disk that was installed before, the old marker is valid
  between the new table and the wipe of META (`install.go:8-17`).
* `lease_reconfigure`: a configuration that failed to apply is recorded as current and
  not tried again at the next renewal (`network.go:416-420`).
* `disk_minimum`: the smallest disk that `CheckMinimumSize` lets pass is partitioned and
  then refused by mkfs.xfs (`disk.go:63-77`).

Smaller divergences met on the way, which no run is spent on:

* A mode that `Bootstrap` refuses (`ErrModeNotImplemented`) or cannot start has been persisted
  already, and every later boot tries to recover it (`supervisor.go:112-121`;
  `root.go:109-111` speaks of "a successful Mode").
* An entry whose BootOrder was never written is not found by the next
  `EnsureBootEntry`, which adds a second one (`efi.go:404-406`); BootOrder lists only that one.
* An entry of ours that cannot be read, for the time being, is passed over
  (`efi.go:341-343`): the call takes a new number, and the old one stays in BootOrder behind
  it, with our label and the partition of an earlier installation, for good
  (`efi.go:326-329` and `404-406` speak of no duplicates). `OursFirstOnce` shows that this is
  the only way BootOrder comes to list us twice.
* An `apply` that fails after it has added the address (an ACK without DNS servers is
  enough, `network.go:184`) leaves the address on when the lease is dropped.
* A failed unmount of the ESP is only printed (`install.go:253`); the marker may then reach
  the disk before the boot files. `MarkerMeansComplete` excuses it through `espBusy`.
* `Fatal` writes through `io.MultiWriter`, so the reason misses the second console if the
  first one fails (`console.go:223`).
* A console that blocks, unlike one that fails, stops `drain` and with it everybody who
  prints (`console.go:133-148`).
* `checksums.txt` is cached under one name for all releases: a build of another release
  than the one before fails at its checksum until somebody deletes it (`fetch.go:35`).
* A download that is killed leaves a file which every later build takes for complete
  and refuses, although `fetch.go:83-88` is there to prevent it; that code only runs when
  the download fails, not when the build is killed.
* A tag may name two builds (a dirty tree keeps its tag): a medium copied away after the
  first one then pulls the second, not "this exact build" (`install.go:174-178`).
* A file of 4 GiB or more passes the size check of the initramfs writer, whose two sides
  have both wrapped (`cpio.go:155`), and the archive behind it cannot be read.

## 6. What is left out, and why

* `Signal`, `Kill` and `Wait` failing in `stop`: nobody else waits on the process, so it can
  always be signalled. `ctx` of `Run` and `maintain` is never cancelled on a node.
* 413 is folded into 400; the texts of answers and logs are not modelled.
* The page cache and XFS are external: `onDisk`, `espOnDisk` and `metaOnDisk` are sets of what a
  loss of power may leave, shrunk by sync, unmount and fsync.
* A server that fails by itself (`srv = "failed"`) does not close its connections, so a
  handler may be answered after the sync; `AcknowledgedSurvives` excludes it and
  `PowerRequestHonoured` allows the `console.Fatal` it may end in.
* A DHCP exchange takes no time (it is bounded by 15 s, half a unit).
* `runInitialize` before the console exists and the pseudo file systems: straight-line
  code with no state of its own, fatal at the first error. `FindSystemDisk`,
  `ListNonRemovableDisks` and `ReadLayout` only read. `parttype`, `paths` and `version` are
  constants.
* crane, archiver, systemd's stub, the compiler, xorriso and mtools are external: they do
  their work or fail. Nothing is written behind the end marker of an image's tar stream.
* Two builds at once: they share `/tmp/invarios-build`, and nothing in the code expects it.
* In the formats: modes, inode numbers and the order of the archive, descriptive fields
  of the PE headers, the immutable bit of efivarfs.
* `Console` is not composed with `Node`: the power sequence's lines stand for any writer's.

## 7. Plan

Done so far: `Supervisor`, `Decision` and their proofs, `Node`, `BootEntry`, `Install`, `Lease`,
`Console`, in that order, the workload and its file being what the system is for; the
proofs of `NodeProofs`; then the sizes of `Disk`, the bytes of `LoadOption`, the build
(`Build`, `Extract`, `Cpio`, `Pe`), `FormatProofs`, `LeaseProofs` and `BuildProofs`, and
module `Installation` with its refinement.

Then the proofs of the rest of what the runs check: `AnsweredBeforeStop` and
`AcknowledgedSurvives` of `Node`, `InstallProofs` with the refinement of `Installation`,
`ConsoleProofs`, and the formats for every input.

What could follow:

* a specification of the console that says only what reaches which console, with
  `Console` as its refinement, like `Installation` for `Install`;
* the pull inside a build (`Extract`): that both goroutines end holding nothing is part of
  `ImageIsWhole` today, and could be a theorem of its own for images of any length;
* the steps on the way to the liveness properties that are plain safety: what each
  waiting call waits for, and that somebody is in a state to give it.

## 8. Running it

```
tlc -workers 2 -config MCSupervisor.cfg MCSupervisor.tla
tlc -workers 2 -config MCNode.cfg MCNode.tla
tlapm SupervisorProofs.tla
tlc -workers 2 -config MCInstall.cfg MCInstall.tla
tlc -workers 2 -config MCBuild.cfg MCBuild.tla
tlapm NodeProofs.tla
tlapm LeaseProofs.tla
tlapm BuildProofs.tla
tlapm InstallProofs.tla
tlapm ConsoleProofs.tla
tlapm SeqProofs.tla
tlapm FormatProofs.tla
```

Each `.cfg` names the bounds; the module each one belongs to is in `PROJECT.json`. Deadlock is
reported in `Supervisor` and `Lease`; it is switched off where the system really stops: a
node that is down, an installation that is out of runs, the last build, a machine that
hangs in Fatal.
