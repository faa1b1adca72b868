-------------------------------- MODULE Install --------------------------------
(***************************************************************************)
(* The Install sequence (internal/install, internal/disk, internal/meta)   *)
(* and the check that decides, on every boot, between it and runBoot: the  *)
(* GPT table, the three filesystems, the boot files on the ESP, META's     *)
(* two-copy marker, and the firmware's NVRAM through module BootEntry.     *)
(*                                                                         *)
(* Each run of Install lays out a table of its own, with fresh partition   *)
(* GUIDs at the same places: tables are numbered by the run that wrote     *)
(* them, and so is everything made for them.  0 stands for nothing usable. *)
(***************************************************************************)
EXTENDS Disk, FiniteSets

CONSTANTS
  Num, Vendor, Missing, None,   \* see module BootEntry
  Sizes,           \* the disks it is tried on
  MaxFaults,       \* bound: failures, losses of power and misread tables
  MaxRuns          \* bound: runs of Install that get to partition the disk

Runs == 1 .. MaxRuns

ASSUME InstallAssumption ==
  /\ MaxFaults \in Nat /\ MaxRuns \in Nat /\ MaxRuns > MaxFaults
  /\ Sizes \subseteq Nat
  /\ Num \subseteq Nat /\ IsFiniteSet(Num)
  /\ Vendor \notin Runs /\ Missing \notin Runs /\ Vendor # Missing

VARIABLES
  entry, order, ensure, seen, unread, num, target,
  pc,           \* the step PID 1 is at
  this,         \* the run of Install in progress, or the last one
  table,        \* the GPT table on the disk
  fs,           \* the table each filesystem was made for
  esp,          \* the boot files the mounted ESP shows
  espOnDisk,    \* the boot files a loss of power may leave
  espBusy,      \* the unmount of this run's ESP failed, which was only printed
  meta,         \* the two copies of the marker, as read back
  metaOnDisk,   \* the two copies a loss of power may leave
  loader,       \* LoaderEntryDefault has been set
  size,         \* of the disk
  faults

B == INSTANCE BootEntry WITH Target <- Runs

nvramVars == <<entry, order, ensure, seen, unread, num, target>>
espVars   == <<esp, espOnDisk, espBusy>>
metaVars  == <<meta, metaOnDisk>>
vars == <<nvramVars, pc, this, table, fs, espVars, metaVars, loader, size, faults>>

Volume == {"ESP", "STATE", "DATA"}

Step == {"detect", "prepare", "partition", "wait", "wipe", "wipeSync",
         "writeESP", "unmountESP", "setDefault", "ensure", "init", "initSync",
         "sync", "reboot"} \cup Volume

Files == {"none", "some", "all"}

Marker == (0..MaxRuns) \X (0..MaxRuns)

TypeOK ==
  /\ B!TypeOK
  /\ pc \in Step \cup {"boot", "booted", "fatal"}
  /\ this \in 0..MaxRuns /\ table \in 0..MaxRuns
  /\ fs \in [Volume -> 0..MaxRuns]
  /\ esp \in Files /\ espOnDisk \in SUBSET Files /\ espBusy \in BOOLEAN
  /\ meta \in Marker /\ metaOnDisk \in SUBSET Marker
  /\ loader \in BOOLEAN
  /\ size \in Sizes
  /\ faults \in 0..MaxFaults

\* A blank disk in a machine whose firmware lists what its vendor put there.
Init ==
  /\ B!Init
  /\ pc = "detect" /\ this = 0
  /\ table = 0 /\ fs = [v \in Volume |-> 0]
  /\ esp = "none" /\ espOnDisk = {"none"} /\ espBusy = FALSE
  /\ meta = <<0, 0>> /\ metaOnDisk = {<<0, 0>>}
  /\ loader = FALSE
  /\ size \in Sizes
  /\ faults = 0

-------------------------------------------------------------------------------
(***************************************************************************)
(* disk.IsInstalled: the four names are in the table and either copy of    *)
(* the ADV passes its checksum.  A table that cannot be read counts as not *)
(* installed.                                                              *)
(***************************************************************************)
Valid(m) == m[1] # 0 \/ m[2] # 0

NamesOnly == table # 0
IsInstalled == table # 0 /\ Valid(meta)

Detect ==
  /\ pc = "detect"
  /\ pc' = IF IsInstalled THEN "boot" ELSE "prepare"
  /\ UNCHANGED <<nvramVars, this, table, fs, espVars, metaVars, loader, faults>>

Fault == faults < MaxFaults /\ faults' = faults + 1

MisreadTable ==
  /\ pc = "detect" /\ Fault
  /\ pc' = "prepare"
  /\ UNCHANGED <<nvramVars, this, table, fs, espVars, metaVars, loader>>

-------------------------------------------------------------------------------
(***************************************************************************)
(* install.Run.                                                            *)
(***************************************************************************)
Advance(from, to) == pc = from /\ pc' = to

\* CheckMinimumSize, network and boot artifact before anything is written, and
\* WaitForPartition, which polls for META's device node, change nothing.
Quietly ==
  /\ \/ Advance("prepare", "partition") /\ this < MaxRuns /\ ~TooSmall(size)
     \/ Advance("wait", "wipe")
  /\ UNCHANGED <<nvramVars, this, table, fs, espVars, metaVars, loader, faults>>

\* table.Write is durable when it returns.
Partition ==
  /\ Advance("partition", "wait")
  /\ this' = this + 1 /\ table' = this + 1
  /\ UNCHANGED <<nvramVars, fs, espVars, metaVars, loader, faults>>

\* writeAt0: until the fsync, each copy on the disk is the old one, the new one,
\* or cut in the middle of its checksummed block.
HalfWritten(v) == {0, v, meta[1]} \X {0, v, meta[2]}

WriteOneCopy(from, to, v) ==
  /\ Advance(from, to)
  /\ meta' = <<v>>
  /\ metaOnDisk' = {<<v>>}
  /\ UNCHANGED <<nvramVars, this, table, fs, espVars, loader, faults>>

WriteMeta(from, to, v) ==
  /\ Advance(from, to)
  /\ meta' = <<v, v>>
  /\ metaOnDisk' = HalfWritten(v)
  /\ UNCHANGED <<nvramVars, this, table, fs, espVars, loader, faults>>

SyncMeta(from, to) ==
  /\ Advance(from, to)
  /\ metaOnDisk' = {meta}
  /\ UNCHANGED <<nvramVars, this, table, fs, espVars, meta, loader, faults>>

WipeNothing ==
  /\ Advance("wipe", "wipeSync")
  /\ UNCHANGED <<nvramVars, this, table, fs, espVars, metaVars, loader, faults>>

Wipe == WriteMeta("wipe", "wipeSync", 0)

WipeUnsynced ==
  /\ Advance("wipeSync", "ESP")
  /\ UNCHANGED <<nvramVars, this, table, fs, espVars, metaVars, loader, faults>>

WipeSync == SyncMeta("wipeSync", "ESP")

\* disk.Format makes the filesystems one after the other; the step that makes one
\* is named after it.  mkfs has written everything when it exits.
Format(v, to) ==
  /\ Advance(v, to)
  /\ fs' = [fs EXCEPT ![v] = table]
  /\ IF v = "ESP"
       THEN esp' = "none" /\ espOnDisk' = {"none"} /\ espBusy' = FALSE
       ELSE UNCHANGED espVars
  /\ UNCHANGED <<nvramVars, this, table, metaVars, loader, faults>>

FormatAll ==
  \/ Format("ESP", "STATE") \/ Format("STATE", "DATA")
  \/ Format("DATA", "writeESP") /\ DataFits(size)

\* The two places where the size of the disk decides.
Refused ==
  /\ \/ Advance("prepare", "fatal") /\ TooSmall(size) /\ UNCHANGED fs
     \/ Advance("DATA", "fatal") /\ ~DataFits(size) /\ fs' = [fs EXCEPT !["DATA"] = 0]
  /\ UNCHANGED <<nvramVars, this, table, espVars, metaVars, loader, faults>>

\* UKI, sd-boot and loader.conf, through the page cache.
WriteFiles ==
  /\ Advance("writeESP", "unmountESP")
  /\ esp' = "all" /\ espOnDisk' = Files
  /\ UNCHANGED <<nvramVars, this, table, fs, espBusy, metaVars, loader, faults>>

\* The deferred unmount writes the files back; if it fails that is only printed.
UnmountESP ==
  /\ Advance("unmountESP", "setDefault")
  /\ espOnDisk' = {esp}
  /\ UNCHANGED <<nvramVars, this, table, fs, esp, espBusy, metaVars, loader, faults>>

UnmountFails ==
  /\ Advance("unmountESP", "setDefault") /\ Fault
  /\ espBusy' = TRUE
  /\ UNCHANGED <<nvramVars, this, table, fs, esp, espOnDisk, metaVars, loader>>

SetDefault ==
  /\ Advance("setDefault", "ensure")
  /\ loader' = TRUE
  /\ UNCHANGED <<nvramVars, this, table, fs, espVars, metaVars, faults>>

EnsureCall ==
  B!Choose(this, {}) \/ B!WriteEntry \/ B!WriteOrder

EnsureIgnoresErrors ==
  /\ pc = "ensure"
  /\ \/ EnsureCall /\ UNCHANGED pc
     \/ ensure \in {"done", "failed"} /\ B!Return /\ pc' = "init"
  /\ UNCHANGED <<this, table, fs, espVars, metaVars, loader, faults>>

EnsureBootEntry ==
  /\ pc = "ensure"
  /\ \/ EnsureCall /\ UNCHANGED pc
     \/ ensure = "done" /\ B!Return /\ pc' = "init"
     \/ ensure = "failed" /\ B!Return /\ pc' = "fatal"
  /\ UNCHANGED <<this, table, fs, espVars, metaVars, loader, faults>>

MarkInstalled == WriteMeta("init", "initSync", this)
MarkSync == SyncMeta("initSync", "sync")

\* power.Do: sync(2) writes back what the ESP's unmount may not have.
DoSync ==
  /\ Advance("sync", "reboot")
  /\ espOnDisk' = {esp}
  /\ UNCHANGED <<nvramVars, this, table, fs, esp, espBusy, metaVars, loader, faults>>

RunInstall ==
  \/ Quietly \/ Partition \/ Wipe \/ WipeSync \/ FormatAll \/ WriteFiles \/ UnmountESP
  \/ SetDefault \/ EnsureBootEntry \/ MarkInstalled \/ MarkSync \/ DoSync \/ Refused

\* runBoot begins with mount.Volumes, which needs both XFS filesystems.
MountVolumes ==
  /\ pc = "boot"
  /\ pc' = IF fs["STATE"] # 0 /\ fs["DATA"] # 0 THEN "booted" ELSE "fatal"
  /\ UNCHANGED <<nvramVars, this, table, fs, espVars, metaVars, loader, faults>>

-------------------------------------------------------------------------------
(***************************************************************************)
(* What goes wrong.  A step that fails is reported by console.Fatal, which *)
(* hangs until somebody cycles the power.  A failing table.Write or mkfs   *)
(* may leave nothing usable behind, a failing writeAt0 any part of its     *)
(* buffer.                                                                 *)
(***************************************************************************)
StepFails ==
  /\ pc \in Step \ {"unmountESP", "ensure"} /\ Fault
  /\ pc' = "fatal"
  /\ this' = IF pc = "partition" THEN this + 1 ELSE this
  /\ table' \in IF pc = "partition" THEN {0, table, this + 1} ELSE {table}
  /\ fs' = [v \in Volume |-> IF pc = v THEN 0 ELSE fs[v]]
  /\ IF pc = "writeESP"
       THEN esp' \in Files /\ espOnDisk' = Files /\ UNCHANGED espBusy
       ELSE UNCHANGED espVars
  /\ IF pc \in {"wipe", "init"}
       THEN /\ meta' \in HalfWritten(IF pc = "wipe" THEN 0 ELSE this)
            /\ metaOnDisk' = HalfWritten(IF pc = "wipe" THEN 0 ELSE this)
       ELSE UNCHANGED metaVars
  /\ UNCHANGED <<nvramVars, loader>>

EnsureFails ==
  /\ pc = "ensure" /\ Fault
  /\ B!Fails
  /\ UNCHANGED <<pc, this, table, fs, espVars, metaVars, loader>>

\* An entry of ours that cannot be read is skipped (efi.go:341-343).
EnsureMisreads ==
  /\ pc = "ensure" /\ Fault
  /\ \E u \in SUBSET B!OursListed \ {{}} : B!Choose(this, u)
  /\ UNCHANGED <<pc, this, table, fs, espVars, metaVars, loader>>

\* The next start finds what reached the disk and the NVRAM.
Start ==
  /\ pc' = "detect"
  /\ \E e \in espOnDisk : esp' = e /\ espOnDisk' = {e}
  /\ \E m \in metaOnDisk : meta' = m /\ metaOnDisk' = {m}
  /\ ensure' = "idle" /\ seen' = <<>> /\ unread' = {} /\ num' = None /\ target' = None
  /\ UNCHANGED <<entry, order, this, table, fs, espBusy, loader>>

PowerLoss == pc \notin {"fatal", "booted"} /\ Fault /\ Start

\* Of a machine that hangs, or of one that is up (see module Node).
PowerCycle == pc \in {"fatal", "booted"} /\ Start /\ UNCHANGED faults

Reboot == pc = "reboot" /\ Start /\ UNCHANGED faults

\* What happens when nothing goes wrong, or has gone wrong.
Works ==
  Detect \/ MountVolumes \/ RunInstall \/ PowerCycle \/ Reboot

Next ==
  /\ Works \/ MisreadTable \/ UnmountFails \/ StepFails \/ EnsureFails \/ EnsureMisreads
     \/ PowerLoss
  /\ UNCHANGED size

Spec == Init /\ [][Next]_vars

\* The machine runs, and somebody cycles the power of one that hangs.
FairSpec == Spec /\ WF_vars(Works /\ UNCHANGED size)

-------------------------------------------------------------------------------
\* What the firmware boots is this installation, from its own ESP.
BootsTable ==
  /\ order # <<>> /\ entry[order[1]] = table
  /\ loader

Complete ==
  /\ \A v \in Volume : fs[v] = table
  /\ espBusy \/ espOnDisk = {"all"}
  /\ BootsTable

OwnMarker == table # 0 /\ (meta[1] = table \/ meta[2] = table)

\* Whatever fails and whenever power is lost, a marker that was written for the
\* table now on the disk means that its filesystems are made, that its boot files
\* are on the disk (unless the ESP could not be unmounted, see the README) and
\* that the firmware boots it (meta.go:31-34).  When the machine reboots into it
\* the boot files are there even if the ESP could not be unmounted.
MarkerMeansComplete ==
  /\ OwnMarker => Complete
  /\ pc = "reboot" => espOnDisk = {"all"}

\* From the first mkfs to the last step no loss of power can leave a marker,
\* not even in one copy: the wipe is on the disk before anything of an earlier
\* installation is touched (install.go:108-111, meta.go:49-56).
MidwayIsUnmarked ==
  (\E v \in Volume : fs[v] \in {0, table}) /\ ~Complete =>
    \A m \in metaOnDisk : ~Valid(m)

\* Once failures stop, the machine gets to a running node if its disk is big
\* enough and its firmware has room for the entries that failures may orphan: no
\* state of the disk or the NVRAM that they leave behind stops Install, or boots
\* into a disk that runBoot can never mount (disk.go:184-194).
Roomy == Cardinality(B!Free(order)) > MaxFaults
EventuallyBoots == DataFits(size) /\ Roomy => <>(pc = "booted")

\* Install and loss of power do to the disk only what module Installation allows:
\* a whole installation appears in one step, where nothing was to be found, and
\* only a new table takes it away (install.go:8-17, meta.go:31-34).
Found(m) ==
  IF table = 0 \/ ~Valid(m) THEN "nothing"
  ELSE IF table \in {m[1], m[2]} /\ Complete THEN "whole" ELSE "leftover"

I == INSTANCE Installation WITH finds <- {Found(m) : m \in metaOnDisk}

ImplementsInstallation == I!Spec

\* What install.go:8-17 and disk.go:191-194 promise: if Install did not get to
\* its last step, the next boot does not read "installed".
FailedInstallRunsAgain == pc = "boot" => OwnMarker

\* What disk.go:63-66 says of MinimumDiskSize: "A disk this size installs
\* successfully".  With a number left for its boot entry, and nothing failing,
\* no disk that CheckMinimumSize lets pass ends in console.Fatal.
MinimumInstalls ==
  ~TooSmall(size) /\ faults = 0 /\ B!Free(order) # {} => pc # "fatal"

\* The properties of module BootEntry, of EnsureBootEntry as Install calls it.
OursFirstOnce    == B!OursFirstOnce
VendorsUntouched == B!VendorsUntouched

===============================================================================
