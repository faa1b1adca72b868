----------------------------- MODULE InstallProofs -----------------------------
(***************************************************************************)
(* The safety of the Install sequence for every number of runs, failures   *)
(* and losses of power, every disk size and every NVRAM: a marker means a  *)
(* whole installation, no loss of power in the middle leaves one, the      *)
(* firmware boots the new installation first and keeps the vendor's        *)
(* entries, and all of it implements module Installation.                  *)
(***************************************************************************)
EXTENDS Install, SeqProofs

\* At these steps the wipe is on the disk and the marker is not yet written.
Erased ==
  {"ESP", "STATE", "DATA", "writeESP", "unmountESP", "setDefault", "ensure", "init"}
\* At these the filesystems are made.
Made ==
  {"writeESP", "unmountESP", "setDefault", "ensure", "init", "initSync", "sync", "reboot"}
\* At these the table on the disk is this run's.
Late == {"wait", "wipe", "wipeSync"} \cup Erased \cup Made

\* The bounds.
CountInv ==
  /\ size \in Sizes
  /\ faults \in 0..MaxFaults

\* Nothing on the disk is newer than the last table that was written.
FreshInv ==
  /\ pc \in Step \cup {"boot", "booted", "fatal"}
  /\ this \in 0..MaxRuns /\ table \in 0..this
  /\ pc = "partition" => this < MaxRuns
  /\ pc \in Late => table = this /\ this # 0
  /\ fs \in [Volume -> 0..this]
  /\ meta \in (0..this) \X (0..this)
  /\ metaOnDisk \subseteq (0..this) \X (0..this)

\* The two copies of the marker: what may be on the disk is one state except
\* between a write and its fsync, or after a failed one; there is no marker from
\* the wipe to the last step, and none for the new table before it.
MetaInv ==
  /\ meta \in metaOnDisk
  /\ pc \notin {"wipeSync", "initSync", "fatal"} => metaOnDisk = {meta}
  /\ pc \in Erased \cup {"wipeSync"} => meta = <<0, 0>>
  /\ pc \in {"wait", "wipe", "wipeSync"} =>
       /\ \A v \in Volume : fs[v] # table
       /\ \A m \in metaOnDisk : table \notin {m[1], m[2]}

\* The boot files: in the page cache once written, on the disk once the ESP is
\* unmounted, or else by the reboot.
FilesInv ==
  /\ esp \in Files /\ espOnDisk \in SUBSET Files /\ espBusy \in BOOLEAN
  /\ pc \in Made \ {"writeESP"} => esp = "all"
  /\ pc \in Made \ {"writeESP", "unmountESP"} => espBusy \/ espOnDisk = {"all"}
  /\ pc = "reboot" => espOnDisk = {"all"}

\* What is made by each step, for this table.
MadeInv ==
  /\ pc \in Made \cup {"STATE", "DATA"} => fs["ESP"] = table
  /\ pc \in Made \cup {"DATA"} => fs["STATE"] = table
  /\ pc \in Made => fs["DATA"] = table
  /\ loader \in BOOLEAN
  /\ pc \in Made \ {"writeESP", "unmountESP", "setDefault"} => loader
  /\ pc \in {"init", "initSync", "sync", "reboot"} => BootsTable

\* A filesystem that is broken, or new on a disk that is not complete, means that
\* no copy holds a marker.
UnmarkedInv ==
  \A v \in Volume : fs[v] = 0 \/ (fs[v] = table /\ ~Complete) =>
    \A m \in metaOnDisk : ~Valid(m)

\* A marker for this table in any state a loss of power may leave means that the
\* installation is complete.
MarkedInv ==
  \A m \in metaOnDisk : table # 0 /\ table \in {m[1], m[2]} => Complete

DiskInv == CountInv /\ FreshInv /\ MetaInv /\ FilesInv /\ MadeInv /\ UnmarkedInv /\ MarkedInv

\* BootOrder repeats nothing.
NvramInv ==
  /\ entry \in [Num -> Runs \cup {Vendor, Missing}]
  /\ order \in Seq(Num) /\ IsInjective(order)

\* What EnsureBootEntry has read is still so when it writes: the number it chose
\* is ours or free, and one that BootOrder does not list means that none of ours that
\* it lists could be read.
CallInv ==
  /\ ensure \in {"idle", "write", "order", "done", "failed"}
  /\ pc # "ensure" => B!NotCalled
  /\ ensure = "idle" => B!NotCalled
  /\ seen \in Seq(Num) /\ IsInjective(seen)
  /\ unread \in SUBSET Num
  /\ num \in Num \cup {None} /\ target \in Runs \cup {None}
  /\ ensure \in {"write", "order", "done"} => num \in Num /\ target \in Runs /\ target = this
  /\ ensure \in {"write", "order"} =>
       seen = order /\ (num \in ToSet(order) \/ B!OursListed \subseteq unread)
  /\ ensure = "write" => entry[num] # Vendor /\ (entry[num] = Missing => num \notin ToSet(order))
  /\ ensure \in {"order", "done"} => entry[num] = target
  /\ ensure = "done" => order # <<>> /\ Head(order) = num

IInv == DiskInv /\ NvramInv /\ CallInv

-------------------------------------------------------------------------------
\* The helpers that module BootEntry uses, as Install instantiates it, are those
\* the lemmas of SeqProofs speak of.
LEMMA SameWithout == \A s, X : B!Without(s, X) = Without(s, X)
  BY DEF B!Without, Without

\* Of the members of a list.
LEMMA SameToSet == \A s : B!ToSet(s) = ToSet(s)
  BY DEF B!ToSet, ToSet

\* Of lists without repetitions.
LEMMA SameInjective == \A s : B!IsInjective(s) = IsInjective(s)
  BY DEF B!IsInjective, IsInjective

\* Of the least member of a set.
LEMMA SameMin == \A T : B!Min(T) = Min(T)
  BY DEF B!Min, Min

\* Of the bounded lists of Init and of the type invariant.
LEMMA SameBounded == \A S, k : B!BoundedSeq(S, k) = BoundedSeq(S, k)
  BY DEF B!BoundedSeq, BoundedSeq, B!SeqOf, SeqOf

\* Of the number of members of a set, in both modules that are instantiated.
LEMMA SameCardinality ==
  \A S : B!Cardinality(S) = Cardinality(S) /\ I!Cardinality(S) = Cardinality(S)
BY DEF B!Cardinality, I!Cardinality, Cardinality

\* The entries of ours that BootOrder lists, now and after a step.
LEMMA OursListedDef ==
  /\ B!OursListed = {n \in ToSet(order) : entry[n] \in Runs}
  /\ B!OursListed' = {n \in ToSet(order') : entry'[n] \in Runs}
BY SameToSet DEF B!OursListed, B!Ours

-------------------------------------------------------------------------------
\* findByLabel and firstFreeNum choose a number that is ours, or one that is
\* neither present nor listed (efi.go:353-360, 411-425).
LEMMA ChooseKeeps ==
  ASSUME NvramInv, CallInv, this \in Runs, pc = "ensure", UNCHANGED <<pc, this>>,
         NEW u \in SUBSET B!OursListed, B!Choose(this, u)
  PROVE  NvramInv' /\ CallInv'
<1> DEFINE L == B!Labelled(order, u)
<1>1. NvramInv'
  BY DEF NvramInv, B!Choose, B!nvram
<1>2. /\ target' = this /\ seen' = order /\ unread' = u /\ entry' = entry /\ order' = order
      /\ ensure = "idle"
  BY DEF B!Choose, B!nvram
<1>3. /\ L = {i \in 1..Len(order) : entry[order[i]] \in Runs /\ order[i] \notin u}
      /\ L \subseteq Nat /\ u \in SUBSET Num
  BY OursListedDef DEF B!Labelled, B!Ours, NvramInv, ToSet
<1>4. L = {} => B!OursListed' \subseteq u
  BY <1>2, <1>3, OursListedDef DEF NvramInv, ToSet
<1> HIDE DEF L
<1>5. CASE L # {} /\ num' = order[B!Min(L)] /\ ensure' = "write"
  <2> DEFINE k == B!Min(L)
  <2>1. k \in L
    BY <1>3, <1>5, MinIn, SameMin
  <2> HIDE DEF k
  <2>2. order[k] \in Num /\ entry[order[k]] \in Runs /\ order[k] \in ToSet(order)
    BY <1>3, <2>1 DEF NvramInv, ToSet
  <2>3. num' \in Num /\ num' \in ToSet(order) /\ entry[num'] # Vendor /\ entry[num'] # Missing
    BY <1>5, <2>2, InstallAssumption DEF k
  <2> QED
    BY <1>2, <1>3, <1>5, <2>3 DEF CallInv, NvramInv
<1>6. CASE L = {} /\ B!Free(order) # {} /\ num' = B!Min(B!Free(order)) /\ ensure' = "write"
  <2>1. B!Free(order) = {n \in Num : entry[n] = Missing} \ ToSet(order)
    BY SameToSet DEF B!Free
  <2>2. B!Min(B!Free(order)) \in B!Free(order)
    BY <1>6, <2>1, MinIn, SameMin, InstallAssumption
  <2>3. num' \in Num /\ entry[num'] = Missing /\ num' \notin ToSet(order)
    BY <1>6, <2>1, <2>2
  <2> QED
    BY <1>2, <1>3, <1>4, <1>6, <2>3, InstallAssumption DEF CallInv, NvramInv
<1>7. CASE L = {} /\ B!Free(order) = {} /\ ensure' = "failed" /\ UNCHANGED num
  BY <1>2, <1>3, <1>7 DEF CallInv, NvramInv, B!NotCalled
<1> QED
  BY <1>1, <1>5, <1>6, <1>7 DEF B!Choose, L

\* The Boot#### variable it writes is one that was ours, or that BootOrder does not
\* list yet.
LEMMA WriteEntryKeeps ==
  ASSUME NvramInv, CallInv, pc = "ensure", UNCHANGED <<pc, this>>, B!WriteEntry
  PROVE  NvramInv' /\ CallInv' /\ B!OursListed' = B!OursListed
<1>1. /\ ensure = "write" /\ ensure' = "order" /\ entry' = [entry EXCEPT ![num] = target]
      /\ order' = order /\ seen' = seen /\ unread' = unread /\ num' = num /\ target' = target
      /\ num \in Num /\ target \in Runs /\ target = this
      /\ seen = order
  BY DEF B!WriteEntry, CallInv
<1>2. /\ entry' \in [Num -> Runs \cup {Vendor, Missing}]
      /\ entry'[num] = target /\ \A n \in Num \ {num} : entry'[n] = entry[n]
      /\ entry[num] \in Runs \cup {Vendor, Missing}
  BY <1>1 DEF NvramInv
<1>3. num \in ToSet(order) => entry[num] \in Runs
  BY <1>1, <1>2 DEF CallInv
<1>4. \A n \in ToSet(order) : n \in Num
  BY DEF NvramInv, ToSet
<1>5. B!OursListed' = B!OursListed
  BY <1>1, <1>2, <1>3, <1>4, OursListedDef
<1>6. NvramInv'
  BY <1>1, <1>2 DEF NvramInv
<1>7. CallInv'
  BY <1>1, <1>2, <1>5 DEF CallInv
<1> QED
  BY <1>5, <1>6, <1>7

\* The new BootOrder has the number in front and nowhere else; of ours it lists no
\* other that it did not list before.
LEMMA WriteOrderKeeps ==
  ASSUME NvramInv, CallInv, pc = "ensure", UNCHANGED <<pc, this>>, B!WriteOrder
  PROVE  /\ NvramInv' /\ CallInv'
         /\ \/ B!OursListed' \subseteq B!OursListed
            \/ B!OursListed \subseteq unread /\ B!OursListed' \subseteq B!OursListed \cup {num}
<1> DEFINE rest == Without(seen, {num})
<1>1. /\ ensure = "order" /\ ensure' = "done" /\ order' = <<num>> \o rest
      /\ entry' = entry /\ seen' = seen /\ unread' = unread /\ num' = num /\ target' = target
      /\ num \in Num /\ target \in Runs /\ target = this /\ entry[num] = target
      /\ seen = order /\ seen \in Seq(Num) /\ IsInjective(seen)
      /\ num \in ToSet(order) \/ B!OursListed \subseteq unread
  BY SameWithout DEF B!WriteOrder, B!NewOrder, CallInv
<1>2. rest \in Seq(Num) /\ IsInjective(rest) /\ ToSet(rest) = ToSet(order) \ {num}
  BY <1>1, WithoutType, WithoutInjective, WithoutMembers
<1> HIDE DEF rest
<1>3. /\ order' \in Seq(Num) /\ order' # <<>> /\ Head(order') = num
      /\ DOMAIN order' = 1..Len(rest) + 1 /\ Len(rest) \in Nat
      /\ order'[1] = num
      /\ \A i \in 2..Len(rest) + 1 : order'[i] = rest[i - 1] /\ rest[i - 1] \in ToSet(rest)
  BY <1>1, <1>2, ConsFacts
<1>4. IsInjective(order')
  BY <1>1, <1>2, ConsInjective
<1>5. \A n \in ToSet(order') : n = num \/ n \in ToSet(order)
  <2> SUFFICES ASSUME NEW i \in DOMAIN order' PROVE order'[i] = num \/ order'[i] \in ToSet(order)
    BY DEF ToSet
  <2>1. CASE i = 1
    BY <1>3, <2>1
  <2>2. CASE i # 1
    <3>1. i \in 2..Len(rest) + 1
      BY <1>3, <2>2
    <3> QED
      BY <1>2, <1>3, <3>1
  <2> QED
    BY <2>1, <2>2
<1>6. num \in ToSet(order) => B!OursListed' \subseteq B!OursListed
  BY <1>1, <1>5, OursListedDef
<1>7. B!OursListed' \subseteq B!OursListed \cup {num}
  BY <1>1, <1>5, OursListedDef
<1>8. NvramInv'
  BY <1>1, <1>3, <1>4 DEF NvramInv
<1>9. CallInv'
  BY <1>1, <1>3 DEF CallInv
<1> QED
  BY <1>1, <1>6, <1>7, <1>8, <1>9

\* A call that is over leaves no locals, and the NVRAM as it is.
LEMMA ReturnKeeps ==
  ASSUME NvramInv, CallInv, entry' = entry, order' = order, ensure' = "idle", seen' = <<>>,
         unread' = {}, num' = None, target' = None
  PROVE  NvramInv' /\ CallInv'
<1>1. B!NotCalled'
  BY DEF B!NotCalled
<1>2. NvramInv'
  BY DEF NvramInv
<1>3. CallInv'
  BY <1>1 DEF CallInv, IsInjective
<1> QED
  BY <1>2, <1>3

\* A call that fails leaves the NVRAM as it is.
LEMMA FailsKeeps ==
  ASSUME NvramInv, CallInv, pc = "ensure", UNCHANGED <<pc, this>>, B!Fails
  PROVE  NvramInv' /\ CallInv'
<1>1. /\ entry' = entry /\ order' = order /\ seen' = seen /\ unread' = unread
      /\ num' = num /\ target' = target /\ ensure' = "failed"
  BY DEF B!Fails, B!nvram
<1>2. NvramInv'
  BY <1>1 DEF NvramInv
<1>3. CallInv'
  BY <1>1 DEF CallInv
<1> QED
  BY <1>2, <1>3

\* No other step touches the NVRAM.
LEMMA UncalledKeeps ==
  ASSUME NvramInv, CallInv, pc # "ensure", UNCHANGED nvramVars
  PROVE  NvramInv' /\ CallInv'
<1>1. B!NotCalled'
  BY DEF CallInv, B!NotCalled, nvramVars
<1>2. NvramInv'
  BY DEF NvramInv, nvramVars
<1>3. CallInv'
  BY <1>1 DEF CallInv, B!NotCalled, nvramVars
<1> QED
  BY <1>2, <1>3

-------------------------------------------------------------------------------
\* Completeness is about these parts of the disk and the NVRAM.
LEMMA SameCompleteness ==
  ASSUME UNCHANGED <<table, fs, espBusy, espOnDisk, entry, order, loader>>
  PROVE  Complete' = Complete
BY DEF Complete, BootsTable

\* A step that makes no new copy of the marker, and takes nothing away from an
\* installation that is complete, keeps what the marker means.
LEMMA MarksKept ==
  ASSUME MarkedInv, UnmarkedInv, table' = table, fs' = fs, metaOnDisk' \subseteq metaOnDisk,
         Complete => Complete'
  PROVE  MarkedInv' /\ UnmarkedInv'
<1>1. MarkedInv'
  BY DEF MarkedInv
<1>2. UnmarkedInv'
  BY DEF UnmarkedInv, Valid
<1> QED
  BY <1>1, <1>2

\* While no copy holds a marker there is nothing to mean.
LEMMA NothingMarked ==
  ASSUME metaOnDisk' = {<<0, 0>>}
  PROVE  MarkedInv' /\ UnmarkedInv'
BY DEF MarkedInv, UnmarkedInv, Valid

\* The steps that change nothing but where PID 1 is.
LEMMA AdvanceKeeps ==
  ASSUME IInv, UNCHANGED <<nvramVars, this, table, fs, espVars, metaVars, loader, size>>,
         faults' \in 0..MaxFaults,
         \/ pc = "detect" /\ pc' \in {"boot", "prepare"}
         \/ Quietly
         \/ pc = "boot" /\ pc' \in {"booted", "fatal"}
         \/ Advance("prepare", "fatal")
  PROVE  DiskInv'
<1> USE DEF IInv, DiskInv, espVars, metaVars, Erased, Made, Late, Step, Volume
<1>1. CountInv'
  BY DEF CountInv
<1>2. FreshInv'
  BY DEF FreshInv, Quietly, Advance
<1>3. MetaInv'
  <2>1. CASE Advance("wait", "wipe")
    BY <2>1 DEF MetaInv, Advance
  <2>2. CASE pc \notin {"wipeSync", "initSync", "fatal"} /\ pc' \notin Late
    BY <2>2 DEF MetaInv
  <2> QED
    BY <2>1, <2>2 DEF Quietly, Advance
<1>4. FilesInv'
  BY DEF FilesInv, Quietly, Advance
<1>5. MadeInv'
  BY DEF MadeInv, Quietly, Advance
<1>6. MarkedInv' /\ UnmarkedInv'
  BY SameCompleteness, MarksKept DEF nvramVars
<1> QED
  BY <1>1, <1>2, <1>3, <1>4, <1>5, <1>6

\* A new table has GUIDs that nothing on the disk was made for.
LEMMA PartitionKeeps ==
  ASSUME IInv, Partition, size' = size
  PROVE  DiskInv'
<1> USE DEF IInv, DiskInv, espVars, metaVars, Erased, Made, Late, Step, Volume
<1>0. /\ pc = "partition" /\ pc' = "wait" /\ this' = this + 1 /\ table' = this + 1
      /\ fs' = fs /\ esp' = esp /\ espOnDisk' = espOnDisk /\ espBusy' = espBusy
      /\ meta' = meta /\ metaOnDisk' = metaOnDisk /\ loader' = loader /\ faults' = faults
  BY DEF Partition, Advance
<1>1. CountInv'
  BY <1>0 DEF CountInv
<1>2. FreshInv'
  BY <1>0, InstallAssumption DEF FreshInv
<1>3. MetaInv'
  <2>1. this \in Nat /\ \A v \in Volume : fs[v] \in 0..this
    BY InstallAssumption DEF FreshInv
  <2>2. \A m \in metaOnDisk : m[1] \in 0..this /\ m[2] \in 0..this
    BY DEF FreshInv
  <2> QED
    BY <1>0, <2>1, <2>2 DEF MetaInv
<1>4. FilesInv'
  BY <1>0 DEF FilesInv
<1>5. MadeInv'
  BY <1>0 DEF MadeInv
<1>6. MarkedInv'
  BY <1>0, <1>3 DEF MarkedInv, MetaInv
<1>7. UnmarkedInv'
  BY <1>0, <1>3 DEF UnmarkedInv, MetaInv, Valid
<1> QED
  BY <1>1, <1>2, <1>3, <1>4, <1>5, <1>6, <1>7

\* The wipe writes zeros, whatever of it reaches the disk.
LEMMA WipeKeeps ==
  ASSUME IInv, Wipe, size' = size
  PROVE  DiskInv'
<1> USE DEF IInv, DiskInv, espVars, metaVars, Erased, Made, Late, Step, Volume
<1>0. /\ pc = "wipe" /\ pc' = "wipeSync" /\ this' = this /\ table' = table
      /\ fs' = fs /\ esp' = esp /\ espOnDisk' = espOnDisk /\ espBusy' = espBusy
      /\ meta' = <<0, 0>> /\ metaOnDisk' = {0, meta[1]} \X {0, meta[2]}
      /\ loader' = loader /\ faults' = faults /\ UNCHANGED nvramVars
  BY DEF Wipe, WriteMeta, Advance, HalfWritten
<1>a. /\ this \in Nat /\ table = this /\ this # 0 /\ metaOnDisk = {meta}
      /\ meta \in (0..this) \X (0..this)
      /\ table # meta[1] /\ table # meta[2]
      /\ \A v \in Volume : fs[v] # table
  BY <1>0, InstallAssumption DEF FreshInv, MetaInv
<1>1. CountInv'
  BY <1>0 DEF CountInv
<1>2. FreshInv'
  BY <1>0, <1>a DEF FreshInv
<1>3. MetaInv'
  BY <1>0, <1>a DEF MetaInv
<1>4. FilesInv'
  BY <1>0 DEF FilesInv
<1>5. MadeInv'
  BY <1>0 DEF MadeInv
<1>6. MarkedInv'
  BY <1>0, <1>3 DEF MarkedInv, MetaInv
<1>7. UnmarkedInv'
  <2> SUFFICES ASSUME NEW v \in Volume, fs[v] = 0, NEW m \in metaOnDisk' PROVE ~Valid(m)
    BY <1>0, <1>a DEF UnmarkedInv, Valid
  <2>1. meta[1] = 0 /\ meta[2] = 0
    BY <1>a DEF UnmarkedInv, Valid
  <2> QED
    BY <1>0, <2>1 DEF Valid
<1> QED
  BY <1>1, <1>2, <1>3, <1>4, <1>5, <1>6, <1>7

\* An fsync leaves what is in the buffer.
LEMMA SyncKeeps ==
  ASSUME IInv, WipeSync \/ MarkSync, size' = size
  PROVE  DiskInv'
<1> USE DEF IInv, DiskInv, espVars, metaVars, Erased, Made, Late, Step, Volume
<1>0. /\ \/ pc = "wipeSync" /\ pc' = "ESP"
         \/ pc = "initSync" /\ pc' = "sync"
      /\ this' = this /\ table' = table
      /\ fs' = fs /\ esp' = esp /\ espOnDisk' = espOnDisk /\ espBusy' = espBusy
      /\ meta' = meta /\ metaOnDisk' = {meta}
      /\ loader' = loader /\ faults' = faults /\ UNCHANGED nvramVars
  BY DEF WipeSync, MarkSync, SyncMeta, Advance
<1>1. CountInv'
  BY <1>0 DEF CountInv
<1>2. FreshInv'
  BY <1>0 DEF FreshInv
<1>3. MetaInv'
  BY <1>0 DEF MetaInv
<1>4. FilesInv'
  BY <1>0 DEF FilesInv
<1>5. MadeInv'
  BY <1>0 DEF MadeInv, BootsTable, nvramVars
<1>6. MarkedInv' /\ UnmarkedInv'
  BY <1>0, SameCompleteness, MarksKept DEF nvramVars, MetaInv
<1> QED
  BY <1>1, <1>2, <1>3, <1>4, <1>5, <1>6

\* A filesystem is only made on a disk without a marker.
LEMMA FormatKeeps ==
  ASSUME IInv, FormatAll \/ (Refused /\ pc = "DATA"), size' = size
  PROVE  DiskInv'
<1> USE DEF IInv, DiskInv, espVars, metaVars, Erased, Made, Late, Step, Volume
<1>0. /\ \/ pc = "ESP" /\ pc' = "STATE" /\ fs' = [fs EXCEPT !["ESP"] = table]
         \/ pc = "STATE" /\ pc' = "DATA" /\ fs' = [fs EXCEPT !["STATE"] = table]
         \/ pc = "DATA" /\ pc' = "writeESP" /\ fs' = [fs EXCEPT !["DATA"] = table]
         \/ pc = "DATA" /\ pc' = "fatal" /\ fs' = [fs EXCEPT !["DATA"] = 0]
      /\ this' = this /\ table' = table
      /\ \/ esp' = "none" /\ espOnDisk' = {"none"} /\ espBusy' = FALSE
         \/ esp' = esp /\ espOnDisk' = espOnDisk /\ espBusy' = espBusy
      /\ meta' = meta /\ metaOnDisk' = metaOnDisk
      /\ loader' = loader /\ faults' = faults
  BY DEF FormatAll, Format, Refused, Advance
<1>a. table = this /\ this # 0 /\ metaOnDisk = {meta} /\ meta = <<0, 0>> /\ this \in Nat
  BY <1>0, InstallAssumption DEF FreshInv, MetaInv
<1>1. CountInv'
  BY <1>0 DEF CountInv
<1>2. FreshInv'
  BY <1>0, <1>a DEF FreshInv
<1>3. MetaInv'
  BY <1>0, <1>a DEF MetaInv
<1>4. FilesInv'
  BY <1>0 DEF FilesInv, Files
<1>5. MadeInv'
  BY <1>0 DEF MadeInv, FreshInv
<1>6. MarkedInv' /\ UnmarkedInv'
  BY <1>0, <1>a, NothingMarked
<1> QED
  BY <1>1, <1>2, <1>3, <1>4, <1>5, <1>6

\* The boot files, and the end of their way to the disk.
LEMMA FilesKeep ==
  ASSUME IInv, WriteFiles \/ UnmountESP \/ UnmountFails \/ SetDefault, size' = size
  PROVE  DiskInv'
<1> USE DEF IInv, DiskInv, espVars, metaVars, Erased, Made, Late, Step, Volume
<1>0. /\ \/ pc = "writeESP" /\ pc' = "unmountESP" /\ esp' = "all" /\ espOnDisk' = Files
            /\ espBusy' = espBusy /\ loader' = loader /\ faults' = faults
         \/ pc = "unmountESP" /\ pc' = "setDefault" /\ esp' = esp /\ espOnDisk' = {esp}
            /\ espBusy' = espBusy /\ loader' = loader /\ faults' = faults
         \/ pc = "unmountESP" /\ pc' = "setDefault" /\ esp' = esp /\ espOnDisk' = espOnDisk
            /\ espBusy' = TRUE /\ loader' = loader /\ faults < MaxFaults /\ faults' = faults + 1
         \/ pc = "setDefault" /\ pc' = "ensure" /\ esp' = esp /\ espOnDisk' = espOnDisk
            /\ espBusy' = espBusy /\ loader' = TRUE /\ faults' = faults
      /\ this' = this /\ table' = table /\ fs' = fs
      /\ meta' = meta /\ metaOnDisk' = metaOnDisk
  BY DEF WriteFiles, UnmountESP, UnmountFails, SetDefault, Advance, Fault
<1>1. CountInv'
  BY <1>0, InstallAssumption DEF CountInv
<1>2. FreshInv'
  BY <1>0 DEF FreshInv
<1>3. MetaInv'
  BY <1>0 DEF MetaInv
<1>4. FilesInv'
  BY <1>0 DEF FilesInv, Files
<1>5. MadeInv'
  BY <1>0 DEF MadeInv
<1>6. MarkedInv' /\ UnmarkedInv'
  BY <1>0, NothingMarked DEF MetaInv
<1> QED
  BY <1>1, <1>2, <1>3, <1>4, <1>5, <1>6

\* EnsureBootEntry changes nothing on the disk; when it succeeds the firmware
\* boots this table.
LEMMA EnsureKeepsDisk ==
  ASSUME IInv, pc = "ensure", UNCHANGED <<this, table, fs, espVars, metaVars, loader, size>>,
         faults' \in 0..MaxFaults, pc' \in {"ensure", "init", "fatal"},
         pc' = "init" => ensure = "done" /\ UNCHANGED <<entry, order>>
  PROVE  DiskInv'
<1> USE DEF IInv, DiskInv, espVars, metaVars, Erased, Made, Late, Step, Volume
<1>1. CountInv'
  BY DEF CountInv
<1>2. FreshInv'
  BY DEF FreshInv
<1>3. MetaInv'
  BY DEF MetaInv
<1>4. FilesInv'
  BY DEF FilesInv
<1>5. MadeInv'
  <2>1. pc' = "init" => BootsTable'
    <3> SUFFICES ASSUME pc' = "init" PROVE BootsTable'
      OBVIOUS
    <3>1. order # <<>> /\ Head(order) = num /\ entry[num] = this
      BY DEF CallInv
    <3>2. order[1] = num
      BY <3>1 DEF NvramInv
    <3> QED
      BY <3>1, <3>2 DEF BootsTable, MadeInv, FreshInv
  <2> QED
    BY <2>1 DEF MadeInv
<1>6. MarkedInv' /\ UnmarkedInv'
  BY NothingMarked DEF MetaInv
<1> QED
  BY <1>1, <1>2, <1>3, <1>4, <1>5, <1>6

\* The marker is written when everything else is done (install.go:8-17).
LEMMA CompleteAtInit ==
  ASSUME IInv, pc \in {"init", "initSync", "sync", "reboot"}
  PROVE  Complete
BY DEF IInv, DiskInv, Made, MadeInv, FilesInv, Complete, Volume

\* Of the marker too any part may reach the disk.
LEMMA MarkKeeps ==
  ASSUME IInv, MarkInstalled, size' = size
  PROVE  DiskInv'
<1> USE DEF IInv, DiskInv, espVars, metaVars, Erased, Made, Late, Step, Volume
<1>0. /\ pc = "init" /\ pc' = "initSync" /\ this' = this /\ table' = table
      /\ fs' = fs /\ esp' = esp /\ espOnDisk' = espOnDisk /\ espBusy' = espBusy
      /\ meta' = <<this, this>> /\ metaOnDisk' = {0, this, meta[1]} \X {0, this, meta[2]}
      /\ loader' = loader /\ faults' = faults /\ UNCHANGED nvramVars
  BY DEF MarkInstalled, WriteMeta, Advance, HalfWritten
<1>a. this \in Nat /\ table = this /\ this # 0 /\ meta = <<0, 0>>
  BY <1>0, InstallAssumption DEF FreshInv, MetaInv
<1>b. Complete'
  BY <1>0, CompleteAtInit, SameCompleteness DEF nvramVars
<1>1. CountInv'
  BY <1>0 DEF CountInv
<1>2. FreshInv'
  BY <1>0, <1>a DEF FreshInv
<1>3. MetaInv'
  BY <1>0, <1>a DEF MetaInv
<1>4. FilesInv'
  BY <1>0 DEF FilesInv
<1>5. MadeInv'
  BY <1>0 DEF MadeInv, BootsTable, nvramVars
<1>6. MarkedInv'
  BY <1>b DEF MarkedInv
<1>7. UnmarkedInv'
  <2>1. \A v \in Volume : fs'[v] = table' /\ table' # 0
    BY <1>0, <1>a DEF MadeInv
  <2> QED
    BY <1>b, <2>1 DEF UnmarkedInv
<1> QED
  BY <1>1, <1>2, <1>3, <1>4, <1>5, <1>6, <1>7

\* sync(2) writes back the boot files even if the ESP is still mounted.
LEMMA DoSyncKeeps ==
  ASSUME IInv, DoSync, size' = size
  PROVE  DiskInv'
<1> USE DEF IInv, DiskInv, espVars, metaVars, Erased, Made, Late, Step, Volume
<1>0. /\ pc = "sync" /\ pc' = "reboot" /\ this' = this /\ table' = table
      /\ fs' = fs /\ esp' = esp /\ espOnDisk' = {esp} /\ espBusy' = espBusy
      /\ meta' = meta /\ metaOnDisk' = metaOnDisk
      /\ loader' = loader /\ faults' = faults /\ UNCHANGED nvramVars
  BY DEF DoSync, Advance
<1>a. esp = "all"
  BY <1>0 DEF FilesInv
<1>1. CountInv'
  BY <1>0 DEF CountInv
<1>2. FreshInv'
  BY <1>0 DEF FreshInv
<1>3. MetaInv'
  BY <1>0 DEF MetaInv
<1>4. FilesInv'
  BY <1>0, <1>a DEF FilesInv
<1>5. MadeInv'
  BY <1>0 DEF MadeInv, BootsTable, nvramVars
<1>6. Complete => Complete'
  BY <1>0, <1>a DEF Complete, BootsTable, nvramVars
<1>7. MarkedInv' /\ UnmarkedInv'
  BY <1>0, <1>6, MarksKept
<1> QED
  BY <1>1, <1>2, <1>3, <1>4, <1>5, <1>7

\* A start finds one of the states that the disk may have been left in.
LEMMA StartKeeps ==
  ASSUME IInv, Start, faults' \in 0..MaxFaults, size' = size
  PROVE  IInv'
<1> USE DEF DiskInv, espVars, metaVars, Erased, Made, Late, Step, Volume
<1> DiskInv /\ NvramInv /\ CallInv
  BY DEF IInv
<1>0. PICK e \in espOnDisk, m \in metaOnDisk :
        /\ pc' = "detect" /\ this' = this /\ table' = table /\ fs' = fs
        /\ esp' = e /\ espOnDisk' = {e} /\ espBusy' = espBusy
        /\ meta' = m /\ metaOnDisk' = {m}
        /\ loader' = loader /\ entry' = entry /\ order' = order
  BY DEF Start
<1>1. CountInv'
  BY DEF CountInv
<1>2. FreshInv'
  BY <1>0 DEF FreshInv
<1>3. MetaInv'
  BY <1>0 DEF MetaInv
<1>4. FilesInv'
  BY <1>0 DEF FilesInv
<1>5. MadeInv'
  BY <1>0 DEF MadeInv
<1>6. Complete => Complete'
  BY <1>0 DEF Complete, BootsTable
<1>7. MarkedInv' /\ UnmarkedInv'
  BY <1>0, <1>6, MarksKept
<1>8. NvramInv' /\ CallInv'
  BY ReturnKeeps DEF Start
<1> QED
  BY <1>1, <1>2, <1>3, <1>4, <1>5, <1>7, <1>8 DEF IInv

\* A step that fails leaves behind any part of what it writes.
LEMMA StepFailsKeeps ==
  ASSUME IInv, StepFails, size' = size
  PROVE  IInv'
<1> USE DEF DiskInv, espVars, metaVars, Erased, Made, Late, Step, Volume
<1> DiskInv /\ NvramInv /\ CallInv
  BY DEF IInv
<1>0. /\ pc \in Step \ {"unmountESP", "ensure"} /\ pc' = "fatal"
      /\ faults < MaxFaults /\ faults' = faults + 1
      /\ loader' = loader /\ UNCHANGED nvramVars
  BY DEF StepFails, Fault
<1>a. this \in 0..MaxRuns /\ MaxRuns \in Nat /\ table \in 0..this
  BY InstallAssumption DEF FreshInv
<1>b. /\ this' = IF pc = "partition" THEN this + 1 ELSE this
      /\ pc # "partition" => table' = table
      /\ pc = "partition" => table' \in {0, table, this + 1}
  BY DEF StepFails
<1>c. fs' = [v \in Volume |-> IF pc = v THEN 0 ELSE fs[v]]
  BY DEF StepFails
<1>d. /\ pc = "writeESP" => esp' \in Files /\ espOnDisk' = Files /\ espBusy' = espBusy
      /\ pc # "writeESP" => UNCHANGED <<esp, espOnDisk, espBusy>>
  BY DEF StepFails
<1>e. /\ pc = "wipe" => meta' \in HalfWritten(0) /\ metaOnDisk' = HalfWritten(0)
      /\ pc = "init" => meta' \in HalfWritten(this) /\ metaOnDisk' = HalfWritten(this)
      /\ pc \notin {"wipe", "init"} => UNCHANGED <<meta, metaOnDisk>>
  BY DEF StepFails
<1>f. this' \in 0..MaxRuns /\ this \in 0..this' /\ table' \in 0..this'
  <2>1. CASE pc = "partition"
    BY <1>a, <1>b, <2>1 DEF FreshInv
  <2>2. CASE pc # "partition"
    BY <1>a, <1>b, <2>2
  <2> QED
    BY <2>1, <2>2
<1>g. meta[1] \in 0..this /\ meta[2] \in 0..this /\ meta = <<meta[1], meta[2]>>
  BY DEF FreshInv
<1>1. CountInv'
  BY <1>0, InstallAssumption DEF CountInv
<1>2. FreshInv'
  <2>1. fs' \in [Volume -> 0..this']
    <3>1. \A v \in Volume : fs[v] \in 0..this /\ fs[v] \in 0..this'
      BY <1>a, <1>f DEF FreshInv
    <3> QED
      BY <1>a, <1>c, <1>f, <3>1
  <2>2. metaOnDisk' \subseteq (0..this') \X (0..this')
    <3>1. CASE pc \in {"wipe", "init"}
      BY <1>a, <1>b, <1>e, <1>g, <3>1 DEF HalfWritten
    <3>2. CASE pc \notin {"wipe", "init"}
      BY <1>a, <1>e, <1>f, <3>2 DEF FreshInv
    <3> QED
      BY <3>1, <3>2
  <2>3. meta' \in metaOnDisk'
    BY <1>e DEF MetaInv
  <2> QED
    BY <1>0, <1>f, <2>1, <2>2, <2>3 DEF FreshInv
<1>3. MetaInv'
  BY <1>0, <1>e DEF MetaInv
<1>4. FilesInv'
  BY <1>0, <1>d DEF FilesInv, Files
<1>5. MadeInv'
  BY <1>0 DEF MadeInv
<1>6. MarkedInv' /\ UnmarkedInv'
  <2>1. CASE pc = "partition"
    <3>1. metaOnDisk' = metaOnDisk /\ fs' = fs /\ UNCHANGED <<esp, espOnDisk, espBusy>>
      BY <1>c, <1>d, <1>e, <2>1 DEF FreshInv
    <3>2. CASE table' = table
      BY <1>0, <3>1, <3>2, SameCompleteness, MarksKept DEF nvramVars
    <3>3. CASE table' = 0
      BY <3>1, <3>3 DEF MarkedInv, UnmarkedInv, Valid
    <3>4. CASE table' = this + 1
      <4>1. \A v \in Volume : fs'[v] # table'
        BY <1>a, <3>1, <3>4 DEF FreshInv
      <4>2. \A m \in metaOnDisk' : table' \notin {m[1], m[2]}
        BY <1>a, <3>1, <3>4 DEF FreshInv
      <4> QED
        BY <3>1, <4>1, <4>2 DEF MarkedInv, UnmarkedInv, Valid
    <3> QED
      BY <1>b, <2>1, <3>2, <3>3, <3>4
  <2>2. CASE pc = "wipe"
    <3>1. table' = table /\ fs' = fs /\ metaOnDisk' = {0, meta[1]} \X {0, meta[2]}
      BY <1>b, <1>c, <1>e, <2>2 DEF FreshInv, HalfWritten
    <3>2. table # meta[1] /\ table # meta[2] /\ \A v \in Volume : fs[v] # table
      BY <2>2 DEF MetaInv
    <3>3. MarkedInv'
      BY <3>1, <3>2 DEF MarkedInv
    <3>4. UnmarkedInv'
      <4> SUFFICES ASSUME NEW v \in Volume, fs[v] = 0, NEW m \in metaOnDisk' PROVE ~Valid(m)
        BY <3>1, <3>2 DEF UnmarkedInv, Valid
      <4>1. meta[1] = 0 /\ meta[2] = 0
        BY DEF UnmarkedInv, MetaInv, Valid
      <4> QED
        BY <3>1, <4>1 DEF Valid
    <3> QED
      BY <3>3, <3>4
  <2>3. CASE pc = "init"
    <3>1. /\ table' = table /\ fs' = fs /\ UNCHANGED <<esp, espOnDisk, espBusy>>
          /\ table # 0 /\ \A v \in Volume : fs[v] = table
      BY <1>a, <1>b, <1>c, <1>d, <2>3 DEF FreshInv, MadeInv
    <3>2. Complete'
      BY <1>0, <2>3, <3>1, CompleteAtInit, SameCompleteness DEF nvramVars, IInv
    <3> QED
      BY <3>1, <3>2 DEF MarkedInv, UnmarkedInv
  <2>4. CASE pc \in Volume \cup {"writeESP"}
    BY <1>e, <2>4, NothingMarked DEF MetaInv
  <2>5. CASE pc \notin Volume \cup {"partition", "wipe", "init", "writeESP"}
    <3>1. /\ table' = table /\ fs' = fs /\ UNCHANGED <<esp, espOnDisk, espBusy, metaOnDisk>>
      BY <1>b, <1>c, <1>d, <1>e, <2>5 DEF FreshInv
    <3> QED
      BY <1>0, <3>1, SameCompleteness, MarksKept DEF nvramVars
  <2> QED
    BY <2>1, <2>2, <2>3, <2>4, <2>5
<1>7. NvramInv' /\ CallInv'
  BY <1>0, UncalledKeeps
<1> QED
  BY <1>1, <1>2, <1>3, <1>4, <1>5, <1>6, <1>7 DEF IInv

\* EnsureBootEntry, one NVRAM write at a time, or an NVRAM access that fails.
LEMMA EnsureKeeps ==
  ASSUME IInv, EnsureBootEntry \/ EnsureFails \/ EnsureMisreads, size' = size
  PROVE  IInv'
<1> DiskInv /\ NvramInv /\ CallInv /\ MaxRuns \in Nat /\ MaxFaults \in Nat
  BY InstallAssumption DEF IInv
<1>0. pc = "ensure" /\ UNCHANGED <<this, table, fs, espVars, metaVars, loader>>
  BY DEF EnsureBootEntry, EnsureFails, EnsureMisreads
<1>1. faults' \in 0..MaxFaults
  BY DEF EnsureBootEntry, EnsureFails, EnsureMisreads, Fault, DiskInv, CountInv
<1>2. this \in Runs
  BY <1>0 DEF DiskInv, FreshInv, Late, Made, Runs
<1>3. CASE (\E u \in SUBSET B!OursListed : B!Choose(this, u)) /\ pc' = pc
  BY <1>0, <1>1, <1>2, <1>3, ChooseKeeps, EnsureKeepsDisk DEF IInv
<1>6. CASE (B!WriteEntry \/ B!WriteOrder) /\ pc' = pc
  BY <1>0, <1>1, <1>6, WriteEntryKeeps, WriteOrderKeeps, EnsureKeepsDisk DEF IInv
<1>4. CASE ensure \in {"done", "failed"} /\ B!Return
           /\ pc' = (IF ensure = "done" THEN "init" ELSE "fatal")
  <2>1. UNCHANGED <<entry, order>> /\ NvramInv' /\ CallInv'
    BY <1>4, ReturnKeeps DEF B!Return, B!nvram
  <2> QED
    BY <1>0, <1>1, <1>4, <2>1, EnsureKeepsDisk DEF IInv
<1>5. CASE B!Fails /\ pc' = pc
  BY <1>0, <1>1, <1>5, FailsKeeps, EnsureKeepsDisk DEF IInv
<1>7. EnsureCall => (\E u \in SUBSET B!OursListed : B!Choose(this, u)) \/ B!WriteEntry \/ B!WriteOrder
  BY DEF EnsureCall
<1> QED
  BY <1>3, <1>4, <1>5, <1>6, <1>7 DEF EnsureBootEntry, EnsureFails, EnsureMisreads

\* A blank disk in a machine with its vendor's NVRAM.
LEMMA InitInv == Init => IInv
<1> SUFFICES ASSUME Init PROVE IInv
  OBVIOUS
<1> MaxRuns \in Nat /\ MaxFaults \in Nat /\ Vendor \notin Runs /\ Missing \notin Runs
  BY InstallAssumption
<1>1. B!Init /\ B!NotCalled
  BY DEF Init, B!Init
<1>2. order \in Seq(Num) /\ IsInjective(order) /\ entry \in [Num -> {Vendor, Missing}]
  BY <1>1, SameBounded, SameInjective, InBoundedSeq DEF B!Init, B!Orders
<1>4. NvramInv
  BY <1>2 DEF NvramInv
<1>5. CallInv
  BY <1>1 DEF CallInv, B!NotCalled, IsInjective
<1>6. CountInv /\ FreshInv
  BY DEF Init, CountInv, FreshInv, Late, Made, Erased, Step, Volume
<1>7. MetaInv /\ FilesInv
  BY DEF Init, MetaInv, FilesInv, Late, Made, Erased, Files
<1>8. MadeInv
  BY DEF Init, MadeInv, Made
<1>9. UnmarkedInv /\ MarkedInv
  BY DEF Init, UnmarkedInv, MarkedInv, Valid
<1> QED
  BY <1>4, <1>5, <1>6, <1>7, <1>8, <1>9 DEF IInv, DiskInv

\* Every step, failure and loss of power keeps the invariant.
LEMMA StepInv == IInv /\ [Next]_vars => IInv'
<1> SUFFICES ASSUME IInv, Next PROVE IInv'
  <2>1. ASSUME IInv, vars' = vars PROVE IInv'
    <3>1. /\ UNCHANGED <<nvramVars, pc, this, table, fs, espVars, metaVars, loader, size, faults>>
          /\ DiskInv /\ NvramInv /\ CallInv
      BY <2>1 DEF vars, IInv
    <3>2. CountInv' /\ FreshInv' /\ MetaInv' /\ FilesInv'
      BY <3>1 DEF DiskInv, CountInv, FreshInv, MetaInv, FilesInv, espVars, metaVars
    <3>3. MadeInv'
      BY <3>1 DEF DiskInv, MadeInv, BootsTable, nvramVars
    <3>4. UnmarkedInv' /\ MarkedInv'
      BY <3>1, SameCompleteness, MarksKept DEF DiskInv, nvramVars, espVars, metaVars
    <3>5. NvramInv'
      BY <3>1 DEF NvramInv, nvramVars
    <3>6. CallInv'
      BY <3>1 DEF CallInv, nvramVars, B!NotCalled, B!OursListed, B!Ours
    <3> QED
      BY <3>2, <3>3, <3>4, <3>5, <3>6 DEF IInv, DiskInv
  <2> QED
    BY <2>1
<1>0. size' = size
  BY DEF Next
<1>a. DiskInv /\ NvramInv /\ CallInv /\ MaxFaults \in Nat
  BY InstallAssumption DEF IInv
<1>1. ASSUME Quietly \/ Detect \/ MisreadTable \/ MountVolumes \/ (Refused /\ pc # "DATA")
      PROVE  IInv'
  <2>1. /\ pc # "ensure"
        /\ UNCHANGED <<nvramVars, this, table, fs, espVars, metaVars, loader>>
        /\ \/ pc = "detect" /\ pc' \in {"boot", "prepare"}
           \/ Quietly
           \/ pc = "boot" /\ pc' \in {"booted", "fatal"}
           \/ Advance("prepare", "fatal")
    BY <1>1 DEF Quietly, Detect, MisreadTable, MountVolumes, Refused, Advance
  <2>2. faults' \in 0..MaxFaults
    BY <1>1, <1>a DEF Quietly, Detect, MisreadTable, MountVolumes, Refused, Fault, DiskInv, CountInv
  <2> QED
    BY <1>0, <1>a, <2>1, <2>2, AdvanceKeeps, UncalledKeeps DEF IInv
<1>3. ASSUME \/ Partition \/ Wipe \/ WipeSync \/ FormatAll \/ WriteFiles \/ UnmountESP
             \/ UnmountFails \/ SetDefault \/ MarkInstalled \/ MarkSync \/ DoSync
             \/ (Refused /\ pc = "DATA")
      PROVE  IInv'
  <2>1. pc # "ensure" /\ UNCHANGED nvramVars
    BY <1>3 DEF Partition, Wipe, WriteMeta, WipeSync, SyncMeta, FormatAll, Format, WriteFiles,
                UnmountESP, UnmountFails, SetDefault, MarkInstalled, MarkSync, DoSync, Refused,
                Advance
  <2>2. ASSUME Partition \/ Wipe \/ MarkInstalled \/ DoSync PROVE DiskInv'
    BY <1>0, <2>2, PartitionKeeps, WipeKeeps, MarkKeeps, DoSyncKeeps
  <2>3. ASSUME WipeSync \/ MarkSync PROVE DiskInv'
    BY <1>0, <2>3, SyncKeeps
  <2>4. ASSUME FormatAll \/ (Refused /\ pc = "DATA") PROVE DiskInv'
    BY <1>0, <2>4, FormatKeeps
  <2>5. ASSUME WriteFiles \/ UnmountESP \/ UnmountFails \/ SetDefault PROVE DiskInv'
    BY <1>0, <2>5, FilesKeep
  <2>6. DiskInv'
    BY <1>3, <2>2, <2>3, <2>4, <2>5
  <2> QED
    BY <1>a, <2>1, <2>6, UncalledKeeps DEF IInv
<1>4. ASSUME PowerLoss \/ PowerCycle \/ Reboot PROVE IInv'
  <2>1. Start /\ faults' \in 0..MaxFaults
    BY <1>a, <1>4 DEF PowerLoss, PowerCycle, Reboot, Fault, DiskInv, CountInv
  <2> QED
    BY <1>0, <2>1, StartKeeps
<1>5. ASSUME StepFails \/ EnsureBootEntry \/ EnsureFails \/ EnsureMisreads PROVE IInv'
  BY <1>0, <1>5, StepFailsKeeps, EnsureKeeps
<1>6. \/ Quietly \/ Detect \/ MisreadTable \/ MountVolumes \/ Refused
      \/ Partition \/ Wipe \/ WipeSync \/ FormatAll \/ WriteFiles \/ UnmountESP
      \/ UnmountFails \/ SetDefault \/ MarkInstalled \/ MarkSync \/ DoSync
      \/ PowerLoss \/ PowerCycle \/ Reboot
      \/ StepFails \/ EnsureBootEntry \/ EnsureFails \/ EnsureMisreads
  BY DEF Next, Works, RunInstall
<1> QED
  BY <1>1, <1>3, <1>4, <1>5, <1>6

\* The invariant of the Install sequence holds whatever fails, and whenever power
\* is lost.
THEOREM Invariance == Spec => []IInv
BY InitInv, StepInv, PTL DEF Spec

-------------------------------------------------------------------------------
\* Every variable keeps its type: no run takes a number beyond the bound, and
\* BootOrder never holds more than the firmware has numbers for.
THEOREM InstallTypeCorrect == Spec => []TypeOK
<1>1. IInv => TypeOK
  <2> SUFFICES ASSUME IInv PROVE TypeOK
    OBVIOUS
  <2> DiskInv /\ NvramInv /\ CallInv
    BY DEF IInv
  <2>1. \A o : o \in Seq(Num) /\ IsInjective(o) => o \in B!Orders(Cardinality(Num))
    <3> SUFFICES ASSUME NEW o, o \in Seq(Num), IsInjective(o)
                 PROVE  o \in B!Orders(Cardinality(Num))
      OBVIOUS
    <3>1. IsFiniteSet(Num) /\ Cardinality(Num) \in Nat
      BY InstallAssumption, FS_CardinalityType
    <3>2. Len(o) <= Cardinality(Num)
      BY <3>1, InjectiveBounded
    <3>3. o \in BoundedSeq(Num, Cardinality(Num))
      BY <3>1, <3>2, InBoundedSeq
    <3> QED
      BY <3>3, SameBounded, SameInjective DEF B!Orders
  <2>2. B!TypeOK
    BY <2>1, SameCardinality DEF B!TypeOK, NvramInv, CallInv
  <2>3. this \in 0..MaxRuns /\ table \in 0..MaxRuns /\ 0..this \subseteq 0..MaxRuns
    BY InstallAssumption DEF DiskInv, FreshInv
  <2> QED
    BY <2>2, <2>3 DEF TypeOK, DiskInv, CountInv, FreshInv, FilesInv, MadeInv, Marker
<1> QED
  BY <1>1, Invariance, PTL

\* From the first mkfs to the last step no loss of power can leave a marker
\* (install.go:108-111, meta.go:49-56).
THEOREM MidwayUnmarked == Spec => []MidwayIsUnmarked
<1>1. IInv => MidwayIsUnmarked
  BY DEF IInv, DiskInv, UnmarkedInv, MidwayIsUnmarked
<1> QED
  BY <1>1, Invariance, PTL

\* A marker written for the table on the disk means a complete installation
\* (meta.go:31-34).
THEOREM MarkedIsComplete == Spec => []MarkerMeansComplete
<1>1. IInv => MarkerMeansComplete
  BY DEF IInv, DiskInv, MarkedInv, MetaInv, FilesInv, OwnMarker, MarkerMeansComplete
<1> QED
  BY <1>1, Invariance, PTL

\* Only EnsureBootEntry writes to the NVRAM, one variable at a time.
LEMMA NvramSteps ==
  ASSUME IInv, [Next]_vars
  PROVE  \/ entry' = entry /\ order' = order
         \/ pc = "ensure" /\ UNCHANGED <<pc, this>> /\ (B!WriteEntry \/ B!WriteOrder)
<1>1. CASE UNCHANGED vars
  BY <1>1 DEF vars, nvramVars
<1>2. CASE \/ Detect \/ MisreadTable \/ MountVolumes \/ Quietly \/ Partition \/ Wipe \/ WipeSync
           \/ FormatAll \/ WriteFiles \/ UnmountESP \/ UnmountFails \/ SetDefault
           \/ MarkInstalled \/ MarkSync \/ DoSync \/ Refused \/ StepFails
  BY <1>2
  DEF Detect, MisreadTable, MountVolumes, Quietly, Partition, Wipe, WriteMeta, WipeSync,
      SyncMeta, FormatAll, Format, WriteFiles, UnmountESP, UnmountFails, SetDefault,
      MarkInstalled, MarkSync, DoSync, Refused, StepFails, nvramVars
<1>3. CASE PowerLoss \/ PowerCycle \/ Reboot \/ EnsureFails \/ EnsureMisreads
  BY <1>3 DEF PowerLoss, PowerCycle, Reboot, Start, EnsureFails, B!Fails, B!nvram, EnsureMisreads,
              B!Choose
<1>4. CASE EnsureBootEntry
  BY <1>4 DEF EnsureBootEntry, EnsureCall, B!Choose, B!Return, B!nvram
<1> QED
  BY <1>1, <1>2, <1>3, <1>4 DEF Next, Works, RunInstall

\* EnsureBootEntry that succeeds has the firmware boot us first; BootOrder repeats no
\* number, and a number of ours joins it only when it lists none of ours, or none that
\* could be read (efi.go:341-343, 413-436).
THEOREM OursComesFirstOnce == Spec => OursFirstOnce
<1> DEFINE Joins == \/ B!OursListed' \subseteq B!OursListed
                    \/ B!OursListed \subseteq unread /\ B!OursListed' \subseteq B!OursListed \cup {num}
           Once == /\ ensure' = "done" => order' # <<>> /\ Head(order') = num' /\ entry'[num'] = target'
                   /\ B!IsInjective(order')
                   /\ Joins
<1>1. ASSUME IInv, IInv', [Next]_vars PROVE Once
  <2> NvramInv /\ CallInv /\ NvramInv' /\ CallInv'
    BY <1>1 DEF IInv
  <2>1. ensure' = "done" => order' # <<>> /\ Head(order') = num' /\ entry'[num'] = target'
    BY DEF CallInv
  <2>2. B!IsInjective(order')
    BY SameInjective DEF NvramInv
  <2>3. Joins
    <3>1. CASE entry' = entry /\ order' = order
      BY <3>1, OursListedDef
    <3>2. CASE pc = "ensure" /\ UNCHANGED <<pc, this>> /\ (B!WriteEntry \/ B!WriteOrder)
      BY <3>2, WriteEntryKeeps, WriteOrderKeeps
    <3> QED
      BY <1>1, <3>1, <3>2, NvramSteps
  <2> QED
    BY <2>1, <2>2, <2>3
<1> HIDE DEF Once
<1>2. Spec => [][Once]_(B!vars)
  BY <1>1, Invariance, PTL DEF Spec
<1> QED
  BY <1>2 DEF OursFirstOnce, B!OursFirstOnce, Once

\* What BootOrder lists besides ours, now and after a step.
LEMMA ForeignDef ==
  /\ B!Foreign(order) = Without(order, {n \in Num : entry[n] \in Runs})
  /\ B!Foreign(order)' = Without(order', {n \in Num : entry'[n] \in Runs})
BY SameWithout DEF B!Foreign, B!Ours

\* Writing our entry overwrites none of theirs, and makes ours no number they list.
LEMMA EntryKeepsForeign ==
  ASSUME IInv, B!WriteEntry
  PROVE  /\ \A n \in Num : entry[n] = Vendor => entry'[n] = Vendor
         /\ B!Foreign(order)' = B!Foreign(order)
<1> NvramInv /\ CallInv
  BY DEF IInv
<1>1. /\ order' = order /\ order \in Seq(Num) /\ num \in Num /\ target \in Runs
      /\ entry' \in [Num -> Runs \cup {Vendor, Missing}] /\ entry'[num] = target
      /\ \A n \in Num \ {num} : entry'[n] = entry[n]
      /\ entry[num] \in Runs \cup {Vendor, Missing}
      /\ entry[num] # Vendor /\ (entry[num] = Missing => num \notin ToSet(order))
  BY DEF B!WriteEntry, NvramInv, CallInv
<1> DEFINE O == {n \in Num : entry[n] \in Runs}
           P == {n \in Num : entry'[n] \in Runs}
<1>2. \A n \in ToSet(order) : n \in O <=> n \in P
  <2> SUFFICES ASSUME NEW n \in ToSet(order) PROVE n \in O <=> n \in P
    OBVIOUS
  <2>1. n \in Num
    BY <1>1 DEF ToSet
  <2> QED
    BY <1>1, <2>1
<1>3. Without(order, O) = Without(order, P)
  <2> HIDE DEF O, P
  <2> QED
    BY <1>1, <1>2, WithoutSame
<1> QED
  BY <1>1, <1>3, ForeignDef

\* Moving our number to the front leaves theirs in their order.
LEMMA OrderKeepsForeign ==
  ASSUME IInv, B!WriteOrder
  PROVE  /\ entry' = entry
         /\ B!Foreign(order)' = B!Foreign(order)
<1> NvramInv /\ CallInv
  BY DEF IInv
<1> DEFINE O == {n \in Num : entry[n] \in Runs}
           rest == Without(order, {num})
           one  == Append(<<>>, num)
<1>1. /\ order' = <<num>> \o rest /\ entry' = entry
      /\ order \in Seq(Num) /\ num \in Num /\ entry[num] \in Runs
  BY SameWithout DEF B!WriteOrder, B!NewOrder, NvramInv, CallInv
<1>2. num \in O /\ {num} \subseteq O
  BY <1>1
<1>3. <<>> \in Seq(Num) /\ one \in Seq(Num) /\ <<num>> = one
  BY <1>1
<1>4. rest \in Seq(Num)
  BY <1>1, WithoutType
<1> HIDE DEF O
<1>5. Without(one, O) = <<>>
  BY <1>1, <1>2, <1>3, WithoutAppend, WithoutEmpty
<1>6. Without(rest, O) = Without(order, O)
  BY <1>1, <1>2, WithoutTwice
<1> HIDE DEF rest, one
<1>7. Without(one \o rest, O) = Without(one, O) \o Without(rest, O)
  BY <1>3, <1>4, WithoutConcat
<1>8. Without(rest, O) \in Seq(Num)
  BY <1>4, WithoutType
<1>9. Without(order', O) = Without(order, O)
  BY <1>1, <1>3, <1>5, <1>6, <1>7, <1>8
<1> QED
  BY <1>1, <1>9, ForeignDef DEF O

\* No entry of the vendor's is ever overwritten, and BootOrder keeps the numbers
\* that are not ours in their order (efi.go:266-273, 353-360, 432-436).
THEOREM VendorsKept == Spec => VendorsUntouched
<1> DEFINE Kept == /\ \A n \in Num : entry[n] = Vendor => entry'[n] = Vendor
                   /\ B!Foreign(order)' = B!Foreign(order)
<1>1. ASSUME IInv, [Next]_vars PROVE [Kept]_(B!vars)
  <2>1. CASE entry' = entry /\ order' = order
    BY <2>1, ForeignDef
  <2>2. CASE B!WriteEntry
    BY <1>1, <2>2, EntryKeepsForeign
  <2>3. CASE B!WriteOrder
    BY <1>1, <2>3, OrderKeepsForeign
  <2> QED
    BY <1>1, <2>1, <2>2, <2>3, NvramSteps
<1> QED
  BY <1>1, Invariance, PTL DEF Spec, VendorsUntouched, B!VendorsUntouched

-------------------------------------------------------------------------------
\* What the refinement mapping of Install gives module Installation.
Finds == {Found(m) : m \in metaOnDisk}

\* What a start finds of a marker for which the invariant holds.
FoundBy(t, m) ==
  IF t = 0 \/ ~Valid(m) THEN "nothing" ELSE IF t \in {m[1], m[2]} THEN "whole" ELSE "leftover"

\* By the invariant, what a start finds depends on the table and the marker alone.
LEMMA FindsDef ==
  ASSUME IInv
  PROVE  Finds = {FoundBy(table, m) : m \in metaOnDisk}
<1>1. \A m \in metaOnDisk : Found(m) = FoundBy(table, m)
  BY DEF IInv, DiskInv, MarkedInv, Found, FoundBy
<1> QED
  BY <1>1 DEF Finds

\* So it does after the step.
LEMMA FindsPrime ==
  ASSUME IInv'
  PROVE  Finds' = {FoundBy(table', m) : m \in metaOnDisk'}
<1>1. \A m \in metaOnDisk' : Found(m)' = FoundBy(table', m)
  BY DEF IInv, DiskInv, MarkedInv, Found, FoundBy, Valid
<1> QED
  BY <1>1 DEF Finds

\* The abstract actions, of what the disk shows.
Layout == Cardinality(Finds) = 1 /\ Finds' \in {{"nothing"}, {"leftover"}}
Erase  == Finds = {"leftover"} /\ Finds' = {"leftover", "nothing"}
Commit == Finds = {"nothing"} /\ Finds' = {"nothing", "whole"}
Settle == \E f \in Finds : Finds' = {f}

\* When one state of the two copies is settled on, a start finds one of the things
\* it could have found.
LEMMA SettledStep ==
  ASSUME IInv, IInv', table' = table, NEW m \in metaOnDisk, metaOnDisk' = {m}
  PROVE  Settle
<1>1. Finds = {FoundBy(table, k) : k \in metaOnDisk}
  BY FindsDef
<1>2. Finds' = {FoundBy(table, m)}
  BY FindsPrime
<1> QED
  BY <1>1, <1>2 DEF Settle

\* Writing the table, or failing to, takes away what was there.
LEMMA LayoutStep ==
  ASSUME IInv, IInv', pc = "partition", metaOnDisk' = metaOnDisk, table' \in {0, table, this + 1}
  PROVE  Layout \/ Finds' = Finds
<1>1. /\ metaOnDisk = {meta} /\ this \in Nat
      /\ meta[1] \in 0..this /\ meta[2] \in 0..this
  BY InstallAssumption DEF IInv, DiskInv, MetaInv, FreshInv
<1>2. Finds = {FoundBy(table, meta)} /\ Finds' = {FoundBy(table', meta)}
  BY <1>1, FindsDef, FindsPrime
<1>3. Cardinality({FoundBy(table, meta)}) = 1
  BY FS_Singleton
<1>4. table' # table => FoundBy(table', meta) \in {"nothing", "leftover"}
  BY <1>1 DEF FoundBy
<1> QED
  BY <1>2, <1>3, <1>4 DEF Layout

\* The wipe is the marker of an old installation going away.
LEMMA EraseStep ==
  ASSUME IInv, IInv', pc = "wipe", table' = table, metaOnDisk' = HalfWritten(0)
  PROVE  Erase \/ Finds' = Finds
<1>1. /\ metaOnDisk = {meta} /\ table # 0 /\ meta = <<meta[1], meta[2]>>
      /\ table # meta[1] /\ table # meta[2]
  BY DEF IInv, DiskInv, MetaInv, FreshInv, Late
<1>2. metaOnDisk' = {0, meta[1]} \X {0, meta[2]}
  BY DEF HalfWritten
<1>3. Finds = {FoundBy(table, meta)} /\ Finds' = {FoundBy(table, m) : m \in metaOnDisk'}
  BY <1>1, FindsDef, FindsPrime
<1>4. CASE ~Valid(meta)
  <2>1. FoundBy(table, meta) = "nothing"
    BY <1>4 DEF FoundBy
  <2>2. \A m \in metaOnDisk' : FoundBy(table, m) = "nothing"
    BY <1>2, <1>4 DEF FoundBy, Valid
  <2>3. meta \in metaOnDisk'
    BY <1>1, <1>2
  <2> QED
    BY <1>3, <2>1, <2>2, <2>3
<1>5. CASE Valid(meta)
  <2>1. FoundBy(table, meta) = "leftover"
    BY <1>1, <1>5 DEF FoundBy
  <2>2. \A m \in metaOnDisk' : FoundBy(table, m) \in {"leftover", "nothing"}
    BY <1>1, <1>2 DEF FoundBy
  <2>3. meta \in metaOnDisk' /\ <<0, 0>> \in metaOnDisk' /\ FoundBy(table, <<0, 0>>) = "nothing"
    BY <1>1, <1>2 DEF FoundBy, Valid
  <2>4. Finds' = {"leftover", "nothing"}
    BY <1>3, <2>1, <2>2, <2>3
  <2> QED
    BY <1>3, <2>1, <2>4 DEF Erase
<1> QED
  BY <1>4, <1>5

\* The marker makes the installation whole, at once.
LEMMA CommitStep ==
  ASSUME IInv, IInv', pc = "init", table' = table, metaOnDisk' = HalfWritten(this)
  PROVE  Commit
<1>1. metaOnDisk = {<<0, 0>>} /\ meta = <<0, 0>> /\ table = this /\ this # 0
  BY DEF IInv, DiskInv, MetaInv, FreshInv, Late, Erased
<1>2. metaOnDisk' = {0, this} \X {0, this}
  BY <1>1 DEF HalfWritten
<1>3. Finds = {FoundBy(this, <<0, 0>>)} /\ Finds' = {FoundBy(this, m) : m \in metaOnDisk'}
  BY <1>1, FindsDef, FindsPrime
<1>4. FoundBy(this, <<0, 0>>) = "nothing" /\ FoundBy(this, <<this, this>>) = "whole"
  BY <1>1 DEF FoundBy, Valid
<1>5. \A m \in metaOnDisk' : FoundBy(this, m) \in {"nothing", "whole"}
  BY <1>1, <1>2 DEF FoundBy, Valid
<1>6. <<0, 0>> \in metaOnDisk' /\ <<this, this>> \in metaOnDisk'
  BY <1>2
<1>7. Finds' = {"nothing", "whole"}
  BY <1>3, <1>4, <1>5, <1>6
<1> QED
  BY <1>3, <1>4, <1>7 DEF Commit

\* Every step of Install does one thing of module Installation, or nothing.
LEMMA RefinementStep ==
  ASSUME IInv, IInv', [Next]_vars
  PROVE  Layout \/ Erase \/ Commit \/ Settle \/ Finds' = Finds
<1>1. CASE UNCHANGED <<table, metaOnDisk>>
  BY <1>1, FindsDef, FindsPrime
<1>2. CASE Partition
  BY <1>2, LayoutStep DEF Partition, Advance, metaVars
<1>3. CASE Wipe
  BY <1>3, EraseStep DEF Wipe, WriteMeta, Advance, HalfWritten
<1>4. CASE MarkInstalled
  BY <1>4, CommitStep DEF MarkInstalled, WriteMeta, Advance, HalfWritten
<1>5. CASE WipeSync \/ MarkSync
  <2>1. meta \in metaOnDisk
    BY DEF IInv, DiskInv, MetaInv
  <2> QED
    BY <1>5, <2>1, SettledStep DEF WipeSync, MarkSync, SyncMeta
<1>6. CASE PowerLoss \/ PowerCycle \/ Reboot
  <2>1. Start
    BY <1>6 DEF PowerLoss, PowerCycle, Reboot
  <2>2. PICK m \in metaOnDisk : metaOnDisk' = {m}
    BY <2>1 DEF Start
  <2> QED
    BY <2>1, <2>2, SettledStep DEF Start
<1>7. CASE StepFails
  <2>1. CASE pc = "partition"
    BY <1>7, <2>1, LayoutStep DEF StepFails, metaVars
  <2>2. CASE pc = "wipe"
    BY <1>7, <2>2, EraseStep DEF StepFails
  <2>3. CASE pc = "init"
    BY <1>7, <2>3, CommitStep DEF StepFails
  <2>4. CASE pc \notin {"partition", "wipe", "init"}
    BY <1>1, <1>7, <2>4 DEF StepFails, metaVars
  <2> QED
    BY <2>1, <2>2, <2>3, <2>4
<1>8. CASE \/ Detect \/ MisreadTable \/ MountVolumes \/ Quietly \/ FormatAll \/ WriteFiles
           \/ UnmountESP \/ UnmountFails \/ SetDefault \/ EnsureBootEntry \/ EnsureFails
           \/ EnsureMisreads \/ DoSync \/ Refused
  BY <1>1, <1>8
  DEF Detect, MisreadTable, MountVolumes, Quietly, FormatAll, Format, WriteFiles, UnmountESP,
      UnmountFails, SetDefault, EnsureBootEntry, EnsureFails, EnsureMisreads, DoSync,
      Refused, metaVars
<1>9. CASE UNCHANGED vars
  BY <1>1, <1>9 DEF vars, metaVars
<1> QED
  BY <1>2, <1>3, <1>4, <1>5, <1>6, <1>7, <1>8, <1>9 DEF Next, Works, RunInstall

\* Install implements module Installation: a whole installation appears in one
\* step, where nothing was to be found, and only a new table takes it away
\* (install.go:8-17, meta.go:31-34).
THEOREM Refinement == Spec => ImplementsInstallation
<1>1. Init => I!Init
  BY DEF Init, I!Init, Found
<1>2. ASSUME IInv, IInv', [Next]_vars PROVE [I!Next]_Finds
  BY <1>2, RefinementStep, SameCardinality
  DEF Layout, Erase, Commit, Settle, Finds, I!Next, I!Layout, I!Settled, I!Erase, I!Commit,
      I!Settle
<1> QED
  BY <1>1, <1>2, Invariance, PTL DEF Spec, ImplementsInstallation, I!Spec, Finds

===============================================================================
