------------------------------ MODULE BuildProofs ------------------------------
(***************************************************************************)
(* What module Build publishes, for any number of builds, releases and     *)
(* tags and images of any length: it is whole, the media find it, and the  *)
(* download cache is to be trusted as far as the code means it to be.      *)
(* And what modules Cpio and Pe compute, for archives and UKIs of any      *)
(* number of parts and of any size: the kernel and the firmware read them. *)
(***************************************************************************)
EXTENDS MCBuild, SeqProofs

\* runBuild, in order.
Fetching  == {"archive", "archive body", "checksums", "checksums body", "verify", "extract"}
Bundling  == {"compile", "kernel", "fsutils", "ca", "rootfs", "sdboot", "release", "initramfs"}
Producing == {"uki", "push"}
Media     == {"disk", "iso"}
Tagged    == Fetching \cup Bundling \cup Producing \cup Media
Step      == {"idle", "scratch", "out", "describe"} \cup Tagged

BuildTypes ==
  /\ step \in Step /\ this \in 0..MaxBuilds
  /\ step # "idle" => this \in Builds /\ version \in Version
  /\ tagOf \in [Builds -> Tag \cup {None}] /\ (step \in Tagged => tagOf[this] \in Tag)
  /\ archive \in [Version -> Version \cup {None, Partial}]
  /\ rootfs \in SUBSET Part /\ contents \in [Builds -> SUBSET Part]
  /\ out \in [Medium -> 0..MaxBuilds] /\ registry \in [Tag -> 0..MaxBuilds]

\* A tarball is of its own release.  Only a download under way has not got all of
\* it, as long as no build was killed.
CacheInv ==
  /\ \A v \in Version : archive[v] \in {None, Partial, v}
  /\ ~killed =>
       /\ \A v \in Version : archive[v] = Partial => step = "archive body" /\ v = version
       /\ step \in {"checksums", "checksums body", "verify"} => archive[version] # None
  /\ step = "extract" => archive[version] = version

\* What is in the rootfs by the time the build gets to a step.
RootfsInv ==
  /\ step \in Bundling => "bao" \in rootfs
  /\ step \in Bundling \ {"compile"} => "invarios" \in rootfs
  /\ step \in Bundling \ {"compile", "kernel", "fsutils"} => "fsutils" \in rootfs
  /\ step \in Bundling \ {"compile", "kernel", "fsutils", "ca"} => "ca" \in rootfs

ImageInv ==
  /\ step \in Producing \cup Media => contents[this] = Part
  /\ ImageIsWhole

MediaInv ==
  /\ step \in {"describe"} \cup Fetching \cup Bundling \cup Producing => \A m \in Medium : out[m] = 0
  /\ step \in Media => registry[tagOf[this]] = this
  /\ OutMatchesRegistry

IInv == BuildTypes /\ CacheInv /\ RootfsInv /\ ImageInv /\ MediaInv

USE DEF Fetching, Bundling, Producing, Media, Tagged, Step

-------------------------------------------------------------------------------
\* Nothing is built, cached or published at first.
LEMMA InitHolds == Init => IInv
<1> SUFFICES ASSUME Init PROVE IInv
  OBVIOUS
<1>1. 0 \in 0..MaxBuilds
  BY BuildAssumption
<1>2. BuildTypes
  BY <1>1 DEF Init, BuildTypes, Builds, Part
<1>3. CacheInv
  BY BuildAssumption DEF Init, CacheInv
<1>4. RootfsInv /\ ImageInv /\ MediaInv
  BY DEF Init, RootfsInv, ImageInv, ImageIsWhole, MediaInv, OutMatchesRegistry
<1> QED
  BY <1>2, <1>3, <1>4 DEF IInv

\* What the steps that only go on to another one leave alone.
Kept == UNCHANGED <<this, version, tagOf, archive, rootfs, contents, out, registry, killed>>

\* A build that stops leaves everything as it is, or goes on to a step that needs
\* nothing more.
LEMMA StopKeeps == IInv /\ Kept /\ step' = "idle" /\ step # "archive body" => IInv'
<1> SUFFICES ASSUME IInv, Kept, step' = "idle", step # "archive body" PROVE IInv'
  OBVIOUS
<1>1. BuildTypes' /\ CacheInv'
  BY DEF IInv, Kept, BuildTypes, CacheInv, Builds
<1>2. RootfsInv' /\ ImageInv' /\ MediaInv'
  BY DEF IInv, Kept, RootfsInv, ImageInv, ImageIsWhole, MediaInv, OutMatchesRegistry
<1> QED
  BY <1>1, <1>2 DEF IInv

\* A build that starts has published nothing yet.
LEMMA StartKeeps == ASSUME IInv, NEW v \in Version, StartBuild(v) PROVE IInv'
<1>1. /\ step = "idle" /\ step' = "scratch" /\ this < MaxBuilds /\ this' = this + 1
      /\ version' = v
      /\ UNCHANGED <<tagOf, archive, rootfs, contents, out, registry, killed>>
  BY DEF StartBuild, Advance, cache, stage, rest
<1>2. this' \in Builds
  BY <1>1, BuildAssumption DEF IInv, BuildTypes, Builds
<1>3. BuildTypes'
  BY <1>1, <1>2, BuildAssumption DEF IInv, BuildTypes, Builds
<1>4. CacheInv'
  BY <1>1 DEF IInv, CacheInv
<1>5. RootfsInv' /\ ImageInv' /\ MediaInv'
  BY <1>1 DEF IInv, RootfsInv, ImageInv, ImageIsWhole, MediaInv, OutMatchesRegistry
<1> QED
  BY <1>3, <1>4, <1>5 DEF IInv

\* Clearing scratch and output takes the media of the build before it away.
LEMMA PrepareKeeps == IInv /\ Prepare => IInv'
<1> SUFFICES ASSUME IInv, Prepare PROVE IInv'
  OBVIOUS
<1>1. CASE RemoveScratch
  <2>1. /\ step = "scratch" /\ step' = "out" /\ rootfs' = {}
        /\ UNCHANGED <<this, version, tagOf, archive, contents, out, registry, killed>>
    BY <1>1 DEF RemoveScratch, Advance, build, cache, rest
  <2>2. BuildTypes' /\ CacheInv'
    BY <2>1 DEF IInv, BuildTypes, CacheInv, Part
  <2>3. RootfsInv' /\ ImageInv' /\ MediaInv'
    BY <2>1 DEF IInv, RootfsInv, ImageInv, ImageIsWhole, MediaInv, OutMatchesRegistry
  <2> QED
    BY <2>2, <2>3 DEF IInv
<1>2. CASE RemoveOut
  <2>1. /\ step = "out" /\ step' = "describe" /\ out' = [m \in Medium |-> 0]
        /\ UNCHANGED <<this, version, tagOf, archive, rootfs, contents, registry, killed>>
    BY <1>2 DEF RemoveOut, Advance, build, cache, stage, rest
  <2>2. BuildTypes' /\ CacheInv'
    BY <2>1, BuildAssumption DEF IInv, BuildTypes, CacheInv
  <2>3. RootfsInv' /\ ImageInv' /\ MediaInv'
    BY <2>1 DEF IInv, RootfsInv, ImageInv, ImageIsWhole, MediaInv, OutMatchesRegistry
  <2> QED
    BY <2>2, <2>3 DEF IInv
<1>3. ASSUME NEW t \in Tag, Describe(t) PROVE IInv'
  <2>1. /\ step = "describe" /\ step' = "archive" /\ tagOf' = [tagOf EXCEPT ![this] = t]
        /\ UNCHANGED <<this, version, archive, rootfs, contents, out, registry, killed>>
    BY <1>3 DEF Describe, Advance, cache, stage, rest
  <2>2. BuildTypes' /\ CacheInv'
    BY <2>1 DEF IInv, BuildTypes, CacheInv
  <2>3. RootfsInv' /\ ImageInv'
    BY <2>1 DEF IInv, RootfsInv, ImageInv, ImageIsWhole
  <2>4. \A m \in Medium : out'[m] = 0
    BY <2>1 DEF IInv, MediaInv
  <2>5. MediaInv'
    BY <2>1, <2>4 DEF MediaInv, OutMatchesRegistry
  <2> QED
    BY <2>2, <2>3, <2>5 DEF IInv
<1> QED
  BY <1>1, <1>2, <1>3 DEF Prepare

\* Downloads only change the cache.
LEMMA CacheKeeps ==
  ASSUME IInv, step \in Fetching, step' \in Fetching \cup {"idle"}, CacheInv',
         archive' \in [Version -> Version \cup {None, Partial}],
         UNCHANGED <<this, version, tagOf, rootfs, contents, out, registry>>
  PROVE  IInv'
<1>1. BuildTypes'
  BY DEF IInv, BuildTypes
<1>2. RootfsInv' /\ ImageInv' /\ MediaInv'
  BY DEF IInv, RootfsInv, ImageInv, ImageIsWhole, MediaInv, OutMatchesRegistry
<1> QED
  BY <1>1, <1>2 DEF IInv

\* A download that fails or is killed leaves part of a tarball of its own release.
LEMMA DownloadKeeps == IInv /\ (DownloadArchive \/ DownloadChecksums \/ DownloadFails) => IInv'
<1> SUFFICES ASSUME IInv, DownloadArchive \/ DownloadChecksums \/ DownloadFails PROVE IInv'
  OBVIOUS
<1>1. /\ version \in Version /\ archive \in [Version -> Version \cup {None, Partial}]
      /\ None # Partial /\ None \notin Version /\ Partial \notin Version
      /\ UNCHANGED <<this, version, tagOf, rootfs, contents, out, registry, killed>>
  BY BuildAssumption
     DEF IInv, BuildTypes, DownloadArchive, DownloadChecksums, DownloadFails, Advance,
         build, stage, rest
<1>2. \/ step = "archive" /\ step' = "checksums" /\ archive[version] # None /\ archive' = archive
      \/ /\ step = "archive" /\ step' = "archive body"
         /\ archive' = [archive EXCEPT ![version] = Partial]
      \/ /\ step = "archive body" /\ step' = "checksums"
         /\ archive' = [archive EXCEPT ![version] = version]
      \/ /\ step \in {"checksums", "checksums body"} /\ step' \in {"checksums body", "verify", "idle"}
         /\ archive' = archive
      \/ /\ step = "archive body" /\ step' = "idle"
         /\ archive' = [archive EXCEPT ![version] = None]
  BY DEF DownloadArchive, DownloadChecksums, DownloadFails, Advance, ArchiveIs
<1>3. archive' \in [Version -> Version \cup {None, Partial}]
  BY <1>1, <1>2
<1>4. CacheInv'
  BY <1>1, <1>2 DEF IInv, CacheInv
<1> QED
  BY <1>1, <1>2, <1>3, <1>4, CacheKeeps

\* A tarball that passes the comparison is of its release, one that does not is removed.
LEMMA VerifyKeeps == IInv /\ (VerifyChecksum \/ ChecksumDiffers) => IInv'
<1> SUFFICES ASSUME IInv, VerifyChecksum \/ ChecksumDiffers PROVE IInv'
  OBVIOUS
<1>1. /\ step = "verify" /\ step' \in {"extract", "idle"}
      /\ step' = "extract" => archive[version] = version
      /\ UNCHANGED <<this, version, tagOf, archive, rootfs, contents, out, registry, killed>>
  BY DEF VerifyChecksum, ChecksumDiffers, Matches, Quietly, Advance, build, cache, stage, rest
<1>2. CacheInv'
  BY <1>1 DEF IInv, CacheInv
<1> QED
  BY <1>1, <1>2, CacheKeeps DEF IInv, BuildTypes

-------------------------------------------------------------------------------
\* A step that puts something into the rootfs and goes on to the next.
LEMMA BundleKeeps ==
  ASSUME IInv, step' \in Bundling \cup {"idle"}, step \notin {"idle", "archive body"},
         rootfs' \in SUBSET Part, RootfsInv',
         UNCHANGED <<this, version, tagOf, archive, contents, out, registry, killed>>,
         step \in Fetching \cup Bundling
  PROVE  IInv'
<1>1. BuildTypes' /\ CacheInv'
  BY DEF IInv, BuildTypes, CacheInv
<1>2. ImageInv' /\ MediaInv'
  BY DEF IInv, ImageInv, ImageIsWhole, MediaInv, OutMatchesRegistry
<1> QED
  BY <1>1, <1>2 DEF IInv

\* Only a verified tarball is extracted.
LEMMA ExtractBaoKeeps == IInv /\ ExtractBao => IInv'
<1> SUFFICES ASSUME IInv, ExtractBao PROVE IInv'
  OBVIOUS
<1>1. /\ step = "extract" /\ step' = "compile" /\ rootfs' = rootfs \cup {"bao"}
      /\ UNCHANGED <<this, version, tagOf, archive, contents, out, registry, killed>>
  BY DEF ExtractBao, Advance, IInv, CacheInv, build, cache, rest
<1>2. rootfs' \in SUBSET Part /\ RootfsInv'
  BY <1>1 DEF IInv, BuildTypes, RootfsInv, Part
<1> QED
  BY <1>1, <1>2, BundleKeeps

\* Compiling adds the binary to the rootfs.
LEMMA CompileKeeps == IInv /\ Compile => IInv'
<1> SUFFICES ASSUME IInv, Compile PROVE IInv'
  OBVIOUS
<1>1. /\ step = "compile" /\ step' = "kernel" /\ rootfs' = rootfs \cup {"invarios"}
      /\ UNCHANGED <<this, version, tagOf, archive, contents, out, registry, killed>>
  BY DEF Compile, Advance, build, cache, rest
<1>2. rootfs' \in SUBSET Part /\ RootfsInv'
  BY <1>1 DEF IInv, BuildTypes, RootfsInv, Part
<1> QED
  BY <1>1, <1>2, BundleKeeps

\* A pull that is reported to have succeeded has extracted everything.
LEMMA PulledKeeps == IInv /\ Pulled => IInv'
<1> SUFFICES ASSUME IInv, Pulled PROVE IInv'
  OBVIOUS
<1>1. /\ step \in {"kernel", "fsutils", "ca", "sdboot"}
      /\ UNCHANGED <<this, version, tagOf, archive, contents, out, registry, killed>>
  BY DEF Pulled, Image, build, cache
<1>2. rootfs' = rootfs \cup (IF E!Extracted THEN {step} \cap Part ELSE {})
  BY DEF Pulled
<1>3. CASE E!Succeeded
  <2>1. E!Extracted
    BY <1>3 DEF E!Succeeded, E!Extracted
  <2>2. step' = AfterImage[step]
    BY <1>3 DEF Pulled
  <2>3. \/ step = "kernel" /\ step' = "fsutils"
        \/ step = "fsutils" /\ step' = "ca"
        \/ step = "ca" /\ step' = "rootfs"
        \/ step = "sdboot" /\ step' = "release"
    <3>1. /\ AfterImage["kernel"] = "fsutils" /\ AfterImage["fsutils"] = "ca"
          /\ AfterImage["ca"] = "rootfs" /\ AfterImage["sdboot"] = "release"
      BY DEF AfterImage
    <3> QED
      BY <1>1, <2>2, <3>1
  <2>4. rootfs' = rootfs \cup ({step} \cap Part)
    BY <1>2, <2>1
  <2>5. rootfs' \in SUBSET Part
    BY <2>4 DEF IInv, BuildTypes
  <2>6. RootfsInv'
    BY <2>3, <2>4 DEF IInv, RootfsInv, Part
  <2> QED
    BY <1>1, <2>3, <2>5, <2>6, BundleKeeps
<1>4. CASE ~E!Succeeded
  <2>1. step' = "idle"
    BY <1>4 DEF Pulled
  <2>2. rootfs' \in SUBSET Part /\ RootfsInv'
    BY <1>2, <2>1 DEF IInv, BuildTypes, RootfsInv
  <2> QED
    BY <1>1, <2>1, <2>2, BundleKeeps
<1> QED
  BY <1>3, <1>4

\* Neither the goroutines of a pull nor steps that check or stage change anything
\* these properties are about.
LEMMA OnlyOnKeeps ==
  ASSUME IInv, Kept,
         \/ step' = step
         \/ step = "rootfs" /\ step' = "sdboot"
         \/ step = "release" /\ step' = "initramfs"
         \/ step = "uki" /\ step' = "push"
  PROVE  IInv'
<1>1. BuildTypes' /\ CacheInv'
  BY DEF IInv, Kept, BuildTypes, CacheInv
<1>2. RootfsInv' /\ ImageInv' /\ MediaInv'
  BY DEF IInv, Kept, RootfsInv, ImageInv, ImageIsWhole, MediaInv, OutMatchesRegistry
<1> QED
  BY <1>1, <1>2 DEF IInv

-------------------------------------------------------------------------------
\* The initramfs is made of a rootfs that has got every part.
LEMMA WriteCPIOKeeps == IInv /\ WriteCPIO => IInv'
<1> SUFFICES ASSUME IInv, WriteCPIO PROVE IInv'
  OBVIOUS
<1>1. /\ step = "initramfs" /\ step' = "uki" /\ contents' = [contents EXCEPT ![this] = rootfs]
      /\ UNCHANGED <<this, version, tagOf, archive, rootfs, out, registry, killed>>
  BY DEF WriteCPIO, Advance, build, cache, rest
<1>2. this \in Builds /\ rootfs = Part /\ contents \in [Builds -> SUBSET Part]
  BY <1>1 DEF IInv, BuildTypes, RootfsInv, Part
<1>3. BuildTypes' /\ CacheInv'
  BY <1>1, <1>2 DEF IInv, BuildTypes, CacheInv
<1>4. ASSUME NEW t \in Tag, registry[t] # 0 PROVE contents'[registry[t]] = Part
  <2>1. registry[t] \in 0..MaxBuilds
    BY DEF IInv, BuildTypes
  <2>2. registry[t] \in Builds
    BY <1>4, <2>1, BuildAssumption DEF Builds
  <2>3. contents[registry[t]] = Part
    BY <1>4 DEF IInv, ImageInv, ImageIsWhole
  <2> QED
    BY <1>1, <1>2, <2>2, <2>3
<1>5. ImageInv'
  BY <1>1, <1>2, <1>4 DEF ImageInv, ImageIsWhole
<1>6. RootfsInv' /\ MediaInv'
  BY <1>1 DEF IInv, RootfsInv, MediaInv, OutMatchesRegistry
<1> QED
  BY <1>3, <1>5, <1>6 DEF IInv

\* Of a push that comes to its end or not.
LEMMA PublishKeeps ==
  ASSUME IInv, step = "push", step' \in {"disk", "idle"}, Publish, killed' \in {killed, TRUE},
         UNCHANGED <<this, version, tagOf, archive, rootfs, contents, out>>
  PROVE  IInv'
<1>1. this \in Builds /\ tagOf[this] \in Tag /\ contents[this] = Part /\ \A m \in Medium : out[m] = 0
  BY DEF IInv, BuildTypes, ImageInv, MediaInv
<1>2. registry' = [registry EXCEPT ![tagOf[this]] = this] /\ registry \in [Tag -> 0..MaxBuilds]
  BY DEF Publish, IInv, BuildTypes
<1>3. BuildTypes'
  BY <1>1, <1>2 DEF IInv, BuildTypes, Builds
<1>4. CacheInv' /\ RootfsInv'
  BY DEF IInv, CacheInv, RootfsInv
<1>5. ImageInv'
  BY <1>1, <1>2 DEF IInv, ImageInv, ImageIsWhole
<1>6. MediaInv'
  BY <1>1, <1>2 DEF MediaInv, OutMatchesRegistry
<1> QED
  BY <1>3, <1>4, <1>5, <1>6 DEF IInv

\* Of a medium that is finished or not.
LEMMA MediumKeeps ==
  ASSUME IInv, step \in Media, step' \in {"iso", "idle"}, NEW file \in Medium, Writes(file),
         killed' \in {killed, TRUE},
         UNCHANGED <<this, version, tagOf, archive, rootfs, contents, registry>>
  PROVE  IInv'
<1>1. this \in Builds /\ registry[tagOf[this]] = this /\ contents[this] = Part
  BY DEF IInv, BuildTypes, MediaInv, ImageInv
<1>2. out' = [out EXCEPT ![file] = this] /\ out \in [Medium -> 0..MaxBuilds]
  BY DEF Writes, IInv, BuildTypes
<1>3. BuildTypes'
  BY <1>1, <1>2 DEF IInv, BuildTypes, Builds
<1>4. CacheInv' /\ RootfsInv' /\ ImageInv'
  BY <1>1 DEF IInv, CacheInv, RootfsInv, ImageInv, ImageIsWhole
<1>5. MediaInv'
  BY <1>1, <1>2 DEF IInv, MediaInv, OutMatchesRegistry
<1> QED
  BY <1>3, <1>4, <1>5 DEF IInv

\* The image is complete before it is pushed, and pushed before a medium is made.
LEMMA ProduceKeeps == IInv /\ Produce => IInv'
<1> SUFFICES ASSUME IInv, Produce PROVE IInv'
  OBVIOUS
<1>1. CASE Quietly("release", "initramfs") \/ Quietly("uki", "push")
  BY <1>1, OnlyOnKeeps DEF Quietly, Advance, Kept, build, cache, stage, rest
<1>2. CASE WriteCPIO
  BY <1>2, WriteCPIOKeeps
<1>3. CASE PushBootImage
  BY <1>3, PublishKeeps DEF PushBootImage, Advance, build, cache, stage, rest
<1>4. CASE BuildFATImage
  BY <1>4, MediumKeeps DEF BuildFATImage, Advance, build, cache, stage, rest, Medium
<1>5. CASE BuildISO
  BY <1>5, MediumKeeps DEF BuildISO, Advance, build, cache, stage, rest, Medium
<1> QED
  BY <1>1, <1>2, <1>3, <1>4, <1>5 DEF Produce

-------------------------------------------------------------------------------
\* A step that fails, or is killed: only the latter may cut off a download.
LEMMA FragmentKeeps ==
  ASSUME IInv, Fragment, step' = "idle", killed' \in {killed, TRUE},
         step = "archive body" => killed' = TRUE
  PROVE  IInv'
<1>1. UNCHANGED <<this, version, tagOf, archive, rootfs, contents>>
  BY DEF Fragment, build, cache, stage
<1>2. CASE UNCHANGED <<out, registry>>
  <2>1. BuildTypes' /\ CacheInv'
    BY <1>1, <1>2 DEF IInv, BuildTypes, CacheInv
  <2>2. RootfsInv' /\ ImageInv' /\ MediaInv'
    BY <1>1, <1>2 DEF IInv, RootfsInv, ImageInv, ImageIsWhole, MediaInv, OutMatchesRegistry
  <2> QED
    BY <2>1, <2>2 DEF IInv
<1>3. ASSUME step = "out", registry' = registry, NEW gone \in SUBSET Medium,
             out' = [m \in Medium |-> IF m \in gone THEN 0 ELSE out[m]]
      PROVE  IInv'
  <2>1. out' \in [Medium -> 0..MaxBuilds]
    BY <1>3, BuildAssumption DEF IInv, BuildTypes
  <2>2. BuildTypes' /\ CacheInv'
    BY <1>1, <1>3, <2>1 DEF IInv, BuildTypes, CacheInv
  <2>3. RootfsInv' /\ ImageInv' /\ MediaInv'
    BY <1>1, <1>3 DEF IInv, RootfsInv, ImageInv, ImageIsWhole, MediaInv, OutMatchesRegistry
  <2> QED
    BY <2>2, <2>3 DEF IInv
<1>4. CASE step = "push" /\ Publish /\ UNCHANGED out
  BY <1>1, <1>4, PublishKeeps
<1>5. CASE step = "disk" /\ Writes("invarios-efi.img") /\ UNCHANGED registry
  BY <1>1, <1>5, MediumKeeps DEF Medium
<1>6. CASE step = "iso" /\ Writes("invarios.iso") /\ UNCHANGED registry
  BY <1>1, <1>6, MediumKeeps DEF Medium
<1> QED
  BY <1>2, <1>3, <1>4, <1>5, <1>6 DEF Fragment

\* Every step keeps the invariant.
LEMMA NextKeeps == IInv /\ [Next]_vars => IInv'
<1> SUFFICES ASSUME IInv, [Next]_vars PROVE IInv'
  OBVIOUS
<1>1. CASE \E v \in Version : StartBuild(v)
  BY <1>1, StartKeeps
<1>2. CASE Prepare
  BY <1>2, PrepareKeeps
<1>3. CASE Fetch
  BY <1>3, DownloadKeeps, VerifyKeeps, ExtractBaoKeeps DEF Fetch
<1>4. CASE Compile \/ Pulled
  BY <1>4, CompileKeeps, PulledKeeps
<1>5. CASE Pull \/ Extracting \/ ExtractionFails
  BY <1>5, OnlyOnKeeps DEF Pull, Extracting, ExtractionFails, Kept, build, cache, stage
<1>6. CASE VerifyRootfs
  BY <1>6, OnlyOnKeeps DEF VerifyRootfs, Quietly, Advance, Kept, build, cache, stage, rest
<1>7. CASE Produce
  BY <1>7, ProduceKeeps
<1>8. CASE DownloadFails
  BY <1>8, DownloadKeeps
<1>9. CASE StepFails
  BY <1>9, FragmentKeeps DEF StepFails, rest
<1>10. CASE Kill
  BY <1>10, FragmentKeeps DEF Kill
<1>11. CASE UNCHANGED vars
  BY <1>11, OnlyOnKeeps DEF vars, Kept, build, cache, stage, rest
<1> QED
  BY <1>1, <1>2, <1>3, <1>4, <1>5, <1>6, <1>7, <1>8, <1>9, <1>10, <1>11
     DEF Next, Proceed, Assemble

-------------------------------------------------------------------------------
(***************************************************************************)
(* The theorems.                                                           *)
(***************************************************************************)
\* The inductive invariant: what a build has done by the time it is at a step, and
\* what all builds before it have left (build.go:130-226, fetch.go:29-90).
THEOREM BuildInductive == Spec => []IInv
<1> QED
  BY InitHolds, NextKeeps, PTL DEF Spec

\* What a node can pull was built from a complete rootfs, after any number of
\* failing and killed builds (build.go:130-226, fetch.go:22-26, ociimage.go:45-81).
THEOREM PublishedIsWhole == Spec => []ImageIsWhole
<1>1. IInv => ImageIsWhole
  BY DEF IInv, ImageInv
<1> QED
  BY <1>1, BuildInductive, PTL

\* A medium in the output directory finds its own build under its tag
\* (install.go:176-180, build.go:548-551).
THEOREM MediaFindTheirBuild == Spec => []OutMatchesRegistry
<1>1. IInv => OutMatchesRegistry
  BY DEF IInv, MediaInv
<1> QED
  BY <1>1, BuildInductive, PTL

\* The cache passes its checksum unless a build was killed or was of another
\* release (fetch.go:22-26, 85-89).
THEOREM CacheIsSound == Spec => []CachedBuildsVerify
<1>1. IInv => CachedBuildsVerify
  BY DEF IInv, BuildTypes, CacheInv, CachedBuildsVerify
<1> QED
  BY <1>1, BuildInductive, PTL

-------------------------------------------------------------------------------
(***************************************************************************)
(* The parts of a file, one behind the other.                              *)
(***************************************************************************)
\* Where the parts of a file are that are written one behind the other: the first
\* at b, each other behind the one before it, where part i is l[i] long.
Places(at, n, b, l) ==
  /\ at \in [1..n -> Nat]
  /\ n > 0 => at[1] = b
  /\ \A i \in 1..n : i # 1 => at[i] = at[i - 1] + l[i - 1]

\* The same of a function whose values are not yet known to be numbers.
PlacesOf(at, n, b, l) ==
  at = [i \in 1..n |-> IF i = 1 THEN b ELSE at[i - 1] + l[i - 1]]

Extents(n) == [1..n -> Nat]

\* There is one such list of places.
LEMMA PlacesExist ==
  ASSUME NEW n \in Nat, NEW b \in Nat, NEW l \in Extents(n)
  PROVE  \E at : PlacesOf(at, n, b, l)
<1>1. CASE n = 0
  <2> DEFINE at == [i \in 1..n |-> b]
  <2>1. at = [i \in 1..n |-> IF i = 1 THEN b ELSE at[i - 1] + l[i - 1]]
    BY <1>1
  <2> HIDE DEF at
  <2>2. PlacesOf(at, n, b, l)
    BY <2>1 DEF PlacesOf
  <2> QED
    BY <2>2
<1>2. CASE n > 0
  <2> DEFINE m == n - 1
             next(x, i) == x + l[i]
             g == [x \in Nat \X (1..m) |-> next(x[1], x[2])]
  <2>1. m \in Nat /\ \A i \in 1..m : i \in 1..n /\ l[i] \in Nat
    BY <1>2 DEF Extents
  <2>n. \A x \in Nat, i \in 1..m : next(x, i) \in Nat
    BY <2>1
  <2> HIDE DEF next
  <2>2. g \in [Nat \X (1..m) -> Nat] /\ \A x \in Nat, i \in 1..m : g[x, i] = next(x, i)
    BY <2>n
  <2>3. g \in Steps(Nat, m)
    BY <2>2 DEF Steps
  <2> HIDE DEF m, g
  <2>4. PICK f : Solves(f, Nat, m, b, g)
    BY <2>1, <2>3, Recursion
  <2>5. f \in [0..m -> Nat] /\ f[0] = b /\ \A i \in 1..m : f[i] = f[i - 1] + l[i]
    <3>1. f \in [0..m -> Nat] /\ f[0] = b /\ \A i \in 1..m : f[i] = g[f[i - 1], i]
      BY <2>4 DEF Solves
    <3>2. \A i \in 1..m : f[i - 1] \in Nat
      <4> SUFFICES ASSUME NEW i \in 1..m PROVE f[i - 1] \in Nat
        OBVIOUS
      <4>1. i - 1 \in 0..m
        BY <2>1
      <4> QED
        BY <3>1, <4>1
    <3> QED
      BY <2>2, <3>1, <3>2 DEF next
  <2> DEFINE at == [i \in 1..n |-> f[i - 1]]
  <2>6. ASSUME NEW i \in 1..n, i # 1 PROVE f[i - 1] = at[i - 1] + l[i - 1]
    <3>1. i - 1 \in 1..m /\ i - 1 \in 1..n
      BY <2>6 DEF m
    <3>2. at[i - 1] = f[(i - 1) - 1]
      BY <3>1
    <3>3. f[i - 1] = f[(i - 1) - 1] + l[i - 1]
      BY <2>5, <3>1
    <3> QED
      BY <3>2, <3>3
  <2>7. at = [i \in 1..n |-> IF i = 1 THEN b ELSE at[i - 1] + l[i - 1]]
    <3> DEFINE at2 == [i \in 1..n |-> IF i = 1 THEN b ELSE at[i - 1] + l[i - 1]]
    <3>1. ASSUME NEW i \in 1..n PROVE f[i - 1] = IF i = 1 THEN b ELSE at[i - 1] + l[i - 1]
      <4> HIDE DEF at
      <4> QED
        BY <2>5, <2>6
    <3>2. at2 = at
      <4> DEFINE alt(i) == IF i = 1 THEN b ELSE at[i - 1] + l[i - 1]
      <4>1. \A i \in 1..n : f[i - 1] = alt(i)
        BY <3>1
      <4> HIDE DEF alt
      <4>2. [i \in 1..n |-> f[i - 1]] = [i \in 1..n |-> alt(i)]
        BY <4>1
      <4> QED
        BY <4>2 DEF alt
    <3> QED
      BY <3>2
  <2> HIDE DEF at
  <2>8. PlacesOf(at, n, b, l)
    BY <2>7 DEF PlacesOf
  <2> QED
    BY <2>8
<1> QED
  BY <1>1, <1>2

\* They are numbers.
LEMMA PlacesTyped ==
  ASSUME NEW n \in Nat, NEW b \in Nat, NEW l \in Extents(n), NEW at, PlacesOf(at, n, b, l)
  PROVE  Places(at, n, b, l)
<1>1. /\ DOMAIN at = 1..n /\ at = [i \in 1..n |-> at[i]]
      /\ \A i \in 1..n : at[i] = IF i = 1 THEN b ELSE at[i - 1] + l[i - 1]
  BY DEF PlacesOf
<1> DEFINE T == {i \in 0..n : i > 0 => at[i] \in Nat}
<1>2. 0 \in T
  OBVIOUS
<1>3. ASSUME NEW i \in 0..n, i \in T, i < n PROVE i + 1 \in T
  <2>1. i + 1 \in 1..n /\ i + 1 \in 0..n /\ (i + 1) - 1 = i
    BY <1>3
  <2>2. at[i + 1] = IF i + 1 = 1 THEN b ELSE at[i] + l[i]
    BY <1>1, <2>1
  <2>3. i > 0 => at[i] \in Nat /\ l[i] \in Nat
    BY <1>3 DEF Extents
  <2>4. at[i + 1] \in Nat
    BY <2>2, <2>3
  <2> QED
    BY <2>1, <2>4
<1>4. 0..n \subseteq T
  <2> HIDE DEF T
  <2> QED
    BY <1>2, <1>3, UpTo
<1>5. \A i \in 1..n : at[i] \in Nat
  BY <1>4
<1>6. at \in [1..n -> Nat]
  BY <1>1, <1>5
<1> QED
  BY <1>1, <1>6 DEF Places

\* Each part ends where a later one begins, or before.
LEMMA PlacesOrdered ==
  ASSUME NEW n \in Nat, NEW b \in Nat, NEW l \in Extents(n), NEW at, Places(at, n, b, l),
         NEW i \in 1..n, NEW j \in 1..n, i < j
  PROVE  at[i] + l[i] <= at[j]
<1> DEFINE T == {k \in 0..n : k > i => at[i] + l[i] <= at[k]}
<1>1. \A k \in 1..n : at[k] \in Nat /\ l[k] \in Nat
  BY DEF Places, Extents
<1>2. 0 \in T
  OBVIOUS
<1>3. ASSUME NEW k \in 0..n, k \in T, k < n PROVE k + 1 \in T
  <2>1. k + 1 \in 1..n /\ k + 1 \in 0..n /\ (k + 1) - 1 = k
    BY <1>3
  <2>2. CASE k > i
    <3>1. k \in 1..n /\ at[i] + l[i] <= at[k] /\ k + 1 # 1
      BY <1>3, <2>2
    <3>2. at[k + 1] = at[k] + l[k]
      BY <2>1, <3>1 DEF Places
    <3>3. at[i] + l[i] <= at[k + 1]
      BY <1>1, <3>1, <3>2
    <3> QED
      BY <2>1, <3>3
  <2>3. CASE k = i
    <3>1. at[k + 1] = at[k] + l[k]
      BY <2>1, <2>3 DEF Places
    <3>2. at[i] + l[i] <= at[k + 1]
      BY <1>1, <2>3, <3>1
    <3> QED
      BY <2>1, <3>2
  <2>4. CASE k < i
    BY <2>1, <2>4
  <2> QED
    BY <2>2, <2>3, <2>4
<1>4. 0..n \subseteq T
  <2> HIDE DEF T
  <2> QED
    BY <1>2, <1>3, UpTo
<1> QED
  BY <1>4

\* What is kept by going behind a part holds of every place, if it holds of the first.
LEMMA PlacesIn ==
  ASSUME NEW n \in Nat, NEW b \in Nat, NEW l \in Extents(n), NEW at, Places(at, n, b, l),
         NEW S, b \in S,
         \A i \in 1..n, x \in Nat : x \in S => x + l[i] \in S
  PROVE  \A i \in 1..n : at[i] \in S
<1> DEFINE T == {k \in 0..n : k > 0 => at[k] \in S}
<1>1. \A k \in 1..n : at[k] \in Nat /\ l[k] \in Nat
  BY DEF Places, Extents
<1>2. 0 \in T
  OBVIOUS
<1>3. ASSUME NEW k \in 0..n, k \in T, k < n PROVE k + 1 \in T
  <2>1. k + 1 \in 1..n /\ k + 1 \in 0..n /\ (k + 1) - 1 = k
    BY <1>3
  <2>2. CASE k = 0
    BY <2>1, <2>2 DEF Places
  <2>3. CASE k > 0
    <3>1. k \in 1..n /\ at[k] \in S /\ k + 1 # 1
      BY <1>3, <2>3
    <3>2. at[k + 1] = at[k] + l[k]
      BY <2>1, <3>1 DEF Places
    <3>3. at[k] + l[k] \in S
      BY <1>1, <3>1
    <3> QED
      BY <2>1, <3>2, <3>3
  <2> QED
    BY <2>2, <2>3
<1>4. 0..n \subseteq T
  <2> HIDE DEF T
  <2> QED
    BY <1>2, <1>3, UpTo
<1> QED
  BY <1>4

-------------------------------------------------------------------------------
(***************************************************************************)
(* internal/uki.                                                           *)
(***************************************************************************)
\* Division with remainder.
LEMMA DivMod ==
  ASSUME NEW n \in Nat, NEW a \in Nat, a > 0
  PROVE  /\ n \div a \in Nat /\ n % a \in 0..a-1
         /\ n = (n \div a) * a + (n % a)
BY SMT

\* AlignUp rounds up, by less than one unit.
LEMMA AlignUpBounds ==
  ASSUME NEW n \in Nat, NEW a \in Nat, a > 0
  PROVE  AlignUp(n, a) \in Nat /\ n <= AlignUp(n, a) /\ AlignUp(n, a) < n + a
<1> DEFINE m == n + a - 1
<1>1. m \in Nat
  OBVIOUS
<1>2. m \div a \in Nat /\ m % a \in 0..a-1 /\ m = (m \div a) * a + (m % a)
  BY <1>1, DivMod
<1>3. (m \div a) * a \in Nat
  BY <1>2
<1> HIDE DEF m
<1>4. (m \div a) * a = m - (m % a)
  BY <1>1, <1>2, <1>3
<1> QED
  BY <1>1, <1>2, <1>3, <1>4 DEF AlignUp, m

\* To a multiple of eight, if the unit is one.
LEMMA AlignUpMultiple ==
  ASSUME NEW n \in Nat, NEW a \in Nat, a > 0, NEW k \in Nat, a = 8 * k
  PROVE  \E z \in Nat : AlignUp(n, a) = 8 * z
<1> DEFINE q == (n + a - 1) \div a
<1>1. n + a - 1 \in Nat
  OBVIOUS
<1>2. q \in Nat
  BY <1>1, DivMod
<1> HIDE DEF q
<1>3. q * k \in Nat /\ q * a = 8 * (q * k)
  BY <1>2
<1> QED
  BY <1>3 DEF AlignUp, q

\* The headers of a UKI of any number of sections end before its first section:
\* SizeOfHeaders forgets the four bytes of the PE signature (native.go:166), which
\* never matters because headers are multiples of eight bytes behind it.
THEOREM HeadersFit ==
  ASSUME NEW n \in Nat
  PROVE  HeadersEnd(n) <= SizeOfHeaders(n)
<1> DEFINE m == DosHeaders + 20 + 240 + 40 * n
<1>1. m \in Nat /\ HeadersEnd(n) = m + 4 /\ m = 4 + 8 * (48 + 5 * n)
  BY DEF HeadersEnd, DosHeaders
<1>2. PICK k \in Nat : FileAlignment = 8 * k
  BY PeAssumption
<1> HIDE DEF m
<1>3. PICK z \in Nat : AlignUp(m, FileAlignment) = 8 * z
  BY <1>1, <1>2, AlignUpMultiple, PeAssumption
<1>4. m <= AlignUp(m, FileAlignment)
  BY <1>1, AlignUpBounds, PeAssumption
<1>5. 4 + 8 * (48 + 5 * n) <= 8 * z
  BY <1>1, <1>3, <1>4
<1>6. m + 4 <= 8 * z
  BY <1>1, <1>5
<1> QED
  BY <1>1, <1>3, <1>6 DEF SizeOfHeaders, m

\* A file that is added to a UKI is loaded whole, behind everything before it
\* (native.go:132-162).
THEOREM AddedBehind ==
  ASSUME NEW last \in [address : Nat, virtual : Nat, size : Nat], NEW file \in Nat
  PROVE  /\ last.address + last.virtual <= Behind(last)
         /\ file <= AlignUp(file, FileAlignment)
<1>1. last.address + last.virtual \in Nat
  OBVIOUS
<1>2. last.address + last.virtual <= AlignUp(last.address + last.virtual, SectionAlignment)
  BY <1>1, AlignUpBounds, PeAssumption
<1>3. file <= AlignUp(file, FileAlignment)
  BY AlignUpBounds, PeAssumption
<1> QED
  BY <1>2, <1>3 DEF Behind

\* A multiple leaves no remainder.
LEMMA MultipleMod ==
  ASSUME NEW q \in Nat, NEW a \in Nat, a > 0
  PROVE  q * a \in Nat /\ (q * a) % a = 0
<1> DEFINE m == q * a
           d == m \div a
           r == m % a
<1>1. m \in Nat
  OBVIOUS
<1>2. d \in Nat /\ r \in 0..a-1 /\ m = d * a + r
  BY <1>1, DivMod
<1>3. q - d \in Int /\ (q - d) * a = r
  <2> HIDE DEF d, r
  <2>1. q * a = d * a + r
    BY <1>2
  <2> QED
    BY <1>2, <2>1
<1> HIDE DEF m, d, r
<1>4. q - d <= 0
  <2> SUFFICES ASSUME q - d >= 1 PROVE FALSE
    BY <1>3
  <2>1. (q - d) * a >= a
    BY <1>3
  <2> QED
    BY <1>2, <1>3, <2>1
<1>5. q - d >= 0
  <2> SUFFICES ASSUME q - d <= -1 PROVE FALSE
    BY <1>3
  <2>1. (q - d) * a < 0
    BY <1>3
  <2> QED
    BY <1>2, <1>3, <2>1
<1>6. r = 0
  BY <1>2, <1>3, <1>4, <1>5
<1> QED
  BY <1>1, <1>6 DEF m, r

\* AlignUp gives a multiple.
LEMMA AlignUpMod ==
  ASSUME NEW n \in Nat, NEW a \in Nat, a > 0
  PROVE  AlignUp(n, a) % a = 0
<1>1. n + a - 1 \in Nat
  OBVIOUS
<1>2. (n + a - 1) \div a \in Nat
  BY <1>1, DivMod
<1> QED
  BY <1>2, MultipleMod DEF AlignUp

\* Multiples add up to a multiple.
LEMMA SumMod ==
  ASSUME NEW x \in Nat, NEW y \in Nat, NEW a \in Nat, a > 0, x % a = 0, y % a = 0
  PROVE  (x + y) % a = 0
<1> DEFINE p == x \div a
           q == y \div a
<1>1. p \in Nat /\ q \in Nat /\ x = p * a + 0 /\ y = q * a + 0
  BY DivMod
<1> HIDE DEF p, q
<1>2. p + q \in Nat /\ x + y = (p + q) * a
  BY <1>1
<1>3. ((p + q) * a) % a = 0
  BY <1>2, MultipleMod
<1> QED
  BY <1>2, <1>3

Section == [address : Nat, virtual : Nat, size : Nat]

\* Sections as the PE format demands them.
Laid(sections) ==
  /\ sections \in Seq(Section) /\ sections # <<>>
  /\ InMemory(sections)
  /\ \A i \in DOMAIN sections : sections[i].size % FileAlignment = 0

\* What InMemory says, section by section.
LEMMA InMemoryIs ==
  ASSUME NEW s \in Seq(Section)
  PROVE  InMemory(s) <=>
           /\ \A i, j \in 1..Len(s) : i < j => s[i].address + s[i].virtual <= s[j].address
           /\ \A i \in 1..Len(s) : /\ s[i].address % SectionAlignment = 0
                                   /\ s[i].address + s[i].virtual <= SizeOfImage(s)
           /\ SizeOfImage(s) % SectionAlignment = 0
<1>1. DOMAIN s = 1..Len(s)
  OBVIOUS
<1> QED
  BY <1>1 DEF InMemory, Ordered

\* Where something behind a section can begin.
LEMMA BehindFacts ==
  ASSUME NEW e \in Section
  PROVE  /\ Behind(e) \in Nat /\ e.address + e.virtual <= Behind(e)
         /\ Behind(e) % SectionAlignment = 0
<1>1. e.address + e.virtual \in Nat
  BY DEF Section
<1> QED
  BY <1>1, AlignUpBounds, AlignUpMod, PeAssumption DEF Behind

\* A file that is added keeps the layout, is behind everything, and is loaded whole.
LEMMA AddedKeepsLayout ==
  ASSUME NEW s, Laid(s), NEW file \in Nat
  PROVE  /\ Laid(Append1(s, file))
         /\ Len(Append1(s, file)) = Len(s) + 1
         /\ \A i \in 1..Len(s) : Append1(s, file)[i] = s[i]
         /\ Append1(s, file)[Len(s) + 1].virtual <= Append1(s, file)[Len(s) + 1].size
<1> DEFINE n == Len(s)
           e == [address |-> Behind(Last(s)),
                 virtual |-> file, size |-> AlignUp(file, FileAlignment)]
           t == Append(s, e)
<1>1. s \in Seq(Section) /\ n \in Nat /\ n >= 1 /\ Last(s) = s[n] /\ s[n] \in Section
  BY DEF Laid, Last
<1>2. /\ Behind(Last(s)) \in Nat /\ s[n].address + s[n].virtual <= Behind(Last(s))
      /\ Behind(Last(s)) % SectionAlignment = 0
  BY <1>1, BehindFacts
<1>3. /\ AlignUp(file, FileAlignment) \in Nat /\ file <= AlignUp(file, FileAlignment)
      /\ AlignUp(file, FileAlignment) % FileAlignment = 0
  BY AlignUpBounds, AlignUpMod, PeAssumption
<1>4. e \in Section
  BY <1>2, <1>3 DEF Section
<1>e. /\ e.address = SizeOfImage(s) /\ e.virtual = file /\ file <= e.size
      /\ e.size % FileAlignment = 0 /\ e.address % SectionAlignment = 0
  BY <1>2, <1>3 DEF SizeOfImage
<1>a. Append1(s, file) = t
  BY DEF Append1
<1> HIDE DEF e
<1>5. /\ t \in Seq(Section) /\ Len(t) = n + 1 /\ t[n + 1] = e
      /\ \A i \in 1..n : t[i] = s[i]
  BY <1>1, <1>4, AppendFacts
<1> HIDE DEF t, n
<1>6. Last(t) = e /\ SizeOfImage(t) = Behind(e)
  BY <1>1, <1>5 DEF Last, SizeOfImage
<1>7. /\ SizeOfImage(t) \in Nat /\ e.address + e.virtual <= SizeOfImage(t)
      /\ SizeOfImage(t) % SectionAlignment = 0
  BY <1>4, <1>6, BehindFacts
<1>8. /\ \A i, j \in 1..n : i < j => s[i].address + s[i].virtual <= s[j].address
      /\ \A i \in 1..n : /\ s[i].address % SectionAlignment = 0
                         /\ s[i].address + s[i].virtual <= SizeOfImage(s)
  BY <1>1, InMemoryIs DEF Laid, n
<1>9. \A i \in 1..n + 1 : i \in 1..n \/ i = n + 1
  BY <1>1
<1>10. \A i \in 1..n : s[i].address + s[i].virtual \in Nat
  <2>1. \A i \in 1..n : s[i] \in Section
    BY <1>1 DEF n
  <2> QED
    BY <2>1 DEF Section
<1>11. \A i, j \in 1..n + 1 : i < j => t[i].address + t[i].virtual <= t[j].address
  <2> SUFFICES ASSUME NEW i \in 1..n + 1, NEW j \in 1..n + 1, i < j
               PROVE  t[i].address + t[i].virtual <= t[j].address
    OBVIOUS
  <2>1. i \in 1..n /\ t[i] = s[i]
    BY <1>1, <1>5
  <2>2. CASE j \in 1..n
    BY <1>5, <1>8, <2>1, <2>2
  <2>3. CASE j = n + 1
    BY <1>5, <1>8, <1>e, <2>1, <2>3
  <2> QED
    BY <1>9, <2>2, <2>3
<1>12. \A i \in 1..n + 1 : /\ t[i].address % SectionAlignment = 0
                           /\ t[i].address + t[i].virtual <= SizeOfImage(t)
  <2> SUFFICES ASSUME NEW i \in 1..n + 1
               PROVE  /\ t[i].address % SectionAlignment = 0
                      /\ t[i].address + t[i].virtual <= SizeOfImage(t)
    OBVIOUS
  <2>1. CASE i \in 1..n
    <3>1. e.address \in Nat /\ e.virtual \in Nat
      BY <1>4 DEF Section
    <3>2. /\ t[i] = s[i] /\ s[i].address + s[i].virtual <= e.address
          /\ s[i].address % SectionAlignment = 0
      BY <1>5, <1>8, <1>e, <2>1
    <3> QED
      BY <1>7, <1>10, <2>1, <3>1, <3>2
  <2>2. CASE i = n + 1
    BY <1>5, <1>7, <1>e, <2>2
  <2> QED
    BY <1>9, <2>1, <2>2
<1>13. InMemory(t)
  BY <1>5, <1>7, <1>11, <1>12, InMemoryIs
<1>14. \A i \in DOMAIN t : t[i].size % FileAlignment = 0
  <2>1. DOMAIN t = 1..n + 1 /\ DOMAIN s = 1..n
    BY <1>1, <1>5 DEF n
  <2>2. \A i \in 1..n : s[i].size % FileAlignment = 0
    BY <2>1 DEF Laid
  <2> QED
    BY <1>5, <1>9, <1>e, <2>1, <2>2
<1>15. Laid(t)
  BY <1>1, <1>5, <1>13, <1>14 DEF Laid
<1>16. t[n + 1].virtual <= t[n + 1].size
  BY <1>5, <1>e
<1> QED
  BY <1>5, <1>15, <1>16, <1>a DEF n

\* The recursive function of Sections, named.
Added(stub, files) ==
  CHOOSE added : added = [i \in 0..Len(files) |->
    IF i = 0 THEN stub ELSE Append1(added[i - 1], files[i])]

\* Its last value is what Sections gives.
LEMMA SectionsIsAdded ==
  \A stub, files : Sections(stub, files) = Added(stub, files)[Len(files)]
BY DEF Sections, Added

\* Each file is added to a layout that is kept.
LEMMA AddedOneByOne ==
  ASSUME NEW stub, Laid(stub), NEW files \in Seq(Nat)
  PROVE  /\ Added(stub, files)[0] = stub
         /\ \A i \in 1..Len(files) :
              Added(stub, files)[i] = Append1(Added(stub, files)[i - 1], files[i])
         /\ \A i \in 0..Len(files) : Laid(Added(stub, files)[i])
<1> DEFINE m == Len(files)
           S == {t \in Seq(Section) : Laid(t)}
           a == Added(stub, files)
           next(t, i) == Append1(t, files[i])
           g == [x \in S \X (1..m) |-> next(x[1], x[2])]
<1>1. m \in Nat /\ stub \in S /\ \A i \in 1..m : files[i] \in Nat
  BY DEF Laid
<1>2. \A t \in S, i \in 1..m : next(t, i) \in S
  <2> SUFFICES ASSUME NEW t \in S, NEW i \in 1..m PROVE next(t, i) \in S
    OBVIOUS
  <2>1. Laid(t) /\ files[i] \in Nat
    BY <1>1
  <2>2. Laid(Append1(t, files[i]))
    BY <2>1, AddedKeepsLayout
  <2> QED
    BY <2>2 DEF Laid
<1> HIDE DEF next
<1>3. /\ g \in [S \X (1..m) -> S]
      /\ \A t \in S, i \in 1..m : g[t, i] = next(t, i)
  <2> HIDE DEF S
  <2> QED
    BY <1>2
<1>4. g \in Steps(S, m)
  BY <1>3 DEF Steps
<1> HIDE DEF g, m, S
<1>5. PICK f : Solves(f, S, m, stub, g)
  BY <1>1, <1>4, Recursion
<1>6. f = [i \in 0..m |-> IF i = 0 THEN stub ELSE next(f[i - 1], i)]
  <2>1. \A i \in 0..m : i # 0 => i \in 1..m /\ i - 1 \in 0..m
    BY <1>1
  <2> QED
    BY <1>3, <1>5, <2>1 DEF Solves
<1>7. a = [i \in 0..m |-> IF i = 0 THEN stub ELSE next(a[i - 1], i)]
  BY <1>6 DEF Added, m, next
<1> HIDE DEF a
<1>8. a[0] = stub /\ \A i \in 1..m : a[i] = next(a[i - 1], i)
  BY <1>1, <1>7
<1>9. Follows(a, S, m, stub, g)
  BY <1>3, <1>7, <1>8 DEF Follows
<1>10. Solves(a, S, m, stub, g)
  BY <1>1, <1>4, <1>9, RecursionTyped
<1>11. \A i \in 0..m : Laid(a[i])
  <2>1. \A i \in 0..m : a[i] \in S
    BY <1>10 DEF Solves
  <2> QED
    BY <2>1 DEF S
<1> QED
  BY <1>8, <1>11 DEF a, m, next

\* What Sections makes: the stub's sections, and behind them one for each file, which
\* is as long in the file as it needs.
LEMMA SectionsLaid ==
  ASSUME NEW stub, Laid(stub), NEW files \in Seq(Nat)
  PROVE  /\ Laid(Sections(stub, files))
         /\ Len(Sections(stub, files)) = Len(stub) + Len(files)
         /\ \A i \in 1..Len(stub) : Sections(stub, files)[i] = stub[i]
         /\ \A i \in Len(stub)+1..Len(stub)+Len(files) :
              Sections(stub, files)[i].virtual <= Sections(stub, files)[i].size
<1> DEFINE m == Len(files)
           n == Len(stub)
           a == Added(stub, files)
           Good(k) == /\ Len(a[k]) = n + k
                      /\ \A i \in 1..n : a[k][i] = stub[i]
                      /\ \A i \in n+1..n+k : a[k][i].virtual <= a[k][i].size
           T == {k \in 0..m : Good(k)}
<1>1. m \in Nat /\ n \in Nat /\ \A i \in 1..m : files[i] \in Nat
  BY DEF Laid
<1>2. /\ a[0] = stub /\ \A i \in 1..m : a[i] = Append1(a[i - 1], files[i])
      /\ \A i \in 0..m : Laid(a[i])
  BY AddedOneByOne
<1> HIDE DEF a
<1>3. 0 \in T
  BY <1>1, <1>2
<1>4. ASSUME NEW k \in 0..m, k \in T, k < m PROVE k + 1 \in T
  <2>1. k + 1 \in 1..m /\ k + 1 \in 0..m /\ (k + 1) - 1 = k /\ Good(k) /\ files[k + 1] \in Nat
    BY <1>1, <1>4
  <2>2. a[k + 1] = Append1(a[k], files[k + 1]) /\ Laid(a[k])
    BY <1>2, <2>1
  <2>3. /\ Len(a[k + 1]) = Len(a[k]) + 1
        /\ \A i \in 1..Len(a[k]) : a[k + 1][i] = a[k][i]
        /\ a[k + 1][Len(a[k]) + 1].virtual <= a[k + 1][Len(a[k]) + 1].size
    BY <2>1, <2>2, AddedKeepsLayout
  <2>4. Len(a[k]) = n + k
    BY <2>1
  <2>5. Len(a[k + 1]) = n + (k + 1)
    BY <1>1, <2>3, <2>4
  <2>6. \A i \in 1..n : a[k + 1][i] = stub[i]
    <3>1. \A i \in 1..n : i \in 1..n + k
      BY <1>1
    <3> QED
      BY <2>1, <2>3, <2>4, <3>1
  <2>7. \A i \in n+1..n+(k+1) : a[k + 1][i].virtual <= a[k + 1][i].size
    <3> SUFFICES ASSUME NEW i \in n+1..n+(k+1) PROVE a[k + 1][i].virtual <= a[k + 1][i].size
      OBVIOUS
    <3>1. CASE i = n + k + 1
      BY <2>3, <2>4, <3>1
    <3>2. CASE i # n + k + 1
      <4>1. i \in n+1..n+k /\ i \in 1..n + k
        BY <1>1, <3>2, SMTT(30)
      <4> QED
        BY <2>1, <2>3, <2>4, <4>1
    <3> QED
      BY <3>1, <3>2
  <2> QED
    BY <2>1, <2>5, <2>6, <2>7
<1>5. 0..m \subseteq T
  <2> HIDE DEF T
  <2> QED
    BY <1>1, <1>3, <1>4, UpTo
<1>6. m \in 0..m /\ Good(m) /\ Laid(a[m])
  <2>1. m \in 0..m
    BY <1>1
  <2>2. m \in T
    BY <1>5, <2>1
  <2>3. Good(m)
    BY <2>2
  <2> HIDE DEF Good
  <2> QED
    BY <1>2, <2>1, <2>3
<1>7. Sections(stub, files) = a[m]
  BY SectionsIsAdded DEF a, m
<1> QED
  BY <1>6, <1>7

\* Where AssembleNative puts the sections in the file.
LEMMA PointerPlaces ==
  ASSUME NEW s \in Seq(Section),
         NEW l, l = [i \in 1..Len(s) |-> s[i].size], l \in Extents(Len(s))
  PROVE  Places(Pointer(s), Len(s), SizeOfHeaders(Len(s)), l)
<1> DEFINE n == Len(s)
           b == SizeOfHeaders(n)
<1>1. n \in Nat /\ DOMAIN s = 1..n /\ l \in Extents(n)
  OBVIOUS
<1>2. b \in Nat
  <2> HIDE DEF n
  <2>1. DosHeaders + 20 + 240 + 40 * n \in Nat
    BY <1>1 DEF DosHeaders
  <2> QED
    BY <2>1, AlignUpBounds, PeAssumption DEF SizeOfHeaders
<1>3. PICK at : PlacesOf(at, n, b, l)
  <2> HIDE DEF n, b
  <2> QED
    BY <1>1, <1>2, PlacesExist
<1>4. ASSUME NEW f
      PROVE  PlacesOf(f, n, b, l) <=>
               f = [i \in DOMAIN s |-> IF i = 1 THEN SizeOfHeaders(Len(s))
                                       ELSE f[i - 1] + s[i - 1].size]
  <2>1. \A i \in 1..n : i # 1 => i - 1 \in 1..n
    BY <1>1
  <2>2. \A i \in 1..n : i # 1 => l[i - 1] = s[i - 1].size
    BY <2>1
  <2> HIDE DEF n, b
  <2>3. [i \in 1..n |-> IF i = 1 THEN b ELSE f[i - 1] + l[i - 1]]
        = [i \in 1..n |-> IF i = 1 THEN b ELSE f[i - 1] + s[i - 1].size]
    BY <2>2
  <2> QED
    BY <1>1, <2>3 DEF PlacesOf, b, n
<1>5. PlacesOf(Pointer(s), n, b, l)
  BY <1>3, <1>4 DEF Pointer
<1> QED
  BY <1>1, <1>2, <1>5, PlacesTyped

\* Sections whose sizes are multiples are apart and aligned in the file.
LEMMA LaidInFile ==
  ASSUME NEW s, Laid(s)
  PROVE  InFile(s)
<1> DEFINE n == Len(s)
           b == SizeOfHeaders(n)
           l == [i \in 1..n |-> s[i].size]
           p == Pointer(s)
           end == [i \in DOMAIN s |-> p[i] + s[i].size]
           Multiples == {x \in Nat : x % FileAlignment = 0}
<1>1. /\ s \in Seq(Section) /\ n \in Nat /\ n >= 1 /\ DOMAIN s = 1..n
      /\ \A i \in 1..n : s[i] \in Section /\ s[i].size % FileAlignment = 0
  BY DEF Laid
<1>2. /\ l \in Extents(n)
      /\ \A i \in 1..n : l[i] \in Nat /\ l[i] = s[i].size /\ l[i] % FileAlignment = 0
  <2>1. \A i \in 1..n : s[i].size \in Nat
    BY <1>1 DEF Section
  <2> QED
    BY <1>1, <2>1 DEF Extents
<1>3. Places(p, n, b, l)
  BY <1>1, <1>2, PointerPlaces
<1>4. b \in Nat /\ HeadersEnd(n) <= b /\ b % FileAlignment = 0
  <2> HIDE DEF n
  <2>1. DosHeaders + 20 + 240 + 40 * n \in Nat
    BY <1>1 DEF DosHeaders
  <2> QED
    BY <1>1, <2>1, HeadersFit, AlignUpBounds, AlignUpMod, PeAssumption DEF SizeOfHeaders
<1> HIDE DEF n, b, l, p, Multiples
<1>5. b \in Multiples /\ \A i \in 1..n, x \in Nat : x \in Multiples => x + l[i] \in Multiples
  <2>1. \A i \in 1..n, x \in Nat : x % FileAlignment = 0 => (x + l[i]) % FileAlignment = 0
    BY <1>2, SumMod, PeAssumption
  <2>2. \A i \in 1..n, x \in Nat : x + l[i] \in Nat
    BY <1>2
  <2> QED
    BY <1>4, <2>1, <2>2 DEF Multiples
<1>6. \A i \in 1..n : p[i] \in Multiples
  BY <1>1, <1>2, <1>3, <1>4, <1>5, PlacesIn
<1>7. \A i, j \in 1..n : i < j => p[i] + l[i] <= p[j]
  BY <1>1, <1>2, <1>3, <1>4, PlacesOrdered
<1>8. DOMAIN p = 1..n /\ p[1] = b /\ \A i \in 1..n : p[i] % FileAlignment = 0
  BY <1>1, <1>3, <1>6 DEF Places, Multiples
<1>9. Ordered(p, end)
  <2>1. \A i \in 1..n : end[i] = p[i] + l[i]
    BY <1>1, <1>2
  <2> HIDE DEF end
  <2> QED
    BY <1>7, <1>8, <2>1 DEF Ordered
<1> QED
  BY <1>4, <1>8, <1>9 DEF InFile, n, p

\* Every part of a UKI is loaded whole and on its own, whatever the stub's sections
\* and however long the files: headers and sections are apart in the file and in
\* memory, and no file that was added is longer in memory than in the file
\* (native.go:132-200, pe.go).
THEOREM UkiLoads ==
  ASSUME NEW stub, Laid(stub), NEW files \in Seq(Nat)
  PROVE  LET sections == Sections(stub, files)
         IN  /\ InFile(sections) /\ InMemory(sections)
             /\ \A i \in Len(stub)+1..Len(sections) : sections[i].virtual <= sections[i].size
<1> DEFINE s == Sections(stub, files)
<1>1. /\ Laid(s) /\ Len(s) = Len(stub) + Len(files)
      /\ \A i \in Len(stub)+1..Len(stub)+Len(files) : s[i].virtual <= s[i].size
  BY SectionsLaid
<1>2. InFile(s)
  BY <1>1, LaidInFile
<1> QED
  BY <1>1, <1>2 DEF Laid

\* The stub of the runs is laid out so, for all alignments.
LEMMA StubLaid ==
  ASSUME NEW n \in Nat, n >= 1
  PROVE  Laid(Stub(n)) /\ Len(Stub(n)) = n
<1> DEFINE s == Stub(n)
           A == SectionAlignment
           virtual(i) == (77 * i) % A
           part(i) == [address |-> i * A, virtual |-> virtual(i), size |-> FileAlignment]
<1>1. A \in Nat /\ A > 0
  BY PeAssumption
<1>2. \A i \in 1..n : /\ virtual(i) \in Nat /\ virtual(i) < A
                      /\ i * A \in Nat /\ (i * A) % A = 0
  <2> SUFFICES ASSUME NEW i \in 1..n
               PROVE  /\ virtual(i) \in Nat /\ virtual(i) < A
                      /\ i * A \in Nat /\ (i * A) % A = 0
    OBVIOUS
  <2>1. 77 * i \in Nat /\ i \in Nat
    OBVIOUS
  <2> HIDE DEF A
  <2> QED
    BY <1>1, <2>1, DivMod, MultipleMod
<1>3. s = [i \in 1..n |-> part(i)]
  BY DEF Stub
<1> HIDE DEF s, virtual, A
<1>4. s \in Seq(Section) /\ Len(s) = n /\ DOMAIN s = 1..n
  <2>1. \A i \in 1..n : part(i) \in Section
    BY <1>2, PeAssumption DEF Section
  <2> QED
    BY <1>3, <2>1
<1>5. \A i \in 1..n : /\ s[i].address = i * A /\ s[i].virtual = virtual(i)
                      /\ s[i].size = FileAlignment
  BY <1>3
<1>6. \A i, j \in 1..n : i < j => s[i].address + s[i].virtual <= s[j].address
  <2> SUFFICES ASSUME NEW i \in 1..n, NEW j \in 1..n, i < j
               PROVE  i * A + virtual(i) <= j * A
    BY <1>5
  <2>1. i * A + A <= j * A
    <3>1. j - i >= 1 /\ j - i \in Nat
      OBVIOUS
    <3>2. (j - i) * A >= A
      BY <1>1, <3>1
    <3>3. (j - i) * A = j * A - i * A
      BY <1>1
    <3> QED
      BY <1>1, <1>2, <3>2, <3>3
  <2> QED
    BY <1>1, <1>2, <2>1
<1>7. n \in 1..n /\ Last(s) = s[n] /\ s[n] \in Section
  BY <1>4 DEF Last
<1>8. /\ SizeOfImage(s) \in Nat /\ s[n].address + s[n].virtual <= SizeOfImage(s)
      /\ SizeOfImage(s) % SectionAlignment = 0
  BY <1>7, BehindFacts DEF SizeOfImage
<1>9. \A i \in 1..n : s[i].address + s[i].virtual <= SizeOfImage(s)
  <2> SUFFICES ASSUME NEW i \in 1..n, i # n PROVE s[i].address + s[i].virtual <= SizeOfImage(s)
    BY <1>8
  <2>1. s[i].address + s[i].virtual <= s[n].address
    BY <1>6, <1>7
  <2>2. s[i].address + s[i].virtual \in Nat /\ s[n].address \in Nat /\ s[n].virtual \in Nat
    <3>1. s[i] \in Section
      BY <1>4
    <3> QED
      BY <1>7, <3>1 DEF Section
  <2> QED
    BY <1>8, <2>1, <2>2
<1>10. InMemory(s)
  <2>1. \A i \in 1..n : s[i].address % SectionAlignment = 0
    BY <1>2, <1>5 DEF A
  <2> QED
    BY <1>4, <1>6, <1>8, <1>9, <2>1, InMemoryIs
<1>11. \A i \in DOMAIN s : s[i].size % FileAlignment = 0
  BY <1>4, <1>5, MultipleMod, PeAssumption
<1>12. Laid(s)
  BY <1>4, <1>10, <1>11 DEF Laid
<1> QED
  BY <1>4, <1>12 DEF s

\* So the UKI is loadable by the firmware whenever a build pushes it (native.go:154).
THEOREM UkiIsLoadable == Spec => []SectionsLoad
<1>1. AllSectionsLoad
  <2> SUFFICES ASSUME NEW n \in 1..16, NEW cmdline \in {1, 511, 512, 513},
                      NEW osrel \in {1, 511, 512, 513},
                      NEW initrd \in Lengths, NEW linux \in Lengths
               PROVE  LET sections == Sections(Stub(n), <<cmdline, osrel, initrd, linux>>)
                      IN  /\ InFile(sections) /\ InMemory(sections)
                          /\ \A i \in n+1..n+4 : sections[i].virtual <= sections[i].size
    BY DEF AllSectionsLoad
  <2> DEFINE files == <<cmdline, osrel, initrd, linux>>
             sections == Sections(Stub(n), files)
  <2>1. files \in Seq(Nat) /\ Len(files) = 4
    BY DEF Lengths
  <2>2. Laid(Stub(n)) /\ Len(Stub(n)) = n
    BY StubLaid
  <2> HIDE DEF files
  <2>3. /\ InFile(sections) /\ InMemory(sections)
        /\ \A i \in Len(Stub(n))+1..Len(sections) : sections[i].virtual <= sections[i].size
    BY <2>1, <2>2, UkiLoads
  <2>4. Len(sections) = n + 4
    <3>1. Len(sections) = Len(Stub(n)) + Len(files)
      <4> DEFINE stub == Stub(n)
      <4>1. Laid(stub) /\ files \in Seq(Nat)
        BY <2>1, <2>2
      <4> HIDE DEF stub
      <4>2. Len(Sections(stub, files)) = Len(stub) + Len(files)
        BY <4>1, SectionsLaid
      <4> QED
        BY <4>2 DEF stub
    <3> QED
      BY <2>1, <2>2, <3>1
  <2> QED
    BY <2>2, <2>3, <2>4 DEF files
<1>2. SectionsLoad
  BY <1>1 DEF SectionsLoad
<1> QED
  BY <1>2, PTL

-------------------------------------------------------------------------------
(***************************************************************************)
(* internal/initramfs.                                                     *)
(***************************************************************************)
\* A size in a field of 32 bits pads as the size itself.
LEMMA ModMod ==
  ASSUME NEW n \in Nat
  PROVE  (n % Uint32) % 4 = n % 4
<1> DEFINE q == n \div Uint32
           r == n % Uint32
<1>1. q \in Nat /\ r \in Nat /\ n = q * Uint32 + r
  BY DivMod, CpioAssumption
<1>2. PICK k \in Nat : Uint32 = 4 * k
  BY CpioAssumption
<1> HIDE DEF q, r
<1>3. q * k \in Nat /\ q * Uint32 = 4 * (q * k)
  BY <1>1, <1>2
<1>4. n = 4 * (q * k) + r
  BY <1>1, <1>3
<1>5. r % 4 = n % 4
  BY <1>1, <1>3, <1>4
<1> QED
  BY <1>5 DEF r

Entry == [name : Nat, size : Nat, copied : Nat]

\* What the kernel aligns to is what writeEntry pads to.
LEMMA AlignedPads ==
  ASSUME NEW o \in Nat, o % 4 = 0, NEW n \in Nat
  PROVE  Aligned(o + n) = o + n + PadToFour(n)
BY DEF Aligned, PadToFour

\* An entry that begins at a multiple of four, of a file below 4 GiB that did not
\* change: the kernel finds its data where writeEntry put it, and the next header
\* where the next entry begins, which is a multiple of four again
\* (cpio.go:186-190).  By induction, so it is for a whole archive.
THEOREM EntryUnpacks ==
  ASSUME NEW o \in Nat, o % 4 = 0, NEW e \in Entry, Accepted(e),
         e.size < Uint32, e.copied < Uint32
  PROVE  /\ DataAt(o, e) = o + DataOffset(e)
         /\ NextAt(o, e) = o + EntryLength(e)
         /\ (o + EntryLength(e)) % 4 = 0
<1> DEFINE h == HeaderLength + NameSize(e)
           d == h + PadToFour(h)
<1>1. h \in Nat
  BY DEF HeaderLength, NameSize, Entry
<1>2. FileSize(e) = e.size /\ e.copied = e.size /\ e.size \in Nat
  <2>1. e.size % Uint32 = e.size /\ e.copied % Uint32 = e.copied
    BY CpioAssumption, SMT DEF Entry
  <2> QED
    BY <2>1 DEF Accepted, FileSize, Entry
<1>3. PadToFour(h % Uint32) = PadToFour(h)
  BY <1>1, ModMod DEF PadToFour
<1>4. DataOffset(e) = d
  BY <1>3 DEF DataOffset
<1>5. DataAt(o, e) = o + d
  <2>1. DataAt(o, e) = Aligned(o + h)
    BY DEF DataAt, NameSize, HeaderLength, Entry
  <2> HIDE DEF h
  <2>2. Aligned(o + h) = o + h + PadToFour(h)
    BY <1>1, AlignedPads
  <2>3. o + h + PadToFour(h) = o + (h + PadToFour(h))
    BY <1>1 DEF PadToFour
  <2> QED
    BY <2>1, <2>2, <2>3
<1>6. d \in Nat /\ d % 4 = 0 /\ o + d \in Nat /\ (o + d) % 4 = 0
  BY <1>1 DEF PadToFour
<1> HIDE DEF d, h
<1>7. NextAt(o, e) = o + d + e.size + PadToFour(e.size)
  BY <1>2, <1>5, <1>6, AlignedPads DEF NextAt
<1>8. EntryLength(e) = d + e.size + PadToFour(e.size)
  BY <1>2, <1>4 DEF EntryLength
<1>9. (o + d + e.size + PadToFour(e.size)) % 4 = 0 /\ PadToFour(e.size) \in Nat
  BY <1>2, <1>6 DEF PadToFour
<1> QED
  BY <1>2, <1>4, <1>5, <1>6, <1>7, <1>8, <1>9

\* The recursive function of Offset, named for the lemmas about places.
LEMMA OffsetPlaces ==
  ASSUME NEW entries \in Seq(Entry),
         NEW l, l = [i \in 1..Len(entries) |-> EntryLength(entries[i])],
         l \in Extents(Len(entries))
  PROVE  Places(Offset(entries), Len(entries), 0, l)
<1> DEFINE n == Len(entries)
<1>1. n \in Nat /\ DOMAIN entries = 1..n /\ l \in Extents(n) /\ 0 \in Nat
  OBVIOUS
<1>2. PICK at : PlacesOf(at, n, 0, l)
  <2> HIDE DEF n
  <2> QED
    BY <1>1, PlacesExist
<1>3. ASSUME NEW f
      PROVE  PlacesOf(f, n, 0, l) <=>
               f = [i \in DOMAIN entries |-> IF i = 1 THEN 0
                                             ELSE f[i - 1] + EntryLength(entries[i - 1])]
  <2>1. \A i \in 1..n : i # 1 => i - 1 \in 1..n
    BY <1>1
  <2>2. \A i \in 1..n : i # 1 => l[i - 1] = EntryLength(entries[i - 1])
    BY <2>1
  <2> HIDE DEF n
  <2>3. [i \in 1..n |-> IF i = 1 THEN 0 ELSE f[i - 1] + l[i - 1]]
        = [i \in 1..n |-> IF i = 1 THEN 0 ELSE f[i - 1] + EntryLength(entries[i - 1])]
    BY <2>2
  <2> QED
    BY <1>1, <2>3 DEF PlacesOf
<1>4. PlacesOf(Offset(entries), n, 0, l)
  BY <1>2, <1>3 DEF Offset
<1> QED
  BY <1>1, <1>4, PlacesTyped

\* The length of an entry is a number.
LEMMA EntryLengthNat ==
  ASSUME NEW e \in Entry
  PROVE  EntryLength(e) \in Nat
<1>1. e.size \in Nat /\ e.name \in Nat /\ e.copied \in Nat
  BY DEF Entry
<1>2. \A x \in Nat : x % Uint32 \in Nat
  BY CpioAssumption
<1>3. \A x \in Nat : PadToFour(x) \in Nat
  BY DEF PadToFour
<1>4. FileSize(e) \in Nat
  BY <1>1, <1>2 DEF FileSize
<1>5. HeaderLength + NameSize(e) \in Nat
  BY <1>1 DEF HeaderLength, NameSize
<1>6. DataOffset(e) \in Nat
  BY <1>2, <1>3, <1>5 DEF DataOffset
<1>7. PadToFour(FileSize(e)) \in Nat
  BY <1>3, <1>4
<1> QED
  BY <1>1, <1>6, <1>7 DEF EntryLength

\* The kernel unpacks an archive of any number of entries, of files below 4 GiB
\* that did not change while they were archived (cpio.go:186-200): by induction
\* every entry begins at a multiple of four.
THEOREM ArchiveUnpacked ==
  ASSUME NEW entries \in Seq(Entry),
         \A i \in DOMAIN entries :
           Accepted(entries[i]) /\ entries[i].size < Uint32 /\ entries[i].copied < Uint32
  PROVE  Unpacks(entries)
<1> DEFINE n == Len(entries)
           l == [i \in 1..n |-> EntryLength(entries[i])]
           o == Offset(entries)
           Fours == {x \in Nat : x % 4 = 0}
<1>1. n \in Nat /\ DOMAIN entries = 1..n /\ \A i \in 1..n : entries[i] \in Entry
  OBVIOUS
<1>2. l \in Extents(n)
  BY <1>1, EntryLengthNat DEF Extents
<1>3. Places(o, n, 0, l)
  BY <1>2, OffsetPlaces
<1>4. 0 \in Fours
  BY SMT
<1>5. ASSUME NEW i \in 1..n, NEW x \in Nat, x \in Fours
      PROVE  /\ x + l[i] \in Fours
             /\ DataAt(x, entries[i]) = x + DataOffset(entries[i])
             /\ NextAt(x, entries[i]) = x + l[i]
  <2>1. /\ entries[i] \in Entry /\ Accepted(entries[i])
        /\ entries[i].size < Uint32 /\ entries[i].copied < Uint32
    BY <1>1
  <2>2. x % 4 = 0
    BY <1>5
  <2>3. /\ DataAt(x, entries[i]) = x + DataOffset(entries[i])
        /\ NextAt(x, entries[i]) = x + EntryLength(entries[i])
        /\ (x + EntryLength(entries[i])) % 4 = 0
    BY <2>1, <2>2, EntryUnpacks
  <2>4. l[i] = EntryLength(entries[i]) /\ EntryLength(entries[i]) \in Nat
    BY <2>1, EntryLengthNat
  <2> HIDE DEF l
  <2>5. x + l[i] \in Nat /\ (x + l[i]) % 4 = 0
    BY <2>3, <2>4
  <2> QED
    BY <2>3, <2>4, <2>5
<1> HIDE DEF l, n, o, Fours
<1>6. \A i \in 1..n : o[i] \in Fours
  BY <1>1, <1>2, <1>3, <1>4, <1>5, PlacesIn
<1>7. ASSUME NEW i \in 1..n
      PROVE  /\ DataAt(o[i], entries[i]) = o[i] + DataOffset(entries[i])
             /\ i < n => NextAt(o[i], entries[i]) = o[i + 1]
  <2>1. o[i] \in Fours /\ o[i] \in Nat
    BY <1>3, <1>6 DEF Places
  <2>2. i < n => o[i + 1] = o[i] + l[i]
    <3> SUFFICES ASSUME i < n PROVE o[i + 1] = o[i] + l[i]
      OBVIOUS
    <3>1. i + 1 \in 1..n /\ i + 1 # 1 /\ (i + 1) - 1 = i
      BY <1>1
    <3> QED
      BY <1>3, <3>1 DEF Places
  <2> QED
    BY <1>5, <2>1, <2>2
<1> QED
  BY <1>1, <1>7 DEF Unpacks, n, o

\* So the initramfs is readable by the kernel whenever a build goes on from
\* writing it, whatever its files of less than Uint32 bytes (cpio.go:195-200).
THEOREM InitramfsUnpacks == Spec => []ArchiveUnpacks
<1>1. EveryArchiveUnpacks
  <2> SUFFICES ASSUME NEW a \in Entries, NEW b \in Entries, Accepted(a), Accepted(b),
                      {a.size, a.copied, b.size, b.copied} \subseteq 0..Uint32-1
               PROVE  Unpacks(<<a, b, Trailer>>)
    BY DEF EveryArchiveUnpacks
  <2> DEFINE es == <<a, b, Trailer>>
  <2>1. a \in Entry /\ b \in Entry /\ Trailer \in Entry
    BY DEF Entries, Entry, Trailer
  <2>2. a.size < Uint32 /\ a.copied < Uint32 /\ b.size < Uint32 /\ b.copied < Uint32
    BY CpioAssumption
  <2>3. Accepted(Trailer) /\ Trailer.size < Uint32 /\ Trailer.copied < Uint32
    BY CpioAssumption DEF Accepted, FileSize, Trailer
  <2>4. es \in Seq(Entry) /\ DOMAIN es = 1..3 /\ es[1] = a /\ es[2] = b /\ es[3] = Trailer
    BY <2>1
  <2> HIDE DEF es
  <2>5. ASSUME NEW i \in DOMAIN es
        PROVE  Accepted(es[i]) /\ es[i].size < Uint32 /\ es[i].copied < Uint32
    <3>1. i = 1 \/ i = 2 \/ i = 3
      BY <2>4
    <3> QED
      BY <2>2, <2>3, <2>4, <3>1
  <2>6. Unpacks(es)
    BY <2>4, <2>5, ArchiveUnpacked
  <2> QED
    BY <2>6 DEF es
<1>2. ArchiveUnpacks
  BY <1>1 DEF ArchiveUnpacks
<1> QED
  BY <1>2, PTL

===============================================================================
