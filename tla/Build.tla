--------------------------------- MODULE Build ---------------------------------
(***************************************************************************)
(* cmd/build.go with internal/openbao and internal/ociimage: builds one    *)
(* after the other in one working tree.  A build clears the scratch and    *)
(* output directories, but keeps the download cache of those before it;    *)
(* any step of it may fail, and it may be killed at any moment.  What it   *)
(* publishes is pulled again by the node that installs from its medium     *)
(* (module Install).                                                       *)
(***************************************************************************)
EXTENDS Naturals, FiniteSets

CONSTANTS
  Version,      \* releases of OpenBao
  Tag,          \* what git describe calls the tree; a dirty tree keeps its tag
  None, Partial,
  MaxBuilds,    \* bound: builds
  Chunks        \* see module Extract

ASSUME BuildAssumption ==
  /\ None # Partial /\ {None, Partial} \cap (Version \cup Tag) = {}
  /\ MaxBuilds \in Nat

VARIABLES
  step,         \* the step runBuild is at, "idle" between builds
  this,         \* the number of the build that runs or ran last; 0: none did
  version,      \* the release it bundles
  tagOf,        \* the tag of each build
  archive,      \* the cached tarball of each release: None, Partial or itself
  checksums,    \* the cached checksums.txt: None, Partial or the release it is of
  rootfs,       \* what is completely in the staged rootfs
  contents,     \* what was in it when a build wrote its initramfs
  out,          \* the media, whole or not, by the build they are of; 0: no file
  registry,     \* the build each tag of the boot image names, or 0
  killed,       \* some build has been killed
  export, untar, offered, got, writer, reader

E == INSTANCE Extract

build == <<this, version, tagOf>>
cache == <<archive, checksums>>
stage == <<rootfs, contents>>
pipe  == <<export, untar, offered, got, writer, reader>>
rest  == <<killed, pipe>>
vars  == <<step, build, cache, stage, out, registry, rest>>

Builds == 1..MaxBuilds
Part   == {"bao", "invarios", "fsutils", "ca"}
Medium == {"invarios-efi.img", "invarios.iso"}

\* A fresh clone and an empty registry.
Init ==
  /\ step = "idle" /\ this = 0 /\ version = None /\ tagOf = [b \in Builds |-> None]
  /\ archive = [v \in Version |-> None] /\ checksums = None
  /\ rootfs = {} /\ contents = [b \in Builds |-> {}]
  /\ out = [m \in Medium |-> 0] /\ registry = [t \in Tag |-> 0]
  /\ killed = FALSE
  /\ E!Idle

Advance(from, to) == step = from /\ step' = to

Quietly(from, to) ==
  Advance(from, to) /\ UNCHANGED <<build, cache, stage, out, registry, rest>>

-------------------------------------------------------------------------------
(***************************************************************************)
(* prepare and gitDescribe.                                                *)
(***************************************************************************)
StartBuild(v) ==
  /\ Advance("idle", "scratch") /\ this < MaxBuilds
  /\ this' = this + 1 /\ version' = v
  /\ UNCHANGED <<tagOf, cache, stage, out, registry, rest>>

RemoveScratch ==
  /\ Advance("scratch", "out")
  /\ rootfs' = {}
  /\ UNCHANGED <<build, cache, contents, out, registry, rest>>

KeepOut == Quietly("out", "describe")

RemoveOut ==
  /\ Advance("out", "describe")
  /\ out' = [m \in Medium |-> 0]
  /\ UNCHANGED <<build, cache, stage, registry, rest>>

Describe(t) ==
  /\ Advance("describe", "archive")
  /\ tagOf' = [tagOf EXCEPT ![this] = t]
  /\ UNCHANGED <<this, version, cache, stage, out, registry, rest>>

Prepare == RemoveScratch \/ RemoveOut \/ \E t \in Tag : Describe(t)

-------------------------------------------------------------------------------
(***************************************************************************)
(* openbao.Fetch.  downloadIfMissing asks only whether the file is there.  *)
(* It creates it before it copies the body into it, and removes it again   *)
(* when that fails.                                                        *)
(***************************************************************************)
ArchiveIs(c) == archive' = [archive EXCEPT ![version] = c]

DownloadArchive ==
  /\ \/ Advance("archive", "checksums") /\ archive[version] # None /\ UNCHANGED archive
     \/ Advance("archive", "archive body") /\ archive[version] = None /\ ArchiveIs(Partial)
     \/ Advance("archive body", "checksums") /\ ArchiveIs(version)
  /\ UNCHANGED <<build, checksums, stage, out, registry, rest>>

\* One file for all releases.
DownloadChecksums ==
  /\ \/ Advance("checksums", "verify") /\ checksums # None /\ UNCHANGED checksums
     \/ Advance("checksums", "checksums body") /\ checksums = None /\ checksums' = Partial
     \/ Advance("checksums body", "verify") /\ checksums' = version
  /\ UNCHANGED <<build, archive, stage, out, registry, rest>>

DownloadLeavesFile ==
  \/ Quietly("archive body", "idle")
  \/ Quietly("checksums body", "idle")

DownloadFails ==
  /\ \/ Advance("archive body", "idle") /\ ArchiveIs(None) /\ UNCHANGED checksums
     \/ Advance("checksums body", "idle") /\ checksums' = None /\ UNCHANGED archive
  /\ UNCHANGED <<build, stage, out, registry, rest>>

\* A checksums.txt that was cut off may still have the line.
Matches == archive[version] = version /\ checksums \in {version, Partial}
Differs == archive[version] # version \/ checksums # version

VerifyChecksum  == Quietly("verify", "extract") /\ Matches
ChecksumDiffers == Quietly("verify", "idle") /\ Differs

\* Only the whole archive is sure to hold the whole binary.
ExtractBao ==
  /\ Advance("extract", "compile")
  /\ rootfs' = rootfs \cup (IF archive[version] = version THEN {"bao"} ELSE {})
  /\ UNCHANGED <<build, cache, contents, out, registry, rest>>

Fetch ==
  DownloadArchive \/ DownloadChecksums \/ VerifyChecksum \/ ChecksumDiffers \/ ExtractBao

-------------------------------------------------------------------------------
(***************************************************************************)
(* The rootfs: the binary that is compiled and the images that are pulled. *)
(***************************************************************************)
Compile ==
  /\ Advance("compile", "kernel")
  /\ rootfs' = rootfs \cup {"invarios"}
  /\ UNCHANGED <<build, cache, contents, out, registry, rest>>

\* The step that pulls an image is named after it; two of them go into the rootfs.
Image == {"kernel", "fsutils", "ca", "sdboot"}

AfterImage == [kernel |-> "fsutils", fsutils |-> "ca", ca |-> "rootfs", sdboot |-> "release"]

Pull ==
  /\ step \in Image /\ E!Begin
  /\ UNCHANGED <<step, build, cache, stage, out, registry, killed>>

Extracting ==
  /\ step \in Image /\ E!Runs
  /\ UNCHANGED <<step, build, cache, stage, out, registry, killed>>

ExtractionFails ==
  /\ step \in Image /\ (E!ExportFails \/ E!UntarFails)
  /\ UNCHANGED <<step, build, cache, stage, out, registry, killed>>

Pulled ==
  /\ step \in Image /\ E!Ended /\ E!Forget
  /\ step' = IF E!Succeeded THEN AfterImage[step] ELSE "idle"
  /\ rootfs' = rootfs \cup (IF E!Extracted THEN {step} \cap Part ELSE {})
  /\ UNCHANGED <<build, cache, contents, out, registry, killed>>

\* It looks for the files, not into them.
VerifyRootfs ==
  /\ {"bao", "invarios", "ca"} \subseteq rootfs
  /\ Quietly("rootfs", "sdboot")

Assemble == Compile \/ Pull \/ Extracting \/ Pulled \/ VerifyRootfs

-------------------------------------------------------------------------------
(***************************************************************************)
(* From the rootfs to the media.  The files in between are made from it    *)
(* and only from it.                                                       *)
(***************************************************************************)
Writes(file) == out' = [out EXCEPT ![file] = this]

WriteCPIO ==
  /\ Advance("initramfs", "uki")
  /\ contents' = [contents EXCEPT ![this] = rootfs]
  /\ UNCHANGED <<build, cache, rootfs, out, registry, rest>>

\* The manifest goes last and takes the tag.
Publish == registry' = [registry EXCEPT ![tagOf[this]] = this]

PushBootImage ==
  /\ Advance("push", "disk") /\ Publish
  /\ UNCHANGED <<build, cache, stage, out, rest>>

BuildFATImage ==
  /\ Advance("disk", "iso") /\ Writes("invarios-efi.img")
  /\ UNCHANGED <<build, cache, stage, registry, rest>>

BuildISO ==
  /\ Advance("iso", "idle") /\ Writes("invarios.iso")
  /\ UNCHANGED <<build, cache, stage, registry, rest>>

\* The os-release file; uki.Build, verifyUKI and stageESP.
Produce ==
  \/ Quietly("release", "initramfs") \/ WriteCPIO \/ Quietly("uki", "push")
  \/ PushBootImage \/ BuildFATImage \/ BuildISO

-------------------------------------------------------------------------------
(***************************************************************************)
(* What may be left of a step that does not come to its end.               *)
(***************************************************************************)
Fragment ==
  /\ \/ UNCHANGED <<out, registry>>
     \/ /\ step = "out" /\ UNCHANGED registry
        /\ \E gone \in SUBSET Medium :
             out' = [m \in Medium |-> IF m \in gone THEN 0 ELSE out[m]]
     \/ step = "push" /\ Publish /\ UNCHANGED out
     \/ step = "disk" /\ Writes("invarios-efi.img") /\ UNCHANGED registry
     \/ step = "iso" /\ Writes("invarios.iso") /\ UNCHANGED registry
  /\ UNCHANGED <<build, cache, stage>>

StepFails ==
  /\ step \notin {"idle", "archive body", "checksums body"}
  /\ step \in Image => E!Idle
  /\ step' = "idle"
  /\ Fragment
  /\ UNCHANGED rest

Kill ==
  /\ step # "idle" /\ step' = "idle" /\ killed' = TRUE
  /\ Fragment
  /\ E!Forget

Proceed == Prepare \/ Fetch \/ Assemble \/ Produce

Next ==
  \/ \E v \in Version : StartBuild(v)
  \/ Proceed \/ DownloadFails \/ ExtractionFails \/ StepFails \/ Kill

\* A build that runs goes on: the network answers or refuses, tools return.
Spec == Init /\ [][Next]_vars /\ WF_vars(Proceed)

-------------------------------------------------------------------------------
\* What a node can pull was built from a complete rootfs: the verified OpenBao
\* release, this program, and every image to its end, whatever failed or was
\* killed in this build and in those before it, and whatever they left in the
\* cache (build.go:130-226, fetch.go:22-26, ociimage.go:45-81).
ImageIsWhole == \A t \in Tag : registry[t] # 0 => contents[registry[t]] = Part

\* A medium in the output directory, even one that is not finished, finds its own
\* build under its tag (install.go:176-180, build.go:548-551).
OutMatchesRegistry ==
  \A m \in Medium : out[m] # 0 => registry[tagOf[out[m]]] = out[m]

\* As long as no build has been killed and all were of one release, the cache
\* holds what the registry of releases has: a build that finds something in it
\* passes its checksum (fetch.go:22-26, 85-89).
CachedBuildsVerify ==
  step = "verify" /\ ~killed /\ checksums = version => archive[version] = version

\* Every build ends: whichever goroutine of an extraction fails, the other one is
\* not left blocked in the pipe (ociimage.go:55-79).
BuildEnds == step # "idle" ~> step = "idle"

===============================================================================
