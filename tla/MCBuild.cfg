CONSTANTS
  Version = {v1, v2}
  Tag = {t1, t2}
  None = None
  Partial = Partial
  MaxBuilds = 3
  Chunks = 2
  Uint32 = 8
  FileAlignment = 512
  SectionAlignment = 4096
CHECK_DEADLOCK FALSE
SPECIFICATION Spec
INVARIANTS
  ImageIsWhole
  OutMatchesRegistry
  CachedBuildsVerify
  ArchiveUnpacks
  SectionsLoad
PROPERTY BuildEnds
