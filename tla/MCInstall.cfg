CONSTANTS
  Num = {0, 1, 2, 3}
  Vendor = Vendor
  Missing = Missing
  None = None
  Sizes <- MCSizes
  GptHead = 2048
  GptTail = 33
  MaxFaults = 3
  MaxRuns = 4
CHECK_DEADLOCK FALSE
SPECIFICATION FairSpec
INVARIANTS
  TypeOK
  MarkerMeansComplete
  MidwayIsUnmarked
  LoadOptionReadsBack
PROPERTIES
  OursFirstOnce
  VendorsUntouched
  ImplementsInstallation
  EventuallyBoots
