CONSTANTS
  Num = {0, 1, 2}
  Vendor = Vendor
  Missing = Missing
  None = None
  Sizes <- MCSizes
  GptHead = 2048
  GptTail = 33
  MaxFaults = 2
  MaxRuns = 3
CHECK_DEADLOCK FALSE
SPECIFICATION Spec
INVARIANT FailedInstallRunsAgain
