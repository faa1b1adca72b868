CONSTANTS
  Caller = {c1, c2}
  Mode = {SingleDev, Other}
  Implemented = {SingleDev}
  Absent = Absent
  Torn = Torn
  None = None
SPECIFICATION FairSpec
INVARIANTS
  TypeOK
  OneWorkload
  WorkloadRemembered
  RunningIsReachable
  StoppedIsQuiet
  AnswersAreTrue
PROPERTIES
  NoStartWhileStopping
  ImplementsDecision
  NobodyWaitsForever
