CONSTANTS
  Handler = {h1, h2}
  Boot = Boot
  Mode = {SingleDev, Other}
  Implemented = {SingleDev}
  Absent = Absent
  Torn = Torn
  None = None
  MaxRestarts = 1
CHECK_DEADLOCK FALSE
SPECIFICATION Spec
SYMMETRY HandlerSymmetry
INVARIANTS
  AcknowledgedSurvives
  StatusesAreTrue
  QuietWhenStopped
  FirstRequestWins
  AnsweredBeforeStop
PROPERTIES
  ImplementsSupervisor
