CONSTANTS
  Handler = {h1, h2}
  Boot = Boot
  Mode = {SingleDev}
  Implemented = {SingleDev}
  Absent = Absent
  Torn = Torn
  None = None
  MaxRestarts = 0
CHECK_DEADLOCK FALSE
SPECIFICATION FairSpec
PROPERTIES
  PowerRequestHonoured
  RequestsAnswered
