CONSTANTS
  Caller = {c1, c2}
  Mode = {SingleDev, Other}
  Implemented = {SingleDev}
  Absent = Absent
  Torn = Torn
  None = None
SPECIFICATION Spec
SYMMETRY CallerSymmetry
INVARIANT NeverUnparseable
