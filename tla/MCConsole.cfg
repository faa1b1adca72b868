CONSTANTS
  Main = Main
  Writer = {Main, bao}
  Reason = Reason
  PipeCap = 2
  BufCap = 1
  MaxLines = 4
CHECK_DEADLOCK FALSE
SPECIFICATION FairSpec
INVARIANTS
  TypeOK
  NothingLost
  LastWordsRead
PROPERTIES
  PrintReturns
