SPECIFICATION FairSpec
CONSTANTS
  Suites <- MCSuites
  CommandLines <- MCCommandLines
  MaxThreads = 3
  ForkMayFail = TRUE
INVARIANTS
  TypeOK
  VerdictRight
  OneReport
  NoChildLeft
  EveryTestRuns
PROPERTIES
  RunEnds
  AbortEndsDebugging
