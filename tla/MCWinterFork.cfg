SPECIFICATION FairSpec
CONSTANTS
  Suites <- MCSuites
  CommandLines <- MCCommandLines
  MaxThreads = 3
  ForkMayFail = TRUE
INVARIANT
  PassedTestsRan
