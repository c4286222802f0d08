SPECIFICATION Spec
CONSTANTS
  MaxErrors = 5
INVARIANTS
  TypeOK
  NothingLost
  HandleAlive
  FailureTold
