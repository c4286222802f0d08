CONSTANTS
  t1 = t1
  t2 = t2
  t3 = t3
  Threads = {t1, t2, t3}
SPECIFICATION FairSpec
INVARIANTS
  TypeOK
  WordCountsHolders
  RefusedOnlyWhenContended
PROPERTIES
  SomebodyAcquires
  ImplementsRWLock
