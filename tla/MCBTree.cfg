SPECIFICATION Spec
CONSTANTS
  Threads = {t1}
  Keys = {1, 2, 3, 4, 5, 6}
  ShortValue = short
  ShortBytes = 3
  OddValue = v1
  EvenValue = v2
  Values = {v1, v2}
  Offered <- MCOffered
  IntSize = 256
  KeyBytes <- MCKeyBytes
  ValueBytes <- MCValueBytes
  PageSize = 28
  MaxPages = 11
  Reinsert = FALSE
  Clears = TRUE
  OutOfMemory = TRUE
INVARIANTS
  TypeOK
  SearchTree
  SameDepth
  ChainSorted
  FreeSpaceExact
PROPERTY
  ImplementsTable
CHECK_DEADLOCK FALSE
