SPECIFICATION SharedSpec
CONSTANTS
  Threads = {t1, t2}
  Keys = {1, 2, 3, 4}
  ShortValue = v2
  ShortBytes = 3
  OddValue = v1
  EvenValue = v2
  Values = {v1, v2}
  Offered <- MCOffered
  IntSize = 256
  KeyBytes <- MCKeyBytes
  ValueBytes <- MCValueBytes
  PageSize = 28
  MaxPages = 9
  Reinsert = TRUE
  Clears = FALSE
  OutOfMemory = FALSE
INVARIANTS
  NoKeyLost
  OnePageInHand
  RoomForCells
  SomebodyDescends
CONSTRAINT
  BeforeTheRace
SYMMETRY Symmetry
CHECK_DEADLOCK FALSE
