SPECIFICATION CodecSpec
CONSTANTS
  Group = 4
  MaxBytes = 4
  Limit = 64
  Keys = {1, 5, 20}
  Blobs <- MCBlobs
  PageBytes = 18
  OldBytes = {0, 7}
  Times <- MCTimes
  Randoms = {0, 2147483647}
INVARIANTS
  RoundTrip
  CellsRead
PROPERTY
  UuidsSort
