\* Two threads, three pages and room for two: eviction, creation and reuse.
CONSTANTS
  t1 = t1
  t2 = t2
  Threads = {t1, t2}
  PageVars = {"p"}
  Modes = {TRUE}
  MaxPageId = 3
  Buckets = {"a", "b"}
  Hash <- MCHash
  EntrySlots = 2
  Size = 3
  HeadMod = 3
  NextLimit = 0
SPECIFICATION Spec
SYMMETRY Symmetry
VIEW View
INVARIANTS
  DirectoryRingAgree
  FixedPagesStay
  CountAccounting
  CreateFindsSlot
