\* One thread that fixes any of three pages, one at a time, in a ring of two
\* slots: the clock hand wraps in the middle of a round.
CONSTANTS
  t1 = t1
  Threads = {t1}
  PageVars = {"p"}
  Modes = {TRUE, FALSE}
  MaxPageId = 3
  Buckets = {"a", "b"}
  Hash <- MCHash
  EntrySlots = 0
  Size = 2
  HeadMod = 5
  NextLimit = 0
SPECIFICATION Spec
CHECK_DEADLOCK FALSE
INVARIANT
  AloneEnomemMeansAllFixed
