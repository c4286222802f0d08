\* One thread with two page_t variables and room for one page: every page that
\* comes takes the bucket_t of another, malloc fails, pager_next goes on until
\* its counter wraps, and the heads wrap in the middle of a round.
\* After the wrap pager_next hands out ids again: the thread may wait for itself.
CONSTANTS
  t1 = t1
  Threads = {t1}
  PageVars = {"p", "q"}
  Modes = {TRUE, FALSE}
  MaxPageId = 3
  Buckets = {"a", "b"}
  Hash <- MCHash
  EntrySlots = 0
  Size = 2
  HeadMod = 5
  NextLimit = 3
SPECIFICATION Spec
INVARIANTS
  UnfixKnowsMode
  OverflowBounded
PROPERTY
  EnomemMeansAllFixed
CHECK_DEADLOCK FALSE
