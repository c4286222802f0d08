\* One thread that only calls pager_next, with two page ids and room for two
\* pages, until the counter has wrapped.
CONSTANTS
  t1 = t1
  Threads = {t1}
  PageVars = {"p"}
  Modes = {}
  MaxPageId = 2
  Buckets = {"a", "b"}
  Hash <- MCHash
  EntrySlots = 2
  Size = 3
  HeadMod = 3
  NextLimit = 2
SPECIFICATION Spec
CHECK_DEADLOCK FALSE
INVARIANT
  NextPageIsNew
