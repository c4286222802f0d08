\* Two threads that fix a page while they hold another one.
\* The latches may deadlock, which the invariant looks at.
CONSTANTS
  t1 = t1
  t2 = t2
  Threads = {t1, t2}
  PageVars = {"p", "q"}
  Modes = {TRUE}
  MaxPageId = 2
  Buckets = {"a", "b"}
  Hash <- MCHash
  EntrySlots = 2
  Size = 3
  HeadMod = 3
  NextLimit = 0
SPECIFICATION Spec
CHECK_DEADLOCK FALSE
INVARIANT
  OneHolderNeverStuck
