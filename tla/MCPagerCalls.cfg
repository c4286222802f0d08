\* Two threads, two pages and room for one: every call that needs the other page
\* evicts.  Safety, the refinement and liveness together.
CONSTANTS
  t1 = t1
  t2 = t2
  Threads = {t1, t2}
  PageVars = {"p"}
  Modes = {TRUE}
  MaxPageId = 2
  Buckets = {"a", "b"}
  Hash <- MCHash
  EntrySlots = 2
  Size = 2
  HeadMod = 2
  NextLimit = 0
SPECIFICATION FairSpec
INVARIANTS
  TypeOK
  LatchesCountHolders
PROPERTIES
  ImplementsPageCache
  CallsReturn
