# A TLA+ development of wednesday

`wednesday` is the beginning of an embedded database in C: spin latches, a page
cache, a B-tree of table rows on top of it, variable-length integers and blobs,
UUIDs, thread-local error traces with `defer`, and a unit-test library. This
directory models it in TLA+, model-checks it with TLC on small instances
and proves theorems about it with TLAPS. Paths below are relative to the
repository.

## 1. Inventory

| Component | State | Operations | Talks to |
|---|---|---|---|
| latch (`src/latch.c`) | one atomic word: 0 free, -1 a writer, n readers | acquire and try-acquire in two modes, two releases, `latch_available` | nobody |
| pager (`src/pager.c`) | hash directory of entries (latch, two mappings, overflow chain), CLOCK ring of slots, headers (latch, flags) that are reused, four atomic counters | `pager_open`, `pager_fix`, `pager_next`, `pager_unfix`, `pager_close` | a latch per entry and per page |
| btree (`src/btree.c`) | `root`, and in each page a header (count, data start, free space, flags, right link), pointers and cells | `btree_create`, `btree_open`, `btree_table_insert`, `btree_table_lookup`, `btree_close` | pager, varint, blob, error/defer |
| varint (`src/varint.c`) | the bytes at `dst` | put, get, two lengths, a stub `varint_cmp` | nobody |
| blob (`src/blob.c`) | none | varint length + bytes | varint |
| uuid (`src/uuid.c`) | none | pack, print | clock, `random` |
| error and defer (`src/error.c`, `include/error.h`, `include/deffer.h`) | per thread: code, count, 32 frames | push, append, clear; `defer`/`errdefer` run a function when a scope ends, `errdefer` only if the thread's code is set | all of the above |
| test library (`include/winter.h`, `src/test.c`) | suites and tests, patterns and options, the position of the runner; in the child `print.mutex` and threads | parse the command line, run each selected test in a forked child with a time limit, kill it, wait for a debugger | `fork`, `waitpid`, `kill`, signals, pthreads, error |
| build (`Makefile`) | none | compile and link | - |

How they interact: the B-tree calls `pager_fix` for a child while it still
holds the parent (latch coupling) and `pager_next` while it holds one or two
pages; `pager_fix` takes an entry latch and, with it in hand, a page latch;
`pager_evict` takes the entry latch of a *victim* and only looks at the page's
latch. Every error path runs through `try`, `defer` and `errdefer`.

What is hard in each, and what makes it correct:

* **latch**: interleavings of weak compare-exchanges that start from a guessed
  value. Correct: the word equals the holders, refusals are justified, somebody
  gets through, it is a reader-writer lock.
* **pager**: many small atomic steps with latches that are released between
  them (count, evict, look up again, create); headers that are reused; failing
  allocations. Correct: directory and ring agree, fixed pages stay, the count
  is exact, a creation finds its slot, flags tell the release mode, calls
  return, it is a bounded cache.
* **btree**: splits on the way down by several threads, two uses of the link
  `right`, byte counts kept incrementally, error paths that hand `page_t`
  variables around. Correct: search tree, equal depth, sorted leaf chain, exact
  free space, one page in hand, no key lost, it is a table.
* **varint, blob, the bytes of a leaf**: boundaries of the groups, the ninth
  byte; cells that move while pointers and a `page_t` name them. Correct: round
  trip, equal lengths, each pointer leads to its key and value after any
  splits.
* **uuid**: the order of the bytes. Correct: identifiers sort by time.
* **error and defer**: cleanups that depend on a code somebody else may have
  set, and on each other's memory. Correct: they run in the right order,
  nothing is lost, a returned pointer stays good, a failure leaves its code.
* **test library**: a child that ends, stops, hangs or crashes while the runner
  polls, kills it or is interrupted; threads that fail together. Correct:
  verdicts are right, no process is left behind, every selected test runs, one
  failure reports, runs and debugging end.

`PROJECT.json` lists every hazard with its line and the properties that cover
it, or why none does.

## 2. Modules

    LatchOps     what one successful atomic operation does to a latch word
    RWLock       abstract: readers or a single writer
    Latch        the loops of latch.c                      EXTENDS LatchOps
    LatchProofs  theorems about Latch
    PageCache    abstract: a bounded set of pages, fixed and unfixed
    Pager        pager.c                                   EXTENDS LatchOps
    PagerProperties                                        EXTENDS Pager
    PagerProofs  types, entries, directory and ring, fixed pages, capacity,
                 refinement of PageCache, ENOMEM           EXTENDS PagerProperties
    TableMap     abstract: a table from keys to values
    BTree        btree.c
    BTreeProperties                                        EXTENDS BTree
    BTreeShared  BTree with the history of the race on btree->root
    BTreePageProofs    types, pages, latches, room,
                       no deadlock                     EXTENDS BTreeProperties
    BTreeShapeProofs   shape, leaf chain, refinement
                       of TableMap   EXTENDS BTreePageProofs, BTreeShared
    Varint       varint.c
    Cells        blob.c and the bytes of a leaf of btree.c  EXTENDS Varint
    Uuid         uuid.c
    CodecProofs  theorems about Varint, Cells and Uuid EXTENDS Cells, Uuid
    MCCodec      the bytes together                    EXTENDS Cells, Uuid
    ErrorTrace   error.c
    Lifecycle    open, create and close of pager and tree,
                 defer and errdefer                     EXTENDS ErrorTrace
    LifecycleProofs    theorems about Lifecycle            EXTENDS Lifecycle
    Winter       the test runner of winter.h
    WinterProofs theorems about Winter                  EXTENDS Winter
    Induction    lemmas on numbers, recursion, sums and sequences
    MC*          constants, symmetry, view and constraints for TLC

The layers are composed through their abstract specifications. `Latch`
implements `RWLock`; `Pager` acquires a latch in one step that waits for
`CanAcquire`, which is what `RWLock` grants. `Pager` implements `PageCache`;
`BTree` keeps of the pager what `PageCache` says: a fixed page stays, an
exclusive fix excludes others. `BTree` implements `TableMap`.
The one place where the composition fails in the code is the deadlock between
entry and page latches (run PagerCoupling): `PageCache` says what the pager may
do, not that a call returns, and the liveness run of the pager is about threads
that hold one page at a time.

Definitions whose comment begins with "Variant:" are deliberate deviations,
each a bug the code might have had. No specification uses them; they stand in
for the definition after them when a property is tested against the bug.

### Latch

`latch` is the word; each thread has the local `value` of its loop, its mode and
whether it is a try call. Actions are the atomic operations: `Call`,
`CasSucceed`, `CasFail` (also spurious: the exchange is the weak one), `Reload`,
`GiveUp`, `Release`. Two history variables record contention and refusals. The
model is sequentially consistent; memory orders are not modelled.

### Pager

`header_t*` is the index of the ring slot its header was allocated for, as a
header never leaves its slot. `directory` maps page ids to headers and stands
for the mappings of all entries; `overflow` counts an entry's `bucket_t` nodes.
One action is one atomic operation with the plain reads and writes that follow
it under the latch it took; a release right after a read is part of it.

| pager.c | actions |
|---|---|
| `pager_fix` 366-383, `pager_lookup` | `Fix`, `FastLatch`, `FastHit`, `FastMiss`, `FastRelease` |
| `pager_fix` 385-396 | `LoadCount`, `Reserve`, `ReserveRetry`, `ReserveFull` |
| `pager_evict` | `Probe`, `EvictFail`, `EvictSkipFixed`, `SecondChance`, `EvictFree`, `EvictRelease` |
| `pager_directory_find_entry` | `EvictLoad`, `EvictLatch`, `EvictConfirm`, `EvictStale` |
| `pager_fix` 398-423 | `SlowLatch`, `SlowHit`, `SlowMiss`, `Uncount`, `CreatePage`, `FixRelease` |
| `pager_create`, `pager_directory_insert` | `CreateProbe`, `CreateClaim`, `CreateSkip`, `CreateInit`, `CreateInitFail`, `CreateInsert`, `CreateInsertFail` |
| `pager_next` | `FixNext` |
| `pager_unfix` | `UnfixFlags`, `UnfixRelease` |

### BTree

A page is its cells in order with the byte counts of the header kept as the code
keeps them; bytes themselves are not. One action is what a call does between two
waits for a latch, which touches only pages the call holds (and `btree->root`,
once): `InsertRoot`, `SplitRoot`, `InsertWalk`, `SplitChild`, `LookupStep`, and
the failures `InsertRunsOut`, `SplitRootRunsOut`, `WalkFails`, `LookupRunsOut`.
`pager_next` does not wait: nobody can have fixed the page yet. A failed
assertion or a page unfixed twice (`Fault`) ends the behaviour; the invariants
look at it.

The latches are written as the code writes them: each `pager_fix` and
`pager_next` of a step is a `Fix`, each `pager_unfix`, with those that `defer`
runs, an `Unfix` of the page that the `page_t` names at that point (`KeepSide`
for btree.c:371-376 and 427-432, `LetGo` for a look-up). What is fixed between
two waits is what is left after all of them, so a page that no `Unfix` names
stays fixed, as the page `split` of `SplitRootRunsOut` does. `Stands` is the page
a call has in hand, `Left` a page that is fixed and in nobody's hand.

`Reinsert`, `Clears` and `OutOfMemory` say what clients and the allocator do:
insert keys that are in the tree, call `error_clear` after a failure, fail.

### Varint, Cells, Uuid

`Varint` has groups of `Group` values instead of 128 and `MaxBytes` bytes
instead of 9, so that values of all lengths can be put over what a buffer held
before. `Long` is the branch for the ninth byte as it is written.

`Cells` is the layer below `BTree`: the same leaf, once as the sequence of cells
`BTree` has and once as bytes, pointers and `data_start`. `InsertCell` puts key
and value together in buffers that hold anything, copies them into the page and
inserts the pointer (`btree_table_insert`, `page_insert_leaf`,
`page_insert_payload`, `blob_put`); `Split` is `page_split` with its
`page_compact`, the loops of which are `Moved`, one round of them `CopyCell`.
Look-ups are operators
(`FindPointer`, `BlobGet`, `BlobCmp`), as they change nothing. Header and
pointers are counted, in the room they take, and not spelled out.

`Uuid` writes the sixteen bytes of `uuid_v7_create` with `intcpy`; `UuidSpec` makes
one identifier after the other.

### ErrorTrace and Lifecycle

`ErrorTrace` is the error state of one thread: `Push`, `TraceLength` and
`TraceNth` are the functions of `error.c`, `Failed` is a `failure` with the
frames that `try` and `forward` add on the way up.

`Lifecycle` has the blocks of memory in `heap`, the cleanups registered in the
scope of the call in progress, and the client's two pointers.

| code | actions |
|---|---|
| `pager_open` 117-147 | `AllocPager`, `AllocDirectory`, `AllocRing`, `SetOut` |
| `pager_fix`, `pager_create`, `pager_directory_insert`: what they allocate | `FixHeader`, `FixBucket` |
| `btree_open`, `btree_create` | `AllocBtree`, `FixRoot`, `SetOut` |
| `pager_close`, `btree_close` | `FreeHeaders`, `FreeRing`, `FreeBuckets`, `FreeDirectory`, `FreeHandle` |
| `deffer.h`: `defer_guard` when a scope ends | `Unwind`, `Return` |
| `ensure` at the head of each function | `Ensure` |
| `error_clear` by the client | `Clear` |

A pointer is "sound" if no error was set as the call that returned it began,
"stale" otherwise: the difference between the two is the hazard at
`src/pager.c:121`.

### Winter

The runner's program counter is `pc`; `suite`, `test`, `tests` and `passed` are
the counters of `_winter_main`; `child` is the kernel's view of the forked
process, `status` how it ended; `main`, `loop`, `thread`, `failed`, `printer`
and `reports` are inside the child. `CommandLines` is the set of command lines
a run looks at, so the parser is part of what is checked.

| winter.h | actions |
|---|---|
| `_winter_parse_args`, the head of `_winter_main` | `ParseAndExit`, `ParseDebug`, `Parse` |
| the loops of `_winter_main` | `BeginSuite`, `NextSuite`, `SkipTest`, `BeginTest`, `Judge`, `EndRun` |
| `_winter_unit_execute` | `Fork`, `ForkFails`, `WaitEnded`, `WaitNothing`, `Sleep`, `DecideToKill` |
| `_winter_kill_process` | `KillContinue`, `KillKill`, `KillWait` |
| `_winter_unit_debug` | `BeginDebugging`, `InstallHandler`, `ResetAborted`, `DebugAgain`, `DebugDone`, and those of the two rows above |
| `_winter_debug_handler` | `Interrupt` |
| `_winter_process_entry` | `Stop`, `BeforeEach`, `RunAlone`, `Create`, `CreateFails`, `Join`, `AfterEach`, `ExitZero` |
| assertions, `_winter_fail_begin`, `_winter_fail_end` | `AssertionFails`, `Report`, `ExitFailing` |
| the test, the kernel, the clock, the debugger | `FinishBody`, `Crash`, `KilledDies`, `Expire`, `Attach` |

## 3. Runs

| Run | Question | Instance |
|---|---|---|
| Latch | safety, liveness, refinement of the latch | 3 threads |
| PagerEvict | consistency through eviction and reuse | 2 threads, 3 pages, room for 2, two of them in one entry |
| PagerCalls | entry latches, refinement, every call returns | 2 threads, 2 pages, room for 1 |
| PagerAlone | release modes, ENOMEM and overflow without races, wraps | 1 thread with 2 page variables, both modes, 3 pages, room for 1, no mapping without a `bucket_t`, `pager_next` until it wraps, heads modulo 5 |
| PagerCoupling (violation) | deadlock of entry and page latches | 2 threads, 2 page variables |
| BTree | structure, bookkeeping, refinement | 1 thread, 6 keys, failing allocations |
| BTreeShared | latch coupling | 2 threads, 4 keys, keys twice, error codes kept |
| BTreeReinsert (violation) | the root is unfixed twice | 1 thread, 3 keys |
| Codec | integers, cells of a leaf, identifiers | groups of 4, four bytes, values below 64; 3 keys, 3 values, a page of 18 bytes; 6 times |
| VarintLong (violation) | the ninth byte | groups of 4, four bytes, values below 512 |
| Winter | safety and liveness of the test runner | 8 command lines, 2 suites, 3 tests of one and of three threads, forks that fail |
| Lifecycle | memory, cleanups and error codes | 1 pager, 1 tree, a trace of 5 frames |

What they show:

* **Latch**: `WordCountsHolders`, `RefusedOnlyWhenContended`, `SomebodyAcquires`,
  `ImplementsRWLock`. Three threads are two readers and a writer, or two writers
  and a reader: the word is touched by one thread at a time, and a fourth adds
  no kind of neighbour.
* **PagerEvict**: `DirectoryRingAgree`, `FixedPagesStay`, `CountAccounting`,
  `CreateFindsSlot`. Two pages of one entry and one of another give both
  evictions under the caller's own entry and under a foreign one. Two threads
  can be both inside `pager_evict`, or one creates what the other evicts.
* **PagerCalls**: `LatchesCountHolders`, `ImplementsPageCache`, `CallsReturn`.
  With room for one page, every call for the page that is not there evicts, and
  a thread can be in every loop of the pager while the other one waits for it.
  Fixes are exclusive here; entries are latched in both modes. That the two
  modes of a fix may mix among threads is proved (`LatchesExact`, `ModeKnown`,
  `CacheRefinement`).
* **PagerAlone**: `EnomemMeansAllFixed` is an action property about the moment
  `pager_evict` gives up; its comment excepts a thread that "loses a lot of
  races", hence one thread. The heads wrap at 5, which two slots do not divide:
  the property excepts the one search during which the hand wraps
  (`HandWrapped`; finding 8).
  `OverflowBounded` needs entries whose every mapping is in a `bucket_t`.
  `UnfixKnowsMode`: the thread fixes a page in one mode and then in the other,
  or twice as a reader. After the wrap of `next_page` it may wait for itself,
  hence no check for deadlock.
* **BTree**: `SearchTree`, `SameDepth`, `ChainSorted`, `FreeSpaceExact`,
  `ImplementsTable`. Pages hold two cells, so six keys in every order give trees
  of three levels, with splits of the root, of inner pages and of leaves on the
  left, in the middle and on the right. Each key is inserted once: the table is
  that of new keys. What becomes of a key that is there already is the matter
  of findings 2 and 4.
* **BTreeShared**: `NoKeyLost`, `OnePageInHand`, `RoomForCells`,
  `SomebodyDescends`. Values of two lengths make room on a leaf and on an inner
  page differ, so the assertion of `page_insert_payload` does fail in some
  behaviours, which end there; `RoomForCells` says that it then fails for one of
  the two things the check on the way down leaves out (`LeftOut`), the pointer
  to the cell and the length of the separator.
* **Codec**: `RoundTrip`, `CellsRead`, `UuidsSort`. Integers are put into
  buffers that hold one byte everywhere, any byte for the first one, so what is
  left behind matters; mixed contents are the matter of the theorems
  `PutThenGet` and `PutIsGot`. Four bytes give each
  length a neighbour on both sides. Keys of one, two and three bytes and values
  of zero, one and four bytes, whose own bytes look like integers, fill a page
  of 18 bytes in every order, with splits in between that keep either half. The
  times lie on both sides of the borders of bytes.
* **Winter**: `VerdictRight`, `OneReport`, `NoChildLeft`, `EveryTestRuns`,
  `RunEnds`, `AbortEndsDebugging`. Three threads are one that fails, one that
  reports and one that goes on; the other test has one. The command lines are
  none at all, `--rerun`, `--no-timeout`, the same option twice with patterns
  that match nothing or another suite, `--debug` given twice and without a
  match, `--help`, and an option that does not exist.
* **Lifecycle**: `NothingLost`, `HandleAlive`, `FailureTold`. Five frames are
  filled by two failing calls, so that a third one finds the trace full.

Bounds. `MaxPageId`, `Size` and the number of threads are instance sizes.
`NextLimit` stops `pager_next`. `HeadMod` is the modulus of the two heads, 2^32
in the code; all runs but PagerAlone take `HeadMod = Size`, so that the wrap
changes nothing. `View` in `MCPager` identifies states that differ by a rotation
of the ring, which `HeadMod = Size` makes sound, and leaves out indices that are
not in use; the invariants checked under it do not tell such states apart.
`Symmetry` permutes threads in the runs for safety only. `MaxPages` bounds
`pager_next` in `BTree` and is above what the keys need. `SplitRootRunsOut`
happens once (`NothingLeft`). `BeforeTheRace` stops BTreeShared where `btree->root` changed
under a call: the TODO in `btree_insert` promises nothing beyond. `Limit` bounds
the integers of `Varint`. `MaxThreads` is the largest number of threads of a
test, `MaxErrors` the length of the trace, 32 in the code. A behaviour of
`Codec` has cells or identifiers: they share no state.
Deadlock is checked for the latch, the bytes, the memory, the test runner and
the pager of several threads, where a state without a step would be a hang; not
where clients may run out of keys or a fault ends the behaviour (BTree runs),
nor in PagerAlone (see above) and in PagerCoupling, whose invariant names the
hang.

Fairness. `Latch`: a thread in its loop keeps running, a weak exchange that
would succeed is not refused for ever (the guarantee of the instruction), and
holders release. `Pager`: a thread inside a call keeps running, clients unfix
what they fixed, and the weak exchange of `pager_create` does not fail for ever
on free slots (strong fairness of `CreateClaim`, as the thread moves on to
another slot after each failure). Nothing is assumed about who wins a latch: a
writer may starve, so the properties say that somebody acquires, and that calls
return once no new ones are made. `Winter`: the runner goes on, the clock passes
the end of the test's time, and SIGKILL kills. A test may hang, stop or lose its
threads in a deadlock, a debugger need not attach and a user need not interrupt.

## 4. Proofs

All for every value of the constants that the modules' assumptions allow.

`LatchProofs`, for any finite set of threads:

* `TypeCorrect`: `Spec => []TypeOK`
* `WordCounts`: `Spec => [](TypeOK /\ WordCountsHolders)`
* `RefusalJustified`: `Spec => []RefusedOnlyWhenContended`
* `Refinement`: `Spec => ImplementsRWLock`

The inductive invariant `IInv` adds `SeenContended` to the three: a thread in
the loop whose local value forbids the exchange has met a contended latch, and
so has one that faces one now. Without it a local value could come from
nowhere, and `GiveUp` would not be justified. The lemmas `HoldersAcquire` and
`HoldersRelease` say how the sets of readers and writers change when one thread
does; from them `CasSucceed` and `Release` preserve the count. Each action then
maps to `LockShared`, `LockExclusive`, `Unlock` or a stutter.

`PagerProofs`, for any number of threads, variables, pages, entries and slots,
any hash function and any capacity:

| theorem | shows |
|---|---|
| `TypeCorrect` | `[]TypeOK` |
| `EntryInvariance` | every entry's latch counts its holders |
| `RingAgreement` | `[]DirectoryRingAgree` |
| `LatchesExact` | `[]LatchesCountHolders` |
| `FixedStay` | `[]FixedPagesStay` |
| `ModeKnown` | `[]UnfixKnowsMode` |
| `CountExact` | `[]CountAccounting` |
| `SlotToFind` | `[]CreateFindsSlot` |
| `ChainsBounded` | `[]OverflowBounded` |
| `CacheRefinement` | `ImplementsPageCache` |
| `EnomemRight` | one thread: `EnomemMeansAllFixed` |

They use `PagerAssumption` and build on each other; each layer is an inductive
invariant relative to those below it.

1. `TypeInv`. `TypeOK` alone is not inductive: `EvictFree` writes
   `directory[ring[index]]`, which is a page id only because a thread in that
   phase has a victim, and a `page_t` is only read where it names a page.
   `TypeInv` adds `CallsOK`, what the program counter says about a thread's
   arguments and locals. The `Others...` lemmas say that a step of one thread
   leaves what is another's alone.
2. `EntryLatches`. `CountsAcquire` and `CountsRelease` are about one latch word
   and two sets; `EntryTaken`, `EntryReleased` and `EntriesKept` lift them to
   the entries, and every action is one of the three. `CountsRelease` also
   shows that the assertion of the release function holds. What the other
   layers need is `WriterAlone`: whoever has the write latch of an entry is
   alone with it.
3. `RingInv`. `DirectoryRingAgree` is not inductive: it adds `KnowsPage`, what a
   thread may rely on. While it creates a page, the page is not in the
   directory and the slot it claimed is its own; once `EvictConfirm` has seen
   its victim in the slot, directory and ring agree about it. Other threads
   cannot break either, as they would need the same entry's write latch
   (`OwnerAlone`).
4. `PageInv`. A fixed page is in the directory, so its slot has its id, so
   `CreateInit` resets no header that is fixed and `EvictFree`, which has seen
   the latch available, removes no page that is. The flag PAGE_FLAG_EXCLUSIVE is
   set exactly if a writer has the page that has not begun to unfix it; two
   halves (`WritersFlag`, `FlagsWriter`) and the exclusion by the latch give
   `UnfixKnowsMode`.
5. `CountAccounting` is inductive given `RingInv`: a step moves at most one slot
   and one thread (`ReserversStep`, `SlotTaken`, `SlotGivenUp`). That pages in
   the directory have different slots (`PagesFit`) bounds the chains and gives
   `PageCache!Load` its room. The six actions that change the directory or a
   `page_t` map to `Load`, `Evict`, `Fix` and `Unfix`; the others stutter.
6. `HandInv`, for a thread without rivals (`EnomemRight` assumes that no two
   threads differ, which is what "unless it loses races" in the comment of
   `pager_evict` comes to). As long as `evict_head` has not wrapped since the
   loop began, the positions looked at are the `probes` ones behind it
   (`Looked`); a page that could be taken away, and whose slot is among them, has
   lost its second chance and its slot was met once. When two rounds are over
   every slot was met twice (`RoundMeets`), so no such page is left. TLC has
   checked `HandInv` on the states of the run PagerAlone.

`WinterProofs`, for any suites, command lines and numbers of threads, and
whether or not forks fail:

| theorem | shows | inductive with |
|---|---|---|
| `TypeCorrect` | `[]TypeOK` | `TypeInv` |
| `NoneLeft` | `[]NoChildLeft` | `TypeInv` |
| `ReportedOnce` | `[]OneReport` | `ReportInv` |
| `VerdictsRight` | `[]VerdictRight` | `VerdictInv` |
| `AllRun` | `[]EveryTestRuns` | `CountInv` |

`TypeInv` adds `PositionOK` to the types: where the runner reads a test there is
one, so a test has a number of threads; it rests on `NoChildLeft` in turn, as
the child reads that number too. `VerdictRight` is about the moment a test is
judged, so `VerdictInv` follows the child up to it: `LoopOK` says that its first
thread is behind the joins only when the others are done, `FailedOK` that a
thread that has failed goes no further, `StatusOK` that the status then says
whether the test ran to its end, unless the child was killed, which is only done
when its time is over, or interrupted, which only happens with `handled`, that
is while debugging (`DebuggingOK`). The lemmas `ChildOnly`, `WorldOnly`,
`WaitingOnly` and `AwayAlone` say what each kind of step leaves alone, so that
each conjunct is looked at only where it can be disturbed. `AllRun` counts:
until the run ends, the number of tests that have run is that of the selected
ones behind the runner's position (`CountInv`). Going on to the next suite or
skipping a test leaves only tests behind that are not selected (`CountSkips`),
counting a test leaves exactly one more (`CountCounts`), and at the end all that
is selected is behind (`CountEnds`). `CountInv` holds on the states of the run
Winter.

`BTreePageProofs`, for any number of threads, keys, values and pages, whichever
allocation fails and whoever races for the root:

| theorem | shows |
|---|---|
| `TypeCorrect` | `[]TypeOK` |
| `HeadersExact` | `[]FreeSpaceExact` |
| `LatchesInHand` | `[]OnePageInHand`, when no allocation fails |
| `NoDeadlock` | `[]SomebodyDescends` |
| `RoomAlways` | `[]RoomForCells`, for cells of about one length |

`TypeOK` is not inductive: that `free_space` does not go below 0 rests on what
the cells take, and that a cell of an inner page has a page in it rests on where
the new page of a split came from. `PageInv` is: every page is `Sound` (its
header says what its cells take, its cells are of its kind), nothing leads to a
page that has not been handed out (`MadePages`), and a thread that walks stands
on an inner page it holds (`GoodCall`, `Standing`). TLC has checked it on
the states of the runs BTree and BTreeShared. The sum over the cells of a page
is a recursive function, so what `page_split`, `page_compact` and an insertion do
to it (`PayloadSplit`, `PayloadInsert`, `PayloadRedirected`) is proved by
induction. From them follow `HalvesSound`, `NewRootSound`, `InsertLeafSound` and
`InsertInnerSound`, one lemma for each way a page is written, and the actions
compose these.

`NoDeadlock` needs no more: not that nobody raced for the root, not that keys
can be compared. Its inductive invariant is `Downward`: the pages can be ranked
so that every link of an inner page goes to a page of a lower rank, also the one
that `page_split` leaves to the sibling. A new half comes between the page it
was split from and the pages below (`HalvesDescend`), a new root above
everything (`OverDescends` for the parent of a split). Of the calls that hold a
page, the one whose page has the least rank does not wait for a call that does.

`LatchesInHand` needs that no allocation fails (`~OutOfMemory`): after a failed
split of the root a page stays fixed (finding 7). That a call holds the page it
stands on is part of `PageInv` (`Standing`) and true in any case. That it holds no
other one (`NothingLeftNext`) is shown for each action from the order of its
`Fix` and `Unfix`, on both sides of a split.

`RoomAlways` says what the check on the way down is good for: if the assertion of
`page_insert_payload` fails, it is for the pointer to the cell, or for a
separator that is longer than the key (`RoomForCells`; finding 5 is the
pointer). Its hypothesis, `EvenCells`, is that the cells of leaves, and those of
inner pages, are of about one length: with their pointers the longest is at
most twice the shortest, and if three can stand on a page any three can. Leaf
and inner cells may differ in length, and gaps of any size are allowed. The
tests of `btree.c` are of this kind (cells of 16 or 17 bytes on leaves, of 7 or 8
on inner pages of 1024), and so is the run BTreeShared. Without the hypothesis
the half that a split leaves may be too full, as finding 6 shows. The argument is that what is taken of a page lies between that many
shortest and that many longest cells (`TakenBetween`), so either half of a full
page has room for a longest one (`HalvesHaveRoom`), and that a page an insertion
stands on has passed the check and nobody else writes to it (`RoomKept`).

`BTreeShapeProofs`, for any number of keys, values and pages and whichever
allocation fails, under one or both of two hypotheses. `KeysClose` says that the
difference of any two keys fits an int: `btree.c:19` cuts it, and with keys
further apart the order is none and the tree no search tree. `Alone` says that
there is one thread and that it inserts no key twice: with several threads a
call may begin at a page that is not the root any more (the TODO of
`btree_insert`), and an insertion of a key that is there ends in the second
unfix of finding 2, or stores the key a second time (finding 4).

| theorem | shows | hypotheses |
|---|---|---|
| `KeysKept` | `SharedSpec => []NoKeyLost`, any number of threads | `KeysClose` |
| `TableImplemented` | `Spec => ImplementsTable` | `KeysClose`, `Alone` |
| `SearchTreeAlways` | `[]SearchTree` | `KeysClose`, `Alone` |
| `SameDepthAlways` | `[]SameDepth` | `KeysClose`, `Alone` |
| `ChainSortedAlways` | `[]ChainSorted` | `KeysClose`, `Alone` |

None of the properties is inductive: they are about what a descent from the root
meets, and a split changes what lies below many descents. The invariant is that
there is a view of the pages (`Views`): which of them are in the tree, the range
of keys each is for, the page over it, its level. `Shape` says that the pages
fit the view: a link is for the keys between the separators beside it and leads
to the page for these keys, one level down; leaves have ranges that do not
overlap and are linked in their order; whatever any leaf holds is in the leaf
that is for it. `Place` says that a walking call stands on a page whose range
has its key. `InTree` is both.

* A split gives a view with one page more (`SplitView...`), a split of the root
  one with two and another top, a failing one loses the upper half of its range
  (`Lose...`). `SplitShape`, `RaiseShape`, `StoreShape`, `LoseLeafShape` and
  `LoseInnerShape` show conjunct by conjunct that the pages fit it;
  `OverRanges` and `HalfRanges` say what an insertion and a split do to the
  ranges of the links.
* `Becomes` is what each action then does, and `TreeStep` that each does it: to
  the view, to the other calls, which latch coupling keeps off the pages that
  change (`OthersPlace`), and to the table. That last part, `Effect`, is `Puts`
  for one key, `Reads`, `Drops`, or nothing.
* `LeafForPlace` leads from the root to the leaf: a descent goes down a level at
  each step, and there are not more levels than `Height`, since each new root
  takes two pages. With `ContentsHold` the table that `Contents` computes is
  what the leaves hold, and `TableStep` maps each step to one of `TableMap` or a
  stutter.
* `KeysKept` needs `AtRootNow`, that a call that begins waits for the root. It
  is what `~raced` says; the only thread has it by itself (`AloneAtRoot`).
* `LevelInTree` does for whole levels what `LeafForPlace` does for a descent.
  `ChainTo` follows the chain: each leaf begins where the one before ended, so
  it comes to every key; and since no page comes twice, `MaxPages` links lead to
  the end (`ChainEnds`).

`LifecycleProofs`, for a trace of any length and any order of calls:

| theorem | shows |
|---|---|
| `TypeCorrect` | `[]TypeOK` |
| `NoLeaks` | `[]NothingLost` |
| `SoundHandles` | `[]HandleAlive` |
| `FailuresTold` | `[]FailureTold` |

The inductive invariant `IInv` says, for every place in `pager_open`,
`btree_open` and `btree_create` and their closing, which blocks are on the heap,
whether a page is fixed and which cleanups are on the stack (`Position`), and
that a call has told of its failure once the cleanups run (`Outcome`). TLC has
checked it on the states of the run Lifecycle. `NothingLost` is about what the
cleanups will do, so a step that pushes one and the step that runs it are
connected through the stack only; `HandleAlive` needs to know whether the error
code was set when the call began (`began`).

`Induction` has what the last three and `CodecProofs` rest on. The library's induction theorems take an
operator as a parameter, which the installed provers cannot instantiate; the
lemmas here take a set instead (`NatSetInduction`, by counting: a set with 0 that
has with every number the next one has them all). From it follow that a function
defined by recursion exists (`RecursionExists`) and that a sum does and is one
(`SumExists`, `SumUnique`). `InsertAtPlaces` and `SubSeqPlaces` say what stands
where after a list has been added to or cut.

`CodecProofs`, for groups of any number of values and integers of any number of
bytes, and for any clock and random bits:

* `PutThenGet`: from whatever buffer, `varint_get` gets back what `varint_put`
  puts, and `varint_get_len` returns what `varint_put` returned, for values below
  `Weight[LastPosition]`, 2^56 in the code.
* `PutIsGot`: `Spec => []RoundTrip`, if the integers used are below that bound.
  Above it `RoundTrip` does not hold: finding 3.
* `CellsAlwaysRead`: `CellsSpec => []CellsRead`, for pages of any size below the
  same bound (they have 16 bits in the code), keys below it, and any values and
  old contents of memory.
* `UuidsSorted`: `UuidSpec => UuidsSort`, if the times fit into the six bytes
  they are given (`Shifted(time, 6) = 0`; until the year 10889).

`Weight`, `Results` and `Shifted` are recursive functions, so their equations
have to be proved (`WeightIs`, `ResultsAre`, `ShiftedIs`). After `n` bytes the
result of `varint_get` is the value modulo `Weight[n]` (`OneGroupMore`), and the
value is below `Weight[PutLen(v)]` (`PutLenFits`). Two identifiers are compared
from the front: while their bytes agree so do the times without the bytes
behind, and where they first differ the later time has the larger byte
(`StampsSort`).

`CellsRead` compares what is read with what is meant, and is not inductive: that
a pointer leads to the right bytes after the next insertion or split rests on
where all bytes are. `CellInv` says it: every cell is spelled out in the page
where its pointer leads (`Spelled`: key, length and value without what the
buffers held before), not in front of `data_start`, apart from the others, in the
order of the keys, and the lengths of the cells add up to what is taken of the
page. The sum is a witness (`Sizes`), as for the cells of a page of `BTree`; it
is what keeps the copies of `Moved` from running out of the page, or into each
other. TLC has checked it, the sum written out, on the states of the run Codec. A
cell that is spelled is read (`IntegerRead`, `CellRead`), writing one leaves it
spelled (`WrittenSpells`) and leaves those apart from it alone (`WrittenKeeps`),
and `InsertInv` and `SplitInv` are the two steps. The hypothesis on the keys is
that of `PutIsGot`: a key of nine bytes need not be got back (finding 3), and a
page with one is not in order then.

Only model-checked: the liveness properties (fairness and ENABLED are out of the
prover's reach): `SomebodyAcquires`, `CallsReturn`,
`RunEnds` and `AbortEndsDebugging`. Every invariant and every action
property of a passing run is stated by a theorem, some under hypotheses, which are given
with it.

## 5. Findings

The first three are runs of section 3. Each of the others has a configuration of
its own, with one invariant that a document or an assertion of the code promises
and that TLC finds violated within seconds (`tlc -config MCBTreeTwice.cfg MCBTree`).

1. **Deadlock of page and entry latches** (`src/pager.c:354`, run
   PagerCoupling). A holds page 1 exclusively. B fixes page 1: it has the read
   latch of the entry and waits for the page. A fixes page 2 of the same entry,
   not cached: it waits for the entry's write latch. Neither moves again.
2. **Double unfix on EEXIST** (`src/btree.c:395`, run BTreeReinsert). Inserting
   a key that is there unfixes the root in `defer` and again in `errdefer`, and
   the assertion in `latch_release_read` fails.
3. **Nine byte integers** (`src/varint.c:13`, run VarintLong). `--i` ends the
   loop after one byte; the test passes because of what is in its buffer.
4. **A key stored twice** (`src/btree.c:371` and `427`; `KeysOnce`,
   `MCBTreeTwice.cfg`). "key already exists on leaf page" (btree.c:265) is the
   answer only on the leaf that has the key. The separator of a split stays in
   the lower half, where look-ups go for it; an insertion of a key equal to it
   goes to the upper half, does not find it there and stores it again, with
   SUCCESS. Look-ups answer the old value.
5. **No room for the pointer** (`src/btree.c:398`; `PayloadFits`,
   `MCBTreeRoom.cfg`). The check for a split leaves out the two bytes of the
   pointer to the cell, and the assertion of `page_insert_payload`
   (`btree.c:240`) aborts the insertion: on pages of 1024 bytes, with keys of
   one byte and values of nine, the 78th one.
6. **No room in the half** (`src/btree.c:311`; `PayloadFits`,
   `MCBTreeHalves.cfg`). A page is split by the number of its cells; the half
   that the key goes to may have no room for it, and the same assertion fails.
7. **A page stays fixed** (`src/btree.c:407`; `ClosableWhenIdle`,
   `MCBTreeLeft.cfg`). If the second `pager_next` of a root split fails, nobody
   unfixes the page that the first one has fixed, and pager_close "Should only
   be called if no page is fixed any more" (pager.h:51). If the root was an
   inner page, look-ups come to it through `right` and wait for ever.
8. **The clock hand wraps** (`src/pager.c:318`; `AloneEnomemMeansAllFixed`,
   `MCPagerHand.cfg`), against the comment of `pager_evict`. The size of the
   ring does not divide 2^32: a search around the wrap looks at some slot only
   once, and gives up with a page there that is not fixed.
9. **The counter of pages wraps** (`src/pager.c:431`; `NextPageIsNew`,
   `MCPagerWrap.cfg`): `pager_next`, which "Retrieves a new page", then hands
   out pages that exist.
10. **A pager that is freed as it is opened** (`src/pager.c:121`, and
    `src/btree.c:153` for a tree; `OpenedIsAlive`, `MCLifecycleStale.cfg`).
    `errdefer` looks at the thread's code: with one left over from an earlier
    call, a successful `pager_open` returns memory that it has freed.
11. **A full trace** (`src/error.c:66`; `FramesInBounds`, `MCLifecycleFull.cfg`)
    has a length and shows no frame, not only "if the index is out of bounds"
    (error.h:37); `assert_success` reads them without looking (`winter.h:957`).
12. **A failed fork passes the test** (`include/winter.h:421`; `PassedTestsRan`,
    `MCWinterFork.cfg`), under the comment "child process exited"
    (winter.h:431): `waitpid(-1)` returns -1, the process id the runner looks
    for.

What else a reader of the code should know, seen while it was modelled. The
models have it where it is about state; no document promises otherwise.

* If a page cannot be had in `btree_insert_walk` (`btree.c:364`), the child stays
  fixed, and the root is unfixed twice.
* With an old error set, an insertion that succeeds unfixes its root twice.
* A `page_split` of a page with a single cell splits at 0 (`btree.c:367`).
* An evicted page's content is dropped; PAGE_FLAG_DIRTY is never read
  (`pager.c:338`).
* `error_append_message` measures the message and then writes from its start
  (`error.c:50`).
* An interrupt between the installation of the handler and the reset of
  `_winter_debug_abort` is lost (`winter.h:387`).
* `--help` lists `--pid`, which the parser refuses (`winter.h:574`). Patterns
  that match no test give an exit code of success.

## 6. Not modelled

* Index pages of the B-tree, which no function inserts into, and what becomes of
  the bytes a look-up has returned a pointer to, once the page is unfixed.
* The content an eviction drops: there is no storage below the pager.
* Memory orders weaker than sequential consistency.
* The text of error messages; the output of the test runner; `uuid_snprintf`,
  which formats, and `uuid_v8_package`, which fills an array for tests;
  `varint_cmp`, a stub.
* In the test runner, failures of memory, of `kill` and of `waitpid`, which it
  answers by giving up, and an interrupt that nobody handles, which ends it.
* The build.

## 7. Plan

Order of work, most important first; all of it is done.

1. Latch with proofs; abstract lock.
2. Pager against `PageCache`, its invariants, its type invariant proved.
3. B-tree by one thread against `TableMap`, then by two.
4. Varints, blobs and the bytes of a leaf; identifiers.
5. The pager's invariants and its refinement of `PageCache`, proved.
6. Error traces, `defer` and `errdefer`, opening and closing.
7. The test runner, its safety proved, `EveryTestRuns` included.
8. `BTreePageProofs` and `LifecycleProofs`.
9. `BTreeShapeProofs`: the shape of the tree, and its refinement of `TableMap`.
10. `CodecProofs`: `RoundTrip` and `UuidsSort`; `EnomemMeansAllFixed` for one thread.
11. `CellsAlwaysRead`, with a recursive function for the loops of `Moved`.
