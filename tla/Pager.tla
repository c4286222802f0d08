------------------------------- MODULE Pager --------------------------------
(***************************************************************************)
(* The page cache of src/pager.c: a hash directory from page ids to page   *)
(* headers, a CLOCK ring of headers that are reused after eviction, and    *)
(* four atomic counters, used by threads that fix and unfix pages.         *)
(*                                                                         *)
(* One action per atomic operation of the code, with the plain reads and   *)
(* writes that follow it under the latch it took.  A latch is acquired in  *)
(* one step that waits until the word allows it, which is what module      *)
(* Latch shows the spin loops to do.  A release that directly follows a    *)
(* read is part of that read's action.                                     *)
(*                                                                         *)
(* A header never leaves the ring slot it was allocated for, so header_t*  *)
(* is the index of its slot.  header_t.id is written and read once, in     *)
(* pager_create, where it is the argument id.  The hash function is the    *)
(* constant Hash.                                                          *)
(***************************************************************************)
EXTENDS LatchOps, FiniteSets

CONSTANTS
  Threads,    \* the threads that use the pager
  PageVars,   \* the page_t variables each thread has
  Modes,      \* the values of the argument "exclusive" the threads pass
  MaxPageId,  \* the largest page_id_t, UINT32_MAX in the code
  Buckets,    \* the entries of the directory
  Hash,       \* pager_hash
  EntrySlots, \* the mappings an entry holds without a bucket_t, 2 in the code
  Size,       \* pager->size, the number of ring slots
  HeadMod,    \* the number of values of evict_head and create_head, 2^32
  NextLimit   \* bound: pager_next is only called while next_page <= NextLimit

PageIds == 1 .. MaxPageId
Slots == 0 .. Size - 1
NoHeader == -1
Handles == Threads \X PageVars

ASSUME PagerAssumption ==
  /\ IsFiniteSet(Threads)
  /\ IsFiniteSet(PageVars)
  /\ PageVars # {}
  /\ Modes \subseteq BOOLEAN
  /\ MaxPageId \in Nat \ {0}
  /\ Hash \in [PageIds -> Buckets]
  /\ EntrySlots \in Nat
  /\ Size \in Nat \ {0}
  /\ HeadMod \in Nat \ {0}
  /\ NextLimit \in Nat

VARIABLES
  page_count,    \* pages tracked, and pages about to be
  evict_head,    \* CLOCK hand of eviction
  create_head,   \* where the search for a free slot goes on
  next_page,     \* the id pager_next hands out next
  bucket_latch,  \* hash_entry_t.latch
  directory,     \* page id -> header, the mappings of all entries
  overflow,      \* the number of bucket_t allocated for an entry
  ring,          \* ring_entry_t.page_id, 0 when the slot is free
  allocated,     \* whether ring_entry_t.header is allocated yet
  page_flags,    \* header_t.flags
  page_latch,    \* header_t.latch
  pc,            \* where each thread is
  id,            \* its argument "id"
  exclusive,     \* its argument "exclusive"
  out,           \* the page_t variable its argument "out" points to
  count,         \* pager_fix: the expected value of page_count
  index,         \* pager_create, pager_evict: the slot looked at
  probes,        \* pager_evict: the loop counter i
  victim,        \* pager_directory_find_entry: the expected page id
  page           \* the page_t variables, and how each page was fixed

counters == <<page_count, evict_head, create_head, next_page>>
entries == <<directory, overflow>>
table == <<bucket_latch, entries>>
headers == <<allocated, page_flags, page_latch>>
frames == <<ring, headers>>
arguments == <<id, exclusive, out>>
locals == <<count, index, probes, victim>>
vars == <<counters, table, frames, pc, arguments, locals, page>>

AnyVar == CHOOSE v \in PageVars : TRUE

Flags == {"DIRTY", "REF", "EXCLUSIVE"}

NoPage == [id |-> 0, data |-> NoHeader, exclusive |-> FALSE]
Pages == [id : PageIds, data : Slots, exclusive : BOOLEAN]

(***************************************************************************)
(* The program counter.                                                    *)
(*   fast_*       pager_fix, the first look-up under the read latch        *)
(*   load_count, reserve    the loop on page_count                         *)
(*   evict*       pager_evict and pager_directory_find_entry               *)
(*   slow_*       pager_fix, the second look-up under the write latch      *)
(*   create*, undo          pager_create and its error path                *)
(*   fix_release  the end of pager_fix under the write latch               *)
(*   unfix_release          pager_unfix after the flags are written        *)
(***************************************************************************)
ReadPhase == {"fast_lookup", "fast_release"}
EvictPhase == {"evict_check", "evict_header", "evict_release"}
CreatePhase == {"create", "create_claim", "create_init", "create_insert",
                "create_page"}
WritePhase ==
  CreatePhase \cup {"slow_lookup", "slow_undo", "undo", "fix_release"}
States ==
  ReadPhase \cup EvictPhase \cup WritePhase \cup
    {"idle", "fast_latch", "load_count", "reserve", "evict", "evict_load",
     "evict_latch", "slow_latch", "unfix_release"}

(***************************************************************************)
(* The type invariant.  It bounds what the code leaves to wrap-around or   *)
(* to a loop's exit: the probes of pager_evict and the indices of the ring.*)
(***************************************************************************)
TypeOK ==
  /\ page_count \in Int
  /\ evict_head \in 0 .. HeadMod - 1
  /\ create_head \in 0 .. HeadMod - 1
  /\ next_page \in 0 .. MaxPageId
  /\ bucket_latch \in [Buckets -> Int]
  /\ directory \in [PageIds -> Slots \cup {NoHeader}]
  /\ overflow \in [Buckets -> Nat]
  /\ ring \in [Slots -> PageIds \cup {0}]
  /\ allocated \in [Slots -> BOOLEAN]
  /\ page_flags \in [Slots -> SUBSET Flags]
  /\ page_latch \in [Slots -> Int]
  /\ pc \in [Threads -> States]
  /\ id \in [Threads -> PageIds \cup {0}]
  /\ exclusive \in [Threads -> BOOLEAN]
  /\ out \in [Threads -> PageVars]
  /\ count \in [Threads -> Int]
  /\ index \in [Threads -> Slots]
  /\ probes \in [Threads -> 0 .. 2 * Size]
  /\ victim \in [Threads -> PageIds \cup {0}]
  /\ page \in [Handles -> Pages \cup {NoPage}]

Init ==
  /\ page_count = 0
  /\ evict_head = 0
  /\ create_head = 0
  /\ next_page = 1
  /\ bucket_latch = [b \in Buckets |-> FreeLatch]
  /\ directory = [p \in PageIds |-> NoHeader]
  /\ overflow = [b \in Buckets |-> 0]
  /\ ring = [s \in Slots |-> 0]
  /\ allocated = [s \in Slots |-> FALSE]
  /\ page_flags = [s \in Slots |-> {}]
  /\ page_latch = [s \in Slots |-> FreeLatch]
  /\ pc = [t \in Threads |-> "idle"]
  /\ id = [t \in Threads |-> 0]
  /\ exclusive = [t \in Threads |-> FALSE]
  /\ out = [t \in Threads |-> AnyVar]
  /\ count = [t \in Threads |-> 0]
  /\ index = [t \in Threads |-> 0]
  /\ probes = [t \in Threads |-> 0]
  /\ victim = [t \in Threads |-> 0]
  /\ page = [h \in Handles |-> NoPage]

Goto(t, label) == pc' = [pc EXCEPT ![t] = label]

\* The local variables of the loops are out of scope, or reset, from here on.
DropLocals(t) ==
  /\ count' = [count EXCEPT ![t] = 0]
  /\ index' = [index EXCEPT ![t] = 0]
  /\ probes' = [probes EXCEPT ![t] = 0]
  /\ victim' = [victim EXCEPT ![t] = 0]

\* pager_fix or pager_unfix returns to the client.
Return(t) ==
  /\ Goto(t, "idle")
  /\ id' = [id EXCEPT ![t] = 0]
  /\ exclusive' = [exclusive EXCEPT ![t] = FALSE]
  /\ out' = [out EXCEPT ![t] = AnyVar]
  /\ DropLocals(t)

Bucket(t) == Hash[id[t]]

\* The entry whose latch a thread inside pager_evict waits for or holds.
VictimBucket(t) == Hash[victim[t]]

AcquireBucket(b, x) ==
  /\ CanAcquire(bucket_latch[b], x)
  /\ bucket_latch' = [bucket_latch EXCEPT ![b] = Acquired(@, x)]

\* Variant: an early return skips the release of the write latch.
ReleaseReadOnly(b, x) ==
  bucket_latch' = [bucket_latch EXCEPT ![b] = IF x THEN @ ELSE Released(@, x)]

ReleaseBucket(b, x) ==
  bucket_latch' = [bucket_latch EXCEPT ![b] = Released(@, x)]

\* Variant: the second look-up is left out.
FoundFirst(t) == pc[t] = "fast_lookup" /\ directory[id[t]] # NoHeader

\* entry_directory_lookup
Found(t) == directory[id[t]] # NoHeader

(***************************************************************************)
(* The end of pager_lookup and of pager_fix: the latch of header s is      *)
(* acquired in the mode asked for, a writer sets PAGE_FLAG_EXCLUSIVE, and  *)
(* *out receives the page.                                                 *)
(***************************************************************************)
AcquirePage(t, s) ==
  /\ CanAcquire(page_latch[s], exclusive[t])
  /\ page_latch' = [page_latch EXCEPT ![s] = Acquired(@, exclusive[t])]
  /\ page_flags' = [page_flags EXCEPT ![s] =
                      IF exclusive[t] THEN @ \cup {"EXCLUSIVE"} ELSE @]
  /\ page' = [page EXCEPT ![<<t, out[t]>>] =
                [id |-> id[t], data |-> s, exclusive |-> exclusive[t]]]
  /\ UNCHANGED <<ring, allocated>>

-----------------------------------------------------------------------------
(***************************************************************************)
(* Calls.  A client passes a page_t variable that holds no page.  Page id  *)
(* 0 is refused with EINVAL before anything is touched.                    *)
(***************************************************************************)
Enter(t, v, p, x) ==
  /\ Goto(t, "fast_latch")
  /\ id' = [id EXCEPT ![t] = p]
  /\ exclusive' = [exclusive EXCEPT ![t] = x]
  /\ out' = [out EXCEPT ![t] = v]

\* pager_fix is called.
Fix(t, v, p, x) ==
  /\ pc[t] = "idle"
  /\ page[<<t, v>>] = NoPage
  /\ Enter(t, v, p, x)
  /\ UNCHANGED <<counters, table, frames, locals, page>>

\* pager_next is called; the id it fetched is 0 after the counter wrapped.
FixNext(t, v) ==
  /\ next_page <= NextLimit
  /\ pc[t] = "idle"
  /\ page[<<t, v>>] = NoPage
  /\ next_page' = (next_page + 1) % (MaxPageId + 1)
  /\ IF next_page = 0
       THEN UNCHANGED <<pc, arguments>>
       ELSE Enter(t, v, next_page, TRUE)
  /\ UNCHANGED <<page_count, evict_head, create_head, table, frames, locals,
                 page>>

-----------------------------------------------------------------------------
(***************************************************************************)
(* pager_fix, the fast path under the read latch of the directory entry.   *)
(***************************************************************************)
FastLatch(t) ==
  /\ pc[t] = "fast_latch"
  /\ AcquireBucket(Bucket(t), FALSE)
  /\ Goto(t, "fast_lookup")
  /\ UNCHANGED <<counters, entries, frames, arguments, locals, page>>

FastMiss(t) ==
  /\ pc[t] = "fast_lookup"
  /\ ~Found(t)
  /\ ReleaseBucket(Bucket(t), FALSE)
  /\ Goto(t, "load_count")
  /\ UNCHANGED <<counters, entries, frames, arguments, locals, page>>

\* pager_lookup finds the header and waits for its latch, bucket latch in hand.
FastHit(t) ==
  /\ pc[t] = "fast_lookup"
  /\ Found(t)
  /\ AcquirePage(t, directory[id[t]])
  /\ Goto(t, "fast_release")
  /\ UNCHANGED <<counters, table, arguments, locals>>

FastRelease(t) ==
  /\ pc[t] = "fast_release"
  /\ ReleaseBucket(Bucket(t), FALSE)
  /\ Return(t)
  /\ UNCHANGED <<counters, entries, frames, page>>

-----------------------------------------------------------------------------
(***************************************************************************)
(* pager_fix, capacity: count the page in, or evict another one for it.    *)
(***************************************************************************)
LoadCount(t) ==
  /\ pc[t] = "load_count"
  /\ count' = [count EXCEPT ![t] = page_count]
  /\ Goto(t, "reserve")
  /\ UNCHANGED <<counters, table, frames, arguments, index, probes, victim,
                 page>>

\* Variant: the counter is stored whatever it holds now.
AnyCount(t) == TRUE

\* Whether the exchange on page_count finds the value it was loaded with.
CountUnchanged(t) == page_count = count[t]

\* The exchange on page_count succeeds.
Reserve(t) ==
  /\ pc[t] = "reserve"
  /\ count[t] < Size - 1
  /\ CountUnchanged(t)
  /\ page_count' = count[t] + 1
  /\ DropLocals(t)
  /\ Goto(t, "slow_latch")
  /\ UNCHANGED <<evict_head, create_head, next_page, table, frames, arguments,
                 page>>

\* It fails and loads the counter.  A spurious failure changes nothing.
ReserveRetry(t) ==
  /\ pc[t] = "reserve"
  /\ count[t] < Size - 1
  /\ ~CountUnchanged(t)
  /\ count' = [count EXCEPT ![t] = page_count]
  /\ UNCHANGED <<counters, table, frames, pc, arguments, index, probes, victim,
                 page>>

ReserveFull(t) ==
  /\ pc[t] = "reserve"
  /\ count[t] >= Size - 1
  /\ DropLocals(t)
  /\ Goto(t, "evict")
  /\ UNCHANGED <<counters, table, frames, arguments, page>>

-----------------------------------------------------------------------------
(***************************************************************************)
(* pager_evict: 2 * Size probes of the ring.  A probe that cannot evict    *)
(* goes on with the next one.                                              *)
(***************************************************************************)
NextProbe(t) ==
  /\ probes' = [probes EXCEPT ![t] = @ + 1]
  /\ index' = [index EXCEPT ![t] = 0]
  /\ victim' = [victim EXCEPT ![t] = 0]
  /\ Goto(t, "evict")

\* Variant: one probe too many.
ProbesLeftInclusive(t) == probes[t] <= 2 * Size

ProbesLeft(t) == probes[t] < 2 * Size

Probe(t) ==
  /\ pc[t] = "evict"
  /\ ProbesLeft(t)
  /\ index' = [index EXCEPT ![t] = evict_head % Size]
  /\ evict_head' = (evict_head + 1) % HeadMod
  /\ Goto(t, "evict_load")
  /\ UNCHANGED <<page_count, create_head, next_page, table, frames, arguments,
                 count, probes, victim, page>>

\* No page to evict: pager_fix returns ENOMEM.
EvictFail(t) ==
  /\ pc[t] = "evict"
  /\ ~ProbesLeft(t)
  /\ Return(t)
  /\ UNCHANGED <<counters, table, frames, page>>

\* The page id loaded from the slot: nothing there, or a page to look at.
TakeVictim(t) ==
  \/ ring[index[t]] = 0 /\ NextProbe(t)
  \/ /\ ring[index[t]] # 0
     /\ victim' = [victim EXCEPT ![t] = ring[index[t]]]
     /\ Goto(t, "evict_latch")
     /\ UNCHANGED <<index, probes>>

EvictLoad(t) ==
  /\ pc[t] = "evict_load"
  /\ TakeVictim(t)
  /\ UNCHANGED <<counters, table, frames, arguments, count, page>>

EvictLatch(t) ==
  /\ pc[t] = "evict_latch"
  /\ AcquireBucket(VictimBucket(t), TRUE)
  /\ Goto(t, "evict_check")
  /\ UNCHANGED <<counters, entries, frames, arguments, locals, page>>

\* Variant: the slot is not looked at again under the latch.
Trusted(t) == TRUE

\* The exchange of the slot's page id with itself, under the latch.
StillThere(t) == ring[index[t]] = victim[t]

\* It succeeds.
EvictConfirm(t) ==
  /\ pc[t] = "evict_check"
  /\ StillThere(t)
  /\ Goto(t, "evict_header")
  /\ UNCHANGED <<counters, table, frames, arguments, locals, page>>

\* It fails and loads what the slot holds now.
EvictStale(t) ==
  /\ pc[t] = "evict_check"
  /\ ~StillThere(t)
  /\ ReleaseBucket(VictimBucket(t), TRUE)
  /\ TakeVictim(t)
  /\ UNCHANGED <<counters, entries, frames, arguments, count, page>>

\* Variant: pager_evict does not ask whether the page is fixed.
NeverFixed(s) == TRUE

Unfixed(s) == Available(page_latch[s])

\* Variant: a second chance is given again and again.
KeepRef(flags) == flags

ClearRef(flags) == flags \ {"REF"}

(***************************************************************************)
(* The header of the victim, under the write latch of its entry: nobody    *)
(* can fix the page now, so one that is unfixed stays as it is.            *)
(***************************************************************************)
EvictSkipFixed(t) ==
  /\ pc[t] = "evict_header"
  /\ ~Unfixed(index[t])
  /\ ReleaseBucket(VictimBucket(t), TRUE)
  /\ NextProbe(t)
  /\ UNCHANGED <<counters, entries, frames, arguments, count, page>>

\* The page was used since the hand last passed: it gets a second chance.
SecondChance(t) ==
  /\ pc[t] = "evict_header"
  /\ Unfixed(index[t])
  /\ "REF" \in page_flags[index[t]]
  /\ page_flags' = [page_flags EXCEPT ![index[t]] = ClearRef(@)]
  /\ ReleaseBucket(VictimBucket(t), TRUE)
  /\ NextProbe(t)
  /\ UNCHANGED <<counters, entries, ring, allocated, page_latch, arguments,
                 count, page>>

\* pager_directory_remove, then the slot is given up.
EvictFree(t) ==
  /\ pc[t] = "evict_header"
  /\ Unfixed(index[t])
  /\ "REF" \notin page_flags[index[t]]
  /\ directory' = [directory EXCEPT ![ring[index[t]]] = NoHeader]
  /\ ring' = [ring EXCEPT ![index[t]] = 0]
  /\ Goto(t, "evict_release")
  /\ UNCHANGED <<counters, bucket_latch, overflow, headers, arguments, locals,
                 page>>

EvictRelease(t) ==
  /\ pc[t] = "evict_release"
  /\ ReleaseBucket(VictimBucket(t), TRUE)
  /\ DropLocals(t)
  /\ Goto(t, "slow_latch")
  /\ UNCHANGED <<counters, entries, frames, arguments, page>>

-----------------------------------------------------------------------------
(***************************************************************************)
(* pager_fix, the second look-up, under the write latch of the entry.      *)
(***************************************************************************)
SlowLatch(t) ==
  /\ pc[t] = "slow_latch"
  /\ AcquireBucket(Bucket(t), TRUE)
  /\ Goto(t, "slow_lookup")
  /\ UNCHANGED <<counters, entries, frames, arguments, locals, page>>

SlowHit(t) ==
  /\ pc[t] = "slow_lookup"
  /\ Found(t)
  /\ AcquirePage(t, directory[id[t]])
  /\ Goto(t, "slow_undo")
  /\ UNCHANGED <<counters, table, arguments, locals>>

SlowMiss(t) ==
  /\ pc[t] = "slow_lookup"
  /\ ~Found(t)
  /\ Goto(t, "create")
  /\ UNCHANGED <<counters, table, frames, arguments, locals, page>>

\* Variant: the place counted for a page that is not needed stays counted.
KeepCount(t) == IF pc[t] = "undo" THEN page_count - 1 ELSE page_count

GiveBack(t) == page_count - 1

\* The page counted in, or evicted, for this call is not needed or not made.
Uncount(t) ==
  /\ pc[t] \in {"slow_undo", "undo"}
  /\ page_count' = GiveBack(t)
  /\ Goto(t, "fix_release")
  /\ UNCHANGED <<evict_head, create_head, next_page, table, frames, arguments,
                 locals, page>>

FixRelease(t) ==
  /\ pc[t] = "fix_release"
  /\ ReleaseBucket(Bucket(t), TRUE)
  /\ Return(t)
  /\ UNCHANGED <<counters, entries, frames, page>>

-----------------------------------------------------------------------------
(***************************************************************************)
(* pager_create: find a free slot, initialise its header, insert it.       *)
(***************************************************************************)
CreateProbe(t) ==
  /\ pc[t] = "create"
  /\ index' = [index EXCEPT ![t] = create_head % Size]
  /\ create_head' = (create_head + 1) % HeadMod
  /\ Goto(t, "create_claim")
  /\ UNCHANGED <<page_count, evict_head, next_page, table, frames, arguments,
                 count, probes, victim, page>>

CreateClaim(t) ==
  /\ pc[t] = "create_claim"
  /\ ring[index[t]] = 0
  /\ ring' = [ring EXCEPT ![index[t]] = id[t]]
  /\ Goto(t, "create_init")
  /\ UNCHANGED <<counters, table, headers, arguments, locals, page>>

\* The slot is taken, or the weak exchange fails spuriously.
CreateSkip(t) ==
  /\ pc[t] = "create_claim"
  /\ index' = [index EXCEPT ![t] = 0]
  /\ Goto(t, "create")
  /\ UNCHANGED <<counters, table, frames, arguments, count, probes, victim,
                 page>>

\* The header is allocated, unless the slot has one, and initialised.
CreateInit(t) ==
  /\ pc[t] = "create_init"
  /\ allocated' = [allocated EXCEPT ![index[t]] = TRUE]
  /\ page_flags' = [page_flags EXCEPT ![index[t]] = {}]
  /\ page_latch' = [page_latch EXCEPT ![index[t]] = FreeLatch]
  /\ Goto(t, "create_insert")
  /\ UNCHANGED <<counters, table, ring, arguments, locals, page>>

\* malloc fails for the first header of the slot.
CreateInitFail(t) ==
  /\ pc[t] = "create_init"
  /\ ~allocated[index[t]]
  /\ ring' = [ring EXCEPT ![index[t]] = 0]
  /\ Goto(t, "undo")
  /\ UNCHANGED <<counters, table, headers, arguments, locals, page>>

Mapped(b) == {p \in PageIds : Hash[p] = b /\ directory[p] # NoHeader}

\* Variant: the nodes that removals left empty are not used again.
FreshNode(b) == Cardinality(Mapped(b)) >= EntrySlots

\* The slots of the entry itself and its bucket_t nodes are all in use.
EntryFull(b) == Cardinality(Mapped(b)) = EntrySlots + overflow[b]

\* pager_directory_insert, with a new bucket_t if the entry is full.
CreateInsert(t) ==
  /\ pc[t] = "create_insert"
  /\ directory' = [directory EXCEPT ![id[t]] = index[t]]
  /\ overflow' = [overflow EXCEPT ![Bucket(t)] =
                    IF EntryFull(Bucket(t)) THEN @ + 1 ELSE @]
  /\ Goto(t, "create_page")
  /\ UNCHANGED <<counters, bucket_latch, frames, arguments, locals, page>>

\* malloc fails for the new bucket_t.
CreateInsertFail(t) ==
  /\ pc[t] = "create_insert"
  /\ EntryFull(Bucket(t))
  /\ ring' = [ring EXCEPT ![index[t]] = 0]
  /\ Goto(t, "undo")
  /\ UNCHANGED <<counters, table, headers, arguments, locals, page>>

CreatePage(t) ==
  /\ pc[t] = "create_page"
  /\ AcquirePage(t, index[t])
  /\ Goto(t, "fix_release")
  /\ UNCHANGED <<counters, table, arguments, locals>>

-----------------------------------------------------------------------------
(***************************************************************************)
(* pager_unfix.  The mode of the release is decided by the header's flag,  *)
(* the page_t does not carry it.                                           *)
(***************************************************************************)
\* Variant: a writer, too, sets its flags with an "or".
UnfixOr(flags) == flags \cup {"DIRTY", "REF"}

\* A writer overwrites the flags, a reader sets PAGE_FLAG_REF.
UnfixStores(flags) ==
  IF "EXCLUSIVE" \in flags THEN {"DIRTY", "REF"} ELSE flags \cup {"REF"}

UnfixFlags(t, v) ==
  LET s == page[<<t, v>>].data
      x == "EXCLUSIVE" \in page_flags[s]
  IN  /\ pc[t] = "idle"
      /\ page[<<t, v>>] # NoPage
      /\ page_flags' = [page_flags EXCEPT ![s] = UnfixStores(@)]
      /\ exclusive' = [exclusive EXCEPT ![t] = x]
      /\ out' = [out EXCEPT ![t] = v]
      /\ Goto(t, "unfix_release")
      /\ UNCHANGED <<counters, table, ring, allocated, page_latch, id, locals,
                     page>>

UnfixRelease(t) ==
  /\ pc[t] = "unfix_release"
  /\ LET s == page[<<t, out[t]>>].data
     IN  page_latch' = [page_latch EXCEPT ![s] = Released(@, exclusive[t])]
  /\ page' = [page EXCEPT ![<<t, out[t]>>] = NoPage]
  /\ Return(t)
  /\ UNCHANGED <<counters, table, ring, allocated, page_flags>>

-----------------------------------------------------------------------------
Lookup(t) ==
  FastLatch(t) \/ FastHit(t) \/ FastMiss(t) \/ FastRelease(t)

CountPage(t) ==
  LoadCount(t) \/ Reserve(t) \/ ReserveRetry(t) \/ ReserveFull(t)

Evict(t) ==
  \/ Probe(t) \/ EvictFail(t) \/ EvictLoad(t) \/ EvictLatch(t)
  \/ EvictConfirm(t) \/ EvictStale(t) \/ EvictSkipFixed(t)
  \/ SecondChance(t) \/ EvictFree(t) \/ EvictRelease(t)

SlowLookup(t) ==
  SlowLatch(t) \/ SlowHit(t) \/ SlowMiss(t) \/ Uncount(t) \/ FixRelease(t)

Create(t) ==
  \/ CreateProbe(t) \/ CreateClaim(t) \/ CreateSkip(t) \/ CreateInit(t)
  \/ CreateInitFail(t) \/ CreateInsert(t) \/ CreateInsertFail(t)
  \/ CreatePage(t)

\* A step inside a call that has begun.
Step(t) ==
  \/ Lookup(t) \/ CountPage(t) \/ Evict(t) \/ SlowLookup(t) \/ Create(t)
  \/ UnfixRelease(t)

Call(t) ==
  \E v \in PageVars :
    \/ \E p \in PageIds, x \in Modes : Fix(t, v, p, x)
    \/ FixNext(t, v)
    \/ UnfixFlags(t, v)

Next == \E t \in Threads : Call(t) \/ Step(t)

Spec == Init /\ [][Next]_vars

(***************************************************************************)
(* Threads inside a call keep running, clients unfix what they fixed, and  *)
(* the weak exchange of pager_create does not fail for ever on slots that  *)
(* are free.  Nothing is assumed about who gets a latch.                   *)
(***************************************************************************)
Fairness ==
  \A t \in Threads :
    /\ WF_vars(Step(t))
    /\ SF_vars(CreateClaim(t))
    /\ WF_vars(\E v \in PageVars : UnfixFlags(t, v))

FairSpec == Spec /\ Fairness

=============================================================================
