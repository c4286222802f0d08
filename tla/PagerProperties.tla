-------------------------- MODULE PagerProperties ---------------------------
(***************************************************************************)
(* What makes the page cache correct, as invariants, action properties,    *)
(* liveness and the refinement of module PageCache.                        *)
(***************************************************************************)
EXTENDS Pager

Fixed(s) == {h \in Handles : page[h] # NoPage /\ page[h].data = s}

Resident == {s \in Slots : ring[s] # 0}

BucketReaders(b) == {t \in Threads : pc[t] \in ReadPhase /\ Bucket(t) = b}

BucketWriters(b) ==
  {t \in Threads : \/ pc[t] \in WritePhase /\ Bucket(t) = b
                   \/ pc[t] \in EvictPhase /\ VictimBucket(t) = b}

\* The threads a page has been counted, or evicted, for that is not there yet.
Reservers ==
  {t \in Threads : pc[t] \in {"evict_release", "slow_latch", "slow_lookup",
                              "slow_undo", "create", "create_claim", "undo"}}

(***************************************************************************)
(* A latch word against the sets of threads or variables that hold it.     *)
(***************************************************************************)
CountsHolders(word, readers, writers) ==
  IF word = -1
    THEN readers = {} /\ Cardinality(writers) = 1
    ELSE writers = {} /\ Cardinality(readers) = word

(***************************************************************************)
(* Every latch of the directory and of the headers counts exactly those    *)
(* that hold it, through defer, early returns, the exchange loop of        *)
(* pager_directory_find_entry and a header that is used again.  It is what *)
(* assert_latch_read_access, assert_latch_write_access, the assertions of  *)
(* the release functions and latch_available rely on.                      *)
(***************************************************************************)
LatchesCountHolders ==
  /\ \A b \in Buckets :
       CountsHolders(bucket_latch[b], BucketReaders(b), BucketWriters(b))
  /\ \A s \in Slots :
       CountsHolders(page_latch[s],
                     {h \in Fixed(s) : ~page[h].exclusive},
                     {h \in Fixed(s) : page[h].exclusive})

(***************************************************************************)
(* The directory and the ring agree: a page found in the directory owns    *)
(* the slot it is mapped to, and a slot taken for a page is in the         *)
(* directory, but while pager_create is between claiming the slot and the  *)
(* insertion.  So a page never has two headers, nor a header two pages.    *)
(***************************************************************************)
DirectoryRingAgree ==
  /\ \A p \in PageIds : directory[p] # NoHeader => ring[directory[p]] = p
  /\ \A s \in Slots : ring[s] # 0 =>
       \/ directory[ring[s]] = s
       \/ \E t \in Threads : /\ pc[t] \in {"create_init", "create_insert"}
                             /\ index[t] = s
                             /\ id[t] = ring[s]

(***************************************************************************)
(* A fixed page keeps its header for as long as it is fixed: neither the   *)
(* CLOCK hand of another thread, nor one that read the ring before, gives  *)
(* it away (pager_evict looks at latches it does not take).                *)
(***************************************************************************)
FixedPagesStay ==
  \A h \in Handles : page[h] # NoPage =>
    /\ directory[page[h].id] = page[h].data
    /\ ring[page[h].data] = page[h].id

(***************************************************************************)
(* page_count is exact: the slots in use and the calls that still have a   *)
(* page to create or to give back, never more than the capacity.  A call   *)
(* that evicts takes the place of the page over, whatever it then does.    *)
(***************************************************************************)
CountAccounting ==
  /\ page_count = Cardinality(Resident) + Cardinality(Reservers)
  /\ page_count <= Size - 1

(***************************************************************************)
(* The search for a free slot in pager_create has no exit of its own: when *)
(* a thread is in it there is a free slot, and one to spare.               *)
(***************************************************************************)
CreateFindsSlot ==
  \A t \in Threads : pc[t] \in {"create", "create_claim"} =>
    Cardinality(Slots \ Resident) >= 2

(***************************************************************************)
(* A page_t does not say how the page was fixed, pager_unfix reads it off  *)
(* the header's flags: the flag is set exactly while a writer holds the    *)
(* page, whoever else writes the flags meanwhile.                          *)
(***************************************************************************)
UnfixKnowsMode ==
  \A h \in Handles : page[h] # NoPage =>
    IF pc[h[1]] = "unfix_release" /\ out[h[1]] = h[2]
      THEN exclusive[h[1]] = page[h].exclusive
      ELSE ("EXCLUSIVE" \in page_flags[page[h].data]) = page[h].exclusive

(***************************************************************************)
(* pager_evict gives up with ENOMEM only when "every page is currently     *)
(* fixed", unless it loses races with other threads (comment of            *)
(* pager_evict), or the clock hand has wrapped around meanwhile: 2^32 need *)
(* not be a multiple of the ring size, and the jump leaves slots out.      *)
(***************************************************************************)
HandWrapped(t) == evict_head < probes[t]

EnomemMeansAllFixed ==
  [][\A t \in Threads : EvictFail(t) /\ ~HandWrapped(t) =>
       \A s \in Resident : ~Available(page_latch[s])]_vars

(***************************************************************************)
(* The same without the exception: the comment of pager_evict makes none   *)
(* for a thread that has no rivals to lose races with.                     *)
(***************************************************************************)
AloneEnomemMeansAllFixed ==
  \A t \in Threads :
    Threads = {t} /\ pc[t] = "evict" /\ ~ProbesLeft(t) =>
      \A s \in Resident : ~Available(page_latch[s])

(***************************************************************************)
(* pager_next "retrieves a new page" (pager.h): the id it has fetched is   *)
(* not that of a page in the directory, when ids come from nowhere else.   *)
(***************************************************************************)
NextPageIsNew ==
  Modes = {} =>
    \A t \in Threads : pc[t] = "fast_latch" => directory[id[t]] = NoHeader

(***************************************************************************)
(* The overflow chain of an entry is no longer than what the pages kept at *)
(* one time need: pager_directory_remove leaves nodes that later           *)
(* insertions fill before they allocate, however many pages come and go.   *)
(***************************************************************************)
OverflowBounded ==
  \A b \in Buckets : overflow[b] > 0 => EntrySlots + overflow[b] <= Size - 1

(***************************************************************************)
(* A thread that spins on a latch it cannot have now.                      *)
(***************************************************************************)
Blocked(t) ==
  \/ pc[t] = "fast_latch" /\ ~CanAcquire(bucket_latch[Bucket(t)], FALSE)
  \/ pc[t] = "slow_latch" /\ ~CanAcquire(bucket_latch[Bucket(t)], TRUE)
  \/ pc[t] = "evict_latch" /\ ~CanAcquire(bucket_latch[VictimBucket(t)], TRUE)
  \/ /\ pc[t] \in {"fast_lookup", "slow_lookup"}
     /\ directory[id[t]] # NoHeader
     /\ ~CanAcquire(page_latch[directory[id[t]]], exclusive[t])

PageHolders == {t \in Threads : \E v \in PageVars : page[<<t, v>>] # NoPage}

(***************************************************************************)
(* The pager is a "thread safe page cache" (pager.h) whose page latch      *)
(* "only protects the page's content" (header_t): as long as at most one   *)
(* thread holds pages while it fixes another one, as a B-tree descent      *)
(* does, no order of page latches can be to blame for a deadlock, and      *)
(* somebody can go on.                                                     *)
(***************************************************************************)
OneHolderNeverStuck ==
  (/\ Cardinality(PageHolders) <= 1
   /\ \A h \in Handles : page[h] # NoPage => id[h[1]] # page[h].id)
  => \E t \in Threads : ~Blocked(t)

(***************************************************************************)
(* When the clients stop making calls, every call in progress returns and  *)
(* every page is unfixed: no loop of the pager runs for ever, no latch is  *)
(* left behind by an error path (the parallel tests of pager.c).           *)
(***************************************************************************)
NewCall(t, v) == FixNext(t, v) \/ \E p \in PageIds, x \in Modes : Fix(t, v, p, x)

CallsReturn ==
  <>[][\A t \in Threads, v \in PageVars : ~NewCall(t, v)]_vars
    => <>[](/\ \A t \in Threads : pc[t] = "idle"
           /\ \A h \in Handles : page[h] = NoPage)

\* The pager is the bounded cache of fixed and unfixed pages its header names.
Cache == INSTANCE PageCache WITH
  Frames <- Slots, Capacity <- Size - 1, NoFrame <- NoHeader,
  NoPin <- NoPage, frame <- directory, pins <- page

ImplementsPageCache == Cache!Spec

=============================================================================
