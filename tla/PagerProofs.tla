---------------------------- MODULE PagerProofs -----------------------------
(***************************************************************************)
(* Proofs about module Pager, for any number of threads, variables, pages, *)
(* entries and slots:                                                      *)
(*   - the types, and what a step of one thread leaves alone of the        *)
(*     others;                                                             *)
(*   - the latches of the directory's entries, which count the threads     *)
(*     that hold them, so that one with the write latch is alone;          *)
(*   - the agreement of the directory and the ring, which rests on those   *)
(*     latches, for only one thread at a time has the write latch of the   *)
(*     entry a page hashes to;                                             *)
(*   - the pages that are fixed: their latches count their holders, their  *)
(*     headers stay theirs, the flag pager_unfix reads tells how a page    *)
(*     was fixed;                                                          *)
(*   - the capacity: the counter page_count, the free slot it promises to  *)
(*     pager_create, the length of the overflow chains;                    *)
(*   - that the pager is the bounded cache of module PageCache;            *)
(*   - and that pager_evict, alone, finds a page whenever there is one.    *)
(***************************************************************************)
EXTENDS PagerProperties, FiniteSetTheorems, TLAPS

\* The vocabulary of nearly every step.
USE DEF Goto, Handles, NoHeader, counters, entries, table, headers, frames,
        arguments, locals

-----------------------------------------------------------------------------
\* What the assumption says about the constants, ready to use.
LEMMA Constants ==
  /\ 0 \in Slots
  /\ AnyVar \in PageVars
  /\ \A n \in Nat : n % Size \in Slots
  /\ \A n \in Nat : n % HeadMod \in 0 .. HeadMod - 1
  /\ \A n \in 0 .. HeadMod - 1 : /\ n % Size \in Slots
                                /\ (n + 1) % HeadMod \in 0 .. HeadMod - 1
  /\ 0 \in 0 .. 2 * Size
  /\ NoPage \notin Pages
PROOF
  <1>1. AnyVar \in PageVars
    BY PagerAssumption DEF AnyVar
  <1>2. 0 \in Slots /\ \A n \in Nat : n % Size \in Slots
    BY PagerAssumption DEF Slots
  <1>3. \A n \in Nat : n % HeadMod \in 0 .. HeadMod - 1
    BY PagerAssumption
  <1>4. 0 \in 0 .. 2 * Size
    BY PagerAssumption
  <1>5. NoPage \notin Pages
    BY DEF NoPage, Pages, PageIds
  <1>6. \A n \in 0 .. HeadMod - 1 : n \in Nat /\ n + 1 \in Nat
    BY PagerAssumption
  <1>7. QED
    BY <1>1, <1>2, <1>3, <1>4, <1>5, <1>6

LEMMA TypeInit == Init => TypeOK
PROOF
  BY Constants, PagerAssumption
     DEF Init, TypeOK, FreeLatch, PageIds, Slots, States

-----------------------------------------------------------------------------
(***************************************************************************)
(* The helpers the actions are built from keep the types.                  *)
(***************************************************************************)
LEMMA TypeBucketLatch ==
  ASSUME NEW b, NEW x \in BOOLEAN, bucket_latch \in [Buckets -> Int],
         AcquireBucket(b, x) \/ ReleaseBucket(b, x)
  PROVE  bucket_latch' \in [Buckets -> Int]
PROOF
  <1>1. \A c \in Buckets : /\ Acquired(bucket_latch[c], x) \in Int
                           /\ Released(bucket_latch[c], x) \in Int
    BY DEF Acquired, Released, FreeLatch
  <1>2. QED
    BY <1>1 DEF AcquireBucket, ReleaseBucket

LEMMA TypeAcquirePage ==
  ASSUME TypeOK, NEW t \in Threads, NEW s \in Slots, id[t] \in PageIds,
         AcquirePage(t, s)
  PROVE  /\ ring' \in [Slots -> PageIds \cup {0}]
         /\ allocated' \in [Slots -> BOOLEAN]
         /\ page_flags' \in [Slots -> SUBSET Flags]
         /\ page_latch' \in [Slots -> Int]
         /\ page' \in [Handles -> Pages \cup {NoPage}]
PROOF
  <1>1. [id |-> id[t], data |-> s, exclusive |-> exclusive[t]] \in Pages
    BY DEF Pages, TypeOK
  <1>2. page' \in [Handles -> Pages \cup {NoPage}]
    BY <1>1 DEF AcquirePage, TypeOK
  <1>3. \A x \in BOOLEAN, w \in Int : Acquired(w, x) \in Int
    BY DEF Acquired
  <1>4. page_latch' \in [Slots -> Int]
    BY <1>3 DEF AcquirePage, TypeOK
  <1>5. page_flags' \in [Slots -> SUBSET Flags]
    BY DEF AcquirePage, TypeOK, Flags
  <1>6. QED
    BY <1>2, <1>4, <1>5 DEF AcquirePage, TypeOK

LEMMA TypeReturn ==
  ASSUME TypeOK, NEW t \in Threads, Return(t)
  PROVE  /\ pc' \in [Threads -> States]
         /\ id' \in [Threads -> PageIds \cup {0}]
         /\ exclusive' \in [Threads -> BOOLEAN]
         /\ out' \in [Threads -> PageVars]
         /\ count' \in [Threads -> Int]
         /\ index' \in [Threads -> Slots]
         /\ probes' \in [Threads -> 0 .. 2 * Size]
         /\ victim' \in [Threads -> PageIds \cup {0}]
PROOF
  BY Constants DEF Return, DropLocals, TypeOK, States

LEMMA TypeDropLocals ==
  ASSUME TypeOK, NEW t \in Threads, DropLocals(t)
  PROVE  /\ count' \in [Threads -> Int]
         /\ index' \in [Threads -> Slots]
         /\ probes' \in [Threads -> 0 .. 2 * Size]
         /\ victim' \in [Threads -> PageIds \cup {0}]
PROOF
  BY Constants DEF DropLocals, TypeOK

-----------------------------------------------------------------------------
(***************************************************************************)
(* What a thread has in hand at each point of its call, beyond its types:  *)
(* a valid page id, a victim, a probe not yet used up, an empty page_t to  *)
(* fill or a page to give back.                                            *)
(***************************************************************************)
Filled == {"idle", "fast_release", "slow_undo", "fix_release", "unfix_release"}

InHand(t) ==
  /\ pc[t] \notin {"idle", "unfix_release"} => id[t] \in PageIds
  /\ pc[t] \in EvictPhase \cup {"evict_latch"} => victim[t] \in PageIds
  /\ pc[t] \in EvictPhase \cup {"evict_load", "evict_latch"} => ProbesLeft(t)
  /\ pc[t] \notin Filled => page[<<t, out[t]>>] = NoPage
  /\ pc[t] = "unfix_release" => page[<<t, out[t]>>] \in Pages

CallsOK == \A t \in Threads : InHand(t)

TypeInv == TypeOK /\ CallsOK

(***************************************************************************)
(* A step of t leaves the program counter, the arguments, the local        *)
(* variables and the page_t variables of every other thread alone.         *)
(***************************************************************************)
Others(t) ==
  \A u \in Threads \ {t} :
    /\ pc'[u] = pc[u] /\ id'[u] = id[u]
    /\ exclusive'[u] = exclusive[u] /\ out'[u] = out[u]
    /\ index'[u] = index[u] /\ victim'[u] = victim[u]
    /\ probes'[u] = probes[u]
    /\ \A v \in PageVars : page'[<<u, v>>] = page[<<u, v>>]

LEMMA OthersCall ==
  ASSUME TypeOK, NEW t \in Threads, Call(t)
  PROVE  Others(t)
PROOF
  BY DEF Call, Fix, FixNext, Enter, UnfixFlags, Others, TypeOK

LEMMA OthersLookup ==
  ASSUME TypeOK, NEW t \in Threads, Lookup(t)
  PROVE  Others(t)
PROOF
  <1> USE DEF TypeOK, Others
  <1>1. FastLatch(t) \/ FastMiss(t) \/ FastRelease(t) => Others(t)
    BY DEF FastLatch, FastMiss, FastRelease, Return, DropLocals
  <1>2. FastHit(t) => Others(t)
    BY DEF FastHit, AcquirePage
  <1>3. QED
    BY <1>1, <1>2 DEF Lookup

LEMMA OthersCount ==
  ASSUME TypeOK, NEW t \in Threads, CountPage(t)
  PROVE  Others(t)
PROOF
  BY DEF CountPage, LoadCount, Reserve, ReserveRetry, ReserveFull, DropLocals,
         Others, TypeOK

LEMMA OthersEvict ==
  ASSUME TypeOK, NEW t \in Threads, Evict(t)
  PROVE  Others(t)
PROOF
  <1> USE DEF TypeOK, Others
  <1>1. Probe(t) \/ EvictLatch(t) => Others(t)
    BY DEF Probe, EvictLatch
  <1>2. EvictLoad(t) => Others(t)
    BY DEF EvictLoad, TakeVictim, NextProbe
  <1>3. EvictConfirm(t) \/ EvictStale(t) => Others(t)
    BY DEF EvictConfirm, EvictStale, TakeVictim, NextProbe
  <1>4. CASE EvictSkipFixed(t)
    BY <1>4 DEF EvictSkipFixed, NextProbe
  <1>5. CASE SecondChance(t)
    BY <1>5 DEF SecondChance, NextProbe
  <1>6. CASE EvictFree(t)
    BY <1>6 DEF EvictFree
  <1>7. CASE EvictRelease(t)
    BY <1>7 DEF EvictRelease, DropLocals
  <1>8. CASE EvictFail(t)
    BY <1>8 DEF EvictFail, Return, DropLocals
  <1>9. QED
    BY <1>1, <1>2, <1>3, <1>4, <1>5, <1>6, <1>7, <1>8 DEF Evict

LEMMA OthersSlow ==
  ASSUME TypeOK, NEW t \in Threads, SlowLookup(t)
  PROVE  Others(t)
PROOF
  <1> USE DEF TypeOK, Others
  <1>1. SlowLatch(t) \/ Uncount(t) \/ FixRelease(t) => Others(t)
    BY DEF SlowLatch, Uncount, FixRelease, Return, DropLocals
  <1>2. SlowHit(t) \/ SlowMiss(t) => Others(t)
    BY DEF SlowHit, SlowMiss, AcquirePage
  <1>3. QED
    BY <1>1, <1>2 DEF SlowLookup

LEMMA OthersCreate ==
  ASSUME TypeOK, NEW t \in Threads, Create(t)
  PROVE  Others(t)
PROOF
  BY DEF Create, CreateProbe, CreateClaim, CreateSkip, CreateInit,
         CreateInitFail, CreateInsert, CreateInsertFail, CreatePage,
         AcquirePage, Others, TypeOK

LEMMA OthersUnfix ==
  ASSUME TypeOK, NEW t \in Threads, UnfixRelease(t)
  PROVE  Others(t)
PROOF
  BY DEF UnfixRelease, Return, DropLocals, Others, TypeOK

LEMMA OthersStep ==
  ASSUME TypeOK, NEW t \in Threads, Call(t) \/ Step(t)
  PROVE  Others(t)
PROOF
  BY OthersCall, OthersLookup, OthersCount, OthersEvict, OthersSlow,
     OthersCreate, OthersUnfix DEF Step

-----------------------------------------------------------------------------
(***************************************************************************)
(* TypeOK and CallsOK, group of actions by group of actions.               *)
(***************************************************************************)
LEMMA TypeCall ==
  ASSUME TypeInv, NEW t \in Threads, Call(t)
  PROVE  TypeOK' /\ InHand(t)'
PROOF
  <1> USE DEF TypeInv, TypeOK, CallsOK, InHand, Filled, States, Enter,
              EvictPhase
  <1>1. ASSUME NEW v \in PageVars, NEW p \in PageIds, NEW x \in Modes,
               Fix(t, v, p, x)
        PROVE  TypeOK' /\ InHand(t)'
    BY <1>1, PagerAssumption DEF Fix
  <1>2. ASSUME NEW v \in PageVars, FixNext(t, v)
        PROVE  TypeOK' /\ InHand(t)'
    <2>1. next_page' \in 0 .. MaxPageId
      BY <1>2, PagerAssumption DEF FixNext
    <2>2. CASE next_page = 0
      BY <1>2, <2>1, <2>2 DEF FixNext
    <2>3. CASE next_page # 0
      <3>1. next_page \in PageIds
        BY <2>3, PagerAssumption DEF PageIds
      <3>2. Enter(t, v, next_page, TRUE) /\ page[<<t, v>>] = NoPage
        BY <1>2, <2>3 DEF FixNext
      <3>3. /\ pc' \in [Threads -> States] /\ id' \in [Threads -> PageIds \cup {0}]
            /\ exclusive' \in [Threads -> BOOLEAN]
            /\ out' \in [Threads -> PageVars]
        BY <3>1, <3>2
      <3>4. TypeOK'
        BY <1>2, <2>1, <3>3 DEF FixNext
      <3>5. pc'[t] = "fast_latch" /\ id'[t] \in PageIds
        BY <3>1, <3>2
      <3>6. page'[<<t, out'[t]>>] = NoPage
        BY <1>2, <3>2 DEF FixNext
      <3>7. InHand(t)'
        BY <3>5, <3>6
      <3>8. QED
        BY <3>4, <3>7
    <2>4. QED
      BY <2>2, <2>3
  <1>3. ASSUME NEW v \in PageVars, UnfixFlags(t, v)
        PROVE  TypeOK' /\ InHand(t)'
    <2>1. page[<<t, v>>] \in Pages
      BY <1>3 DEF UnfixFlags
    <2>2. page_flags' \in [Slots -> SUBSET Flags]
      BY <1>3 DEF UnfixFlags, UnfixStores, Flags
    <2>3. TypeOK'
      <3>1. pc' \in [Threads -> States] /\ out' \in [Threads -> PageVars]
        BY <1>3 DEF UnfixFlags
      <3>2. QED
        <4> DEFINE s == page[<<t, v>>].data
        <4>1. /\ UNCHANGED <<counters, table, ring, allocated, page_latch, id, locals, page>>
              /\ exclusive' = [exclusive EXCEPT ![t] = "EXCLUSIVE" \in page_flags[s]]
          BY <1>3 DEF UnfixFlags
        <4>2. exclusive' \in [Threads -> BOOLEAN]
          BY <4>1
        <4>3. QED
          BY <2>2, <3>1, <4>1, <4>2
    <2>4. /\ pc'[t] = "unfix_release"
          /\ page'[<<t, out'[t]>>] \in Pages
      BY <1>3, <2>1 DEF UnfixFlags
    <2>5. InHand(t)'
      BY <2>4
    <2>6. QED
      BY <2>3, <2>5
  <1>4. QED
    BY <1>1, <1>2, <1>3 DEF Call

LEMMA TypeLookup ==
  ASSUME TypeInv, NEW t \in Threads, Lookup(t)
  PROVE  TypeOK' /\ InHand(t)'
PROOF
  <1> USE DEF TypeInv, TypeOK, CallsOK, InHand, Filled, States, ReadPhase,
              EvictPhase
  <1>1. CASE FastLatch(t)
    BY <1>1, TypeBucketLatch DEF FastLatch
  <1>2. CASE FastMiss(t)
    BY <1>2, TypeBucketLatch DEF FastMiss
  <1>3. CASE FastHit(t)
    <2>1. id[t] \in PageIds /\ directory[id[t]] \in Slots
      BY <1>3 DEF FastHit, Found
    <2>2. QED
      BY <1>3, <2>1, TypeAcquirePage DEF FastHit
  <1>4. CASE FastRelease(t)
    BY <1>4, TypeBucketLatch, TypeReturn DEF FastRelease, Return
  <1>5. QED
    BY <1>1, <1>2, <1>3, <1>4 DEF Lookup

LEMMA TypeCount ==
  ASSUME TypeInv, NEW t \in Threads, CountPage(t)
  PROVE  TypeOK' /\ InHand(t)'
PROOF
  <1> USE DEF TypeInv, TypeOK, CallsOK, InHand, Filled, States, EvictPhase
  <1>1. CASE LoadCount(t)
    BY <1>1 DEF LoadCount
  <1>2. CASE Reserve(t)
    <2>1. /\ count' \in [Threads -> Int]
          /\ index' \in [Threads -> Slots]
          /\ probes' \in [Threads -> 0 .. 2 * Size]
          /\ victim' \in [Threads -> PageIds \cup {0}]
      BY <1>2, TypeDropLocals DEF Reserve
    <2>2. /\ UNCHANGED <<evict_head, create_head, next_page, table, frames, arguments, page>>
          /\ page_count' = count[t] + 1
          /\ pc' \in [Threads -> States] /\ pc'[t] = "slow_latch"
      BY <1>2 DEF Reserve
    <2>3. TypeOK'
      BY <2>1, <2>2
    <2>4. id[t] \in PageIds /\ page[<<t, out[t]>>] = NoPage
      BY <1>2 DEF Reserve
    <2>5. InHand(t)'
      BY <2>2, <2>4
    <2>6. QED
      BY <2>3, <2>5
  <1>3. CASE ReserveRetry(t)
    BY <1>3 DEF ReserveRetry
  <1>4. CASE ReserveFull(t)
    BY <1>4, TypeDropLocals DEF ReserveFull
  <1>5. QED
    BY <1>1, <1>2, <1>3, <1>4 DEF CountPage

\* The next probe of a loop that has not ended.
LEMMA TypeNextProbe ==
  ASSUME TypeOK, NEW t \in Threads, NextProbe(t), ProbesLeft(t)
  PROVE  /\ probes' \in [Threads -> 0 .. 2 * Size]
         /\ index' \in [Threads -> Slots]
         /\ victim' \in [Threads -> PageIds \cup {0}]
         /\ pc' = [pc EXCEPT ![t] = "evict"]
         /\ pc' \in [Threads -> States]
PROOF
  <1>1. probes[t] + 1 \in 0 .. 2 * Size
    BY PagerAssumption DEF ProbesLeft, TypeOK
  <1>2. probes' \in [Threads -> 0 .. 2 * Size]
    BY <1>1 DEF NextProbe, TypeOK
  <1>3. QED
    BY <1>2, Constants DEF NextProbe, TypeOK, States

LEMMA TypeEvict ==
  ASSUME TypeInv, NEW t \in Threads, Evict(t)
  PROVE  TypeOK' /\ InHand(t)'
PROOF
  <1> USE DEF TypeInv, TypeOK, CallsOK, InHand, Filled, States, EvictPhase
  <1>1. CASE Probe(t)
    <2>1. /\ evict_head % Size \in Slots
          /\ (evict_head + 1) % HeadMod \in 0 .. HeadMod - 1
      BY Constants
    <2>2. TypeOK'
      BY <1>1, <2>1 DEF Probe
    <2>3. InHand(t)'
      BY <1>1 DEF Probe, ProbesLeft
    <2>4. QED
      BY <2>2, <2>3
  <1>2. CASE EvictFail(t)
    BY <1>2, TypeReturn DEF EvictFail, Return
  <1>3. ASSUME pc[t] \in {"evict_load", "evict_check"}, TakeVictim(t),
               UNCHANGED <<counters, entries, frames, arguments, count, page>>,
               bucket_latch' \in [Buckets -> Int]
        PROVE  TypeOK' /\ InHand(t)'
    <2>1. CASE ring[index[t]] = 0 /\ NextProbe(t)
      <3>1. /\ probes' \in [Threads -> 0 .. 2 * Size]
            /\ index' \in [Threads -> Slots]
            /\ victim' \in [Threads -> PageIds \cup {0}]
            /\ pc' \in [Threads -> States] /\ pc'[t] = "evict"
        <4>1. TypeOK /\ ProbesLeft(t)
          BY <1>3
        <4>2. QED
          BY <2>1, <4>1, TypeNextProbe DEF TypeOK
      <3>2. TypeOK'
        BY <1>3, <3>1
      <3>3. /\ id[t] \in PageIds /\ page[<<t, out[t]>>] = NoPage
            /\ id' = id /\ out' = out /\ page' = page
        BY <1>3
      <3>4. InHand(t)'
        BY <3>1, <3>3
      <3>5. QED
        BY <3>2, <3>4
    <2>2. CASE ring[index[t]] # 0 /\ ~(ring[index[t]] = 0 /\ NextProbe(t))
      <3>1. ring[index[t]] \in PageIds
        BY <2>2
      <3>2. TypeOK'
        BY <1>3, <2>2, <3>1 DEF TakeVictim
      <3>3. InHand(t)'
        BY <1>3, <2>2, <3>1 DEF TakeVictim, ProbesLeft
      <3>4. QED
        BY <3>2, <3>3
    <2>3. QED
      BY <1>3, <2>1, <2>2 DEF TakeVictim
  <1>4. CASE EvictLoad(t)
    BY <1>4, <1>3 DEF EvictLoad
  <1>5. CASE EvictLatch(t)
    BY <1>5, TypeBucketLatch DEF EvictLatch, ProbesLeft
  <1>6. CASE EvictConfirm(t)
    BY <1>6 DEF EvictConfirm, ProbesLeft
  <1>7. CASE EvictStale(t)
    BY <1>7, <1>3, TypeBucketLatch DEF EvictStale
  <1>8. CASE EvictSkipFixed(t)
    <2>1. /\ bucket_latch' \in [Buckets -> Int]
          /\ UNCHANGED <<counters, entries, frames, arguments, count, page>>
      BY <1>8, TypeBucketLatch DEF EvictSkipFixed
    <2>2. /\ probes' \in [Threads -> 0 .. 2 * Size]
          /\ index' \in [Threads -> Slots]
          /\ victim' \in [Threads -> PageIds \cup {0}]
          /\ pc' \in [Threads -> States] /\ pc'[t] = "evict"
      <3>1. TypeOK /\ ProbesLeft(t) /\ NextProbe(t)
        BY <1>8 DEF EvictSkipFixed
      <3>2. QED
        BY <3>1, TypeNextProbe DEF TypeOK
    <2>3. TypeOK'
      BY <2>1, <2>2
    <2>4. id[t] \in PageIds /\ page[<<t, out[t]>>] = NoPage
      BY <1>8 DEF EvictSkipFixed
    <2>5. InHand(t)'
      BY <2>1, <2>2, <2>4
    <2>6. QED
      BY <2>3, <2>5
  <1>9. CASE SecondChance(t)
    <2>1. page_flags' \in [Slots -> SUBSET Flags]
      BY <1>9 DEF SecondChance, ClearRef
    <2>2. /\ bucket_latch' \in [Buckets -> Int]
          /\ UNCHANGED <<counters, entries, ring, allocated, page_latch, arguments, count, page>>
      BY <1>9, TypeBucketLatch DEF SecondChance
    <2>3. /\ probes' \in [Threads -> 0 .. 2 * Size]
          /\ index' \in [Threads -> Slots]
          /\ victim' \in [Threads -> PageIds \cup {0}]
          /\ pc' \in [Threads -> States] /\ pc'[t] = "evict"
      <3>1. TypeOK /\ ProbesLeft(t) /\ NextProbe(t)
        BY <1>9 DEF SecondChance
      <3>2. QED
        BY <3>1, TypeNextProbe DEF TypeOK
    <2>4. TypeOK'
      BY <2>1, <2>2, <2>3
    <2>5. id[t] \in PageIds /\ page[<<t, out[t]>>] = NoPage
      BY <1>9 DEF SecondChance
    <2>6. InHand(t)'
      BY <2>2, <2>3, <2>5
    <2>7. QED
      BY <2>4, <2>6
  <1>10. CASE EvictFree(t)
    <2>1. TypeOK'
      BY <1>10 DEF EvictFree
    <2>2. InHand(t)'
      BY <1>10 DEF EvictFree, ProbesLeft
    <2>3. QED
      BY <2>1, <2>2
  <1>11. CASE EvictRelease(t)
    BY <1>11, TypeBucketLatch, TypeDropLocals DEF EvictRelease
  <1>12. QED
    BY <1>1, <1>2, <1>4, <1>5, <1>6, <1>7, <1>8, <1>9, <1>10, <1>11 DEF Evict

LEMMA TypeSlow ==
  ASSUME TypeInv, NEW t \in Threads, SlowLookup(t)
  PROVE  TypeOK' /\ InHand(t)'
PROOF
  <1> USE DEF TypeInv, TypeOK, CallsOK, InHand, Filled, States, WritePhase,
              CreatePhase, EvictPhase
  <1>1. CASE SlowLatch(t)
    BY <1>1, TypeBucketLatch DEF SlowLatch
  <1>2. CASE SlowHit(t)
    <2>1. id[t] \in PageIds /\ directory[id[t]] \in Slots
      BY <1>2 DEF SlowHit, Found
    <2>2. QED
      BY <1>2, <2>1, TypeAcquirePage DEF SlowHit
  <1>3. CASE SlowMiss(t)
    BY <1>3 DEF SlowMiss
  <1>4. CASE Uncount(t)
    <2>1. TypeOK'
      BY <1>4 DEF Uncount, GiveBack
    <2>2. pc'[t] = "fix_release" /\ id'[t] = id[t] /\ id[t] \in PageIds
      BY <1>4 DEF Uncount
    <2>3. InHand(t)'
      BY <2>2
    <2>4. QED
      BY <2>1, <2>3
  <1>5. CASE FixRelease(t)
    BY <1>5, TypeBucketLatch, TypeReturn DEF FixRelease, Return
  <1>6. QED
    BY <1>1, <1>2, <1>3, <1>4, <1>5 DEF SlowLookup

LEMMA TypeCreate ==
  ASSUME TypeInv, NEW t \in Threads, Create(t)
  PROVE  TypeOK' /\ InHand(t)'
PROOF
  <1> USE DEF TypeInv, TypeOK, CallsOK, InHand, Filled, States, WritePhase,
              CreatePhase, EvictPhase
  <1>1. CASE CreateProbe(t)
    <2>1. /\ create_head % Size \in Slots
          /\ (create_head + 1) % HeadMod \in 0 .. HeadMod - 1
      BY Constants
    <2>2. QED
      BY <1>1, <2>1 DEF CreateProbe
  <1>2. CASE CreateClaim(t)
    BY <1>2 DEF CreateClaim
  <1>3. CASE CreateSkip(t)
    BY <1>3, Constants DEF CreateSkip
  <1>4. CASE CreateInit(t)
    <2>1. /\ allocated' \in [Slots -> BOOLEAN]
          /\ page_flags' \in [Slots -> SUBSET Flags]
          /\ page_latch' \in [Slots -> Int]
          /\ pc' \in [Threads -> States] /\ pc'[t] = "create_insert"
      BY <1>4 DEF CreateInit, FreeLatch
    <2>2. /\ UNCHANGED <<counters, table, ring, arguments, locals, page>>
          /\ pc[t] = "create_init"
      BY <1>4 DEF CreateInit
    <2>3. TypeOK'
      BY <2>1, <2>2
    <2>4. InHand(t)'
      BY <2>1, <2>2
    <2>5. QED
      BY <2>3, <2>4
  <1>5. CASE CreateInitFail(t)
    BY <1>5 DEF CreateInitFail
  <1>6. CASE CreateInsert(t)
    <2>1. Bucket(t) \in Buckets /\ id[t] \in PageIds
      BY <1>6, PagerAssumption DEF CreateInsert, Bucket
    <2>2. overflow' \in [Buckets -> Nat]
      BY <1>6, <2>1 DEF CreateInsert
    <2>3. QED
      BY <1>6, <2>1, <2>2 DEF CreateInsert
  <1>7. CASE CreateInsertFail(t)
    BY <1>7 DEF CreateInsertFail
  <1>8. CASE CreatePage(t)
    <2>1. id[t] \in PageIds /\ index[t] \in Slots
      BY <1>8 DEF CreatePage
    <2>2. QED
      BY <1>8, <2>1, TypeAcquirePage DEF CreatePage
  <1>9. QED
    BY <1>1, <1>2, <1>3, <1>4, <1>5, <1>6, <1>7, <1>8 DEF Create

LEMMA TypeUnfix ==
  ASSUME TypeInv, NEW t \in Threads, UnfixRelease(t)
  PROVE  TypeOK' /\ InHand(t)'
PROOF
  <1> USE DEF TypeInv, TypeOK, CallsOK, InHand, Filled, States
  <1>1. \A w \in Int, x \in BOOLEAN : Released(w, x) \in Int
    BY DEF Released, FreeLatch
  <1>2. page_latch' \in [Slots -> Int]
    BY <1>1 DEF UnfixRelease
  <1>3. page' \in [Handles -> Pages \cup {NoPage}]
    BY DEF UnfixRelease
  <1>4. TypeOK'
    BY <1>2, <1>3, TypeReturn DEF UnfixRelease
  <1>5. pc'[t] = "idle"
    BY DEF UnfixRelease, Return
  <1>6. InHand(t)'
    BY <1>5 DEF EvictPhase
  <1>7. QED
    BY <1>4, <1>6

-----------------------------------------------------------------------------
(***************************************************************************)
(* What the others have in hand does not change; then every step keeps the *)
(* types, and so does a step that changes nothing.                         *)
(***************************************************************************)
LEMMA OthersInHand ==
  ASSUME TypeInv, NEW t \in Threads, NEW u \in Threads, u # t, Others(t)
  PROVE  InHand(u)'
PROOF
  BY DEF TypeInv, TypeOK, CallsOK, InHand, Others, ProbesLeft

LEMMA TypeNext == TypeInv /\ [Next]_vars => TypeInv'
PROOF
  <1> SUFFICES ASSUME TypeInv, [Next]_vars
               PROVE  TypeInv'
    OBVIOUS
  <1>1. ASSUME NEW t \in Threads, Call(t) \/ Step(t)
        PROVE  TypeInv'
    <2>1. TypeOK' /\ InHand(t)'
      BY <1>1, TypeCall, TypeLookup, TypeCount, TypeEvict, TypeSlow,
         TypeCreate, TypeUnfix DEF Step
    <2>2. Others(t)
      BY <1>1, OthersStep DEF TypeInv
    <2>3. QED
      BY <2>1, <2>2, OthersInHand DEF TypeInv, CallsOK
  <1>2. CASE UNCHANGED vars
    BY <1>2 DEF vars, TypeInv, TypeOK, CallsOK, InHand, ProbesLeft
  <1>3. QED
    BY <1>1, <1>2 DEF Next

(***************************************************************************)
(* Every state of the pager has the types of TypeOK, and every thread has  *)
(* in hand what its place in pager_fix and pager_unfix supposes.           *)
(***************************************************************************)
THEOREM TypeInvariance == Spec => []TypeInv
PROOF
  <1>1. Init => TypeInv
    BY TypeInit DEF Init, TypeInv, CallsOK, InHand, Filled, EvictPhase,
                    NoPage, AnyVar
  <1>2. QED
    BY <1>1, TypeNext, PTL DEF Spec

(***************************************************************************)
(* The type invariant: in particular the probes of pager_evict never go    *)
(* past two rounds, and no index leaves the ring.                          *)
(***************************************************************************)
THEOREM TypeCorrect == Spec => []TypeOK
PROOF
  <1>1. TypeInv => TypeOK
    BY DEF TypeInv
  <1>2. QED
    BY <1>1, TypeInvariance, PTL

-----------------------------------------------------------------------------
(***************************************************************************)
(* One latch word and the sets of those that hold it, whatever they are.   *)
(***************************************************************************)
LEMMA CountsAcquire ==
  ASSUME NEW word \in Int, NEW R, NEW W, NEW x \in BOOLEAN, NEW e,
         IsFiniteSet(R), IsFiniteSet(W), e \notin R, e \notin W,
         CountsHolders(word, R, W), CanAcquire(word, x)
  PROVE  CountsHolders(Acquired(word, x), IF x THEN R ELSE R \cup {e},
                       IF x THEN W \cup {e} ELSE W)
PROOF
  <1>1. CASE x
    <2>1. word = 0 /\ W = {} /\ Cardinality(R) = 0
      BY <1>1 DEF CanAcquire, CountsHolders
    <2>2. R = {}
      BY <2>1, FS_EmptySet
    <2>3. Cardinality(W \cup {e}) = 1
      BY <2>1, FS_Singleton
    <2>4. QED
      BY <1>1, <2>2, <2>3 DEF CountsHolders, Acquired
  <1>2. CASE ~x
    <2>1. word >= 0 /\ W = {} /\ Cardinality(R) = word
      BY <1>2 DEF CanAcquire, CountsHolders
    <2>2. Cardinality(R \cup {e}) = word + 1
      BY <2>1, FS_AddElement
    <2>3. QED
      BY <1>2, <2>1, <2>2 DEF CountsHolders, Acquired
  <1>3. QED
    BY <1>1, <1>2

\* The assertions of the release functions, and what is left.
LEMMA CountsRelease ==
  ASSUME NEW word \in Int, NEW R, NEW W, NEW x \in BOOLEAN, NEW e,
         IsFiniteSet(R), IsFiniteSet(W), e \in IF x THEN W ELSE R,
         CountsHolders(word, R, W)
  PROVE  /\ ReleaseAsserted(word, x)
         /\ CountsHolders(Released(word, x), R \ {e}, W \ {e})
PROOF
  <1>1. Cardinality(R) \in Nat /\ Cardinality(W) \in Nat
    BY FS_CardinalityType
  <1>2. CASE x
    <2>1. word = -1 /\ R = {} /\ Cardinality(W) = 1
      BY <1>2 DEF CountsHolders
    <2>2. PICK y : W = {y}
      BY <2>1, FS_Singleton
    <2>3. W \ {e} = {} /\ R \ {e} = {}
      BY <1>2, <2>1, <2>2
    <2>4. QED
      BY <1>2, <2>1, <2>3, FS_EmptySet
         DEF CountsHolders, ReleaseAsserted, Released, FreeLatch
  <1>3. CASE ~x
    <2>1. word # -1 /\ W = {} /\ Cardinality(R) = word
      BY <1>3 DEF CountsHolders
    <2>2. Cardinality(R \ {e}) = word - 1 /\ Cardinality(R \ {e}) \in Nat
      BY <1>3, <2>1, FS_RemoveElement, FS_CardinalityType
    <2>3. QED
      BY <1>3, <2>1, <2>2 DEF CountsHolders, ReleaseAsserted, Released
  <1>4. QED
    BY <1>2, <1>3

\* A writer is alone.
LEMMA CountsWriter ==
  ASSUME NEW word, NEW R, NEW W, NEW e \in W, IsFiniteSet(W),
         CountsHolders(word, R, W)
  PROVE  R = {} /\ W = {e} /\ word = -1
PROOF
  <1>1. word = -1 /\ R = {} /\ Cardinality(W) = 1
    BY DEF CountsHolders
  <1>2. PICK y : W = {y}
    BY <1>1, FS_Singleton
  <1>3. QED
    BY <1>1, <1>2

-----------------------------------------------------------------------------
(***************************************************************************)
(* The latches of the entries.                                             *)
(***************************************************************************)
Reads(t, b) == pc[t] \in ReadPhase /\ Bucket(t) = b

Writes(t, b) ==
  \/ pc[t] \in WritePhase /\ Bucket(t) = b
  \/ pc[t] \in EvictPhase /\ VictimBucket(t) = b

EntryLatches ==
  \A b \in Buckets :
    CountsHolders(bucket_latch[b], BucketReaders(b), BucketWriters(b))

LEMMA Sets ==
  /\ \A b : /\ BucketReaders(b) = {t \in Threads : Reads(t, b)}
            /\ BucketWriters(b) = {t \in Threads : Writes(t, b)}
            /\ IsFiniteSet(BucketReaders(b)) /\ IsFiniteSet(BucketWriters(b))
PROOF
  <1>1. \A b : /\ BucketReaders(b) = {t \in Threads : Reads(t, b)}
               /\ BucketWriters(b) = {t \in Threads : Writes(t, b)}
    BY DEF BucketReaders, BucketWriters, Reads, Writes
  <1>2. \A b : /\ BucketReaders(b) \in SUBSET Threads
               /\ BucketWriters(b) \in SUBSET Threads
    BY <1>1
  <1>3. QED
    BY <1>1, <1>2, FS_Subset, PagerAssumption

\* A step of t leaves the others where they are, at the latches too.
LEMMA OthersLatches ==
  ASSUME NEW t \in Threads, Others(t), NEW u \in Threads \ {t}, NEW b
  PROVE  (Reads(u, b)' <=> Reads(u, b)) /\ (Writes(u, b)' <=> Writes(u, b))
PROOF
  BY DEF Others, Reads, Writes, Bucket, VictimBucket

\* A step that takes and gives no latch.
LEMMA EntriesKept ==
  ASSUME EntryLatches, NEW t \in Threads, Others(t),
         bucket_latch' = bucket_latch,
         \A b : /\ Reads(t, b)' <=> Reads(t, b)
                /\ Writes(t, b)' <=> Writes(t, b)
  PROVE  EntryLatches'
PROOF
  <1>1. ASSUME NEW b \in Buckets
        PROVE  BucketReaders(b)' = BucketReaders(b)
               /\ BucketWriters(b)' = BucketWriters(b)
    <2>1. \A u \in Threads : /\ Reads(u, b)' <=> Reads(u, b)
                             /\ Writes(u, b)' <=> Writes(u, b)
      BY OthersLatches
    <2>2. QED
      BY <2>1 DEF BucketReaders, BucketWriters, Reads, Writes
  <1>2. QED
    BY <1>1 DEF EntryLatches

\* A step that takes the latch of entry c.
LEMMA EntryTaken ==
  ASSUME TypeOK, EntryLatches, NEW t \in Threads, Others(t),
         NEW c \in Buckets, NEW x \in BOOLEAN, AcquireBucket(c, x),
         \A b : ~Reads(t, b) /\ ~Writes(t, b),
         \A b : /\ Reads(t, b)' <=> (b = c /\ ~x)
                /\ Writes(t, b)' <=> (b = c /\ x)
  PROVE  EntryLatches'
PROOF
  <1>1. \A b : \A u \in Threads \ {t} :
          /\ Reads(u, b)' <=> Reads(u, b)
          /\ Writes(u, b)' <=> Writes(u, b)
    BY OthersLatches
  <1>2. ASSUME NEW b \in Buckets, b # c
        PROVE  CountsHolders(bucket_latch[b], BucketReaders(b), BucketWriters(b))'
    <2>1. \A u \in Threads : /\ Reads(u, b)' <=> Reads(u, b)
                             /\ Writes(u, b)' <=> Writes(u, b)
      BY <1>1, <1>2
    <2>2. /\ BucketReaders(b)' = BucketReaders(b)
          /\ BucketWriters(b)' = BucketWriters(b)
      BY <2>1 DEF BucketReaders, BucketWriters, Reads, Writes
    <2>3. bucket_latch'[b] = bucket_latch[b]
      BY <1>2 DEF AcquireBucket, TypeOK
    <2>4. QED
      BY <2>2, <2>3 DEF EntryLatches
  <1>3. CountsHolders(bucket_latch[c], BucketReaders(c), BucketWriters(c))'
    <2>1. /\ BucketReaders(c)' = IF x THEN BucketReaders(c)
                                 ELSE BucketReaders(c) \cup {t}
          /\ BucketWriters(c)' = IF x THEN BucketWriters(c) \cup {t}
                                 ELSE BucketWriters(c)
          /\ t \notin BucketReaders(c) /\ t \notin BucketWriters(c)
      BY <1>1 DEF BucketReaders, BucketWriters, Reads, Writes
    <2>2. /\ bucket_latch[c] \in Int
          /\ bucket_latch'[c] = Acquired(bucket_latch[c], x)
          /\ CanAcquire(bucket_latch[c], x)
      BY DEF AcquireBucket, TypeOK
    <2>3. CountsHolders(Acquired(bucket_latch[c], x),
            IF x THEN BucketReaders(c) ELSE BucketReaders(c) \cup {t},
            IF x THEN BucketWriters(c) \cup {t} ELSE BucketWriters(c))
      <3>1. CountsHolders(bucket_latch[c], BucketReaders(c), BucketWriters(c))
        BY DEF EntryLatches
      <3>2. IsFiniteSet(BucketReaders(c)) /\ IsFiniteSet(BucketWriters(c))
        BY Sets
      <3>3. QED
        BY <2>1, <2>2, <3>1, <3>2, CountsAcquire
    <2>4. QED
      BY <2>1, <2>2, <2>3
  <1>4. QED
    BY <1>2, <1>3 DEF EntryLatches

\* A step that releases the latch of entry c.
LEMMA EntryReleased ==
  ASSUME TypeOK, EntryLatches, NEW t \in Threads, Others(t),
         NEW c \in Buckets, NEW x \in BOOLEAN, ReleaseBucket(c, x),
         \A b : /\ Reads(t, b) <=> (b = c /\ ~x)
                /\ Writes(t, b) <=> (b = c /\ x),
         \A b : ~Reads(t, b)' /\ ~Writes(t, b)'
  PROVE  EntryLatches' /\ ReleaseAsserted(bucket_latch[c], x)
PROOF
  <1>1. \A b : \A u \in Threads \ {t} :
          /\ Reads(u, b)' <=> Reads(u, b)
          /\ Writes(u, b)' <=> Writes(u, b)
    BY OthersLatches
  <1>2. ASSUME NEW b \in Buckets, b # c
        PROVE  CountsHolders(bucket_latch[b], BucketReaders(b), BucketWriters(b))'
    <2>1. \A u \in Threads : /\ Reads(u, b)' <=> Reads(u, b)
                             /\ Writes(u, b)' <=> Writes(u, b)
      BY <1>1, <1>2
    <2>2. /\ BucketReaders(b)' = BucketReaders(b)
          /\ BucketWriters(b)' = BucketWriters(b)
      BY <2>1 DEF BucketReaders, BucketWriters, Reads, Writes
    <2>3. bucket_latch'[b] = bucket_latch[b]
      BY <1>2 DEF ReleaseBucket, TypeOK
    <2>4. QED
      BY <2>2, <2>3 DEF EntryLatches
  <1>3. /\ CountsHolders(bucket_latch[c], BucketReaders(c), BucketWriters(c))'
        /\ ReleaseAsserted(bucket_latch[c], x)
    <2>1. /\ BucketReaders(c)' = BucketReaders(c) \ {t}
          /\ BucketWriters(c)' = BucketWriters(c) \ {t}
          /\ t \in IF x THEN BucketWriters(c) ELSE BucketReaders(c)
      BY <1>1 DEF BucketReaders, BucketWriters, Reads, Writes
    <2>2. /\ bucket_latch[c] \in Int
          /\ bucket_latch'[c] = Released(bucket_latch[c], x)
      BY DEF ReleaseBucket, TypeOK
    <2>3. /\ ReleaseAsserted(bucket_latch[c], x)
          /\ CountsHolders(Released(bucket_latch[c], x),
               BucketReaders(c) \ {t}, BucketWriters(c) \ {t})
      BY <2>1, <2>2, Sets, CountsRelease DEF EntryLatches
    <2>4. QED
      BY <2>1, <2>2, <2>3
  <1>4. QED
    BY <1>2, <1>3 DEF EntryLatches

-----------------------------------------------------------------------------
\* The latch a thread waits for, holds or gives is one of an entry.
LEMMA EntryOf ==
  ASSUME TypeInv, NEW t \in Threads
  PROVE  /\ pc[t] \notin {"idle", "unfix_release"} => Bucket(t) \in Buckets
         /\ pc[t] \in EvictPhase \cup {"evict_latch"} => VictimBucket(t) \in Buckets
PROOF
  BY PagerAssumption DEF TypeInv, CallsOK, InHand, Bucket, VictimBucket

LEMMA EntriesCall ==
  ASSUME TypeInv, EntryLatches, NEW t \in Threads, Others(t), Call(t)
  PROVE  EntryLatches'
PROOF
  <1>1. bucket_latch' = bucket_latch
    BY DEF Call, Fix, FixNext, Enter, UnfixFlags
  <1>2. pc[t] = "idle" /\ pc'[t] \in {"idle", "fast_latch", "unfix_release"}
    BY DEF Call, Fix, FixNext, Enter, UnfixFlags, TypeInv, TypeOK
  <1>3. \A b : /\ ~Reads(t, b) /\ ~Writes(t, b)
               /\ ~Reads(t, b)' /\ ~Writes(t, b)'
    BY <1>2 DEF Reads, Writes, ReadPhase, WritePhase, EvictPhase, CreatePhase
  <1>4. QED
    BY <1>1, <1>3, EntriesKept

LEMMA EntriesLookup ==
  ASSUME TypeInv, EntryLatches, NEW t \in Threads, Others(t), Lookup(t)
  PROVE  EntryLatches'
PROOF
  <1> USE DEF TypeInv, TypeOK, Reads, Writes, ReadPhase, WritePhase, EvictPhase,
              CreatePhase, Bucket
  <1>1. CASE FastLatch(t)
    BY <1>1, EntryOf, EntryTaken DEF FastLatch
  <1>2. CASE FastMiss(t)
    BY <1>2, EntryOf, EntryReleased DEF FastMiss
  <1>3. CASE FastHit(t)
    BY <1>3, EntriesKept DEF FastHit, AcquirePage
  <1>4. CASE FastRelease(t)
    BY <1>4, EntryOf, EntryReleased DEF FastRelease, Return
  <1>5. QED
    BY <1>1, <1>2, <1>3, <1>4 DEF Lookup

LEMMA EntriesCount ==
  ASSUME TypeInv, EntryLatches, NEW t \in Threads, Others(t), CountPage(t)
  PROVE  EntryLatches'
PROOF
  <1>1. bucket_latch' = bucket_latch
    BY DEF CountPage, LoadCount, Reserve, ReserveRetry, ReserveFull
  <1>2. /\ pc[t] \in {"load_count", "reserve"}
        /\ pc'[t] \in {"reserve", "slow_latch", "evict"}
    BY DEF CountPage, LoadCount, Reserve, ReserveRetry, ReserveFull, TypeInv,
           TypeOK
  <1>3. \A b : /\ ~Reads(t, b) /\ ~Writes(t, b)
               /\ ~Reads(t, b)' /\ ~Writes(t, b)'
    BY <1>2 DEF Reads, Writes, ReadPhase, WritePhase, EvictPhase, CreatePhase
  <1>4. QED
    BY <1>1, <1>3, EntriesKept

LEMMA EntriesEvict ==
  ASSUME TypeInv, EntryLatches, NEW t \in Threads, Others(t), Evict(t)
  PROVE  EntryLatches'
PROOF
  <1> USE DEF TypeInv, TypeOK, Reads, Writes, ReadPhase, WritePhase, EvictPhase,
              CreatePhase, VictimBucket
  <1>1. ASSUME bucket_latch' = bucket_latch,
               pc[t] \in {"evict", "evict_load"},
               pc'[t] \in {"evict", "evict_load", "evict_latch", "idle"}
        PROVE  EntryLatches'
    BY <1>1, EntriesKept
  <1>2. ASSUME ReleaseBucket(VictimBucket(t), TRUE),
               pc[t] \in {"evict_check", "evict_header", "evict_release"},
               pc'[t] \in {"evict", "evict_latch", "slow_latch"}
        PROVE  EntryLatches'
    BY <1>2, EntryOf, EntryReleased
  <1>3. CASE Probe(t) \/ EvictFail(t)
    BY <1>1, <1>3 DEF Probe, EvictFail, Return
  <1>4. CASE EvictLoad(t)
    BY <1>1, <1>4 DEF EvictLoad, TakeVictim, NextProbe
  <1>5. CASE EvictLatch(t)
    BY <1>5, EntryOf, EntryTaken DEF EvictLatch
  <1>6. CASE EvictConfirm(t) \/ EvictFree(t)
    BY <1>6, EntriesKept DEF EvictConfirm, EvictFree
  <1>7. CASE EvictStale(t)
    BY <1>2, <1>7 DEF EvictStale, TakeVictim, NextProbe
  <1>8. CASE EvictSkipFixed(t) \/ SecondChance(t)
    BY <1>2, <1>8 DEF EvictSkipFixed, SecondChance, NextProbe
  <1>9. CASE EvictRelease(t)
    BY <1>2, <1>9 DEF EvictRelease
  <1>10. QED
    BY <1>3, <1>4, <1>5, <1>6, <1>7, <1>8, <1>9 DEF Evict

LEMMA EntriesSlow ==
  ASSUME TypeInv, EntryLatches, NEW t \in Threads, Others(t), SlowLookup(t)
  PROVE  EntryLatches'
PROOF
  <1> USE DEF TypeInv, TypeOK, Reads, Writes, ReadPhase, WritePhase, EvictPhase,
              CreatePhase, Bucket
  <1>1. CASE SlowLatch(t)
    BY <1>1, EntryOf, EntryTaken DEF SlowLatch
  <1>2. CASE SlowHit(t)
    BY <1>2, EntriesKept DEF SlowHit, AcquirePage
  <1>3. CASE SlowMiss(t) \/ Uncount(t)
    BY <1>3, EntriesKept DEF SlowMiss, Uncount
  <1>4. CASE FixRelease(t)
    BY <1>4, EntryOf, EntryReleased DEF FixRelease, Return
  <1>5. QED
    BY <1>1, <1>2, <1>3, <1>4 DEF SlowLookup

LEMMA EntriesCreate ==
  ASSUME TypeInv, EntryLatches, NEW t \in Threads, Others(t), Create(t)
  PROVE  EntryLatches'
PROOF
  <1>1. bucket_latch' = bucket_latch /\ id' = id
    BY DEF Create, CreateProbe, CreateClaim, CreateSkip, CreateInit,
           CreateInitFail, CreateInsert, CreateInsertFail, CreatePage
  <1>2. pc[t] \in WritePhase /\ pc'[t] \in WritePhase
    BY DEF Create, CreateProbe, CreateClaim, CreateSkip, CreateInit,
           CreateInitFail, CreateInsert, CreateInsertFail, CreatePage,
           WritePhase, CreatePhase, TypeInv, TypeOK
  <1>3. \A b : /\ Reads(t, b)' <=> Reads(t, b)
               /\ Writes(t, b)' <=> Writes(t, b)
    BY <1>1, <1>2 DEF Reads, Writes, ReadPhase, WritePhase, EvictPhase,
                      CreatePhase, Bucket
  <1>4. bucket_latch' = bucket_latch
    BY <1>1
  <1>5. QED
    BY <1>3, <1>4, EntriesKept DEF Reads, Writes, Bucket, VictimBucket

LEMMA EntriesNext == TypeInv /\ EntryLatches /\ [Next]_vars => EntryLatches'
PROOF
  <1> SUFFICES ASSUME TypeInv, EntryLatches, [Next]_vars
               PROVE  EntryLatches'
    OBVIOUS
  <1>1. ASSUME NEW t \in Threads, Call(t) \/ Step(t)
        PROVE  EntryLatches'
    <2>1. Others(t)
      BY <1>1, OthersStep DEF TypeInv
    <2>2. CASE UnfixRelease(t)
      BY <2>1, <2>2, EntriesKept
         DEF UnfixRelease, Return, TypeInv, TypeOK, Reads, Writes, ReadPhase,
             WritePhase, EvictPhase, CreatePhase
    <2>3. QED
      BY <1>1, <2>1, <2>2, EntriesCall, EntriesLookup, EntriesCount,
         EntriesEvict, EntriesSlow, EntriesCreate DEF Step
  <1>2. CASE UNCHANGED vars
    BY <1>2 DEF vars, EntryLatches, BucketReaders, BucketWriters, Bucket,
                VictimBucket
  <1>3. QED
    BY <1>1, <1>2 DEF Next

(***************************************************************************)
(* The latch of every directory entry counts those that hold it.           *)
(***************************************************************************)
THEOREM EntryInvariance == Spec => []EntryLatches
PROOF
  <1>1. Init => EntryLatches
    <2> SUFFICES ASSUME Init, NEW b \in Buckets
                 PROVE  CountsHolders(bucket_latch[b], BucketReaders(b),
                                      BucketWriters(b))
      BY DEF EntryLatches
    <2>1. BucketReaders(b) = {} /\ BucketWriters(b) = {}
      BY DEF Init, BucketReaders, BucketWriters, ReadPhase, WritePhase,
             EvictPhase, CreatePhase
    <2>2. QED
      BY <2>1, FS_EmptySet DEF Init, CountsHolders, FreeLatch
  <1>2. QED
    BY <1>1, EntriesNext, TypeInvariance, PTL DEF Spec

(***************************************************************************)
(* Whoever has the write latch of an entry is alone with it.               *)
(***************************************************************************)
LEMMA WriterAlone ==
  ASSUME EntryLatches, NEW t \in Threads, NEW b \in Buckets, Writes(t, b),
         NEW u \in Threads, Reads(u, b) \/ Writes(u, b)
  PROVE  u = t
PROOF
  <1>1. /\ t \in BucketWriters(b)
        /\ u \in BucketReaders(b) \cup BucketWriters(b)
    BY Sets
  <1>2. BucketReaders(b) = {} /\ BucketWriters(b) = {t}
    BY <1>1, Sets, CountsWriter DEF EntryLatches
  <1>3. QED
    BY <1>1, <1>2

-----------------------------------------------------------------------------
\* t may change what the directory says about page p.
OwnsPage(t, p) ==
  \/ pc[t] \in WritePhase /\ id[t] = p
  \/ pc[t] \in EvictPhase /\ victim[t] = p

LEMMA OwnerAlone ==
  ASSUME EntryLatches, NEW t \in Threads, NEW u \in Threads,
         NEW p \in PageIds, OwnsPage(t, p), OwnsPage(u, p)
  PROVE  u = t
PROOF
  <1>1. Hash[p] \in Buckets
    BY PagerAssumption
  <1>2. Writes(t, Hash[p]) /\ Writes(u, Hash[p])
    BY DEF OwnsPage, Writes, Bucket, VictimBucket
  <1>3. QED
    BY <1>1, <1>2, WriterAlone

(***************************************************************************)
(* What a thread knows of the page it creates or evicts, from where it is. *)
(* A slot is taken before the directory is told, and given up by pager_-   *)
(* evict only after it is confirmed under the latch.                       *)
(***************************************************************************)
Claiming == {"create_init", "create_insert"}

KnowsPage(t) ==
  /\ pc[t] \in {"create", "create_claim"} \cup Claiming =>
       directory[id[t]] = NoHeader
  /\ pc[t] \in Claiming => ring[index[t]] = id[t]
  /\ pc[t] = "create_page" => directory[id[t]] = index[t]
  /\ pc[t] = "evict_header" => /\ ring[index[t]] = victim[t]
                               /\ directory[victim[t]] = index[t]

DirectoryInRing ==
  \A p \in PageIds : directory[p] # NoHeader => ring[directory[p]] = p

Claimed(s) == \E t \in Threads : pc[t] \in Claiming /\ index[t] = s /\ id[t] = ring[s]

RingInDirectory ==
  \A s \in Slots : ring[s] # 0 => directory[ring[s]] = s \/ Claimed(s)

RingInv ==
  DirectoryInRing /\ RingInDirectory /\ \A t \in Threads : KnowsPage(t)

LEMMA RingInvAgrees == RingInv => DirectoryRingAgree
PROOF
  BY DEF RingInv, DirectoryInRing, RingInDirectory, Claimed, Claiming,
         DirectoryRingAgree

-----------------------------------------------------------------------------
\* Who is between the claim and the insertion stays there in another's step.
LEMMA ClaimsKept ==
  ASSUME NEW t \in Threads, Others(t), NEW s, ring'[s] = ring[s],
         pc[t] \in Claiming /\ index[t] = s /\ id[t] = ring[s] =>
           pc'[t] \in Claiming /\ index'[t] = s /\ id'[t] = ring[s],
         Claimed(s)
  PROVE  Claimed(s)'
PROOF
  <1>1. PICK u \in Threads : /\ pc[u] \in Claiming
                             /\ index[u] = s /\ id[u] = ring[s]
    BY DEF Claimed
  <1>2. pc'[u] \in Claiming /\ index'[u] = s /\ id'[u] = ring[s]
    BY <1>1 DEF Others
  <1>3. QED
    BY <1>2 DEF Claimed

\* A step that changes neither the directory nor the ring.
LEMMA RingKept ==
  ASSUME RingInv, NEW t \in Threads, Others(t),
         ring' = ring, directory' = directory, KnowsPage(t)',
         pc[t] \in Claiming =>
           /\ pc'[t] \in Claiming
           /\ index'[t] = index[t] /\ id'[t] = id[t]
  PROVE  RingInv'
PROOF
  <1>1. DirectoryInRing'
    BY DEF RingInv, DirectoryInRing
  <1>2. ASSUME NEW s \in Slots, ring'[s] # 0
        PROVE  directory'[ring'[s]] = s \/ Claimed(s)'
    BY <1>2, ClaimsKept DEF RingInv, RingInDirectory
  <1>3. ASSUME NEW u \in Threads
        PROVE  KnowsPage(u)'
    BY DEF RingInv, KnowsPage, Others
  <1>4. QED
    BY <1>1, <1>2, <1>3 DEF RingInv, RingInDirectory

\* A step that puts t nowhere near a slot of its own.
LEMMA RingStep ==
  ASSUME RingInv, NEW t \in Threads, Others(t),
         ring' = ring, directory' = directory, pc[t] \notin Claiming,
         pc'[t] \notin Claiming \cup {"create", "create_claim", "create_page",
                                      "evict_header"}
  PROVE  RingInv'
PROOF
  <1>1. KnowsPage(t)'
    BY DEF KnowsPage, Claiming
  <1>2. QED
    BY <1>1, RingKept

LEMMA RingCall ==
  ASSUME TypeOK, RingInv, NEW t \in Threads, Others(t),
         Call(t) \/ UnfixRelease(t)
  PROVE  RingInv'
PROOF
  <1>1. /\ ring' = ring /\ directory' = directory
        /\ pc[t] \in {"idle", "unfix_release"}
        /\ pc'[t] \in {"idle", "fast_latch", "unfix_release"}
    BY DEF Call, Fix, FixNext, Enter, UnfixFlags, UnfixRelease, Return, TypeOK
  <1>2. QED
    BY <1>1, RingStep DEF Claiming

LEMMA RingLookup ==
  ASSUME TypeOK, RingInv, NEW t \in Threads, Others(t), Lookup(t)
  PROVE  RingInv'
PROOF
  <1>1. /\ ring' = ring /\ directory' = directory
        /\ pc[t] \in {"fast_latch", "fast_lookup", "fast_release"}
        /\ pc'[t] \in {"fast_lookup", "load_count", "fast_release", "idle"}
    BY DEF Lookup, FastLatch, FastMiss, FastHit, FastRelease, AcquirePage,
           Return, TypeOK
  <1>2. QED
    BY <1>1, RingStep DEF Claiming

LEMMA RingCount ==
  ASSUME TypeOK, RingInv, NEW t \in Threads, Others(t), CountPage(t)
  PROVE  RingInv'
PROOF
  <1>1. /\ ring' = ring /\ directory' = directory
        /\ pc[t] \in {"load_count", "reserve"}
        /\ pc'[t] \in {"reserve", "slow_latch", "evict"}
    BY DEF CountPage, LoadCount, Reserve, ReserveRetry, ReserveFull, TypeOK
  <1>2. QED
    BY <1>1, RingStep DEF Claiming

LEMMA RingSlow ==
  ASSUME TypeOK, RingInv, NEW t \in Threads, Others(t), SlowLookup(t)
  PROVE  RingInv'
PROOF
  <1>1. CASE SlowMiss(t)
    <2>1. KnowsPage(t)'
      BY <1>1 DEF SlowMiss, Found, KnowsPage, Claiming, TypeOK
    <2>2. QED
      BY <1>1, <2>1, RingKept DEF SlowMiss, Claiming
  <1>2. CASE SlowLatch(t) \/ SlowHit(t) \/ Uncount(t) \/ FixRelease(t)
    <2>1. /\ ring' = ring /\ directory' = directory
          /\ pc[t] \in {"slow_latch", "slow_lookup", "slow_undo", "undo",
                        "fix_release"}
          /\ pc'[t] \in {"slow_lookup", "slow_undo", "fix_release", "idle"}
      BY <1>2 DEF SlowLatch, SlowHit, Uncount, FixRelease, AcquirePage, Return,
                  TypeOK
    <2>2. QED
      BY <2>1, RingStep DEF Claiming
  <1>3. QED
    BY <1>1, <1>2 DEF SlowLookup

-----------------------------------------------------------------------------
\* pager_evict gives the slot of its victim up, and its mapping with it.
LEMMA RingFree ==
  ASSUME TypeInv, EntryLatches, RingInv, NEW t \in Threads, Others(t),
         EvictFree(t)
  PROVE  RingInv'
PROOF
  <1> DEFINE p == victim[t]
             s == index[t]
  <1>1. /\ p \in PageIds /\ s \in Slots /\ ring[s] = p /\ directory[p] = s
        /\ OwnsPage(t, p) /\ p # 0
    <2>1. pc[t] = "evict_header"
      BY DEF EvictFree
    <2>2. p \in PageIds /\ OwnsPage(t, p)
      BY <2>1 DEF TypeInv, CallsOK, InHand, EvictPhase, OwnsPage
    <2>3. s \in Slots
      BY DEF TypeInv, TypeOK
    <2>4. ring[s] = p /\ directory[p] = s
      BY <2>1 DEF RingInv, KnowsPage
    <2>5. QED
      BY <2>2, <2>3, <2>4 DEF PageIds
  <1>2. /\ directory' = [directory EXCEPT ![p] = NoHeader]
        /\ ring' = [ring EXCEPT ![s] = 0]
    BY <1>1 DEF EvictFree
  <1>3. /\ pc[t] = "evict_header" /\ pc'[t] = "evict_release"
    BY DEF EvictFree, TypeInv, TypeOK
  <1>4. DirectoryInRing'
    BY <1>1, <1>2 DEF RingInv, DirectoryInRing, TypeInv, TypeOK, Slots
  <1>5. ASSUME NEW r \in Slots, ring'[r] # 0
        PROVE  directory'[ring'[r]] = r \/ Claimed(r)'
    <2>1. r # s /\ ring'[r] = ring[r] /\ ring[r] \in PageIds
      BY <1>2, <1>5 DEF TypeInv, TypeOK
    <2>2. CASE directory[ring[r]] = r
      BY <1>1, <1>2, <2>1, <2>2 DEF TypeInv, TypeOK
    <2>3. CASE Claimed(r)
      BY <1>3, <2>1, <2>3, ClaimsKept DEF Claiming
    <2>4. QED
      BY <1>5, <2>1, <2>2, <2>3 DEF RingInv, RingInDirectory
  <1>6. ASSUME NEW u \in Threads \ {t}
        PROVE  KnowsPage(u)'
    <2>1. ~OwnsPage(u, p)
      BY <1>1, OwnerAlone
    <2>2. /\ pc'[u] = pc[u] /\ id'[u] = id[u]
          /\ index'[u] = index[u] /\ victim'[u] = victim[u]
          /\ index[u] \in Slots /\ KnowsPage(u)
      BY DEF Others, RingInv, TypeInv, TypeOK
    <2>3. CASE pc[u] \in {"create", "create_claim"}
      <3>1. id[u] # p
        BY <2>1, <2>3 DEF OwnsPage, WritePhase, CreatePhase
      <3>2. QED
        BY <1>1, <1>2, <2>2, <2>3, <3>1
           DEF KnowsPage, Claiming, TypeInv, TypeOK
    <2>4. CASE pc[u] \in Claiming \cup {"create_page"}
      <3>1. id[u] # p
        BY <2>1, <2>4 DEF OwnsPage, WritePhase, CreatePhase, Claiming
      <3>2. QED
        BY <1>1, <1>2, <2>2, <2>4, <3>1
           DEF KnowsPage, Claiming, TypeInv, TypeOK
    <2>5. CASE pc[u] = "evict_header"
      <3>1. victim[u] # p
        BY <2>1, <2>5 DEF OwnsPage, EvictPhase
      <3>2. QED
        BY <1>1, <1>2, <2>2, <2>5, <3>1
           DEF KnowsPage, Claiming, TypeInv, TypeOK
    <2>6. QED
      BY <2>2, <2>3, <2>4, <2>5 DEF KnowsPage, Claiming
  <1>7. KnowsPage(t)'
    BY <1>3 DEF KnowsPage, Claiming
  <1>8. QED
    BY <1>4, <1>5, <1>6, <1>7 DEF RingInv, RingInDirectory

\* pager_create takes a free slot for its page.
LEMMA RingClaim ==
  ASSUME TypeInv, EntryLatches, RingInv, NEW t \in Threads, Others(t),
         CreateClaim(t)
  PROVE  RingInv'
PROOF
  <1> DEFINE p == id[t]
             s == index[t]
  <1>1. /\ pc[t] = "create_claim" /\ pc'[t] = "create_init"
        /\ id'[t] = p /\ index'[t] = s /\ directory' = directory
        /\ ring' = [ring EXCEPT ![s] = p] /\ ring[s] = 0
    BY DEF CreateClaim, TypeInv, TypeOK
  <1>2. p \in PageIds /\ s \in Slots /\ p # 0
    <2>1. p \in PageIds
      BY <1>1 DEF TypeInv, CallsOK, InHand
    <2>2. s \in Slots
      BY DEF TypeInv, TypeOK
    <2>3. QED
      BY <2>1, <2>2 DEF PageIds
  <1>3. directory[p] = NoHeader
    BY <1>1 DEF RingInv, KnowsPage
  <1>4. DirectoryInRing'
    BY <1>1, <1>2, <1>3
       DEF RingInv, DirectoryInRing, TypeInv, TypeOK, PageIds
  <1>5. ASSUME NEW r \in Slots, ring'[r] # 0
        PROVE  directory'[ring'[r]] = r \/ Claimed(r)'
    <2>1. CASE r = s
      BY <1>1, <1>2, <2>1 DEF Claimed, Claiming, TypeInv, TypeOK
    <2>2. CASE r # s
      <3>1. ring'[r] = ring[r]
        BY <1>1, <2>2 DEF TypeInv, TypeOK
      <3>2. directory[ring[r]] = r \/ Claimed(r)
        BY <1>5, <3>1 DEF RingInv, RingInDirectory
      <3>3. QED
        BY <1>1, <3>1, <3>2, ClaimsKept DEF Claiming
    <2>3. QED
      BY <2>1, <2>2
  <1>6. ASSUME NEW u \in Threads \ {t}
        PROVE  KnowsPage(u)'
    <2>1. /\ pc'[u] = pc[u] /\ id'[u] = id[u]
          /\ index'[u] = index[u] /\ victim'[u] = victim[u]
          /\ index[u] \in Slots /\ KnowsPage(u) /\ InHand(u)
      BY DEF Others, RingInv, TypeInv, TypeOK, CallsOK
    <2>2. CASE pc[u] \in Claiming
      <3>1. ring[index[u]] # 0
        BY <2>1, <2>2 DEF KnowsPage, Claiming, InHand, PageIds
      <3>2. QED
        BY <1>1, <2>1, <2>2, <3>1 DEF KnowsPage, Claiming, TypeInv, TypeOK
    <2>3. CASE pc[u] = "evict_header"
      <3>1. ring[index[u]] # 0
        BY <2>1, <2>3 DEF KnowsPage, EvictPhase, InHand, PageIds
      <3>2. QED
        BY <1>1, <2>1, <2>3, <3>1 DEF KnowsPage, Claiming, TypeInv, TypeOK
    <2>4. CASE pc[u] \notin Claiming \cup {"evict_header"}
      BY <1>1, <2>1, <2>4 DEF KnowsPage, Claiming
    <2>5. QED
      BY <2>2, <2>3, <2>4
  <1>7. KnowsPage(t)'
    BY <1>1, <1>2, <1>3 DEF KnowsPage, Claiming, TypeInv, TypeOK
  <1>8. QED
    BY <1>4, <1>5, <1>6, <1>7 DEF RingInv, RingInDirectory

\* The error paths of pager_create give the slot up again.
LEMMA RingUndo ==
  ASSUME TypeInv, EntryLatches, RingInv, NEW t \in Threads, Others(t),
         CreateInitFail(t) \/ CreateInsertFail(t)
  PROVE  RingInv'
PROOF
  <1> DEFINE p == id[t]
             s == index[t]
  <1>1. /\ pc[t] \in Claiming /\ pc'[t] = "undo"
        /\ directory' = directory /\ ring' = [ring EXCEPT ![s] = 0]
    BY DEF CreateInitFail, CreateInsertFail, Claiming, TypeInv, TypeOK
  <1>2. p \in PageIds /\ s \in Slots /\ p # 0
    <2>1. p \in PageIds
      BY <1>1 DEF TypeInv, CallsOK, InHand, Claiming
    <2>2. s \in Slots
      BY DEF TypeInv, TypeOK
    <2>3. QED
      BY <2>1, <2>2 DEF PageIds
  <1>3. directory[p] = NoHeader /\ ring[s] = p /\ OwnsPage(t, p)
    BY <1>1 DEF RingInv, KnowsPage, OwnsPage, Claiming, WritePhase, CreatePhase
  <1>4. DirectoryInRing'
    BY <1>1, <1>2, <1>3 DEF RingInv, DirectoryInRing, TypeInv, TypeOK
  <1>5. ASSUME NEW r \in Slots, ring'[r] # 0
        PROVE  directory'[ring'[r]] = r \/ Claimed(r)'
    <2>1. r # s /\ ring'[r] = ring[r]
      BY <1>1, <1>5 DEF TypeInv, TypeOK
    <2>2. directory[ring[r]] = r \/ Claimed(r)
      BY <1>5, <2>1 DEF RingInv, RingInDirectory
    <2>3. QED
      BY <1>1, <2>1, <2>2, ClaimsKept
  <1>6. ASSUME NEW u \in Threads \ {t}
        PROVE  KnowsPage(u)'
    <2>1. /\ pc'[u] = pc[u] /\ id'[u] = id[u]
          /\ index'[u] = index[u] /\ victim'[u] = victim[u]
          /\ index[u] \in Slots /\ KnowsPage(u)
      BY DEF Others, RingInv, TypeInv, TypeOK
    <2>2. CASE pc[u] \in Claiming
      <3>1. OwnsPage(u, id[u])
        BY <2>2 DEF OwnsPage, Claiming, WritePhase, CreatePhase
      <3>2. id[u] # p
        BY <1>2, <1>3, <3>1, OwnerAlone
      <3>3. index[u] # s
        BY <1>3, <2>1, <2>2, <3>2 DEF KnowsPage
      <3>4. QED
        BY <1>1, <2>1, <2>2, <3>3 DEF KnowsPage, Claiming, TypeInv, TypeOK
    <2>3. CASE pc[u] = "evict_header"
      <3>1. index[u] # s
        BY <1>2, <1>3, <2>1, <2>3 DEF KnowsPage, Slots
      <3>2. QED
        BY <1>1, <2>1, <2>3, <3>1 DEF KnowsPage, Claiming, TypeInv, TypeOK
    <2>4. CASE pc[u] \notin Claiming \cup {"evict_header"}
      BY <1>1, <2>1, <2>4 DEF KnowsPage, Claiming
    <2>5. QED
      BY <2>2, <2>3, <2>4
  <1>7. KnowsPage(t)'
    BY <1>1 DEF KnowsPage, Claiming
  <1>8. QED
    BY <1>4, <1>5, <1>6, <1>7 DEF RingInv, RingInDirectory

\* pager_directory_insert maps the page to the slot taken for it.
LEMMA RingInsert ==
  ASSUME TypeInv, EntryLatches, RingInv, NEW t \in Threads, Others(t),
         CreateInsert(t)
  PROVE  RingInv'
PROOF
  <1> DEFINE p == id[t]
             s == index[t]
  <1>1. /\ pc[t] = "create_insert" /\ pc'[t] = "create_page"
        /\ id'[t] = p /\ index'[t] = s
        /\ ring' = ring /\ directory' = [directory EXCEPT ![p] = s]
    BY DEF CreateInsert, TypeInv, TypeOK
  <1>2. p \in PageIds /\ s \in Slots
    <2>1. p \in PageIds
      BY <1>1 DEF TypeInv, CallsOK, InHand
    <2>2. s \in Slots
      BY DEF TypeInv, TypeOK
    <2>3. QED
      BY <2>1, <2>2
  <1>3. directory[p] = NoHeader /\ ring[s] = p /\ OwnsPage(t, p)
    BY <1>1 DEF RingInv, KnowsPage, OwnsPage, Claiming, WritePhase, CreatePhase
  <1>4. DirectoryInRing'
    BY <1>1, <1>2, <1>3 DEF RingInv, DirectoryInRing, TypeInv, TypeOK
  <1>5. ASSUME NEW r \in Slots, ring'[r] # 0
        PROVE  directory'[ring'[r]] = r \/ Claimed(r)'
    <2>1. CASE r = s
      BY <1>1, <1>2, <1>3, <2>1 DEF TypeInv, TypeOK
    <2>2. CASE r # s /\ directory[ring[r]] = r
      BY <1>1, <1>2, <1>3, <2>2 DEF TypeInv, TypeOK, Slots
    <2>3. CASE r # s /\ Claimed(r)
      BY <1>1, <2>3, ClaimsKept
    <2>4. QED
      BY <1>1, <1>5, <2>1, <2>2, <2>3 DEF RingInv, RingInDirectory
  <1>6. ASSUME NEW u \in Threads \ {t}
        PROVE  KnowsPage(u)'
    <2>1. ~OwnsPage(u, p)
      BY <1>2, <1>3, OwnerAlone
    <2>2. /\ pc'[u] = pc[u] /\ id'[u] = id[u]
          /\ index'[u] = index[u] /\ victim'[u] = victim[u]
          /\ KnowsPage(u)
      BY DEF Others, RingInv
    <2>3. CASE pc[u] \in CreatePhase
      <3>1. id[u] # p
        BY <2>1, <2>3 DEF OwnsPage, WritePhase
      <3>2. directory'[id[u]] = directory[id[u]]
        BY <1>1, <3>1 DEF TypeInv, TypeOK
      <3>3. QED
        BY <1>1, <2>2, <2>3, <3>2 DEF KnowsPage, Claiming, CreatePhase
    <2>4. CASE pc[u] = "evict_header"
      <3>1. victim[u] # p
        BY <2>1, <2>4 DEF OwnsPage, EvictPhase
      <3>2. directory'[victim[u]] = directory[victim[u]]
        BY <1>1, <3>1 DEF TypeInv, TypeOK
      <3>3. QED
        BY <1>1, <2>2, <2>4, <3>2 DEF KnowsPage, Claiming
    <2>5. CASE pc[u] \notin CreatePhase \cup {"evict_header"}
      BY <2>2, <2>5 DEF KnowsPage, Claiming, CreatePhase
    <2>6. QED
      BY <2>3, <2>4, <2>5
  <1>7. KnowsPage(t)'
    BY <1>1, <1>2 DEF KnowsPage, Claiming, TypeInv, TypeOK
  <1>8. QED
    BY <1>4, <1>5, <1>6, <1>7 DEF RingInv, RingInDirectory

-----------------------------------------------------------------------------
LEMMA RingEvict ==
  ASSUME TypeInv, EntryLatches, RingInv, NEW t \in Threads, Others(t), Evict(t)
  PROVE  RingInv'
PROOF
  <1>1. CASE EvictConfirm(t)
    <2>1. /\ pc[t] = "evict_check" /\ pc'[t] = "evict_header"
          /\ index'[t] = index[t] /\ victim'[t] = victim[t]
          /\ ring' = ring /\ directory' = directory
          /\ ring[index[t]] = victim[t]
      BY <1>1 DEF EvictConfirm, StillThere, TypeInv, TypeOK
    <2>2. victim[t] \in PageIds /\ OwnsPage(t, victim[t])
      BY <2>1 DEF TypeInv, CallsOK, InHand, EvictPhase, OwnsPage
    <2>3. ~Claimed(index[t])
      <3> SUFFICES ASSUME NEW u \in Threads, pc[u] \in Claiming,
                          id[u] = victim[t]
                   PROVE  FALSE
        BY <2>1 DEF Claimed
      <3>1. OwnsPage(u, victim[t])
        BY DEF OwnsPage, Claiming, WritePhase, CreatePhase
      <3>2. u = t
        BY <2>2, <3>1, OwnerAlone
      <3>3. QED
        BY <2>1, <3>2 DEF Claiming
    <2>4. directory[victim[t]] = index[t]
      <3>1. index[t] \in Slots /\ ring[index[t]] # 0
        BY <2>1, <2>2 DEF TypeInv, TypeOK, PageIds
      <3>2. QED
        BY <2>1, <2>3, <3>1 DEF RingInv, RingInDirectory
    <2>5. KnowsPage(t)'
      BY <2>1, <2>4 DEF KnowsPage, Claiming
    <2>6. QED
      BY <2>1, <2>5, RingKept DEF Claiming
  <1>2. CASE EvictFree(t)
    BY <1>2, RingFree
  <1>3. CASE Probe(t) \/ EvictFail(t) \/ EvictLoad(t) \/ EvictLatch(t)
    <2>1. /\ ring' = ring /\ directory' = directory
          /\ pc[t] \in {"evict", "evict_load", "evict_latch"}
          /\ pc'[t] \in {"evict", "evict_load", "evict_latch", "evict_check",
                         "idle"}
      BY <1>3 DEF Probe, EvictFail, EvictLoad, EvictLatch, TakeVictim, NextProbe,
                  Return, TypeInv, TypeOK
    <2>2. QED
      BY <2>1, RingStep DEF Claiming
  <1>4. CASE \/ EvictStale(t) \/ EvictSkipFixed(t) \/ SecondChance(t)
             \/ EvictRelease(t)
    <2>1. /\ ring' = ring /\ directory' = directory
          /\ pc[t] \in {"evict_check", "evict_header", "evict_release"}
          /\ pc'[t] \in {"evict", "evict_latch", "slow_latch"}
      BY <1>4 DEF EvictStale, EvictSkipFixed, SecondChance, EvictRelease,
                  TakeVictim, NextProbe, TypeInv, TypeOK
    <2>2. QED
      BY <2>1, RingStep DEF Claiming
  <1>5. QED
    BY <1>1, <1>2, <1>3, <1>4 DEF Evict

LEMMA RingCreate ==
  ASSUME TypeInv, EntryLatches, RingInv, NEW t \in Threads, Others(t), Create(t)
  PROVE  RingInv'
PROOF
  <1>1. CASE CreateProbe(t) \/ CreateSkip(t)
    <2>1. /\ pc[t] \in {"create", "create_claim"}
          /\ pc'[t] \in {"create", "create_claim"}
          /\ id' = id /\ ring' = ring /\ directory' = directory
      BY <1>1 DEF CreateProbe, CreateSkip, TypeInv, TypeOK
    <2>2. KnowsPage(t)'
      BY <2>1 DEF RingInv, KnowsPage, Claiming
    <2>3. QED
      BY <2>1, <2>2, RingKept DEF Claiming
  <1>2. CASE CreateInit(t)
    <2>1. /\ pc[t] = "create_init" /\ pc'[t] = "create_insert"
          /\ id' = id /\ index' = index
          /\ ring' = ring /\ directory' = directory
      BY <1>2 DEF CreateInit, TypeInv, TypeOK
    <2>2. KnowsPage(t)'
      BY <2>1 DEF RingInv, KnowsPage, Claiming
    <2>3. QED
      BY <2>1, <2>2, RingKept DEF Claiming
  <1>3. CASE CreatePage(t)
    <2>1. /\ pc[t] = "create_page" /\ pc'[t] = "fix_release"
          /\ ring' = ring /\ directory' = directory
      BY <1>3 DEF CreatePage, AcquirePage, TypeInv, TypeOK
    <2>2. QED
      BY <2>1, RingStep DEF Claiming
  <1>4. QED
    BY <1>1, <1>2, <1>3, RingClaim, RingUndo, RingInsert DEF Create

LEMMA RingNext ==
  TypeInv /\ EntryLatches /\ RingInv /\ [Next]_vars => RingInv'
PROOF
  <1> SUFFICES ASSUME TypeInv, EntryLatches, RingInv, [Next]_vars
               PROVE  RingInv'
    OBVIOUS
  <1>1. ASSUME NEW t \in Threads, Call(t) \/ Step(t)
        PROVE  RingInv'
    <2>1. Others(t)
      BY <1>1, OthersStep DEF TypeInv
    <2>2. QED
      BY <1>1, <2>1, RingCall, RingLookup, RingCount, RingEvict, RingSlow,
         RingCreate DEF Step, TypeInv
  <1>2. CASE UNCHANGED vars
    BY <1>2 DEF vars, RingInv, DirectoryInRing, RingInDirectory, Claimed,
                KnowsPage
  <1>3. QED
    BY <1>1, <1>2 DEF Next

LEMMA RingInvariance == Spec => []RingInv
PROOF
  <1>1. Init => RingInv
    BY DEF Init, RingInv, DirectoryInRing, RingInDirectory, KnowsPage, Claiming
  <1>2. QED
    BY <1>1, RingNext, TypeInvariance, EntryInvariance, PTL DEF Spec

(***************************************************************************)
(* A page in the directory owns the slot it is mapped to, and a slot taken *)
(* is in the directory or about to be: pager_create and pager_evict keep   *)
(* the two in step, whoever else is at work on the same entry or slot.     *)
(***************************************************************************)
THEOREM RingAgreement == Spec => []DirectoryRingAgree
PROOF
  BY RingInvariance, RingInvAgrees, PTL

-----------------------------------------------------------------------------
Readers(s) == {h \in Fixed(s) : ~page[h].exclusive}
Writers(s) == {h \in Fixed(s) : page[h].exclusive}

PageLatches == \A s \in Slots : CountsHolders(page_latch[s], Readers(s), Writers(s))

\* h is being unfixed: the flags are written, the latch is not released.
InUnfix(h) == pc[h[1]] = "unfix_release" /\ out[h[1]] = h[2]

Fixing(h) == page[h] # NoPage /\ ~InUnfix(h)

(***************************************************************************)
(* The flag of a header is set by the writer that holds it, up to its      *)
(* pager_unfix, which keeps what the flag said in a variable.              *)
(***************************************************************************)
WritersFlag ==
  \A h \in Handles : Fixing(h) /\ page[h].exclusive =>
    "EXCLUSIVE" \in page_flags[page[h].data]

FlagsWriter ==
  \A s \in Slots : "EXCLUSIVE" \in page_flags[s] =>
    \E h \in Handles : Fixing(h) /\ page[h].data = s /\ page[h].exclusive

UnfixMode ==
  \A h \in Handles : page[h] # NoPage /\ InUnfix(h) =>
    exclusive[h[1]] = page[h].exclusive

FixedInDirectory ==
  \A h \in Handles : page[h] # NoPage => directory[page[h].id] = page[h].data

PageInv ==
  PageLatches /\ WritersFlag /\ FlagsWriter /\ UnfixMode /\ FixedInDirectory

LEMMA HolderSets ==
  /\ \A s : IsFiniteSet(Readers(s)) /\ IsFiniteSet(Writers(s))
  /\ \A s : /\ Readers(s) = {h \in Handles : /\ page[h] # NoPage
                                             /\ page[h].data = s
                                             /\ ~page[h].exclusive}
            /\ Writers(s) = {h \in Handles : /\ page[h] # NoPage
                                             /\ page[h].data = s
                                             /\ page[h].exclusive}
PROOF
  <1>1. IsFiniteSet(Handles)
    BY FS_Product, PagerAssumption
  <1>2. \A s : Readers(s) \in SUBSET Handles /\ Writers(s) \in SUBSET Handles
    BY DEF Readers, Writers, Fixed
  <1>3. QED
    BY <1>1, <1>2, FS_Subset DEF Readers, Writers, Fixed

\* A latch that is free, or read, or written, and what that says of holders.
LEMMA PageFree ==
  ASSUME PageInv, NEW s \in Slots, Unfixed(s)
  PROVE  Fixed(s) = {}
PROOF
  <1>1. page_latch[s] = 0
    BY DEF Unfixed, Available, FreeLatch
  <1>2. Cardinality(Readers(s)) = 0 /\ Writers(s) = {}
    BY <1>1 DEF PageInv, PageLatches, CountsHolders
  <1>3. Readers(s) = {}
    BY <1>2, HolderSets, FS_EmptySet
  <1>4. QED
    BY <1>2, <1>3 DEF Readers, Writers

LEMMA PageWriterAlone ==
  ASSUME PageInv, NEW s \in Slots, NEW h \in Writers(s), NEW k \in Fixed(s)
  PROVE  k = h
PROOF
  <1>1. CountsHolders(page_latch[s], Readers(s), Writers(s))
    BY DEF PageInv, PageLatches
  <1>2. Readers(s) = {} /\ Writers(s) = {h}
    BY <1>1, HolderSets, CountsWriter
  <1>3. QED
    BY <1>2 DEF Readers, Writers

\* The mode of a holder that is not in pager_unfix is that of the flag.
LEMMA FlagTellsMode ==
  ASSUME TypeOK, PageInv, NEW h \in Handles, Fixing(h)
  PROVE  /\ page[h].data \in Slots
         /\ ("EXCLUSIVE" \in page_flags[page[h].data]) = page[h].exclusive
PROOF
  <1> DEFINE s == page[h].data
  <1>1. page[h] \in Pages
    BY DEF TypeOK, Fixing
  <1>2. s \in Slots /\ page[h].exclusive \in BOOLEAN
    BY <1>1 DEF Pages
  <1>3. ASSUME "EXCLUSIVE" \in page_flags[s]
        PROVE  page[h].exclusive
    <2>1. PICK k \in Handles : Fixing(k) /\ page[k].data = s /\ page[k].exclusive
      BY <1>2, <1>3 DEF PageInv, FlagsWriter
    <2>2. k \in Writers(s) /\ h \in Fixed(s)
      BY <2>1 DEF Writers, Fixed, Fixing
    <2>3. QED
      BY <1>2, <2>1, <2>2, PageWriterAlone
  <1>4. ASSUME page[h].exclusive
        PROVE  "EXCLUSIVE" \in page_flags[s]
    BY <1>4 DEF PageInv, WritersFlag
  <1>5. QED
    BY <1>2, <1>3, <1>4

-----------------------------------------------------------------------------
\* A step that fixes no page and unfixes none.
LEMMA PagesKept ==
  ASSUME PageInv, NEW t \in Threads, Others(t),
         page' = page, page_latch' = page_latch,
         \A s \in Slots :
           "EXCLUSIVE" \in page_flags'[s] <=> "EXCLUSIVE" \in page_flags[s],
         pc[t] # "unfix_release", pc'[t] # "unfix_release",
         \A h \in Handles : page[h] # NoPage =>
           /\ page[h].data \in Slots
           /\ directory'[page[h].id] = directory[page[h].id]
  PROVE  PageInv'
PROOF
  <1>1. \A s : Readers(s)' = Readers(s) /\ Writers(s)' = Writers(s)
    BY DEF Readers, Writers, Fixed
  <1>2. PageLatches'
    BY <1>1 DEF PageInv, PageLatches
  <1>3. \A h \in Handles : /\ InUnfix(h)' <=> InUnfix(h)
                           /\ h[1] \in Threads
    BY DEF InUnfix, Others
  <1>4. \A h \in Handles : Fixing(h)' <=> Fixing(h)
    BY <1>3 DEF Fixing
  <1>5. WritersFlag'
    BY <1>4 DEF PageInv, WritersFlag, Fixing
  <1>6. FlagsWriter'
    BY <1>4 DEF PageInv, FlagsWriter
  <1>7. UnfixMode'
    <2> SUFFICES ASSUME NEW h \in Handles, page[h] # NoPage, InUnfix(h)
                 PROVE  exclusive'[h[1]] = page[h].exclusive
      BY <1>3 DEF UnfixMode
    <2>1. h[1] \in Threads \ {t}
      BY <1>3 DEF InUnfix
    <2>2. QED
      BY <2>1 DEF Others, PageInv, UnfixMode
  <1>8. FixedInDirectory'
    BY DEF PageInv, FixedInDirectory
  <1>9. QED
    BY <1>2, <1>5, <1>6, <1>7, <1>8 DEF PageInv

\* pager_fix fills *out: t is a new holder of the page in slot s.
LEMMA PageTaken ==
  ASSUME TypeInv, PageInv, NEW t \in Threads, Others(t), NEW s \in Slots,
         AcquirePage(t, s), directory' = directory, directory[id[t]] = s,
         page[<<t, out[t]>>] = NoPage, id[t] \in PageIds,
         pc[t] # "unfix_release", pc'[t] # "unfix_release"
  PROVE  PageInv'
PROOF
  <1> DEFINE g == <<t, out[t]>>
             r == [id |-> id[t], data |-> s, exclusive |-> exclusive[t]]
  <1>1. /\ g \in Handles /\ page' = [page EXCEPT ![g] = r]
        /\ exclusive[t] \in BOOLEAN
    BY DEF AcquirePage, TypeInv, TypeOK
  <1>2. r # NoPage
    BY DEF NoPage, Slots
  <1>3. page'[g] = r /\ \A h \in Handles \ {g} : page'[h] = page[h]
    BY <1>1 DEF TypeInv, TypeOK
  <1>4. \A h \in Handles : InUnfix(h)' <=> InUnfix(h)
    BY DEF InUnfix, Others
  <1>5. ~InUnfix(g)
    BY DEF InUnfix
  <1>6. PageLatches'
    <2>1. ASSUME NEW q \in Slots, q # s
          PROVE  CountsHolders(page_latch[q], Readers(q), Writers(q))'
      <3>1. Readers(q)' = Readers(q) /\ Writers(q)' = Writers(q)
        BY <1>3, <2>1 DEF Readers, Writers, Fixed
      <3>2. page_latch'[q] = page_latch[q]
        BY <2>1 DEF AcquirePage, TypeInv, TypeOK
      <3>3. QED
        BY <3>1, <3>2 DEF PageInv, PageLatches
    <2>2. CountsHolders(page_latch[s], Readers(s), Writers(s))'
      <3>1. /\ Readers(s)' = IF exclusive[t] THEN Readers(s)
                             ELSE Readers(s) \cup {g}
            /\ Writers(s)' = IF exclusive[t] THEN Writers(s) \cup {g}
                             ELSE Writers(s)
            /\ g \notin Readers(s) /\ g \notin Writers(s)
        BY <1>1, <1>2, <1>3 DEF Readers, Writers, Fixed
      <3>2. /\ page_latch[s] \in Int
            /\ page_latch'[s] = Acquired(page_latch[s], exclusive[t])
            /\ CanAcquire(page_latch[s], exclusive[t])
        BY DEF AcquirePage, TypeInv, TypeOK
      <3>3. CountsHolders(page_latch[s], Readers(s), Writers(s))
        BY DEF PageInv, PageLatches
      <3>4. CountsHolders(Acquired(page_latch[s], exclusive[t]),
              IF exclusive[t] THEN Readers(s) ELSE Readers(s) \cup {g},
              IF exclusive[t] THEN Writers(s) \cup {g} ELSE Writers(s))
        <4>1. IsFiniteSet(Readers(s)) /\ IsFiniteSet(Writers(s))
          BY HolderSets
        <4>2. QED
          BY <1>1, <3>1, <3>2, <3>3, <4>1, CountsAcquire
      <3>5. QED
        BY <3>1, <3>2, <3>4
    <2>3. QED
      BY <2>1, <2>2 DEF PageLatches
  <1>7. /\ page_flags' = [page_flags EXCEPT ![s] =
                            IF exclusive[t] THEN @ \cup {"EXCLUSIVE"} ELSE @]
        /\ page_flags \in [Slots -> SUBSET Flags]
        /\ \A h \in Handles : page[h] # NoPage => page[h].data \in Slots
    BY DEF AcquirePage, TypeInv, TypeOK, Pages
  <1>8. WritersFlag'
    <2> SUFFICES ASSUME NEW h \in Handles, page'[h] # NoPage, ~InUnfix(h),
                        page'[h].exclusive
                 PROVE  "EXCLUSIVE" \in page_flags'[page'[h].data]
      BY <1>4 DEF WritersFlag, Fixing
    <2>1. CASE h = g
      BY <1>3, <1>7, <2>1
    <2>2. CASE h # g
      BY <1>3, <1>7, <2>2 DEF PageInv, WritersFlag, Fixing
    <2>3. QED
      BY <2>1, <2>2
  <1>9. FlagsWriter'
    <2> SUFFICES ASSUME NEW q \in Slots, "EXCLUSIVE" \in page_flags'[q]
                 PROVE  \E h \in Handles : /\ page'[h] # NoPage /\ ~InUnfix(h)
                                           /\ page'[h].data = q
                                           /\ page'[h].exclusive
      BY <1>4 DEF FlagsWriter, Fixing
    <2>1. CASE q = s /\ exclusive[t]
      BY <1>1, <1>2, <1>3, <1>5, <2>1
    <2>2. CASE ~(q = s /\ exclusive[t])
      <3>1. "EXCLUSIVE" \in page_flags[q]
        BY <1>7, <2>2
      <3>2. PICK h \in Handles : Fixing(h) /\ page[h].data = q /\ page[h].exclusive
        BY <3>1 DEF PageInv, FlagsWriter
      <3>3. page'[h] = page[h]
        BY <1>3, <3>2 DEF Fixing
      <3>4. QED
        BY <3>2, <3>3 DEF Fixing
    <2>3. QED
      BY <2>1, <2>2
  <1>10. UnfixMode'
    <2> SUFFICES ASSUME NEW h \in Handles, page'[h] # NoPage, InUnfix(h)
                 PROVE  exclusive'[h[1]] = page'[h].exclusive
      BY <1>4 DEF UnfixMode
    <2>1. h # g /\ h[1] \in Threads \ {t}
      BY <1>5 DEF InUnfix
    <2>2. QED
      BY <1>3, <2>1 DEF Others, PageInv, UnfixMode
  <1>11. FixedInDirectory'
    BY <1>3 DEF PageInv, FixedInDirectory
  <1>12. QED
    BY <1>6, <1>8, <1>9, <1>10, <1>11 DEF PageInv

\* pager_unfix writes the flags, and remembers what they said.
LEMMA PageUnflagged ==
  ASSUME TypeInv, PageInv, NEW t \in Threads, Others(t), NEW v \in PageVars,
         UnfixFlags(t, v)
  PROVE  PageInv'
PROOF
  <1> DEFINE g == <<t, v>>
             s == page[g].data
             x == "EXCLUSIVE" \in page_flags[s]
  <1>1. /\ g \in Handles /\ page[g] # NoPage /\ pc[t] = "idle"
        /\ page' = page /\ page_latch' = page_latch /\ directory' = directory
        /\ page_flags' = [page_flags EXCEPT ![s] = UnfixStores(@)]
        /\ exclusive' = [exclusive EXCEPT ![t] = x]
        /\ pc'[t] = "unfix_release" /\ out'[t] = v
    BY DEF UnfixFlags, TypeInv, TypeOK
  <1>2. Fixing(g)
    BY <1>1 DEF Fixing, InUnfix
  <1>3. s \in Slots /\ x = page[g].exclusive
    BY <1>1, <1>2, FlagTellsMode DEF TypeInv
  <1>4. \A h \in Handles : InUnfix(h)' <=> InUnfix(h) \/ h = g
    BY <1>1 DEF InUnfix, Others
  <1>5. PageLatches'
    <2>1. \A q : Readers(q)' = Readers(q) /\ Writers(q)' = Writers(q)
      BY <1>1 DEF Readers, Writers, Fixed
    <2>2. QED
      BY <1>1, <2>1 DEF PageInv, PageLatches
  <1>6. /\ \A q \in Slots : "EXCLUSIVE" \in page_flags'[q] <=>
                              "EXCLUSIVE" \in page_flags[q] /\ ~(q = s /\ x)
        /\ \A h \in Handles : page[h] # NoPage => page[h].data \in Slots
    BY <1>1, <1>3 DEF TypeInv, TypeOK, Pages, UnfixStores
  <1>7. WritersFlag'
    <2> SUFFICES ASSUME NEW h \in Handles, Fixing(h), page[h].exclusive, h # g
                 PROVE  "EXCLUSIVE" \in page_flags'[page[h].data]
      BY <1>1, <1>4 DEF WritersFlag, Fixing
    <2>1. "EXCLUSIVE" \in page_flags[page[h].data]
      BY DEF PageInv, WritersFlag
    <2>2. ASSUME page[h].data = s, x
          PROVE  FALSE
      <3>1. g \in Writers(s) /\ h \in Fixed(s)
        BY <1>1, <1>3, <2>2 DEF Writers, Fixed, Fixing
      <3>2. QED
        BY <1>3, <3>1, PageWriterAlone
    <2>3. QED
      BY <1>6, <2>1, <2>2 DEF Fixing
  <1>8. FlagsWriter'
    <2> SUFFICES ASSUME NEW q \in Slots, "EXCLUSIVE" \in page_flags'[q]
                 PROVE  \E h \in Handles : /\ Fixing(h) /\ h # g
                                           /\ page[h].data = q
                                           /\ page[h].exclusive
      BY <1>1, <1>4 DEF FlagsWriter, Fixing
    <2>1. "EXCLUSIVE" \in page_flags[q] /\ ~(q = s /\ x)
      BY <1>6
    <2>2. PICK h \in Handles : Fixing(h) /\ page[h].data = q /\ page[h].exclusive
      BY <2>1 DEF PageInv, FlagsWriter
    <2>3. h # g
      BY <1>3, <2>1, <2>2
    <2>4. QED
      BY <2>2, <2>3
  <1>9. UnfixMode'
    <2> SUFFICES ASSUME NEW h \in Handles, page[h] # NoPage, InUnfix(h) \/ h = g
                 PROVE  exclusive'[h[1]] = page[h].exclusive
      BY <1>1, <1>4 DEF UnfixMode
    <2>1. CASE h = g
      BY <1>1, <1>3, <2>1 DEF TypeInv, TypeOK
    <2>2. CASE InUnfix(h)
      <3>1. h[1] \in Threads \ {t}
        BY <1>1, <2>2 DEF InUnfix
      <3>2. QED
        BY <2>2, <3>1 DEF Others, PageInv, UnfixMode
    <2>3. QED
      BY <2>1, <2>2
  <1>10. FixedInDirectory'
    BY <1>1 DEF PageInv, FixedInDirectory
  <1>11. QED
    BY <1>5, <1>7, <1>8, <1>9, <1>10 DEF PageInv

\* pager_unfix releases the latch in the mode it remembered.
LEMMA PageReleased ==
  ASSUME TypeInv, PageInv, NEW t \in Threads, Others(t), UnfixRelease(t),
         NEW g, g = <<t, out[t]>>, NEW s, s = page[g].data
  PROVE  PageInv' /\ ReleaseAsserted(page_latch[s], exclusive[t])
PROOF
  <1>1. /\ g \in Handles /\ pc[t] = "unfix_release" /\ pc'[t] = "idle"
        /\ page' = [page EXCEPT ![g] = NoPage]
        /\ page_latch' = [page_latch EXCEPT ![s] = Released(@, exclusive[t])]
        /\ page_flags' = page_flags /\ directory' = directory
    BY DEF UnfixRelease, Return, TypeInv, TypeOK
  <1>2. page[g] \in Pages /\ page[g] # NoPage /\ InUnfix(g)
    BY <1>1, Constants DEF TypeInv, CallsOK, InHand, InUnfix
  <1>3. s \in Slots /\ exclusive[t] = page[g].exclusive /\ exclusive[t] \in BOOLEAN
    BY <1>1, <1>2 DEF PageInv, UnfixMode, TypeInv, TypeOK, Pages
  <1>4. page'[g] = NoPage /\ \A h \in Handles \ {g} : page'[h] = page[h]
    BY <1>1 DEF TypeInv, TypeOK
  <1>5. \A h \in Handles \ {g} : InUnfix(h)' <=> InUnfix(h)
    BY <1>1 DEF InUnfix, Others
  <1>6. /\ PageLatches' /\ ReleaseAsserted(page_latch[s], exclusive[t])
    <2>1. ASSUME NEW q \in Slots, q # s
          PROVE  CountsHolders(page_latch[q], Readers(q), Writers(q))'
      <3>1. Readers(q)' = Readers(q) /\ Writers(q)' = Writers(q)
        BY <1>4, <2>1 DEF Readers, Writers, Fixed
      <3>2. page_latch'[q] = page_latch[q]
        BY <1>1, <2>1 DEF TypeInv, TypeOK
      <3>3. QED
        BY <3>1, <3>2 DEF PageInv, PageLatches
    <2>2. /\ CountsHolders(page_latch[s], Readers(s), Writers(s))'
          /\ ReleaseAsserted(page_latch[s], exclusive[t])
      <3>1. /\ Readers(s)' = Readers(s) \ {g} /\ Writers(s)' = Writers(s) \ {g}
            /\ g \in IF exclusive[t] THEN Writers(s) ELSE Readers(s)
        <4>1. Readers(s)' = Readers(s) \ {g}
          BY <1>4 DEF Readers, Fixed
        <4>2. Writers(s)' = Writers(s) \ {g}
          BY <1>4 DEF Writers, Fixed
        <4>3. g \in IF exclusive[t] THEN Writers(s) ELSE Readers(s)
          BY <1>1, <1>2, <1>3 DEF Readers, Writers, Fixed
        <4>4. QED
          BY <4>1, <4>2, <4>3
      <3>2. /\ page_latch[s] \in Int
            /\ page_latch'[s] = Released(page_latch[s], exclusive[t])
        BY <1>1, <1>3 DEF TypeInv, TypeOK
      <3>3. CountsHolders(page_latch[s], Readers(s), Writers(s))
        BY <1>3 DEF PageInv, PageLatches
      <3>4. /\ ReleaseAsserted(page_latch[s], exclusive[t])
            /\ CountsHolders(Released(page_latch[s], exclusive[t]),
                             Readers(s) \ {g}, Writers(s) \ {g})
        <4>1. IsFiniteSet(Readers(s)) /\ IsFiniteSet(Writers(s))
          BY HolderSets
        <4>2. QED
          BY <1>3, <3>1, <3>2, <3>3, <4>1, CountsRelease
      <3>5. QED
        BY <3>1, <3>2, <3>4
    <2>3. QED
      BY <2>1, <2>2 DEF PageLatches
  <1>7. WritersFlag'
    BY <1>1, <1>4, <1>5 DEF PageInv, WritersFlag, Fixing
  <1>8. FlagsWriter'
    <2> SUFFICES ASSUME NEW q \in Slots, "EXCLUSIVE" \in page_flags[q]
                 PROVE  \E h \in Handles \ {g} : /\ Fixing(h)
                                                 /\ page[h].data = q
                                                 /\ page[h].exclusive
      BY <1>1, <1>4, <1>5 DEF FlagsWriter, Fixing
    <2>1. PICK h \in Handles : Fixing(h) /\ page[h].data = q /\ page[h].exclusive
      BY DEF PageInv, FlagsWriter
    <2>2. h # g
      BY <1>2, <2>1 DEF Fixing
    <2>3. QED
      BY <2>1, <2>2
  <1>9. UnfixMode'
    <2> SUFFICES ASSUME NEW h \in Handles \ {g}, page[h] # NoPage, InUnfix(h)
                 PROVE  exclusive'[h[1]] = page[h].exclusive
      BY <1>4, <1>5 DEF UnfixMode
    <2>1. h[1] \in Threads \ {t}
      BY DEF InUnfix
    <2>2. QED
      BY <2>1 DEF Others, PageInv, UnfixMode
  <1>10. FixedInDirectory'
    BY <1>1, <1>4 DEF PageInv, FixedInDirectory
  <1>11. QED
    BY <1>6, <1>7, <1>8, <1>9, <1>10 DEF PageInv

-----------------------------------------------------------------------------
\* pager_create initialises a header nobody has fixed: its slot is its own.
LEMMA PageInit ==
  ASSUME TypeInv, RingInv, PageInv, NEW t \in Threads, Others(t),
         NEW s, s = index[t], CreateInit(t)
  PROVE  PageInv'
PROOF
  <1>1. /\ pc[t] = "create_init" /\ pc'[t] = "create_insert"
        /\ page' = page /\ directory' = directory
        /\ exclusive' = exclusive /\ out' = out
        /\ page_flags' = [page_flags EXCEPT ![s] = {}]
        /\ page_latch' = [page_latch EXCEPT ![s] = FreeLatch]
    BY DEF CreateInit, TypeInv, TypeOK
  <1>2. \A h \in Handles : page[h] # NoPage => page[h].data # s
    <2> SUFFICES ASSUME NEW h \in Handles, page[h] # NoPage, page[h].data = s
                 PROVE  FALSE
      OBVIOUS
    <2>1. page[h].id \in PageIds /\ s \in Slots
      BY DEF TypeInv, TypeOK, Pages
    <2>2. directory[page[h].id] = s
      BY DEF PageInv, FixedInDirectory
    <2>3. ring[s] = page[h].id
      BY <2>1, <2>2 DEF RingInv, DirectoryInRing, Slots
    <2>4. ring[s] = id[t] /\ directory[id[t]] = NoHeader
      BY <1>1 DEF RingInv, KnowsPage, Claiming
    <2>5. QED
      BY <2>1, <2>2, <2>3, <2>4 DEF Slots
  <1>3. \A h \in Handles : InUnfix(h)' <=> InUnfix(h)
    BY <1>1 DEF InUnfix, Others
  <1>4. PageLatches'
    <2>1. ASSUME NEW q \in Slots, q # s
          PROVE  CountsHolders(page_latch[q], Readers(q), Writers(q))'
      <3>1. Readers(q)' = Readers(q) /\ Writers(q)' = Writers(q)
        BY <1>1 DEF Readers, Writers, Fixed
      <3>2. page_latch'[q] = page_latch[q]
        BY <1>1, <2>1 DEF TypeInv, TypeOK
      <3>3. QED
        BY <3>1, <3>2 DEF PageInv, PageLatches
    <2>2. CountsHolders(page_latch[s], Readers(s), Writers(s))'
      <3>1. Readers(s)' = {} /\ Writers(s)' = {}
        BY <1>1, <1>2 DEF Readers, Writers, Fixed
      <3>2. page_latch'[s] = 0
        BY <1>1 DEF TypeInv, TypeOK, FreeLatch
      <3>3. QED
        BY <3>1, <3>2, FS_EmptySet DEF CountsHolders
    <2>3. QED
      BY <2>1, <2>2 DEF PageLatches
  <1>5. /\ page_flags'[s] = {}
        /\ \A q \in Slots \ {s} : page_flags'[q] = page_flags[q]
        /\ \A h \in Handles : page[h] # NoPage => page[h].data \in Slots \ {s}
    BY <1>1, <1>2 DEF TypeInv, TypeOK, Pages
  <1>6. WritersFlag'
    BY <1>1, <1>3, <1>5 DEF PageInv, WritersFlag, Fixing
  <1>7. FlagsWriter'
    BY <1>1, <1>3, <1>5 DEF PageInv, FlagsWriter, Fixing
  <1>8. UnfixMode' /\ FixedInDirectory'
    BY <1>1, <1>3 DEF PageInv, UnfixMode, FixedInDirectory
  <1>9. QED
    BY <1>4, <1>6, <1>7, <1>8 DEF PageInv

LEMMA PageCall ==
  ASSUME TypeInv, PageInv, NEW t \in Threads, Others(t), Call(t)
  PROVE  PageInv'
PROOF
  <1>1. PICK v \in PageVars :
          \/ \E p \in PageIds, x \in Modes : Fix(t, v, p, x)
          \/ FixNext(t, v)
          \/ UnfixFlags(t, v)
    BY DEF Call
  <1>2. CASE UnfixFlags(t, v)
    BY <1>2, PageUnflagged
  <1>3. CASE FixNext(t, v) \/ \E p \in PageIds, x \in Modes : Fix(t, v, p, x)
    <2>1. /\ page' = page /\ page_latch' = page_latch
          /\ page_flags' = page_flags /\ directory' = directory
          /\ pc[t] = "idle" /\ pc'[t] \in {"idle", "fast_latch"}
      BY <1>3 DEF Fix, FixNext, Enter, TypeInv, TypeOK
    <2>2. QED
      BY <2>1, PagesKept DEF TypeInv, TypeOK, Pages
  <1>4. QED
    BY <1>1, <1>2, <1>3

LEMMA PageLookup ==
  ASSUME TypeInv, PageInv, NEW t \in Threads, Others(t), Lookup(t)
  PROVE  PageInv'
PROOF
  <1>1. CASE FastHit(t)
    <2>1. /\ pc[t] = "fast_lookup" /\ pc'[t] = "fast_release"
          /\ AcquirePage(t, directory[id[t]]) /\ directory' = directory
          /\ directory[id[t]] # NoHeader
      BY <1>1 DEF FastHit, Found, TypeInv, TypeOK
    <2>2. id[t] \in PageIds /\ page[<<t, out[t]>>] = NoPage
      BY <2>1 DEF TypeInv, CallsOK, InHand, Filled
    <2>3. directory[id[t]] \in Slots
      BY <2>1, <2>2 DEF TypeInv, TypeOK
    <2>4. QED
      BY <2>1, <2>2, <2>3, PageTaken
  <1>2. CASE FastLatch(t) \/ FastMiss(t) \/ FastRelease(t)
    <2>1. /\ page' = page /\ page_latch' = page_latch
          /\ page_flags' = page_flags /\ directory' = directory
          /\ pc[t] # "unfix_release" /\ pc'[t] # "unfix_release"
      BY <1>2 DEF FastLatch, FastMiss, FastRelease, Return, TypeInv, TypeOK
    <2>2. QED
      BY <2>1, PagesKept DEF TypeInv, TypeOK, Pages
  <1>3. QED
    BY <1>1, <1>2 DEF Lookup

LEMMA PageCount ==
  ASSUME TypeInv, PageInv, NEW t \in Threads, Others(t), CountPage(t)
  PROVE  PageInv'
PROOF
  <1>1. /\ page' = page /\ page_latch' = page_latch
        /\ page_flags' = page_flags /\ directory' = directory
        /\ pc[t] # "unfix_release" /\ pc'[t] # "unfix_release"
    BY DEF CountPage, LoadCount, Reserve, ReserveRetry, ReserveFull, TypeInv,
           TypeOK
  <1>2. QED
    BY <1>1, PagesKept DEF TypeInv, TypeOK, Pages

\* The victim is unfixed, and stays so while its entry is latched.
LEMMA PageEvict ==
  ASSUME TypeInv, RingInv, PageInv, NEW t \in Threads, Others(t), Evict(t)
  PROVE  PageInv'
PROOF
  <1>1. CASE EvictFree(t)
    <2>1. /\ page' = page /\ page_latch' = page_latch
          /\ page_flags' = page_flags
          /\ directory' = [directory EXCEPT ![ring[index[t]]] = NoHeader]
          /\ pc[t] = "evict_header" /\ pc'[t] = "evict_release"
          /\ Unfixed(index[t]) /\ index[t] \in Slots
      BY <1>1 DEF EvictFree, TypeInv, TypeOK
    <2>2. Fixed(index[t]) = {} /\ directory[ring[index[t]]] = index[t]
      BY <2>1, PageFree DEF RingInv, KnowsPage
    <2>3. \A h \in Handles : page[h] # NoPage =>
            /\ page[h].data \in Slots
            /\ directory'[page[h].id] = directory[page[h].id]
      BY <2>1, <2>2
         DEF Fixed, PageInv, FixedInDirectory, TypeInv, TypeOK, Pages
    <2>4. QED
      BY <2>1, <2>3, PagesKept
  <1>2. CASE SecondChance(t)
    <2>1. /\ page' = page /\ page_latch' = page_latch /\ directory' = directory
          /\ page_flags' = [page_flags EXCEPT ![index[t]] = ClearRef(@)]
          /\ pc[t] = "evict_header" /\ pc'[t] = "evict"
      BY <1>2 DEF SecondChance, NextProbe, TypeInv, TypeOK
    <2>2. \A s \in Slots :
            "EXCLUSIVE" \in page_flags'[s] <=> "EXCLUSIVE" \in page_flags[s]
      BY <2>1 DEF ClearRef, TypeInv, TypeOK
    <2>3. QED
      BY <2>1, <2>2, PagesKept DEF TypeInv, TypeOK, Pages
  <1>3. CASE \/ Probe(t) \/ EvictFail(t) \/ EvictLoad(t) \/ EvictLatch(t)
             \/ EvictConfirm(t) \/ EvictStale(t) \/ EvictSkipFixed(t)
             \/ EvictRelease(t)
    <2>1. /\ page' = page /\ page_latch' = page_latch
          /\ page_flags' = page_flags /\ directory' = directory
          /\ pc[t] # "unfix_release" /\ pc'[t] # "unfix_release"
      BY <1>3 DEF Probe, EvictFail, EvictLoad, EvictLatch, EvictConfirm,
                  EvictStale, EvictSkipFixed, EvictRelease, TakeVictim,
                  NextProbe, Return, TypeInv, TypeOK
    <2>2. QED
      BY <2>1, PagesKept DEF TypeInv, TypeOK, Pages
  <1>4. QED
    BY <1>1, <1>2, <1>3 DEF Evict

LEMMA PageSlow ==
  ASSUME TypeInv, PageInv, NEW t \in Threads, Others(t), SlowLookup(t)
  PROVE  PageInv'
PROOF
  <1>1. CASE SlowHit(t)
    <2>1. /\ pc[t] = "slow_lookup" /\ pc'[t] = "slow_undo"
          /\ AcquirePage(t, directory[id[t]]) /\ directory' = directory
          /\ directory[id[t]] # NoHeader
      BY <1>1 DEF SlowHit, Found, TypeInv, TypeOK
    <2>2. id[t] \in PageIds /\ page[<<t, out[t]>>] = NoPage
      BY <2>1 DEF TypeInv, CallsOK, InHand, Filled
    <2>3. directory[id[t]] \in Slots
      BY <2>1, <2>2 DEF TypeInv, TypeOK
    <2>4. QED
      BY <2>1, <2>2, <2>3, PageTaken
  <1>2. CASE SlowLatch(t) \/ SlowMiss(t) \/ Uncount(t) \/ FixRelease(t)
    <2>1. /\ page' = page /\ page_latch' = page_latch
          /\ page_flags' = page_flags /\ directory' = directory
          /\ pc[t] # "unfix_release" /\ pc'[t] # "unfix_release"
      BY <1>2 DEF SlowLatch, SlowMiss, Uncount, FixRelease, Return, TypeInv,
                  TypeOK
    <2>2. QED
      BY <2>1, PagesKept DEF TypeInv, TypeOK, Pages
  <1>3. QED
    BY <1>1, <1>2 DEF SlowLookup

\* The page that is inserted was nowhere in the directory, so nobody had it.
LEMMA PageCreate ==
  ASSUME TypeInv, RingInv, PageInv, NEW t \in Threads, Others(t), Create(t)
  PROVE  PageInv'
PROOF
  <1>1. CASE CreateInsert(t)
    <2>1. /\ page' = page /\ page_latch' = page_latch
          /\ page_flags' = page_flags
          /\ directory' = [directory EXCEPT ![id[t]] = index[t]]
          /\ pc[t] = "create_insert" /\ pc'[t] = "create_page"
      BY <1>1 DEF CreateInsert, TypeInv, TypeOK
    <2>2. directory[id[t]] = NoHeader
      BY <2>1 DEF RingInv, KnowsPage, Claiming
    <2>3. \A h \in Handles : page[h] # NoPage =>
            /\ page[h].data \in Slots /\ page[h].id \in PageIds
            /\ directory[page[h].id] = page[h].data
      BY DEF PageInv, FixedInDirectory, TypeInv, TypeOK, Pages
    <2>4. \A h \in Handles : page[h] # NoPage =>
            directory'[page[h].id] = directory[page[h].id]
      <3>1. \A h \in Handles : page[h] # NoPage => page[h].id # id[t]
        BY <2>2, <2>3 DEF Slots
      <3>2. \A p \in PageIds \ {id[t]} : directory'[p] = directory[p]
        BY <2>1 DEF TypeInv, TypeOK
      <3>3. QED
        BY <2>3, <3>1, <3>2
    <2>5. QED
      BY <2>1, <2>3, <2>4, PagesKept
  <1>2. CASE CreatePage(t)
    <2>1. /\ pc[t] = "create_page" /\ pc'[t] = "fix_release"
          /\ AcquirePage(t, index[t]) /\ directory' = directory
      BY <1>2 DEF CreatePage, TypeInv, TypeOK
    <2>2. id[t] \in PageIds /\ page[<<t, out[t]>>] = NoPage
      BY <2>1 DEF TypeInv, CallsOK, InHand, Filled
    <2>3. index[t] \in Slots /\ directory[id[t]] = index[t]
      BY <2>1 DEF TypeInv, TypeOK, RingInv, KnowsPage
    <2>4. QED
      BY <2>1, <2>2, <2>3, PageTaken
  <1>3. CASE \/ CreateProbe(t) \/ CreateClaim(t) \/ CreateSkip(t)
             \/ CreateInitFail(t) \/ CreateInsertFail(t)
    <2>1. /\ page' = page /\ page_latch' = page_latch
          /\ page_flags' = page_flags /\ directory' = directory
          /\ pc[t] # "unfix_release" /\ pc'[t] # "unfix_release"
      BY <1>3 DEF CreateProbe, CreateClaim, CreateSkip, CreateInitFail,
                  CreateInsertFail, TypeInv, TypeOK
    <2>2. QED
      BY <2>1, PagesKept DEF TypeInv, TypeOK, Pages
  <1>4. QED
    BY <1>1, <1>2, <1>3, PageInit DEF Create

LEMMA PageNext ==
  TypeInv /\ RingInv /\ PageInv /\ [Next]_vars => PageInv'
PROOF
  <1> SUFFICES ASSUME TypeInv, RingInv, PageInv, [Next]_vars
               PROVE  PageInv'
    OBVIOUS
  <1>1. ASSUME NEW t \in Threads, Call(t) \/ Step(t)
        PROVE  PageInv'
    <2>1. Others(t)
      BY <1>1, OthersStep DEF TypeInv
    <2>2. QED
      BY <1>1, <2>1, PageCall, PageLookup, PageCount, PageEvict, PageSlow,
         PageCreate, PageReleased DEF Step
  <1>2. CASE UNCHANGED vars
    <2>1. \A s : Readers(s)' = Readers(s) /\ Writers(s)' = Writers(s)
      BY <1>2 DEF vars, Readers, Writers, Fixed
    <2>2. \A h : (InUnfix(h)' <=> InUnfix(h)) /\ (Fixing(h)' <=> Fixing(h))
      BY <1>2 DEF vars, InUnfix, Fixing
    <2>3. PageLatches'
      BY <1>2, <2>1 DEF vars, PageInv, PageLatches
    <2>4. WritersFlag' /\ FlagsWriter' /\ UnfixMode' /\ FixedInDirectory'
      BY <1>2, <2>2 DEF vars, PageInv, WritersFlag, FlagsWriter, UnfixMode,
                        FixedInDirectory
    <2>5. QED
      BY <2>3, <2>4 DEF PageInv
  <1>3. QED
    BY <1>1, <1>2 DEF Next

LEMMA PageInvariance == Spec => []PageInv
PROOF
  <1>1. ASSUME Init
        PROVE  PageInv
    <2>1. \A h \in Handles : page[h] = NoPage
      BY <1>1 DEF Init
    <2>2. \A s : Readers(s) = {} /\ Writers(s) = {}
      BY <2>1 DEF Readers, Writers, Fixed
    <2>3. PageLatches
      <3>1. Cardinality({}) = 0 /\ \A s \in Slots : page_latch[s] = 0
        BY <1>1, FS_EmptySet DEF Init, FreeLatch
      <3>2. QED
        BY <2>2, <3>1 DEF PageLatches, CountsHolders
    <2>4. WritersFlag /\ FlagsWriter /\ UnfixMode /\ FixedInDirectory
      BY <1>1, <2>1 DEF Init, WritersFlag, FlagsWriter, UnfixMode,
                        FixedInDirectory, Fixing
    <2>5. QED
      BY <2>3, <2>4 DEF PageInv
  <1>2. Spec => []RingInv
    BY RingInvariance
  <1>3. QED
    BY <1>1, <1>2, PageNext, TypeInvariance, PTL DEF Spec

-----------------------------------------------------------------------------
(***************************************************************************)
(* Every latch word counts exactly those that hold the latch, which is     *)
(* what the assertions of the release functions and latch_available rely   *)
(* on: a header is used again only after the last page_t let go of it.     *)
(***************************************************************************)
THEOREM LatchesExact == Spec => []LatchesCountHolders
PROOF
  <1>1. EntryLatches /\ PageInv => LatchesCountHolders
    BY DEF EntryLatches, PageInv, PageLatches, Readers, Writers,
           LatchesCountHolders
  <1>2. QED
    BY <1>1, EntryInvariance, PageInvariance, PTL

(***************************************************************************)
(* pager_evict and pager_create never take a fixed page's header away,     *)
(* whatever slot and page id they read before they had its latch.          *)
(***************************************************************************)
THEOREM FixedStay == Spec => []FixedPagesStay
PROOF
  <1>1. TypeInv /\ RingInv /\ PageInv => FixedPagesStay
    BY DEF TypeInv, TypeOK, Pages, Slots, RingInv, DirectoryInRing, PageInv,
           FixedInDirectory, FixedPagesStay
  <1>2. QED
    BY <1>1, TypeInvariance, RingInvariance, PageInvariance, PTL

(***************************************************************************)
(* pager_unfix releases a page in the mode it was fixed with, though it    *)
(* reads the mode off flags that other threads write too.                  *)
(***************************************************************************)
THEOREM ModeKnown == Spec => []UnfixKnowsMode
PROOF
  <1>1. TypeInv /\ PageInv => UnfixKnowsMode
    <2> SUFFICES ASSUME TypeInv, PageInv, NEW h \in Handles, page[h] # NoPage
                 PROVE  IF InUnfix(h)
                          THEN exclusive[h[1]] = page[h].exclusive
                          ELSE ("EXCLUSIVE" \in page_flags[page[h].data])
                                 = page[h].exclusive
      BY DEF UnfixKnowsMode, InUnfix
    <2>1. CASE InUnfix(h)
      BY <2>1 DEF PageInv, UnfixMode
    <2>2. CASE ~InUnfix(h)
      BY <2>2, FlagTellsMode DEF Fixing, TypeInv
    <2>3. QED
      BY <2>1, <2>2
  <1>2. QED
    BY <1>1, TypeInvariance, PageInvariance, PTL

-----------------------------------------------------------------------------
Reserving == {"evict_release", "slow_latch", "slow_lookup", "slow_undo",
              "create", "create_claim", "undo"}

LEMMA CountedSets ==
  /\ IsFiniteSet(Slots) /\ Cardinality(Slots) = Size
  /\ Resident \subseteq Slots
  /\ IsFiniteSet(Resident) /\ Cardinality(Resident) \in Nat
  /\ IsFiniteSet(Reservers) /\ Cardinality(Reservers) \in Nat
PROOF
  <1>1. IsFiniteSet(Slots) /\ Cardinality(Slots) = Size
    BY FS_Interval, PagerAssumption DEF Slots
  <1>2. Resident \subseteq Slots /\ Reservers \subseteq Threads
    BY DEF Resident, Reservers
  <1>3. IsFiniteSet(Resident) /\ IsFiniteSet(Reservers)
    BY <1>1, <1>2, FS_Subset, PagerAssumption
  <1>4. QED
    BY <1>1, <1>2, <1>3, FS_CardinalityType

\* The two sets after a step of t, which only moves itself and its slot.
LEMMA ReserversStep ==
  ASSUME NEW t \in Threads, Others(t)
  PROVE  /\ (pc[t] \in Reserving <=> pc'[t] \in Reserving) =>
              Reservers' = Reservers
         /\ pc[t] \notin Reserving /\ pc'[t] \in Reserving =>
              Cardinality(Reservers') = Cardinality(Reservers) + 1
         /\ pc[t] \in Reserving /\ pc'[t] \notin Reserving =>
              Cardinality(Reservers') = Cardinality(Reservers) - 1
PROOF
  <1>1. /\ Reservers = {u \in Threads : pc[u] \in Reserving}
        /\ Reservers' = {u \in Threads : pc'[u] \in Reserving}
    BY DEF Reservers, Reserving
  <1>2. \A u \in Threads \ {t} : pc'[u] = pc[u]
    BY DEF Others
  <1>3. ASSUME pc[t] \notin Reserving, pc'[t] \in Reserving
        PROVE  Cardinality(Reservers') = Cardinality(Reservers) + 1
    <2>1. Reservers' = Reservers \cup {t} /\ t \notin Reservers
      BY <1>1, <1>2, <1>3
    <2>2. QED
      BY <2>1, CountedSets, FS_AddElement
  <1>4. ASSUME pc[t] \in Reserving, pc'[t] \notin Reserving
        PROVE  Cardinality(Reservers') = Cardinality(Reservers) - 1
    <2>1. Reservers' = Reservers \ {t} /\ t \in Reservers
      BY <1>1, <1>2, <1>4
    <2>2. QED
      BY <2>1, CountedSets, FS_RemoveElement
  <1>5. QED
    BY <1>1, <1>2, <1>3, <1>4

LEMMA SlotTaken ==
  ASSUME TypeOK, NEW s \in Slots, NEW p \in PageIds, ring[s] = 0,
         ring' = [ring EXCEPT ![s] = p]
  PROVE  Cardinality(Resident') = Cardinality(Resident) + 1
PROOF
  <1>1. Resident' = Resident \cup {s} /\ s \notin Resident
    BY DEF Resident, TypeOK, PageIds
  <1>2. QED
    BY <1>1, CountedSets, FS_AddElement

LEMMA SlotGivenUp ==
  ASSUME TypeOK, NEW s \in Slots, ring[s] # 0,
         ring' = [ring EXCEPT ![s] = 0]
  PROVE  Cardinality(Resident') = Cardinality(Resident) - 1
PROOF
  <1>1. Resident' = Resident \ {s} /\ s \in Resident
    BY DEF Resident, TypeOK
  <1>2. QED
    BY <1>1, CountedSets, FS_RemoveElement

-----------------------------------------------------------------------------
\* A step that counts nothing, and takes and gives no slot.
LEMMA CountKept ==
  ASSUME CountAccounting, NEW t \in Threads, Others(t),
         page_count' = page_count, ring' = ring,
         pc[t] \in Reserving <=> pc'[t] \in Reserving
  PROVE  CountAccounting'
PROOF
  <1>1. Resident' = Resident
    BY DEF Resident
  <1>2. QED
    BY <1>1, ReserversStep DEF CountAccounting

LEMMA CountCall ==
  ASSUME TypeOK, CountAccounting, NEW t \in Threads, Others(t),
         Call(t) \/ UnfixRelease(t) \/ Lookup(t)
  PROVE  CountAccounting'
PROOF
  <1>1. /\ page_count' = page_count /\ ring' = ring
        /\ pc[t] \in {"idle", "unfix_release", "fast_latch", "fast_lookup",
                      "fast_release"}
        /\ pc'[t] \in {"idle", "unfix_release", "fast_latch", "fast_lookup",
                       "fast_release", "load_count"}
    <2>1. CASE Call(t)
      BY <2>1 DEF Call, Fix, FixNext, Enter, UnfixFlags, TypeOK
    <2>2. CASE UnfixRelease(t)
      BY <2>2 DEF UnfixRelease, Return, TypeOK
    <2>3. CASE Lookup(t)
      BY <2>3 DEF Lookup, FastLatch, FastMiss, FastHit, FastRelease, AcquirePage,
                  Return, TypeOK
    <2>4. QED
      BY <2>1, <2>2, <2>3
  <1>2. QED
    BY <1>1, CountKept DEF Reserving

\* The exchange that counts a page in finds the counter below the capacity.
LEMMA CountCount ==
  ASSUME TypeOK, CountAccounting, NEW t \in Threads, Others(t), CountPage(t)
  PROVE  CountAccounting'
PROOF
  <1>1. CASE Reserve(t)
    <2>1. /\ page_count < Size - 1 /\ page_count' = page_count + 1
          /\ pc[t] \notin Reserving /\ pc'[t] \in Reserving
          /\ ring' = ring
      BY <1>1 DEF Reserve, CountUnchanged, Reserving, TypeOK
    <2>2. Resident' = Resident
      BY <2>1 DEF Resident
    <2>3. Cardinality(Reservers') = Cardinality(Reservers) + 1
      BY <2>1, ReserversStep
    <2>4. QED
      BY <2>1, <2>2, <2>3, CountedSets, PagerAssumption DEF CountAccounting
  <1>2. CASE LoadCount(t) \/ ReserveRetry(t) \/ ReserveFull(t)
    <2>1. /\ page_count' = page_count /\ ring' = ring
          /\ pc[t] \notin Reserving /\ pc'[t] \notin Reserving
      BY <1>2 DEF LoadCount, ReserveRetry, ReserveFull, Reserving, TypeOK
    <2>2. QED
      BY <2>1, CountKept
  <1>3. QED
    BY <1>1, <1>2 DEF CountPage

\* A call that evicts a page takes its place over.
LEMMA CountEvict ==
  ASSUME TypeInv, RingInv, CountAccounting, NEW t \in Threads, Others(t),
         Evict(t)
  PROVE  CountAccounting'
PROOF
  <1>1. CASE EvictFree(t)
    <2>1. /\ pc[t] = "evict_header" /\ pc'[t] = "evict_release"
          /\ page_count' = page_count
          /\ ring' = [ring EXCEPT ![index[t]] = 0]
      BY <1>1 DEF EvictFree, TypeInv, TypeOK
    <2>2. ring[index[t]] = victim[t]
      BY <2>1 DEF RingInv, KnowsPage
    <2>3. victim[t] \in PageIds
      BY <2>1 DEF TypeInv, CallsOK, InHand, EvictPhase
    <2>4. index[t] \in Slots /\ TypeOK
      BY DEF TypeInv, TypeOK
    <2>5. Cardinality(Resident') = Cardinality(Resident) - 1
      <3>1. ring[index[t]] # 0
        BY <2>2, <2>3 DEF PageIds
      <3>2. QED
        BY <2>1, <2>4, <3>1, SlotGivenUp
    <2>6. Cardinality(Reservers') = Cardinality(Reservers) + 1
      BY <2>1, ReserversStep DEF Reserving
    <2>7. QED
      BY <2>1, <2>5, <2>6, CountedSets DEF CountAccounting
  <1>2. CASE \/ Probe(t) \/ EvictFail(t) \/ EvictLoad(t) \/ EvictLatch(t)
             \/ EvictConfirm(t) \/ EvictStale(t) \/ EvictSkipFixed(t)
             \/ SecondChance(t)
    <2>1. /\ page_count' = page_count /\ ring' = ring
          /\ pc[t] \notin Reserving /\ pc'[t] \notin Reserving
      BY <1>2 DEF Probe, EvictFail, EvictLoad, EvictLatch, EvictConfirm,
                  EvictStale, EvictSkipFixed, SecondChance, TakeVictim,
                  NextProbe, Return, Reserving, TypeInv, TypeOK
    <2>2. QED
      BY <2>1, CountKept
  <1>3. CASE EvictRelease(t)
    <2>1. /\ page_count' = page_count /\ ring' = ring
          /\ pc[t] \in Reserving /\ pc'[t] \in Reserving
      BY <1>3 DEF EvictRelease, Reserving, TypeInv, TypeOK
    <2>2. QED
      BY <2>1, CountKept
  <1>4. QED
    BY <1>1, <1>2, <1>3 DEF Evict

\* A place that is not needed after all, or was in vain, is given back.
LEMMA CountSlow ==
  ASSUME TypeOK, CountAccounting, NEW t \in Threads, Others(t), SlowLookup(t)
  PROVE  CountAccounting'
PROOF
  <1>1. CASE Uncount(t)
    <2>1. /\ pc[t] \in Reserving /\ pc'[t] \notin Reserving
          /\ page_count' = page_count - 1 /\ ring' = ring
      BY <1>1 DEF Uncount, GiveBack, Reserving, TypeOK
    <2>2. Resident' = Resident
      BY <2>1 DEF Resident
    <2>3. Cardinality(Reservers') = Cardinality(Reservers) - 1
      BY <2>1, ReserversStep
    <2>4. QED
      BY <2>1, <2>2, <2>3, CountedSets, PagerAssumption DEF CountAccounting
  <1>2. CASE SlowLatch(t) \/ SlowHit(t) \/ SlowMiss(t) \/ FixRelease(t)
    <2>1. /\ page_count' = page_count /\ ring' = ring
          /\ pc[t] \in Reserving <=> pc'[t] \in Reserving
      BY <1>2 DEF SlowLatch, SlowHit, SlowMiss, FixRelease, AcquirePage, Return,
                  Reserving, TypeOK
    <2>2. QED
      BY <2>1, CountKept
  <1>3. QED
    BY <1>1, <1>2 DEF SlowLookup

\* The place becomes a slot, and a place again if the creation fails.
LEMMA CountCreate ==
  ASSUME TypeInv, RingInv, CountAccounting, NEW t \in Threads, Others(t),
         Create(t)
  PROVE  CountAccounting'
PROOF
  <1>1. index[t] \in Slots /\ TypeOK
    BY DEF TypeInv, TypeOK
  <1>2. CASE CreateClaim(t)
    <2>1. /\ pc[t] = "create_claim" /\ pc'[t] = "create_init"
          /\ page_count' = page_count /\ ring[index[t]] = 0
          /\ ring' = [ring EXCEPT ![index[t]] = id[t]]
      BY <1>2 DEF CreateClaim, TypeInv, TypeOK
    <2>2. id[t] \in PageIds
      BY <2>1 DEF TypeInv, CallsOK, InHand
    <2>3. Cardinality(Resident') = Cardinality(Resident) + 1
      BY <1>1, <2>1, <2>2, SlotTaken
    <2>4. Cardinality(Reservers') = Cardinality(Reservers) - 1
      BY <2>1, ReserversStep DEF Reserving
    <2>5. QED
      BY <2>1, <2>3, <2>4, CountedSets DEF CountAccounting
  <1>3. CASE CreateInitFail(t) \/ CreateInsertFail(t)
    <2>1. /\ pc[t] \in Claiming /\ pc'[t] = "undo"
          /\ page_count' = page_count
          /\ ring' = [ring EXCEPT ![index[t]] = 0]
      BY <1>3 DEF CreateInitFail, CreateInsertFail, Claiming, TypeInv, TypeOK
    <2>2. id[t] \in PageIds
      BY <2>1 DEF TypeInv, CallsOK, InHand, Claiming
    <2>3. ring[index[t]] # 0
      BY <2>1, <2>2 DEF RingInv, KnowsPage, PageIds
    <2>4. Cardinality(Resident') = Cardinality(Resident) - 1
      BY <1>1, <2>1, <2>3, SlotGivenUp
    <2>5. Cardinality(Reservers') = Cardinality(Reservers) + 1
      BY <2>1, ReserversStep DEF Reserving, Claiming
    <2>6. QED
      BY <2>1, <2>4, <2>5, CountedSets DEF CountAccounting
  <1>4. CASE \/ CreateProbe(t) \/ CreateSkip(t) \/ CreateInit(t)
             \/ CreateInsert(t) \/ CreatePage(t)
    <2>1. /\ page_count' = page_count /\ ring' = ring
          /\ pc[t] \in Reserving <=> pc'[t] \in Reserving
      BY <1>4 DEF CreateProbe, CreateSkip, CreateInit, CreateInsert, CreatePage,
                  AcquirePage, Reserving, TypeInv, TypeOK
    <2>2. QED
      BY <2>1, CountKept
  <1>5. QED
    BY <1>2, <1>3, <1>4 DEF Create

LEMMA CountNext ==
  TypeInv /\ RingInv /\ CountAccounting /\ [Next]_vars => CountAccounting'
PROOF
  <1> SUFFICES ASSUME TypeInv, RingInv, CountAccounting, [Next]_vars
               PROVE  CountAccounting'
    OBVIOUS
  <1>1. ASSUME NEW t \in Threads, Call(t) \/ Step(t)
        PROVE  CountAccounting'
    <2>1. Others(t) /\ TypeOK
      BY <1>1, OthersStep DEF TypeInv
    <2>2. QED
      BY <1>1, <2>1, CountCall, CountCount, CountEvict, CountSlow, CountCreate
         DEF Step
  <1>2. CASE UNCHANGED vars
    BY <1>2 DEF vars, CountAccounting, Resident, Reservers
  <1>3. QED
    BY <1>1, <1>2 DEF Next

(***************************************************************************)
(* page_count is the slots in use plus the places of the calls that have   *)
(* no slot yet, at most the capacity, through evictions that take a place  *)
(* over, second look-ups that give it back and allocations that fail.      *)
(***************************************************************************)
THEOREM CountExact == Spec => []CountAccounting
PROOF
  <1>1. ASSUME Init
        PROVE  CountAccounting
    <2>1. Resident = {} /\ Reservers = {} /\ page_count = 0
      BY <1>1 DEF Init, Resident, Reservers
    <2>2. QED
      BY <2>1, FS_EmptySet, PagerAssumption DEF CountAccounting
  <1>2. QED
    BY <1>1, CountNext, TypeInvariance, RingInvariance, PTL DEF Spec

(***************************************************************************)
(* Two slots at least are free while a thread searches for one, so the     *)
(* loop of pager_create, which has no exit of its own, has one to find.    *)
(***************************************************************************)
THEOREM SlotToFind == Spec => []CreateFindsSlot
PROOF
  <1>1. CountAccounting => CreateFindsSlot
    <2> SUFFICES ASSUME CountAccounting, NEW t \in Threads,
                        pc[t] \in {"create", "create_claim"}
                 PROVE  Cardinality(Slots \ Resident) >= 2
      BY DEF CreateFindsSlot
    <2>1. Cardinality(Reservers) >= 1
      <3>1. t \in Reservers
        BY DEF Reservers
      <3>2. Cardinality(Reservers) # 0
        BY <3>1, CountedSets, FS_EmptySet
      <3>3. QED
        BY <3>2, CountedSets
    <2>2. Cardinality(Resident) <= Size - 2
      BY <2>1, CountedSets, PagerAssumption DEF CountAccounting
    <2>3. Cardinality(Slots \ Resident) = Size - Cardinality(Resident)
      <3>1. Cardinality(Slots \ Resident)
              = Cardinality(Slots) - Cardinality(Slots \cap Resident)
        BY CountedSets, FS_Difference
      <3>2. Slots \cap Resident = Resident
        BY CountedSets
      <3>3. QED
        BY <3>1, <3>2, CountedSets
    <2>4. QED
      BY <2>2, <2>3, CountedSets, PagerAssumption
  <1>2. QED
    BY <1>1, CountExact, PTL

-----------------------------------------------------------------------------
\* Pages that have a slot each are no more than the slots in use.
LEMMA PagesFit ==
  ASSUME CountAccounting, NEW P,
         \A p \in P : p # 0 /\ \E s \in Slots : ring[s] = p
  PROVE  IsFiniteSet(P) /\ Cardinality(P) <= Size - 1
PROOF
  <1> DEFINE S == {s \in Resident : ring[s] \in P}
             f == [s \in S |-> ring[s]]
  <1>1. f \in [S -> P]
    OBVIOUS
  <1>2. \A p \in P : \E s \in S : f[s] = p
    BY DEF Resident
  <1>3. f \in Surjection(S, P)
    BY <1>1, <1>2 DEF Surjection
  <1>4. S \in SUBSET Resident
    OBVIOUS
  <1>5. IsFiniteSet(S) /\ Cardinality(S) <= Cardinality(Resident)
    BY <1>4, CountedSets, FS_Subset
  <1>6. IsFiniteSet(P) /\ Cardinality(P) <= Cardinality(S)
    BY <1>3, <1>5, FS_Surjection
  <1>7. Cardinality(S) \in Nat /\ Cardinality(P) \in Nat
    BY <1>5, <1>6, FS_CardinalityType
  <1>8. QED
    BY <1>5, <1>6, <1>7, CountedSets, PagerAssumption DEF CountAccounting

\* So are those in the directory with the one that is about to be inserted.
LEMMA RoomToInsert ==
  ASSUME TypeInv, RingInv, CountAccounting, NEW t \in Threads,
         pc[t] = "create_insert", NEW P \in SUBSET PageIds,
         \A p \in P : directory[p] # NoHeader
  PROVE  IsFiniteSet(P) /\ Cardinality(P) + 1 <= Size - 1
PROOF
  <1>1. /\ directory[id[t]] = NoHeader /\ ring[index[t]] = id[t]
        /\ index[t] \in Slots
    BY DEF RingInv, KnowsPage, Claiming, TypeInv, TypeOK
  <1>2. id[t] \in PageIds
    BY DEF TypeInv, CallsOK, InHand
  <1>3. \A p \in P : directory[p] \in Slots /\ ring[directory[p]] = p
    BY DEF RingInv, DirectoryInRing, TypeInv, TypeOK
  <1>4. \A p \in P \cup {id[t]} : p # 0 /\ \E s \in Slots : ring[s] = p
    BY <1>1, <1>2, <1>3 DEF PageIds
  <1>5. /\ IsFiniteSet(P \cup {id[t]})
        /\ Cardinality(P \cup {id[t]}) <= Size - 1
    BY <1>4, PagesFit
  <1>6. IsFiniteSet(P)
    BY <1>5, FS_Subset
  <1>7. id[t] \notin P
    BY <1>1
  <1>8. Cardinality(P \cup {id[t]}) = Cardinality(P) + 1
    BY <1>6, <1>7, FS_AddElement
  <1>9. QED
    BY <1>5, <1>6, <1>8

(***************************************************************************)
(* However many pages come and go, an entry has no more bucket_t than the  *)
(* pages kept at one time need: pager_directory_insert fills the mappings  *)
(* that removals left before it allocates.                                 *)
(***************************************************************************)
THEOREM ChainsBounded == Spec => []OverflowBounded
PROOF
  <1>1. Init => OverflowBounded
    BY DEF Init, OverflowBounded
  <1>2. TypeInv /\ RingInv /\ CountAccounting /\ OverflowBounded /\ [Next]_vars
          => OverflowBounded'
    <2> SUFFICES ASSUME TypeInv, RingInv, CountAccounting, OverflowBounded,
                        [Next]_vars
                 PROVE  OverflowBounded'
      OBVIOUS
    <2>1. ASSUME NEW t \in Threads, CreateInsert(t)
          PROVE  OverflowBounded'
      <3> SUFFICES ASSUME NEW b \in Buckets, overflow'[b] > 0
                   PROVE  EntrySlots + overflow'[b] <= Size - 1
        BY DEF OverflowBounded
      <3>1. CASE overflow'[b] = overflow[b]
        BY <3>1 DEF OverflowBounded
      <3>2. CASE overflow'[b] # overflow[b]
        <4>1. /\ pc[t] = "create_insert" /\ EntryFull(b)
              /\ overflow'[b] = overflow[b] + 1 /\ overflow[b] \in Nat
          BY <2>1, <3>2 DEF CreateInsert, TypeInv, TypeOK
        <4>2. Cardinality(Mapped(b)) + 1 <= Size - 1
          BY <4>1, RoomToInsert DEF Mapped
        <4>3. QED
          BY <4>1, <4>2, PagerAssumption DEF EntryFull
      <3>3. QED
        BY <3>1, <3>2
    <2>2. CASE overflow' = overflow
      BY <2>2 DEF OverflowBounded
    <2>3. ASSUME NEW t \in Threads, Call(t) \/ Step(t), ~CreateInsert(t)
          PROVE  overflow' = overflow
      <3>1. CASE Call(t) \/ Lookup(t) \/ CountPage(t) \/ UnfixRelease(t)
        BY <3>1 DEF Call, Fix, FixNext, UnfixFlags, Lookup, FastLatch, FastMiss,
                    FastHit, FastRelease, CountPage, LoadCount, Reserve,
                    ReserveRetry, ReserveFull, UnfixRelease
      <3>2. CASE Evict(t) \/ SlowLookup(t)
        BY <3>2 DEF Evict, Probe, EvictFail, EvictLoad, EvictLatch,
                    EvictConfirm, EvictStale, EvictSkipFixed, SecondChance,
                    EvictFree, EvictRelease, SlowLookup, SlowLatch, SlowHit,
                    SlowMiss, Uncount, FixRelease
      <3>3. CASE Create(t)
        BY <2>3, <3>3 DEF Create, CreateProbe, CreateClaim, CreateSkip,
                          CreateInit, CreateInitFail, CreateInsertFail,
                          CreatePage
      <3>4. QED
        BY <2>3, <3>1, <3>2, <3>3 DEF Step
    <2>4. QED
      BY <2>1, <2>2, <2>3 DEF Next, vars
  <1>3. QED
    BY <1>1, <1>2, TypeInvariance, RingInvariance, CountExact, PTL DEF Spec

-----------------------------------------------------------------------------
(***************************************************************************)
(* The steps of the pager that a client can tell apart, as steps of the    *)
(* bounded cache.                                                          *)
(***************************************************************************)
\* The end of pager_fix: the latch of the page lets t in.
LEMMA FixesPage ==
  ASSUME TypeInv, PageInv, NEW t \in Threads, NEW s \in Slots,
         AcquirePage(t, s), directory' = directory, directory[id[t]] = s,
         page[<<t, out[t]>>] = NoPage, id[t] \in PageIds
  PROVE  Cache!Next
PROOF
  <1>1. <<t, out[t]>> \in Handles /\ exclusive[t] \in BOOLEAN
    BY DEF TypeInv, TypeOK
  <1>2. Cache!PinnedBy(id[t]) \subseteq Fixed(s)
    BY DEF Cache!PinnedBy, Fixed, PageInv, FixedInDirectory
  <1>3. CountsHolders(page_latch[s], Readers(s), Writers(s))
    BY DEF PageInv, PageLatches
  <1>4. Cache!Compatible(id[t], exclusive[t])
    <2>1. CASE exclusive[t]
      <3>1. Unfixed(s)
        BY <2>1 DEF AcquirePage, CanAcquire, Unfixed, Available, FreeLatch
      <3>2. Fixed(s) = {}
        BY <3>1, PageFree
      <3>3. QED
        BY <1>2, <2>1, <3>2 DEF Cache!Compatible
    <2>2. CASE ~exclusive[t]
      <3>1. Writers(s) = {}
        BY <1>3, <2>2 DEF AcquirePage, CanAcquire, CountsHolders
      <3>2. QED
        BY <1>2, <2>2, <3>1 DEF Cache!Compatible, Writers
    <2>3. QED
      BY <2>1, <2>2
  <1>5. directory[id[t]] # NoHeader
    BY DEF Slots
  <1>6. Cache!Fix(<<t, out[t]>>, id[t], exclusive[t])
    BY <1>4, <1>5 DEF Cache!Fix, AcquirePage
  <1>7. QED
    BY <1>1, <1>6 DEF Cache!Next

\* pager_directory_insert is when a page is in the cache.
LEMMA LoadsPage ==
  ASSUME TypeInv, RingInv, CountAccounting, NEW t \in Threads, CreateInsert(t)
  PROVE  Cache!Next
PROOF
  <1>1. /\ pc[t] = "create_insert" /\ page' = page
        /\ directory' = [directory EXCEPT ![id[t]] = index[t]]
    BY DEF CreateInsert
  <1>2. /\ directory[id[t]] = NoHeader /\ ring[index[t]] = id[t]
        /\ index[t] \in Slots
    BY <1>1 DEF RingInv, KnowsPage, Claiming, TypeInv, TypeOK
  <1>3. id[t] \in PageIds
    BY <1>1 DEF TypeInv, CallsOK, InHand
  <1>4. \A q \in PageIds : directory[q] # index[t]
    BY <1>2 DEF RingInv, DirectoryInRing, Slots
  <1>5. Cardinality(Cache!Resident) < Size - 1
    <2>1. Cache!Resident \in SUBSET PageIds
      BY DEF Cache!Resident
    <2>2. \A p \in Cache!Resident : directory[p] # NoHeader
      BY DEF Cache!Resident
    <2>3. /\ Cardinality(Cache!Resident) + 1 <= Size - 1
          /\ Cardinality(Cache!Resident) \in Nat
      BY <1>1, <2>1, <2>2, RoomToInsert, FS_CardinalityType
    <2>4. QED
      BY <2>3, PagerAssumption
  <1>6. Cache!Load(id[t], index[t])
    <2>1. Cache!Cardinality(Cache!Resident) = Cardinality(Cache!Resident)
      BY DEF Cache!Cardinality, Cardinality
    <2>2. QED
      BY <1>1, <1>2, <1>4, <1>5, <2>1 DEF Cache!Load
  <1>7. QED
    BY <1>2, <1>3, <1>6 DEF Cache!Next

\* pager_directory_remove is when it is not any more.
LEMMA EvictsPage ==
  ASSUME TypeInv, RingInv, PageInv, NEW t \in Threads, EvictFree(t)
  PROVE  Cache!Next
PROOF
  <1>1. /\ pc[t] = "evict_header" /\ page' = page /\ Unfixed(index[t])
        /\ directory' = [directory EXCEPT ![ring[index[t]]] = NoHeader]
    BY DEF EvictFree
  <1>2. /\ ring[index[t]] = victim[t] /\ directory[victim[t]] = index[t]
        /\ index[t] \in Slots
    BY <1>1 DEF RingInv, KnowsPage, TypeInv, TypeOK
  <1>3. victim[t] \in PageIds
    BY <1>1 DEF TypeInv, CallsOK, InHand, EvictPhase
  <1>4. Fixed(index[t]) = {}
    BY <1>1, <1>2, PageFree
  <1>5. Cache!PinnedBy(victim[t]) = {}
    BY <1>2, <1>4 DEF Cache!PinnedBy, Fixed, PageInv, FixedInDirectory
  <1>6. directory[victim[t]] # NoHeader
    BY <1>2 DEF Slots
  <1>7. Cache!Evict(victim[t])
    BY <1>1, <1>2, <1>5, <1>6 DEF Cache!Evict
  <1>8. QED
    BY <1>3, <1>7 DEF Cache!Next

LEMMA UnfixesPage ==
  ASSUME TypeInv, NEW t \in Threads, UnfixRelease(t)
  PROVE  Cache!Next
PROOF
  <1> DEFINE g == <<t, out[t]>>
  <1>1. g \in Handles
    BY DEF TypeInv, TypeOK
  <1>2. page[g] # NoPage
    BY Constants DEF UnfixRelease, TypeInv, CallsOK, InHand
  <1>3. Cache!Unfix(g)
    BY <1>2 DEF UnfixRelease, Cache!Unfix
  <1>4. QED
    BY <1>1, <1>3 DEF Cache!Next

LEMMA StepRefines ==
  ASSUME TypeInv, RingInv, PageInv, CountAccounting, NEW t \in Threads,
         Call(t) \/ Step(t)
  PROVE  Cache!Next \/ UNCHANGED <<directory, page>>
PROOF
  <1>1. CASE Call(t) \/ CountPage(t)
    BY <1>1 DEF Call, Fix, FixNext, UnfixFlags, CountPage, LoadCount, Reserve,
                ReserveRetry, ReserveFull
  <1>2. CASE FastHit(t) \/ SlowHit(t)
    <2>1. /\ pc[t] \in {"fast_lookup", "slow_lookup"}
          /\ AcquirePage(t, directory[id[t]]) /\ directory' = directory
          /\ directory[id[t]] # NoHeader
      BY <1>2 DEF FastHit, SlowHit, Found
    <2>2. id[t] \in PageIds /\ page[<<t, out[t]>>] = NoPage
      BY <2>1 DEF TypeInv, CallsOK, InHand, Filled
    <2>3. directory[id[t]] \in Slots
      BY <2>1, <2>2 DEF TypeInv, TypeOK
    <2>4. QED
      BY <2>1, <2>2, <2>3, FixesPage
  <1>3. CASE CreatePage(t)
    <2>1. /\ pc[t] = "create_page" /\ AcquirePage(t, index[t])
          /\ directory' = directory
      BY <1>3 DEF CreatePage
    <2>2. id[t] \in PageIds /\ page[<<t, out[t]>>] = NoPage
      BY <2>1 DEF TypeInv, CallsOK, InHand, Filled
    <2>3. index[t] \in Slots /\ directory[id[t]] = index[t]
      BY <2>1 DEF TypeInv, TypeOK, RingInv, KnowsPage
    <2>4. QED
      BY <2>1, <2>2, <2>3, FixesPage
  <1>4. CASE \/ FastLatch(t) \/ FastMiss(t) \/ FastRelease(t) \/ SlowLatch(t)
             \/ SlowMiss(t) \/ Uncount(t) \/ FixRelease(t)
    BY <1>4 DEF FastLatch, FastMiss, FastRelease, SlowLatch, SlowMiss, Uncount,
                FixRelease
  <1>5. CASE Evict(t)
    <2>1. CASE EvictFree(t)
      BY <2>1, EvictsPage
    <2>2. CASE ~EvictFree(t)
      BY <1>5, <2>2 DEF Evict, Probe, EvictFail, EvictLoad, EvictLatch,
                        EvictConfirm, EvictStale, EvictSkipFixed, SecondChance,
                        EvictRelease
    <2>3. QED
      BY <2>1, <2>2
  <1>6. CASE Create(t) /\ ~CreateInsert(t) /\ ~CreatePage(t)
    BY <1>6 DEF Create, CreateProbe, CreateClaim, CreateSkip, CreateInit,
                CreateInitFail, CreateInsertFail
  <1>7. QED
    BY <1>1, <1>2, <1>3, <1>4, <1>5, <1>6, LoadsPage, UnfixesPage
       DEF Step, Lookup, SlowLookup, Create

(***************************************************************************)
(* The pager is the cache its header promises: pages come and go within    *)
(* the capacity, each in a frame of its own, one that is fixed stays, and  *)
(* is fixed by many readers or by one writer.                              *)
(***************************************************************************)
THEOREM CacheRefinement == Spec => ImplementsPageCache
PROOF
  <1>1. Init => Cache!Init
    BY DEF Init, Cache!Init
  <1>2. ASSUME TypeInv, RingInv, PageInv, CountAccounting, [Next]_vars
        PROVE  [Cache!Next]_<<directory, page>>
    <2>1. CASE UNCHANGED vars
      BY <2>1 DEF vars
    <2>2. QED
      BY <1>2, <2>1, StepRefines DEF Next
  <1>3. QED
    BY <1>1, <1>2, TypeInvariance, RingInvariance, PageInvariance, CountExact,
       PTL DEF Spec, Cache!Spec, ImplementsPageCache

-----------------------------------------------------------------------------
(***************************************************************************)
(* pager_evict in one thread.  Unless evict_head has wrapped since the     *)
(* loop began, the probes that are done were those of the positions in     *)
(* Looked, one after the other.  A page that could be taken away and is    *)
(* still there after its slot was looked at has lost its second chance,    *)
(* and its slot was looked at once.                                        *)
(***************************************************************************)
Probing == {"evict_load", "evict_latch", "evict_check", "evict_header"}

Begun(t) == IF pc[t] = "evict" THEN probes[t] ELSE probes[t] + 1

Looked(t) == evict_head - Begun(t) .. evict_head - Begun(t) + probes[t] - 1

OnceWithoutRef(t, s) ==
  /\ "REF" \notin page_flags[s]
  /\ \A p, q \in Looked(t) : p % Size = s /\ q % Size = s => p = q

HandInv(t) ==
  pc[t] \in Probing \cup {"evict"} /\ evict_head >= Begun(t) =>
    /\ pc[t] \in Probing => index[t] = (evict_head - 1) % Size
    /\ \A s \in Resident :
         Available(page_latch[s]) /\ (\E p \in Looked(t) : p % Size = s) =>
           OnceWithoutRef(t, s)

\* In any round of the ring every slot is met.
LEMMA RoundMeets ==
  ASSUME NEW n \in Nat, NEW s \in Slots
  PROVE  \E p \in n .. n + Size - 1 : p % Size = s
PROOF
  <1> DEFINE r == n % Size
             q == n \div Size
  <1>1. Size \in Nat \ {0} /\ s \in 0 .. Size - 1
    BY PagerAssumption DEF Slots
  <1>2. n = Size * q + r /\ q \in Nat /\ r \in 0 .. Size - 1
    BY <1>1
  <1> HIDE DEF r, q
  <1>3. ASSUME NEW k \in Nat PROVE (Size * k + s) % Size = s
    BY <1>1
  <1>4. CASE r <= s
    <2>1. Size * q + s \in n .. n + Size - 1
      BY <1>1, <1>2, <1>4
    <2>2. QED
      BY <1>2, <1>3, <2>1
  <1>5. CASE s < r
    <2>1. Size * (q + 1) = Size * q + Size /\ q + 1 \in Nat
      BY <1>1, <1>2
    <2>2. Size * q \in Nat
      BY <1>1, <1>2
    <2>3. Size * (q + 1) + s \in n .. n + Size - 1
      BY <1>1, <1>2, <1>5, <2>1, <2>2
    <2>4. QED
      BY <1>3, <2>1, <2>3
  <1>6. QED
    BY <1>1, <1>2, <1>4, <1>5

\* A step that stays at the probe, or goes on to a slot, changing no page.
LEMMA HandKept ==
  ASSUME TypeOK, NEW t \in Threads, HandInv(t), pc[t] \in Probing, pc'[t] \in Probing,
         index'[t] = index[t], probes'[t] = probes[t],
         UNCHANGED <<evict_head, ring, page_flags, page_latch>>
  PROVE  HandInv(t)'
PROOF
  <1>1. Begun(t)' = Begun(t) /\ Looked(t)' = Looked(t)
    BY DEF Begun, Looked, Probing
  <1>2. \A s : OnceWithoutRef(t, s)' <=> OnceWithoutRef(t, s)
    BY <1>1 DEF OnceWithoutRef
  <1>3. QED
    BY <1>1, <1>2 DEF HandInv, Resident, Available

\* The next slot: head and probes go on together, or the head wraps.
LEMMA HandProbe ==
  ASSUME TypeOK, NEW t \in Threads, HandInv(t), Probe(t)
  PROVE  HandInv(t)'
PROOF
  <1>1. /\ pc[t] = "evict" /\ pc'[t] = "evict_load"
        /\ index'[t] = evict_head % Size
        /\ evict_head' = (evict_head + 1) % HeadMod
        /\ probes' = probes
        /\ UNCHANGED <<ring, page_flags, page_latch>>
    BY DEF Probe, TypeOK
  <1>2. /\ evict_head \in 0 .. HeadMod - 1 /\ probes[t] \in 0 .. 2 * Size
        /\ HeadMod \in Nat \ {0} /\ Size \in Nat \ {0}
    BY PagerAssumption DEF TypeOK
  <1>3. Begun(t) = probes[t] /\ Begun(t)' = probes[t] + 1
    BY <1>1 DEF Begun
  <1>4. evict_head' = evict_head + 1 \/ evict_head' = 0
    <2>1. CASE evict_head = HeadMod - 1
      <3>1. evict_head + 1 = HeadMod
        BY <1>2, <2>1
      <3>2. HeadMod % HeadMod = 0
        BY <1>2
      <3>3. QED
        BY <1>1, <3>1, <3>2
    <2>2. CASE evict_head # HeadMod - 1
      BY <1>1, <1>2, <2>2
    <2>3. QED
      BY <2>1, <2>2
  <1> SUFFICES ASSUME evict_head' >= probes[t] + 1 PROVE HandInv(t)'
    BY <1>3 DEF HandInv
  <1>5. evict_head' = evict_head + 1 /\ evict_head >= Begun(t)
    BY <1>2, <1>3, <1>4
  <1>6. Looked(t)' = Looked(t)
    <2>1. evict_head' - Begun(t)' = evict_head - Begun(t)
      BY <1>2, <1>3, <1>5
    <2>2. probes'[t] = probes[t]
      BY <1>1
    <2>3. QED
      BY <2>1, <2>2 DEF Looked
  <1>7. index'[t] = (evict_head' - 1) % Size
    <2>1. evict_head' - 1 = evict_head
      BY <1>2, <1>5
    <2>2. QED
      BY <1>1, <2>1
  <1>8. \A s : OnceWithoutRef(t, s)' <=> OnceWithoutRef(t, s)
    BY <1>1, <1>6 DEF OnceWithoutRef
  <1>9. QED
    BY <1>1, <1>5, <1>6, <1>7, <1>8 DEF HandInv, Resident, Available

(***************************************************************************)
(* A probe that ends without a page: nothing there, a page that is fixed,  *)
(* or one that has just lost its second chance.                            *)
(***************************************************************************)
LEMMA HandGoesOn ==
  ASSUME TypeOK, NEW t \in Threads, HandInv(t), pc[t] \in Probing, ProbesLeft(t),
         NextProbe(t), UNCHANGED <<evict_head, ring, page_latch>>,
         \A s \in Slots \ {index[t]} : page_flags'[s] = page_flags[s],
         \/ index[t] \notin Resident \/ ~Available(page_latch[index[t]])
         \/ "REF" \in page_flags[index[t]] /\ "REF" \notin page_flags'[index[t]],
         page_flags'[index[t]] \subseteq page_flags[index[t]]
  PROVE  HandInv(t)'
PROOF
  <1> DEFINE here == evict_head - 1
  <1>1. /\ pc'[t] = "evict" /\ probes'[t] = probes[t] + 1
        /\ evict_head \in Nat /\ probes[t] \in Nat /\ index[t] \in Slots
        /\ pc[t] # "evict"
    BY DEF NextProbe, TypeOK, Probing
  <1>2. Begun(t) = probes[t] + 1 /\ Begun(t)' = probes[t] + 1
    BY <1>1 DEF Begun
  <1> SUFFICES ASSUME evict_head >= probes[t] + 1 PROVE HandInv(t)'
    BY <1>2 DEF HandInv
  <1>3. here % Size = index[t]
    BY <1>2 DEF HandInv
  <1>4. /\ \A p \in Looked(t)' : p \in Looked(t) \/ p = here
        /\ here \notin Looked(t)
        /\ Looked(t) \subseteq Looked(t)'
    BY <1>1, <1>2 DEF Looked
  <1> HIDE DEF here
  <1>5. ASSUME NEW s \in Resident, Available(page_latch[s]),
               NEW p \in Looked(t)', p % Size = s
        PROVE  OnceWithoutRef(t, s)'
    <2>1. CASE s = index[t]
      <3>1. "REF" \in page_flags[s] /\ "REF" \notin page_flags'[s]
        BY <1>5, <2>1
      <3>2. ~\E q \in Looked(t) : q % Size = s
        BY <1>2, <1>5, <3>1 DEF HandInv, OnceWithoutRef
      <3>3. QED
        BY <1>4, <3>1, <3>2 DEF OnceWithoutRef
    <2>2. CASE s # index[t]
      <3>1. \A q \in Looked(t)' : q % Size = s => q \in Looked(t)
        BY <1>3, <1>4, <2>2
      <3>2. OnceWithoutRef(t, s)
        BY <1>2, <1>5, <3>1 DEF HandInv
      <3>3. page_flags'[s] = page_flags[s]
        BY <2>2 DEF Resident
      <3>4. QED
        BY <3>1, <3>2, <3>3 DEF OnceWithoutRef
    <2>3. QED
      BY <2>1, <2>2
  <1>6. Resident' = Resident /\ page_latch' = page_latch
    BY DEF Resident
  <1>7. QED
    BY <1>1, <1>5, <1>6 DEF HandInv, Probing, Available

LEMMA HandTakes ==
  ASSUME TypeInv, NEW t \in Threads, HandInv(t),
         pc[t] \in {"evict_load", "evict_check"}, TakeVictim(t),
         UNCHANGED <<evict_head, ring, page_flags, page_latch>>
  PROVE  HandInv(t)'
PROOF
  <1>1. TypeOK /\ ProbesLeft(t) /\ pc[t] \in Probing
    BY DEF TypeInv, CallsOK, InHand, EvictPhase, Probing
  <1>2. CASE ring[index[t]] = 0 /\ NextProbe(t)
    BY <1>1, <1>2, HandGoesOn DEF Resident
  <1>3. CASE ~(ring[index[t]] = 0 /\ NextProbe(t))
    BY <1>1, <1>3, HandKept DEF TakeVictim, TypeOK, Probing
  <1>4. QED
    BY <1>2, <1>3

LEMMA HandStep ==
  ASSUME TypeInv, NEW t \in Threads, HandInv(t), Call(t) \/ Step(t)
  PROVE  HandInv(t)'
PROOF
  <1>0. TypeOK
    BY DEF TypeInv
  <1>1. ASSUME pc'[t] \notin Probing \cup {"evict"} PROVE HandInv(t)'
    BY <1>1 DEF HandInv
  <1>p. pc \in [Threads -> States]
    BY <1>0 DEF TypeOK
  <1>2. CASE Call(t) \/ Lookup(t) \/ SlowLookup(t) \/ Create(t) \/ UnfixRelease(t)
    <2>1. CASE Call(t)
      BY <1>p, <1>1, <2>1 DEF Probing, Call, Fix, FixNext, Enter, UnfixFlags
    <2>2. CASE Lookup(t)
      BY <1>p, <1>1, <2>2
         DEF Probing, Lookup, FastLatch, FastHit, FastMiss, FastRelease, Return
    <2>3. CASE SlowLookup(t)
      BY <1>p, <1>1, <2>3
         DEF Probing, SlowLookup, SlowLatch, SlowHit, SlowMiss, Uncount, FixRelease, Return
    <2>4. CASE Create(t)
      BY <1>p, <1>1, <2>4
         DEF Probing, Create, CreateProbe, CreateClaim, CreateSkip, CreateInit,
             CreateInitFail, CreateInsert, CreateInsertFail, CreatePage
    <2>5. CASE UnfixRelease(t)
      BY <1>p, <1>1, <2>5 DEF Probing, UnfixRelease, Return
    <2>6. QED
      BY <1>2, <2>1, <2>2, <2>3, <2>4, <2>5
  <1>3. CASE CountPage(t) /\ ~ReserveFull(t)
    BY <1>p, <1>1, <1>3
       DEF Probing, CountPage, LoadCount, Reserve, ReserveRetry
  <1>4. CASE ReserveFull(t)
    <2>1. pc'[t] = "evict" /\ probes'[t] = 0 /\ evict_head' = evict_head
          /\ evict_head \in Nat
      BY <1>0, <1>4 DEF TypeOK, ReserveFull, DropLocals
    <2>2. Looked(t)' = {}
      BY <2>1 DEF Looked, Begun
    <2>3. QED
      BY <2>1, <2>2 DEF HandInv, Probing
  <1>5. CASE Probe(t)
    BY <1>0, <1>5, HandProbe
  <1>6. CASE EvictLoad(t) \/ EvictStale(t)
    BY <1>6, HandTakes DEF EvictLoad, EvictStale
  <1>7. CASE EvictLatch(t) \/ EvictConfirm(t)
    BY <1>0, <1>7, HandKept DEF TypeOK, Probing, EvictLatch, EvictConfirm
  <1>8. CASE EvictSkipFixed(t) \/ SecondChance(t)
    <2>1. ProbesLeft(t) /\ pc[t] \in Probing /\ index[t] \in Slots
      BY <1>0, <1>8 DEF TypeInv, CallsOK, InHand, EvictPhase, Probing, EvictSkipFixed,
                        SecondChance, TypeOK
    <2>2. CASE EvictSkipFixed(t)
      BY <1>0, <2>1, <2>2, HandGoesOn DEF EvictSkipFixed, Unfixed
    <2>3. CASE SecondChance(t)
      <3>1. /\ \A s \in Slots \ {index[t]} : page_flags'[s] = page_flags[s]
            /\ "REF" \in page_flags[index[t]] /\ "REF" \notin page_flags'[index[t]]
            /\ page_flags'[index[t]] \subseteq page_flags[index[t]]
        BY <1>0, <2>1, <2>3 DEF TypeOK, SecondChance, ClearRef
      <3>2. NextProbe(t) /\ UNCHANGED <<evict_head, ring, page_latch>>
        BY <2>3 DEF SecondChance
      <3>3. QED
        BY <1>0, <2>1, <3>1, <3>2, HandGoesOn
    <2>4. QED
      BY <1>8, <2>2, <2>3
  <1>9. CASE EvictFail(t) \/ EvictFree(t) \/ EvictRelease(t)
    BY <1>p, <1>1, <1>9 DEF Probing, EvictFail, Return, EvictFree, EvictRelease
  <1>10. QED
    BY <1>2, <1>3, <1>4, <1>5, <1>6, <1>7, <1>8, <1>9 DEF Step, CountPage, Evict

\* Two rounds are over: a page that could be taken away would have been.
LEMMA HandDone ==
  ASSUME TypeOK, NEW t \in Threads, HandInv(t), EvictFail(t), ~HandWrapped(t),
         NEW s \in Resident
  PROVE  ~Available(page_latch[s])
PROOF
  <1> SUFFICES ASSUME Available(page_latch[s]) PROVE FALSE
    OBVIOUS
  <1> DEFINE first == evict_head - probes[t]
  <1>1. Size \in Nat \ {0} /\ probes[t] \in 0 .. 2 * Size /\ evict_head \in Nat
        /\ s \in Slots /\ pc[t] = "evict"
    BY PagerAssumption DEF TypeOK, EvictFail, Resident
  <1>2. probes[t] = 2 * Size /\ evict_head >= probes[t] /\ Begun(t) = probes[t]
    BY <1>1 DEF EvictFail, ProbesLeft, HandWrapped, Begun
  <1>3. first \in Nat /\ first + Size \in Nat /\ Looked(t) = first .. first + 2 * Size - 1
    BY <1>1, <1>2 DEF Looked
  <1> HIDE DEF first
  <1>4. PICK p \in first .. first + Size - 1 : p % Size = s
    BY <1>1, <1>3, RoundMeets
  <1>5. PICK q \in first + Size .. first + Size + Size - 1 : q % Size = s
    BY <1>1, <1>3, RoundMeets
  <1>6. p \in Looked(t) /\ q \in Looked(t) /\ p # q
    BY <1>1, <1>3
  <1>7. OnceWithoutRef(t, s)
    BY <1>1, <1>2, <1>4, <1>6 DEF HandInv
  <1>8. QED
    BY <1>4, <1>5, <1>6, <1>7 DEF OnceWithoutRef

(***************************************************************************)
(* One thread, without others to race with: pager_evict gives up only when *)
(* every page is fixed, wherever the hand was when it began, unless the    *)
(* hand has wrapped around meanwhile (comment of pager_evict).             *)
(***************************************************************************)
THEOREM EnomemRight ==
  ASSUME \A t, u \in Threads : t = u
  PROVE  Spec => EnomemMeansAllFixed
PROOF
  <1> DEFINE Hand == \A t \in Threads : HandInv(t)
             Right == \A t \in Threads : EvictFail(t) /\ ~HandWrapped(t) =>
                        \A s \in Resident : ~Available(page_latch[s])
  <1>1. Init => Hand
    BY DEF Init, HandInv, Probing
  <1>2. TypeInv /\ Hand /\ [Next]_vars => Hand'
    <2> SUFFICES ASSUME TypeInv, Hand, [Next]_vars, NEW t \in Threads PROVE HandInv(t)'
      OBVIOUS
    <2>1. CASE UNCHANGED vars
      BY <2>1 DEF vars, HandInv, Begun, Looked, OnceWithoutRef, Resident, Available
    <2>2. CASE Next
      BY <2>2, HandStep DEF Next
    <2>3. QED
      BY <2>1, <2>2
  <1>3. TypeInv /\ Hand /\ [Next]_vars => [Right]_vars
    BY HandDone DEF TypeInv
  <1>4. QED
    <2>1. Spec => [][Right]_vars
      <3> HIDE DEF Hand, Right
      <3>1. QED
        BY <1>1, <1>2, <1>3, TypeInvariance, PTL DEF Spec
    <2>2. QED
      BY <2>1 DEF EnomemMeansAllFixed

=============================================================================
