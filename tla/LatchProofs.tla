---------------------------- MODULE LatchProofs -----------------------------
(***************************************************************************)
(* Proofs about module Latch for any finite set of threads: the word       *)
(* counts its holders, a refusal is justified, and the loops implement     *)
(* module RWLock.                                                          *)
(***************************************************************************)
EXTENDS Latch, FiniteSetTheorems, TLAPS

(***************************************************************************)
(* What makes RefusedOnlyWhenContended inductive: a thread in the loop     *)
(* knows a word it cannot take only after the latch had it, and no word    *)
(* the latch has now is news.                                              *)
(***************************************************************************)
SeenContended ==
  \A t \in Threads : pc[t] = "acquire" =>
    /\ ~CanAcquire(value[t], exclusive[t]) => contended[t]
    /\ ~CanAcquire(latch, exclusive[t]) => contended[t]

IInv ==
  /\ TypeOK
  /\ WordCountsHolders
  /\ RefusedOnlyWhenContended
  /\ SeenContended

-----------------------------------------------------------------------------
\* The sets the word counts are finite, and no larger than Threads.
LEMMA HoldersFinite ==
  /\ IsFiniteSet(Readers) /\ IsFiniteSet(Writers)
  /\ Cardinality(Readers) \in Nat /\ Cardinality(Writers) \in Nat
  /\ Cardinality(Readers) <= Cardinality(Threads)
  /\ Cardinality(Threads) \in Nat
PROOF
  <1>1. Readers \subseteq Threads /\ Writers \subseteq Threads
    BY DEF Readers, Writers, Holders
  <1>2. QED
    BY <1>1, ThreadsAssumption, FS_Subset, FS_CardinalityType

\* A step that leaves the program counters and modes leaves the holders.
LEMMA HoldersUnchanged ==
  ASSUME UNCHANGED <<pc, exclusive>>
  PROVE  UNCHANGED <<Holders, Readers, Writers>>
PROOF BY DEF Holders, Readers, Writers

\* A thread that does not hold the latch changes neither set by what it does.
LEMMA HoldersOutside ==
  ASSUME TypeOK, NEW t \in Threads, pc[t] # "held",
         NEW s \in States, s # "held", pc' = [pc EXCEPT ![t] = s],
         \A u \in Threads \ {t} : exclusive'[u] = exclusive[u]
  PROVE  Readers' = Readers /\ Writers' = Writers
PROOF BY DEF Holders, Readers, Writers, TypeOK

\* The thread that acquires joins one of the sets.
LEMMA HoldersAcquire ==
  ASSUME TypeOK, NEW t \in Threads, pc[t] = "acquire",
         pc' = [pc EXCEPT ![t] = "held"], exclusive' = exclusive
  PROVE  /\ t \notin Readers /\ t \notin Writers
         /\ Readers' = IF exclusive[t] THEN Readers ELSE Readers \cup {t}
         /\ Writers' = IF exclusive[t] THEN Writers \cup {t} ELSE Writers
PROOF BY DEF Holders, Readers, Writers, TypeOK

\* The thread that releases leaves the set of its mode.
LEMMA HoldersRelease ==
  ASSUME TypeOK, NEW t \in Threads, pc[t] = "held",
         pc' = [pc EXCEPT ![t] = "idle"], exclusive' = exclusive
  PROVE  /\ t \in IF exclusive[t] THEN Writers ELSE Readers
         /\ Readers' = Readers \ {t}
         /\ Writers' = Writers \ {t}
         /\ t \notin IF exclusive[t] THEN Readers ELSE Writers
PROOF BY DEF Holders, Readers, Writers, TypeOK

-----------------------------------------------------------------------------
LEMMA InitInv == Init => IInv
PROOF
  <1> SUFFICES ASSUME Init PROVE IInv
    OBVIOUS
  <1>1. Readers = {} /\ Writers = {}
    BY DEF Init, Readers, Writers, Holders
  <1>2. WordCountsHolders
    BY <1>1, FS_EmptySet DEF Init, WordCountsHolders, FreeLatch
  <1>3. TypeOK
    BY HoldersFinite DEF Init, TypeOK, States, Words, FreeLatch
  <1>4. RefusedOnlyWhenContended /\ SeenContended
    BY DEF Init, RefusedOnlyWhenContended, SeenContended
  <1>5. QED
    BY <1>2, <1>3, <1>4 DEF IInv

\* What a successful exchange does to the word and to its holders.
LEMMA CasSucceedHolders ==
  ASSUME IInv, NEW t \in Threads, CasSucceed(t)
  PROVE  /\ WordCountsHolders'
         /\ latch' \in Words
         /\ IF exclusive[t]
              THEN Readers = {} /\ Writers = {} /\ Readers' = {} /\ Writers' = {t}
              ELSE /\ t \notin Readers /\ Readers' = Readers \cup {t}
                   /\ Writers = {} /\ Writers' = {}
PROOF
  <1>1. /\ t \notin Readers /\ t \notin Writers
        /\ Readers' = IF exclusive[t] THEN Readers ELSE Readers \cup {t}
        /\ Writers' = IF exclusive[t] THEN Writers \cup {t} ELSE Writers
    BY HoldersAcquire DEF CasSucceed, IInv
  <1>2. Cardinality(Readers)' <= Cardinality(Threads)
    BY <1>1, HoldersFinite, ThreadsAssumption, FS_Subset
       DEF Readers, Holders
  <1>3. CASE exclusive[t]
    <2>1. latch = 0 /\ latch' = -1
      BY <1>3 DEF CasSucceed, CanAcquire, Acquired
    <2>2. Writers = {} /\ Readers = {}
      BY <2>1, HoldersFinite, FS_EmptySet DEF IInv, WordCountsHolders
    <2>3. Cardinality({t}) = 1
      BY FS_Singleton
    <2>4. QED
      BY <1>1, <1>3, <2>1, <2>2, <2>3, HoldersFinite DEF WordCountsHolders, Words
  <1>4. CASE ~exclusive[t]
    <2>1. latch >= 0 /\ latch' = latch + 1 /\ latch \in Int
      BY <1>4 DEF CasSucceed, CanAcquire, Acquired, IInv, TypeOK, Words
    <2>2. Writers = {} /\ Cardinality(Readers) = latch
      BY <2>1 DEF IInv, WordCountsHolders
    <2>3. Cardinality(Readers \cup {t}) = latch + 1
      BY <1>1, <2>2, HoldersFinite, FS_AddElement
    <2>4. QED
      BY <1>1, <1>2, <1>4, <2>1, <2>2, <2>3, HoldersFinite
         DEF WordCountsHolders, Words
  <1>5. QED
    BY <1>3, <1>4

\* What a release does to the word and to its holders.
LEMMA ReleaseHolders ==
  ASSUME IInv, NEW t \in Threads, Release(t)
  PROVE  /\ WordCountsHolders'
         /\ latch' \in Words
         /\ t \in Readers \cup Writers
         /\ Readers' = Readers \ {t}
         /\ Writers' = Writers \ {t}
PROOF
  <1>1. /\ t \in IF exclusive[t] THEN Writers ELSE Readers
        /\ Readers' = Readers \ {t}
        /\ Writers' = Writers \ {t}
        /\ t \notin IF exclusive[t] THEN Readers ELSE Writers
    BY HoldersRelease DEF Release, IInv
  <1>2. CASE exclusive[t]
    <2>1. t \in Writers /\ latch = -1 /\ Readers = {} /\ Cardinality(Writers) = 1
      BY <1>1, <1>2 DEF IInv, WordCountsHolders
    <2>2. Cardinality(Writers \ {t}) = Cardinality(Writers) - 1
      BY <2>1, HoldersFinite, FS_RemoveElement
    <2>3. Writers' = {} /\ Readers' = {}
      BY <1>1, <2>1, <2>2, HoldersFinite, FS_RemoveElement, FS_EmptySet
    <2>4. latch' = 0
      BY <1>2 DEF Release, Released, FreeLatch
    <2>5. QED
      BY <1>1, <1>2, <2>3, <2>4, FS_EmptySet, HoldersFinite
         DEF WordCountsHolders, Words
  <1>3. CASE ~exclusive[t]
    <2>1. latch # -1 /\ Writers = {} /\ Cardinality(Readers) = latch
      BY <1>1, <1>3 DEF IInv, WordCountsHolders
    <2>2. Cardinality(Readers \ {t}) = latch - 1
      BY <1>1, <1>3, <2>1, HoldersFinite, FS_RemoveElement
    <2>3. Cardinality(Readers \ {t}) \in Nat
      BY HoldersFinite, FS_RemoveElement, FS_CardinalityType
    <2>4. latch' = latch - 1
      BY <1>3 DEF Release, Released
    <2>5. QED
      BY <1>1, <1>3, <2>1, <2>2, <2>3, <2>4, HoldersFinite
         DEF WordCountsHolders, Words
  <1>4. QED
    BY <1>2, <1>3

LEMMA NextInv == IInv /\ [Next]_vars => IInv'
PROOF
  <1> SUFFICES ASSUME IInv, [Next]_vars PROVE IInv'
    OBVIOUS
  <1>1. ASSUME NEW t \in Threads, NEW x \in BOOLEAN, NEW b \in BOOLEAN,
               Call(t, x, b)
        PROVE  IInv'
    <2>1. Readers' = Readers /\ Writers' = Writers
      BY <1>1, HoldersOutside DEF Call, IInv, States, TypeOK
    <2>2. TypeOK'
      BY <1>1, HoldersFinite DEF Call, IInv, TypeOK, States, Words
    <2>3. WordCountsHolders'
      BY <1>1, <2>1 DEF Call, IInv, WordCountsHolders
    <2>4. RefusedOnlyWhenContended' /\ SeenContended'
      <3>1. /\ value'[t] = 0 /\ exclusive'[t] = x /\ ~refused'[t]
            /\ contended'[t] = ~CanAcquire(latch, x)
            /\ latch' = latch
        BY <1>1 DEF Call, IInv, TypeOK
      <3>2. \A u \in Threads \ {t} :
              /\ value'[u] = value[u] /\ exclusive'[u] = exclusive[u]
              /\ refused'[u] = refused[u] /\ contended'[u] = contended[u]
              /\ pc'[u] = pc[u]
        BY <1>1 DEF Call, IInv, TypeOK
      <3>3. CanAcquire(0, x)
        BY DEF CanAcquire
      <3>4. RefusedOnlyWhenContended'
        BY <3>1, <3>2 DEF IInv, RefusedOnlyWhenContended
      <3>5. SeenContended'
        BY <3>1, <3>2, <3>3 DEF IInv, SeenContended
      <3>6. QED
        BY <3>4, <3>5
    <2>5. QED
      BY <2>2, <2>3, <2>4 DEF IInv
  <1>2. ASSUME NEW t \in Threads, CasSucceed(t)
        PROVE  IInv'
    <2>1. TypeOK'
      BY <1>2, CasSucceedHolders DEF CasSucceed, Observe, IInv, TypeOK, States
    <2>2. RefusedOnlyWhenContended' /\ SeenContended'
      BY <1>2 DEF CasSucceed, Observe, IInv, TypeOK, SeenContended,
                  RefusedOnlyWhenContended, CanAcquire
    <2>3. QED
      BY <1>2, <2>1, <2>2, CasSucceedHolders DEF IInv
  <1>3. ASSUME NEW t \in Threads, CasFail(t) \/ Reload(t)
        PROVE  IInv'
    <2>1. Readers' = Readers /\ Writers' = Writers
      BY <1>3, HoldersUnchanged DEF CasFail, Reload
    <2>2. TypeOK' /\ WordCountsHolders'
      BY <1>3, <2>1 DEF CasFail, Reload, IInv, TypeOK, WordCountsHolders, Words
    <2>3. RefusedOnlyWhenContended' /\ SeenContended'
      BY <1>3 DEF CasFail, Reload, IInv, TypeOK, SeenContended,
                  RefusedOnlyWhenContended
    <2>4. QED
      BY <2>2, <2>3 DEF IInv
  <1>4. ASSUME NEW t \in Threads, GiveUp(t)
        PROVE  IInv'
    <2>1. Readers' = Readers /\ Writers' = Writers
      BY <1>4, HoldersOutside DEF GiveUp, IInv, States, TypeOK
    <2>2. TypeOK' /\ WordCountsHolders'
      BY <1>4, <2>1 DEF GiveUp, IInv, TypeOK, States, WordCountsHolders, Words
    <2>3. RefusedOnlyWhenContended' /\ SeenContended'
      BY <1>4 DEF GiveUp, IInv, TypeOK, SeenContended, RefusedOnlyWhenContended
    <2>4. QED
      BY <2>2, <2>3 DEF IInv
  <1>5. ASSUME NEW t \in Threads, Release(t)
        PROVE  IInv'
    <2>1. TypeOK'
      BY <1>5, ReleaseHolders DEF Release, Observe, IInv, TypeOK, States
    <2>2. RefusedOnlyWhenContended' /\ SeenContended'
      BY <1>5 DEF Release, Observe, IInv, TypeOK, SeenContended,
                  RefusedOnlyWhenContended, CanAcquire
    <2>3. QED
      BY <1>5, <2>1, <2>2, ReleaseHolders DEF IInv
  <1>6. CASE UNCHANGED vars
    <2>1. Readers' = Readers /\ Writers' = Writers
      BY <1>6, HoldersUnchanged DEF vars
    <2>2. QED
      BY <1>6, <2>1 DEF vars, IInv, TypeOK, WordCountsHolders, Words,
           RefusedOnlyWhenContended, SeenContended
  <1>7. QED
    BY <1>1, <1>2, <1>3, <1>4, <1>5, <1>6 DEF Next, Loop

\* The inductive invariant holds of every behaviour of the latch.
THEOREM LatchInvariance == Spec => []IInv
PROOF BY InitInv, NextInv, PTL DEF Spec

\* Every variable of the latch keeps its type, its word that of a uint32_t.
THEOREM TypeCorrect == Spec => []TypeOK
PROOF
  <1>1. IInv => TypeOK
    BY DEF IInv
  <1>2. QED
    BY <1>1, LatchInvariance, PTL

(***************************************************************************)
(* The word of a latch counts its holders, through every function of       *)
(* src/latch.c and for any number of threads.                              *)
(***************************************************************************)
THEOREM WordCounts == Spec => [](TypeOK /\ WordCountsHolders)
PROOF
  <1>1. IInv => TypeOK /\ WordCountsHolders
    BY DEF IInv
  <1>2. QED
    BY <1>1, LatchInvariance, PTL

(***************************************************************************)
(* latch_try_acquire_read and latch_try_acquire_write return false only if *)
(* the latch was not available at some time of the call.                   *)
(***************************************************************************)
THEOREM RefusalJustified == Spec => []RefusedOnlyWhenContended
PROOF
  <1>1. IInv => RefusedOnlyWhenContended
    BY DEF IInv
  <1>2. QED
    BY <1>1, LatchInvariance, PTL

(***************************************************************************)
(* The compare-exchange loops of src/latch.c implement a reader-writer     *)
(* lock: mutual exclusion, and no other step than lock and unlock.         *)
(***************************************************************************)
THEOREM Refinement == Spec => ImplementsRWLock
PROOF
  <1>1. Init => Lock!Init
    BY DEF Init, Lock!Init, Readers, Writers, Holders
  <1>2. ASSUME IInv, [Next]_vars
        PROVE  [Lock!Next]_<<Readers, Writers>>
    <2>1. ASSUME NEW t \in Threads, CasSucceed(t)
          PROVE  Lock!LockShared(t) \/ Lock!LockExclusive(t)
      BY <1>2, <2>1, CasSucceedHolders DEF Lock!LockShared, Lock!LockExclusive
    <2>2. ASSUME NEW t \in Threads, Release(t)
          PROVE  Lock!Unlock(t)
      BY <1>2, <2>2, ReleaseHolders DEF Lock!Unlock
    <2>3. ASSUME NEW t \in Threads,
                 \/ \E x, b \in BOOLEAN : Call(t, x, b)
                 \/ GiveUp(t)
          PROVE  UNCHANGED <<Readers, Writers>>
      BY <1>2, <2>3, HoldersOutside DEF Call, GiveUp, IInv, States, TypeOK
    <2>4. ASSUME NEW t \in Threads, CasFail(t) \/ Reload(t)
          PROVE  UNCHANGED <<Readers, Writers>>
      BY <2>4, HoldersUnchanged DEF CasFail, Reload
    <2>5. CASE UNCHANGED vars
      BY <2>5, HoldersUnchanged DEF vars
    <2>6. QED
      BY <1>2, <2>1, <2>2, <2>3, <2>4, <2>5 DEF Next, Loop, Lock!Next
  <1>3. QED
    BY <1>1, <1>2, LatchInvariance, PTL DEF Spec, Lock!Spec, ImplementsRWLock

=============================================================================
