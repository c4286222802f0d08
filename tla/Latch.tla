------------------------------- MODULE Latch --------------------------------
(***************************************************************************)
(* One reader-writer spin latch (src/latch.c) under any number of threads, *)
(* one action per atomic operation on the word.                            *)
(*                                                                         *)
(* A thread keeps the expected value of its compare-exchange in a local    *)
(* variable that starts at 0 without having been read ("optimistic         *)
(* initialization"), and the exchange is the weak one: it may fail although*)
(* the word holds the expected value.                                      *)
(***************************************************************************)
EXTENDS LatchOps, FiniteSets

CONSTANT Threads

ASSUME ThreadsAssumption == IsFiniteSet(Threads)

VARIABLES
  latch,      \* the shared word
  pc,         \* "idle", "acquire" (inside the loop) or "held"
  exclusive,  \* the mode of the thread's current call
  blocking,   \* FALSE inside latch_try_acquire_*
  value,      \* the local variable of the loop
  contended,  \* history: the latch was unavailable at some time of the call
  refused     \* history: the last try call returned false

vars == <<latch, pc, exclusive, blocking, value, contended, refused>>

States == {"idle", "acquire", "held"}

\* The values the word, and a local copy of it, can have.
Words == -1 .. Cardinality(Threads)

(***************************************************************************)
(* The type invariant.  The word is never below -1 and never counts more   *)
(* readers than there are threads.                                         *)
(***************************************************************************)
TypeOK ==
  /\ latch \in Words
  /\ pc \in [Threads -> States]
  /\ exclusive \in [Threads -> BOOLEAN]
  /\ blocking \in [Threads -> BOOLEAN]
  /\ value \in [Threads -> Words]
  /\ contended \in [Threads -> BOOLEAN]
  /\ refused \in [Threads -> BOOLEAN]

Init ==
  /\ latch = FreeLatch
  /\ pc = [t \in Threads |-> "idle"]
  /\ exclusive = [t \in Threads |-> FALSE]
  /\ blocking = [t \in Threads |-> TRUE]
  /\ value = [t \in Threads |-> 0]
  /\ contended = [t \in Threads |-> FALSE]
  /\ refused = [t \in Threads |-> FALSE]

(***************************************************************************)
(* The history variable: after a step that leaves the word at v, a call in *)
(* progress has met a latch it could not take if v is such a word.         *)
(***************************************************************************)
Observe(v) ==
  contended' = [u \in Threads |->
    contended[u] \/ (pc[u] = "acquire" /\ ~CanAcquire(v, exclusive[u]))]

\* latch_acquire_read, latch_acquire_write and their try forms are entered.
Call(t, x, b) ==
  /\ pc[t] = "idle"
  /\ pc' = [pc EXCEPT ![t] = "acquire"]
  /\ exclusive' = [exclusive EXCEPT ![t] = x]
  /\ blocking' = [blocking EXCEPT ![t] = b]
  /\ value' = [value EXCEPT ![t] = 0]
  /\ contended' = [contended EXCEPT ![t] = ~CanAcquire(latch, x)]
  /\ refused' = [refused EXCEPT ![t] = FALSE]
  /\ UNCHANGED latch

\* Variant: the word is stored without comparing it with the expected value.
CasStoreOnly(t) ==
  /\ pc[t] = "acquire"
  /\ CanAcquire(value[t], exclusive[t])
  /\ latch' = Acquired(value[t], exclusive[t])
  /\ pc' = [pc EXCEPT ![t] = "held"]
  /\ Observe(latch')
  /\ UNCHANGED <<exclusive, blocking, value, refused>>

\* The compare-exchange succeeds.
CasSucceed(t) ==
  /\ pc[t] = "acquire"
  /\ CanAcquire(value[t], exclusive[t])
  /\ latch = value[t]
  /\ latch' = Acquired(value[t], exclusive[t])
  /\ pc' = [pc EXCEPT ![t] = "held"]
  /\ Observe(latch')
  /\ UNCHANGED <<exclusive, blocking, value, refused>>

\* The compare-exchange fails, spuriously or not, and loads the word.
CasFail(t) ==
  /\ pc[t] = "acquire"
  /\ CanAcquire(value[t], exclusive[t])
  /\ value' = [value EXCEPT ![t] = latch]
  /\ UNCHANGED <<latch, pc, exclusive, blocking, contended, refused>>

\* Variant: the loop of a blocking call never loads the word again.
NoReload(t) ==
  /\ pc[t] = "acquire"
  /\ blocking[t]
  /\ ~CanAcquire(value[t], exclusive[t])
  /\ UNCHANGED vars

\* The expected value cannot be taken: a blocking call loads the word again.
Reload(t) ==
  /\ pc[t] = "acquire"
  /\ blocking[t]
  /\ ~CanAcquire(value[t], exclusive[t])
  /\ value' = [value EXCEPT ![t] = latch]
  /\ UNCHANGED <<latch, pc, exclusive, blocking, contended, refused>>

\* Variant: a try call gives up after its first failed exchange.
GiveUpEarly(t) ==
  /\ pc[t] = "acquire"
  /\ ~blocking[t]
  /\ pc' = [pc EXCEPT ![t] = "idle"]
  /\ refused' = [refused EXCEPT ![t] = TRUE]
  /\ UNCHANGED <<latch, exclusive, blocking, value, contended>>

\* The expected value cannot be taken: a try call returns false.
GiveUp(t) ==
  /\ pc[t] = "acquire"
  /\ ~blocking[t]
  /\ ~CanAcquire(value[t], exclusive[t])
  /\ pc' = [pc EXCEPT ![t] = "idle"]
  /\ refused' = [refused EXCEPT ![t] = TRUE]
  /\ UNCHANGED <<latch, exclusive, blocking, value, contended>>

\* latch_release_read and latch_release_write by the thread that holds it.
Release(t) ==
  /\ pc[t] = "held"
  /\ latch' = Released(latch, exclusive[t])
  /\ pc' = [pc EXCEPT ![t] = "idle"]
  /\ Observe(latch')
  /\ UNCHANGED <<exclusive, blocking, value, refused>>

Loop(t) == CasSucceed(t) \/ CasFail(t) \/ Reload(t) \/ GiveUp(t)

Next ==
  \E t \in Threads :
    \/ \E x, b \in BOOLEAN : Call(t, x, b)
    \/ Loop(t)
    \/ Release(t)

(***************************************************************************)
(* A running thread keeps executing its loop, a weak exchange that would   *)
(* succeed is not refused for ever, and a latch that is held is released.  *)
(* Nothing is assumed about who wins a free latch.                         *)
(***************************************************************************)
Fairness ==
  \A t \in Threads :
    /\ WF_vars(CasSucceed(t))
    /\ WF_vars(Loop(t))
    /\ WF_vars(Release(t))

Spec == Init /\ [][Next]_vars

FairSpec == Spec /\ Fairness

-----------------------------------------------------------------------------
Holders == {t \in Threads : pc[t] = "held"}
Readers == {t \in Holders : ~exclusive[t]}
Writers == {t \in Holders : exclusive[t]}

(***************************************************************************)
(* The word says exactly who holds the latch: -1 for one writer, n for n   *)
(* readers, 0 for nobody.  It is what the assertions of the two release    *)
(* functions, and latch_available, rely on.                                *)
(***************************************************************************)
WordCountsHolders ==
  IF latch = -1
    THEN Readers = {} /\ Cardinality(Writers) = 1
    ELSE Writers = {} /\ Cardinality(Readers) = latch

(***************************************************************************)
(* A try call that returned false met, at some time between its call and   *)
(* its return, a latch it could not have taken: losing an exchange to      *)
(* another reader or to a spurious failure is not reported as a refusal    *)
(* (the loops of latch_try_acquire_read and latch_try_acquire_write).      *)
(***************************************************************************)
RefusedOnlyWhenContended ==
  \A t \in Threads : refused[t] => contended[t]

(***************************************************************************)
(* The loops are free of lost wake-ups and livelock: while blocking calls  *)
(* are in progress somebody always gets the latch.  No thread is promised  *)
(* that it is the one.                                                     *)
(***************************************************************************)
SomebodyAcquires ==
  (\E t \in Threads : pc[t] = "acquire" /\ blocking[t]) ~> (Holders # {})

\* The loops implement the reader-writer lock their callers count on.
Lock == INSTANCE RWLock WITH readers <- Readers, writers <- Writers

ImplementsRWLock == Lock!Spec

=============================================================================
