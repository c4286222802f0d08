------------------------------- MODULE RWLock -------------------------------
(***************************************************************************)
(* What a latch promises to its callers: any number of readers or a single *)
(* writer.  There is no queue and no fairness, a released latch may go to  *)
(* any thread.                                                             *)
(***************************************************************************)
CONSTANT Threads

VARIABLES
  readers,   \* the threads that hold the lock shared
  writers    \* the threads that hold it exclusively

Init ==
  /\ readers = {}
  /\ writers = {}

LockShared(t) ==
  /\ t \notin readers
  /\ writers = {}
  /\ readers' = readers \cup {t}
  /\ UNCHANGED writers

LockExclusive(t) ==
  /\ readers = {}
  /\ writers = {}
  /\ writers' = {t}
  /\ UNCHANGED readers

Unlock(t) ==
  /\ t \in readers \cup writers
  /\ readers' = readers \ {t}
  /\ writers' = writers \ {t}

Next == \E t \in Threads : LockShared(t) \/ LockExclusive(t) \/ Unlock(t)

Spec == Init /\ [][Next]_<<readers, writers>>

=============================================================================
