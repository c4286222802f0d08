------------------------------ MODULE LatchOps ------------------------------
(***************************************************************************)
(* The value of a latch_t (include/latch.h) and what one successful atomic *)
(* operation of src/latch.c does to it.  The word is 0 when the latch is   *)
(* free, -1 under a writer and n > 0 under n readers.                      *)
(*                                                                         *)
(* Latch.tla runs the compare-exchange loops around these operators;       *)
(* Pager.tla uses them as the atomic steps that Latch is shown to provide. *)
(***************************************************************************)
EXTENDS Integers

\* latch_init and the state a writer leaves behind.
FreeLatch == 0

\* Variant: a writer takes a latch another writer holds.
CanAcquireOver(value, exclusive) ==
  IF exclusive THEN value <= 0 ELSE value >= 0

\* The test of latch_acquire_read / latch_acquire_write before the exchange.
CanAcquire(value, exclusive) ==
  IF exclusive THEN value = 0 ELSE value >= 0

\* The value the compare-exchange stores.
Acquired(value, exclusive) ==
  IF exclusive THEN -1 ELSE value + 1

\* The assertions at the head of latch_release_read / latch_release_write.
ReleaseAsserted(value, exclusive) ==
  IF exclusive THEN value = -1 ELSE value > 0

\* Variant: one release function for both modes.
ReleasedOne(value, exclusive) == value - 1

\* The value after latch_release_read / latch_release_write.
Released(value, exclusive) ==
  IF exclusive THEN FreeLatch ELSE value - 1

\* latch_available
Available(value) == value = 0

=============================================================================
