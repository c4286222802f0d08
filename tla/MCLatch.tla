------------------------------ MODULE MCLatch -------------------------------
(* Latch with three threads, enough for two readers and a writer to meet.  *)
EXTENDS Latch
=============================================================================
