------------------------------ MODULE MCVarint ------------------------------
(***************************************************************************)
(* Integers of at most four bytes, three of them with groups of two bits.  *)
(***************************************************************************)
EXTENDS Varint

=============================================================================
