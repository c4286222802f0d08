--------------------------- MODULE MCBTreeShared ----------------------------
(***************************************************************************)
(* The B-tree of MCBTree with more than one thread.                        *)
(***************************************************************************)
EXTENDS BTreeShared, MCBTree

\* Bound: nothing is promised, and nothing looked at, after the race.
BeforeTheRace == ~raced

=============================================================================
