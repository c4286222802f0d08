---------------------------- MODULE BTreeShared -----------------------------
(***************************************************************************)
(* The B-tree used by several threads, with the history of the one race    *)
(* the code admits to: btree->root is read before the root is latched, and *)
(* another call may split the root in between ("this needs to be           *)
(* synchronized" in btree_insert).                                         *)
(***************************************************************************)
EXTENDS BTreeProperties

VARIABLE raced  \* whether a call has begun at a page that is not the root now

SharedInit == Init /\ raced = FALSE

SharedNext ==
  /\ Next
  /\ raced' = (raced \/ \E t \in Threads :
                          /\ pc'[t] \in {"insert_root", "lookup_root"}
                          /\ page'[t] # root')

SharedSpec == SharedInit /\ [][SharedNext]_<<vars, raced>>

(***************************************************************************)
(* That race is the only one: as long as it has not happened, every key in *)
(* a leaf is found by a look-up from the root, whatever the other calls in *)
(* progress are doing (latch coupling).                                    *)
(***************************************************************************)
NoKeyLost ==
  ~raced /\ NothingLeft =>
    \A k \in Keys : Stored(k) => Contents[k] # NoValue

=============================================================================
