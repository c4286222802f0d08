------------------------------ MODULE MCPager -------------------------------
(***************************************************************************)
(* The page cache with few threads, pages and slots.  Pages 1 and 2 share  *)
(* a directory entry, page 3 has another one.                              *)
(***************************************************************************)
EXTENDS PagerProperties, TLC

MCHash == [p \in 1 .. MaxPageId |-> IF p = 3 THEN "b" ELSE "a"]

Symmetry == Permutations(Threads)

(***************************************************************************)
(* With HeadMod = Size nothing tells one slot from another but its place   *)
(* relative to the two heads: states that differ by a rotation of the ring *)
(* are the same state, seen here with create_head in slot 0.  An index     *)
(* that is not in use is left out.                                         *)
(***************************************************************************)
Turn(s) == IF s = NoHeader THEN s ELSE (s + Size - create_head) % Size
Turned(f) == [s \in Slots |-> f[(s + create_head) % Size]]

UsesIndex(t) ==
  pc[t] \in EvictPhase \cup {"evict_load", "evict_latch", "create_claim",
                             "create_init", "create_insert", "create_page"}

View ==
  <<page_count, Turn(evict_head), next_page, bucket_latch,
    [p \in PageIds |-> Turn(directory[p])], overflow, Turned(ring),
    Turned(allocated), Turned(page_flags), Turned(page_latch),
    pc, arguments, count, probes, victim,
    [t \in Threads |-> IF UsesIndex(t) THEN Turn(index[t]) ELSE 0],
    [h \in Handles |-> [page[h] EXCEPT !.data = Turn(@)]]>>

=============================================================================
