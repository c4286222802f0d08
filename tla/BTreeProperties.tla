-------------------------- MODULE BTreeProperties ---------------------------
(***************************************************************************)
(* What makes the B-tree correct: the shape of the tree and of its leaf    *)
(* chain, the bookkeeping of the page headers and of the latches, and the  *)
(* table the tree implements.                                              *)
(***************************************************************************)
EXTENDS BTree

\* The levels below the root are no more than this: every new root takes two
\* pages, the half that was split off and itself.
Height == MaxPages \div 2

\* Where a look-up of k goes on from page p: a leaf is the end.
Down(k) == [p \in PageIds |-> IF node[p].leaf THEN p ELSE Child(node[p], k)]

\* The leaf a look-up of k from the root comes to.
LeafFor(k) ==
  LET at[d \in 0 .. Height] == IF d = 0 THEN root ELSE Down(k)[at[d - 1]]
  IN  at[Height]

\* What a look-up of k finds on page p.
Answers(k) ==
  [p \in PageIds |->
     IF Hit(node[p], k) THEN node[p].cells[FindPointer(node[p], k)].ref
                        ELSE NoValue]

Contents == [k \in Keys |-> Answers(k)[LeafFor(k)]]

(***************************************************************************)
(* A page with the keys it may hold: above low, up to high.  The link      *)
(* "right" of an inner page is a child only if its last separator is below *)
(* high: page_split leaves the sibling there in the lower half.            *)
(***************************************************************************)
Top == 1 + Max(Keys)

Parts(r) ==
  LET n == node[r.page]
      key == [i \in 0 .. Len(n.cells) |-> IF i = 0 THEN r.low ELSE n.cells[i].key]
      last == key[Len(n.cells)]
  IN  IF n.leaf THEN {}
      ELSE {[page |-> n.cells[i].ref, low |-> key[i - 1], high |-> key[i]] :
              i \in DOMAIN n.cells}
           \cup IF last < r.high
                  THEN {[page |-> n.right, low |-> last, high |-> r.high]}
                  ELSE {}

\* The tree, level by level: the root's level first.
Level(depth) ==
  LET at[d \in 0 .. Height] ==
        IF d = 0 THEN {[page |-> root, low |-> -1, high |-> Top]}
        ELSE UNION {Parts(r) : r \in at[d - 1]}
  IN  at[depth]

Ranges == UNION {Level(d) : d \in 0 .. Height}

(***************************************************************************)
(* A search tree: the keys of every page are in order and within the range *)
(* its parent has for it, and no page has two parents.                     *)
(***************************************************************************)
SearchTree ==
  LET ranges == Ranges
  IN  /\ \A r \in ranges :
           LET cells == node[r.page].cells
           IN  /\ \A i \in DOMAIN cells :
                    /\ cells[i].key \in (r.low + 1) .. r.high
                    /\ i > 1 => cells[i - 1].key < cells[i].key
      /\ \A q, r \in ranges : q.page = r.page => q = r

(***************************************************************************)
(* All leaves are at the same depth: a look-up costs the same everywhere   *)
(* (unless a split of the root ran out of memory half-way).                *)
(***************************************************************************)
SameDepth ==
  NothingLeft =>
  \A d \in 0 .. Height :
    Cardinality({node[r.page].leaf : r \in Level(d)}) <= 1

\* The pages that the links lead to from the leftmost leaf on; 0 is the end.
Chain ==
  LET at[d \in 0 .. MaxPages] ==
        IF d = 0 THEN LeafFor(Min(Keys))
        ELSE IF at[d - 1] = 0 THEN 0 ELSE node[at[d - 1]].right
  IN  at

KeysOn(p) == {node[p].cells[i].key : i \in DOMAIN node[p].cells}

(***************************************************************************)
(* The links of the leaves, from the leftmost one, visit every stored key  *)
(* in ascending order and come to an end, through splits on all levels     *)
(* (unless a split of the root ran out of memory half-way).                *)
(***************************************************************************)
ChainSorted ==
  NothingLeft =>
  LET chain == Chain
      linked == {d \in 0 .. MaxPages : chain[d] # 0}
  IN  /\ chain[MaxPages] = 0
      /\ \A d \in linked : \A i \in 2 .. Len(node[chain[d]].cells) :
           node[chain[d]].cells[i - 1].key < node[chain[d]].cells[i].key
      /\ \A d, e \in linked : d < e =>
           \A j \in KeysOn(chain[d]), k \in KeysOn(chain[e]) : j < k
      /\ UNION {KeysOn(chain[d]) : d \in linked} = {k \in Keys : Stored(k)}

(***************************************************************************)
(* data_start and free_space, kept up to date cell by cell, are what the   *)
(* cells of the page take: the bytes that page_insert_payload takes are    *)
(* always there, without page_compact.                                     *)
(***************************************************************************)
FreeSpaceExact ==
  \A p \in PageIds :
    LET n == node[p]
    IN  /\ n.start = PageSize - PayloadBytes(n.leaf, n.cells)
        /\ n.free = Space(n)

(***************************************************************************)
(* page_insert_payload always has the room it is called for: the assertion *)
(* at its beginning.                                                       *)
(***************************************************************************)
PayloadFits == fault # "assert"

\* A leaf that passed the check made before the insertion of k, which leaves
\* out the pointer to the cell, for which there is no room.
NoPointer(n, k, v) ==
  /\ n.leaf
  /\ n.free - CellBytes(TRUE, k, v) \in 0 .. PointerBytes - 1

\* A parent that passed it, and the separator of the child to be split: it was
\* made for a separator as long as k, and leaves out the pointer.
NoSeparator(n, k, child) ==
  /\ n.free >= CellBytes(FALSE, k, 0)
  /\ ~Fits(n, CellBytes(FALSE, SplitKey(child), 0))

\* What the check made on the way down leaves out for the call of t.
LeftOut(t) ==
  LET k == args[t].key
      v == args[t].value
      child == node[Child(node[page[t]], k)]
  IN  \/ pc[t] = "insert_root" /\ NoPointer(node[page[t]], k, v)
      \/ /\ pc[t] = "insert_walk"
         /\ NoPointer(child, k, v) \/ NoSeparator(node[page[t]], k, child)

(***************************************************************************)
(* Where that assertion fails it is for one of the two things that the     *)
(* check leaves out.  For the rest the check is enough: a leaf has at      *)
(* least the bytes of the key and the value to be inserted, and a parent   *)
(* those of a separator as long as the key (the assertion in               *)
(* btree_insert_walk), also when it is a page just split, or a parent that *)
(* was checked before its child was split.                                 *)
(***************************************************************************)
RoomForCells == fault = "assert" => \E t \in Threads : LeftOut(t)

(***************************************************************************)
(* Between two waits a call holds the page it stands on and no other, an   *)
(* idle thread holds none: of the pages a call fixes on its way, the       *)
(* parent, the child, the half that is split off and a new root, all but   *)
(* one are unfixed, whichever of the page_t variables names them by then.  *)
(***************************************************************************)
OnePageInHand ==
  \A p \in PageIds, t \in Threads : fixed[p] = t <=> Stands(t, p)

(***************************************************************************)
(* When no call is in progress and none has gone wrong, no page is fixed,  *)
(* as btree_close and pager_close need it.                                 *)
(***************************************************************************)
ClosableWhenIdle ==
  (\A t \in Threads : pc[t] = "idle") => \A p \in PageIds : Free(p)

(***************************************************************************)
(* Every page is unfixed by who fixed it, and once: what the assertions of *)
(* latch_release_read and latch_release_write say of the latch behind it.  *)
(***************************************************************************)
UnfixedOnce == fault # "unfix"

(***************************************************************************)
(* Latch coupling goes down the tree only: the calls in progress never all *)
(* wait for each other (unless a page has been left fixed).                *)
(***************************************************************************)
Waits(t) ==
  \/ pc[t] = "insert_root" /\ ~Free(page[t])
  \/ pc[t] = "insert_walk" /\ ~Free(Child(node[page[t]], args[t].key))
  \/ pc[t] \in {"lookup_root", "lookup_walk"} /\ ~Free(LookupTarget(t))

SomebodyDescends == NothingLeft => \E t \in Threads : ~Waits(t)

(***************************************************************************)
(* An insertion of a new key that succeeds is found from then on, a        *)
(* look-up answers what was stored (the tests of btree.c).                 *)
(***************************************************************************)
Table == INSTANCE TableMap WITH table <- Contents

ImplementsTable == Table!Spec

(***************************************************************************)
(* A key is stored once: "key already exists on leaf page" is what a       *)
(* second insertion of it fails with.                                      *)
(***************************************************************************)
KeysOnce ==
  \A p, q \in PageIds : \A i \in DOMAIN node[p].cells, j \in DOMAIN node[q].cells :
    /\ node[p].leaf /\ node[q].leaf
    /\ ~Left(p) /\ ~Left(q)
    /\ node[p].cells[i].key = node[q].cells[j].key
    => p = q /\ i = j

=============================================================================
