------------------------------- MODULE BTree --------------------------------
(***************************************************************************)
(* The B-tree of src/btree.c: table pages of sorted cells, insertion that  *)
(* splits full pages on the way down, look-up, both holding a page's       *)
(* exclusive latch until they have the child's (latch coupling).           *)
(*                                                                         *)
(* One action per wait for a latch: what a call does between two waits     *)
(* touches only pages it holds, and btree->root, which it reads or writes  *)
(* at most once there.  The bytes of a page are abstracted to its cells in *)
(* order, with the byte counts of the header kept as the code keeps them.  *)
(*                                                                         *)
(* Of the pager the model keeps what module PageCache promises: a fixed    *)
(* page stays, exclusive latches exclude.  The tree is assumed to fit the  *)
(* cache, for an evicted page's content is not kept anywhere.              *)
(***************************************************************************)
EXTENDS Integers, Sequences, FiniteSets, SequencesExt

CONSTANTS
  Threads,     \* the callers
  Keys,        \* the keys they use, natural numbers
  Values,      \* the values they store
  Offered,     \* the pairs of a key and a value they insert
  IntSize,     \* the number of values of int, 2^32 in the code
  KeyBytes,    \* the length of a key as a varint
  ValueBytes,  \* the length of a value as a blob
  PageSize,    \* btree->page_size
  MaxPages,    \* bound: the pages pager_next can make
  Reinsert,    \* whether clients insert keys that are in the tree
  Clears,      \* whether clients call error_clear after a failure
  OutOfMemory  \* whether pager_fix and pager_next may fail

PageIds == 1 .. MaxPages
NoThread == "none"
NoValue == "nothing"

HeaderBytes == 12  \* sizeof(header_t)
PointerBytes == 2  \* sizeof(uint16_t)
IdBytes == 4       \* sizeof(page_id_t)

(***************************************************************************)
(* Two cells fit a page, with room to spare for the key of a third: a page *)
(* that is split has a cell for each half.  (A page with a single cell     *)
(* would be split at 0, and its cell 65535 read for the separator.)        *)
(***************************************************************************)
ASSUME BTreeAssumption ==
  /\ Threads # {} /\ NoThread \notin Threads
  /\ NoValue \notin Values
  /\ Keys # {} /\ Keys \subseteq Nat /\ IsFiniteSet(Keys)
  /\ Offered \subseteq Keys \X Values
  /\ IntSize \in Nat \ {0} /\ IntSize % 2 = 0
  /\ KeyBytes \in [Keys -> Nat \ {0}]
  /\ ValueBytes \in [Values -> Nat \ {0}]
  /\ MaxPages \in Nat \ {0}
  /\ {Reinsert, Clears, OutOfMemory} \subseteq BOOLEAN
  /\ PageSize \in Nat
  /\ \A k \in Keys :
       /\ 2 * (KeyBytes[k] + IdBytes + PointerBytes) <= PageSize - HeaderBytes
       /\ \A v \in Values :
            2 * (KeyBytes[k] + ValueBytes[v] + PointerBytes)
              <= PageSize - HeaderBytes

VARIABLES
  node,       \* the contents of each page
  next_page,  \* the id pager_next hands out next
  root,       \* btree->root
  fixed,      \* who holds a page's latch
  pc,         \* where each call is
  args,       \* the key and the value it was called with
  page,       \* the page_t in hand: waited for by a call that begins, or held
  error,      \* whether the thread's error code is set
  answer,     \* what the last call returned
  fault       \* an assertion that failed, or a page unfixed twice

shared == <<node, next_page, root>>
vars == <<node, next_page, root, fixed, pc, args, page, error, answer, fault>>

States == {"idle", "insert_root", "insert_walk", "lookup_root", "lookup_walk"}

\* A cell maps a key to a value or, on an inner page, to the child before it.
TypeOK ==
  /\ DOMAIN node = PageIds
  /\ \A p \in PageIds :
       /\ node[p].leaf \in BOOLEAN
       /\ \A i \in DOMAIN node[p].cells :
            node[p].cells[i] \in
              [key : Keys, ref : IF node[p].leaf THEN Values ELSE PageIds]
       /\ node[p].right \in PageIds \cup {0}
       /\ node[p].start \in HeaderBytes .. PageSize
       /\ node[p].free \in 0 .. PageSize - HeaderBytes
  /\ next_page \in 1 .. MaxPages + 1
  /\ root \in PageIds
  /\ fixed \in [PageIds -> Threads \cup {NoThread}]
  /\ pc \in [Threads -> States]
  /\ args \in [Threads -> [key : Keys, value : Values \cup {NoValue}]]
  /\ page \in [Threads -> PageIds \cup {0}]
  /\ error \in [Threads -> BOOLEAN]
  /\ answer \in [Threads -> [code : {"SUCCESS", "ENOENT", "ENOMEM"},
                             value : Values \cup {NoValue}]]
  /\ fault \in {"none", "assert", "unfix"}

\* A page as the pager hands it out, and the one leaf btree_create makes.
EmptyLeaf ==
  [leaf |-> TRUE, cells |-> <<>>, right |-> 0, start |-> PageSize,
   free |-> PageSize - HeaderBytes]

AnyKey == CHOOSE k \in Keys : TRUE

Init ==
  /\ node = [p \in PageIds |-> EmptyLeaf]
  /\ next_page = 2
  /\ root = 1
  /\ fixed = [p \in PageIds |-> NoThread]
  /\ pc = [t \in Threads |-> "idle"]
  /\ args = [t \in Threads |-> [key |-> AnyKey, value |-> NoValue]]
  /\ page = [t \in Threads |-> 0]
  /\ error = [t \in Threads |-> FALSE]
  /\ answer = [t \in Threads |-> [code |-> "SUCCESS", value |-> NoValue]]
  /\ fault = "none"

-----------------------------------------------------------------------------
(***************************************************************************)
(* Pages.                                                                  *)
(***************************************************************************)
\* The difference of two keys, cut to an int.
KeyCompare(a, b) ==
  LET d == (a - b) % IntSize
  IN  IF 2 * d >= IntSize THEN d - IntSize ELSE d

\* The first cell whose key is not below k, or the place after the last one.
FindPointer(n, k) ==
  LET at == {i \in DOMAIN n.cells : KeyCompare(n.cells[i].key, k) >= 0}
  IN  IF at = {} THEN Len(n.cells) + 1 ELSE Min(at)

Hit(n, k) ==
  LET i == FindPointer(n, k)
  IN  i <= Len(n.cells) /\ KeyCompare(n.cells[i].key, k) = 0

\* The child of an inner page that covers k.
Child(n, k) ==
  LET i == FindPointer(n, k)
  IN  IF i = Len(n.cells) + 1 THEN n.right ELSE n.cells[i].ref

CellBytes(leaf, k, ref) ==
  KeyBytes[k] + IF leaf THEN ValueBytes[ref] ELSE IdBytes

PayloadBytes(leaf, cells) ==
  LET sum[i \in 0 .. Len(cells)] ==
        IF i = 0 THEN 0 ELSE sum[i - 1] + CellBytes(leaf, cells[i].key, cells[i].ref)
  IN  sum[Len(cells)]

\* page_get_space
Space(n) == n.start - HeaderBytes - PointerBytes * Len(n.cells)

\* Variant: the header of the page is forgotten.
CompactNoHeader(n) ==
  LET start == PageSize - PayloadBytes(n.leaf, n.cells)
  IN  [n EXCEPT !.start = start, !.free = start - PointerBytes * Len(n.cells)]

\* page_compact
Compact(n) ==
  LET start == PageSize - PayloadBytes(n.leaf, n.cells)
  IN  [n EXCEPT !.start = start,
                !.free = start - HeaderBytes - PointerBytes * Len(n.cells)]

\* Variant: the value is not counted.
FullForKey(n, k, v) == n.free < KeyBytes[k]

\* A page to be split on the way down.  The pointer of the cell is not counted.
Full(n, k, v) == n.free < CellBytes(n.leaf, k, v)

\* The assertion of page_insert_payload.
Fits(n, bytes) == n.free >= bytes + PointerBytes

\* Variant: the pointer to the cell takes no space.
InsertCellOnly(n, i, k, ref) ==
  LET bytes == CellBytes(n.leaf, k, ref)
  IN  [n EXCEPT !.cells = InsertAt(@, i, [key |-> k, ref |-> ref]),
                !.start = @ - bytes,
                !.free = @ - bytes]

\* page_insert_payload and the copy of key and ref into the new cell.
InsertCell(n, i, k, ref) ==
  LET bytes == CellBytes(n.leaf, k, ref)
      m == IF Space(n) < bytes + PointerBytes THEN Compact(n) ELSE n
  IN  [m EXCEPT !.cells = InsertAt(@, i, [key |-> k, ref |-> ref]),
                !.start = @ - bytes,
                !.free = @ - (bytes + PointerBytes)]

\* page_insert_leaf, for a key that is not there
InsertLeaf(n, k, v) == InsertCell(n, FindPointer(n, k), k, v)

\* Variant: the new page takes the place of the one that was split.
InsertInnerBefore(n, i, k, new) == InsertCell(n, i, k, new)

\* page_insert_inner: the page split keeps the keys up to k, new has the rest.
InsertInner(n, i, k, new) ==
  IF i = Len(n.cells) + 1
    THEN [InsertCell(n, i, k, n.right) EXCEPT !.right = new]
    ELSE [InsertCell(n, i, k, n.cells[i].ref) EXCEPT !.cells[i + 1].ref = new]

\* page_split: the lower half of the cells stays, linked to page next.
SplitAt(n) == Len(n.cells) \div 2

\* Variant: the lower half keeps its old link.
LowerKeepsLink(n, next) ==
  Compact([n EXCEPT !.cells = SubSeq(@, 1, SplitAt(n))])

Lower(n, next) ==
  Compact([n EXCEPT !.cells = SubSeq(@, 1, SplitAt(n)), !.right = next])

\* Variant: the new page stays the leaf it was handed out as.
UpperLeaf(n) ==
  [Compact([n EXCEPT !.cells = SubSeq(@, SplitAt(n) + 1, Len(@))])
     EXCEPT !.leaf = TRUE]

Upper(n) ==
  Compact([n EXCEPT !.cells = SubSeq(@, SplitAt(n) + 1, Len(@))])

SplitKey(n) == n.cells[SplitAt(n)].key

\* The new root over page p, split into p and next.
NewRoot(p, k, next) ==
  Compact([leaf |-> FALSE, cells |-> <<[key |-> k, ref |-> p]>>,
           right |-> next, start |-> 0, free |-> 0])

-----------------------------------------------------------------------------
(***************************************************************************)
(* Calls.  The clients of btree_insert and btree_lookup read btree->root   *)
(* and then wait for that page.                                            *)
(***************************************************************************)
Free(p) == fixed[p] = NoThread

\* The page a call holds between two waits.
Stands(t, p) == pc[t] \in {"insert_walk", "lookup_walk"} /\ page[t] = p

\* A latch nobody releases any more: no call of its holder has the page in hand.
Left(p) == ~Free(p) /\ ~Stands(fixed[p], p)

NothingLeft == \A p \in PageIds : ~Left(p)

\* pager_fix and pager_next; the latches are f before
Fix(f, t, p) == [f EXCEPT ![p] = t]

\* pager_unfix
Unfix(f, p) == [f EXCEPT ![p] = NoThread]

Begin(t, label, k, v) ==
  /\ fault = "none"
  /\ pc[t] = "idle"
  /\ pc' = [pc EXCEPT ![t] = label]
  /\ args' = [args EXCEPT ![t] = [key |-> k, value |-> v]]
  /\ page' = [page EXCEPT ![t] = root]
  /\ error' = [error EXCEPT ![t] = @ /\ ~Clears]
  /\ UNCHANGED <<shared, fixed, answer, fault>>

\* The call returns; a failure leaves the error code set.
Return(t, code, value) ==
  /\ pc' = [pc EXCEPT ![t] = "idle"]
  /\ args' = [args EXCEPT ![t] = [key |-> AnyKey, value |-> NoValue]]
  /\ page' = [page EXCEPT ![t] = 0]
  /\ error' = [error EXCEPT ![t] = @ \/ code # "SUCCESS"]
  /\ answer' = [answer EXCEPT ![t] = [code |-> code, value |-> value]]
  /\ UNCHANGED fault

\* An assertion fails, or a page is unfixed that the thread does not hold:
\* the program stops, or its latches mean nothing any more.
Fault(kind) ==
  /\ fault' = kind
  /\ UNCHANGED <<shared, fixed, pc, args, page, error, answer>>

Stored(k) ==
  \E p \in PageIds : /\ node[p].leaf /\ ~Left(p)
                     /\ \E i \in DOMAIN node[p].cells : node[p].cells[i].key = k

InsertCall(t, k, v) ==
  /\ Reinsert \/ ~Stored(k)
  /\ Begin(t, "insert_root", k, v)

LookupCall(t, k) == Begin(t, "lookup_root", k, NoValue)

-----------------------------------------------------------------------------
(***************************************************************************)
(* btree_insert.  Page p is held and has room: it is a leaf to insert into *)
(* or the next parent.  "nodes" are the pages as the steps before left     *)
(* them, "latches" is who holds what then, with only p in the thread's     *)
(* hand.  Once the root has been handed on, every failure ends with a      *)
(* second pager_unfix of it, by errdefer in btree_insert; and so does a    *)
(* success of a thread whose error code an earlier call left set.          *)
(***************************************************************************)
StepDown(t, p, nodes, latches) ==
  /\ ~nodes[p].leaf
  /\ node' = nodes
  /\ fixed' = latches
  /\ pc' = [pc EXCEPT ![t] = "insert_walk"]
  /\ page' = [page EXCEPT ![t] = p]
  /\ UNCHANGED <<args, error, answer, fault>>

StoreInLeaf(t, p, nodes, latches) ==
  LET k == args[t].key
      v == args[t].value
      n == nodes[p]
  IN  /\ n.leaf
      /\ ~Hit(n, k)
      /\ Fits(n, CellBytes(TRUE, k, v))
      /\ ~error[t]
      /\ node' = [nodes EXCEPT ![p] = InsertLeaf(n, k, v)]
      /\ fixed' = Unfix(latches, p)
      /\ Return(t, "SUCCESS", NoValue)

\* Page p takes the key, or leads to the page that does.
Proceed(t, p, nodes, latches) ==
  StepDown(t, p, nodes, latches) \/ StoreInLeaf(t, p, nodes, latches)

\* Page p does not: the key is there, the cell does not fit after all, or the
\* insertion succeeds but the error code of an earlier call is still set.
Stumbles(t, p, nodes) ==
  LET k == args[t].key
      n == nodes[p]
  IN  /\ n.leaf
      /\ \/ Hit(n, k) /\ Fault("unfix")
         \/ /\ ~Hit(n, k)
            /\ ~Fits(n, CellBytes(TRUE, k, args[t].value))
            /\ Fault("assert")
         \/ /\ ~Hit(n, k)
            /\ Fits(n, CellBytes(TRUE, k, args[t].value))
            /\ error[t]
            /\ Fault("unfix")

\* Variant: always in the new page.
SideNext(k, split, p, next) == next

\* Where the key goes after page p has been split: below the separator left.
Side(k, split, p, next) == IF KeyCompare(k, split) < 0 THEN p ELSE next

\* Variant: always the new page is given up.
KeepOld(f, side, p, next) == Unfix(f, next)

\* One half stays in hand, the other one is unfixed.
KeepSide(f, side, p, next) == Unfix(f, IF side = p THEN next ELSE p)

AtRoot(t) == fault = "none" /\ pc[t] = "insert_root" /\ Free(page[t])

InsertRoot(t) ==
  /\ AtRoot(t)
  /\ ~Full(node[page[t]], args[t].key, args[t].value)
  /\ \/ /\ Proceed(t, page[t], node, Fix(fixed, t, page[t]))
        /\ UNCHANGED <<next_page, root>>
     \/ Stumbles(t, page[t], node)

\* The root is split and a new root put over the halves.
SplitRoot(t) ==
  LET p == page[t]
      n == node[p]
      next == next_page
      new == next_page + 1
      nodes == [node EXCEPT ![p] = Lower(n, next), ![next] = Upper(n),
                            ![new] = NewRoot(p, SplitKey(n), next)]
      side == Side(args[t].key, SplitKey(n), p, next)
      three == Fix(Fix(Fix(fixed, t, p), t, next), t, new)
  IN  /\ AtRoot(t)
      /\ Full(n, args[t].key, args[t].value)
      /\ new \in PageIds
      /\ \/ /\ Proceed(t, side, nodes, Unfix(KeepSide(three, side, p, next), new))
            /\ next_page' = next_page + 2
            /\ root' = new
         \/ Stumbles(t, side, nodes)

\* pager_fix or the first pager_next fails: nothing has happened yet.
InsertRunsOut(t) ==
  /\ OutOfMemory
  /\ AtRoot(t)
  /\ Return(t, "ENOMEM", NoValue)
  /\ UNCHANGED <<shared, fixed>>

\* The second pager_next fails: the root is unfixed, and the upper half stays
\* fixed, outside the tree.
\* Bound: that happens once.
SplitRootRunsOut(t) ==
  /\ OutOfMemory
  /\ NothingLeft
  /\ AtRoot(t)
  /\ Full(node[page[t]], args[t].key, args[t].value)
  /\ next_page \in PageIds
  /\ LET n == node[page[t]]
     IN  node' = [node EXCEPT ![page[t]] = Lower(n, next_page),
                              ![next_page] = Upper(n)]
  /\ fixed' = Unfix(Fix(Fix(fixed, t, page[t]), t, next_page), page[t])
  /\ next_page' = next_page + 1
  /\ Return(t, "ENOMEM", NoValue)
  /\ UNCHANGED root

-----------------------------------------------------------------------------
(***************************************************************************)
(* btree_insert_walk: the parent in hand, the child waited for.            *)
(***************************************************************************)
Walking(t) ==
  /\ fault = "none"
  /\ pc[t] = "insert_walk"
  /\ Free(Child(node[page[t]], args[t].key))

\* The key is a separator of the parent, or a page cannot be had, or the
\* parent has no room for a separator as long as the key (an assertion).
WalkFails(t) ==
  /\ fault = "none"
  /\ pc[t] = "insert_walk"
  /\ \/ Full(node[page[t]], args[t].key, args[t].value) /\ Fault("assert")
     \/ Hit(node[page[t]], args[t].key) /\ Fault("unfix")
     \/ OutOfMemory /\ Fault("unfix")

InsertWalk(t) ==
  LET k == args[t].key
      child == Child(node[page[t]], k)
  IN  /\ Walking(t)
      /\ ~Hit(node[page[t]], k)
      /\ ~Full(node[child], k, args[t].value)
      /\ \/ /\ Proceed(t, child, node, Unfix(Fix(fixed, t, child), page[t]))
            /\ UNCHANGED <<next_page, root>>
         \/ Stumbles(t, child, node)

SplitChild(t) ==
  LET k == args[t].key
      parent == node[page[t]]
      child == Child(parent, k)
      n == node[child]
      next == next_page
      split == SplitKey(n)
      nodes == [node EXCEPT
                  ![child] = Lower(n, next), ![next] = Upper(n),
                  ![page[t]] = InsertInner(parent, FindPointer(parent, k),
                                           split, next)]
      side == Side(k, split, child, next)
      three == Fix(Fix(fixed, t, child), t, next)  \* with the parent
  IN  /\ Walking(t)
      /\ ~Hit(parent, k)
      /\ Full(n, k, args[t].value)
      /\ next \in PageIds
      /\ IF Fits(parent, CellBytes(FALSE, split, next))
           THEN \/ /\ Proceed(t, side, nodes,
                              Unfix(KeepSide(three, side, child, next), page[t]))
                   /\ next_page' = next_page + 1
                   /\ UNCHANGED root
                \/ Stumbles(t, side, nodes)
           ELSE Fault("assert")

-----------------------------------------------------------------------------
(***************************************************************************)
(* btree_lookup, down to the leaf and back with the value.                 *)
(***************************************************************************)
Answered(t, n) ==
  IF Hit(n, args[t].key)
    THEN Return(t, "SUCCESS", n.cells[FindPointer(n, args[t].key)].ref)
    ELSE Return(t, "ENOENT", NoValue)

\* The page in hand, if there is one yet, is unfixed.
LetGo(f, t) == IF pc[t] = "lookup_walk" THEN Unfix(f, page[t]) ELSE f

LookupAt(t, p) ==
  LET latches == LetGo(Fix(fixed, t, p), t)
  IN  \/ /\ ~node[p].leaf
         /\ fixed' = latches
         /\ pc' = [pc EXCEPT ![t] = "lookup_walk"]
         /\ page' = [page EXCEPT ![t] = p]
         /\ UNCHANGED <<args, error, answer, fault>>
      \/ /\ node[p].leaf
         /\ fixed' = Unfix(latches, p)
         /\ Answered(t, node[p])

\* Variant: always the root.
LookupTargetRoot(t) == root

\* The page a look-up waits for.
LookupTarget(t) ==
  IF pc[t] = "lookup_root" THEN page[t] ELSE Child(node[page[t]], args[t].key)

Looking(t) == fault = "none" /\ pc[t] \in {"lookup_root", "lookup_walk"}

LookupStep(t) ==
  /\ Looking(t)
  /\ Free(LookupTarget(t))
  /\ LookupAt(t, LookupTarget(t))
  /\ UNCHANGED shared

LookupRunsOut(t) ==
  /\ OutOfMemory
  /\ Looking(t)
  /\ fixed' = LetGo(fixed, t)
  /\ Return(t, "ENOMEM", NoValue)
  /\ UNCHANGED shared

-----------------------------------------------------------------------------
Insert(t) ==
  \/ InsertRoot(t) \/ SplitRoot(t) \/ InsertRunsOut(t) \/ SplitRootRunsOut(t)
  \/ WalkFails(t) \/ InsertWalk(t) \/ SplitChild(t)

Lookup(t) == LookupStep(t) \/ LookupRunsOut(t)

Call(t) ==
  \/ \E pair \in Offered : InsertCall(t, pair[1], pair[2])
  \/ \E k \in Keys : LookupCall(t, k)

Next == \E t \in Threads : Call(t) \/ Insert(t) \/ Lookup(t)

Spec == Init /\ [][Next]_vars

=============================================================================
