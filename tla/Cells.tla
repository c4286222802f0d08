------------------------------- MODULE Cells --------------------------------
(***************************************************************************)
(* The bytes of a leaf of module BTree: the key and the value of a cell    *)
(* are put together with src/varint.c and src/blob.c in buffers of their   *)
(* own, copied into the page below the cells that are there, and found     *)
(* again through the pointers of the page, which page_split and            *)
(* page_compact move about.  What stands in front of data_start, header    *)
(* and pointers, is counted and not spelled out.                           *)
(***************************************************************************)
EXTENDS Varint, SequencesExt

CONSTANTS
  Keys,       \* the keys used
  Blobs,      \* the values used, [size, data]
  PageBytes,  \* room for cells and their pointers
  OldBytes    \* what memory holds that nobody has written to

PointerBytes == 2
Places == 0 .. PageBytes - 1

ASSUME CellsAssumption ==
  /\ Keys \subseteq 0 .. Limit - 1
  /\ \A b \in Blobs : b.size = Len(b.data) /\ b.data \in Seq(Bytes)
  /\ PageBytes \in Nat
  /\ OldBytes \subseteq Bytes

VARIABLES
  bytes,       \* the page
  data_start,  \* where its cells begin
  pointers,    \* where each cell is
  cells        \* the page as module BTree has it: what each cell stands for

page == <<bytes, data_start, pointers, cells>>

FirstBytes(b, n) == [i \in 1 .. n |-> b[i - 1]]
At(place) ==
  [i \in Positions |-> IF place + i \in Places THEN bytes[place + i] ELSE 0]
Written(b, place, s) ==
  [i \in Places |-> IF i - place + 1 \in DOMAIN s THEN s[i - place + 1] ELSE b[i]]

-----------------------------------------------------------------------------
(***************************************************************************)
(* Blobs.                                                                  *)
(***************************************************************************)
\* blob_put and its length
BlobPut(old, blob) ==
  FirstBytes(Bytewise(old, blob.size), Stored(blob.size)) \o blob.data

BlobPutLen(blob) == PutLen(blob.size) + blob.size

\* blob_get; out->data points into the page.
BlobGet(place) ==
  LET n == Get(At(place))
  IN  [size |-> n,
       data |-> [i \in 1 .. n |-> bytes[place + GetLen(At(place)) + i - 1]]]

BlobGetLen(place) == GetLen(At(place)) + Get(At(place))

\* blob_cmp
BlobCmp(a, b) ==
  LET differ == {i \in 1 .. Min({a.size, b.size}) : a.data[i] # b.data[i]}
  IN  IF differ # {} THEN a.data[Min(differ)] - b.data[Min(differ)]
      ELSE a.size - b.size

-----------------------------------------------------------------------------
(***************************************************************************)
(* Cells.                                                                  *)
(***************************************************************************)
KeyLen(place) == GetLen(At(place))
ValuePlace(place) == place + KeyLen(place)
CellLen(place) == KeyLen(place) + BlobGetLen(ValuePlace(place))
CellBytes(place) == [i \in 1 .. CellLen(place) |-> bytes[place + i - 1]]

\* page_find_pointer, for keys that are closer than half of an int
FindPointer(k) ==
  Min({Len(pointers) + 1} \cup
        {i \in DOMAIN pointers : Get(At(pointers[i])) >= k})

Room == data_start - PointerBytes * Len(pointers)

\* btree_table_insert and page_insert_leaf: key_buf and value_buf are on the
\* stack and hold whatever was there.  buffer of module Varint is key_buf.
InsertCell(k, blob, x) ==
  LET old == [i \in Positions |-> x]
      key == FirstBytes(Bytewise(old, k), Stored(k))
      payload == key \o BlobPut(old, blob)
      i == FindPointer(k)
      start == data_start - (Stored(k) + BlobPutLen(blob))
  IN  /\ i \in DOMAIN pointers => Get(At(pointers[i])) # k
      /\ Len(payload) + PointerBytes <= Room
      /\ buffer' = Bytewise(old, k) /\ value' = k /\ size' = Stored(k)
      /\ bytes' = Written(bytes, start, payload)
      /\ data_start' = start
      /\ pointers' = InsertAt(pointers, i, start)
      /\ cells' = InsertAt(cells, i, [key |-> k, blob |-> blob])

\* Variant: page_compact does without a buffer, and writes over cells.
MoveInPlace(to, places) ==
  LET Move(b, k) ==
        LET n == CellLen(places[k])
            s == b.data_start - n
        IN  [bytes |-> Written(b.bytes, s,
                         [i \in 1 .. n |-> b.bytes[places[k] + i - 1]]),
             data_start |-> s,
             pointers |-> Append(b.pointers, s)]
  IN  FoldLeft(Move, [bytes |-> to, data_start |-> PageBytes, pointers |-> <<>>],
               [k \in DOMAIN places |-> k])

\* One round of the loops of page_compact and page_split: a cell is copied below
\* those that are at the end of the page already.
CopyCell(b, place) ==
  LET s == b.data_start - CellLen(place)
  IN  [bytes |-> Written(b.bytes, s, CellBytes(place)),
       data_start |-> s,
       pointers |-> Append(b.pointers, s)]

Moved(to, places) ==
  LET moved[n \in 0 .. Len(places)] ==
        IF n = 0 THEN [bytes |-> to, data_start |-> PageBytes, pointers |-> <<>>]
        ELSE CopyCell(moved[n - 1], places[n])
  IN  moved[Len(places)]

Become(p) ==
  bytes' = p.bytes /\ data_start' = p.data_start /\ pointers' = p.pointers

\* page_split.  Either half is the page looked at from then on.
Split ==
  LET at == Len(cells) \div 2
  IN  /\ at > 0
      /\ \/ /\ Become(Moved(bytes, SubSeq(pointers, 1, at)))
            /\ cells' = SubSeq(cells, 1, at)
         \/ /\ \E x \in OldBytes :
                 Become(Moved([i \in Places |-> x],
                              SubSeq(pointers, at + 1, Len(pointers))))
            /\ cells' = SubSeq(cells, at + 1, Len(cells))
      /\ UNCHANGED vars

EmptyLeaf ==
  /\ bytes \in {[i \in Places |-> x] : x \in OldBytes}
  /\ data_start = PageBytes
  /\ pointers = <<>>
  /\ cells = <<>>

CellsNext ==
  Split \/ \E k \in Keys, blob \in Blobs, x \in OldBytes : InsertCell(k, blob, x)

CellsSpec == Init /\ EmptyLeaf /\ [][CellsNext]_<<vars, page>>

-----------------------------------------------------------------------------
(***************************************************************************)
(* Whatever was inserted and split before, each pointer of a page leads to *)
(* the key and the value its cell stands for, byte by byte, in the order   *)
(* of the keys, and the cells do not overlap (btree_table_lookup and       *)
(* blob_cmp in the tests of btree.c).                                      *)
(***************************************************************************)
CellsRead ==
  /\ Len(pointers) = Len(cells)
  /\ \A i \in DOMAIN cells :
       /\ Get(At(pointers[i])) = cells[i].key
       /\ BlobCmp(BlobGet(ValuePlace(pointers[i])), cells[i].blob) = 0
       /\ BlobGetLen(ValuePlace(pointers[i])) = BlobPutLen(cells[i].blob)
       /\ \A j \in DOMAIN cells : i < j =>
            /\ cells[i].key < cells[j].key
            /\ \/ pointers[i] + CellLen(pointers[i]) <= pointers[j]
               \/ pointers[j] + CellLen(pointers[j]) <= pointers[i]

=============================================================================
