-------------------------- MODULE BTreeShapeProofs --------------------------
(***************************************************************************)
(* Proofs about modules BTree and BTreeShared: the tree that the pages     *)
(* make, for any number of keys and pages whose keys are close enough to   *)
(* be compared.  Every page of the tree has a range of keys, and what is   *)
(* stored is in the leaf whose range has it.  With any number of threads,  *)
(* as long as none has raced for the root; for one thread that inserts no  *)
(* key twice it is a search tree, and the table that TableMap promises.    *)
(***************************************************************************)
EXTENDS BTreePageProofs, BTreeShared

-----------------------------------------------------------------------------
(***************************************************************************)
(* Keys.                                                                   *)
(***************************************************************************)
\* Keys whose difference fits an int.
KeysClose == \A a, b \in Keys : 2 * (a - b) < IntSize

LEMMA ModSmall ==
  ASSUME NEW N \in Nat \ {0}, NEW x \in 0 .. N - 1
  PROVE  x % N = x
OBVIOUS

LEMMA ModNegative ==
  ASSUME NEW N \in Nat \ {0}, NEW x \in Int, -N <= x, x < 0
  PROVE  x % N = x + N
OBVIOUS

LEMMA KeyOrder ==
  ASSUME KeysClose, NEW a \in Keys, NEW b \in Keys
  PROVE  /\ KeyCompare(a, b) >= 0 <=> a >= b
         /\ KeyCompare(a, b) = 0 <=> a = b
         /\ KeyCompare(a, b) < 0 <=> a < b
<1> DEFINE x == a - b
<1>1. /\ a \in Nat /\ b \in Nat /\ IntSize \in Nat \ {0}
      /\ 2 * x < IntSize /\ 2 * (b - a) < IntSize
  BY Constants DEF KeysClose
<1>2. CASE x >= 0
  <2>1. x \in 0 .. IntSize - 1
    BY <1>1, <1>2
  <2>2. x % IntSize = x
    BY <1>1, <2>1, ModSmall
  <2>3. KeyCompare(a, b) = x
    BY <1>1, <2>1, <2>2 DEF KeyCompare
  <2> QED BY <1>1, <1>2, <2>3
<1>3. CASE x < 0
  <2>1. x \in Int /\ -IntSize <= x
    BY <1>1, <1>3
  <2>2. x % IntSize = x + IntSize
    BY <1>1, <1>3, <2>1, ModNegative
  <2>3. KeyCompare(a, b) = x
    <3>1. KeyCompare(a, b) = IF 2 * (x + IntSize) >= IntSize THEN (x + IntSize) - IntSize
                             ELSE x + IntSize
      BY <2>2 DEF KeyCompare
    <3>0. 2 * (0 - x) < IntSize
      BY <1>1
    <3> HIDE DEF x
    <3>2. 2 * (x + IntSize) >= IntSize
      BY <1>1, <2>1, <3>0
    <3> QED BY <1>1, <2>1, <3>1, <3>2
  <2> QED BY <1>1, <1>3, <2>3
<1> QED BY <1>1, <1>2, <1>3

LEMMA MaxIsGreatest ==
  ASSUME NEW S \in SUBSET Nat, IsFiniteSet(S), S # {}
  PROVE  Max(S) \in S /\ \A x \in S : Max(S) >= x
<1> DEFINE Has(X) == \E m \in X : \A x \in X : m >= x
           N == {n \in Nat : \A X \in SUBSET Nat :
                   IsFiniteSet(X) /\ Cardinality(X) = n /\ X # {} => Has(X)}
<1>1. 0 \in N
  <2>1. ASSUME NEW X \in SUBSET Nat, IsFiniteSet(X), Cardinality(X) = 0 PROVE X = {}
    BY <2>1, FS_EmptySet, Zenon
  <2> HIDE DEF Has
  <2> QED BY <2>1
<1>2. ASSUME NEW n \in Nat, n \in N PROVE n + 1 \in N
  <2> SUFFICES ASSUME NEW X \in SUBSET Nat, IsFiniteSet(X), Cardinality(X) = n + 1, X # {}
               PROVE  Has(X)
    <3> HIDE DEF Has
    <3> QED OBVIOUS
  <2>1. PICK e : e \in X
    BY Zenon
  <2>2. IsFiniteSet(X \ {e}) /\ Cardinality(X \ {e}) = n
    <3>1. IsFiniteSet(X \ {e}) /\ Cardinality(X \ {e}) = Cardinality(X) - 1
      BY <2>1, FS_RemoveElement, Zenon
    <3> QED BY <3>1
  <2>3. CASE X \ {e} = {}
    BY <2>1, <2>3
  <2>4. CASE X \ {e} # {}
    <3>1. Has(X \ {e})
      <4>1. X \ {e} \in SUBSET Nat
        OBVIOUS
      <4> HIDE DEF Has
      <4> QED BY <1>2, <2>2, <2>4, <4>1, Zenon
    <3>2. PICK m \in X \ {e} : \A x \in X \ {e} : m >= x
      BY <3>1
    <3> QED BY <2>1, <3>2
  <2> QED BY <2>3, <2>4
<1>3. Nat \subseteq N
  <2> HIDE DEF N
  <2> QED BY <1>1, <1>2, NatSetInduction, Zenon
<1>4. Has(S)
  <2>1. Cardinality(S) \in Nat
    BY FS_CardinalityType, Zenon
  <2> HIDE DEF Has
  <2> QED BY <1>3, <2>1, Zenon
<1> QED BY <1>4 DEF Max

\* Top is above every key.
LEMMA BelowTop == Top \in Nat /\ \A k \in Keys : k \in Nat /\ k < Top
<1>1. Keys \in SUBSET Nat /\ IsFiniteSet(Keys) /\ Keys # {}
  BY BTreeAssumption
<1>2. Max(Keys) \in Keys /\ \A k \in Keys : Max(Keys) >= k
  BY <1>1, MaxIsGreatest
<1>3. Max(Keys) \in Nat /\ \A k \in Keys : k \in Nat
  BY <1>1, <1>2
<1> QED BY <1>2, <1>3 DEF Top

LEMMA KeyAtType ==
  ASSUME NEW n, Sound(n), NEW i \in 1 .. Len(n.cells)
  PROVE  KeyAt(n, i) \in Keys /\ KeyAt(n, i) \in Nat
<1>1. n.cells[i] \in CellType(n.leaf)
  BY SoundType
<1> QED BY <1>1, Constants DEF KeyAt, CellType

LEMMA FindPlace ==
  ASSUME KeysClose, NEW n, Sound(n), NEW k \in Keys
  PROVE  LET i == FindPointer(n, k)
         IN  /\ i \in 1 .. Len(n.cells) + 1
             /\ \A j \in 1 .. Len(n.cells) : j < i => KeyAt(n, j) < k
             /\ i <= Len(n.cells) => KeyAt(n, i) >= k
             /\ Hit(n, k) <=> i <= Len(n.cells) /\ KeyAt(n, i) = k
<1> DEFINE i == FindPointer(n, k)
<1>1. /\ i \in 1 .. Len(n.cells) + 1
      /\ \A j \in 1 .. Len(n.cells) : j < i => ~(KeyCompare(KeyAt(n, j), k) >= 0)
      /\ i <= Len(n.cells) => KeyCompare(KeyAt(n, i), k) >= 0
  BY FindPointerPlace DEF KeyAt
<1>2. \A j \in 1 .. Len(n.cells) :
        /\ KeyAt(n, j) \in Nat
        /\ KeyCompare(KeyAt(n, j), k) >= 0 <=> KeyAt(n, j) >= k
        /\ KeyCompare(KeyAt(n, j), k) = 0 <=> KeyAt(n, j) = k
  BY KeyAtType, KeyOrder
<1>3. k \in Nat /\ Len(n.cells) \in Nat
  BY Constants, SoundType
<1>4. i <= Len(n.cells) => i \in 1 .. Len(n.cells)
  <2> HIDE DEF i
  <2> QED BY <1>1, <1>3
<1>5. Hit(n, k) <=> i <= Len(n.cells) /\ KeyCompare(KeyAt(n, i), k) = 0
  BY DEF Hit, KeyAt
<1> HIDE DEF i
<1>6. \A j \in 1 .. Len(n.cells) : j < i => KeyAt(n, j) < k
  BY <1>1, <1>2, <1>3
<1> QED BY <1>1, <1>2, <1>4, <1>5, <1>6 DEF i

-----------------------------------------------------------------------------
(***************************************************************************)
(* The tree that the pages make.  A view of it says which pages are in it, *)
(* which keys each of them is for - above low, up to high -, which page is *)
(* over it and on which level, counted from the leaves, it is.  A link for *)
(* no keys leads out of the tree: the one that page_split leaves in the    *)
(* lower half, and the one before a separator that comes a second time.    *)
(***************************************************************************)
Views ==
  [pages : SUBSET PageIds, low : [PageIds -> Int], high : [PageIds -> Int],
   up : [PageIds -> PageIds \cup {0}], level : [PageIds -> Nat]]

\* One thread that inserts no key twice: then a key is in one place only.
Alone == ~Reinsert /\ \E t \in Threads : Threads = {t}

\* The keys a link is for.
LowOf(n, lo, j) == IF j = 1 THEN lo ELSE KeyAt(n, j - 1)
HighOf(n, hi, j) == IF j = Len(n.cells) + 1 THEN hi ELSE KeyAt(n, j)

Live(n, lo, hi, j) == LowOf(n, lo, j) < HighOf(n, hi, j)

\* The keys of a page are for it, and in order.
Ordered(n, lo, hi) ==
  /\ \A i \in 1 .. Len(n.cells) :
       /\ lo <= KeyAt(n, i) /\ KeyAt(n, i) <= hi
       /\ Alone => lo < KeyAt(n, i)
  /\ \A i, j \in 1 .. Len(n.cells) :
       i < j => /\ KeyAt(n, i) <= KeyAt(n, j)
                /\ (n.leaf \/ Alone) => KeyAt(n, i) < KeyAt(n, j)

\* The page at link j of page p takes the keys of that link.
IsChild(nodes, gone, w, p, j) ==
  LET n == nodes[p]
      c == Link(n, j)
  IN  /\ c \in w.pages
      /\ w.up[c] = p
      /\ w.low[c] = LowOf(n, w.low[p], j)
      /\ w.high[c] = HighOf(n, w.high[p], j)
      /\ w.level[c] < w.level[p]
      /\ gone = {} => w.level[c] + 1 = w.level[p]

\* Key k has value v in the leaf that is for it.
Holds(nodes, w, k, v) ==
  \E q \in w.pages : /\ nodes[q].leaf /\ w.low[q] < k /\ k <= w.high[q]
                     /\ \E i \in 1 .. Len(nodes[q].cells) :
                          KeyAt(nodes[q], i) = k /\ Link(nodes[q], i) = v

\* Key k is in the leaf that is for it.
Found(nodes, w, k) ==
  \E q \in w.pages : /\ nodes[q].leaf /\ w.low[q] < k /\ k <= w.high[q]
                     /\ \E i \in 1 .. Len(nodes[q].cells) : KeyAt(nodes[q], i) = k

AtTop(top, w) ==
  top \in w.pages /\ w.low[top] = -1 /\ w.high[top] = Top /\ w.up[top] = 0

InRange(nodes, made, w) ==
  \A p \in w.pages : /\ p < made
                     /\ -1 <= w.low[p] /\ w.low[p] < w.high[p] /\ w.high[p] <= Top
                     /\ Ordered(nodes[p], w.low[p], w.high[p])

Linked(nodes, gone, w) ==
  \A p \in w.pages : ~nodes[p].leaf =>
    \A j \in 1 .. Len(nodes[p].cells) + 1 :
      Live(nodes[p], w.low[p], w.high[p], j) => IsChild(nodes, gone, w, p, j)

LeavesApart(nodes, w) ==
  \A p, q \in w.pages : nodes[p].leaf /\ nodes[q].leaf /\ p # q =>
                          w.high[p] <= w.low[q] \/ w.high[q] <= w.low[p]

\* The cells of inner pages lead down, those out of the tree too.
CellsDescend(nodes, top, w) ==
  \A p \in PageIds : ~nodes[p].leaf =>
    \A j \in 1 .. Len(nodes[p].cells) :
      w.level[Link(nodes[p], j)] < w.level[p] /\ Link(nodes[p], j) # top

\* A key that separates two pages is stored.
SeparatorsFound(nodes, w) ==
  \A p \in w.pages :
    /\ w.low[p] = -1 \/ Found(nodes, w, w.low[p])
    /\ ~nodes[p].leaf =>
         \A i \in 1 .. Len(nodes[p].cells) : Found(nodes, w, KeyAt(nodes[p], i))

\* What is stored, also in a page out of the tree, is where it is looked for.
StoredFound(nodes, gone, w) ==
  \A p \in PageIds : p \notin gone /\ nodes[p].leaf =>
    \A i \in 1 .. Len(nodes[p].cells) : Found(nodes, w, KeyAt(nodes[p], i))

LeafTop(nodes, top, gone, w) ==
  nodes[top].leaf =>
    /\ w.pages = {top}
    /\ \A p \in PageIds : p \notin gone /\ p # top => Len(nodes[p].cells) = 0

\* Leaves are on level 0 and linked in order.
LeavesLast(nodes, gone, w) ==
  \A p \in w.pages : nodes[p].leaf =>
    /\ p \notin gone
    /\ gone = {} => w.level[p] = 0
    /\ gone = {} /\ Alone =>
         LET r == nodes[p].right
         IN  IF w.high[p] = Top THEN r = 0
             ELSE r \in w.pages /\ nodes[r].leaf /\ w.low[r] = w.high[p]

Shape(nodes, made, top, gone, w) ==
  /\ w \in Views
  /\ AtTop(top, w)
  /\ InRange(nodes, made, w)
  /\ Linked(nodes, gone, w)
  /\ LeavesApart(nodes, w)
  /\ CellsDescend(nodes, top, w)
  /\ SeparatorsFound(nodes, w)
  /\ StoredFound(nodes, gone, w)
  /\ LeafTop(nodes, top, gone, w)
  /\ LeavesLast(nodes, gone, w)
  /\ 2 * w.level[top] + 2 <= made + IF gone = {} THEN 0 ELSE 1

\* Where the calls in progress are.
Gone == {p \in PageIds : Left(p)}

Place(w, t) ==
  LET p == page[t]
      k == args[t].key
  IN  Walks(t) =>
        \/ pc[t] = "insert_walk" /\ Hit(node[p], k)
        \/ /\ p \in w.pages /\ w.low[p] <= k /\ k <= w.high[p]
           /\ pc[t] = "lookup_walk" => w.low[p] < k

AtRootNow == \A t \in Threads : AtRootOf(t) => page[t] = root

\* A key that is inserted by the only thread is not there yet.
NewKey(t) == Alone /\ Inserts(t) => ~Stored(args[t].key)

TreeInv ==
  /\ AtRootNow
  /\ \A t \in Threads : NewKey(t)
  /\ \E w \in Views : /\ Shape(node, next_page, root, Gone, w)
                      /\ \A t \in Threads : Place(w, t)

-----------------------------------------------------------------------------
(***************************************************************************)
(* The halves of a page that is split.                                     *)
(***************************************************************************)
\* The halves of a page, place by place.
LEMMA HalfPlaces ==
  ASSUME NEW n, Sound(n), Len(n.cells) >= 2, NEW next \in PageIds
  PROVE  LET m == SplitAt(n)
             len == Len(n.cells)
             a == Lower(n, next)
             b == Upper(n)
         IN  /\ m \in 1 .. len - 1 /\ len \in Nat
             /\ Sound(a) /\ Sound(b) /\ a.leaf = n.leaf /\ b.leaf = n.leaf
             /\ a.right = next /\ b.right = n.right
             /\ Len(a.cells) = m /\ Len(b.cells) = len - m
             /\ \A j \in 1 .. m : KeyAt(a, j) = KeyAt(n, j)
             /\ \A j \in 1 .. len - m : KeyAt(b, j) = KeyAt(n, m + j)
             /\ \A j \in 1 .. m : Link(a, j) = Link(n, j)
             /\ Link(a, m + 1) = next
             /\ \A j \in 1 .. len - m + 1 : Link(b, j) = Link(n, m + j)
             /\ \A j \in 1 .. m : a.cells[j] = n.cells[j]
             /\ \A j \in 1 .. len - m : b.cells[j] = n.cells[m + j]
             /\ SplitKey(n) = KeyAt(n, m) /\ SplitKey(n) \in Keys
<1> DEFINE len == Len(n.cells)
           m == SplitAt(n)
           a == Lower(n, next)
           b == Upper(n)
           S == CellType(n.leaf)
           s == n.cells
<1>1. m \in 1 .. len - 1 /\ len \in Nat /\ SplitKey(n) = KeyAt(n, m) /\ SplitKey(n) \in Keys
  BY SplitKeyType, SoundType DEF KeyAt
<1>2. s \in Seq(S)
  BY SoundType
<1>3. /\ Sound(a) /\ Sound(b) /\ a.leaf = n.leaf /\ b.leaf = n.leaf
      /\ a.right = next /\ b.right = n.right
      /\ a.cells = SubSeq(s, 1, m) /\ b.cells = SubSeq(s, m + 1, len)
  BY HalvesSound
<1> HIDE DEF a, b, S, s, m, len
<1>4. Len(s) = len
  BY DEF s, len
<1>5. /\ Len(a.cells) = m /\ \A j \in 1 .. m : a.cells[j] = s[j]
      /\ Len(b.cells) = len - m /\ \A j \in 1 .. len - m : b.cells[j] = s[m + j]
  BY <1>1, <1>2, <1>3, <1>4
<1>6. /\ \A j \in 1 .. m : Link(a, j) = Link(n, j)
      /\ Link(a, m + 1) = next
  BY <1>1, <1>3, <1>4, <1>5 DEF Link, s
<1>7. \A j \in 1 .. len - m + 1 : Link(b, j) = Link(n, m + j)
  BY <1>1, <1>3, <1>4, <1>5 DEF Link, s
<1>8. /\ \A j \in 1 .. m : KeyAt(a, j) = KeyAt(n, j)
      /\ \A j \in 1 .. len - m : KeyAt(b, j) = KeyAt(n, m + j)
  BY <1>5 DEF KeyAt, s
<1> QED BY <1>1, <1>3, <1>5, <1>6, <1>7, <1>8 DEF a, b, m, len, s

\* The ranges of the links lie within that of the page, one after the other.
LEMMA LinkRange ==
  ASSUME NEW n, Sound(n), NEW lo \in Int, NEW hi \in Int, Ordered(n, lo, hi), lo <= hi
  PROVE  /\ \A j \in 1 .. Len(n.cells) + 1 :
              /\ LowOf(n, lo, j) \in Int /\ lo <= LowOf(n, lo, j) /\ LowOf(n, lo, j) <= hi
              /\ HighOf(n, hi, j) \in Int /\ HighOf(n, hi, j) <= hi
         /\ \A i, j \in 1 .. Len(n.cells) + 1 :
              i < j => HighOf(n, hi, i) <= LowOf(n, lo, j)
<1> DEFINE len == Len(n.cells)
<1>1. /\ len \in Nat
      /\ \A i \in 1 .. len : lo <= KeyAt(n, i) /\ KeyAt(n, i) <= hi /\ KeyAt(n, i) \in Nat
      /\ \A i, j \in 1 .. len : i < j => KeyAt(n, i) <= KeyAt(n, j)
  BY SoundType, KeyAtType DEF Ordered
<1> HIDE DEF len
<1>2. ASSUME NEW j \in 1 .. len + 1
      PROVE  /\ LowOf(n, lo, j) \in Int /\ lo <= LowOf(n, lo, j) /\ LowOf(n, lo, j) <= hi
             /\ HighOf(n, hi, j) \in Int /\ HighOf(n, hi, j) <= hi
  <2>1. j # 1 => j - 1 \in 1 .. len
    BY <1>1
  <2>2. j # len + 1 => j \in 1 .. len
    BY <1>1
  <2> QED BY <1>1, <2>1, <2>2 DEF LowOf, HighOf, len
<1>3. ASSUME NEW i \in 1 .. len + 1, NEW j \in 1 .. len + 1, i < j
      PROVE  HighOf(n, hi, i) <= LowOf(n, lo, j)
  <2>1. j # 1 /\ i # len + 1 /\ i \in 1 .. len /\ j - 1 \in 1 .. len
    BY <1>1, <1>3
  <2>2. i < j - 1 \/ i = j - 1
    BY <1>1, <1>3
  <2> QED BY <1>1, <2>1, <2>2 DEF LowOf, HighOf, len
<1> QED BY <1>2, <1>3 DEF len

\* The halves are in order, and their links are for what the page's links were.
LEMMA HalfRanges ==
  ASSUME NEW n, Sound(n), Len(n.cells) >= 2, NEW next \in PageIds,
         NEW lo \in Int, NEW hi \in Int, Ordered(n, lo, hi)
  PROVE  LET m == SplitAt(n)
             len == Len(n.cells)
             a == Lower(n, next)
             b == Upper(n)
             split == SplitKey(n)
         IN  /\ Ordered(a, lo, split) /\ Ordered(b, split, hi)
             /\ split \in Nat /\ lo <= split /\ split <= hi
             /\ (n.leaf \/ Alone) => split < hi
             /\ Alone => lo < split
             /\ \A j \in 1 .. m : /\ LowOf(a, lo, j) = LowOf(n, lo, j)
                                  /\ HighOf(a, split, j) = HighOf(n, hi, j)
                                  /\ HighOf(n, hi, j) <= split
             /\ ~Live(a, lo, split, m + 1)
             /\ \A j \in 1 .. len - m + 1 :
                  /\ LowOf(b, split, j) = LowOf(n, lo, m + j)
                  /\ HighOf(b, hi, j) = HighOf(n, hi, m + j)
                  /\ split <= LowOf(n, lo, m + j)
<1> DEFINE m == SplitAt(n)
           len == Len(n.cells)
           a == Lower(n, next)
           b == Upper(n)
           split == SplitKey(n)
<1>1. /\ m \in 1 .. len - 1 /\ len \in Nat
      /\ a.leaf = n.leaf /\ b.leaf = n.leaf
      /\ Len(a.cells) = m /\ Len(b.cells) = len - m
      /\ \A j \in 1 .. m : KeyAt(a, j) = KeyAt(n, j)
      /\ \A j \in 1 .. len - m : KeyAt(b, j) = KeyAt(n, m + j)
      /\ split = KeyAt(n, m)
  BY HalfPlaces
<1>2. /\ \A i \in 1 .. len : /\ lo <= KeyAt(n, i) /\ KeyAt(n, i) <= hi /\ KeyAt(n, i) \in Nat
                             /\ Alone => lo < KeyAt(n, i)
      /\ \A i, j \in 1 .. len :
           i < j => /\ KeyAt(n, i) <= KeyAt(n, j)
                    /\ (n.leaf \/ Alone) => KeyAt(n, i) < KeyAt(n, j)
  BY KeyAtType DEF Ordered
<1>3. n.leaf \in BOOLEAN
  BY SoundType
<1> HIDE DEF m, len, a, b, split
<1>21. m \in 1 .. len /\ \A i \in 1 .. m : i \in 1 .. len /\ (i = m \/ i < m)
  BY <1>1
<1>22. \A i \in m + 1 .. len : i \in 1 .. len /\ m < i
  BY <1>1
<1>4. split \in Nat /\ lo <= split /\ split <= hi /\ (Alone => lo < split)
  BY <1>1, <1>2, <1>21
<1>41. \A i \in 1 .. m : KeyAt(n, i) <= split
  BY <1>1, <1>2, <1>21
<1>42. \A i \in m + 1 .. len : split <= KeyAt(n, i) /\ ((n.leaf \/ Alone) => split < KeyAt(n, i))
  BY <1>1, <1>2, <1>21, <1>22
<1>5. (n.leaf \/ Alone) => split < hi
  <2>1. len \in m + 1 .. len /\ len \in 1 .. len
    BY <1>1
  <2> QED BY <1>2, <1>4, <1>42, <2>1
<1>6. Ordered(a, lo, split)
  BY <1>1, <1>2, <1>4, <1>41, <1>21 DEF Ordered
<1>7. Ordered(b, split, hi)
  <2>1. \A i \in 1 .. len - m : m + i \in m + 1 .. len /\ m + i \in 1 .. len
    BY <1>1
  <2>2. ASSUME NEW i \in 1 .. len - m
        PROVE  /\ split <= KeyAt(b, i) /\ KeyAt(b, i) <= hi
               /\ Alone => split < KeyAt(b, i)
    BY <1>1, <1>2, <1>42, <2>1
  <2>3. ASSUME NEW i \in 1 .. len - m, NEW j \in 1 .. len - m, i < j
        PROVE  /\ KeyAt(b, i) <= KeyAt(b, j)
               /\ (b.leaf \/ Alone) => KeyAt(b, i) < KeyAt(b, j)
    <3>1. m + i < m + j
      BY <1>1, <2>3
    <3> QED BY <1>1, <1>2, <2>1, <3>1
  <2> QED BY <1>1, <2>2, <2>3 DEF Ordered
<1>8. ASSUME NEW j \in 1 .. m
      PROVE  /\ LowOf(a, lo, j) = LowOf(n, lo, j)
             /\ HighOf(a, split, j) = HighOf(n, hi, j)
             /\ HighOf(n, hi, j) <= split
  <2>1. j \in 1 .. len /\ j # len + 1 /\ j # m + 1 /\ (j # 1 => j - 1 \in 1 .. m /\ j - 1 \in 1 .. len)
    BY <1>1
  <2>2. LowOf(a, lo, j) = LowOf(n, lo, j) /\ HighOf(a, split, j) = HighOf(n, hi, j)
    BY <1>1, <2>1 DEF LowOf, HighOf, len
  <2>3. HighOf(n, hi, j) = KeyAt(n, j) /\ KeyAt(n, j) <= split
    BY <1>41, <2>1 DEF HighOf, len
  <2> QED BY <2>2, <2>3
<1>9. ~Live(a, lo, split, m + 1)
  <2>1. m + 1 # 1 /\ (m + 1) - 1 = m /\ m \in 1 .. m
    BY <1>1
  <2>2. LowOf(a, lo, m + 1) = split /\ HighOf(a, split, m + 1) = split
    BY <1>1, <2>1 DEF LowOf, HighOf
  <2> QED BY <1>4, <2>2 DEF Live
<1>10. ASSUME NEW j \in 1 .. len - m + 1
       PROVE  /\ LowOf(b, split, j) = LowOf(n, lo, m + j)
              /\ HighOf(b, hi, j) = HighOf(n, hi, m + j)
              /\ split <= LowOf(n, lo, m + j)
  <2>1. LowOf(b, split, j) = LowOf(n, lo, m + j)
    <3>1. m + j # 1
      BY <1>1
    <3>2. CASE j = 1
      BY <1>1, <3>1, <3>2 DEF LowOf
    <3>3. CASE j # 1
      <4>1. j - 1 \in 1 .. len - m /\ (m + j) - 1 = m + (j - 1)
        BY <1>1, <3>3
      <4> QED BY <1>1, <3>1, <3>3, <4>1 DEF LowOf
    <3> QED BY <3>2, <3>3
  <2>2. HighOf(b, hi, j) = HighOf(n, hi, m + j)
    <3>1. j = len - m + 1 <=> m + j = len + 1
      BY <1>1
    <3>2. j # len - m + 1 => j \in 1 .. len - m
      BY <1>1
    <3> QED BY <1>1, <3>1, <3>2 DEF HighOf, len
  <2>4. split <= LowOf(n, lo, m + j)
    <3>1. m + j # 1 /\ (m + j) - 1 \in m .. len /\ (m + j) - 1 \in 1 .. len
      BY <1>1
    <3>2. (m + j) - 1 = m \/ (m + j) - 1 \in m + 1 .. len
      BY <1>1, <3>1
    <3>3. LowOf(n, lo, m + j) = KeyAt(n, (m + j) - 1)
      BY <3>1 DEF LowOf
    <3> QED BY <1>1, <1>4, <1>42, <3>2, <3>3
  <2> QED BY <2>1, <2>2, <2>4
<1> QED BY <1>4, <1>5, <1>6, <1>7, <1>8, <1>9, <1>10 DEF a, b, m, len, split

-----------------------------------------------------------------------------
(***************************************************************************)
(* An inner page that gets the new half of its child i.                    *)
(***************************************************************************)
\* The links are for the same keys, but for link i, which is for those up to k now.
LinksOver(n, z, i, k, lo, hi) ==
  \A j \in 1 .. Len(n.cells) + 2 :
    /\ LowOf(z, lo, j) = IF j <= i THEN LowOf(n, lo, j)
                         ELSE IF j = i + 1 THEN k ELSE LowOf(n, lo, j - 1)
    /\ HighOf(z, hi, j) = IF j < i THEN HighOf(n, hi, j)
                          ELSE IF j = i THEN k ELSE HighOf(n, hi, j - 1)

LEMMA OverRanges ==
  ASSUME NEW n, Sound(n), NEW z, NEW i \in 1 .. Len(n.cells) + 1, NEW k \in Nat, NEW new,
         Over(n, z, i, k, new), NEW lo \in Int, NEW hi \in Int
  PROVE  LinksOver(n, z, i, k, lo, hi)
<1> DEFINE len == Len(n.cells)
<1>1. len \in Nat /\ i \in 1 .. len + 1 /\ Len(z.cells) = len + 1
  BY SoundType DEF Over
<1>2. \A j \in 1 .. len + 1 :
        KeyAt(z, j) = IF j < i THEN KeyAt(n, j) ELSE IF j = i THEN k ELSE KeyAt(n, j - 1)
  BY DEF Over
<1> SUFFICES ASSUME NEW j \in 1 .. len + 2
             PROVE  /\ LowOf(z, lo, j) = IF j <= i THEN LowOf(n, lo, j)
                                         ELSE IF j = i + 1 THEN k ELSE LowOf(n, lo, j - 1)
                    /\ HighOf(z, hi, j) = IF j < i THEN HighOf(n, hi, j)
                                          ELSE IF j = i THEN k ELSE HighOf(n, hi, j - 1)
  BY DEF len, LinksOver
<1> HIDE DEF len
<1>3. LowOf(z, lo, j) = IF j <= i THEN LowOf(n, lo, j)
                        ELSE IF j = i + 1 THEN k ELSE LowOf(n, lo, j - 1)
  <2>1. CASE j = 1
    BY <1>1, <2>1 DEF LowOf
  <2>2. CASE j # 1
    <3>1. j - 1 \in 1 .. len + 1 /\ LowOf(z, lo, j) = KeyAt(z, j - 1)
      BY <1>1, <2>2 DEF LowOf
    <3>2. CASE j <= i
      BY <1>1, <1>2, <2>2, <3>1, <3>2 DEF LowOf
    <3>3. CASE j = i + 1
      BY <1>1, <1>2, <3>1, <3>3
    <3>4. CASE j > i + 1
      BY <1>1, <1>2, <3>1, <3>4 DEF LowOf
    <3> QED BY <1>1, <3>2, <3>3, <3>4
  <2> QED BY <2>1, <2>2
<1>4. HighOf(z, hi, j) = IF j < i THEN HighOf(n, hi, j)
                         ELSE IF j = i THEN k ELSE HighOf(n, hi, j - 1)
  <2>1. CASE j = len + 2
    BY <1>1, <2>1 DEF HighOf, len
  <2>2. CASE j # len + 2
    <3>1. j \in 1 .. len + 1 /\ HighOf(z, hi, j) = KeyAt(z, j)
      BY <1>1, <2>2 DEF HighOf
    <3>2. CASE j < i
      <4>1. j # len + 1
        BY <1>1, <3>2
      <4> QED BY <1>2, <3>1, <3>2, <4>1 DEF HighOf, len
    <3>3. CASE j = i
      BY <1>1, <1>2, <3>1, <3>3
    <3>4. CASE j > i
      <4>1. j - 1 # len + 1
        BY <1>1, <3>1
      <4> QED BY <1>1, <1>2, <3>1, <3>4, <4>1 DEF HighOf, len
    <3> QED BY <1>1, <3>2, <3>3, <3>4
  <2> QED BY <2>1, <2>2
<1> QED BY <1>3, <1>4

\* A key in its place leaves the keys of the page in order ...
LEMMA PutOrdered ==
  ASSUME NEW n, Sound(n), NEW z, NEW i \in 1 .. Len(n.cells) + 1, NEW k \in Nat,
         z.leaf = n.leaf, Len(z.cells) = Len(n.cells) + 1,
         \A j \in 1 .. Len(n.cells) + 1 :
           KeyAt(z, j) = IF j < i THEN KeyAt(n, j) ELSE IF j = i THEN k ELSE KeyAt(n, j - 1),
         NEW lo \in Int, NEW hi \in Int, Ordered(n, lo, hi),
         lo <= k, k <= hi, Alone => lo < k,
         \A h \in 1 .. Len(n.cells) :
           /\ h < i => KeyAt(n, h) <= k /\ ((n.leaf \/ Alone) => KeyAt(n, h) < k)
           /\ h >= i => k <= KeyAt(n, h) /\ ((n.leaf \/ Alone) => k < KeyAt(n, h))
  PROVE  Ordered(z, lo, hi)
<1> DEFINE len == Len(n.cells)
<1>1. /\ len \in Nat /\ i \in 1 .. len + 1 /\ Len(z.cells) = len + 1
      /\ \A j \in 1 .. len + 1 :
           KeyAt(z, j) = IF j < i THEN KeyAt(n, j) ELSE IF j = i THEN k ELSE KeyAt(n, j - 1)
  BY SoundType
<1>2. /\ \A j \in 1 .. len : /\ lo <= KeyAt(n, j) /\ KeyAt(n, j) <= hi /\ KeyAt(n, j) \in Nat
                             /\ Alone => lo < KeyAt(n, j)
      /\ \A h, j \in 1 .. len : h < j => /\ KeyAt(n, h) <= KeyAt(n, j)
                                         /\ (n.leaf \/ Alone) => KeyAt(n, h) < KeyAt(n, j)
  BY KeyAtType DEF Ordered
<1>3. \A h \in 1 .. len :
        /\ h < i => KeyAt(n, h) <= k /\ ((n.leaf \/ Alone) => KeyAt(n, h) < k)
        /\ h >= i => k <= KeyAt(n, h) /\ ((n.leaf \/ Alone) => k < KeyAt(n, h))
  OBVIOUS
<1> HIDE DEF len
<1>4. ASSUME NEW j \in 1 .. len + 1
      PROVE  /\ lo <= KeyAt(z, j) /\ KeyAt(z, j) <= hi
             /\ Alone => lo < KeyAt(z, j)
  <2>1. CASE j < i
    BY <1>1, <1>2, <2>1
  <2>2. CASE j = i
    BY <1>1, <2>2
  <2>3. CASE j > i
    <3>1. j - 1 \in 1 .. len /\ KeyAt(z, j) = KeyAt(n, j - 1)
      BY <1>1, <2>3
    <3> QED BY <1>2, <3>1
  <2> QED BY <1>1, <2>1, <2>2, <2>3
<1>5. ASSUME NEW h \in 1 .. len + 1, NEW j \in 1 .. len + 1, h < j
      PROVE  /\ KeyAt(z, h) <= KeyAt(z, j)
             /\ (n.leaf \/ Alone) => KeyAt(z, h) < KeyAt(z, j)
  <2>1. CASE j < i
    BY <1>1, <1>2, <1>5, <2>1
  <2>2. CASE j = i
    BY <1>1, <1>3, <1>5, <2>2
  <2>3. CASE j > i
    <3>1. j - 1 \in 1 .. len /\ KeyAt(z, j) = KeyAt(n, j - 1) /\ j - 1 >= i
      BY <1>1, <2>3
    <3>2. CASE h < i
      <4>1. h \in 1 .. len /\ KeyAt(z, h) = KeyAt(n, h) /\ h < j - 1
        BY <1>1, <3>1, <3>2
      <4> QED BY <1>2, <3>1, <4>1
    <3>3. CASE h = i
      BY <1>1, <1>3, <3>1, <3>3
    <3>4. CASE h > i
      <4>1. h - 1 \in 1 .. len /\ KeyAt(z, h) = KeyAt(n, h - 1) /\ h - 1 < j - 1
        BY <1>1, <1>5, <3>4
      <4> QED BY <1>2, <3>1, <4>1
    <3> QED BY <1>1, <3>2, <3>3, <3>4
  <2> QED BY <1>1, <2>1, <2>2, <2>3
<1> QED BY <1>1, <1>4, <1>5 DEF Ordered

\* ... and so does a separator of the range of link i.
LEMMA OverOrdered ==
  ASSUME NEW n, Sound(n), NEW z, NEW i \in 1 .. Len(n.cells) + 1, NEW k \in Nat, NEW new,
         Over(n, z, i, k, new), NEW lo \in Int, NEW hi \in Int, Ordered(n, lo, hi), lo <= hi,
         LowOf(n, lo, i) <= k, k <= HighOf(n, hi, i),
         Alone => LowOf(n, lo, i) < k /\ k < HighOf(n, hi, i)
  PROVE  Ordered(z, lo, hi)
<1> DEFINE len == Len(n.cells)
<1>1. /\ len \in Nat /\ i \in 1 .. len + 1 /\ Len(z.cells) = len + 1 /\ z.leaf = FALSE /\ n.leaf = FALSE
      /\ \A j \in 1 .. len + 1 :
           KeyAt(z, j) = IF j < i THEN KeyAt(n, j) ELSE IF j = i THEN k ELSE KeyAt(n, j - 1)
  <2>1. z.leaf = FALSE /\ n.leaf = FALSE
    BY SoundType DEF Over
  <2> QED BY <2>1, SoundType DEF Over
<1>2. /\ \A j \in 1 .. len : KeyAt(n, j) \in Nat
      /\ \A h, j \in 1 .. len : h < j => KeyAt(n, h) <= KeyAt(n, j)
  BY KeyAtType DEF Ordered
<1>3. LowOf(n, lo, i) \in Int /\ lo <= LowOf(n, lo, i) /\ HighOf(n, hi, i) \in Int /\ HighOf(n, hi, i) <= hi
  BY LinkRange
<1> HIDE DEF len
<1>4. \A h \in 1 .. len : h < i => KeyAt(n, h) <= LowOf(n, lo, i)
  <2> SUFFICES ASSUME NEW h \in 1 .. len, h < i PROVE KeyAt(n, h) <= LowOf(n, lo, i)
    OBVIOUS
  <2>1. i # 1 /\ i - 1 \in 1 .. len /\ (h < i - 1 \/ h = i - 1)
    BY <1>1
  <2> QED BY <1>2, <2>1 DEF LowOf
<1>5. \A h \in 1 .. len : h >= i => HighOf(n, hi, i) <= KeyAt(n, h)
  <2> SUFFICES ASSUME NEW h \in 1 .. len, h >= i PROVE HighOf(n, hi, i) <= KeyAt(n, h)
    OBVIOUS
  <2>1. i # len + 1 /\ i \in 1 .. len /\ (i < h \/ i = h)
    BY <1>1
  <2> QED BY <1>2, <2>1 DEF HighOf, len
<1>6. \A h \in 1 .. len :
        /\ h < i => KeyAt(n, h) <= k /\ ((n.leaf \/ Alone) => KeyAt(n, h) < k)
        /\ h >= i => k <= KeyAt(n, h) /\ ((n.leaf \/ Alone) => k < KeyAt(n, h))
  BY <1>1, <1>2, <1>3, <1>4, <1>5
<1>7. lo <= k /\ k <= hi /\ (Alone => lo < k)
  BY <1>3
<1>8. z.leaf = n.leaf /\ Len(z.cells) = Len(n.cells) + 1
      /\ \A j \in 1 .. Len(n.cells) + 1 :
           KeyAt(z, j) = IF j < i THEN KeyAt(n, j) ELSE IF j = i THEN k ELSE KeyAt(n, j - 1)
  BY <1>1 DEF len
<1> QED BY <1>6, <1>7, <1>8, PutOrdered DEF len

-----------------------------------------------------------------------------
(***************************************************************************)
(* A split of page c, child i of page p, with page next for the new half.  *)
(***************************************************************************)
\* The pages before: c holds two cells or more, nothing leads to next.
Splittable(nodes, made, top, gone, w, c, next, p, i) ==
  /\ \A x \in PageIds : Sound(nodes[x])
  /\ Shape(nodes, made, top, gone, w)
  /\ p \in w.pages /\ ~nodes[p].leaf
  /\ i \in 1 .. Len(nodes[p].cells) + 1
  /\ c = Link(nodes[p], i) /\ Live(nodes[p], w.low[p], w.high[p], i)
  /\ Len(nodes[c].cells) >= 2
  /\ next \in PageIds /\ next \notin w.pages /\ next \notin gone
  /\ \A x \in PageIds : ~nodes[x].leaf =>
       \A j \in 1 .. Len(nodes[x].cells) + 1 : Link(nodes[x], j) # next

\* The pages after.
Splits(nodes, c, next, p, i, nodes2) ==
  /\ nodes2[c] = Lower(nodes[c], next)
  /\ nodes2[next] = Upper(nodes[c])
  /\ Over(nodes[p], nodes2[p], i, SplitKey(nodes[c]), next)
  /\ \A x \in PageIds : x # c /\ x # next /\ x # p => nodes2[x] = nodes[x]

\* The view of them: next has the upper part of the range.
SplitView(nodes, w, c, next, p, w2) ==
  LET split == SplitKey(nodes[c])
  IN  /\ w2 \in Views
      /\ \A x \in PageIds : x # next =>
           /\ x \in w2.pages <=> x \in w.pages /\ (x = c => w.low[c] < split)
           /\ w2.low[x] = w.low[x]
           /\ w2.high[x] = IF x = c THEN split ELSE w.high[x]
           /\ w2.up[x] = IF w.up[x] = c /\ split <= w.low[x] THEN next ELSE w.up[x]
           /\ w2.level[x] = w.level[x]
      /\ next \in w2.pages <=> split < w.high[c]
      /\ w2.low[next] = split /\ w2.high[next] = w.high[c]
      /\ w2.up[next] = p /\ w2.level[next] = w.level[c]

\* There is one.
LEMMA SplitViewExists ==
  ASSUME NEW nodes, NEW w \in Views, NEW c \in PageIds, NEW next \in PageIds, NEW p \in PageIds,
         SplitKey(nodes[c]) \in Nat
  PROVE  \E w2 \in Views : SplitView(nodes, w, c, next, p, w2)
<1> DEFINE split == SplitKey(nodes[c])
           pages == {x \in PageIds : \/ x # next /\ x \in w.pages /\ (x = c => w.low[c] < split)
                                     \/ x = next /\ split < w.high[c]}
           low == [x \in PageIds |-> IF x = next THEN split ELSE w.low[x]]
           high == [x \in PageIds |-> IF x = next THEN w.high[c]
                                      ELSE IF x = c THEN split ELSE w.high[x]]
           up == [x \in PageIds |-> IF x = next THEN p
                                    ELSE IF w.up[x] = c /\ split <= w.low[x] THEN next ELSE w.up[x]]
           level == [x \in PageIds |-> IF x = next THEN w.level[c] ELSE w.level[x]]
           w2 == [pages |-> pages, low |-> low, high |-> high, up |-> up, level |-> level]
<1>1. /\ w.low \in [PageIds -> Int] /\ w.high \in [PageIds -> Int]
      /\ w.up \in [PageIds -> PageIds \cup {0}] /\ w.level \in [PageIds -> Nat]
  BY DEF Views
<1>2. split \in Nat
  OBVIOUS
<1> HIDE DEF split
<1>3. /\ pages \in SUBSET PageIds /\ low \in [PageIds -> Int] /\ high \in [PageIds -> Int]
      /\ up \in [PageIds -> PageIds \cup {0}] /\ level \in [PageIds -> Nat]
  <2>1. pages \in SUBSET PageIds
    OBVIOUS
  <2>2. low \in [PageIds -> Int] /\ high \in [PageIds -> Int]
    BY <1>1, <1>2
  <2>3. up \in [PageIds -> PageIds \cup {0}] /\ level \in [PageIds -> Nat]
    BY <1>1
  <2> QED BY <2>1, <2>2, <2>3
<1>4. /\ w2.pages = pages /\ w2.low = low /\ w2.high = high /\ w2.up = up /\ w2.level = level
  OBVIOUS
<1>5. w2 \in Views
  <2> HIDE DEF pages, low, high, up, level
  <2> QED BY <1>3 DEF Views
<1> HIDE DEF w2
<1>6. SplitView(nodes, w, c, next, p, w2)
  BY <1>4, <1>5 DEF SplitView, split
<1> QED BY <1>5, <1>6

\* What the shape says of the pages that are split.
LEMMA SplitFacts ==
  ASSUME NEW nodes, NEW made, NEW top, NEW gone, NEW w, NEW c, NEW next, NEW p, NEW i,
         Splittable(nodes, made, top, gone, w, c, next, p, i)
  PROVE  LET n == nodes[c]
             split == SplitKey(n)
         IN  /\ w \in Views /\ w.pages \subseteq PageIds
             /\ c \in w.pages /\ p \in w.pages /\ c # p /\ c # next /\ p # next
             /\ w.up[c] = p /\ top # next /\ top # c
             /\ w.low[c] = LowOf(nodes[p], w.low[p], i)
             /\ w.high[c] = HighOf(nodes[p], w.high[p], i)
             /\ w.low[c] < w.high[c] /\ w.low[c] <= split /\ split <= w.high[c]
             /\ (n.leaf \/ Alone) => split < w.high[c]
             /\ Alone => w.low[c] < split
             /\ split \in Nat /\ ~nodes[top].leaf
             /\ Ordered(n, w.low[c], w.high[c])
             /\ \A x \in PageIds : w.low[x] \in Int /\ w.high[x] \in Int /\ w.level[x] \in Nat
             /\ \A x \in w.pages : w.low[x] < w.high[x] /\ Ordered(nodes[x], w.low[x], w.high[x])
<1>1. /\ Shape(nodes, made, top, gone, w) /\ w \in Views /\ \A x \in PageIds : Sound(nodes[x])
      /\ p \in w.pages /\ ~nodes[p].leaf
      /\ i \in 1 .. Len(nodes[p].cells) + 1
      /\ c = Link(nodes[p], i) /\ Live(nodes[p], w.low[p], w.high[p], i)
      /\ Len(nodes[c].cells) >= 2
      /\ next \in PageIds /\ next \notin w.pages
  BY DEF Splittable, Shape
<1>2. /\ w.pages \subseteq PageIds
      /\ \A x \in PageIds : w.low[x] \in Int /\ w.high[x] \in Int /\ w.level[x] \in Nat
  BY <1>1 DEF Views
<1>3. IsChild(nodes, gone, w, p, i)
  BY <1>1 DEF Shape, Linked
<1>4. /\ c \in w.pages /\ w.up[c] = p
      /\ w.low[c] = LowOf(nodes[p], w.low[p], i)
      /\ w.high[c] = HighOf(nodes[p], w.high[p], i)
      /\ w.level[c] < w.level[p]
  BY <1>1, <1>3 DEF IsChild
<1>5. c # p
  BY <1>2, <1>4
<1>6. \A x \in w.pages : w.low[x] < w.high[x] /\ Ordered(nodes[x], w.low[x], w.high[x])
  BY <1>1 DEF Shape, InRange
<1>7. top \in w.pages /\ w.up[top] = 0 /\ (nodes[top].leaf => w.pages = {top})
  BY <1>1 DEF Shape, AtTop, LeafTop
<1>8. p # 0
  BY <1>1, <1>2 DEF PageIds
<1>9. Sound(nodes[c]) /\ Ordered(nodes[c], w.low[c], w.high[c])
      /\ w.low[c] \in Int /\ w.high[c] \in Int
  BY <1>1, <1>2, <1>4, <1>6
<1> DEFINE n == nodes[c]
           lo == w.low[c]
           hi == w.high[c]
           split == SplitKey(n)
<1>10. /\ split \in Nat /\ lo <= split /\ split <= hi
       /\ (n.leaf \/ Alone) => split < hi
       /\ Alone => lo < split
  <2>1. Sound(n) /\ Len(n.cells) >= 2 /\ lo \in Int /\ hi \in Int /\ Ordered(n, lo, hi)
    BY <1>1, <1>9
  <2> HIDE DEF n, lo, hi
  <2> QED BY <1>1, <2>1, HalfRanges DEF split
<1> QED BY <1>1, <1>2, <1>4, <1>5, <1>6, <1>7, <1>8, <1>9, <1>10

\* All that is known of a split.
SplitStep(nodes, made, top, gone, w, c, next, p, i, nodes2, w2) ==
  /\ Splittable(nodes, made, top, gone, w, c, next, p, i)
  /\ Splits(nodes, c, next, p, i, nodes2)
  /\ SplitView(nodes, w, c, next, p, w2)

LEMMA SplitInRange ==
  ASSUME NEW nodes, NEW made \in Nat, NEW top, NEW gone, NEW w, NEW c, NEW next, NEW p, NEW i,
         NEW nodes2, NEW w2, NEW made2 \in Nat, made <= made2, next < made2,
         SplitStep(nodes, made, top, gone, w, c, next, p, i, nodes2, w2)
  PROVE  InRange(nodes2, made2, w2)
<1> DEFINE n == nodes[c]
           split == SplitKey(n)
           lo == w.low[c]
           hi == w.high[c]
<1>1. /\ Splittable(nodes, made, top, gone, w, c, next, p, i)
      /\ Splits(nodes, c, next, p, i, nodes2) /\ SplitView(nodes, w, c, next, p, w2)
  BY DEF SplitStep
<1>2. /\ w.pages \subseteq PageIds /\ c \in w.pages /\ p \in w.pages /\ c # p /\ c # next /\ p # next
      /\ lo = LowOf(nodes[p], w.low[p], i) /\ hi = HighOf(nodes[p], w.high[p], i)
      /\ lo < hi /\ lo <= split /\ split <= hi
      /\ (n.leaf \/ Alone) => split < hi
      /\ Alone => lo < split
      /\ split \in Nat
      /\ Ordered(n, lo, hi)
      /\ \A x \in PageIds : w.low[x] \in Int /\ w.high[x] \in Int
  BY <1>1, SplitFacts
<1>3. \A x \in w.pages : /\ x < made
                         /\ -1 <= w.low[x] /\ w.low[x] < w.high[x] /\ w.high[x] <= Top
                         /\ Ordered(nodes[x], w.low[x], w.high[x])
  BY <1>1 DEF Splittable, Shape, InRange
<1>4. /\ \A x \in PageIds : Sound(nodes[x])
      /\ next \in PageIds /\ Len(n.cells) >= 2 /\ i \in 1 .. Len(nodes[p].cells) + 1
  BY <1>1 DEF Splittable
<1>5. nodes2[c] = Lower(n, next) /\ nodes2[next] = Upper(n)
      /\ Over(nodes[p], nodes2[p], i, split, next)
      /\ \A x \in PageIds : x # c /\ x # next /\ x # p => nodes2[x] = nodes[x]
  BY <1>1 DEF Splits
<1>6. w2.pages \subseteq PageIds
  BY <1>1 DEF SplitView, Views
<1>7. /\ \A x \in PageIds : x # next =>
           /\ x \in w2.pages <=> x \in w.pages /\ (x = c => lo < split)
           /\ w2.low[x] = w.low[x]
           /\ w2.high[x] = IF x = c THEN split ELSE w.high[x]
      /\ next \in w2.pages <=> split < hi
      /\ w2.low[next] = split /\ w2.high[next] = hi
  BY <1>1 DEF SplitView
<1>8. Ordered(nodes2[c], lo, split) /\ Ordered(nodes2[next], split, hi)
  <2>1. Sound(n) /\ lo \in Int /\ hi \in Int
    BY <1>2, <1>4
  <2> HIDE DEF n, lo, hi
  <2>2. Ordered(Lower(n, next), lo, split) /\ Ordered(Upper(n), split, hi)
    BY <1>2, <1>4, <2>1, HalfRanges DEF split
  <2> QED BY <1>5, <2>2
<1>9. Ordered(nodes2[p], w.low[p], w.high[p])
  <2> DEFINE q == nodes[p]
             z == nodes2[p]
             l == w.low[p]
             h == w.high[p]
  <2>1. /\ Sound(q) /\ i \in 1 .. Len(q.cells) + 1 /\ split \in Nat /\ Over(q, z, i, split, next)
        /\ l \in Int /\ h \in Int /\ Ordered(q, l, h) /\ l <= h
        /\ LowOf(q, l, i) <= split /\ split <= HighOf(q, h, i)
        /\ Alone => LowOf(q, l, i) < split /\ split < HighOf(q, h, i)
    BY <1>2, <1>3, <1>4, <1>5
  <2> HIDE DEF q, z, l, h, split
  <2>2. Ordered(z, l, h)
    BY <2>1, OverOrdered
  <2> QED BY <2>2 DEF z, l, h
<1> HIDE DEF n, split, lo, hi
<1>10. -1 <= lo /\ lo < hi /\ hi <= Top /\ lo \in Int /\ hi \in Int /\ c < made
  BY <1>2, <1>3 DEF lo, hi
<1>11. Top \in Int
  BY BelowTop
<1> SUFFICES ASSUME NEW x \in w2.pages
             PROVE  /\ x < made2
                    /\ -1 <= w2.low[x] /\ w2.low[x] < w2.high[x] /\ w2.high[x] <= Top
                    /\ Ordered(nodes2[x], w2.low[x], w2.high[x])
  BY DEF InRange
<1>12. CASE x = next
  BY <1>2, <1>4, <1>7, <1>8, <1>10, <1>11, <1>12
<1>13. CASE x = c
  <2>1. /\ x # next /\ w2.low[x] = lo /\ w2.high[x] = split /\ lo < split /\ x \in PageIds
    BY <1>2, <1>6, <1>7, <1>13 DEF lo
  <2>2. x < made2
    BY <1>10, <1>13, <2>1 DEF PageIds
  <2> QED BY <1>2, <1>8, <1>10, <1>11, <1>13, <2>1, <2>2
<1>14. CASE x # c /\ x # next
  <2>1. /\ x \in PageIds /\ x \in w.pages /\ w2.low[x] = w.low[x] /\ w2.high[x] = w.high[x]
    BY <1>6, <1>7, <1>14
  <2>2. x < made2
    BY <1>3, <2>1 DEF PageIds
  <2>3. Ordered(nodes2[x], w.low[x], w.high[x])
    BY <1>3, <1>5, <1>9, <1>14, <2>1
  <2> QED BY <1>3, <2>1, <2>2, <2>3
<1> QED BY <1>12, <1>13, <1>14

\* Two links of a page that take keys lead to different pages.
LEMMA LinksApart ==
  ASSUME NEW nodes, NEW made, NEW top, NEW gone, NEW w, Shape(nodes, made, top, gone, w),
         \A x \in PageIds : Sound(nodes[x]),
         NEW p \in w.pages, ~nodes[p].leaf,
         NEW i \in 1 .. Len(nodes[p].cells) + 1, NEW j \in 1 .. Len(nodes[p].cells) + 1, i # j,
         Live(nodes[p], w.low[p], w.high[p], i), Live(nodes[p], w.low[p], w.high[p], j)
  PROVE  Link(nodes[p], i) # Link(nodes[p], j)
<1> DEFINE n == nodes[p]
           lo == w.low[p]
           hi == w.high[p]
<1>1. IsChild(nodes, gone, w, p, i) /\ IsChild(nodes, gone, w, p, j)
  BY DEF Shape, Linked
<1>2. /\ w.low[Link(n, i)] = LowOf(n, lo, i) /\ w.low[Link(n, j)] = LowOf(n, lo, j)
  BY <1>1 DEF IsChild
<1>3. /\ Sound(n) /\ lo \in Int /\ hi \in Int /\ Ordered(n, lo, hi) /\ lo <= hi
  BY DEF Shape, InRange, Views
<1>4. Live(n, lo, hi, i) /\ Live(n, lo, hi, j)
  OBVIOUS
<1>5. i \in 1 .. Len(n.cells) + 1 /\ j \in 1 .. Len(n.cells) + 1
  OBVIOUS
<1> HIDE DEF n, lo, hi
<1>6. /\ LowOf(n, lo, i) \in Int /\ LowOf(n, lo, j) \in Int
      /\ HighOf(n, hi, i) \in Int /\ HighOf(n, hi, j) \in Int
      /\ i < j => HighOf(n, hi, i) <= LowOf(n, lo, j)
      /\ j < i => HighOf(n, hi, j) <= LowOf(n, lo, i)
  BY <1>3, <1>5, LinkRange
<1>7. LowOf(n, lo, i) # LowOf(n, lo, j)
  BY <1>4, <1>5, <1>6 DEF Live
<1> QED BY <1>2, <1>7 DEF n

\* A page that is not split keeps its place, but children of c may have moved to next.
LEMMA SplitKeeps ==
  ASSUME NEW nodes, NEW made, NEW top, NEW gone, NEW w, NEW c, NEW next, NEW p, NEW i,
         NEW nodes2, NEW w2,
         SplitStep(nodes, made, top, gone, w, c, next, p, i, nodes2, w2),
         NEW d \in w.pages, d # c
  PROVE  /\ d \in w2.pages /\ d \in PageIds /\ d # next
         /\ w2.low[d] = w.low[d] /\ w2.high[d] = w.high[d] /\ w2.level[d] = w.level[d]
         /\ w2.up[d] = IF w.up[d] = c /\ SplitKey(nodes[c]) <= w.low[d] THEN next ELSE w.up[d]
<1>1. Splittable(nodes, made, top, gone, w, c, next, p, i) /\ SplitView(nodes, w, c, next, p, w2)
  BY DEF SplitStep
<1>2. w.pages \subseteq PageIds
  BY <1>1, SplitFacts
<1>3. next \notin w.pages
  BY <1>1 DEF Splittable
<1> QED BY <1>1, <1>2, <1>3 DEF SplitView

LEMMA SplitLinkedLower ==
  ASSUME NEW nodes, NEW made, NEW top, NEW gone, NEW w, NEW c, NEW next, NEW p, NEW i,
         NEW nodes2, NEW w2,
         SplitStep(nodes, made, top, gone, w, c, next, p, i, nodes2, w2),
         ~nodes[c].leaf,
         NEW j \in 1 .. Len(nodes2[c].cells) + 1, Live(nodes2[c], w2.low[c], w2.high[c], j)
  PROVE  IsChild(nodes2, gone, w2, c, j)
<1> DEFINE n == nodes[c]
           a == nodes2[c]
           m == SplitAt(n)
           split == SplitKey(n)
           lo == w.low[c]
           hi == w.high[c]
           d == Link(n, j)
<1>1. /\ Splittable(nodes, made, top, gone, w, c, next, p, i)
      /\ Splits(nodes, c, next, p, i, nodes2) /\ SplitView(nodes, w, c, next, p, w2)
  BY DEF SplitStep
<1>2. /\ w.pages \subseteq PageIds /\ c \in w.pages /\ c # next
      /\ Ordered(n, lo, hi) /\ lo \in Int /\ hi \in Int /\ split \in Nat
      /\ \A x \in PageIds : w.level[x] \in Nat
  BY <1>1, SplitFacts
<1>3. Sound(n) /\ next \in PageIds /\ Len(n.cells) >= 2
  BY <1>1, <1>2 DEF Splittable
<1>4. a = Lower(n, next)
  BY <1>1 DEF Splits
<1>5. w2.low[c] = lo /\ w2.high[c] = split /\ w2.level[c] = w.level[c]
  BY <1>1, <1>2 DEF SplitView
<1>6. Live(a, lo, split, j) /\ j \in 1 .. Len(a.cells) + 1
  BY <1>5
<1>7. /\ m \in 1 .. Len(n.cells) - 1 /\ Len(n.cells) \in Nat /\ Len(a.cells) = m
      /\ \A h \in 1 .. m : Link(a, h) = Link(n, h)
  <2> HIDE DEF n, a
  <2>1. /\ m \in 1 .. Len(n.cells) - 1 /\ Len(n.cells) \in Nat
        /\ Len(Lower(n, next).cells) = m
        /\ \A h \in 1 .. m : Link(Lower(n, next), h) = Link(n, h)
    BY <1>3, HalfPlaces DEF m
  <2> QED BY <1>4, <2>1
<1>8. /\ \A h \in 1 .. m : /\ LowOf(a, lo, h) = LowOf(n, lo, h)
                           /\ HighOf(a, split, h) = HighOf(n, hi, h)
                           /\ HighOf(n, hi, h) <= split
      /\ ~Live(a, lo, split, m + 1)
  <2> HIDE DEF n, lo, hi
  <2> QED BY <1>2, <1>3, <1>4, HalfRanges DEF m, split
<1> HIDE DEF m, a, split
<1>9. j \in 1 .. m /\ j \in 1 .. Len(n.cells) + 1
  BY <1>6, <1>7, <1>8
<1>10. Link(a, j) = d /\ Live(n, lo, hi, j)
       /\ LowOf(a, lo, j) = LowOf(n, lo, j) /\ HighOf(a, split, j) = HighOf(n, hi, j)
  BY <1>6, <1>7, <1>8, <1>9 DEF Live
<1>11. IsChild(nodes, gone, w, c, j)
  BY <1>1, <1>2, <1>9, <1>10 DEF Splittable, Shape, Linked
<1>12. /\ d \in w.pages /\ w.up[d] = c
       /\ w.low[d] = LowOf(n, lo, j) /\ w.high[d] = HighOf(n, hi, j)
       /\ w.level[d] < w.level[c]
       /\ gone = {} => w.level[d] + 1 = w.level[c]
  BY <1>11 DEF IsChild
<1>13. d # c
  BY <1>2, <1>12
<1> HIDE DEF d, n, lo, hi
<1>14. ~(split <= w.low[d])
  <2>1. Sound(n) /\ Ordered(n, lo, hi) /\ lo \in Int /\ hi \in Int /\ lo <= hi
    BY <1>1, <1>2, <1>3, SplitFacts DEF n, lo, hi
  <2>2. LowOf(n, lo, j) \in Int /\ HighOf(n, hi, j) \in Int
    BY <1>9, <2>1, LinkRange
  <2> QED BY <1>2, <1>8, <1>9, <1>10, <1>12, <2>2 DEF Live
<1>15. /\ d \in w2.pages /\ w2.low[d] = w.low[d] /\ w2.high[d] = w.high[d]
       /\ w2.level[d] = w.level[d] /\ w2.up[d] = c
  BY <1>12, <1>13, <1>14, SplitKeeps DEF split, n
<1> QED BY <1>5, <1>10, <1>12, <1>15 DEF IsChild, a

LEMMA SplitLinkedUpper ==
  ASSUME NEW nodes, NEW made, NEW top, NEW gone, NEW w, NEW c, NEW next, NEW p, NEW i,
         NEW nodes2, NEW w2,
         SplitStep(nodes, made, top, gone, w, c, next, p, i, nodes2, w2),
         ~nodes[c].leaf,
         NEW j \in 1 .. Len(nodes2[next].cells) + 1,
         Live(nodes2[next], w2.low[next], w2.high[next], j)
  PROVE  IsChild(nodes2, gone, w2, next, j)
<1> DEFINE n == nodes[c]
           b == nodes2[next]
           m == SplitAt(n)
           split == SplitKey(n)
           lo == w.low[c]
           hi == w.high[c]
           d == Link(n, m + j)
<1>1. /\ Splittable(nodes, made, top, gone, w, c, next, p, i)
      /\ Splits(nodes, c, next, p, i, nodes2) /\ SplitView(nodes, w, c, next, p, w2)
  BY DEF SplitStep
<1>2. /\ w.pages \subseteq PageIds /\ c \in w.pages /\ c # next
      /\ Ordered(n, lo, hi) /\ lo \in Int /\ hi \in Int /\ split \in Nat
      /\ \A x \in PageIds : w.level[x] \in Nat
  BY <1>1, SplitFacts
<1>3. Sound(n) /\ next \in PageIds /\ Len(n.cells) >= 2
  BY <1>1, <1>2 DEF Splittable
<1>4. b = Upper(n)
  BY <1>1 DEF Splits
<1>5. w2.low[next] = split /\ w2.high[next] = hi /\ w2.level[next] = w.level[c]
  BY <1>1 DEF SplitView
<1>6. Live(b, split, hi, j) /\ j \in 1 .. Len(b.cells) + 1
  BY <1>5
<1>7. /\ m \in 1 .. Len(n.cells) - 1 /\ Len(n.cells) \in Nat /\ Len(b.cells) = Len(n.cells) - m
      /\ \A h \in 1 .. Len(n.cells) - m + 1 : Link(b, h) = Link(n, m + h)
  <2> HIDE DEF n
  <2> QED BY <1>3, <1>4, HalfPlaces DEF m
<1>8. \A h \in 1 .. Len(n.cells) - m + 1 :
         /\ LowOf(b, split, h) = LowOf(n, lo, m + h)
         /\ HighOf(b, hi, h) = HighOf(n, hi, m + h)
         /\ split <= LowOf(n, lo, m + h)
  <2> HIDE DEF n, lo, hi
  <2> QED BY <1>2, <1>3, <1>4, HalfRanges DEF m, split
<1> HIDE DEF m, b, split
<1>9. j \in 1 .. Len(n.cells) - m + 1 /\ m + j \in 1 .. Len(n.cells) + 1
  BY <1>6, <1>7
<1>10. Link(b, j) = d /\ Live(n, lo, hi, m + j)
       /\ LowOf(b, split, j) = LowOf(n, lo, m + j) /\ HighOf(b, hi, j) = HighOf(n, hi, m + j)
  BY <1>6, <1>7, <1>8, <1>9 DEF Live
<1>11. IsChild(nodes, gone, w, c, m + j)
  BY <1>1, <1>2, <1>9, <1>10 DEF Splittable, Shape, Linked
<1>12. /\ d \in w.pages /\ w.up[d] = c
       /\ w.low[d] = LowOf(n, lo, m + j) /\ w.high[d] = HighOf(n, hi, m + j)
       /\ w.level[d] < w.level[c]
       /\ gone = {} => w.level[d] + 1 = w.level[c]
  BY <1>11 DEF IsChild
<1>13. d # c
  BY <1>2, <1>12
<1> HIDE DEF d, n, lo, hi
<1>14. split <= w.low[d]
  BY <1>8, <1>9, <1>12
<1>15. /\ d \in w2.pages /\ w2.low[d] = w.low[d] /\ w2.high[d] = w.high[d]
       /\ w2.level[d] = w.level[d] /\ w2.up[d] = next
  BY <1>12, <1>13, <1>14, SplitKeeps DEF split, n
<1> QED BY <1>5, <1>10, <1>12, <1>15 DEF IsChild, b

LEMMA SplitLinkedParent ==
  ASSUME NEW nodes, NEW made, NEW top, NEW gone, NEW w, NEW c, NEW next, NEW p, NEW i,
         NEW nodes2, NEW w2,
         SplitStep(nodes, made, top, gone, w, c, next, p, i, nodes2, w2),
         NEW j \in 1 .. Len(nodes2[p].cells) + 1, Live(nodes2[p], w2.low[p], w2.high[p], j)
  PROVE  IsChild(nodes2, gone, w2, p, j)
<1> DEFINE n == nodes[p]
           z == nodes2[p]
           split == SplitKey(nodes[c])
           lo == w.low[p]
           hi == w.high[p]
<1>1. /\ Splittable(nodes, made, top, gone, w, c, next, p, i)
      /\ Splits(nodes, c, next, p, i, nodes2) /\ SplitView(nodes, w, c, next, p, w2)
  BY DEF SplitStep
<1>2. /\ w.pages \subseteq PageIds /\ c \in w.pages /\ p \in w.pages
      /\ c # p /\ c # next /\ p # next /\ w.up[c] = p
      /\ w.low[c] = LowOf(n, lo, i) /\ w.high[c] = HighOf(n, hi, i)
      /\ split \in Nat /\ lo \in Int /\ hi \in Int
      /\ Ordered(n, lo, hi) /\ lo < hi
      /\ \A x \in PageIds : w.low[x] \in Int /\ w.high[x] \in Int
  BY <1>1, SplitFacts
<1>3. Sound(n) /\ i \in 1 .. Len(n.cells) + 1 /\ Link(n, i) = c /\ Live(n, lo, hi, i)
      /\ Shape(nodes, made, top, gone, w) /\ ~n.leaf /\ \A x \in PageIds : Sound(nodes[x])
  BY <1>1, <1>2 DEF Splittable
<1>4. Over(n, z, i, split, next)
  BY <1>1 DEF Splits
<1>5. /\ w2.low[p] = lo /\ w2.high[p] = hi /\ w2.level[p] = w.level[p]
      /\ c \in w2.pages <=> w.low[c] < split
      /\ w2.low[c] = w.low[c] /\ w2.high[c] = split /\ w2.level[c] = w.level[c] /\ w2.up[c] = p
      /\ next \in w2.pages <=> split < w.high[c]
      /\ w2.low[next] = split /\ w2.high[next] = w.high[c]
      /\ w2.up[next] = p /\ w2.level[next] = w.level[c]
  BY <1>1, <1>2 DEF SplitView
<1>6. Len(n.cells) \in Nat /\ Len(z.cells) = Len(n.cells) + 1
  BY <1>3, <1>4, SoundType DEF Over
<1>7. j \in 1 .. Len(n.cells) + 2 /\ Live(z, lo, hi, j)
  BY <1>5, <1>6
<1>8. /\ LowOf(z, lo, j) = IF j <= i THEN LowOf(n, lo, j)
                           ELSE IF j = i + 1 THEN split ELSE LowOf(n, lo, j - 1)
      /\ HighOf(z, hi, j) = IF j < i THEN HighOf(n, hi, j)
                            ELSE IF j = i THEN split ELSE HighOf(n, hi, j - 1)
  <2> HIDE DEF n, z, lo, hi, split
  <2>1. LinksOver(n, z, i, split, lo, hi)
    <3>1. Sound(n) /\ i \in 1 .. Len(n.cells) + 1 /\ split \in Nat /\ Over(n, z, i, split, next)
          /\ lo \in Int /\ hi \in Int
      BY <1>2, <1>3, <1>4
    <3> QED BY <3>1, OverRanges
  <2> QED BY <1>7, <2>1 DEF LinksOver
<1>9. Link(z, j) = IF j <= i THEN Link(n, j) ELSE IF j = i + 1 THEN next ELSE Link(n, j - 1)
  BY <1>4, <1>7 DEF Over
<1>10. IsChild(nodes, gone, w, p, i)
  BY <1>2, <1>3 DEF Shape, Linked
<1>11. w.level[c] < w.level[p] /\ (gone = {} => w.level[c] + 1 = w.level[p])
  BY <1>3, <1>10 DEF IsChild
<1> HIDE DEF split
<1>12. ASSUME NEW h \in 1 .. Len(n.cells) + 1, h # i, Link(z, j) = Link(n, h),
              LowOf(z, lo, j) = LowOf(n, lo, h), HighOf(z, hi, j) = HighOf(n, hi, h)
       PROVE  IsChild(nodes2, gone, w2, p, j)
  <2> DEFINE d == Link(n, h)
  <2>1. Live(n, lo, hi, h)
    BY <1>7, <1>12 DEF Live
  <2>2. IsChild(nodes, gone, w, p, h)
    BY <1>2, <1>3, <2>1 DEF Shape, Linked
  <2>3. /\ d \in w.pages /\ w.up[d] = p
        /\ w.low[d] = LowOf(n, lo, h) /\ w.high[d] = HighOf(n, hi, h)
        /\ w.level[d] < w.level[p]
        /\ gone = {} => w.level[d] + 1 = w.level[p]
    BY <2>2 DEF IsChild
  <2>4. d # c
    BY <1>2, <1>3, <1>12, <2>1, LinksApart
  <2> HIDE DEF d
  <2>5. /\ d \in w2.pages /\ w2.low[d] = w.low[d] /\ w2.high[d] = w.high[d]
        /\ w2.level[d] = w.level[d] /\ w2.up[d] = p
    BY <1>2, <2>3, <2>4, SplitKeeps
  <2>6. Link(z, j) = d
    BY <1>12 DEF d
  <2> QED BY <1>5, <1>12, <2>3, <2>5, <2>6 DEF IsChild, z
<1>13. CASE j < i
  <2>1. j \in 1 .. Len(n.cells) + 1 /\ j # i
    BY <1>3, <1>6, <1>7, <1>13
  <2>2. Link(z, j) = Link(n, j) /\ LowOf(z, lo, j) = LowOf(n, lo, j) /\ HighOf(z, hi, j) = HighOf(n, hi, j)
    BY <1>3, <1>7, <1>8, <1>9, <1>13
  <2> QED BY <1>12, <2>1, <2>2
<1>14. CASE j = i
  <2>1. Link(z, j) = c /\ LowOf(z, lo, j) = w.low[c] /\ HighOf(z, hi, j) = split
    BY <1>2, <1>3, <1>8, <1>9, <1>14
  <2> QED BY <1>5, <1>7, <1>11, <2>1 DEF IsChild, Live, z
<1>15. CASE j = i + 1
  <2>1. Link(z, j) = next /\ LowOf(z, lo, j) = split /\ HighOf(z, hi, j) = w.high[c]
    BY <1>2, <1>3, <1>8, <1>9, <1>15
  <2> QED BY <1>5, <1>7, <1>11, <2>1 DEF IsChild, Live, z
<1>16. CASE j > i + 1
  <2>1. j - 1 \in 1 .. Len(n.cells) + 1 /\ j - 1 # i
    BY <1>3, <1>6, <1>7, <1>16
  <2>2. /\ Link(z, j) = Link(n, j - 1) /\ LowOf(z, lo, j) = LowOf(n, lo, j - 1)
        /\ HighOf(z, hi, j) = HighOf(n, hi, j - 1)
    BY <1>3, <1>7, <1>8, <1>9, <1>16
  <2> DEFINE h == j - 1
  <2>3. h \in 1 .. Len(n.cells) + 1 /\ h # i /\ Link(z, j) = Link(n, h)
        /\ LowOf(z, lo, j) = LowOf(n, lo, h) /\ HighOf(z, hi, j) = HighOf(n, hi, h)
    BY <2>1, <2>2
  <2> HIDE DEF h
  <2> QED BY <1>12, <2>3
<1> QED BY <1>3, <1>7, <1>13, <1>14, <1>15, <1>16

LEMMA SplitLinked ==
  ASSUME NEW nodes, NEW made, NEW top, NEW gone, NEW w, NEW c, NEW next, NEW p, NEW i,
         NEW nodes2, NEW w2,
         SplitStep(nodes, made, top, gone, w, c, next, p, i, nodes2, w2)
  PROVE  Linked(nodes2, gone, w2)
<1> SUFFICES ASSUME NEW x \in w2.pages, ~nodes2[x].leaf,
                    NEW j \in 1 .. Len(nodes2[x].cells) + 1,
                    Live(nodes2[x], w2.low[x], w2.high[x], j)
             PROVE  IsChild(nodes2, gone, w2, x, j)
  BY DEF Linked
<1>1. /\ Splittable(nodes, made, top, gone, w, c, next, p, i)
      /\ Splits(nodes, c, next, p, i, nodes2) /\ SplitView(nodes, w, c, next, p, w2)
  BY DEF SplitStep
<1>2. /\ w.pages \subseteq PageIds /\ c \in w.pages /\ p \in w.pages
      /\ c # p /\ c # next /\ p # next /\ w.up[c] = p
      /\ \A y \in PageIds : w.level[y] \in Nat
  BY <1>1, SplitFacts
<1>3. w2.pages \subseteq PageIds
  BY <1>1 DEF SplitView, Views
<1>4. nodes2[c].leaf = nodes[c].leaf /\ nodes2[next].leaf = nodes[c].leaf
  <2>1. Sound(nodes[c]) /\ Len(nodes[c].cells) >= 2 /\ next \in PageIds
    BY <1>1, <1>2 DEF Splittable
  <2> DEFINE n == nodes[c]
  <2>2. Sound(n) /\ Len(n.cells) >= 2
    BY <2>1
  <2> HIDE DEF n
  <2>3. Lower(n, next).leaf = n.leaf /\ Upper(n).leaf = n.leaf
    BY <2>1, <2>2, HalfPlaces
  <2> QED BY <1>1, <2>3 DEF n, Splits
<1>5. CASE x = c
  BY <1>4, <1>5, SplitLinkedLower
<1>6. CASE x = next
  BY <1>4, <1>6, SplitLinkedUpper
<1>7. CASE x = p
  BY <1>7, SplitLinkedParent
<1>8. CASE x # c /\ x # next /\ x # p
  <2> DEFINE n == nodes[x]
             d == Link(n, j)
  <2>1. /\ nodes2[x] = n /\ x \in w.pages /\ w2.low[x] = w.low[x] /\ w2.high[x] = w.high[x]
        /\ w2.level[x] = w.level[x]
    BY <1>1, <1>3, <1>8 DEF Splits, SplitView
  <2>2. IsChild(nodes, gone, w, x, j)
    BY <1>1, <2>1 DEF Splittable, Shape, Linked
  <2>3. /\ d \in w.pages /\ w.up[d] = x
        /\ w.low[d] = LowOf(n, w.low[x], j) /\ w.high[d] = HighOf(n, w.high[x], j)
        /\ w.level[d] < w.level[x]
        /\ gone = {} => w.level[d] + 1 = w.level[x]
    BY <2>2 DEF IsChild
  <2>4. d # c
    BY <1>2, <1>8, <2>3
  <2>5. Link(nodes2[x], j) = d
    BY <2>1
  <2> HIDE DEF d
  <2>6. /\ d \in w2.pages /\ w2.low[d] = w.low[d] /\ w2.high[d] = w.high[d]
        /\ w2.level[d] = w.level[d] /\ w2.up[d] = x
    BY <1>8, <2>3, <2>4, SplitKeeps
  <2> QED BY <2>1, <2>3, <2>5, <2>6 DEF IsChild
<1> QED BY <1>5, <1>6, <1>7, <1>8

\* What the pages are after the split.
SplitPlaces(nodes, c, next, p, nodes2) ==
  LET n == nodes[c]
      m == SplitAt(n)
  IN  /\ nodes2[c].leaf = n.leaf /\ nodes2[next].leaf = n.leaf
      /\ ~nodes[p].leaf /\ ~nodes2[p].leaf
      /\ \A x \in PageIds : x # c /\ x # next /\ x # p => nodes2[x] = nodes[x]
      /\ Sound(n) /\ m \in 1 .. Len(n.cells) - 1 /\ Len(n.cells) \in Nat
      /\ Len(nodes2[c].cells) = m /\ Len(nodes2[next].cells) = Len(n.cells) - m
      /\ \A j \in 1 .. m : /\ KeyAt(nodes2[c], j) = KeyAt(n, j)
                           /\ Link(nodes2[c], j) = Link(n, j)
      /\ \A j \in 1 .. Len(n.cells) - m : /\ KeyAt(nodes2[next], j) = KeyAt(n, m + j)
                                          /\ Link(nodes2[next], j) = Link(n, m + j)
      /\ SplitKey(n) = KeyAt(n, m)
      /\ nodes2[c].right = next /\ nodes2[next].right = n.right

LEMMA SplitPages ==
  ASSUME NEW nodes, NEW made, NEW top, NEW gone, NEW w, NEW c, NEW next, NEW p, NEW i,
         NEW nodes2, NEW w2,
         SplitStep(nodes, made, top, gone, w, c, next, p, i, nodes2, w2)
  PROVE  SplitPlaces(nodes, c, next, p, nodes2)
<1>1. /\ Splittable(nodes, made, top, gone, w, c, next, p, i)
      /\ Splits(nodes, c, next, p, i, nodes2)
  BY DEF SplitStep
<1> DEFINE n == nodes[c]
           m == SplitAt(n)
           a == Lower(n, next)
           b == Upper(n)
<1>2. c \in PageIds
  BY <1>1, SplitFacts
<1>3. Sound(n) /\ Len(n.cells) >= 2 /\ next \in PageIds
  BY <1>1, <1>2 DEF Splittable
<1>4. nodes2[c] = a /\ nodes2[next] = b /\ ~nodes[p].leaf /\ ~nodes2[p].leaf
      /\ \A x \in PageIds : x # c /\ x # next /\ x # p => nodes2[x] = nodes[x]
  BY <1>1 DEF Splits, Over
<1> HIDE DEF n
<1>5. /\ a.leaf = n.leaf /\ b.leaf = n.leaf
      /\ m \in 1 .. Len(n.cells) - 1 /\ Len(n.cells) \in Nat
      /\ Len(a.cells) = m /\ Len(b.cells) = Len(n.cells) - m
      /\ \A j \in 1 .. m : KeyAt(a, j) = KeyAt(n, j) /\ Link(a, j) = Link(n, j)
      /\ \A j \in 1 .. Len(n.cells) - m : KeyAt(b, j) = KeyAt(n, m + j)
      /\ SplitKey(n) = KeyAt(n, m) /\ a.right = next /\ b.right = n.right
  BY <1>3, HalfPlaces
<1>6. \A j \in 1 .. Len(n.cells) - m : Link(b, j) = Link(n, m + j)
  <2>1. \A j \in 1 .. Len(n.cells) - m + 1 : Link(b, j) = Link(n, m + j)
    BY <1>3, HalfPlaces
  <2>2. \A j \in 1 .. Len(n.cells) - m : j \in 1 .. Len(n.cells) - m + 1
    BY <1>5
  <2> HIDE DEF m, b
  <2> QED BY <2>1, <2>2
<1> HIDE DEF a, b, m
<1> QED BY <1>3, <1>4, <1>5, <1>6 DEF m, n, SplitPlaces

LEMMA SplitLeavesApart ==
  ASSUME NEW nodes, NEW made, NEW top, NEW gone, NEW w, NEW c, NEW next, NEW p, NEW i,
         NEW nodes2, NEW w2,
         SplitStep(nodes, made, top, gone, w, c, next, p, i, nodes2, w2)
  PROVE  LeavesApart(nodes2, w2)
<1> DEFINE split == SplitKey(nodes[c])
           From(x) == IF x = next THEN c ELSE x
<1>1. /\ Splittable(nodes, made, top, gone, w, c, next, p, i)
      /\ SplitView(nodes, w, c, next, p, w2)
  BY DEF SplitStep
<1>2. /\ w.pages \subseteq PageIds /\ c \in w.pages /\ c # next /\ p # next
      /\ w.low[c] <= split /\ split <= w.high[c] /\ split \in Nat
      /\ \A x \in PageIds : w.low[x] \in Int /\ w.high[x] \in Int
  BY <1>1, SplitFacts
<1>3. LeavesApart(nodes, w)
  BY <1>1 DEF Splittable, Shape
<1>4. w2.pages \subseteq PageIds
  BY <1>1 DEF SplitView, Views
<1>5. ASSUME NEW x \in w2.pages, nodes2[x].leaf
      PROVE  /\ From(x) \in w.pages /\ nodes[From(x)].leaf
             /\ x = next => w2.low[x] = split /\ w2.high[x] = w.high[c]
             /\ x = c => w2.low[x] = w.low[c] /\ w2.high[x] = split
             /\ (x # c /\ x # next) => w2.low[x] = w.low[x] /\ w2.high[x] = w.high[x]
  <2>1. CASE x = next
    BY <1>1, <1>2, <1>5, <2>1, SplitPages DEF SplitView, SplitPlaces
  <2>2. CASE x # next
    <3>1. x \in w.pages /\ x \in PageIds
      BY <1>1, <1>4, <2>2 DEF SplitView
    <3>2. nodes[x].leaf
      BY <1>5, <2>2, <3>1, SplitPages DEF SplitPlaces
    <3> QED BY <1>1, <2>2, <3>1, <3>2 DEF SplitView
  <2> QED BY <2>1, <2>2
<1> SUFFICES ASSUME NEW x \in w2.pages, NEW y \in w2.pages,
                    nodes2[x].leaf, nodes2[y].leaf, x # y
             PROVE  w2.high[x] <= w2.low[y] \/ w2.high[y] <= w2.low[x]
  BY DEF LeavesApart
<1> HIDE DEF split
<1>6. CASE From(x) = From(y)
  BY <1>2, <1>5, <1>6
<1>7. CASE From(x) # From(y)
  <2>1. w.high[From(x)] <= w.low[From(y)] \/ w.high[From(y)] <= w.low[From(x)]
    <3>1. From(x) \in w.pages /\ nodes[From(x)].leaf /\ From(y) \in w.pages /\ nodes[From(y)].leaf
      BY <1>5
    <3> HIDE DEF From
    <3> QED BY <1>3, <1>7, <3>1 DEF LeavesApart
  <2>2. w.low[From(x)] <= w2.low[x] /\ w2.high[x] <= w.high[From(x)]
    BY <1>2, <1>4, <1>5
  <2>3. w.low[From(y)] <= w2.low[y] /\ w2.high[y] <= w.high[From(y)]
    BY <1>2, <1>4, <1>5
  <2>4. /\ From(x) \in PageIds /\ From(y) \in PageIds
    BY <1>2, <1>4
  <2>5. w2.low[x] \in Int /\ w2.high[x] \in Int /\ w2.low[y] \in Int /\ w2.high[y] \in Int
    BY <1>1, <1>4 DEF SplitView, Views
  <2> HIDE DEF From
  <2> QED BY <1>2, <2>1, <2>2, <2>3, <2>4, <2>5
<1> QED BY <1>6, <1>7

LEMMA SplitCellsDescend ==
  ASSUME NEW nodes, NEW made, NEW top, NEW gone, NEW w, NEW c, NEW next, NEW p, NEW i,
         NEW nodes2, NEW w2,
         SplitStep(nodes, made, top, gone, w, c, next, p, i, nodes2, w2),
         nodes2 \in [PageIds -> AnyPage], \A x \in PageIds : Sound(nodes2[x])
  PROVE  CellsDescend(nodes2, top, w2)
<1>1. /\ Splittable(nodes, made, top, gone, w, c, next, p, i)
      /\ Splits(nodes, c, next, p, i, nodes2) /\ SplitView(nodes, w, c, next, p, w2)
  BY DEF SplitStep
<1>2. /\ w.pages \subseteq PageIds /\ c \in w.pages /\ p \in w.pages
      /\ c # p /\ c # next /\ p # next /\ top # next /\ top # c
  BY <1>1, SplitFacts
<1>3. /\ \A x \in PageIds : ~nodes[x].leaf =>
           \A j \in 1 .. Len(nodes[x].cells) + 1 : Link(nodes[x], j) # next
      /\ i \in 1 .. Len(nodes[p].cells) + 1 /\ Link(nodes[p], i) = c
      /\ Live(nodes[p], w.low[p], w.high[p], i) /\ ~nodes[p].leaf
      /\ Shape(nodes, made, top, gone, w) /\ next \in PageIds
      /\ \A x \in PageIds : Sound(nodes[x])
  BY <1>1 DEF Splittable
<1>4. /\ \A x \in PageIds : x # next => w2.level[x] = w.level[x]
      /\ w2.level[next] = w.level[c]
  BY <1>1 DEF SplitView
<1>5. \A x \in PageIds : ~nodes[x].leaf =>
        \A j \in 1 .. Len(nodes[x].cells) :
          w.level[Link(nodes[x], j)] < w.level[x] /\ Link(nodes[x], j) # top
  BY <1>3 DEF Shape, CellsDescend
<1>6. \A x \in PageIds : ~nodes[x].leaf =>
        \A j \in 1 .. Len(nodes[x].cells) : Link(nodes[x], j) \in PageIds /\ Link(nodes[x], j) # next
  <2> SUFFICES ASSUME NEW x \in PageIds, ~nodes[x].leaf, NEW j \in 1 .. Len(nodes[x].cells)
               PROVE  Link(nodes[x], j) \in PageIds /\ Link(nodes[x], j) # next
    OBVIOUS
  <2> DEFINE n == nodes[x]
  <2>1. Sound(n) /\ ~n.leaf
    BY <1>3
  <2>2. j \in 1 .. Len(n.cells) + 1
    <3> HIDE DEF n
    <3>1. Len(n.cells) \in Nat
      BY <2>1, SoundType
    <3>2. j \in 1 .. Len(n.cells)
      BY DEF n
    <3> QED BY <3>1, <3>2
  <2>3. Link(n, j) \in PageIds
    <3> HIDE DEF n
    <3> QED BY <2>1, <2>2, LinkType
  <2> QED BY <1>3, <2>2, <2>3
<1>7. ASSUME NEW x \in PageIds, ~nodes[x].leaf, NEW j \in 1 .. Len(nodes[x].cells)
      PROVE  /\ Link(nodes[x], j) \in PageIds /\ Link(nodes[x], j) # next
             /\ w2.level[Link(nodes[x], j)] < w.level[x]
             /\ Link(nodes[x], j) # top
  BY <1>4, <1>5, <1>6, <1>7
<1>8. w.level[c] < w.level[p]
  BY <1>2, <1>3 DEF Shape, Linked, IsChild
<1> SUFFICES ASSUME NEW x \in PageIds, ~nodes2[x].leaf, NEW j \in 1 .. Len(nodes2[x].cells)
             PROVE  w2.level[Link(nodes2[x], j)] < w2.level[x] /\ Link(nodes2[x], j) # top
  BY DEF CellsDescend
<1> DEFINE n == nodes[c]
           m == SplitAt(n)
<1>9. /\ nodes2[c].leaf = n.leaf /\ nodes2[next].leaf = n.leaf
      /\ m \in 1 .. Len(n.cells) - 1 /\ Len(n.cells) \in Nat
      /\ Len(nodes2[c].cells) = m /\ Len(nodes2[next].cells) = Len(n.cells) - m
      /\ \A h \in 1 .. m : Link(nodes2[c], h) = Link(n, h)
      /\ \A h \in 1 .. Len(n.cells) - m : Link(nodes2[next], h) = Link(n, m + h)
      /\ \A y \in PageIds : y # c /\ y # next /\ y # p => nodes2[y] = nodes[y]
  <2>1. SplitPlaces(nodes, c, next, p, nodes2)
    BY SplitPages
  <2> QED BY <2>1 DEF SplitPlaces
<1> HIDE DEF n, m
<1>10. CASE x = c
  <2>1. j \in 1 .. m /\ j \in 1 .. Len(n.cells)
    BY <1>9, <1>10
  <2>2. Link(nodes2[x], j) = Link(n, j)
    BY <1>9, <1>10, <2>1
  <2> QED BY <1>2, <1>4, <1>7, <1>9, <1>10, <2>1, <2>2 DEF n
<1>11. CASE x = next
  <2>1. j \in 1 .. Len(n.cells) - m /\ m + j \in 1 .. Len(n.cells)
    BY <1>9, <1>11
  <2>2. Link(nodes2[x], j) = Link(n, m + j)
    BY <1>9, <1>11, <2>1
  <2> QED BY <1>2, <1>4, <1>7, <1>9, <1>11, <2>1, <2>2 DEF n
<1>12. CASE x = p
  <2> DEFINE q == nodes[p]
             z == nodes2[p]
  <2>1. /\ Len(z.cells) = Len(q.cells) + 1
        /\ \A h \in 1 .. Len(q.cells) + 2 :
             Link(z, h) = IF h <= i THEN Link(q, h) ELSE IF h = i + 1 THEN next ELSE Link(q, h - 1)
    BY <1>1 DEF Splits, Over
  <2>2. Len(q.cells) \in Nat /\ p \in PageIds /\ w2.level[p] = w.level[p] /\ p # next
    <3>1. Sound(q)
      BY <1>2, <1>3
    <3> HIDE DEF q
    <3> QED BY <1>2, <1>4, <3>1, SoundType
  <2>3. j \in 1 .. Len(q.cells) + 1 /\ j \in 1 .. Len(q.cells) + 2
    BY <1>12, <2>1, <2>2
  <2>4. i \in 1 .. Len(q.cells) + 1 /\ Link(q, i) = c
    BY <1>3
  <2>5. CASE j < i
    <3>1. j \in 1 .. Len(q.cells) /\ Link(z, j) = Link(q, j)
      BY <2>1, <2>2, <2>3, <2>4, <2>5
    <3> QED BY <1>3, <1>7, <1>12, <2>2, <3>1
  <2>6. CASE j = i
    <3>1. Link(z, j) = c
      BY <2>1, <2>2, <2>3, <2>4, <2>6
    <3> QED BY <1>2, <1>4, <1>8, <1>12, <2>2, <3>1
  <2>7. CASE j = i + 1
    <3>1. Link(z, j) = next
      BY <2>1, <2>2, <2>3, <2>4, <2>7
    <3> QED BY <1>2, <1>4, <1>8, <1>12, <2>2, <3>1
  <2>8. CASE j > i + 1
    <3>1. j - 1 \in 1 .. Len(q.cells) /\ Link(z, j) = Link(q, j - 1)
      BY <2>1, <2>2, <2>3, <2>4, <2>8
    <3> DEFINE h == j - 1
    <3>2. h \in 1 .. Len(q.cells) /\ Link(z, j) = Link(q, h)
      BY <3>1
    <3> HIDE DEF h
    <3> QED BY <1>3, <1>7, <1>12, <2>2, <3>2
  <2> QED BY <2>2, <2>3, <2>4, <2>5, <2>6, <2>7, <2>8
<1>13. CASE x # c /\ x # next /\ x # p
  <2>1. nodes2[x] = nodes[x]
    BY <1>9, <1>13
  <2> QED BY <1>4, <1>7, <1>13, <2>1
<1> QED BY <1>10, <1>11, <1>12, <1>13

\* Every key on a page of the tree is found.
LEMMA KeysFound ==
  ASSUME NEW nodes, NEW made, NEW top, NEW gone, NEW w, Shape(nodes, made, top, gone, w),
         NEW x \in w.pages, NEW j \in 1 .. Len(nodes[x].cells)
  PROVE  Found(nodes, w, KeyAt(nodes[x], j))
<1>1. CASE nodes[x].leaf
  <2>1. x \in PageIds /\ x \notin gone
    BY <1>1 DEF Shape, LeavesLast, Views
  <2> QED BY <1>1, <2>1 DEF Shape, StoredFound
<1>2. CASE ~nodes[x].leaf
  BY <1>2 DEF Shape, SeparatorsFound
<1> QED BY <1>1, <1>2

\* A key is found when it has a value.
LEMMA FoundHolds ==
  ASSUME NEW nodes, NEW w, NEW k
  PROVE  Found(nodes, w, k) <=> \E v : Holds(nodes, w, k, v)
BY DEF Found, Holds

\* A key keeps its value, in one of the halves or where it was.
LEMMA SplitHolds ==
  ASSUME NEW nodes, NEW made, NEW top, NEW gone, NEW w, NEW c, NEW next, NEW p, NEW i,
         NEW nodes2, NEW w2,
         SplitStep(nodes, made, top, gone, w, c, next, p, i, nodes2, w2),
         NEW k \in Int, NEW v, Holds(nodes, w, k, v)
  PROVE  Holds(nodes2, w2, k, v)
<1> DEFINE n == nodes[c]
           m == SplitAt(n)
           split == SplitKey(n)
<1>1. /\ Splittable(nodes, made, top, gone, w, c, next, p, i)
      /\ SplitView(nodes, w, c, next, p, w2)
  BY DEF SplitStep
<1>2. /\ w.pages \subseteq PageIds /\ c \in w.pages /\ c # next /\ p # next
      /\ split \in Nat /\ Ordered(n, w.low[c], w.high[c])
      /\ \A x \in PageIds : w.low[x] \in Int /\ w.high[x] \in Int
  BY <1>1, SplitFacts
<1>3. SplitPlaces(nodes, c, next, p, nodes2)
  BY SplitPages
<1>4. PICK q \in w.pages : /\ nodes[q].leaf /\ w.low[q] < k /\ k <= w.high[q]
                           /\ \E h \in 1 .. Len(nodes[q].cells) :
                                KeyAt(nodes[q], h) = k /\ Link(nodes[q], h) = v
  BY DEF Holds
<1>5. PICK h \in 1 .. Len(nodes[q].cells) : KeyAt(nodes[q], h) = k /\ Link(nodes[q], h) = v
  BY <1>4
<1>6. CASE q # c
  <2>1. q \in w2.pages /\ q # next /\ w2.low[q] = w.low[q] /\ w2.high[q] = w.high[q] /\ q \in PageIds
    BY <1>6, SplitKeeps
  <2>2. nodes2[q] = nodes[q]
    BY <1>3, <1>4, <1>6, <2>1 DEF SplitPlaces
  <2> QED BY <1>4, <1>5, <2>1, <2>2 DEF Holds
<1>7. CASE q = c
  <2>1. /\ nodes2[c].leaf /\ nodes2[next].leaf
        /\ m \in 1 .. Len(n.cells) - 1 /\ Len(n.cells) \in Nat
        /\ Len(nodes2[c].cells) = m /\ Len(nodes2[next].cells) = Len(n.cells) - m
        /\ \A j \in 1 .. m : /\ KeyAt(nodes2[c], j) = KeyAt(n, j)
                             /\ Link(nodes2[c], j) = Link(n, j)
        /\ \A j \in 1 .. Len(n.cells) - m : /\ KeyAt(nodes2[next], j) = KeyAt(n, m + j)
                                            /\ Link(nodes2[next], j) = Link(n, m + j)
        /\ split = KeyAt(n, m)
    BY <1>3, <1>4, <1>7 DEF SplitPlaces
  <2>2. /\ h \in 1 .. Len(n.cells) /\ KeyAt(n, h) = k /\ Link(n, h) = v
        /\ w.low[c] < k /\ k <= w.high[c]
    BY <1>4, <1>5, <1>7
  <2>3. /\ c \in PageIds
        /\ c \in w2.pages <=> w.low[c] < split
        /\ w2.low[c] = w.low[c] /\ w2.high[c] = split
        /\ next \in w2.pages <=> split < w.high[c]
        /\ w2.low[next] = split /\ w2.high[next] = w.high[c]
        /\ w.low[c] \in Int /\ w.high[c] \in Int
    BY <1>1, <1>2 DEF SplitView
  <2>4. \A a, b \in 1 .. Len(n.cells) : a < b => KeyAt(n, a) <= KeyAt(n, b) /\ KeyAt(n, a) < KeyAt(n, b)
    BY <1>2, <1>4, <1>7 DEF Ordered
  <2> HIDE DEF n, m, split
  <2>5. m \in 1 .. Len(n.cells)
    BY <2>1
  <2>6. CASE h <= m
    <3>1. /\ h \in 1 .. Len(nodes2[c].cells) /\ KeyAt(nodes2[c], h) = k
          /\ Link(nodes2[c], h) = v
      BY <2>1, <2>2, <2>6
    <3>2. k <= split
      <4>1. h = m \/ h < m
        BY <2>1, <2>2, <2>6
      <4> QED BY <2>1, <2>2, <2>4, <2>5, <4>1
    <3>3. w.low[c] < split
      BY <1>2, <2>2, <2>3, <3>2
    <3> QED BY <2>1, <2>2, <2>3, <3>1, <3>2, <3>3 DEF Holds
  <2>7. CASE h > m
    <3>1. /\ h - m \in 1 .. Len(nodes2[next].cells) /\ KeyAt(nodes2[next], h - m) = k
          /\ Link(nodes2[next], h - m) = v
      <4>1. h - m \in 1 .. Len(n.cells) - m /\ m + (h - m) = h
        BY <2>1, <2>2, <2>7
      <4> QED BY <2>1, <2>2, <4>1
    <3>2. split < k
      BY <2>1, <2>2, <2>4, <2>5, <2>7
    <3>3. split < w.high[c]
      BY <1>2, <2>2, <2>3, <3>2
    <3> QED BY <2>1, <2>2, <2>3, <3>1, <3>2, <3>3 DEF Holds
  <2> QED BY <2>1, <2>2, <2>6, <2>7
<1> QED BY <1>6, <1>7

\* So it is still found.
LEMMA SplitFound ==
  ASSUME NEW nodes, NEW made, NEW top, NEW gone, NEW w, NEW c, NEW next, NEW p, NEW i,
         NEW nodes2, NEW w2,
         SplitStep(nodes, made, top, gone, w, c, next, p, i, nodes2, w2),
         NEW k \in Int, Found(nodes, w, k)
  PROVE  Found(nodes2, w2, k)
<1>1. PICK v : Holds(nodes, w, k, v)
  BY FoundHolds
<1>2. Holds(nodes2, w2, k, v)
  BY <1>1, SplitHolds
<1> QED BY <1>2, FoundHolds

\* The keys of the pages after the split were keys before.
LEMMA SplitKeys ==
  ASSUME NEW nodes, NEW made, NEW top, NEW gone, NEW w, NEW c, NEW next, NEW p, NEW i,
         NEW nodes2, NEW w2,
         SplitStep(nodes, made, top, gone, w, c, next, p, i, nodes2, w2),
         NEW x \in PageIds, NEW j \in 1 .. Len(nodes2[x].cells)
  PROVE  \/ x # c /\ x # next /\ x # p /\ j \in 1 .. Len(nodes[x].cells)
            /\ KeyAt(nodes2[x], j) = KeyAt(nodes[x], j)
         \/ \E h \in 1 .. Len(nodes[c].cells) : KeyAt(nodes2[x], j) = KeyAt(nodes[c], h)
         \/ x = p /\ \E h \in 1 .. Len(nodes[p].cells) : KeyAt(nodes2[x], j) = KeyAt(nodes[p], h)
<1> DEFINE n == nodes[c]
           m == SplitAt(n)
<1>1. /\ Splittable(nodes, made, top, gone, w, c, next, p, i)
      /\ Splits(nodes, c, next, p, i, nodes2)
  BY DEF SplitStep
<1>2. SplitPlaces(nodes, c, next, p, nodes2)
  BY SplitPages
<1>3. /\ m \in 1 .. Len(n.cells) - 1 /\ Len(n.cells) \in Nat
      /\ Len(nodes2[c].cells) = m /\ Len(nodes2[next].cells) = Len(n.cells) - m
      /\ \A h \in 1 .. m : KeyAt(nodes2[c], h) = KeyAt(n, h)
      /\ \A h \in 1 .. Len(n.cells) - m : KeyAt(nodes2[next], h) = KeyAt(n, m + h)
      /\ SplitKey(n) = KeyAt(n, m)
      /\ \A y \in PageIds : y # c /\ y # next /\ y # p => nodes2[y] = nodes[y]
  BY <1>2 DEF SplitPlaces
<1> HIDE DEF n, m
<1>4. CASE x = c
  <2>1. j \in 1 .. m /\ j \in 1 .. Len(n.cells)
    BY <1>3, <1>4
  <2> QED BY <1>3, <1>4, <2>1 DEF n
<1>5. CASE x = next
  <2>1. j \in 1 .. Len(n.cells) - m /\ m + j \in 1 .. Len(n.cells)
    BY <1>3, <1>5
  <2> QED BY <1>3, <1>5, <2>1 DEF n
<1>6. CASE x = p
  <2> DEFINE q == nodes[p]
             z == nodes2[p]
  <2>1. /\ Len(z.cells) = Len(q.cells) + 1
        /\ \A h \in 1 .. Len(q.cells) + 1 :
             KeyAt(z, h) = IF h < i THEN KeyAt(q, h)
                           ELSE IF h = i THEN SplitKey(n) ELSE KeyAt(q, h - 1)
        /\ i \in 1 .. Len(q.cells) + 1
    BY <1>1 DEF Splits, Over, Splittable, n
  <2>2. Len(q.cells) \in Nat
    <3>1. p \in PageIds /\ Sound(q)
      BY <1>1, SplitFacts DEF Splittable
    <3> HIDE DEF q
    <3> QED BY <3>1, SoundType
  <2>3. j \in 1 .. Len(q.cells) + 1
    BY <1>6, <2>1
  <2>4. CASE j < i
    <3>1. j \in 1 .. Len(q.cells) /\ KeyAt(z, j) = KeyAt(q, j)
      BY <2>1, <2>2, <2>3, <2>4
    <3> QED BY <1>6, <3>1
  <2>5. CASE j = i
    <3>1. KeyAt(z, j) = KeyAt(n, m) /\ m \in 1 .. Len(n.cells)
      BY <1>3, <2>1, <2>3, <2>5
    <3> QED BY <1>6, <3>1 DEF n
  <2>6. CASE j > i
    <3>1. j - 1 \in 1 .. Len(q.cells) /\ KeyAt(z, j) = KeyAt(q, j - 1)
      BY <2>1, <2>2, <2>3, <2>6
    <3> QED BY <1>6, <3>1
  <2> QED BY <2>1, <2>3, <2>4, <2>5, <2>6
<1>7. CASE x # c /\ x # next /\ x # p
  BY <1>3, <1>7
<1> QED BY <1>4, <1>5, <1>6, <1>7

LEMMA SplitSeparatorsFound ==
  ASSUME NEW nodes, NEW made, NEW top, NEW gone, NEW w, NEW c, NEW next, NEW p, NEW i,
         NEW nodes2, NEW w2,
         SplitStep(nodes, made, top, gone, w, c, next, p, i, nodes2, w2)
  PROVE  /\ SeparatorsFound(nodes2, w2)
         /\ StoredFound(nodes2, gone, w2)
<1>1. /\ Splittable(nodes, made, top, gone, w, c, next, p, i)
      /\ SplitView(nodes, w, c, next, p, w2)
  BY DEF SplitStep
<1>2. /\ w.pages \subseteq PageIds /\ c \in w.pages /\ p \in w.pages
      /\ c # next /\ p # next /\ c # p /\ SplitKey(nodes[c]) \in Nat
      /\ \A x \in PageIds : w.low[x] \in Int
  BY <1>1, SplitFacts
<1>3. Shape(nodes, made, top, gone, w) /\ \A x \in PageIds : Sound(nodes[x])
  BY <1>1 DEF Splittable
<1>4. ASSUME NEW x \in w.pages, NEW h \in 1 .. Len(nodes[x].cells)
      PROVE  Found(nodes2, w2, KeyAt(nodes[x], h))
  <2>1. Found(nodes, w, KeyAt(nodes[x], h))
    BY <1>3, KeysFound
  <2>2. KeyAt(nodes[x], h) \in Int
    <3> DEFINE n == nodes[x]
    <3>1. Sound(n) /\ h \in 1 .. Len(n.cells)
      BY <1>2, <1>3
    <3> HIDE DEF n
    <3>2. KeyAt(n, h) \in Nat
      BY <3>1, KeyAtType
    <3> QED BY <3>2 DEF n
  <2> DEFINE k == KeyAt(nodes[x], h)
  <2>3. k \in Int /\ Found(nodes, w, k)
    BY <2>1, <2>2
  <2> HIDE DEF k
  <2>4. Found(nodes2, w2, k)
    BY <2>3, SplitFound
  <2> QED BY <2>4 DEF k
<1>5. ASSUME NEW x \in w2.pages
      PROVE  w2.low[x] = -1 \/ Found(nodes2, w2, w2.low[x])
  <2>1. CASE x = next
    <3>1. w2.low[x] = SplitKey(nodes[c])
      BY <1>1, <2>1 DEF SplitView
    <3>2. SplitKey(nodes[c]) = KeyAt(nodes[c], SplitAt(nodes[c]))
          /\ SplitAt(nodes[c]) \in 1 .. Len(nodes[c].cells)
      <4>1. SplitPlaces(nodes, c, next, p, nodes2)
        BY SplitPages
      <4>2. /\ SplitKey(nodes[c]) = KeyAt(nodes[c], SplitAt(nodes[c]))
            /\ SplitAt(nodes[c]) \in 1 .. Len(nodes[c].cells) - 1 /\ Len(nodes[c].cells) \in Nat
        BY <4>1 DEF SplitPlaces
      <4> QED BY <4>2
    <3> QED BY <1>2, <1>4, <3>1, <3>2
  <2>2. CASE x # next
    <3>1. x \in PageIds /\ x \in w.pages /\ w2.low[x] = w.low[x]
      BY <1>1, <2>2 DEF SplitView, Views
    <3>2. w.low[x] = -1 \/ Found(nodes, w, w.low[x])
      BY <1>3, <3>1 DEF Shape, SeparatorsFound
    <3> DEFINE k == w.low[x]
    <3>3. k \in Int /\ (k = -1 \/ Found(nodes, w, k))
      BY <1>2, <3>1, <3>2
    <3> HIDE DEF k
    <3>4. k = -1 \/ Found(nodes2, w2, k)
      BY <3>3, SplitFound
    <3> QED BY <3>1, <3>4 DEF k
  <2> QED BY <2>1, <2>2
<1>6. ASSUME NEW x \in w2.pages, ~nodes2[x].leaf, NEW j \in 1 .. Len(nodes2[x].cells)
      PROVE  Found(nodes2, w2, KeyAt(nodes2[x], j))
  <2>1. x \in PageIds
    BY <1>1 DEF SplitView, Views
  <2>2. \/ x # c /\ x # next /\ x # p /\ j \in 1 .. Len(nodes[x].cells)
           /\ KeyAt(nodes2[x], j) = KeyAt(nodes[x], j)
        \/ \E h \in 1 .. Len(nodes[c].cells) : KeyAt(nodes2[x], j) = KeyAt(nodes[c], h)
        \/ x = p /\ \E h \in 1 .. Len(nodes[p].cells) : KeyAt(nodes2[x], j) = KeyAt(nodes[p], h)
    BY <2>1, SplitKeys
  <2>3. x # next => x \in w.pages
    BY <1>1, <2>1 DEF SplitView
  <2> QED BY <1>2, <1>4, <2>2, <2>3
<1>7. ASSUME NEW x \in PageIds, x \notin gone, nodes2[x].leaf, NEW j \in 1 .. Len(nodes2[x].cells)
      PROVE  Found(nodes2, w2, KeyAt(nodes2[x], j))
  <2>1. x # p
    <3>1. SplitPlaces(nodes, c, next, p, nodes2)
      BY SplitPages
    <3> QED BY <1>7, <3>1 DEF SplitPlaces
  <2>2. CASE \E h \in 1 .. Len(nodes[c].cells) : KeyAt(nodes2[x], j) = KeyAt(nodes[c], h)
    BY <1>2, <1>4, <2>2
  <2>3. CASE x # c /\ x # next /\ x # p /\ j \in 1 .. Len(nodes[x].cells)
             /\ KeyAt(nodes2[x], j) = KeyAt(nodes[x], j)
    <3>1. nodes[x].leaf
      <4>1. SplitPlaces(nodes, c, next, p, nodes2)
        BY SplitPages
      <4> QED BY <1>7, <2>3, <4>1 DEF SplitPlaces
    <3>2. Found(nodes, w, KeyAt(nodes[x], j))
      BY <1>3, <1>7, <2>3, <3>1 DEF Shape, StoredFound
    <3> DEFINE n == nodes[x]
               k == KeyAt(n, j)
    <3>3. Sound(n) /\ j \in 1 .. Len(n.cells)
      BY <1>3, <2>3
    <3> HIDE DEF n
    <3>4. k \in Int
      <4>1. KeyAt(n, j) \in Nat
        BY <3>3, KeyAtType
      <4> QED BY <4>1
    <3>5. Found(nodes, w, k)
      BY <3>2 DEF n
    <3> HIDE DEF k
    <3>6. Found(nodes2, w2, k)
      BY <3>4, <3>5, SplitFound
    <3> QED BY <2>3, <3>6 DEF k, n
  <2> QED BY <2>1, <2>2, <2>3, SplitKeys
<1>8. SeparatorsFound(nodes2, w2)
  BY <1>5, <1>6 DEF SeparatorsFound
<1>9. StoredFound(nodes2, gone, w2)
  BY <1>7 DEF StoredFound
<1> QED BY <1>8, <1>9

LEMMA SplitLeavesLast ==
  ASSUME NEW nodes, NEW made, NEW top, NEW gone, NEW w, NEW c, NEW next, NEW p, NEW i,
         NEW nodes2, NEW w2,
         SplitStep(nodes, made, top, gone, w, c, next, p, i, nodes2, w2)
  PROVE  LeavesLast(nodes2, gone, w2)
<1> DEFINE n == nodes[c]
           split == SplitKey(n)
<1>1. /\ Splittable(nodes, made, top, gone, w, c, next, p, i)
      /\ SplitView(nodes, w, c, next, p, w2)
  BY DEF SplitStep
<1>2. /\ w.pages \subseteq PageIds /\ c \in w.pages /\ p \in w.pages
      /\ c # next /\ p # next /\ c # p /\ split \in Nat
      /\ w.low[c] < w.high[c]
      /\ Alone => w.low[c] < split /\ split < w.high[c]
      /\ \A x \in PageIds : w.low[x] \in Int /\ w.high[x] \in Int
  BY <1>1, SplitFacts
<1>3. /\ \A x \in w.pages : nodes[x].leaf =>
           /\ x \notin gone
           /\ gone = {} => w.level[x] = 0
           /\ gone = {} /\ Alone =>
                LET r == nodes[x].right
                IN  IF w.high[x] = Top THEN r = 0
                    ELSE r \in w.pages /\ nodes[r].leaf /\ w.low[r] = w.high[x]
      /\ w.high[c] <= Top
  BY <1>1, <1>2 DEF Splittable, Shape, LeavesLast, InRange
<1>4. /\ nodes2[c].leaf = n.leaf /\ nodes2[next].leaf = n.leaf /\ ~nodes[p].leaf /\ ~nodes2[p].leaf
      /\ nodes2[c].right = next /\ nodes2[next].right = n.right
      /\ \A x \in PageIds : x # c /\ x # next /\ x # p => nodes2[x] = nodes[x]
  <2>1. SplitPlaces(nodes, c, next, p, nodes2)
    BY SplitPages
  <2> QED BY <2>1 DEF SplitPlaces
<1>5. /\ next \notin gone /\ next \in PageIds
  BY <1>1 DEF Splittable
<1>6. /\ \A x \in PageIds : x # next =>
           /\ x \in w2.pages <=> x \in w.pages /\ (x = c => w.low[c] < split)
           /\ w2.low[x] = w.low[x]
           /\ w2.high[x] = IF x = c THEN split ELSE w.high[x]
           /\ w2.level[x] = w.level[x]
      /\ next \in w2.pages <=> split < w.high[c]
      /\ w2.low[next] = split /\ w2.high[next] = w.high[c] /\ w2.level[next] = w.level[c]
      /\ w2.pages \subseteq PageIds
  BY <1>1 DEF SplitView, Views
<1>7. Top \in Nat
  BY BelowTop
<1> HIDE DEF n, split
<1>8. ASSUME NEW r \in w.pages, nodes[r].leaf, Alone
      PROVE  r \in w2.pages /\ nodes2[r].leaf /\ w2.low[r] = w.low[r]
  <2>1. r # next /\ r \in PageIds
    BY <1>1, <1>2 DEF Splittable
  <2> QED BY <1>2, <1>4, <1>6, <1>8, <2>1 DEF n
<1> SUFFICES ASSUME NEW x \in w2.pages, nodes2[x].leaf
             PROVE  /\ x \notin gone
                    /\ gone = {} => w2.level[x] = 0
                    /\ gone = {} /\ Alone =>
                         LET r == nodes2[x].right
                         IN  IF w2.high[x] = Top THEN r = 0
                             ELSE r \in w2.pages /\ nodes2[r].leaf /\ w2.low[r] = w2.high[x]
  BY DEF LeavesLast
<1>9. CASE x = next
  <2>1. nodes[c].leaf /\ w2.high[x] = w.high[c] /\ w2.level[x] = w.level[c]
        /\ nodes2[x].right = nodes[c].right
    BY <1>4, <1>6, <1>9 DEF n
  <2> QED BY <1>2, <1>3, <1>5, <1>8, <1>9, <2>1
<1>10. CASE x = c
  <2>1. nodes[c].leaf /\ w2.high[x] = split /\ w2.level[x] = w.level[c] /\ nodes2[x].right = next
    BY <1>2, <1>4, <1>6, <1>10 DEF n
  <2>2. Alone => split # Top /\ next \in w2.pages /\ w2.low[next] = split /\ nodes2[next].leaf
    BY <1>2, <1>3, <1>4, <1>6, <1>7, <1>10
  <2> QED BY <1>2, <1>3, <1>10, <2>1, <2>2
<1>11. CASE x # c /\ x # next
  <2>1. x # p /\ x \in PageIds
    BY <1>4, <1>6
  <2>2. /\ x \in w.pages /\ nodes2[x] = nodes[x]
        /\ w2.high[x] = w.high[x] /\ w2.level[x] = w.level[x]
    BY <1>4, <1>6, <1>11, <2>1
  <2> QED BY <1>3, <1>8, <2>2
<1> QED BY <1>9, <1>10, <1>11

\* The pages are a tree as before.
LEMMA SplitShape ==
  ASSUME NEW nodes, NEW made \in Nat, NEW top, NEW gone, NEW w, NEW c, NEW next, NEW p, NEW i,
         NEW nodes2, NEW w2, NEW made2 \in Nat, made <= made2, next < made2,
         SplitStep(nodes, made, top, gone, w, c, next, p, i, nodes2, w2),
         nodes2 \in [PageIds -> AnyPage], \A x \in PageIds : Sound(nodes2[x])
  PROVE  Shape(nodes2, made2, top, gone, w2)
<1>1. /\ Splittable(nodes, made, top, gone, w, c, next, p, i)
      /\ SplitView(nodes, w, c, next, p, w2)
  BY DEF SplitStep
<1>2. /\ w \in Views /\ w.pages \subseteq PageIds /\ c \in w.pages /\ p \in w.pages
      /\ top # next /\ top # c /\ ~nodes[top].leaf
  BY <1>1, SplitFacts
<1>3. Shape(nodes, made, top, gone, w)
  BY <1>1 DEF Splittable
<1>4. /\ top \in w.pages /\ w.low[top] = -1 /\ w.high[top] = Top /\ w.up[top] = 0
      /\ 2 * w.level[top] + 2 <= made + IF gone = {} THEN 0 ELSE 1
  BY <1>3 DEF Shape, AtTop
<1>5. /\ w2 \in Views
      /\ top \in w2.pages /\ w2.low[top] = -1 /\ w2.high[top] = Top
      /\ w2.up[top] = 0 /\ w2.level[top] = w.level[top]
  <2>1. c # 0
    BY <1>2 DEF PageIds
  <2>2. top \in PageIds
    BY <1>2, <1>4
  <2> QED BY <1>1, <1>2, <1>4, <2>1, <2>2 DEF SplitView
<1>6. 2 * w2.level[top] + 2 <= made2 + IF gone = {} THEN 0 ELSE 1
  <2>1. w.level[top] \in Nat
    BY <1>2, <1>4 DEF Views
  <2> QED BY <1>4, <1>5, <2>1
<1>7. AtTop(top, w2)
  BY <1>5 DEF AtTop
<1>8. ~nodes2[top].leaf
  <2>1. SplitPlaces(nodes, c, next, p, nodes2)
    BY SplitPages
  <2> QED BY <1>2, <1>4, <2>1 DEF SplitPlaces
<1>9. LeafTop(nodes2, top, gone, w2)
  BY <1>8 DEF LeafTop
<1>10. InRange(nodes2, made2, w2)
  BY SplitInRange
<1>11. Linked(nodes2, gone, w2)
  BY SplitLinked
<1>12. LeavesApart(nodes2, w2)
  BY SplitLeavesApart
<1>13. CellsDescend(nodes2, top, w2)
  BY SplitCellsDescend
<1>14. SeparatorsFound(nodes2, w2) /\ StoredFound(nodes2, gone, w2)
  BY SplitSeparatorsFound
<1>15. LeavesLast(nodes2, gone, w2)
  BY SplitLeavesLast
<1> QED BY <1>5, <1>6, <1>7, <1>9, <1>10, <1>11, <1>12, <1>13, <1>14, <1>15 DEF Shape

-----------------------------------------------------------------------------
(***************************************************************************)
(* A new root: an inner page without cells, over the old one.  The split   *)
(* of the old root is then that of its only child.                         *)
(***************************************************************************)
Raises(nodes, top, new, nodes1) ==
  /\ ~nodes1[new].leaf /\ Len(nodes1[new].cells) = 0 /\ nodes1[new].right = top
  /\ \A x \in PageIds : x # new => nodes1[x] = nodes[x]

\* The view with it.
RaiseView(w, top, new, w1) ==
  /\ w1 \in Views
  /\ w1.pages = w.pages \cup {new}
  /\ w1.low[new] = -1 /\ w1.high[new] = Top /\ w1.up[new] = 0
  /\ w1.level[new] = w.level[top] + 1
  /\ \A x \in PageIds : x # new =>
       /\ w1.low[x] = w.low[x] /\ w1.high[x] = w.high[x] /\ w1.level[x] = w.level[x]
       /\ w1.up[x] = IF x = top THEN new ELSE w.up[x]

LEMMA RaiseViewExists ==
  ASSUME NEW w \in Views, NEW top \in PageIds, NEW new \in PageIds
  PROVE  \E w1 \in Views : RaiseView(w, top, new, w1)
<1> DEFINE pages == w.pages \cup {new}
           low == [x \in PageIds |-> IF x = new THEN -1 ELSE w.low[x]]
           high == [x \in PageIds |-> IF x = new THEN Top ELSE w.high[x]]
           up == [x \in PageIds |-> IF x = new THEN 0 ELSE IF x = top THEN new ELSE w.up[x]]
           level == [x \in PageIds |-> IF x = new THEN w.level[top] + 1 ELSE w.level[x]]
           w1 == [pages |-> pages, low |-> low, high |-> high, up |-> up, level |-> level]
<1>1. /\ w.pages \in SUBSET PageIds
      /\ w.low \in [PageIds -> Int] /\ w.high \in [PageIds -> Int]
      /\ w.up \in [PageIds -> PageIds \cup {0}] /\ w.level \in [PageIds -> Nat]
  BY DEF Views
<1>2. Top \in Int /\ -1 \in Int
  BY BelowTop
<1> HIDE DEF PageIds
<1>3. /\ pages \in SUBSET PageIds /\ low \in [PageIds -> Int] /\ high \in [PageIds -> Int]
      /\ up \in [PageIds -> PageIds \cup {0}] /\ level \in [PageIds -> Nat]
  <2>1. pages \in SUBSET PageIds
    BY <1>1
  <2>2. low \in [PageIds -> Int] /\ high \in [PageIds -> Int]
    BY <1>1, <1>2
  <2>3. up \in [PageIds -> PageIds \cup {0}] /\ level \in [PageIds -> Nat]
    BY <1>1
  <2> QED BY <2>1, <2>2, <2>3
<1>4. /\ w1.pages = pages /\ w1.low = low /\ w1.high = high /\ w1.up = up /\ w1.level = level
  OBVIOUS
<1>5. w1 \in Views
  <2> HIDE DEF pages, low, high, up, level
  <2> QED BY <1>3 DEF Views
<1> HIDE DEF w1
<1>6. RaiseView(w, top, new, w1)
  BY <1>4, <1>5 DEF RaiseView
<1> QED BY <1>5, <1>6

LEMMA RaiseShape ==
  ASSUME NEW nodes, NEW made \in Nat, NEW top, NEW gone, NEW w, Shape(nodes, made, top, gone, w),
         \A x \in PageIds : Sound(nodes[x]),
         NEW new \in PageIds, made <= new, NEW made1 \in Nat, made + 2 <= made1, new < made1,
         \A x \in PageIds : ~nodes[x].leaf =>
           \A j \in 1 .. Len(nodes[x].cells) + 1 : Link(nodes[x], j) # new,
         NEW nodes1, Raises(nodes, top, new, nodes1),
         NEW w1, RaiseView(w, top, new, w1)
  PROVE  Shape(nodes1, made1, new, gone, w1)
<1>1. /\ w \in Views /\ w.pages \subseteq PageIds
      /\ \A x \in PageIds : w.low[x] \in Int /\ w.high[x] \in Int /\ w.level[x] \in Nat
  BY DEF Shape, Views
<1>2. top \in w.pages /\ w.low[top] = -1 /\ w.high[top] = Top /\ w.up[top] = 0
  BY DEF Shape, AtTop
<1>3. \A x \in w.pages : x < made /\ x # new /\ x \in PageIds
  BY <1>1 DEF Shape, InRange, PageIds
<1>4. /\ ~nodes1[new].leaf /\ Len(nodes1[new].cells) = 0 /\ nodes1[new].right = top
      /\ \A x \in PageIds : x # new => nodes1[x] = nodes[x]
  BY DEF Raises
<1>5. /\ w1 \in Views
      /\ w1.pages = w.pages \cup {new}
      /\ w1.low[new] = -1 /\ w1.high[new] = Top /\ w1.up[new] = 0
      /\ w1.level[new] = w.level[top] + 1
      /\ \A x \in PageIds : x # new =>
           /\ w1.low[x] = w.low[x] /\ w1.high[x] = w.high[x] /\ w1.level[x] = w.level[x]
           /\ w1.up[x] = IF x = top THEN new ELSE w.up[x]
  BY DEF RaiseView
<1>6. Top \in Nat
  BY BelowTop
<1>7. AtTop(new, w1)
  BY <1>5 DEF AtTop
<1>8. InRange(nodes1, made1, w1)
  <2> SUFFICES ASSUME NEW x \in w1.pages
               PROVE  /\ x < made1
                      /\ -1 <= w1.low[x] /\ w1.low[x] < w1.high[x] /\ w1.high[x] <= Top
                      /\ Ordered(nodes1[x], w1.low[x], w1.high[x])
    BY DEF InRange
  <2>1. CASE x = new
    <3>1. Ordered(nodes1[new], -1, Top)
      BY <1>4 DEF Ordered
    <3> QED BY <1>5, <1>6, <2>1, <3>1
  <2>2. CASE x # new
    <3>1. x \in w.pages
      BY <1>5, <2>2
    <3>2. /\ -1 <= w.low[x] /\ w.low[x] < w.high[x] /\ w.high[x] <= Top
          /\ Ordered(nodes[x], w.low[x], w.high[x]) /\ x < made
      BY <3>1 DEF Shape, InRange
    <3>3. x < made1
      BY <1>3, <3>1, <3>2 DEF PageIds
    <3> QED BY <1>3, <1>4, <1>5, <2>2, <3>1, <3>2, <3>3
  <2> QED BY <2>1, <2>2
<1>9. Linked(nodes1, gone, w1)
  <2> SUFFICES ASSUME NEW x \in w1.pages, ~nodes1[x].leaf,
                      NEW j \in 1 .. Len(nodes1[x].cells) + 1,
                      Live(nodes1[x], w1.low[x], w1.high[x], j)
               PROVE  IsChild(nodes1, gone, w1, x, j)
    BY DEF Linked
  <2>1. CASE x = new
    <3>1. j = 1 /\ Link(nodes1[x], j) = top
      BY <1>4, <2>1 DEF Link
    <3>2. LowOf(nodes1[x], w1.low[x], j) = -1 /\ HighOf(nodes1[x], w1.high[x], j) = Top
      BY <1>4, <1>5, <2>1, <3>1 DEF LowOf, HighOf
    <3>3. top \in PageIds /\ top # new
      BY <1>2, <1>3
    <3>4. /\ top \in w1.pages /\ w1.up[top] = new /\ w1.low[top] = -1 /\ w1.high[top] = Top
          /\ w1.level[top] = w.level[top] /\ w.level[top] \in Nat
          /\ w1.level[new] = w.level[top] + 1
      BY <1>1, <1>2, <1>5, <3>3
    <3> QED BY <2>1, <3>1, <3>2, <3>4 DEF IsChild
  <2>2. CASE x # new
    <3> DEFINE n == nodes[x]
               d == Link(n, j)
    <3>1. /\ x \in w.pages /\ nodes1[x] = n /\ w1.low[x] = w.low[x] /\ w1.high[x] = w.high[x]
          /\ w1.level[x] = w.level[x]
      BY <1>3, <1>4, <1>5, <2>2
    <3>2. IsChild(nodes, gone, w, x, j)
      BY <3>1 DEF Shape, Linked
    <3>3. /\ d \in w.pages /\ w.up[d] = x
          /\ w.low[d] = LowOf(n, w.low[x], j) /\ w.high[d] = HighOf(n, w.high[x], j)
          /\ w.level[d] < w.level[x]
          /\ gone = {} => w.level[d] + 1 = w.level[x]
      BY <3>2 DEF IsChild
    <3>4. d # top
      BY <1>2, <1>3, <3>1, <3>3 DEF PageIds
    <3>5. Link(nodes1[x], j) = d
      BY <3>1
    <3> HIDE DEF d
    <3>6. /\ d \in w1.pages /\ w1.low[d] = w.low[d] /\ w1.high[d] = w.high[d]
          /\ w1.level[d] = w.level[d] /\ w1.up[d] = x
      BY <1>3, <1>5, <3>3, <3>4
    <3> QED BY <3>1, <3>3, <3>5, <3>6 DEF IsChild
  <2> QED BY <2>1, <2>2
<1>10. LeavesApart(nodes1, w1)
  <2> SUFFICES ASSUME NEW x \in w1.pages, NEW y \in w1.pages,
                      nodes1[x].leaf, nodes1[y].leaf, x # y
               PROVE  w1.high[x] <= w1.low[y] \/ w1.high[y] <= w1.low[x]
    BY DEF LeavesApart
  <2>1. x # new /\ y # new
    BY <1>4
  <2>2. x \in w.pages /\ y \in w.pages
    BY <1>5, <2>1
  <2>3. nodes[x].leaf /\ nodes[y].leaf
    BY <1>3, <1>4, <2>1, <2>2
  <2>4. w.high[x] <= w.low[y] \/ w.high[y] <= w.low[x]
    BY <2>2, <2>3 DEF Shape, LeavesApart
  <2> QED BY <1>3, <1>5, <2>1, <2>2, <2>4
<1>11. CellsDescend(nodes1, new, w1)
  <2> SUFFICES ASSUME NEW x \in PageIds, ~nodes1[x].leaf, NEW j \in 1 .. Len(nodes1[x].cells)
               PROVE  w1.level[Link(nodes1[x], j)] < w1.level[x] /\ Link(nodes1[x], j) # new
    BY DEF CellsDescend
  <2>1. x # new
    BY <1>4
  <2> DEFINE n == nodes[x]
             d == Link(n, j)
  <2>2. nodes1[x] = n /\ w1.level[x] = w.level[x]
    BY <1>4, <1>5, <2>1
  <2>3. w.level[d] < w.level[x]
    BY <2>2 DEF Shape, CellsDescend
  <2>4. d \in PageIds /\ d # new
    <3>1. Sound(n) /\ ~n.leaf /\ j \in 1 .. Len(n.cells)
      BY <2>2
    <3>2. j \in 1 .. Len(n.cells) + 1 /\ d \in PageIds
      <4> HIDE DEF n
      <4>1. Len(n.cells) \in Nat
        BY <3>1, SoundType
      <4>2. j \in 1 .. Len(n.cells) + 1
        BY <3>1, <4>1
      <4> QED BY <3>1, <4>2, LinkType
    <3> QED BY <3>1, <3>2
  <2> HIDE DEF d
  <2>5. w1.level[d] = w.level[d]
    BY <1>5, <2>4
  <2> QED BY <2>2, <2>3, <2>4, <2>5 DEF d
<1>12. ASSUME NEW k, Found(nodes, w, k) PROVE Found(nodes1, w1, k)
  <2>1. PICK q \in w.pages : /\ nodes[q].leaf /\ w.low[q] < k /\ k <= w.high[q]
                             /\ \E h \in 1 .. Len(nodes[q].cells) : KeyAt(nodes[q], h) = k
    BY <1>12 DEF Found
  <2>2. q # new /\ q \in w1.pages /\ nodes1[q] = nodes[q]
        /\ w1.low[q] = w.low[q] /\ w1.high[q] = w.high[q]
    BY <1>3, <1>4, <1>5
  <2> QED BY <2>1, <2>2 DEF Found
<1>13. SeparatorsFound(nodes1, w1)
  <2> SUFFICES ASSUME NEW x \in w1.pages
               PROVE  /\ w1.low[x] = -1 \/ Found(nodes1, w1, w1.low[x])
                      /\ ~nodes1[x].leaf =>
                           \A h \in 1 .. Len(nodes1[x].cells) : Found(nodes1, w1, KeyAt(nodes1[x], h))
    BY DEF SeparatorsFound
  <2>1. CASE x = new
    BY <1>4, <1>5, <2>1
  <2>2. CASE x # new
    <3>1. x \in w.pages /\ nodes1[x] = nodes[x] /\ w1.low[x] = w.low[x]
      BY <1>3, <1>4, <1>5, <2>2
    <3> QED BY <1>12, <3>1 DEF Shape, SeparatorsFound
  <2> QED BY <2>1, <2>2
<1>14. StoredFound(nodes1, gone, w1)
  <2> SUFFICES ASSUME NEW x \in PageIds, x \notin gone, nodes1[x].leaf,
                      NEW h \in 1 .. Len(nodes1[x].cells)
               PROVE  Found(nodes1, w1, KeyAt(nodes1[x], h))
    BY DEF StoredFound
  <2>1. nodes1[x] = nodes[x]
    BY <1>4
  <2> QED BY <1>12, <2>1 DEF Shape, StoredFound
<1>15. LeafTop(nodes1, new, gone, w1)
  BY <1>4 DEF LeafTop
<1>16. LeavesLast(nodes1, gone, w1)
  <2> SUFFICES ASSUME NEW x \in w1.pages, nodes1[x].leaf
               PROVE  /\ x \notin gone
                      /\ gone = {} => w1.level[x] = 0
                      /\ gone = {} /\ Alone =>
                           LET r == nodes1[x].right
                           IN  IF w1.high[x] = Top THEN r = 0
                               ELSE r \in w1.pages /\ nodes1[r].leaf /\ w1.low[r] = w1.high[x]
    BY DEF LeavesLast
  <2>1. x # new /\ x \in w.pages /\ nodes1[x] = nodes[x] /\ w1.level[x] = w.level[x]
        /\ w1.high[x] = w.high[x]
    BY <1>3, <1>4, <1>5
  <2>2. /\ x \notin gone
        /\ gone = {} => w.level[x] = 0
        /\ gone = {} /\ Alone =>
             LET r == nodes[x].right
             IN  IF w.high[x] = Top THEN r = 0
                 ELSE r \in w.pages /\ nodes[r].leaf /\ w.low[r] = w.high[x]
    BY <2>1 DEF Shape, LeavesLast
  <2>3. \A r \in w.pages : r \in w1.pages /\ nodes1[r] = nodes[r] /\ w1.low[r] = w.low[r]
    BY <1>3, <1>4, <1>5
  <2> QED BY <2>1, <2>2, <2>3
<1>17. 2 * w1.level[new] + 2 <= made1 + IF gone = {} THEN 0 ELSE 1
  <2>1. 2 * w.level[top] + 2 <= made + IF gone = {} THEN 0 ELSE 1
    BY DEF Shape
  <2>2. w.level[top] \in Nat /\ w1.level[new] = w.level[top] + 1
    BY <1>1, <1>2, <1>5
  <2> QED BY <2>1, <2>2
<1> QED BY <1>5, <1>7, <1>8, <1>9, <1>10, <1>11, <1>13, <1>14, <1>15, <1>16, <1>17 DEF Shape

-----------------------------------------------------------------------------
(***************************************************************************)
(* A key that is put into a leaf, with value new.                          *)
(***************************************************************************)
Stores(nodes, x, i, k, new, nodes2) ==
  LET n == nodes[x]
      z == nodes2[x]
  IN  /\ n.leaf /\ z.leaf = n.leaf
      /\ i \in 1 .. Len(n.cells) + 1
      /\ \A j \in 1 .. Len(n.cells) : /\ j < i => KeyAt(n, j) < k
                                      /\ j >= i => k < KeyAt(n, j)
      /\ Len(z.cells) = Len(n.cells) + 1
      /\ \A j \in 1 .. Len(n.cells) + 1 :
           KeyAt(z, j) = IF j < i THEN KeyAt(n, j) ELSE IF j = i THEN k ELSE KeyAt(n, j - 1)
      /\ \A j \in 1 .. Len(n.cells) + 1 :
           Link(z, j) = IF j < i THEN Link(n, j) ELSE IF j = i THEN new ELSE Link(n, j - 1)
      /\ z.right = n.right
      /\ \A y \in PageIds : y # x => nodes2[y] = nodes[y]

\* What was on the leaf still is.
LEMMA StoreHolds ==
  ASSUME NEW nodes, \A y \in PageIds : Sound(nodes[y]),
         NEW w \in Views, NEW x \in PageIds, NEW i, NEW k \in Nat, NEW new, NEW nodes2,
         Stores(nodes, x, i, k, new, nodes2),
         NEW j, NEW v, Holds(nodes, w, j, v)
  PROVE  Holds(nodes2, w, j, v)
<1>1. PICK q \in w.pages : /\ nodes[q].leaf /\ w.low[q] < j /\ j <= w.high[q]
                           /\ \E h \in 1 .. Len(nodes[q].cells) :
                                KeyAt(nodes[q], h) = j /\ Link(nodes[q], h) = v
  BY DEF Holds
<1>2. q \in PageIds
  BY DEF Views
<1>3. CASE q # x
  <2>1. nodes2[q] = nodes[q]
    BY <1>2, <1>3 DEF Stores
  <2> QED BY <1>1, <2>1 DEF Holds
<1>4. CASE q = x
  <2> DEFINE n == nodes[x]
             z == nodes2[x]
  <2>1. PICK h \in 1 .. Len(n.cells) : KeyAt(n, h) = j /\ Link(n, h) = v
    BY <1>1, <1>4
  <2>2. Len(n.cells) \in Nat
    <3>1. Sound(n)
      OBVIOUS
    <3> HIDE DEF n
    <3> QED BY <3>1, SoundType
  <2>3. /\ z.leaf /\ i \in 1 .. Len(n.cells) + 1 /\ Len(z.cells) = Len(n.cells) + 1
        /\ \A g \in 1 .. Len(n.cells) + 1 :
             KeyAt(z, g) = IF g < i THEN KeyAt(n, g) ELSE IF g = i THEN k ELSE KeyAt(n, g - 1)
        /\ \A g \in 1 .. Len(n.cells) + 1 :
             Link(z, g) = IF g < i THEN Link(n, g) ELSE IF g = i THEN new ELSE Link(n, g - 1)
    BY DEF Stores
  <2> HIDE DEF n
  <2>4. \E g \in 1 .. Len(z.cells) : KeyAt(z, g) = j /\ Link(z, g) = v
    <3>1. CASE h < i
      <4>1. h \in 1 .. Len(z.cells) /\ KeyAt(z, h) = j /\ Link(z, h) = v
        BY <2>1, <2>2, <2>3, <3>1
      <4> QED BY <4>1
    <3>2. CASE h >= i
      <4>1. h + 1 \in 1 .. Len(z.cells) /\ ~(h + 1 < i) /\ h + 1 # i /\ (h + 1) - 1 = h
        BY <2>1, <2>2, <2>3, <3>2
      <4>2. KeyAt(z, h + 1) = j /\ Link(z, h + 1) = v
        BY <2>1, <2>3, <4>1
      <4> QED BY <4>1, <4>2
    <3> QED BY <2>1, <2>2, <2>3, <3>1, <3>2
  <2> QED BY <1>1, <1>4, <2>3, <2>4 DEF Holds
<1> QED BY <1>3, <1>4

LEMMA StoreFound ==
  ASSUME NEW nodes, \A y \in PageIds : Sound(nodes[y]),
         NEW w \in Views, NEW x \in PageIds, NEW i, NEW k \in Nat, NEW new, NEW nodes2,
         Stores(nodes, x, i, k, new, nodes2),
         NEW j, Found(nodes, w, j)
  PROVE  Found(nodes2, w, j)
<1>1. PICK v : Holds(nodes, w, j, v)
  BY FoundHolds
<1>2. Holds(nodes2, w, j, v)
  BY <1>1, StoreHolds
<1> QED BY <1>2, FoundHolds

LEMMA StoreShape ==
  ASSUME NEW nodes, NEW made \in Nat, NEW top, NEW gone, NEW w, Shape(nodes, made, top, gone, w),
         \A y \in PageIds : Sound(nodes[y]),
         NEW x \in w.pages, NEW i, NEW k \in Nat, NEW new, NEW nodes2, Stores(nodes, x, i, k, new, nodes2),
         w.low[x] <= k, k <= w.high[x], Alone => w.low[x] < k
  PROVE  Shape(nodes2, made, top, gone, w)
<1> DEFINE n == nodes[x]
           z == nodes2[x]
<1>1. /\ w \in Views /\ w.pages \subseteq PageIds /\ x \in PageIds
      /\ \A y \in PageIds : w.low[y] \in Int /\ w.high[y] \in Int /\ w.level[y] \in Nat
  BY DEF Shape, Views
<1>2. /\ n.leaf /\ z.leaf /\ z.leaf = n.leaf
      /\ i \in 1 .. Len(n.cells) + 1
      /\ \A j \in 1 .. Len(n.cells) : /\ j < i => KeyAt(n, j) < k
                                      /\ j >= i => k < KeyAt(n, j)
      /\ Len(z.cells) = Len(n.cells) + 1
      /\ \A j \in 1 .. Len(n.cells) + 1 :
           KeyAt(z, j) = IF j < i THEN KeyAt(n, j) ELSE IF j = i THEN k ELSE KeyAt(n, j - 1)
      /\ z.right = n.right
      /\ \A y \in PageIds : y # x => nodes2[y] = nodes[y]
  BY DEF Stores
<1>3. Sound(n) /\ Len(n.cells) \in Nat
  <2>1. Sound(n)
    BY <1>1
  <2> HIDE DEF n
  <2> QED BY <2>1, SoundType
<1>4. \A y \in PageIds : nodes2[y].leaf <=> nodes[y].leaf
  BY <1>2
<1>5. ASSUME NEW j, Found(nodes, w, j) PROVE Found(nodes2, w, j)
  BY <1>1, <1>5, StoreFound
<1>6. Found(nodes2, w, k)
  <2>1. CASE w.low[x] < k
    <3>1. i \in 1 .. Len(z.cells) /\ KeyAt(z, i) = k
      BY <1>2, <1>3
    <3> QED BY <1>2, <2>1, <3>1 DEF Found
  <2>2. CASE ~(w.low[x] < k)
    <3>1. w.low[x] = k /\ w.low[x] # -1
      BY <1>1, <2>2
    <3>2. Found(nodes, w, k)
      BY <3>1 DEF Shape, SeparatorsFound
    <3> QED BY <1>5, <3>2
  <2> QED BY <2>1, <2>2
<1>7. Ordered(z, w.low[x], w.high[x])
  <2> DEFINE lo == w.low[x]
             hi == w.high[x]
  <2>1. /\ lo \in Int /\ hi \in Int /\ Ordered(n, lo, hi) /\ lo <= k /\ k <= hi /\ (Alone => lo < k)
    BY <1>1 DEF Shape, InRange
  <2>2. z.leaf = n.leaf
    BY <1>2
  <2>3. \A h \in 1 .. Len(n.cells) :
          /\ h < i => KeyAt(n, h) <= k /\ ((n.leaf \/ Alone) => KeyAt(n, h) < k)
          /\ h >= i => k <= KeyAt(n, h) /\ ((n.leaf \/ Alone) => k < KeyAt(n, h))
    <3>1. \A h \in 1 .. Len(n.cells) : KeyAt(n, h) \in Nat
      <4> HIDE DEF n
      <4> QED BY <1>3, KeyAtType
    <3> HIDE DEF n
    <3> QED BY <1>2, <3>1
  <2> HIDE DEF n, z, lo, hi
  <2>4. Ordered(z, lo, hi)
    BY <1>2, <1>3, <2>1, <2>2, <2>3, PutOrdered
  <2> QED BY <2>4 DEF lo, hi
<1>8. InRange(nodes2, made, w)
  <2> SUFFICES ASSUME NEW y \in w.pages
               PROVE  /\ y < made
                      /\ -1 <= w.low[y] /\ w.low[y] < w.high[y] /\ w.high[y] <= Top
                      /\ Ordered(nodes2[y], w.low[y], w.high[y])
    BY DEF InRange
  <2>1. /\ y < made
        /\ -1 <= w.low[y] /\ w.low[y] < w.high[y] /\ w.high[y] <= Top
        /\ Ordered(nodes[y], w.low[y], w.high[y])
    BY DEF Shape, InRange
  <2> QED BY <1>1, <1>2, <1>7, <2>1
<1>9. Linked(nodes2, gone, w)
  <2> SUFFICES ASSUME NEW y \in w.pages, ~nodes2[y].leaf,
                      NEW j \in 1 .. Len(nodes2[y].cells) + 1,
                      Live(nodes2[y], w.low[y], w.high[y], j)
               PROVE  IsChild(nodes2, gone, w, y, j)
    BY DEF Linked
  <2>1. nodes2[y] = nodes[y]
    BY <1>1, <1>2
  <2>2. IsChild(nodes, gone, w, y, j)
    BY <2>1 DEF Shape, Linked
  <2> QED BY <2>1, <2>2 DEF IsChild
<1>10. LeavesApart(nodes2, w)
  BY <1>1, <1>4 DEF Shape, LeavesApart
<1>11. CellsDescend(nodes2, top, w)
  <2> SUFFICES ASSUME NEW y \in PageIds, ~nodes2[y].leaf, NEW j \in 1 .. Len(nodes2[y].cells)
               PROVE  w.level[Link(nodes2[y], j)] < w.level[y] /\ Link(nodes2[y], j) # top
    BY DEF CellsDescend
  <2>1. nodes2[y] = nodes[y]
    BY <1>2
  <2> QED BY <2>1 DEF Shape, CellsDescend
<1>12. SeparatorsFound(nodes2, w)
  <2> SUFFICES ASSUME NEW y \in w.pages
               PROVE  /\ w.low[y] = -1 \/ Found(nodes2, w, w.low[y])
                      /\ ~nodes2[y].leaf =>
                           \A h \in 1 .. Len(nodes2[y].cells) : Found(nodes2, w, KeyAt(nodes2[y], h))
    BY DEF SeparatorsFound
  <2>1. /\ w.low[y] = -1 \/ Found(nodes, w, w.low[y])
        /\ ~nodes[y].leaf =>
             \A h \in 1 .. Len(nodes[y].cells) : Found(nodes, w, KeyAt(nodes[y], h))
    BY DEF Shape, SeparatorsFound
  <2>2. ~nodes2[y].leaf => nodes2[y] = nodes[y]
    BY <1>1, <1>2
  <2> QED BY <1>5, <2>1, <2>2
<1>13. StoredFound(nodes2, gone, w)
  <2> SUFFICES ASSUME NEW y \in PageIds, y \notin gone, nodes2[y].leaf,
                      NEW h \in 1 .. Len(nodes2[y].cells)
               PROVE  Found(nodes2, w, KeyAt(nodes2[y], h))
    BY DEF StoredFound
  <2>1. nodes[y].leaf
    BY <1>4
  <2>2. \A g \in 1 .. Len(nodes[y].cells) : Found(nodes2, w, KeyAt(nodes[y], g))
    BY <1>5, <2>1 DEF Shape, StoredFound
  <2>3. CASE y # x
    <3>1. nodes2[y] = nodes[y]
      BY <1>2, <2>3
    <3> QED BY <2>2, <3>1
  <2>4. CASE y = x
    <3>1. h \in 1 .. Len(n.cells) + 1
          /\ KeyAt(z, h) = IF h < i THEN KeyAt(n, h) ELSE IF h = i THEN k ELSE KeyAt(n, h - 1)
      BY <1>2, <2>4
    <3>2. CASE h < i
      <4>1. h \in 1 .. Len(n.cells) /\ KeyAt(z, h) = KeyAt(n, h)
        <5> HIDE DEF n, z
        <5> QED BY <1>2, <1>3, <3>1, <3>2
      <4> QED BY <2>2, <2>4, <4>1
    <3>3. CASE h = i
      BY <1>2, <1>6, <2>4, <3>1, <3>3
    <3>4. CASE h > i
      <4>1. h - 1 \in 1 .. Len(n.cells) /\ KeyAt(z, h) = KeyAt(n, h - 1)
        <5> HIDE DEF n, z
        <5> QED BY <1>2, <1>3, <3>1, <3>4
      <4> QED BY <2>2, <2>4, <4>1
    <3> HIDE DEF n, z
    <3> QED BY <1>2, <1>3, <3>1, <3>2, <3>3, <3>4
  <2> QED BY <2>3, <2>4
<1>14. LeafTop(nodes2, top, gone, w)
  <2> SUFFICES ASSUME nodes2[top].leaf
               PROVE  /\ w.pages = {top}
                      /\ \A y \in PageIds : y \notin gone /\ y # top => Len(nodes2[y].cells) = 0
    BY DEF LeafTop
  <2>1. top \in PageIds
    BY <1>1 DEF Shape, AtTop
  <2>2. /\ w.pages = {top}
        /\ \A y \in PageIds : y \notin gone /\ y # top => Len(nodes[y].cells) = 0
    BY <1>4, <2>1 DEF Shape, LeafTop
  <2>3. x = top
    BY <2>2
  <2> QED BY <1>2, <2>2, <2>3
<1>15. LeavesLast(nodes2, gone, w)
  <2> SUFFICES ASSUME NEW y \in w.pages, nodes2[y].leaf
               PROVE  /\ y \notin gone
                      /\ gone = {} => w.level[y] = 0
                      /\ gone = {} /\ Alone =>
                           LET r == nodes2[y].right
                           IN  IF w.high[y] = Top THEN r = 0
                               ELSE r \in w.pages /\ nodes2[r].leaf /\ w.low[r] = w.high[y]
    BY DEF LeavesLast
  <2>1. /\ y \notin gone
        /\ gone = {} => w.level[y] = 0
        /\ gone = {} /\ Alone =>
             LET r == nodes[y].right
             IN  IF w.high[y] = Top THEN r = 0
                 ELSE r \in w.pages /\ nodes[r].leaf /\ w.low[r] = w.high[y]
    BY <1>1, <1>4 DEF Shape, LeavesLast
  <2>2. nodes2[y].right = nodes[y].right
    BY <1>1, <1>2
  <2>3. \A r \in w.pages : nodes2[r].leaf <=> nodes[r].leaf
    BY <1>1, <1>4
  <2> QED BY <2>1, <2>2, <2>3
<1> QED BY <1>8, <1>9, <1>10, <1>11, <1>12, <1>13, <1>14, <1>15 DEF Shape

-----------------------------------------------------------------------------
(***************************************************************************)
(* A split of the root that ends half-way: page next has the upper half,   *)
(* and nobody will unfix it.                                               *)
(***************************************************************************)
Loses(nodes, made, top, w, next, nodes2) ==
  /\ \A x \in PageIds : Sound(nodes[x])
  /\ Shape(nodes, made, top, {}, w)
  /\ Len(nodes[top].cells) >= 2
  /\ next \in PageIds /\ next \notin w.pages
  /\ \A x \in PageIds : ~nodes[x].leaf =>
       \A j \in 1 .. Len(nodes[x].cells) + 1 : Link(nodes[x], j) # next
  /\ nodes2[top] = Lower(nodes[top], next)
  /\ nodes2[next] = Upper(nodes[top])
  /\ \A x \in PageIds : x # top /\ x # next => nodes2[x] = nodes[x]

\* The lower half keeps the range of the whole page.
LEMMA LowerOrdered ==
  ASSUME NEW n, NEW lo \in Int, NEW hi \in Int, NEW split \in Int, Ordered(n, lo, split),
         split <= hi, \A i \in 1 .. Len(n.cells) : KeyAt(n, i) \in Nat
  PROVE  Ordered(n, lo, hi)
BY DEF Ordered

\* What is known of the halves.
LosePlaces(nodes, top, w, next, nodes2) ==
  LET n == nodes[top]
      m == SplitAt(n)
      a == nodes2[top]
      b == nodes2[next]
      split == SplitKey(n)
  IN  /\ w \in Views /\ w.pages \subseteq PageIds /\ top \in w.pages /\ top # next
      /\ w.low[top] = -1 /\ w.high[top] = Top /\ w.up[top] = 0
      /\ \A x \in PageIds : w.low[x] \in Int /\ w.high[x] \in Int /\ w.level[x] \in Nat
      /\ a.leaf = n.leaf /\ b.leaf = n.leaf
      /\ m \in 1 .. Len(n.cells) - 1 /\ Len(n.cells) \in Nat
      /\ Len(a.cells) = m /\ Len(b.cells) = Len(n.cells) - m
      /\ split \in Nat /\ split < Top /\ split = KeyAt(n, m)
      /\ Ordered(a, -1, Top) /\ Ordered(b, split, Top)

LEMMA LosePages ==
  ASSUME NEW nodes, NEW made, NEW top, NEW w, NEW next, NEW nodes2,
         Loses(nodes, made, top, w, next, nodes2)
  PROVE  LosePlaces(nodes, top, w, next, nodes2)
<1> DEFINE n == nodes[top]
           m == SplitAt(n)
           a == nodes2[top]
           b == nodes2[next]
           split == SplitKey(n)
<1>1. /\ \A x \in PageIds : Sound(nodes[x])
      /\ Shape(nodes, made, top, {}, w)
      /\ Len(n.cells) >= 2
      /\ next \in PageIds /\ next \notin w.pages
      /\ a = Lower(n, next) /\ b = Upper(n)
  BY DEF Loses
<1>2. w \in Views /\ top \in w.pages /\ w.low[top] = -1 /\ w.high[top] = Top /\ w.up[top] = 0
  BY <1>1 DEF Shape, AtTop
<1>3. w.pages \subseteq PageIds
      /\ \A x \in PageIds : w.low[x] \in Int /\ w.high[x] \in Int /\ w.level[x] \in Nat
  BY <1>2 DEF Views
<1>4. Sound(n) /\ Ordered(n, -1, Top)
  BY <1>1, <1>2, <1>3 DEF Shape, InRange
<1>5. Top \in Nat /\ \A k \in Keys : k \in Nat /\ k < Top
  BY BelowTop
<1> HIDE DEF n
<1>6. /\ a.leaf = n.leaf /\ b.leaf = n.leaf
      /\ m \in 1 .. Len(n.cells) - 1 /\ Len(n.cells) \in Nat
      /\ Len(a.cells) = m /\ Len(b.cells) = Len(n.cells) - m
      /\ split = KeyAt(n, m) /\ split \in Keys /\ Sound(a)
  <2> HIDE DEF a, b
  <2>1. /\ Lower(n, next).leaf = n.leaf /\ Upper(n).leaf = n.leaf
        /\ m \in 1 .. Len(n.cells) - 1 /\ Len(n.cells) \in Nat
        /\ Len(Lower(n, next).cells) = m /\ Len(Upper(n).cells) = Len(n.cells) - m
        /\ split = KeyAt(n, m) /\ split \in Keys /\ Sound(Lower(n, next))
    BY <1>1, <1>4, HalfPlaces
  <2> QED BY <1>1, <2>1
<1>7. Ordered(a, -1, split) /\ Ordered(b, split, Top)
  <2> HIDE DEF a, b
  <2>1. -1 \in Int /\ Top \in Int
    BY <1>5
  <2>2. Ordered(Lower(n, next), -1, split) /\ Ordered(Upper(n), split, Top)
    BY <1>1, <1>4, <2>1, HalfRanges
  <2> QED BY <1>1, <2>2
<1>8. Ordered(a, -1, Top)
  <2> HIDE DEF a, split
  <2>1. \A i \in 1 .. Len(a.cells) : KeyAt(a, i) \in Nat
    BY <1>6, KeyAtType
  <2>2. -1 \in Int /\ Top \in Int /\ split \in Int /\ split <= Top
    BY <1>5, <1>6
  <2> QED BY <1>7, <2>1, <2>2, LowerOrdered
<1>9. top # next
  BY <1>1, <1>2
<1> HIDE DEF a, b, split, m
<1>10. /\ w \in Views /\ w.pages \subseteq PageIds /\ top \in w.pages /\ top # next
       /\ w.low[top] = -1 /\ w.high[top] = Top /\ w.up[top] = 0
       /\ \A x \in PageIds : w.low[x] \in Int /\ w.high[x] \in Int /\ w.level[x] \in Nat
       /\ a.leaf = n.leaf /\ b.leaf = n.leaf
       /\ m \in 1 .. Len(n.cells) - 1 /\ Len(n.cells) \in Nat
       /\ Len(a.cells) = m /\ Len(b.cells) = Len(n.cells) - m
       /\ split \in Nat /\ split < Top /\ split = KeyAt(n, m)
       /\ Ordered(a, -1, Top) /\ Ordered(b, split, Top)
  BY <1>2, <1>3, <1>5, <1>6, <1>7, <1>8, <1>9
<1> QED BY <1>10 DEF LosePlaces, n, m, a, b, split

\* A root that is a leaf keeps what is left, and is the whole tree.
LEMMA LoseLeafShape ==
  ASSUME NEW nodes, NEW made \in Nat, NEW top, NEW w, NEW next, NEW nodes2, NEW made2 \in Nat,
         Loses(nodes, made, top, w, next, nodes2), made <= made2, nodes[top].leaf
  PROVE  Shape(nodes2, made2, top, {next}, w)
<1> DEFINE n == nodes[top]
           a == nodes2[top]
<1>1. /\ w \in Views /\ w.pages \subseteq PageIds /\ top \in w.pages /\ top # next
      /\ w.low[top] = -1 /\ w.high[top] = Top /\ w.up[top] = 0
      /\ \A x \in PageIds : w.low[x] \in Int /\ w.high[x] \in Int /\ w.level[x] \in Nat
      /\ nodes2[top].leaf /\ nodes2[next].leaf
      /\ Ordered(nodes2[top], -1, Top)
      /\ Len(nodes2[top].cells) \in Nat
  <2>0. LosePlaces(nodes, top, w, next, nodes2)
    BY LosePages
  <2>1. /\ w \in Views /\ w.pages \subseteq PageIds /\ top \in w.pages /\ top # next
        /\ w.low[top] = -1 /\ w.high[top] = Top /\ w.up[top] = 0
        /\ \A x \in PageIds : w.low[x] \in Int /\ w.high[x] \in Int /\ w.level[x] \in Nat
        /\ nodes2[top].leaf = n.leaf /\ nodes2[next].leaf = n.leaf
        /\ SplitAt(n) \in 1 .. Len(n.cells) - 1 /\ Len(n.cells) \in Nat
        /\ Len(nodes2[top].cells) = SplitAt(n)
        /\ Ordered(nodes2[top], -1, Top)
    BY <2>0 DEF LosePlaces
  <2> QED BY <2>1
<1>2. /\ Shape(nodes, made, top, {}, w) /\ next \in PageIds
      /\ \A x \in PageIds : Sound(nodes[x])
      /\ \A x \in PageIds : x # top /\ x # next => nodes2[x] = nodes[x]
      /\ nodes2[top] = Lower(nodes[top], next)
      /\ Len(nodes[top].cells) >= 2
  BY DEF Loses
<1>3. /\ w.pages = {top}
      /\ \A x \in PageIds : x # top => Len(nodes[x].cells) = 0
  BY <1>2 DEF Shape, LeafTop
<1>4. Top \in Nat /\ \A k \in Keys : k \in Nat /\ k < Top
  BY BelowTop
<1>5. \A x \in PageIds : ~nodes2[x].leaf => nodes2[x] = nodes[x]
  BY <1>1, <1>2
<1>6. AtTop(top, w)
  BY <1>2 DEF Shape
<1>7. InRange(nodes2, made2, w)
  <2>1. top < made /\ top \in Int
    BY <1>1, <1>2 DEF Shape, InRange, PageIds
  <2> QED BY <1>1, <1>3, <1>4, <2>1 DEF InRange
<1>8. Linked(nodes2, {next}, w)
  BY <1>1, <1>3 DEF Linked
<1>9. LeavesApart(nodes2, w)
  BY <1>3 DEF LeavesApart
<1>10. CellsDescend(nodes2, top, w)
  <2> SUFFICES ASSUME NEW x \in PageIds, ~nodes2[x].leaf, NEW j \in 1 .. Len(nodes2[x].cells)
               PROVE  w.level[Link(nodes2[x], j)] < w.level[x] /\ Link(nodes2[x], j) # top
    BY DEF CellsDescend
  <2>1. nodes2[x] = nodes[x]
    BY <1>5
  <2> QED BY <1>2, <2>1 DEF Shape, CellsDescend
<1>11. SeparatorsFound(nodes2, w)
  BY <1>1, <1>3 DEF SeparatorsFound
<1>12. ASSUME NEW i \in 1 .. Len(a.cells) PROVE Found(nodes2, w, KeyAt(a, i))
  <2>1. Sound(a)
    <3>1. Sound(n) /\ Len(n.cells) >= 2
      BY <1>1, <1>2
    <3> HIDE DEF n
    <3>2. Sound(Lower(n, next))
      BY <1>2, <3>1, HalfPlaces
    <3> QED BY <1>2, <3>2 DEF n
  <2>2. KeyAt(a, i) \in Keys
    <3> HIDE DEF a
    <3> QED BY <2>1, KeyAtType
  <2>3. -1 < KeyAt(a, i) /\ KeyAt(a, i) <= Top
    <3> HIDE DEF a
    <3> QED BY <1>4, <2>2
  <2> QED BY <1>1, <2>3 DEF Found
<1>13. StoredFound(nodes2, {next}, w)
  <2> SUFFICES ASSUME NEW x \in PageIds, x \notin {next}, nodes2[x].leaf,
                      NEW h \in 1 .. Len(nodes2[x].cells)
               PROVE  Found(nodes2, w, KeyAt(nodes2[x], h))
    BY DEF StoredFound
  <2>1. x = top
    BY <1>2, <1>3
  <2> QED BY <1>12, <2>1
<1>14. LeafTop(nodes2, top, {next}, w)
  BY <1>2, <1>3 DEF LeafTop
<1>15. LeavesLast(nodes2, {next}, w)
  BY <1>1, <1>3 DEF LeavesLast
<1>16. 2 * w.level[top] + 2 <= made2 + IF {next} = {} THEN 0 ELSE 1
  <2>1. 2 * w.level[top] + 2 <= made
    BY <1>2 DEF Shape
  <2>2. w.level[top] \in Nat
    BY <1>1
  <2> QED BY <2>1, <2>2
<1> QED BY <1>1, <1>6, <1>7, <1>8, <1>9, <1>10, <1>11, <1>13, <1>14, <1>15, <1>16 DEF Shape

\* The view when the root is an inner page: the lower half is one level higher, and
\* its last link leads to the upper half.
LoseView(nodes, top, w, next, w2) ==
  LET split == SplitKey(nodes[top])
  IN  /\ w2 \in Views
      /\ w2.pages = w.pages \cup {next}
      /\ w2.low[next] = split /\ w2.high[next] = Top
      /\ w2.up[next] = top /\ w2.level[next] = w.level[top]
      /\ \A x \in PageIds : x # next =>
           /\ w2.low[x] = w.low[x] /\ w2.high[x] = w.high[x]
           /\ w2.level[x] = IF x = top THEN w.level[top] + 1 ELSE w.level[x]
           /\ w2.up[x] = IF w.up[x] = top /\ split <= w.low[x] THEN next ELSE w.up[x]

LEMMA LoseViewExists ==
  ASSUME NEW nodes, NEW w \in Views, NEW top \in PageIds, NEW next \in PageIds,
         SplitKey(nodes[top]) \in Nat
  PROVE  \E w2 \in Views : LoseView(nodes, top, w, next, w2)
<1> DEFINE split == SplitKey(nodes[top])
           pages == w.pages \cup {next}
           low == [x \in PageIds |-> IF x = next THEN split ELSE w.low[x]]
           high == [x \in PageIds |-> IF x = next THEN Top ELSE w.high[x]]
           up == [x \in PageIds |-> IF x = next THEN top
                                    ELSE IF w.up[x] = top /\ split <= w.low[x] THEN next ELSE w.up[x]]
           level == [x \in PageIds |-> IF x = next THEN w.level[top]
                                       ELSE IF x = top THEN w.level[top] + 1 ELSE w.level[x]]
           w2 == [pages |-> pages, low |-> low, high |-> high, up |-> up, level |-> level]
<1>1. /\ w.pages \in SUBSET PageIds
      /\ w.low \in [PageIds -> Int] /\ w.high \in [PageIds -> Int]
      /\ w.up \in [PageIds -> PageIds \cup {0}] /\ w.level \in [PageIds -> Nat]
  BY DEF Views
<1>2. Top \in Int /\ split \in Nat
  BY BelowTop
<1> HIDE DEF PageIds, split
<1>3. /\ pages \in SUBSET PageIds /\ low \in [PageIds -> Int] /\ high \in [PageIds -> Int]
      /\ up \in [PageIds -> PageIds \cup {0}] /\ level \in [PageIds -> Nat]
  <2>1. pages \in SUBSET PageIds
    BY <1>1
  <2>2. low \in [PageIds -> Int] /\ high \in [PageIds -> Int]
    BY <1>1, <1>2
  <2>3. up \in [PageIds -> PageIds \cup {0}] /\ level \in [PageIds -> Nat]
    BY <1>1
  <2> QED BY <2>1, <2>2, <2>3
<1>4. /\ w2.pages = pages /\ w2.low = low /\ w2.high = high /\ w2.up = up /\ w2.level = level
  OBVIOUS
<1>5. w2 \in Views
  <2> HIDE DEF pages, low, high, up, level
  <2> QED BY <1>3 DEF Views
<1> HIDE DEF w2
<1>6. LoseView(nodes, top, w, next, w2)
  BY <1>4, <1>5 DEF LoseView, split
<1> QED BY <1>5, <1>6

\* All that is known of it.
LoseStep(nodes, made, top, w, next, nodes2, w2) ==
  /\ Loses(nodes, made, top, w, next, nodes2)
  /\ ~nodes[top].leaf
  /\ LoseView(nodes, top, w, next, w2)

\* Every other page keeps its place, but children of the root may have moved.
LoseKept(nodes, top, w, next, nodes2, w2) ==
  \A d \in PageIds : d # top /\ d # next =>
    /\ nodes2[d] = nodes[d]
    /\ d \in w2.pages <=> d \in w.pages
    /\ w2.low[d] = w.low[d] /\ w2.high[d] = w.high[d] /\ w2.level[d] = w.level[d]
    /\ w2.up[d] = IF w.up[d] = top /\ SplitKey(nodes[top]) <= w.low[d] THEN next ELSE w.up[d]

LEMMA LoseKeeps ==
  ASSUME NEW nodes, NEW made, NEW top, NEW w, NEW next, NEW nodes2, NEW w2,
         LoseStep(nodes, made, top, w, next, nodes2, w2)
  PROVE  LoseKept(nodes, top, w, next, nodes2, w2)
<1>1. Loses(nodes, made, top, w, next, nodes2) /\ LoseView(nodes, top, w, next, w2)
  BY DEF LoseStep
<1> SUFFICES ASSUME NEW d \in PageIds, d # top, d # next
             PROVE  /\ nodes2[d] = nodes[d]
                    /\ d \in w2.pages <=> d \in w.pages
                    /\ w2.low[d] = w.low[d] /\ w2.high[d] = w.high[d] /\ w2.level[d] = w.level[d]
                    /\ w2.up[d] = IF w.up[d] = top /\ SplitKey(nodes[top]) <= w.low[d]
                                    THEN next ELSE w.up[d]
  BY DEF LoseKept
<1>2. nodes2[d] = nodes[d]
  BY <1>1 DEF Loses
<1>3. /\ w2.low[d] = w.low[d] /\ w2.high[d] = w.high[d] /\ w2.level[d] = w.level[d]
      /\ w2.up[d] = IF w.up[d] = top /\ SplitKey(nodes[top]) <= w.low[d]
                      THEN next ELSE w.up[d]
  BY <1>1 DEF LoseView
<1>4. d \in w2.pages <=> d \in w.pages
  BY <1>1 DEF LoseView
<1> QED BY <1>2, <1>3, <1>4

\* The root and the lost page themselves.
LoseHalves(nodes, top, w, next, nodes2, w2) ==
  /\ top \in PageIds /\ next \in PageIds /\ top # next
  /\ w2 \in Views /\ w2.pages = w.pages \cup {next} /\ w.pages \subseteq PageIds
  /\ top \in w.pages /\ next \notin w.pages
  /\ w2.low[top] = -1 /\ w2.high[top] = Top /\ w2.up[top] = 0
  /\ w2.low[next] = SplitKey(nodes[top]) /\ w2.high[next] = Top /\ w2.up[next] = top
  /\ w2.level[top] = w.level[top] + 1 /\ w2.level[next] = w.level[top]
  /\ \A x \in PageIds : w.level[x] \in Nat
  /\ ~nodes2[top].leaf /\ ~nodes2[next].leaf /\ ~nodes[top].leaf

LEMMA LoseRoot ==
  ASSUME NEW nodes, NEW made, NEW top, NEW w, NEW next, NEW nodes2, NEW w2,
         LoseStep(nodes, made, top, w, next, nodes2, w2)
  PROVE  /\ LoseHalves(nodes, top, w, next, nodes2, w2)
         /\ LosePlaces(nodes, top, w, next, nodes2)
<1>1. /\ Loses(nodes, made, top, w, next, nodes2) /\ LoseView(nodes, top, w, next, w2)
      /\ ~nodes[top].leaf
  BY DEF LoseStep
<1>2. LosePlaces(nodes, top, w, next, nodes2)
  BY <1>1, LosePages
<1>3. next \in PageIds /\ next \notin w.pages
  BY <1>1 DEF Loses
<1>4. /\ w.pages \subseteq PageIds /\ top \in w.pages /\ top # next
      /\ w.low[top] = -1 /\ w.high[top] = Top /\ w.up[top] = 0
      /\ \A x \in PageIds : w.level[x] \in Nat
      /\ ~nodes2[top].leaf /\ ~nodes2[next].leaf
  BY <1>1, <1>2 DEF LosePlaces
<1>5. top \in PageIds /\ 0 # top
  BY <1>4 DEF PageIds
<1>6. /\ w2.low[top] = w.low[top] /\ w2.high[top] = w.high[top]
      /\ w2.level[top] = w.level[top] + 1 /\ w2.up[top] = w.up[top]
  BY <1>1, <1>4, <1>5 DEF LoseView
<1>7. /\ w2 \in Views /\ w2.pages = w.pages \cup {next}
      /\ w2.low[next] = SplitKey(nodes[top]) /\ w2.high[next] = Top /\ w2.up[next] = top
      /\ w2.level[next] = w.level[top]
  BY <1>1 DEF LoseView
<1> QED BY <1>1, <1>2, <1>3, <1>4, <1>5, <1>6, <1>7 DEF LoseHalves

\* The halves, link by link.
LoseLinks(nodes, top, next, nodes2) ==
  LET n == nodes[top]
      m == SplitAt(n)
      a == nodes2[top]
      b == nodes2[next]
  IN  /\ m \in 1 .. Len(n.cells) - 1 /\ Len(n.cells) \in Nat
      /\ Len(a.cells) = m /\ Len(b.cells) = Len(n.cells) - m
      /\ Link(a, m + 1) = next
      /\ \A j \in 1 .. m :
           /\ Link(a, j) = Link(n, j) /\ KeyAt(a, j) = KeyAt(n, j)
           /\ LowOf(a, -1, j) = LowOf(n, -1, j) /\ HighOf(a, Top, j) = HighOf(n, Top, j)
           /\ HighOf(n, Top, j) <= SplitKey(n)
      /\ LowOf(a, -1, m + 1) = SplitKey(n) /\ HighOf(a, Top, m + 1) = Top
      /\ SplitKey(n) = KeyAt(n, m)
      /\ \A j \in 1 .. Len(n.cells) - m + 1 :
           /\ Link(b, j) = Link(n, m + j)
           /\ LowOf(b, SplitKey(n), j) = LowOf(n, -1, m + j)
           /\ HighOf(b, Top, j) = HighOf(n, Top, m + j)
           /\ SplitKey(n) <= LowOf(n, -1, m + j)
      /\ \A j \in 1 .. Len(n.cells) - m : KeyAt(b, j) = KeyAt(n, m + j)

LEMMA LoseLinked ==
  ASSUME NEW nodes, NEW made, NEW top, NEW w, NEW next, NEW nodes2,
         Loses(nodes, made, top, w, next, nodes2)
  PROVE  LoseLinks(nodes, top, next, nodes2)
<1> DEFINE n == nodes[top]
           m == SplitAt(n)
           a == nodes2[top]
           b == nodes2[next]
           split == SplitKey(n)
<1>1. /\ \A x \in PageIds : Sound(nodes[x])
      /\ Shape(nodes, made, top, {}, w)
      /\ Len(n.cells) >= 2 /\ next \in PageIds
      /\ a = Lower(n, next) /\ b = Upper(n)
  BY DEF Loses
<1>2. w \in Views /\ top \in w.pages /\ w.low[top] = -1 /\ w.high[top] = Top
  BY <1>1 DEF Shape, AtTop
<1>3. top \in PageIds
  BY <1>2 DEF Views
<1>4. Sound(n) /\ Ordered(n, -1, Top)
  BY <1>1, <1>2, <1>3 DEF Shape, InRange
<1>5. -1 \in Int /\ Top \in Int
  BY BelowTop
<1> HIDE DEF n
<1>6. /\ m \in 1 .. Len(n.cells) - 1 /\ Len(n.cells) \in Nat
      /\ Len(a.cells) = m /\ Len(b.cells) = Len(n.cells) - m
      /\ Link(a, m + 1) = next
      /\ \A j \in 1 .. m : Link(a, j) = Link(n, j)
      /\ \A j \in 1 .. m : KeyAt(a, j) = KeyAt(n, j)
      /\ split = KeyAt(n, m)
      /\ \A j \in 1 .. Len(n.cells) - m + 1 : Link(b, j) = Link(n, m + j)
      /\ \A j \in 1 .. Len(n.cells) - m : KeyAt(b, j) = KeyAt(n, m + j)
  BY <1>1, <1>4, HalfPlaces
<1>7. /\ \A j \in 1 .. m : /\ LowOf(a, -1, j) = LowOf(n, -1, j)
                           /\ HighOf(a, split, j) = HighOf(n, Top, j)
                           /\ HighOf(n, Top, j) <= split
      /\ \A j \in 1 .. Len(n.cells) - m + 1 :
           /\ LowOf(b, split, j) = LowOf(n, -1, m + j)
           /\ HighOf(b, Top, j) = HighOf(n, Top, m + j)
           /\ split <= LowOf(n, -1, m + j)
  BY <1>1, <1>4, <1>5, HalfRanges
<1> HIDE DEF a, b, split, m
<1>8. /\ \A j \in 1 .. m : HighOf(a, Top, j) = HighOf(a, split, j)
      /\ HighOf(a, Top, m + 1) = Top
      /\ LowOf(a, -1, m + 1) = KeyAt(a, m)
  <2>1. \A j \in 1 .. m : j # Len(a.cells) + 1
    BY <1>6
  <2>2. m + 1 = Len(a.cells) + 1 /\ m + 1 # 1 /\ (m + 1) - 1 = m
    BY <1>6
  <2> QED BY <2>1, <2>2 DEF HighOf, LowOf
<1>9. KeyAt(a, m) = split
  BY <1>6
<1>10. \A j \in 1 .. m : /\ Link(a, j) = Link(n, j) /\ KeyAt(a, j) = KeyAt(n, j)
                         /\ LowOf(a, -1, j) = LowOf(n, -1, j)
                         /\ HighOf(a, Top, j) = HighOf(n, Top, j)
                         /\ HighOf(n, Top, j) <= split
  BY <1>6, <1>7, <1>8
<1>11. \A j \in 1 .. Len(n.cells) - m + 1 :
           /\ Link(b, j) = Link(n, m + j)
           /\ LowOf(b, split, j) = LowOf(n, -1, m + j)
           /\ HighOf(b, Top, j) = HighOf(n, Top, m + j)
           /\ split <= LowOf(n, -1, m + j)
  BY <1>6, <1>7
<1> QED BY <1>6, <1>8, <1>9, <1>10, <1>11 DEF LoseLinks, n, a, b, m, split

\* A child of the old root, link i of it.
LEMMA LoseOldChild ==
  ASSUME NEW nodes, NEW made, NEW top, NEW w, NEW next, NEW nodes2, NEW w2,
         LoseStep(nodes, made, top, w, next, nodes2, w2),
         NEW i \in 1 .. Len(nodes[top].cells) + 1, Live(nodes[top], -1, Top, i)
  PROVE  LET n == nodes[top]
             d == Link(n, i)
         IN  /\ d \in w2.pages
             /\ w2.low[d] = LowOf(n, -1, i) /\ w2.high[d] = HighOf(n, Top, i)
             /\ w2.up[d] = (IF SplitKey(n) <= LowOf(n, -1, i) THEN next ELSE top)
             /\ w2.level[d] < w.level[top]
<1> DEFINE n == nodes[top]
           d == Link(n, i)
<1>1. Loses(nodes, made, top, w, next, nodes2) /\ ~n.leaf
  BY DEF LoseStep
<1>2. LoseHalves(nodes, top, w, next, nodes2, w2)
  BY LoseRoot
<1>3. LoseKept(nodes, top, w, next, nodes2, w2)
  BY LoseKeeps
<1>4. Shape(nodes, made, top, {}, w)
  BY <1>1 DEF Loses
<1>5. top \in w.pages /\ w.low[top] = -1 /\ w.high[top] = Top
  BY <1>4 DEF Shape, AtTop
<1>6. IsChild(nodes, {}, w, top, i)
  BY <1>1, <1>4, <1>5 DEF Shape, Linked
<1>7. /\ d \in w.pages /\ w.up[d] = top
      /\ w.low[d] = LowOf(n, -1, i) /\ w.high[d] = HighOf(n, Top, i)
      /\ w.level[d] < w.level[top]
  BY <1>5, <1>6 DEF IsChild
<1>8. d \in PageIds /\ d # next /\ d # top
  BY <1>2, <1>7 DEF LoseHalves
<1>9. /\ d \in w2.pages /\ w2.low[d] = w.low[d] /\ w2.high[d] = w.high[d]
      /\ w2.level[d] = w.level[d]
      /\ w2.up[d] = IF w.up[d] = top /\ SplitKey(nodes[top]) <= w.low[d] THEN next ELSE w.up[d]
  BY <1>3, <1>7, <1>8 DEF LoseKept
<1> HIDE DEF d
<1> QED BY <1>7, <1>9 DEF d

LEMMA LoseTopLinked ==
  ASSUME NEW nodes, NEW made, NEW top, NEW w, NEW next, NEW nodes2, NEW w2,
         LoseStep(nodes, made, top, w, next, nodes2, w2),
         NEW j \in 1 .. Len(nodes2[top].cells) + 1,
         Live(nodes2[top], w2.low[top], w2.high[top], j)
  PROVE  IsChild(nodes2, {next}, w2, top, j)
<1> DEFINE n == nodes[top]
           a == nodes2[top]
           m == SplitAt(n)
           split == SplitKey(n)
           d == Link(n, j)
<1>1. Loses(nodes, made, top, w, next, nodes2)
  BY DEF LoseStep
<1>2. LoseHalves(nodes, top, w, next, nodes2, w2)
  BY LoseRoot
<1>3. LoseLinks(nodes, top, next, nodes2)
  BY <1>1, LoseLinked
<1>4. /\ w2.low[top] = -1 /\ w2.high[top] = Top
      /\ w2.level[top] = w.level[top] + 1 /\ w2.level[next] = w.level[top]
      /\ next \in w2.pages /\ w2.up[next] = top
      /\ w2.low[next] = split /\ w2.high[next] = Top
      /\ w.level[top] \in Nat
  BY <1>2 DEF LoseHalves
<1>5. /\ m \in 1 .. Len(n.cells) - 1 /\ Len(n.cells) \in Nat /\ Len(a.cells) = m
      /\ Link(a, m + 1) = next
      /\ LowOf(a, -1, m + 1) = split /\ HighOf(a, Top, m + 1) = Top
      /\ \A h \in 1 .. m : /\ Link(a, h) = Link(n, h)
                           /\ LowOf(a, -1, h) = LowOf(n, -1, h)
                           /\ HighOf(a, Top, h) = HighOf(n, Top, h)
                           /\ HighOf(n, Top, h) <= split
  BY <1>3 DEF LoseLinks
<1>6. CASE j = m + 1
  BY <1>4, <1>5, <1>6 DEF IsChild
<1>7. CASE j # m + 1
  <2>1. j \in 1 .. m /\ j \in 1 .. Len(n.cells) + 1
    BY <1>5, <1>7
  <2>2. /\ Link(a, j) = d
        /\ LowOf(a, -1, j) = LowOf(n, -1, j)
        /\ HighOf(a, Top, j) = HighOf(n, Top, j)
        /\ HighOf(n, Top, j) <= split
    BY <1>5, <2>1
  <2>3. Live(n, -1, Top, j)
    BY <1>4, <2>2 DEF Live
  <2>4. /\ d \in w2.pages
        /\ w2.low[d] = LowOf(n, -1, j) /\ w2.high[d] = HighOf(n, Top, j)
        /\ w2.up[d] = (IF split <= LowOf(n, -1, j) THEN next ELSE top)
        /\ w2.level[d] < w.level[top]
    BY <2>1, <2>3, LoseOldChild
  <2>5. w2.low[d] \in Int /\ w2.high[d] \in Int /\ w2.level[d] \in Nat /\ split \in Int
    BY <1>2, <2>4 DEF LoseHalves, Views
  <2>6. ~(split <= LowOf(n, -1, j))
    <3>1. LowOf(n, -1, j) < HighOf(n, Top, j)
      BY <2>3 DEF Live
    <3> HIDE DEF n, split, d
    <3> QED BY <2>2, <2>4, <2>5, <3>1
  <2> HIDE DEF n, a, split, d
  <2>7. w2.level[d] < w2.level[top]
    BY <1>4, <2>4, <2>5
  <2> QED BY <1>4, <2>2, <2>4, <2>6, <2>7 DEF IsChild, a
<1> QED BY <1>6, <1>7

LEMMA LoseNextLinked ==
  ASSUME NEW nodes, NEW made, NEW top, NEW w, NEW next, NEW nodes2, NEW w2,
         LoseStep(nodes, made, top, w, next, nodes2, w2),
         NEW j \in 1 .. Len(nodes2[next].cells) + 1,
         Live(nodes2[next], w2.low[next], w2.high[next], j)
  PROVE  IsChild(nodes2, {next}, w2, next, j)
<1> DEFINE n == nodes[top]
           b == nodes2[next]
           m == SplitAt(n)
           split == SplitKey(n)
           d == Link(n, m + j)
<1>1. Loses(nodes, made, top, w, next, nodes2)
  BY DEF LoseStep
<1>2. LoseHalves(nodes, top, w, next, nodes2, w2)
  BY LoseRoot
<1>3. LoseLinks(nodes, top, next, nodes2)
  BY <1>1, LoseLinked
<1>4. /\ w2.level[next] = w.level[top]
      /\ w2.low[next] = split /\ w2.high[next] = Top
  BY <1>2 DEF LoseHalves
<1>5. /\ m \in 1 .. Len(n.cells) - 1 /\ Len(n.cells) \in Nat /\ Len(b.cells) = Len(n.cells) - m
      /\ \A h \in 1 .. Len(n.cells) - m + 1 :
           /\ Link(b, h) = Link(n, m + h)
           /\ LowOf(b, split, h) = LowOf(n, -1, m + h)
           /\ HighOf(b, Top, h) = HighOf(n, Top, m + h)
           /\ split <= LowOf(n, -1, m + h)
  BY <1>3 DEF LoseLinks
<1> HIDE DEF b
<1>6. j \in 1 .. Len(n.cells) - m + 1 /\ m + j \in 1 .. Len(n.cells) + 1
  <2> j \in 1 .. Len(b.cells) + 1
    BY DEF b
  <2> HIDE DEF n, m
  <2> QED BY <1>5
<1> HIDE DEF m, split
<1>7. /\ Link(b, j) = d
      /\ LowOf(b, split, j) = LowOf(n, -1, m + j)
      /\ HighOf(b, Top, j) = HighOf(n, Top, m + j)
      /\ split <= LowOf(n, -1, m + j)
  BY <1>5, <1>6
<1>8. Live(n, -1, Top, m + j)
  BY <1>4, <1>7 DEF Live, b
<1>9. /\ d \in w2.pages
      /\ w2.low[d] = LowOf(n, -1, m + j) /\ w2.high[d] = HighOf(n, Top, m + j)
      /\ w2.up[d] = (IF split <= LowOf(n, -1, m + j) THEN next ELSE top)
      /\ w2.level[d] < w.level[top]
  BY <1>6, <1>8, LoseOldChild DEF split
<1> HIDE DEF n, d
<1>10. w2.up[d] = next
  BY <1>7, <1>9
<1> QED BY <1>4, <1>7, <1>9, <1>10 DEF IsChild, b

\* A key that was found is found on the same page.
LEMMA LoseFound ==
  ASSUME NEW nodes, NEW made, NEW top, NEW w, NEW next, NEW nodes2, NEW w2,
         LoseStep(nodes, made, top, w, next, nodes2, w2),
         NEW k, Found(nodes, w, k)
  PROVE  Found(nodes2, w2, k)
<1>1. LoseHalves(nodes, top, w, next, nodes2, w2)
  BY LoseRoot
<1>2. LoseKept(nodes, top, w, next, nodes2, w2)
  BY LoseKeeps
<1>3. PICK q \in w.pages : /\ nodes[q].leaf /\ w.low[q] < k /\ k <= w.high[q]
                           /\ \E i \in 1 .. Len(nodes[q].cells) : KeyAt(nodes[q], i) = k
  BY DEF Found
<1>4. q # top /\ q # next /\ q \in PageIds
  BY <1>1, <1>3 DEF LoseHalves
<1>5. /\ q \in w2.pages /\ nodes2[q] = nodes[q]
      /\ w2.low[q] = w.low[q] /\ w2.high[q] = w.high[q]
  BY <1>2, <1>4 DEF LoseKept
<1> QED BY <1>3, <1>5 DEF Found

LEMMA LoseInnerShape ==
  ASSUME NEW nodes, NEW made \in Nat, NEW top, NEW w, NEW next, NEW nodes2, NEW w2,
         NEW made2 \in Nat, made + 1 <= made2, next < made2,
         LoseStep(nodes, made, top, w, next, nodes2, w2)
  PROVE  Shape(nodes2, made2, top, {next}, w2)
<1> DEFINE n == nodes[top]
           m == SplitAt(n)
           a == nodes2[top]
           b == nodes2[next]
           split == SplitKey(n)
<1>1. Loses(nodes, made, top, w, next, nodes2)
  BY DEF LoseStep
<1>2. LoseHalves(nodes, top, w, next, nodes2, w2) /\ LosePlaces(nodes, top, w, next, nodes2)
  BY LoseRoot
<1>3. LoseKept(nodes, top, w, next, nodes2, w2)
  BY LoseKeeps
<1>4. LoseLinks(nodes, top, next, nodes2)
  BY <1>1, LoseLinked
<1>5. /\ top \in PageIds /\ next \in PageIds /\ top # next
      /\ w2 \in Views /\ w2.pages = w.pages \cup {next} /\ w.pages \subseteq PageIds
      /\ top \in w.pages /\ next \notin w.pages
      /\ w2.low[top] = -1 /\ w2.high[top] = Top /\ w2.up[top] = 0
      /\ w2.low[next] = split /\ w2.high[next] = Top /\ w2.up[next] = top
      /\ w2.level[top] = w.level[top] + 1 /\ w2.level[next] = w.level[top]
      /\ \A x \in PageIds : w.level[x] \in Nat
      /\ ~a.leaf /\ ~b.leaf /\ ~n.leaf
  BY <1>2 DEF LoseHalves
<1>6. /\ m \in 1 .. Len(n.cells) - 1 /\ Len(n.cells) \in Nat
      /\ Len(a.cells) = m /\ Len(b.cells) = Len(n.cells) - m
      /\ \A j \in 1 .. m : Link(a, j) = Link(n, j) /\ KeyAt(a, j) = KeyAt(n, j)
      /\ split = KeyAt(n, m)
      /\ \A j \in 1 .. Len(n.cells) - m + 1 : Link(b, j) = Link(n, m + j)
      /\ \A j \in 1 .. Len(n.cells) - m : KeyAt(b, j) = KeyAt(n, m + j)
  BY <1>4 DEF LoseLinks
<1>7. /\ split \in Nat /\ split < Top
      /\ Ordered(a, -1, Top) /\ Ordered(b, split, Top)
  BY <1>2 DEF LosePlaces
<1>8. /\ Shape(nodes, made, top, {}, w)
      /\ \A x \in PageIds : Sound(nodes[x])
      /\ \A x \in PageIds : ~nodes[x].leaf =>
           \A j \in 1 .. Len(nodes[x].cells) + 1 : Link(nodes[x], j) # next
  BY <1>1 DEF Loses
<1>9. \A d \in PageIds : d # top /\ d # next =>
        /\ nodes2[d] = nodes[d]
        /\ d \in w2.pages <=> d \in w.pages
        /\ w2.low[d] = w.low[d] /\ w2.high[d] = w.high[d] /\ w2.level[d] = w.level[d]
        /\ w2.up[d] = IF w.up[d] = top /\ split <= w.low[d] THEN next ELSE w.up[d]
  BY <1>3 DEF LoseKept
<1>11. Top \in Nat
  BY BelowTop
<1>12. AtTop(top, w2)
  BY <1>5 DEF AtTop
<1>13. InRange(nodes2, made2, w2)
  <2> SUFFICES ASSUME NEW x \in w2.pages
               PROVE  /\ x < made2
                      /\ -1 <= w2.low[x] /\ w2.low[x] < w2.high[x] /\ w2.high[x] <= Top
                      /\ Ordered(nodes2[x], w2.low[x], w2.high[x])
    BY DEF InRange
  <2>1. \A y \in w.pages : y < made /\ y \in Nat
    BY <1>5, <1>8 DEF Shape, InRange, PageIds
  <2>2. CASE x = next
    BY <1>5, <1>7, <1>11, <2>2
  <2>3. CASE x = top
    <3>1. top < made2
      BY <1>5, <2>1
    <3> HIDE DEF a
    <3> QED BY <1>5, <1>7, <1>11, <2>3, <3>1 DEF a
  <2>4. CASE x # next /\ x # top
    <3>1. x \in w.pages /\ x \in PageIds
      BY <1>5, <2>4
    <3>2. x < made2
      BY <2>1, <3>1
    <3>3. /\ -1 <= w.low[x] /\ w.low[x] < w.high[x] /\ w.high[x] <= Top
          /\ Ordered(nodes[x], w.low[x], w.high[x])
      BY <1>8, <3>1 DEF Shape, InRange
    <3>4. nodes2[x] = nodes[x] /\ w2.low[x] = w.low[x] /\ w2.high[x] = w.high[x]
      BY <1>9, <2>4, <3>1
    <3> QED BY <3>2, <3>3, <3>4
  <2> QED BY <2>2, <2>3, <2>4
<1>14. Linked(nodes2, {next}, w2)
  <2> SUFFICES ASSUME NEW x \in w2.pages, ~nodes2[x].leaf,
                      NEW j \in 1 .. Len(nodes2[x].cells) + 1,
                      Live(nodes2[x], w2.low[x], w2.high[x], j)
               PROVE  IsChild(nodes2, {next}, w2, x, j)
    BY DEF Linked
  <2>1. CASE x = top
    BY <2>1, LoseTopLinked
  <2>2. CASE x = next
    BY <2>2, LoseNextLinked
  <2>3. CASE x # top /\ x # next
    <3>1. x \in w.pages /\ x \in PageIds
      BY <1>5, <2>3
    <3>2. /\ nodes2[x] = nodes[x] /\ w2.low[x] = w.low[x] /\ w2.high[x] = w.high[x]
          /\ w2.level[x] = w.level[x]
      BY <1>9, <2>3, <3>1
    <3> DEFINE d == Link(nodes[x], j)
    <3>3. IsChild(nodes, {}, w, x, j)
      BY <1>8, <3>1, <3>2 DEF Shape, Linked
    <3>4. /\ d \in w.pages /\ w.up[d] = x
          /\ w.low[d] = LowOf(nodes[x], w.low[x], j)
          /\ w.high[d] = HighOf(nodes[x], w.high[x], j)
          /\ w.level[d] < w.level[x]
      BY <3>3 DEF IsChild
    <3>5. d # next /\ d \in PageIds
      BY <1>5, <3>4
    <3>6. d # top
      <4>1. w.up[top] = 0
        BY <1>8 DEF Shape, AtTop
      <4>2. x # 0
        BY <3>1 DEF PageIds
      <4> QED BY <3>4, <4>1, <4>2
    <3>7. /\ d \in w2.pages /\ w2.low[d] = w.low[d] /\ w2.high[d] = w.high[d]
          /\ w2.level[d] = w.level[d] /\ w2.up[d] = x
      BY <1>9, <2>3, <3>4, <3>5, <3>6
    <3> HIDE DEF d
    <3> QED BY <3>2, <3>4, <3>7 DEF IsChild, d
  <2> QED BY <2>1, <2>2, <2>3
<1>15. LeavesApart(nodes2, w2)
  <2> SUFFICES ASSUME NEW x \in w2.pages, NEW y \in w2.pages,
                      nodes2[x].leaf, nodes2[y].leaf, x # y
               PROVE  w2.high[x] <= w2.low[y] \/ w2.high[y] <= w2.low[x]
    BY DEF LeavesApart
  <2>1. /\ x # top /\ x # next /\ x \in w.pages /\ x \in PageIds
        /\ y # top /\ y # next /\ y \in w.pages /\ y \in PageIds
    BY <1>5
  <2>2. /\ nodes[x].leaf /\ nodes[y].leaf
        /\ w2.low[x] = w.low[x] /\ w2.high[x] = w.high[x]
        /\ w2.low[y] = w.low[y] /\ w2.high[y] = w.high[y]
    BY <1>9, <2>1
  <2> QED BY <1>8, <2>1, <2>2 DEF Shape, LeavesApart
<1>16. CellsDescend(nodes2, top, w2)
  <2> SUFFICES ASSUME NEW x \in PageIds, ~nodes2[x].leaf, NEW j \in 1 .. Len(nodes2[x].cells)
               PROVE  w2.level[Link(nodes2[x], j)] < w2.level[x] /\ Link(nodes2[x], j) # top
    BY DEF CellsDescend
  <2>1. ASSUME NEW y \in PageIds, ~nodes[y].leaf, NEW h \in 1 .. Len(nodes[y].cells)
        PROVE  /\ w2.level[Link(nodes[y], h)] < w.level[y] /\ Link(nodes[y], h) # top
               /\ w2.level[Link(nodes[y], h)] \in Nat
    <3> DEFINE d == Link(nodes[y], h)
    <3>1. w.level[d] < w.level[y] /\ d # top
      BY <1>8, <2>1 DEF Shape, CellsDescend
    <3>2. Len(nodes[y].cells) \in Nat /\ Sound(nodes[y])
      BY <1>8, SoundType
    <3>3. h \in 1 .. Len(nodes[y].cells) + 1
      BY <3>2
    <3>4. d \in PageIds /\ d # next
      BY <1>8, <2>1, <3>2, <3>3, LinkType
    <3> HIDE DEF d
    <3>5. w2.level[d] = w.level[d]
      BY <1>9, <3>1, <3>4
    <3> QED BY <1>5, <3>1, <3>4, <3>5 DEF d
  <2>2. CASE x = top
    <3>1. j \in 1 .. m /\ j \in 1 .. Len(n.cells) /\ Link(a, j) = Link(n, j)
      <4> j \in 1 .. Len(a.cells)
        BY <2>2
      <4> HIDE DEF n, m, a
      <4> QED BY <1>6
    <3>2. /\ w2.level[Link(n, j)] < w.level[top] /\ Link(n, j) # top
          /\ w2.level[Link(n, j)] \in Nat
      BY <1>5, <2>1, <3>1
    <3> HIDE DEF n, m
    <3> QED BY <1>5, <2>2, <3>1, <3>2
  <2>3. CASE x = next
    <3>1. m + j \in 1 .. Len(n.cells) /\ Link(b, j) = Link(n, m + j)
      <4> j \in 1 .. Len(b.cells)
        BY <2>3
      <4> HIDE DEF n, m, b
      <4> QED BY <1>6
    <3>2. w2.level[Link(n, m + j)] < w.level[top] /\ Link(n, m + j) # top
      BY <1>5, <2>1, <3>1
    <3> HIDE DEF n, m
    <3> QED BY <1>5, <2>3, <3>1, <3>2
  <2>4. CASE x # top /\ x # next
    <3>1. nodes2[x] = nodes[x] /\ w2.level[x] = w.level[x]
      BY <1>9, <2>4
    <3> QED BY <2>1, <3>1
  <2> QED BY <2>2, <2>3, <2>4
<1>17. ASSUME NEW k, Found(nodes, w, k) PROVE Found(nodes2, w2, k)
  BY <1>17, LoseFound
<1>18. ASSUME NEW h \in 1 .. Len(n.cells) PROVE Found(nodes2, w2, KeyAt(n, h))
  <2>1. Found(nodes, w, KeyAt(n, h))
    BY <1>5, <1>8, KeysFound
  <2> QED BY <1>17, <2>1
<1>19. SeparatorsFound(nodes2, w2)
  <2> SUFFICES ASSUME NEW x \in w2.pages
               PROVE  /\ w2.low[x] = -1 \/ Found(nodes2, w2, w2.low[x])
                      /\ ~nodes2[x].leaf =>
                           \A h \in 1 .. Len(nodes2[x].cells) : Found(nodes2, w2, KeyAt(nodes2[x], h))
    BY DEF SeparatorsFound
  <2>1. CASE x = top
    <3>1. ASSUME NEW h \in 1 .. Len(a.cells) PROVE Found(nodes2, w2, KeyAt(a, h))
      <4>1. h \in 1 .. Len(n.cells) /\ KeyAt(a, h) = KeyAt(n, h)
        <5> HIDE DEF n, m, a
        <5> QED BY <1>6
      <4> QED BY <1>18, <4>1
    <3> QED BY <1>5, <2>1, <3>1
  <2>2. CASE x = next
    <3>1. ASSUME NEW h \in 1 .. Len(b.cells) PROVE Found(nodes2, w2, KeyAt(b, h))
      <4>1. m + h \in 1 .. Len(n.cells) /\ KeyAt(b, h) = KeyAt(n, m + h)
        <5> HIDE DEF n, m, b
        <5> QED BY <1>6
      <4> QED BY <1>18, <4>1
    <3>2. Found(nodes2, w2, split)
      <4>1. m \in 1 .. Len(n.cells)
        <5> HIDE DEF n, m
        <5> QED BY <1>6
      <4>2. Found(nodes2, w2, KeyAt(n, m))
        BY <1>18, <4>1
      <4> QED BY <1>6, <4>2
    <3> QED BY <1>5, <2>2, <3>1, <3>2
  <2>3. CASE x # top /\ x # next
    <3>1. x \in w.pages /\ x \in PageIds
      BY <1>5, <2>3
    <3>2. nodes2[x] = nodes[x] /\ w2.low[x] = w.low[x]
      BY <1>9, <2>3, <3>1
    <3>3. /\ w.low[x] = -1 \/ Found(nodes, w, w.low[x])
          /\ ~nodes[x].leaf =>
               \A h \in 1 .. Len(nodes[x].cells) : Found(nodes, w, KeyAt(nodes[x], h))
      BY <1>8, <3>1 DEF Shape, SeparatorsFound
    <3> QED BY <1>17, <3>2, <3>3
  <2> QED BY <2>1, <2>2, <2>3
<1>20. StoredFound(nodes2, {next}, w2)
  <2> SUFFICES ASSUME NEW x \in PageIds, x \notin {next}, nodes2[x].leaf,
                      NEW h \in 1 .. Len(nodes2[x].cells)
               PROVE  Found(nodes2, w2, KeyAt(nodes2[x], h))
    BY DEF StoredFound
  <2>1. nodes2[x] = nodes[x]
    BY <1>5, <1>9
  <2>2. Found(nodes, w, KeyAt(nodes[x], h))
    BY <1>8, <2>1 DEF Shape, StoredFound
  <2> QED BY <1>17, <2>1, <2>2
<1>21. LeafTop(nodes2, top, {next}, w2)
  BY <1>5 DEF LeafTop
<1>22. LeavesLast(nodes2, {next}, w2)
  <2> SUFFICES ASSUME NEW x \in w2.pages, nodes2[x].leaf PROVE x \notin {next}
    BY DEF LeavesLast
  <2> QED BY <1>5
<1>23. 2 * w2.level[top] + 2 <= made2 + IF {next} = {} THEN 0 ELSE 1
  <2>1. 2 * w.level[top] + 2 <= made
    BY <1>8 DEF Shape
  <2>2. w.level[top] \in Nat /\ w2.level[top] = w.level[top] + 1
    BY <1>5
  <2> QED BY <2>1, <2>2
<1> QED BY <1>5, <1>12, <1>13, <1>14, <1>15, <1>16, <1>19, <1>20, <1>21, <1>22, <1>23 DEF Shape

-----------------------------------------------------------------------------
(***************************************************************************)
(* What the table has.                                                     *)
(***************************************************************************)
StoredIn(nodes, gone, k) ==
  \E q \in PageIds : /\ nodes[q].leaf /\ q \notin gone
                     /\ \E i \in 1 .. Len(nodes[q].cells) : KeyAt(nodes[q], i) = k

LEMMA FoundStored ==
  ASSUME NEW nodes, NEW made, NEW top, NEW gone, NEW w, Shape(nodes, made, top, gone, w),
         NEW k, Found(nodes, w, k)
  PROVE  StoredIn(nodes, gone, k)
<1>1. PICK q \in w.pages : /\ nodes[q].leaf /\ w.low[q] < k /\ k <= w.high[q]
                           /\ \E i \in 1 .. Len(nodes[q].cells) : KeyAt(nodes[q], i) = k
  BY DEF Found
<1>2. w.pages \subseteq PageIds
  BY DEF Shape, Views
<1>3. q \notin gone
  BY <1>1 DEF Shape, LeavesLast
<1> QED BY <1>1, <1>2, <1>3 DEF StoredIn

LEMMA StoredFoundIn ==
  ASSUME NEW nodes, NEW made, NEW top, NEW gone, NEW w, Shape(nodes, made, top, gone, w),
         NEW k, StoredIn(nodes, gone, k)
  PROVE  Found(nodes, w, k)
BY DEF Shape, StoredFound, StoredIn

\* A key has one value.
LEMMA HoldsOne ==
  ASSUME NEW nodes, NEW made, NEW top, NEW gone, NEW w, Shape(nodes, made, top, gone, w),
         NEW k \in Int, NEW u, NEW v, Holds(nodes, w, k, u), Holds(nodes, w, k, v)
  PROVE  u = v
<1>1. PICK q \in w.pages : /\ nodes[q].leaf /\ w.low[q] < k /\ k <= w.high[q]
                           /\ \E i \in 1 .. Len(nodes[q].cells) :
                                KeyAt(nodes[q], i) = k /\ Link(nodes[q], i) = u
  BY DEF Holds
<1>2. PICK r \in w.pages : /\ nodes[r].leaf /\ w.low[r] < k /\ k <= w.high[r]
                           /\ \E i \in 1 .. Len(nodes[r].cells) :
                                KeyAt(nodes[r], i) = k /\ Link(nodes[r], i) = v
  BY DEF Holds
<1>3. /\ w.low[q] \in Int /\ w.high[q] \in Int /\ w.low[r] \in Int /\ w.high[r] \in Int
  BY DEF Shape, Views
<1>4. q = r
  <2> SUFFICES ASSUME q # r PROVE FALSE
    OBVIOUS
  <2>1. w.high[q] <= w.low[r] \/ w.high[r] <= w.low[q]
    BY <1>1, <1>2 DEF Shape, LeavesApart
  <2> QED BY <1>1, <1>2, <1>3, <2>1
<1>5. PICK i \in 1 .. Len(nodes[q].cells) : KeyAt(nodes[q], i) = k /\ Link(nodes[q], i) = u
  BY <1>1
<1>6. PICK j \in 1 .. Len(nodes[q].cells) : KeyAt(nodes[q], j) = k /\ Link(nodes[q], j) = v
  BY <1>2, <1>4
<1>7. \A a, b \in 1 .. Len(nodes[q].cells) : a < b => KeyAt(nodes[q], a) < KeyAt(nodes[q], b)
  BY <1>1 DEF Shape, InRange, Ordered
<1>8. i = j
  BY <1>5, <1>6, <1>7
<1> QED BY <1>5, <1>6, <1>8

\* Two views have the same table.
SameTable(nodes, w, nodes2, w2) ==
  \A k \in Keys : \A v : Holds(nodes2, w2, k, v) <=> Holds(nodes, w, k, v)

\* It is enough that nothing is lost, and no key comes.
LEMMA SameTableWhen ==
  ASSUME NEW nodes, NEW made, NEW top, NEW gone, NEW w, Shape(nodes, made, top, gone, w),
         NEW nodes2, NEW made2, NEW top2, NEW w2, Shape(nodes2, made2, top2, gone, w2),
         \A k \in Keys : \A v : Holds(nodes, w, k, v) => Holds(nodes2, w2, k, v),
         \A k \in Keys : StoredIn(nodes2, gone, k) => StoredIn(nodes, gone, k)
  PROVE  SameTable(nodes, w, nodes2, w2)
<1> SUFFICES ASSUME NEW k \in Keys, NEW v, Holds(nodes2, w2, k, v)
             PROVE  Holds(nodes, w, k, v)
  BY DEF SameTable
<1>1. Found(nodes2, w2, k)
  BY FoundHolds
<1>2. StoredIn(nodes2, gone, k)
  BY <1>1, FoundStored
<1>3. Found(nodes, w, k)
  BY <1>2, StoredFoundIn
<1>4. PICK u : Holds(nodes, w, k, u)
  BY <1>3, FoundHolds
<1>5. Holds(nodes2, w2, k, u)
  BY <1>4
<1>6. k \in Int
  BY Constants
<1>7. u = v
  BY <1>5, <1>6, HoldsOne
<1> QED BY <1>4, <1>7

\* A split stores no key.
LEMMA SplitStored ==
  ASSUME NEW nodes, NEW made, NEW top, NEW gone, NEW w, NEW c, NEW next, NEW p, NEW i,
         NEW nodes2, NEW w2,
         SplitStep(nodes, made, top, gone, w, c, next, p, i, nodes2, w2),
         NEW k, StoredIn(nodes2, gone, k)
  PROVE  StoredIn(nodes, gone, k)
<1>1. PICK x \in PageIds : /\ nodes2[x].leaf /\ x \notin gone
                           /\ \E j \in 1 .. Len(nodes2[x].cells) : KeyAt(nodes2[x], j) = k
  BY DEF StoredIn
<1>2. PICK j \in 1 .. Len(nodes2[x].cells) : KeyAt(nodes2[x], j) = k
  BY <1>1
<1>3. SplitPlaces(nodes, c, next, p, nodes2)
  BY SplitPages
<1>4. /\ nodes2[c].leaf = nodes[c].leaf /\ nodes2[next].leaf = nodes[c].leaf /\ ~nodes2[p].leaf
      /\ \A y \in PageIds : y # c /\ y # next /\ y # p => nodes2[y] = nodes[y]
  BY <1>3 DEF SplitPlaces
<1>5. x # p
  BY <1>1, <1>4
<1>6. CASE x # c /\ x # next
  BY <1>1, <1>4, <1>5, <1>6 DEF StoredIn
<1>7. CASE x = c \/ x = next
  <2>1. nodes[c].leaf
    BY <1>1, <1>4, <1>7
  <2>2. \E h \in 1 .. Len(nodes[c].cells) : KeyAt(nodes[c], h) = k
    <3>1. \/ x # c /\ x # next /\ x # p /\ j \in 1 .. Len(nodes[x].cells)
             /\ KeyAt(nodes2[x], j) = KeyAt(nodes[x], j)
          \/ \E h \in 1 .. Len(nodes[c].cells) : KeyAt(nodes2[x], j) = KeyAt(nodes[c], h)
          \/ x = p /\ \E h \in 1 .. Len(nodes[p].cells) : KeyAt(nodes2[x], j) = KeyAt(nodes[p], h)
      BY SplitKeys
    <3>2. \E h \in 1 .. Len(nodes[c].cells) : KeyAt(nodes2[x], j) = KeyAt(nodes[c], h)
      BY <1>5, <1>7, <3>1
    <3> QED BY <1>2, <3>2
  <2>3. c \in PageIds /\ c \notin gone
    <3>0. Splittable(nodes, made, top, gone, w, c, next, p, i)
      BY DEF SplitStep
    <3>1. c \in w.pages /\ w.pages \subseteq PageIds
      BY <3>0, SplitFacts
    <3>2. Shape(nodes, made, top, gone, w)
      BY <3>0 DEF Splittable
    <3> QED BY <2>1, <3>1, <3>2 DEF Shape, LeavesLast
  <2> QED BY <2>1, <2>2, <2>3 DEF StoredIn
<1> QED BY <1>6, <1>7

\* A split keeps the table.
LEMMA SplitTable ==
  ASSUME NEW nodes, NEW made, NEW top, NEW gone, NEW w, NEW c, NEW next, NEW p, NEW i,
         NEW nodes2, NEW w2, NEW made2,
         SplitStep(nodes, made, top, gone, w, c, next, p, i, nodes2, w2),
         Shape(nodes2, made2, top, gone, w2)
  PROVE  SameTable(nodes, w, nodes2, w2)
<1>1. Shape(nodes, made, top, gone, w)
  BY DEF SplitStep, Splittable
<1>2. \A k \in Keys : k \in Int
  BY Constants
<1>3. \A k \in Keys : \A v : Holds(nodes, w, k, v) => Holds(nodes2, w2, k, v)
  BY <1>2, SplitHolds
<1>4. \A k \in Keys : StoredIn(nodes2, gone, k) => StoredIn(nodes, gone, k)
  BY SplitStored
<1> QED BY <1>1, <1>3, <1>4, SameTableWhen

\* So does a new root.
LEMMA RaiseTable ==
  ASSUME NEW nodes, NEW top, NEW new, NEW nodes1, Raises(nodes, top, new, nodes1),
         NEW w \in Views, NEW w1, RaiseView(w, top, new, w1), new \notin w.pages
  PROVE  SameTable(nodes, w, nodes1, w1)
<1> SUFFICES ASSUME NEW k \in Keys, NEW v
             PROVE  Holds(nodes1, w1, k, v) <=> Holds(nodes, w, k, v)
  BY DEF SameTable
<1>1. /\ ~nodes1[new].leaf
      /\ \A x \in PageIds : x # new => nodes1[x] = nodes[x]
  BY DEF Raises
<1>2. /\ w1.pages = w.pages \cup {new}
      /\ \A x \in PageIds : x # new => w1.low[x] = w.low[x] /\ w1.high[x] = w.high[x]
  BY DEF RaiseView
<1>3. w.pages \subseteq PageIds
  BY DEF Views
<1> QED BY <1>1, <1>2, <1>3 DEF Holds

\* The same table has the same keys.
LEMMA SameStored ==
  ASSUME NEW nodes, NEW made, NEW top, NEW gone, NEW w, Shape(nodes, made, top, gone, w),
         NEW nodes2, NEW made2, NEW top2, NEW w2, Shape(nodes2, made2, top2, gone, w2),
         SameTable(nodes, w, nodes2, w2),
         NEW k \in Keys, StoredIn(nodes2, gone, k)
  PROVE  StoredIn(nodes, gone, k)
<1>1. Found(nodes2, w2, k)
  BY StoredFoundIn
<1>2. PICK v : Holds(nodes2, w2, k, v)
  BY <1>1, FoundHolds
<1>3. Holds(nodes, w, k, v)
  BY <1>2 DEF SameTable
<1>4. Found(nodes, w, k)
  BY <1>3, FoundHolds
<1> QED BY <1>4, FoundStored

-----------------------------------------------------------------------------
(***************************************************************************)
(* Where the calls go.                                                     *)
(***************************************************************************)
\* The child of a page that covers a key is for that key.
ForKey(w, d, k) ==
  d \in w.pages /\ w.low[d] <= k /\ k <= w.high[d]

LEMMA ChildForKey ==
  ASSUME KeysClose,
         NEW nodes, \A x \in PageIds : Sound(nodes[x]),
         NEW made, NEW top, NEW gone, NEW w, Shape(nodes, made, top, gone, w),
         NEW p \in w.pages, ~nodes[p].leaf, NEW k \in Keys, ForKey(w, p, k),
         w.low[p] < k \/ ~Hit(nodes[p], k)
  PROVE  LET c == Child(nodes[p], k)
         IN  /\ ForKey(w, c, k) /\ w.up[c] = p /\ w.level[c] < w.level[p]
             /\ w.low[p] < k => w.low[c] < k
             /\ c = Link(nodes[p], FindPointer(nodes[p], k))
             /\ Live(nodes[p], w.low[p], w.high[p], FindPointer(nodes[p], k))
             /\ gone = {} => w.level[c] + 1 = w.level[p]
<1> DEFINE n == nodes[p]
           i == FindPointer(n, k)
           lo == w.low[p]
           hi == w.high[p]
           c == Child(n, k)
<1>1. /\ p \in PageIds /\ lo \in Int /\ hi \in Int /\ w.pages \subseteq PageIds
      /\ lo <= k /\ k <= hi /\ lo < hi
  BY DEF Shape, Views, InRange, ForKey
<1>2. Sound(n)
  BY <1>1
<1>3. k \in Nat
  BY Constants
<1>4. /\ i \in 1 .. Len(n.cells) + 1
      /\ \A j \in 1 .. Len(n.cells) : j < i => KeyAt(n, j) < k
      /\ i <= Len(n.cells) => KeyAt(n, i) >= k
      /\ Hit(n, k) <=> i <= Len(n.cells) /\ KeyAt(n, i) = k
  <2> HIDE DEF n
  <2> QED BY <1>2, FindPlace
<1>5. c = Link(n, i)
  <2> ~n.leaf
    OBVIOUS
  <2> HIDE DEF n
  <2> QED BY <1>2, ChildIsLink
<1>6. Len(n.cells) \in Nat /\ \A j \in 1 .. Len(n.cells) : KeyAt(n, j) \in Nat
  <2> HIDE DEF n
  <2> QED BY <1>2, SoundType, KeyAtType
<1>7. lo < k \/ ~Hit(n, k)
  OBVIOUS
<1> HIDE DEF n, i, lo, hi
<1>8. /\ LowOf(n, lo, i) \in Int /\ LowOf(n, lo, i) <= k
      /\ i # 1 \/ lo < k => LowOf(n, lo, i) < k
  <2>1. CASE i = 1
    BY <1>1, <1>3, <2>1 DEF LowOf
  <2>2. CASE i # 1
    <3>1. i - 1 \in 1 .. Len(n.cells) /\ i - 1 < i
      BY <1>4, <1>6, <2>2
    <3>2. KeyAt(n, i - 1) < k /\ KeyAt(n, i - 1) \in Nat
      BY <1>4, <1>6, <3>1
    <3> QED BY <1>3, <2>2, <3>2 DEF LowOf
  <2> QED BY <2>1, <2>2
<1>9. /\ HighOf(n, hi, i) \in Int /\ k <= HighOf(n, hi, i)
      /\ i # Len(n.cells) + 1 /\ ~Hit(n, k) => k < HighOf(n, hi, i)
  <2>1. CASE i = Len(n.cells) + 1
    BY <1>1, <2>1 DEF HighOf
  <2>2. CASE i # Len(n.cells) + 1
    <3>1. i \in 1 .. Len(n.cells) /\ i <= Len(n.cells)
      BY <1>4, <1>6, <2>2
    <3>2. KeyAt(n, i) >= k /\ KeyAt(n, i) \in Nat /\ (Hit(n, k) <=> KeyAt(n, i) = k)
      BY <1>4, <1>6, <3>1
    <3> QED BY <1>3, <2>2, <3>2 DEF HighOf
  <2> QED BY <2>1, <2>2
<1>10. Live(n, lo, hi, i)
  <2>1. CASE i = 1 /\ i = Len(n.cells) + 1
    BY <1>1, <2>1 DEF Live, LowOf, HighOf
  <2>2. CASE i # 1
    BY <1>3, <1>8, <1>9, <2>2 DEF Live
  <2>3. CASE lo < k
    BY <1>3, <1>8, <1>9, <2>3 DEF Live
  <2>4. CASE i # Len(n.cells) + 1 /\ ~Hit(n, k)
    BY <1>3, <1>8, <1>9, <2>4 DEF Live
  <2> QED BY <1>7, <2>1, <2>2, <2>3, <2>4
<1>11. IsChild(nodes, gone, w, p, i)
  BY <1>4, <1>10 DEF Shape, Linked, n, lo, hi
<1>12. /\ c \in w.pages /\ w.up[c] = p
       /\ w.low[c] = LowOf(n, lo, i) /\ w.high[c] = HighOf(n, hi, i)
       /\ w.level[c] < w.level[p]
       /\ gone = {} => w.level[c] + 1 = w.level[p]
  BY <1>5, <1>11 DEF IsChild, n, lo, hi
<1> HIDE DEF c
<1>13. ForKey(w, c, k) /\ (lo < k => w.low[c] < k)
  BY <1>8, <1>9, <1>12 DEF ForKey
<1> QED BY <1>5, <1>10, <1>12, <1>13 DEF n, i, lo, hi, c

\* A leaf that has got the key: the table has it too, and it is new.
Puts(nodes, w, nodes2, w2, k, v) ==
  /\ \A u : ~Holds(nodes, w, k, u)
  /\ \A j \in Keys : \A u : Holds(nodes2, w2, j, u) <=> Holds(nodes, w, j, u) \/ (j = k /\ u = v)

LEMMA StoreTable ==
  ASSUME NEW nodes, NEW made, NEW top, NEW gone, NEW w, Shape(nodes, made, top, gone, w),
         \A y \in PageIds : Sound(nodes[y]),
         NEW x \in w.pages, NEW i, NEW k \in Nat, NEW new, NEW nodes2,
         Stores(nodes, x, i, k, new, nodes2),
         w.low[x] < k, k <= w.high[x]
  PROVE  Puts(nodes, w, nodes2, w, k, new)
<1> DEFINE n == nodes[x]
           z == nodes2[x]
<1>1. /\ w \in Views /\ w.pages \subseteq PageIds /\ x \in PageIds
      /\ \A y \in PageIds : w.low[y] \in Int /\ w.high[y] \in Int
  BY DEF Shape, Views
<1>2. /\ n.leaf /\ z.leaf
      /\ i \in 1 .. Len(n.cells) + 1
      /\ \A j \in 1 .. Len(n.cells) : /\ j < i => KeyAt(n, j) < k
                                      /\ j >= i => k < KeyAt(n, j)
      /\ Len(z.cells) = Len(n.cells) + 1
      /\ \A j \in 1 .. Len(n.cells) + 1 :
           KeyAt(z, j) = IF j < i THEN KeyAt(n, j) ELSE IF j = i THEN k ELSE KeyAt(n, j - 1)
      /\ \A j \in 1 .. Len(n.cells) + 1 :
           Link(z, j) = IF j < i THEN Link(n, j) ELSE IF j = i THEN new ELSE Link(n, j - 1)
      /\ \A y \in PageIds : y # x => nodes2[y] = nodes[y]
  BY DEF Stores
<1>3. Len(n.cells) \in Nat /\ \A j \in 1 .. Len(n.cells) : KeyAt(n, j) \in Nat
  <2>1. Sound(n)
    BY <1>1
  <2> HIDE DEF n
  <2> QED BY <2>1, SoundType, KeyAtType
<1>4. ASSUME NEW u PROVE ~Holds(nodes, w, k, u)
  <2> SUFFICES ASSUME Holds(nodes, w, k, u) PROVE FALSE
    OBVIOUS
  <2>1. PICK q \in w.pages : /\ nodes[q].leaf /\ w.low[q] < k /\ k <= w.high[q]
                             /\ \E h \in 1 .. Len(nodes[q].cells) :
                                  KeyAt(nodes[q], h) = k /\ Link(nodes[q], h) = u
    BY DEF Holds
  <2>2. q = x
    <3> SUFFICES ASSUME q # x PROVE FALSE
      OBVIOUS
    <3>1. w.high[q] <= w.low[x] \/ w.high[x] <= w.low[q]
      BY <1>2, <2>1 DEF Shape, LeavesApart
    <3>2. /\ w.low[q] \in Int /\ w.high[q] \in Int /\ w.low[x] \in Int /\ w.high[x] \in Int
      BY <1>1
    <3> QED BY <2>1, <3>1, <3>2
  <2>3. PICK h \in 1 .. Len(n.cells) : KeyAt(n, h) = k
    BY <2>1, <2>2
  <2> HIDE DEF n
  <2>4. h < i \/ h >= i
    BY <1>2, <1>3, <2>3
  <2> QED BY <1>2, <1>3, <2>3, <2>4
<1>5. ASSUME NEW j \in Keys, NEW u, Holds(nodes, w, j, u) PROVE Holds(nodes2, w, j, u)
  BY <1>1, <1>5, StoreHolds
<1>6. Holds(nodes2, w, k, new)
  <2>1. i \in 1 .. Len(z.cells) /\ KeyAt(z, i) = k /\ Link(z, i) = new
    <3> HIDE DEF n, z
    <3> QED BY <1>2, <1>3
  <2> QED BY <1>2, <2>1 DEF Holds
<1>7. ASSUME NEW j \in Keys, NEW u, Holds(nodes2, w, j, u)
      PROVE  Holds(nodes, w, j, u) \/ (j = k /\ u = new)
  <2>1. PICK q \in w.pages : /\ nodes2[q].leaf /\ w.low[q] < j /\ j <= w.high[q]
                             /\ \E h \in 1 .. Len(nodes2[q].cells) :
                                  KeyAt(nodes2[q], h) = j /\ Link(nodes2[q], h) = u
    BY <1>7 DEF Holds
  <2>2. CASE q # x
    <3>1. nodes2[q] = nodes[q]
      BY <1>1, <1>2, <2>2
    <3> QED BY <2>1, <3>1 DEF Holds
  <2>3. CASE q = x
    <3>1. PICK h \in 1 .. Len(z.cells) : KeyAt(z, h) = j /\ Link(z, h) = u
      BY <2>1, <2>3
    <3>2. h \in 1 .. Len(n.cells) + 1
      BY <1>2
    <3>3. \/ j = k /\ u = new
          \/ \E g \in 1 .. Len(n.cells) : KeyAt(n, g) = j /\ Link(n, g) = u
      <4> HIDE DEF n, z
      <4>1. CASE h < i
        <5>1. h \in 1 .. Len(n.cells) /\ KeyAt(n, h) = j /\ Link(n, h) = u
          BY <1>2, <1>3, <3>1, <3>2, <4>1
        <5> QED BY <5>1
      <4>2. CASE h = i
        BY <1>2, <3>1, <3>2, <4>2
      <4>3. CASE h > i
        <5>1. h - 1 \in 1 .. Len(n.cells) /\ ~(h < i) /\ h # i
          BY <1>2, <1>3, <3>2, <4>3
        <5>2. KeyAt(n, h - 1) = j /\ Link(n, h - 1) = u
          BY <1>2, <3>1, <3>2, <5>1
        <5> QED BY <5>1, <5>2
      <4> QED BY <1>2, <1>3, <3>2, <4>1, <4>2, <4>3
    <3> QED BY <1>2, <2>1, <2>3, <3>3 DEF Holds
  <2> QED BY <2>2, <2>3
<1> QED BY <1>4, <1>5, <1>6, <1>7 DEF Puts

\* page_insert_leaf
LEMMA LeafStores ==
  ASSUME KeysClose, NEW nodes, \A y \in PageIds : Sound(nodes[y]), DOMAIN nodes = PageIds,
         NEW x \in PageIds, nodes[x].leaf, NEW lo, NEW hi, Ordered(nodes[x], lo, hi),
         NEW k \in Keys, NEW v \in Values, ~Hit(nodes[x], k),
         Fits(nodes[x], CellBytes(TRUE, k, v)),
         NEW nodes2, nodes2 = [nodes EXCEPT ![x] = InsertLeaf(nodes[x], k, v)]
  PROVE  Stores(nodes, x, FindPointer(nodes[x], k), k, v, nodes2)
<1> DEFINE n == nodes[x]
           z == nodes2[x]
           i == FindPointer(n, k)
<1>1. Sound(n) /\ n.leaf /\ z = InsertLeaf(n, k, v) /\ ~Hit(n, k)
      /\ Fits(n, CellBytes(TRUE, k, v)) /\ Ordered(n, lo, hi)
      /\ \A y \in PageIds : y # x => nodes2[y] = nodes[y]
  OBVIOUS
<1> HIDE DEF n
<1>2. /\ z.leaf /\ z.right = n.right /\ Len(z.cells) = Len(n.cells) + 1
      /\ \A j \in 1 .. Len(n.cells) + 1 :
           z.cells[j] = IF j < i THEN n.cells[j]
                        ELSE IF j = i THEN [key |-> k, ref |-> v] ELSE n.cells[j - 1]
  <2> HIDE DEF z
  <2>1. LET m == InsertLeaf(n, k, v)
        IN  /\ Sound(m) /\ m.leaf /\ m.right = n.right
            /\ Len(m.cells) = Len(n.cells) + 1
            /\ \A j \in 1 .. Len(n.cells) + 1 :
                 m.cells[j] = IF j < FindPointer(n, k) THEN n.cells[j]
                              ELSE IF j = FindPointer(n, k)
                                     THEN [key |-> k, ref |-> v]
                              ELSE n.cells[j - 1]
    BY <1>1, InsertLeafSound
  <2> QED BY <1>1, <2>1
<1>3. /\ i \in 1 .. Len(n.cells) + 1
      /\ \A j \in 1 .. Len(n.cells) : j < i => KeyAt(n, j) < k
      /\ i <= Len(n.cells) => KeyAt(n, i) >= k
      /\ Hit(n, k) <=> i <= Len(n.cells) /\ KeyAt(n, i) = k
  BY <1>1, FindPlace
<1>4. Len(n.cells) \in Nat /\ \A j \in 1 .. Len(n.cells) : KeyAt(n, j) \in Nat
  BY <1>1, SoundType, KeyAtType
<1> HIDE DEF i, z
<1>5. \A j \in 1 .. Len(n.cells) : j >= i => k < KeyAt(n, j)
  <2> SUFFICES ASSUME NEW j \in 1 .. Len(n.cells), j >= i PROVE k < KeyAt(n, j)
    OBVIOUS
  <2>1. k \in Nat
    BY Constants
  <2>2. i \in 1 .. Len(n.cells)
    BY <1>3, <1>4
  <2>3. k < KeyAt(n, i)
    BY <1>1, <1>3, <1>4, <2>1, <2>2
  <2>4. \A a, b \in 1 .. Len(n.cells) : a < b => KeyAt(n, a) <= KeyAt(n, b)
    BY <1>1 DEF Ordered
  <2>5. j = i \/ i < j
    BY <1>4, <2>2
  <2> QED BY <1>4, <2>1, <2>2, <2>3, <2>4, <2>5
<1>6. \A j \in 1 .. Len(n.cells) + 1 :
        /\ KeyAt(z, j) = IF j < i THEN KeyAt(n, j) ELSE IF j = i THEN k ELSE KeyAt(n, j - 1)
        /\ Link(z, j) = IF j < i THEN Link(n, j) ELSE IF j = i THEN v ELSE Link(n, j - 1)
  <2> SUFFICES ASSUME NEW j \in 1 .. Len(n.cells) + 1
               PROVE  /\ KeyAt(z, j) = IF j < i THEN KeyAt(n, j)
                                       ELSE IF j = i THEN k ELSE KeyAt(n, j - 1)
                      /\ Link(z, j) = IF j < i THEN Link(n, j)
                                      ELSE IF j = i THEN v ELSE Link(n, j - 1)
    OBVIOUS
  <2>1. j # Len(z.cells) + 1 /\ Link(z, j) = z.cells[j].ref /\ KeyAt(z, j) = z.cells[j].key
    BY <1>2, <1>4 DEF Link, KeyAt
  <2>2. CASE j < i
    <3>1. j # Len(n.cells) + 1 /\ z.cells[j] = n.cells[j]
      BY <1>2, <1>3, <1>4, <2>2
    <3> QED BY <2>1, <2>2, <3>1 DEF Link, KeyAt
  <2>3. CASE j = i
    <3>1. z.cells[j] = [key |-> k, ref |-> v] /\ ~(j < i)
      BY <1>2, <1>3, <1>4, <2>3
    <3> QED BY <2>1, <2>3, <3>1
  <2>4. CASE j > i
    <3>1. j - 1 # Len(n.cells) + 1 /\ z.cells[j] = n.cells[j - 1] /\ ~(j < i) /\ j # i
      BY <1>2, <1>3, <1>4, <2>4
    <3> QED BY <2>1, <3>1 DEF Link, KeyAt
  <2> QED BY <1>3, <1>4, <2>2, <2>3, <2>4
<1>7. \A j \in 1 .. Len(n.cells) : j < i => KeyAt(n, j) < k
  BY <1>3
<1>8. z.leaf = n.leaf
  BY <1>1, <1>2
<1> QED BY <1>1, <1>2, <1>3, <1>5, <1>6, <1>7, <1>8 DEF Stores, n, z, i

-----------------------------------------------------------------------------
(***************************************************************************)
(* The steps.                                                              *)
(***************************************************************************)
\* What is stored, in the terms of the model.
LEMMA StoredIs ==
  ASSUME NEW nodes, \A p \in PageIds : Sound(nodes[p]), NEW gone, NEW k
  PROVE  (\E p \in PageIds : /\ nodes[p].leaf /\ p \notin gone
                             /\ \E i \in DOMAIN nodes[p].cells : nodes[p].cells[i].key = k)
           <=> StoredIn(nodes, gone, k)
<1>1. \A p \in PageIds : DOMAIN nodes[p].cells = 1 .. Len(nodes[p].cells)
  <2> SUFFICES ASSUME NEW p \in PageIds PROVE DOMAIN nodes[p].cells = 1 .. Len(nodes[p].cells)
    OBVIOUS
  <2>1. nodes[p].cells \in Seq(CellType(nodes[p].leaf))
    BY SoundType
  <2> QED BY <2>1
<1> QED BY <1>1 DEF StoredIn, KeyAt

\* The one leaf that btree_create makes is a tree.
LEMMA InitShape ==
  ASSUME Init
  PROVE  \E w \in Views : /\ Shape(node, next_page, root, Gone, w)
                          /\ \A k, v : ~Holds(node, w, k, v)
<1> DEFINE w == [pages |-> {1}, low |-> [p \in PageIds |-> -1], high |-> [p \in PageIds |-> Top],
                 up |-> [p \in PageIds |-> 0], level |-> [p \in PageIds |-> 0]]
<1>1. /\ \A p \in PageIds : node[p] = EmptyLeaf /\ fixed[p] = NoThread
      /\ next_page = 2 /\ root = 1
  BY DEF Init
<1>2. Top \in Nat /\ 1 \in PageIds
  BY BelowTop, Constants DEF PageIds
<1>3. w \in Views
  BY <1>2 DEF Views
<1>4. /\ w.pages = {1} /\ w.low[1] = -1 /\ w.high[1] = Top /\ w.up[1] = 0 /\ w.level[1] = 0
  BY <1>2
<1> HIDE DEF w
<1>5. \A p \in PageIds : node[p].leaf /\ node[p].right = 0 /\ Len(node[p].cells) = 0
  BY <1>1 DEF EmptyLeaf
<1>6. Gone = {}
  BY <1>1 DEF Gone, Left, Free
<1>7. AtTop(root, w)
  BY <1>1, <1>4 DEF AtTop
<1>8. InRange(node, next_page, w)
  BY <1>1, <1>2, <1>4, <1>5 DEF InRange, Ordered
<1>9. Linked(node, Gone, w)
  BY <1>2, <1>4, <1>5 DEF Linked
<1>10. LeavesApart(node, w)
  BY <1>4 DEF LeavesApart
<1>11. CellsDescend(node, root, w)
  BY <1>5 DEF CellsDescend
<1>12. SeparatorsFound(node, w)
  BY <1>2, <1>4, <1>5 DEF SeparatorsFound
<1>13. StoredFound(node, Gone, w)
  BY <1>5 DEF StoredFound
<1>14. LeafTop(node, root, Gone, w)
  BY <1>1, <1>4, <1>5 DEF LeafTop
<1>15. LeavesLast(node, Gone, w)
  BY <1>2, <1>4, <1>5, <1>6 DEF LeavesLast
<1>16. 2 * w.level[root] + 2 <= next_page + IF Gone = {} THEN 0 ELSE 1
  BY <1>1, <1>4, <1>6
<1>17. Shape(node, next_page, root, Gone, w)
  BY <1>3, <1>7, <1>8, <1>9, <1>10, <1>11, <1>12, <1>13, <1>14, <1>15, <1>16 DEF Shape
<1>18. \A k, v : ~Holds(node, w, k, v)
  BY <1>2, <1>4, <1>5 DEF Holds
<1> QED BY <1>3, <1>17, <1>18

\* The pages of the tree stay where they are, but for page c.
KeptBut(w, w2, c) ==
  \A d \in w.pages : d # c => /\ d \in w2.pages
                              /\ w2.low[d] = w.low[d] /\ w2.high[d] = w.high[d]

\* The other calls keep their places.
LEMMA OthersPlace ==
  ASSUME PageInv, NEW t \in Threads, Call(t) \/ Insert(t) \/ Lookup(t), Others(t),
         NEW w, NEW w2, NEW c, KeptBut(w, w2, c), c \in PageIds => fixed[c] = NoThread,
         NEW u \in Threads, u # t, Place(w, u)
  PROVE  Place(w2, u)'
<1>1. pc'[u] = pc[u] /\ page'[u] = page[u] /\ args'[u] = args[u]
  BY DEF Others
<1> SUFFICES ASSUME Walks(u) PROVE Place(w2, u)'
  BY <1>1 DEF Place, Walks
<1>2. page[u] \in PageIds /\ fixed[page[u]] = u
  BY WalkPlace
<1>3. u # NoThread
  BY Constants
<1>4. node'[page[u]] = node[page[u]]
  BY <1>2, <1>3, OnlyOwnPages DEF OthersPagesStay
<1>5. page[u] # c
  BY <1>2, <1>3
<1>6. CASE pc[u] = "insert_walk" /\ Hit(node[page[u]], args[u].key)
  <2>1. pc'[u] = "insert_walk" /\ Hit(node'[page'[u]], args'[u].key)
    BY <1>1, <1>4, <1>6
  <2> QED BY <2>1 DEF Place, Hit, FindPointer
<1>7. CASE /\ page[u] \in w.pages
           /\ w.low[page[u]] <= args[u].key /\ args[u].key <= w.high[page[u]]
           /\ pc[u] = "lookup_walk" => w.low[page[u]] < args[u].key
  <2>1. /\ page[u] \in w2.pages
        /\ w2.low[page[u]] = w.low[page[u]] /\ w2.high[page[u]] = w.high[page[u]]
    BY <1>5, <1>7 DEF KeptBut
  <2> QED BY <1>1, <1>7, <2>1 DEF Place
<1> QED BY <1>6, <1>7 DEF Place

\* No page is left behind when a latch is handed on or given up.
LEMMA GoneSame ==
  ASSUME SameLeft
  PROVE  Gone' = Gone
BY DEF SameLeft, Gone

\* What the caller is told.
Says(t, code, value) ==
  answer' = [answer EXCEPT ![t] = [code |-> code, value |-> value]]

\* What a step on pages "nodes" does to the table and says of it.
Tells(t, nodes, w, w2) ==
  \/ SameTable(nodes, w, node', w2) /\ answer' = answer
  \/ \E v \in Values : /\ Puts(nodes, w, node', w2, args[t].key, v)
                       /\ Says(t, "SUCCESS", NoValue)

\* The table may have been kept in steps before.
LEMMA TellsAfter ==
  ASSUME NEW t \in Threads, args[t].key \in Keys, NEW nodes, NEW w, NEW nodes1, NEW w1, NEW w2,
         SameTable(nodes, w, nodes1, w1), Tells(t, nodes1, w1, w2)
  PROVE  Tells(t, nodes, w, w2)
<1>1. \A k \in Keys : \A v : Holds(nodes1, w1, k, v) <=> Holds(nodes, w, k, v)
  BY DEF SameTable
<1>2. CASE SameTable(nodes1, w1, node', w2) /\ answer' = answer
  BY <1>1, <1>2 DEF SameTable, Tells
<1>3. CASE \E v \in Values : /\ Puts(nodes1, w1, node', w2, args[t].key, v)
                             /\ Says(t, "SUCCESS", NoValue)
  <2>1. PICK v \in Values : /\ Puts(nodes1, w1, node', w2, args[t].key, v)
                            /\ Says(t, "SUCCESS", NoValue)
    BY <1>3
  <2>2. Puts(nodes, w, node', w2, args[t].key, v)
    BY <1>1, <2>1 DEF Puts
  <2> QED BY <2>1, <2>2 DEF Tells
<1> QED BY <1>2, <1>3 DEF Tells

\* Page side takes the key, or leads to the page that does.
LEMMA ProceedTree ==
  ASSUME KeysClose, PageInv, NEW t \in Threads, Inserts(t),
         NEW nodes \in [PageIds -> AnyPage], \A x \in PageIds : Sound(nodes[x]),
         NEW made \in Nat, NEW top, NEW w, Shape(nodes, made, top, Gone, w),
         NEW side \in PageIds, fixed[side] = NoThread,
         \/ ForKey(w, side, args[t].key)
         \/ ~nodes[side].leaf /\ Hit(nodes[side], args[t].key),
         Alone => ~StoredIn(nodes, Gone, args[t].key),
         Goes(t, side, nodes), SameLeft
  PROVE  /\ Shape(node', made, top, Gone', w)
         /\ Place(w, t)' /\ NewKey(t)' /\ Others(t)
         /\ Alone => Tells(t, nodes, w, w)
<1> DEFINE k == args[t].key
           v == args[t].value
<1>1. Scalars /\ k \in Keys /\ v \in Values /\ k \in Nat
  BY Constants DEF PageInv, Scalars, GoodCall
<1>2. CASE StepDown(t, side, nodes, Hold(t, side))
  <2>1. /\ ~nodes[side].leaf /\ node' = nodes
        /\ pc'[t] = "insert_walk" /\ page'[t] = side /\ args' = args /\ answer' = answer
        /\ \A u \in Threads \ {t} : pc'[u] = pc[u] /\ page'[u] = page[u]
    BY <1>1, <1>2 DEF StepDown, Scalars
  <2>2. Gone' = Gone
    BY GoneSame
  <2>3. Place(w, t)'
    <3>1. CASE ForKey(w, side, k)
      BY <2>1, <3>1 DEF Place, ForKey
    <3>2. CASE Hit(nodes[side], k)
      BY <2>1, <3>2 DEF Place, Hit, FindPointer
    <3> QED BY <3>1, <3>2
  <2>4. Alone => ~Stored(k)'
    <3>1. Stored(k)' <=> StoredIn(node', Gone', k)
      <4>1. \A p \in PageIds : Sound(node'[p])
        BY <2>1
      <4>2. (\E p \in PageIds : /\ node'[p].leaf /\ p \notin Gone'
                                /\ \E i \in DOMAIN node'[p].cells : node'[p].cells[i].key = k)
              <=> StoredIn(node', Gone', k)
        BY <4>1, StoredIs
      <4> QED BY <2>1, <4>2 DEF Stored, Gone
    <3> QED BY <2>1, <2>2, <3>1
  <2>5. NewKey(t)'
    BY <2>1, <2>4 DEF NewKey
  <2>6. SameTable(nodes, w, node', w)
    BY <2>1 DEF SameTable
  <2> QED BY <2>1, <2>2, <2>3, <2>5, <2>6 DEF Others, Tells
<1>3. CASE StoreInLeaf(t, side, nodes, Hold(t, side))
  <2>1. /\ nodes[side].leaf /\ ~Hit(nodes[side], k)
        /\ Fits(nodes[side], CellBytes(TRUE, k, v))
        /\ node' = [nodes EXCEPT ![side] = InsertLeaf(nodes[side], k, v)]
        /\ Return(t, "SUCCESS", NoValue)
    BY <1>3 DEF StoreInLeaf
  <2>2. Gone' = Gone
    BY GoneSame
  <2>3. /\ side \in w.pages /\ w.low[side] <= k /\ k <= w.high[side]
        /\ Ordered(nodes[side], w.low[side], w.high[side])
        /\ w.low[side] \in Int /\ w \in Views
    BY <2>1 DEF ForKey, Shape, InRange, Views
  <2>4. Alone => w.low[side] < k
    <3> SUFFICES ASSUME Alone, ~(w.low[side] < k) PROVE FALSE
      OBVIOUS
    <3>1. w.low[side] = k /\ w.low[side] # -1
      BY <1>1, <2>3
    <3>2. Found(nodes, w, k)
      BY <2>3, <3>1 DEF Shape, SeparatorsFound
    <3> QED BY <3>2, FoundStored
  <2> DEFINE i == FindPointer(nodes[side], k)
  <2>5. Stores(nodes, side, i, k, v, node')
    <3>1. DOMAIN nodes = PageIds
      OBVIOUS
    <3> HIDE DEF k, v
    <3> QED BY <1>1, <2>1, <2>3, <3>1, LeafStores
  <2> HIDE DEF i
  <2>6. Shape(node', made, top, Gone', w)
    <3> HIDE DEF k, v
    <3> QED BY <1>1, <2>2, <2>3, <2>4, <2>5, StoreShape
  <2>7. Alone => Puts(nodes, w, node', w, k, v)
    <3> HIDE DEF k, v
    <3> QED BY <1>1, <2>3, <2>4, <2>5, StoreTable
  <2>8. pc'[t] = "idle" /\ Others(t)
    BY <1>1, <2>1, Returned
  <2>9. Place(w, t)' /\ NewKey(t)'
    BY <2>8 DEF Place, Walks, NewKey, Inserts
  <2>10. Says(t, "SUCCESS", NoValue)
    BY <2>1 DEF Return, Says
  <2> QED BY <1>1, <2>6, <2>7, <2>8, <2>9, <2>10 DEF Tells
<1> QED BY <1>2, <1>3 DEF Goes

(***************************************************************************)
(* The pages make the tree that view w says, and every call is in it.      *)
(***************************************************************************)
InTree(w) ==
  /\ AtRootNow
  /\ \A t \in Threads : NewKey(t)
  /\ w \in Views
  /\ Shape(node, next_page, root, Gone, w)
  /\ \A t \in Threads : Place(w, t)

\* What a look-up of k is told.
Reads(t, w, k) ==
  \/ (\A v : ~Holds(node, w, k, v)) /\ Says(t, "ENOENT", NoValue)
  \/ \E v : Holds(node, w, k, v) /\ Says(t, "SUCCESS", v)

\* A call that runs out of memory may lose keys.
Drops(t, w, w2) ==
  /\ Says(t, "ENOMEM", NoValue)
  /\ \A k \in Keys : \A v : Holds(node', w2, k, v) => Holds(node, w, k, v)

\* What a step does to the table.
Effect(t, w, w2) ==
  \/ Tells(t, node, w, w2)
  \/ SameTable(node, w, node', w2) /\ \E k \in Keys : Reads(t, w, k)
  \/ Drops(t, w, w2)

\* After a step view w2 is that of the tree.
Becomes(t, w, w2) ==
  /\ w2 \in Views
  /\ Shape(node', next_page', root', Gone', w2)
  /\ \A u \in Threads : Place(w2, u)' /\ NewKey(u)'
  /\ Alone => Effect(t, w, w2)

\* It is enough to look at the caller.
LEMMA StepTree ==
  ASSUME PageInv, NEW w, InTree(w), NEW t \in Threads, Call(t) \/ Insert(t) \/ Lookup(t),
         Others(t), NEW w2 \in Views, NEW c, KeptBut(w, w2, c),
         c \in PageIds => fixed[c] = NoThread,
         Shape(node', next_page', root', Gone', w2),
         Place(w2, t)', NewKey(t)', Alone => Effect(t, w, w2)
  PROVE  Becomes(t, w, w2)
<1>1. ASSUME NEW u \in Threads PROVE Place(w2, u)' /\ NewKey(u)'
  <2>1. CASE u = t
    BY <2>1
  <2>2. CASE u # t
    <3>1. Place(w, u)
      BY DEF InTree
    <3>2. Place(w2, u)'
      BY <2>2, <3>1, OthersPlace
    <3>3. ~Alone
      BY <2>2 DEF Alone
    <3>4. NewKey(u)'
      BY <3>3 DEF NewKey
    <3> QED BY <3>2, <3>4
  <2> QED BY <2>1, <2>2
<1> QED BY <1>1 DEF Becomes

\* A step that changes the fault only.
LEMMA FaultTree ==
  ASSUME NEW w, InTree(w), NEW t \in Threads, NEW kind, Fault(kind)
  PROVE  Becomes(t, w, w)
<1>1. /\ node' = node /\ next_page' = next_page /\ root' = root /\ fixed' = fixed
      /\ pc' = pc /\ args' = args /\ page' = page /\ answer' = answer
  BY DEF Fault, shared
<1>2. w \in Views /\ Shape(node', next_page', root', Gone', w)
  BY <1>1 DEF InTree, Gone, Left, Free, Stands
<1>3. ASSUME NEW u \in Threads PROVE Place(w, u)' /\ NewKey(u)'
  <2>1. Place(w, u) /\ NewKey(u)
    BY DEF InTree
  <2>2. Place(w, u)'
    BY <1>1, <2>1 DEF Place, Walks, Hit, FindPointer
  <2>3. NewKey(u)'
    BY <1>1, <2>1 DEF NewKey, Inserts, Stored, Left, Free, Stands
  <2> QED BY <2>2, <2>3
<1>4. Tells(t, node, w, w)
  BY <1>1 DEF Tells, SameTable
<1> QED BY <1>2, <1>3, <1>4 DEF Becomes, Effect

LEMMA StumblesTree ==
  ASSUME NEW w, InTree(w), NEW t \in Threads, NEW p, NEW nodes, Stumbles(t, p, nodes)
  PROVE  Becomes(t, w, w)
<1>1. PICK kind \in {"assert", "unfix"} : Fault(kind)
  BY DEF Stumbles
<1> QED BY <1>1, FaultTree

\* A key that the only thread inserts is not there.
LEMMA NotStored ==
  ASSUME PageInv, NEW w, InTree(w), NEW t \in Threads, Inserts(t), Alone
  PROVE  ~StoredIn(node, Gone, args[t].key)
<1>1. ~Stored(args[t].key)
  BY DEF InTree, NewKey
<1>2. \A p \in PageIds : Sound(node[p])
  BY DEF PageInv, SoundPages
<1>3. (\E p \in PageIds : /\ node[p].leaf /\ p \notin Gone
                          /\ \E i \in DOMAIN node[p].cells : node[p].cells[i].key = args[t].key)
        <=> StoredIn(node, Gone, args[t].key)
  BY <1>2, StoredIs
<1> QED BY <1>1, <1>3 DEF Stored, Gone

\* The root is for every key.
LEMMA RootForKey ==
  ASSUME NEW w, InTree(w), NEW k \in Keys
  PROVE  ForKey(w, root, k) /\ w.low[root] < k
<1>1. root \in w.pages /\ w.low[root] = -1 /\ w.high[root] = Top
  BY DEF InTree, Shape, AtTop
<1>2. k \in Nat /\ k < Top /\ Top \in Nat
  BY BelowTop
<1> QED BY <1>1, <1>2 DEF ForKey

\* A view does not change with the pages' contents.
LEMMA KeptSame ==
  ASSUME NEW w
  PROVE  KeptBut(w, w, 0)
BY DEF KeptBut

\* InsertRoot keeps the tree.
LEMMA InsertRootTree ==
  ASSUME KeysClose, PageInv, NEW w, InTree(w), NEW t \in Threads, InsertRoot(t)
  PROVE  Becomes(t, w, w)
<1> DEFINE p == page[t]
           k == args[t].key
<1>1. Inserts(t) /\ AtRootOf(t) /\ p \in PageIds /\ fixed[p] = NoThread
  BY DEF InsertRoot, AtRoot, Free, Inserts, PageInv, GoodCall, AtRootOf
<1>2. CASE Stumbles(t, p, node)
  BY <1>2, StumblesTree
<1>3. CASE Goes(t, p, node) /\ UNCHANGED <<next_page, root>>
  <2>1. p = root
    BY <1>1 DEF InTree, AtRootNow
  <2>2. k \in Keys
    BY DEF PageInv, Scalars
  <2>3. ForKey(w, p, k)
    BY <2>1, <2>2, RootForKey
  <2>4. /\ node \in [PageIds -> AnyPage] /\ \A x \in PageIds : Sound(node[x])
        /\ next_page \in Nat /\ Shape(node, next_page, root, Gone, w) /\ w \in Views
    BY PageNumbers DEF PageInv, SoundPages, InTree
  <2>5. Alone => ~StoredIn(node, Gone, k)
    BY <1>1, NotStored
  <2>6. /\ Shape(node', next_page, root, Gone', w)
        /\ Place(w, t)' /\ NewKey(t)' /\ Others(t)
        /\ Alone => Tells(t, node, w, w)
    BY <1>1, <1>3, <2>3, <2>4, <2>5, InsertRootStep, ProceedTree
  <2>7. Shape(node', next_page', root', Gone', w)
    BY <1>3, <2>6
  <2>8. Insert(t)
    BY DEF Insert
  <2>9. 0 \notin PageIds
    BY DEF PageIds
  <2>10. Alone => Effect(t, w, w)
    BY <2>6 DEF Effect
  <2> QED BY <2>4, <2>6, <2>7, <2>8, <2>9, <2>10, KeptSame, StepTree
<1> QED BY <1>2, <1>3, InsertRootGoes

\* InsertWalk keeps the tree.
LEMMA InsertWalkTree ==
  ASSUME KeysClose, PageInv, NEW w, InTree(w), NEW t \in Threads, InsertWalk(t)
  PROVE  Becomes(t, w, w)
<1> DEFINE q == page[t]
           k == args[t].key
           p == Child(node[q], k)
<1>1. Inserts(t) /\ Walks(t) /\ pc[t] = "insert_walk" /\ fixed[p] = NoThread /\ ~Hit(node[q], k)
  BY DEF InsertWalk, Walking, Free, Inserts, Walks
<1>2. CASE Stumbles(t, p, node)
  BY <1>2, StumblesTree
<1>3. CASE Goes(t, p, node) /\ UNCHANGED <<next_page, root>>
  <2>1. p \in PageIds /\ ~node[q].leaf
    BY <1>1, WalkPlace
  <2>2. k \in Keys
    BY DEF PageInv, Scalars
  <2>3. /\ node \in [PageIds -> AnyPage] /\ \A x \in PageIds : Sound(node[x])
        /\ next_page \in Nat /\ Shape(node, next_page, root, Gone, w) /\ w \in Views
    BY PageNumbers DEF PageInv, SoundPages, InTree
  <2>4. q \in w.pages /\ ForKey(w, q, k)
    <3>1. Place(w, t)
      BY DEF InTree
    <3> QED BY <1>1, <3>1 DEF Place, ForKey
  <2>5. ForKey(w, p, k)
    BY <1>1, <2>1, <2>2, <2>3, <2>4, ChildForKey
  <2>6. Alone => ~StoredIn(node, Gone, k)
    BY <1>1, NotStored
  <2> HIDE DEF p
  <2>7. /\ Shape(node', next_page, root, Gone', w)
        /\ Place(w, t)' /\ NewKey(t)' /\ Others(t)
        /\ Alone => Tells(t, node, w, w)
    BY <1>1, <1>3, <2>1, <2>3, <2>5, <2>6, InsertWalkStep, ProceedTree
  <2>8. Shape(node', next_page', root', Gone', w)
    BY <1>3, <2>7
  <2>9. Insert(t)
    BY DEF Insert
  <2>10. 0 \notin PageIds
    BY DEF PageIds
  <2>11. Alone => Effect(t, w, w)
    BY <2>7 DEF Effect
  <2> QED BY <2>3, <2>7, <2>8, <2>9, <2>10, <2>11, KeptSame, StepTree
<1> QED BY <1>2, <1>3, InsertWalkGoes

\* The half that a key goes to is for it, or has it for a separator.
LEMMA SideForKey ==
  ASSUME KeysClose,
         NEW nodes, NEW made, NEW top, NEW gone, NEW w, NEW c, NEW next, NEW p, NEW i,
         NEW nodes2, NEW w2,
         SplitStep(nodes, made, top, gone, w, c, next, p, i, nodes2, w2),
         \A x \in PageIds : Sound(nodes2[x]),
         NEW k \in Keys, ForKey(w, c, k),
         NEW s, s = Side(k, SplitKey(nodes[c]), c, next)
  PROVE  /\ s \in PageIds /\ s \in {c, next}
         /\ \/ ForKey(w2, s, k)
            \/ ~nodes2[s].leaf /\ Hit(nodes2[s], k)
<1> DEFINE n == nodes[c]
           m == SplitAt(n)
           b == nodes2[next]
           split == SplitKey(n)
<1>1. /\ Splittable(nodes, made, top, gone, w, c, next, p, i)
      /\ Splits(nodes, c, next, p, i, nodes2)
      /\ SplitView(nodes, w, c, next, p, w2)
  BY DEF SplitStep
<1>2. /\ w.pages \subseteq PageIds /\ c \in w.pages /\ c # next
      /\ w.low[c] \in Int /\ w.high[c] \in Int
      /\ split \in Nat /\ split <= w.high[c] /\ (n.leaf \/ Alone) => split < w.high[c]
  BY <1>1, SplitFacts
<1>3. next \in PageIds /\ c \in PageIds /\ Sound(n) /\ Len(n.cells) >= 2
  BY <1>1, <1>2 DEF Splittable
<1>4. split \in Keys
  <2> HIDE DEF n
  <2> QED BY <1>3, SplitKeyType
<1>5. k \in Nat /\ w.low[c] <= k /\ k <= w.high[c]
  BY Constants DEF ForKey
<1>6. KeyCompare(k, split) < 0 <=> k < split
  <2> HIDE DEF split
  <2> QED BY <1>4, KeyOrder
<1>7. /\ c \in w2.pages <=> w.low[c] < split
      /\ w2.low[c] = w.low[c] /\ w2.high[c] = split
      /\ next \in w2.pages <=> split < w.high[c]
      /\ w2.low[next] = split /\ w2.high[next] = w.high[c]
  BY <1>1, <1>2, <1>3 DEF SplitView
<1>0. s = IF KeyCompare(k, split) < 0 THEN c ELSE next
  BY DEF Side
<1>10. split \in Nat
  BY <1>4, Constants
<1> HIDE DEF n, m, b, split
<1>8. CASE k < split
  <2>1. s = c
    BY <1>0, <1>6, <1>8
  <2>2. w.low[c] < split
    BY <1>2, <1>5, <1>8, <1>10
  <2>3. ForKey(w2, c, k)
    BY <1>5, <1>7, <1>8, <1>10, <2>2 DEF ForKey
  <2> QED BY <1>3, <2>1, <2>3
<1>9. CASE ~(k < split)
  <2>1. s = next
    BY <1>0, <1>6, <1>9
  <2>2. split <= k
    BY <1>2, <1>5, <1>9, <1>10
  <2>3. CASE split < w.high[c]
    <3>1. ForKey(w2, next, k)
      BY <1>5, <1>7, <2>2, <2>3 DEF ForKey
    <3> QED BY <1>3, <2>1, <3>1
  <2>4. CASE ~(split < w.high[c])
    <3>1. split = k /\ w.high[c] = k /\ ~n.leaf
      BY <1>2, <1>5, <1>10, <2>2, <2>4
    <3>2. SplitPlaces(nodes, c, next, p, nodes2)
      BY SplitPages DEF b
    <3>3. /\ b.leaf = n.leaf /\ m \in 1 .. Len(n.cells) - 1 /\ Len(n.cells) \in Nat
          /\ Len(b.cells) = Len(n.cells) - m
          /\ \A j \in 1 .. Len(n.cells) - m : KeyAt(b, j) = KeyAt(n, m + j)
          /\ split = KeyAt(n, m)
      BY <3>2 DEF SplitPlaces, n, m, b, split
    <3>4. Ordered(n, w.low[c], w.high[c])
      BY <1>1, SplitFacts DEF n
    <3>5. \A j \in 1 .. Len(n.cells) : KeyAt(n, j) \in Nat
      <4> HIDE DEF n
      <4> QED BY <1>3, KeyAtType
    <3>6. Sound(b)
      BY <1>3 DEF b
    <3>7. m \in 1 .. Len(n.cells) /\ m + 1 \in 1 .. Len(n.cells) /\ m < m + 1
          /\ 1 \in 1 .. Len(n.cells) - m
      BY <3>3
    <3>8. KeyAt(n, m + 1) = k
      <4>1. KeyAt(n, m) <= KeyAt(n, m + 1) /\ KeyAt(n, m + 1) <= w.high[c]
        BY <3>4, <3>7 DEF Ordered
      <4> QED BY <1>5, <3>1, <3>3, <3>5, <3>7, <4>1
    <3>9. 1 \in 1 .. Len(b.cells) /\ KeyAt(b, 1) = k
      BY <3>3, <3>7, <3>8
    <3> DEFINE h == FindPointer(b, k)
    <3>10. /\ h \in 1 .. Len(b.cells) + 1
           /\ \A j \in 1 .. Len(b.cells) : j < h => KeyAt(b, j) < k
           /\ Hit(b, k) <=> h <= Len(b.cells) /\ KeyAt(b, h) = k
      BY <3>6, FindPlace
    <3> HIDE DEF h
    <3>11. h = 1
      <4>1. ~(1 < h)
        BY <1>5, <3>9, <3>10
      <4>2. Len(b.cells) \in Nat
        BY <3>3, <3>7
      <4> QED BY <3>10, <4>1, <4>2
    <3>12. Hit(b, k)
      BY <3>9, <3>10, <3>11
    <3>13. ~b.leaf
      BY <3>1, <3>3
    <3> QED BY <1>3, <2>1, <3>12, <3>13 DEF b
  <2> QED BY <2>3, <2>4
<1> QED BY <1>8, <1>9

\* What the next page number is good for.
LEMMA NextPage ==
  ASSUME PageInv, NEW w, InTree(w), NEW new \in PageIds, next_page <= new
  PROVE  /\ new \notin w.pages /\ new \notin Gone
         /\ \A x \in PageIds : ~node[x].leaf =>
              \A j \in 1 .. Len(node[x].cells) + 1 : Link(node[x], j) # new
         /\ node[new].leaf
<1>1. next_page \in Nat /\ new \in Nat
  BY PageNumbers DEF PageInv
<1>2. \A x \in w.pages : x < next_page
  BY DEF InTree, Shape, InRange
<1>3. fixed[new] = NoThread
  BY <1>1 DEF PageInv
<1>4. new \notin Gone
  BY <1>3 DEF Gone, Left, Free
<1>5. /\ \A x \in PageIds : ~node[x].leaf =>
           \A j \in 1 .. Len(node[x].cells) + 1 : Link(node[x], j) < next_page
      /\ node[new].leaf
  BY <1>1 DEF PageInv, MadePages
<1> QED BY <1>1, <1>2, <1>4, <1>5

\* After a split the key goes on, in the tree as it is then.
LEMMA SplitProceeds ==
  ASSUME KeysClose, PageInv, NEW t \in Threads, Inserts(t),
         NEW nodes, NEW made \in Nat, NEW top, NEW w, NEW c, NEW next, NEW p, NEW i,
         NEW nodes2 \in [PageIds -> AnyPage], NEW w2 \in Views, NEW made2 \in Nat,
         made <= made2, next < made2,
         SplitStep(nodes, made, top, Gone, w, c, next, p, i, nodes2, w2),
         \A x \in PageIds : Sound(nodes2[x]),
         ForKey(w, c, args[t].key), fixed[c] = NoThread, fixed[next] = NoThread,
         Alone => ~StoredIn(nodes, Gone, args[t].key),
         NEW side, side = Side(args[t].key, SplitKey(nodes[c]), c, next),
         Goes(t, side, nodes2), SameLeft
  PROVE  /\ Shape(node', made2, top, Gone', w2)
         /\ Place(w2, t)' /\ NewKey(t)' /\ Others(t)
         /\ Alone => Tells(t, nodes, w, w2)
<1>1. args[t].key \in Keys
  BY DEF PageInv, Scalars
<1>2. /\ side \in PageIds /\ side \in {c, next}
      /\ \/ ForKey(w2, side, args[t].key)
         \/ ~nodes2[side].leaf /\ Hit(nodes2[side], args[t].key)
  BY <1>1, SideForKey
<1>3. fixed[side] = NoThread
  BY <1>2
<1>4. Shape(nodes2, made2, top, Gone, w2)
  BY SplitShape
<1>5. SameTable(nodes, w, nodes2, w2)
  BY <1>4, SplitTable
<1>6. Shape(nodes, made, top, Gone, w)
  BY DEF SplitStep, Splittable
<1>7. Alone => ~StoredIn(nodes2, Gone, args[t].key)
  BY <1>1, <1>4, <1>5, <1>6, SameStored
<1>8. /\ Shape(node', made2, top, Gone', w2)
      /\ Place(w2, t)' /\ NewKey(t)' /\ Others(t)
      /\ Alone => Tells(t, nodes2, w2, w2)
  BY <1>2, <1>3, <1>4, <1>7, ProceedTree
<1>9. Alone => Tells(t, nodes, w, w2)
  BY <1>1, <1>5, <1>8, TellsAfter
<1> QED BY <1>8, <1>9

\* A split leaves the other pages where they are.
LEMMA SplitKeptBut ==
  ASSUME NEW nodes, NEW made, NEW top, NEW gone, NEW w, NEW c, NEW next, NEW p, NEW i,
         NEW nodes2, NEW w2,
         SplitStep(nodes, made, top, gone, w, c, next, p, i, nodes2, w2)
  PROVE  KeptBut(w, w2, c)
<1> SUFFICES ASSUME NEW d \in w.pages, d # c
             PROVE  d \in w2.pages /\ w2.low[d] = w.low[d] /\ w2.high[d] = w.high[d]
  BY DEF KeptBut
<1> QED BY SplitKeeps

\* SplitChild keeps the tree.
LEMMA SplitChildTree ==
  ASSUME KeysClose, PageInv, NEW w, InTree(w), NEW t \in Threads, SplitChild(t)
  PROVE  \E w2 \in Views : Becomes(t, w, w2)
<1> DEFINE k == args[t].key
           q == page[t]
           parent == node[q]
           child == Child(parent, k)
           n == node[child]
           next == next_page
           split == SplitKey(n)
           i == FindPointer(parent, k)
           over == InsertInner(parent, i, split, next)
           nodes == [node EXCEPT ![child] = Lower(n, next), ![next] = Upper(n), ![q] = over]
           side == Side(k, split, child, next)
<1>1. CASE fault' # "none"
  <2>1. fault = "none"
    BY DEF SplitChild, Walking
  <2>2. ~Goes(t, side, nodes)
    <3> HIDE DEF nodes, side
    <3> QED BY <1>1, <2>1, ProceedNoFault
  <2>3. Fault("assert") \/ Stumbles(t, side, nodes)
    BY <2>2, SplitChildGoes
  <2> HIDE DEF nodes, side
  <2>4. Becomes(t, w, w)
    BY <2>3, FaultTree, StumblesTree
  <2>5. w \in Views
    BY DEF InTree
  <2> QED BY <2>4, <2>5
<1>2. CASE fault' = "none"
  <2>1. /\ pc[t] = "insert_walk" /\ fixed[child] = NoThread /\ ~Hit(parent, k)
        /\ q \in PageIds /\ child \in PageIds /\ next \in PageIds
        /\ child # q /\ q # next /\ child # next
        /\ child < next
        /\ split \in Keys /\ Len(n.cells) >= 2 /\ Fits(parent, CellBytes(FALSE, split, next))
        /\ Goes(t, side, nodes) /\ next_page' = next + 1 /\ UNCHANGED root
        /\ Grown(nodes, next_page + 1, root)
    BY <1>2, SplitChildGrown
  <2>2. /\ node \in [PageIds -> AnyPage] /\ \A x \in PageIds : Sound(node[x])
        /\ next_page \in Nat /\ Shape(node, next_page, root, Gone, w) /\ w \in Views
        /\ w.pages \subseteq PageIds /\ k \in Keys
    BY PageNumbers DEF PageInv, SoundPages, InTree, Scalars, Views
  <2>3. /\ Inserts(t) /\ Walks(t) /\ Insert(t)
    BY <2>1 DEF Inserts, Walks, Insert
  <2>4. /\ Sound(parent) /\ ~parent.leaf /\ i \in 1 .. Len(parent.cells) + 1
        /\ child = Link(parent, i)
    BY <2>3, WalkPlace
  <2>5. q \in w.pages /\ ForKey(w, q, k)
    <3>1. Place(w, t)
      BY DEF InTree
    <3> QED BY <2>1, <2>3, <3>1 DEF Place, ForKey
  <2>6. ForKey(w, child, k) /\ Live(parent, w.low[q], w.high[q], i)
    <3> HIDE DEF k, q
    <3>1. /\ \A x \in PageIds : Sound(node[x])
          /\ Shape(node, next_page, root, Gone, w) /\ k \in Keys
      BY <2>2
    <3>2. ~node[q].leaf /\ ~Hit(node[q], k)
      BY <2>1, <2>4
    <3> HIDE DEF parent
    <3>3. ForKey(w, Child(node[q], k), k)
      BY <2>5, <3>1, <3>2, ChildForKey
    <3>4. Live(node[q], w.low[q], w.high[q], FindPointer(node[q], k))
      BY <2>5, <3>1, <3>2, ChildForKey
    <3> QED BY <3>3, <3>4 DEF parent
  <2>7. /\ next \notin w.pages /\ next \notin Gone
        /\ \A x \in PageIds : ~node[x].leaf =>
             \A j \in 1 .. Len(node[x].cells) + 1 : Link(node[x], j) # next
    <3>1. next_page <= next
      BY <2>2
    <3> QED BY <2>1, <3>1, NextPage
  <2>8. Splittable(node, next_page, root, Gone, w, child, next, q, i)
    <3> HIDE DEF child, i, q
    <3> QED BY <2>1, <2>2, <2>4, <2>5, <2>6, <2>7 DEF Splittable
  <2>9. Over(parent, over, i, split, next)
    <3> HIDE DEF parent, i, split, next
    <3> QED BY <2>1, <2>4, InnerOver
  <2>10. Splits(node, child, next, q, i, nodes)
    <3>1. /\ nodes[child] = Lower(n, next) /\ nodes[next] = Upper(n) /\ nodes[q] = over
          /\ \A x \in PageIds : x # child /\ x # next /\ x # q => nodes[x] = node[x]
      <4> HIDE DEF child, q, over
      <4> QED BY <2>1, <2>2
    <3> HIDE DEF nodes, child, q, i, over
    <3> QED BY <2>9, <3>1 DEF Splits
  <2>11. split \in Nat
    BY <2>1, Constants
  <2>12. PICK w2 \in Views : SplitView(node, w, child, next, q, w2)
    <3> HIDE DEF child, q
    <3> QED BY <2>1, <2>2, <2>11, SplitViewExists
  <2>13. SplitStep(node, next_page, root, Gone, w, child, next, q, i, nodes, w2)
    BY <2>8, <2>10, <2>12 DEF SplitStep
  <2>14. /\ nodes \in [PageIds -> AnyPage] /\ \A x \in PageIds : Sound(nodes[x])
         /\ next_page + 1 \in Nat /\ next_page <= next_page + 1 /\ next < next_page + 1
    <3>1. Grown(nodes, next + 1, root) /\ next = next_page /\ next \in Nat
      BY <2>1, <2>2
    <3> HIDE DEF nodes
    <3>2. nodes \in [PageIds -> AnyPage] /\ \A x \in PageIds : Sound(nodes[x])
      BY <3>1 DEF Grown, SoundPages
    <3> HIDE DEF next
    <3>3. next + 1 \in Nat /\ next <= next + 1 /\ next < next + 1
      BY <3>1
    <3> QED BY <3>1, <3>2, <3>3
  <2>15. fixed[next] = NoThread
    BY <2>1, <2>2 DEF PageInv
  <2>16. Alone => ~StoredIn(node, Gone, k)
    BY <2>3, NotStored
  <2> DEFINE made == next_page + 1
  <2>17. /\ made \in Nat /\ next_page <= made /\ next < made
         /\ next_page' = made /\ root' = root
         /\ side = Side(k, SplitKey(node[child]), child, next)
    BY <2>1, <2>14
  <2> HIDE DEF nodes, side, child, q, i, made
  <2>18. /\ Shape(node', made, root, Gone', w2)
         /\ Place(w2, t)' /\ NewKey(t)' /\ Others(t)
         /\ Alone => Tells(t, node, w, w2)
    <3>1. SameLeft
      BY SplitChildStep
    <3> QED BY <2>1, <2>2, <2>3, <2>6, <2>12, <2>13, <2>14, <2>15, <2>16, <2>17, <3>1,
               SplitProceeds
  <2>19. Shape(node', next_page', root', Gone', w2)
    BY <2>17, <2>18
  <2>20. KeptBut(w, w2, child)
    BY <2>13, SplitKeptBut
  <2>21. Alone => Effect(t, w, w2)
    BY <2>18 DEF Effect
  <2>22. Becomes(t, w, w2)
    BY <2>1, <2>3, <2>12, <2>18, <2>19, <2>20, <2>21, StepTree
  <2> QED BY <2>12, <2>22
<1> QED BY <1>1, <1>2

\* A new root before it has a cell ...
Blank(p) ==
  Compact([leaf |-> FALSE, cells |-> <<>>, right |-> p, start |-> 0, free |-> 0])

LEMMA BlankSound ==
  ASSUME NEW p \in PageIds
  PROVE  Sound(Blank(p)) /\ ~Blank(p).leaf /\ Len(Blank(p).cells) = 0 /\ Blank(p).right = p
<1> DEFINE n == [leaf |-> FALSE, cells |-> <<>>, right |-> p, start |-> 0, free |-> 0]
<1>1. n \in PageType(FALSE) /\ n.cells = <<>> /\ n.right = p
  BY DEF PageType
<1>2. PayloadBytes(FALSE, n.cells) = 0 /\ Len(n.cells) = 0
  BY <1>1, PayloadEmpty
<1>3. PageSize - HeaderBytes \in Nat
  <2> DEFINE c == [key |-> AnyKey, ref |-> p]
  <2>1. c \in CellType(FALSE)
    BY AnyKeyType DEF CellType
  <2> HIDE DEF c
  <2> DEFINE bytes == CellBytes(FALSE, c.key, c.ref)
  <2>2. bytes \in Nat /\ 2 * (bytes + PointerBytes) <= PageSize - HeaderBytes /\ PageSize \in Nat
    BY <2>1, CellBytesType, TwoCellsFit, Constants
  <2> HIDE DEF bytes
  <2> QED BY <2>2 DEF PointerBytes, HeaderBytes
<1> HIDE DEF n
<1>4. PayloadBytes(FALSE, n.cells) + PointerBytes * Len(n.cells) <= PageSize - HeaderBytes
  <2> DEFINE sum == PayloadBytes(FALSE, n.cells)
             len == Len(n.cells)
  <2>3. sum = 0 /\ len = 0
    BY <1>2
  <2> HIDE DEF sum, len
  <2>1. sum + PointerBytes * len = 0
    BY <2>3 DEF PointerBytes
  <2>2. \A room \in Nat : 0 <= room
    OBVIOUS
  <2> QED BY <1>3, <2>1, <2>2 DEF sum, len
<1>5. Sound(Compact(n)) /\ Compact(n).leaf = FALSE /\ Compact(n).cells = n.cells
      /\ Compact(n).right = n.right
  BY <1>1, <1>4, CompactSound
<1> QED BY <1>1, <1>2, <1>5 DEF Blank, n

\* ... and with it.
LEMMA RootOver ==
  ASSUME NEW p \in PageIds, NEW k \in Keys, NEW next \in PageIds
  PROVE  Over(Blank(p), NewRoot(p, k, next), 1, k, next)
<1> DEFINE b == Blank(p)
           z == NewRoot(p, k, next)
           c == [key |-> k, ref |-> p]
<1>1. ~b.leaf /\ Len(b.cells) = 0 /\ b.right = p
  BY BlankSound
<1>2. z.leaf = FALSE /\ z.cells = <<c>> /\ z.right = next
  BY NewRootSound
<1>3. c.key = k /\ c.ref = p
  OBVIOUS
<1> HIDE DEF b, z, c
<1>4. Len(z.cells) = 1 /\ z.cells[1] = c
  BY <1>2
<1>5. Over(b, z, 1, k, next)
  BY <1>1, <1>2, <1>3, <1>4 DEF Over, KeyAt, Link
<1> QED BY <1>5 DEF b, z

\* SplitRoot keeps the tree.
LEMMA SplitRootTree ==
  ASSUME KeysClose, PageInv, NEW w, InTree(w), NEW t \in Threads, SplitRoot(t)
  PROVE  \E w2 \in Views : Becomes(t, w, w2)
<1> DEFINE k == args[t].key
           p == page[t]
           n == node[p]
           next == next_page
           new == next_page + 1
           split == SplitKey(n)
           over == NewRoot(p, split, next)
           nodes == [node EXCEPT ![p] = Lower(n, next), ![next] = Upper(n), ![new] = over]
           nodes1 == [node EXCEPT ![new] = Blank(p)]
           side == Side(k, split, p, next)
<1>1. CASE Stumbles(t, side, nodes)
  <2> HIDE DEF nodes, side
  <2>1. Becomes(t, w, w)
    BY <1>1, StumblesTree
  <2>2. w \in Views
    BY DEF InTree
  <2> QED BY <2>1, <2>2
<1>2. CASE Goes(t, side, nodes) /\ next_page' = next_page + 2 /\ root' = new
  <2>1. /\ Inserts(t) /\ AtRootOf(t) /\ Insert(t)
        /\ p \in PageIds /\ p < next_page /\ fixed[p] = NoThread
        /\ Full(n, k, args[t].value) /\ new \in PageIds
    BY DEF SplitRoot, Insert, AtRoot, Free, Inserts, PageInv, GoodCall, AtRootOf
  <2>2. /\ next \in PageIds /\ p # next /\ p # new /\ next # new
        /\ split \in Keys /\ Len(n.cells) >= 2
        /\ Grown(nodes, next_page + 2, new)
    <3> DEFINE no == nodes
    <3>1. no = [node EXCEPT
                  ![p] = Lower(node[p], next_page), ![next_page] = Upper(node[p]),
                  ![next_page + 1] = NewRoot(p, SplitKey(node[p]), next_page)]
      OBVIOUS
    <3> HIDE DEF no
    <3>2. /\ next_page \in PageIds /\ p # next_page /\ p # next_page + 1
          /\ next_page # next_page + 1
          /\ SplitKey(node[p]) \in Keys /\ Len(node[p].cells) >= 2
          /\ Grown(no, next_page + 2, next_page + 1)
      BY <2>1, <3>1, SplitRootGrown
    <3> QED BY <3>2 DEF no
  <2>3. p = root
    BY <2>1 DEF InTree, AtRootNow
  <2>4. /\ node \in [PageIds -> AnyPage] /\ \A x \in PageIds : Sound(node[x])
        /\ next_page \in Nat /\ Shape(node, next_page, root, Gone, w) /\ w \in Views
        /\ w.pages \subseteq PageIds /\ k \in Keys
    BY PageNumbers DEF PageInv, SoundPages, InTree, Scalars, Views
  <2>5. ForKey(w, p, k)
    BY <2>3, <2>4, RootForKey
  <2> DEFINE made == next_page + 2
  <2>6. /\ made \in Nat /\ next_page + 2 <= made /\ new < made /\ next_page <= new
        /\ next < made /\ next_page <= next /\ made <= made
    BY <2>4
  <2>7. \A x \in {next, new} :
          /\ x \notin w.pages /\ x \notin Gone
          /\ \A y \in PageIds : ~node[y].leaf =>
               \A j \in 1 .. Len(node[y].cells) + 1 : Link(node[y], j) # x
    <3> HIDE DEF next, new
    <3> QED BY <2>1, <2>2, <2>6, NextPage
  <2>8. /\ nodes1[new] = Blank(p)
        /\ \A x \in PageIds : x # new => nodes1[x] = node[x]
    BY <2>1, <2>4
  <2>9. /\ nodes[p] = Lower(n, next) /\ nodes[next] = Upper(n) /\ nodes[new] = over
        /\ \A x \in PageIds : x # p /\ x # next /\ x # new => nodes[x] = node[x]
    <3> HIDE DEF p, over, new
    <3> QED BY <2>1, <2>2, <2>4
  <2>10. /\ nodes \in [PageIds -> AnyPage] /\ \A x \in PageIds : Sound(nodes[x])
    BY <2>2 DEF Grown, SoundPages
  <2>11. /\ fixed[next] = NoThread /\ next # p
    BY <2>2, <2>4 DEF PageInv
  <2>12. Alone => ~StoredIn(node, Gone, k)
    BY <2>1, NotStored
  <2>13. Over(Blank(p), over, 1, split, next)
    <3> HIDE DEF split, p, next
    <3> QED BY <2>1, <2>2, RootOver
  <2>14. Sound(Blank(p)) /\ ~Blank(p).leaf /\ Len(Blank(p).cells) = 0 /\ Blank(p).right = p
    BY <2>1, BlankSound
  <2>15. side = Side(k, SplitKey(node[p]), p, next)
    OBVIOUS
  <2> HIDE DEF nodes, nodes1, over, side, p, new, made
  <2>16. Raises(node, root, new, nodes1)
    BY <2>3, <2>8, <2>14 DEF Raises
  <2>17. PICK w1 \in Views : RaiseView(w, root, new, w1)
    <3>1. root \in PageIds
      BY <2>1, <2>3
    <3> QED BY <2>1, <2>4, <3>1, RaiseViewExists
  <2>18. Shape(nodes1, made, new, Gone, w1)
    BY <2>1, <2>4, <2>6, <2>7, <2>16, <2>17, RaiseShape
  <2>19. SameTable(node, w, nodes1, w1)
    BY <2>4, <2>7, <2>16, <2>17, RaiseTable
  <2>20. \A x \in PageIds : Sound(nodes1[x])
    BY <2>4, <2>8, <2>14
  <2>21. Splittable(nodes1, made, new, Gone, w1, p, next, new, 1)
    <3>1. w1.pages = w.pages \cup {new} /\ w1.low[new] = -1 /\ w1.high[new] = Top
      BY <2>17 DEF RaiseView
    <3>2. nodes1[p] = n /\ nodes1[new] = Blank(p)
      BY <2>1, <2>2, <2>8
    <3>3. 1 \in 1 .. Len(nodes1[new].cells) + 1 /\ Link(nodes1[new], 1) = p
      BY <2>14, <3>2 DEF Link
    <3>4. Live(nodes1[new], w1.low[new], w1.high[new], 1)
      BY <2>14, <3>1, <3>2, BelowTop DEF Live, LowOf, HighOf
    <3>5. \A x \in PageIds : ~nodes1[x].leaf =>
            \A j \in 1 .. Len(nodes1[x].cells) + 1 : Link(nodes1[x], j) # next
      <4> SUFFICES ASSUME NEW x \in PageIds, ~nodes1[x].leaf,
                          NEW j \in 1 .. Len(nodes1[x].cells) + 1
                   PROVE  Link(nodes1[x], j) # next
        OBVIOUS
      <4>1. CASE x = new
        BY <2>2, <2>14, <3>2, <4>1 DEF Link
      <4>2. CASE x # new
        BY <2>7, <2>8, <4>2
      <4> QED BY <4>1, <4>2
    <3>6. next \notin w1.pages /\ next \notin Gone
      BY <2>2, <2>7, <3>1
    <3>7. ~nodes1[new].leaf /\ Len(nodes1[p].cells) >= 2 /\ new \in w1.pages
      BY <2>2, <2>14, <3>1, <3>2
    <3> HIDE DEF next
    <3> QED BY <2>2, <2>18, <2>20, <3>3, <3>4, <3>5, <3>6, <3>7 DEF Splittable
  <2>22. Splits(nodes1, p, next, new, 1, nodes)
    <3>1. nodes1[p] = n /\ nodes1[new] = Blank(p)
      BY <2>1, <2>2, <2>8
    <3>2. /\ nodes[p] = Lower(nodes1[p], next) /\ nodes[next] = Upper(nodes1[p])
          /\ Over(nodes1[new], nodes[new], 1, SplitKey(nodes1[p]), next)
      BY <2>9, <2>13, <3>1
    <3>3. \A x \in PageIds : x # p /\ x # next /\ x # new => nodes[x] = nodes1[x]
      BY <2>8, <2>9
    <3> QED BY <3>2, <3>3 DEF Splits
  <2>23. PICK w2 \in Views : SplitView(nodes1, w1, p, next, new, w2)
    <3>1. SplitKey(nodes1[p]) \in Nat
      BY <2>1, <2>2, <2>8, Constants
    <3> QED BY <2>1, <2>2, <2>17, <3>1, SplitViewExists
  <2>24. SplitStep(nodes1, made, new, Gone, w1, p, next, new, 1, nodes, w2)
    BY <2>21, <2>22, <2>23 DEF SplitStep
  <2>25. ForKey(w1, p, k)
    <3>1. p \in w1.pages /\ w1.low[p] = w.low[p] /\ w1.high[p] = w.high[p]
      BY <2>1, <2>2, <2>5, <2>17 DEF RaiseView, ForKey
    <3> QED BY <2>5, <3>1 DEF ForKey
  <2>26. Alone => ~StoredIn(nodes1, Gone, k)
    BY <2>4, <2>12, <2>18, <2>19, SameStored
  <2>27. /\ Shape(node', made, new, Gone', w2)
         /\ Place(w2, t)' /\ NewKey(t)' /\ Others(t)
         /\ Alone => Tells(t, nodes1, w1, w2)
    <3>1. side = Side(k, SplitKey(nodes1[p]), p, next)
      BY <2>1, <2>2, <2>8, <2>15
    <3>2. SameLeft
      BY SplitRootStep
    <3> HIDE DEF next
    <3> QED BY <1>2, <2>1, <2>6, <2>10, <2>11, <2>17, <2>20, <2>23, <2>24, <2>25, <2>26, <3>1,
               <3>2, SplitProceeds
  <2>28. Alone => Tells(t, node, w, w2)
    BY <2>4, <2>19, <2>27, TellsAfter
  <2>29. Shape(node', next_page', root', Gone', w2)
    BY <1>2, <2>27 DEF made
  <2>30. KeptBut(w, w2, p)
    <3>1. KeptBut(w1, w2, p)
      BY <2>24, SplitKeptBut
    <3>2. \A d \in w.pages : d \in w1.pages /\ w1.low[d] = w.low[d] /\ w1.high[d] = w.high[d]
      BY <2>4, <2>7, <2>17 DEF RaiseView
    <3> QED BY <3>1, <3>2 DEF KeptBut
  <2>31. Alone => Effect(t, w, w2)
    BY <2>28 DEF Effect
  <2>32. Becomes(t, w, w2)
    BY <2>1, <2>23, <2>27, <2>29, <2>30, <2>31, StepTree
  <2> QED BY <2>23, <2>32
<1>3. \/ Goes(t, side, nodes) /\ next_page' = next_page + 2 /\ root' = new
      \/ Stumbles(t, side, nodes)
  BY SplitRootGoes
<1> HIDE DEF nodes, side
<1> QED BY <1>1, <1>2, <1>3

\* A call that returns, and has not changed a page.
LEMMA ReturnTree ==
  ASSUME PageInv, NEW w, InTree(w), NEW t \in Threads, Insert(t) \/ Lookup(t),
         NEW code \in {"SUCCESS", "ENOENT", "ENOMEM"}, NEW value \in Values \cup {NoValue},
         Return(t, code, value), SameLeft, UNCHANGED shared,
         Says(t, code, value) => Effect(t, w, w)
  PROVE  Becomes(t, w, w)
<1>1. node' = node /\ next_page' = next_page /\ root' = root
  BY DEF shared
<1>2. Scalars
  BY DEF PageInv
<1>3. Gone' = Gone
  BY GoneSame
<1>4. pc'[t] = "idle" /\ Others(t)
  BY <1>2, Returned
<1>5. Place(w, t)' /\ NewKey(t)'
  BY <1>4 DEF Place, Walks, NewKey, Inserts
<1>6. w \in Views /\ Shape(node', next_page', root', Gone', w)
  BY <1>1, <1>3 DEF InTree
<1>7. Effect(t, w, w)
  BY DEF Return, Says
<1>8. 0 \notin PageIds
  BY DEF PageIds
<1> QED BY <1>4, <1>5, <1>6, <1>7, <1>8, KeptSame, StepTree

\* A failed call keeps the table.
LEMMA RunsOutTree ==
  ASSUME PageInv, NEW w, InTree(w), NEW t \in Threads, InsertRunsOut(t) \/ LookupRunsOut(t)
  PROVE  Becomes(t, w, w)
<1>1. /\ Insert(t) \/ Lookup(t)
      /\ Return(t, "ENOMEM", NoValue) /\ UNCHANGED shared
  BY DEF Insert, Lookup, InsertRunsOut, LookupRunsOut
<1>2. Says(t, "ENOMEM", NoValue) => Effect(t, w, w)
  BY <1>1 DEF Effect, Drops, shared
<1>3. SameLeft
  BY RunsOutStep, LookupRunsOutStep
<1> QED BY <1>1, <1>2, <1>3, ReturnTree

\* The page a look-up waits for is for its key.
LEMMA LookupPlace ==
  ASSUME KeysClose, PageInv, NEW w, InTree(w), NEW t \in Threads,
         pc[t] \in {"lookup_root", "lookup_walk"}
  PROVE  LET p == LookupTarget(t)
             k == args[t].key
         IN  p \in PageIds /\ ForKey(w, p, k) /\ w.low[p] < k
<1> DEFINE p == LookupTarget(t)
           k == args[t].key
           q == page[t]
<1>1. k \in Keys /\ w.pages \subseteq PageIds
  BY DEF PageInv, Scalars, InTree, Views
<1>2. CASE pc[t] = "lookup_root"
  <2>1. p = root
    BY <1>2 DEF LookupTarget, InTree, AtRootNow, AtRootOf
  <2> QED BY <1>1, <2>1, RootForKey DEF ForKey
<1>3. CASE pc[t] = "lookup_walk"
  <2>1. Walks(t) /\ p = Child(node[q], k)
    BY <1>3 DEF Walks, LookupTarget
  <2>2. q \in PageIds /\ ~node[q].leaf
    BY <2>1, WalkPlace
  <2>3. q \in w.pages /\ ForKey(w, q, k) /\ w.low[q] < k
    <3>1. Place(w, t)
      BY DEF InTree
    <3> QED BY <1>3, <2>1, <3>1 DEF Place, ForKey
  <2>4. (\A x \in PageIds : Sound(node[x])) /\ Shape(node, next_page, root, Gone, w)
    BY DEF PageInv, SoundPages, InTree
  <2>5. ForKey(w, p, k) /\ w.low[p] < k
    BY <1>1, <2>1, <2>2, <2>3, <2>4, ChildForKey
  <2> QED BY <1>1, <2>5 DEF ForKey
<1> QED BY <1>2, <1>3

\* A key that the leaf for it does not have is not stored.
LEMMA MissedIn ==
  ASSUME KeysClose, NEW nodes, \A x \in PageIds : Sound(nodes[x]),
         NEW made, NEW top, NEW gone, NEW w, Shape(nodes, made, top, gone, w),
         NEW p \in PageIds, nodes[p].leaf, NEW k \in Keys, ForKey(w, p, k), w.low[p] < k,
         ~Hit(nodes[p], k), NEW v
  PROVE  ~Holds(nodes, w, k, v)
<1> SUFFICES ASSUME Holds(nodes, w, k, v) PROVE FALSE
  OBVIOUS
<1> DEFINE n == nodes[p]
           i == FindPointer(n, k)
<1>1. PICK q \in w.pages : /\ nodes[q].leaf /\ w.low[q] < k /\ k <= w.high[q]
                           /\ \E j \in 1 .. Len(nodes[q].cells) :
                                KeyAt(nodes[q], j) = k /\ Link(nodes[q], j) = v
  BY DEF Holds
<1>2. k \in Nat /\ p \in w.pages /\ k <= w.high[p] /\ q \in PageIds
  BY Constants DEF ForKey, Shape, Views
<1>3. w.low[p] \in Int /\ w.high[p] \in Int /\ w.low[q] \in Int /\ w.high[q] \in Int
  BY <1>2 DEF Shape, Views
<1>4. q = p
  <2>1. LeavesApart(nodes, w)
    BY DEF Shape
  <2> QED BY <1>1, <1>2, <1>3, <2>1 DEF LeavesApart
<1>5. PICK j \in 1 .. Len(n.cells) : KeyAt(n, j) = k
  BY <1>1, <1>4
<1>6. /\ i \in 1 .. Len(n.cells) + 1
      /\ \A h \in 1 .. Len(n.cells) : h < i => KeyAt(n, h) < k
      /\ i <= Len(n.cells) => KeyAt(n, i) >= k
      /\ Hit(n, k) <=> i <= Len(n.cells) /\ KeyAt(n, i) = k
  <2> HIDE DEF n
  <2> QED BY FindPlace DEF n
<1>7. Ordered(n, w.low[p], w.high[p])
  BY <1>2 DEF Shape, InRange
<1>8. Len(n.cells) \in Nat /\ \A h \in 1 .. Len(n.cells) : KeyAt(n, h) \in Nat
  BY SoundType, KeyAtType
<1> HIDE DEF n, i
<1>9. ~(j < i)
  BY <1>2, <1>5, <1>6
<1>10. i \in 1 .. Len(n.cells) /\ i <= j
  BY <1>5, <1>6, <1>8, <1>9
<1>11. KeyAt(n, i) <= KeyAt(n, j)
  BY <1>5, <1>7, <1>8, <1>10 DEF Ordered
<1>12. KeyAt(n, i) = k
  BY <1>2, <1>5, <1>6, <1>8, <1>10, <1>11
<1> QED BY <1>6, <1>10, <1>12 DEF n

\* LookupStep keeps the tree, and is told what the table has.
LEMMA LookupStepTree ==
  ASSUME KeysClose, PageInv, NEW w, InTree(w), NEW t \in Threads, LookupStep(t)
  PROVE  Becomes(t, w, w)
<1> DEFINE k == args[t].key
           p == LookupTarget(t)
           n == node[p]
           i == FindPointer(n, k)
<1>1. /\ pc[t] \in {"lookup_root", "lookup_walk"} /\ fixed[p] = NoThread
      /\ LookupAt(t, p) /\ UNCHANGED shared /\ Lookup(t)
  BY DEF LookupStep, Looking, Free, Lookup
<1>2. p \in PageIds /\ ForKey(w, p, k) /\ w.low[p] < k
  BY <1>1, LookupPlace
<1>3. /\ node' = node /\ next_page' = next_page /\ root' = root
      /\ Scalars /\ k \in Keys /\ (\A x \in PageIds : Sound(node[x]))
      /\ w \in Views /\ Shape(node, next_page, root, Gone, w)
  BY <1>1 DEF shared, PageInv, Scalars, SoundPages, InTree
<1>4. SameTable(node, w, node', w) /\ SameLeft
  BY <1>3, LookupStepStep DEF SameTable
<1>5. CASE ~n.leaf
  <2>1. /\ pc' = [pc EXCEPT ![t] = "lookup_walk"]
        /\ page' = [page EXCEPT ![t] = p] /\ args' = args /\ answer' = answer
    BY <1>1, <1>5 DEF LookupAt
  <2> HIDE DEF p, k
  <2>2. /\ pc'[t] = "lookup_walk" /\ page'[t] = p /\ Others(t)
    BY <1>3, <2>1 DEF Scalars, Others
  <2>3. Gone' = Gone
    BY <1>4, GoneSame
  <2>4. Place(w, t)'
    BY <1>2, <2>1, <2>2 DEF Place, ForKey, k
  <2>5. NewKey(t)'
    BY <2>2 DEF NewKey, Inserts
  <2>6. Shape(node', next_page', root', Gone', w)
    BY <1>3, <2>3
  <2>7. Effect(t, w, w)
    BY <1>4, <2>1 DEF Effect, Tells
  <2>8. 0 \notin PageIds
    BY DEF PageIds
  <2> QED BY <1>1, <1>3, <2>2, <2>4, <2>5, <2>6, <2>7, <2>8, KeptSame, StepTree
<1>6. CASE n.leaf
  <2>1. Answered(t, n)
    BY <1>1, <1>6 DEF LookupAt
  <2>2. CASE Hit(n, k)
    <3> DEFINE v == n.cells[i].ref
    <3>1. Return(t, "SUCCESS", v)
      BY <2>1, <2>2 DEF Answered
    <3>2. /\ i \in 1 .. Len(n.cells) + 1 /\ i <= Len(n.cells) /\ KeyAt(n, i) = k
          /\ Len(n.cells) \in Nat /\ \A h \in 1 .. Len(n.cells) : n.cells[h] \in CellType(n.leaf)
      <4>0. Sound(n)
        BY <1>2, <1>3
      <4> HIDE DEF n, k
      <4> QED BY <1>3, <2>2, <4>0, FindPlace, SoundType
    <3> HIDE DEF i
    <3>3. i \in 1 .. Len(n.cells)
      BY <3>2
    <3>4. v \in Values /\ Link(n, i) = v
      <4>1. i # Len(n.cells) + 1
        BY <3>2
      <4> QED BY <1>6, <3>2, <3>3, <4>1 DEF CellType, Link
    <3>5. Holds(node, w, k, v)
      BY <1>2, <1>6, <3>2, <3>3, <3>4 DEF Holds, ForKey
    <3> HIDE DEF v, k
    <3>6. Says(t, "SUCCESS", v) => Effect(t, w, w)
      BY <1>3, <1>4, <3>5 DEF Effect, Reads
    <3> QED BY <1>1, <1>4, <3>1, <3>4, <3>6, ReturnTree
  <2>3. CASE ~Hit(n, k)
    <3>1. Return(t, "ENOENT", NoValue)
      BY <2>1, <2>3 DEF Answered
    <3>2. \A v : ~Holds(node, w, k, v)
      <4> HIDE DEF k, p
      <4> QED BY <1>2, <1>3, <1>6, <2>3, MissedIn
    <3> HIDE DEF k
    <3>3. Says(t, "ENOENT", NoValue) => Effect(t, w, w)
      BY <1>3, <1>4, <3>2 DEF Effect, Reads
    <3> QED BY <1>1, <1>4, <3>1, <3>3, ReturnTree
  <2> QED BY <2>2, <2>3
<1> QED BY <1>5, <1>6

\* A call begins at the root.
LEMMA CallTree ==
  ASSUME PageInv, NEW w, InTree(w), NEW t \in Threads, Call(t)
  PROVE  Becomes(t, w, w)
<1>1. PICK label \in {"insert_root", "lookup_root"}, k \in Keys, v \in Values \cup {NoValue} :
        /\ Begin(t, label, k, v)
        /\ label = "insert_root" => Reinsert \/ ~Stored(k)
  <2>1. CASE \E pair \in Offered : InsertCall(t, pair[1], pair[2])
    <3>1. PICK pair \in Offered : InsertCall(t, pair[1], pair[2])
      BY <2>1
    <3>2. pair[1] \in Keys /\ pair[2] \in Values
      BY Constants
    <3> QED BY <3>1, <3>2 DEF InsertCall
  <2>2. CASE \E k \in Keys : LookupCall(t, k)
    BY <2>2 DEF LookupCall
  <2> QED BY <2>1, <2>2 DEF Call
<1>2. /\ node' = node /\ next_page' = next_page /\ root' = root /\ fixed' = fixed
      /\ answer' = answer
      /\ pc' = [pc EXCEPT ![t] = label] /\ page' = [page EXCEPT ![t] = root]
      /\ args' = [args EXCEPT ![t] = [key |-> k, value |-> v]]
  BY <1>1 DEF Begin, shared
<1>3. /\ pc'[t] = label /\ args'[t].key = k /\ Others(t)
  BY <1>2 DEF PageInv, Scalars, Others
<1>4. Place(w, t)'
  BY <1>3 DEF Place, Walks
<1>5. NewKey(t)'
  <2>1. Stored(k)' <=> Stored(k)
    BY <1>2, CallStep DEF Stored, SameLeft
  <2> QED BY <1>1, <1>3, <2>1 DEF NewKey, Inserts, Alone
<1>6. w \in Views /\ Shape(node', next_page', root', Gone', w)
  BY <1>2, CallStep, GoneSame DEF InTree
<1>7. Effect(t, w, w)
  BY <1>2 DEF Effect, Tells, SameTable
<1>8. 0 \notin PageIds
  BY DEF PageIds
<1> QED BY <1>3, <1>4, <1>5, <1>6, <1>7, <1>8, KeptSame, StepTree

\* What a leaf that loses its upper half still has, it had.
LEMMA LoseLeafHolds ==
  ASSUME NEW nodes, NEW made, NEW top, NEW w, NEW next, NEW nodes2,
         Loses(nodes, made, top, w, next, nodes2), nodes[top].leaf,
         NEW k, NEW v, Holds(nodes2, w, k, v)
  PROVE  Holds(nodes, w, k, v)
<1> DEFINE n == nodes[top]
           a == nodes2[top]
           m == SplitAt(n)
<1>1. PICK q \in w.pages : /\ nodes2[q].leaf /\ w.low[q] < k /\ k <= w.high[q]
                           /\ \E i \in 1 .. Len(nodes2[q].cells) :
                                KeyAt(nodes2[q], i) = k /\ Link(nodes2[q], i) = v
  BY DEF Holds
<1>2. q = top
  BY DEF Loses, Shape, LeafTop
<1>3. PICK i \in 1 .. Len(a.cells) : KeyAt(a, i) = k /\ Link(a, i) = v
  BY <1>1, <1>2
<1>4. Sound(n) /\ Len(n.cells) >= 2 /\ next \in PageIds /\ a = Lower(n, next)
  BY <1>1, <1>2 DEF Loses, Shape, Views
<1> HIDE DEF a
<1>5. /\ m \in 1 .. Len(n.cells) - 1 /\ Len(n.cells) \in Nat /\ Len(a.cells) = m
      /\ \A j \in 1 .. m : KeyAt(a, j) = KeyAt(n, j)
      /\ \A j \in 1 .. m : Link(a, j) = Link(n, j)
  <2> HIDE DEF n
  <2> QED BY <1>4, HalfPlaces DEF m
<1> HIDE DEF m
<1>6. i \in 1 .. Len(n.cells) /\ KeyAt(n, i) = k /\ Link(n, i) = v
  BY <1>3, <1>5
<1> QED BY <1>1, <1>2, <1>6 DEF Holds

\* What the tree still has when its root was an inner page, it had.
LEMMA LoseInnerHolds ==
  ASSUME NEW nodes, NEW made, NEW top, NEW w, NEW next, NEW nodes2, NEW w2,
         LoseStep(nodes, made, top, w, next, nodes2, w2),
         NEW k, NEW v, Holds(nodes2, w2, k, v)
  PROVE  Holds(nodes, w, k, v)
<1>1. PICK q \in w2.pages : /\ nodes2[q].leaf /\ w2.low[q] < k /\ k <= w2.high[q]
                            /\ \E i \in 1 .. Len(nodes2[q].cells) :
                                 KeyAt(nodes2[q], i) = k /\ Link(nodes2[q], i) = v
  BY DEF Holds
<1>2. LoseHalves(nodes, top, w, next, nodes2, w2)
  BY LoseRoot
<1>3. LoseKept(nodes, top, w, next, nodes2, w2)
  BY LoseKeeps
<1>4. q # top /\ q # next /\ q \in PageIds
  BY <1>1, <1>2 DEF LoseHalves
<1>5. nodes2[q] = nodes[q] /\ q \in w.pages /\ w2.low[q] = w.low[q] /\ w2.high[q] = w.high[q]
  BY <1>1, <1>3, <1>4 DEF LoseKept
<1> QED BY <1>1, <1>5 DEF Holds

\* SplitRootRunsOut keeps a tree.
LEMMA SplitRootRunsOutTree ==
  ASSUME KeysClose, PageInv, NEW w, InTree(w), NEW t \in Threads, SplitRootRunsOut(t)
  PROVE  \E w2 \in Views : Becomes(t, w, w2)
<1> DEFINE p == page[t]
           n == node[p]
           next == next_page
           made == next_page + 1
<1>1. /\ AtRootOf(t) /\ Inserts(t) /\ Insert(t) /\ p \in PageIds /\ p < next /\ fixed[p] = NoThread
      /\ Full(n, args[t].key, args[t].value) /\ next \in PageIds /\ NothingLeft
      /\ node' = [node EXCEPT ![p] = Lower(n, next), ![next] = Upper(n)]
      /\ next_page' = made /\ root' = root
      /\ Return(t, "ENOMEM", NoValue)
  BY DEF SplitRootRunsOut, Insert, AtRoot, Free, Inserts, PageInv, GoodCall, AtRootOf
<1>2. p = root
  BY <1>1 DEF InTree, AtRootNow
<1>3. /\ node \in [PageIds -> AnyPage] /\ \A x \in PageIds : Sound(node[x])
      /\ next_page \in Nat /\ Shape(node, next_page, root, Gone, w) /\ w \in Views
      /\ Scalars
  BY PageNumbers DEF PageInv, SoundPages, InTree, Scalars
<1>4. Gone = {} /\ Gone' = {next}
  <2>1. \A q \in PageIds : Left(q)' <=> q = next
    BY SplitRootRunsOutStep
  <2> QED BY <1>1, <2>1 DEF NothingLeft, Gone
<1>5. Len(n.cells) >= 2
  <2>1. args[t].value \in Values /\ args[t].key \in Keys /\ Sound(n)
    BY <1>1, <1>3 DEF PageInv, GoodCall, Scalars
  <2> HIDE DEF n
  <2> QED BY <1>1, <2>1, FullHasTwo
<1>6. made \in Nat /\ next_page <= made /\ next < made /\ next_page + 1 <= made /\ next_page <= next
  BY <1>3
<1>7. Loses(node, next_page, root, w, next, node')
  <2>1. /\ next \notin w.pages
        /\ \A x \in PageIds : ~node[x].leaf =>
             \A j \in 1 .. Len(node[x].cells) + 1 : Link(node[x], j) # next
    BY <1>1, <1>6, NextPage
  <2>2. p # next
    BY <1>1, <1>3
  <2>3. /\ node'[p] = Lower(n, next) /\ node'[next] = Upper(n)
        /\ \A x \in PageIds : x # p /\ x # next => node'[x] = node[x]
    <3> HIDE DEF p
    <3> QED BY <1>1, <1>3, <2>2
  <2>4. Shape(node, next_page, root, {}, w)
    BY <1>3, <1>4
  <2> HIDE DEF next, p
  <2> QED BY <1>1, <1>2, <1>3, <1>5, <2>1, <2>3, <2>4 DEF Loses
<1>8. pc'[t] = "idle" /\ Others(t)
  BY <1>1, <1>3, Returned
<1>9. \A w2 : Place(w2, t)' /\ NewKey(t)'
  BY <1>8 DEF Place, Walks, NewKey, Inserts
<1>10. Says(t, "ENOMEM", NoValue)
  BY <1>1 DEF Return, Says
<1> HIDE DEF next, made, p
<1>11. CASE n.leaf
  <2>0. node[root].leaf
    BY <1>2, <1>11
  <2>1. Shape(node', made, root, {next}, w)
    BY <1>3, <1>6, <1>7, <2>0, LoseLeafShape
  <2>2. Shape(node', next_page', root', Gone', w)
    BY <1>1, <1>4, <2>1
  <2>3. \A k \in Keys : \A v : Holds(node', w, k, v) => Holds(node, w, k, v)
    BY <1>7, <2>0, LoseLeafHolds
  <2>4. Effect(t, w, w)
    BY <1>10, <2>3 DEF Effect, Drops
  <2>5. 0 \notin PageIds
    BY DEF PageIds
  <2>6. Becomes(t, w, w)
    BY <1>1, <1>3, <1>8, <1>9, <2>2, <2>4, <2>5, KeptSame, StepTree
  <2> QED BY <1>3, <2>6
<1>12. CASE ~n.leaf
  <2>0. ~node[root].leaf /\ root \in PageIds /\ fixed[root] = NoThread
    BY <1>1, <1>2, <1>12
  <2>1. SplitKey(node[root]) \in Nat
    <3>1. LosePlaces(node, root, w, next, node')
      BY <1>7, LosePages
    <3> QED BY <3>1 DEF LosePlaces
  <2>2. PICK w2 \in Views : LoseView(node, root, w, next, w2)
    BY <1>1, <1>3, <2>0, <2>1, LoseViewExists
  <2>3. LoseStep(node, next_page, root, w, next, node', w2)
    BY <1>7, <2>0, <2>2 DEF LoseStep
  <2>4. Shape(node', made, root, {next}, w2)
    BY <1>3, <1>6, <2>3, LoseInnerShape
  <2>5. Shape(node', next_page', root', Gone', w2)
    BY <1>1, <1>4, <2>4
  <2>6. \A k \in Keys : \A v : Holds(node', w2, k, v) => Holds(node, w, k, v)
    BY <2>3, LoseInnerHolds
  <2>7. Effect(t, w, w2)
    BY <1>10, <2>6 DEF Effect, Drops
  <2>8. KeptBut(w, w2, root)
    <3>1. LoseKept(node, root, w, next, node', w2)
      BY <2>3, LoseKeeps
    <3>2. LoseHalves(node, root, w, next, node', w2)
      BY <2>3, LoseRoot
    <3>3. \A d \in w.pages : d # root => d \in PageIds /\ d # next
      BY <3>2 DEF LoseHalves
    <3> QED BY <3>1, <3>3 DEF KeptBut, LoseKept
  <2>9. Becomes(t, w, w2)
    BY <1>1, <1>8, <1>9, <2>0, <2>2, <2>5, <2>7, <2>8, StepTree
  <2> QED BY <2>2, <2>9
<1> QED BY <1>11, <1>12

\* Every step goes from a tree to a tree.
LEMMA TreeStep ==
  ASSUME KeysClose, PageInv, NEW w, InTree(w), NEW t \in Threads,
         Call(t) \/ Insert(t) \/ Lookup(t)
  PROVE  \E w2 \in Views : Becomes(t, w, w2)
<1>1. w \in Views
  BY DEF InTree
<1>2. CASE Call(t)
  BY <1>1, <1>2, CallTree
<1>3. CASE InsertRoot(t)
  BY <1>1, <1>3, InsertRootTree
<1>4. CASE SplitRoot(t)
  BY <1>4, SplitRootTree
<1>5. CASE InsertRunsOut(t) \/ LookupRunsOut(t)
  BY <1>1, <1>5, RunsOutTree
<1>6. CASE SplitRootRunsOut(t)
  BY <1>6, SplitRootRunsOutTree
<1>7. CASE WalkFails(t)
  BY <1>1, <1>7, FaultTree DEF WalkFails
<1>8. CASE InsertWalk(t)
  BY <1>1, <1>8, InsertWalkTree
<1>9. CASE SplitChild(t)
  BY <1>9, SplitChildTree
<1>10. CASE LookupStep(t)
  BY <1>1, <1>10, LookupStepTree
<1> QED BY <1>2, <1>3, <1>4, <1>5, <1>6, <1>7, <1>8, <1>9, <1>10 DEF Insert, Lookup

\* As long as no call stands at a root that is the root no more.
LEMMA TreeStays ==
  ASSUME NEW t \in Threads, NEW w, NEW w2, Becomes(t, w, w2), AtRootNow'
  PROVE  InTree(w2)'
BY DEF Becomes, InTree

\* A step of nobody.
LEMMA TreeStutters ==
  ASSUME NEW w, InTree(w), UNCHANGED vars
  PROVE  InTree(w)'
<1>1. /\ node' = node /\ next_page' = next_page /\ root' = root /\ fixed' = fixed
      /\ pc' = pc /\ args' = args /\ page' = page
  BY DEF vars
<1>2. AtRootNow'
  BY <1>1 DEF InTree, AtRootNow, AtRootOf
<1>3. ASSUME NEW u \in Threads PROVE Place(w, u)' /\ NewKey(u)'
  <2>1. Place(w, u) /\ NewKey(u)
    BY DEF InTree
  <2>2. Place(w, u)'
    BY <1>1, <2>1 DEF Place, Walks, Hit, FindPointer
  <2>3. NewKey(u)'
    BY <1>1, <2>1 DEF NewKey, Inserts, Stored, Left, Free, Stands
  <2> QED BY <2>2, <2>3
<1>4. w \in Views /\ Shape(node, next_page, root, Gone, w)'
  BY <1>1 DEF InTree, Gone, Left, Free, Stands
<1> QED BY <1>2, <1>3, <1>4 DEF InTree
-----------------------------------------------------------------------------
(***************************************************************************)
(* What a look-up finds.                                                   *)
(***************************************************************************)
\* The pages a look-up of k comes by.
OnWay(w, k) == {p \in w.pages : w.low[p] < k /\ k <= w.high[p]}

\* From one of them it goes on to another.
LEMMA DownTheWay ==
  ASSUME KeysClose, PageInv, NEW w, InTree(w), NEW k \in Keys, NEW p \in OnWay(w, k)
  PROVE  /\ Down(k)[p] \in OnWay(w, k)
         /\ node[p].leaf => Down(k)[p] = p
         /\ ~node[p].leaf => w.level[Down(k)[p]] < w.level[p]
<1>1. /\ p \in w.pages /\ p \in PageIds /\ w.low[p] < k /\ k <= w.high[p]
      /\ w.low[p] \in Int /\ k \in Nat
  BY Constants DEF OnWay, InTree, Views
<1>2. Down(k)[p] = IF node[p].leaf THEN p ELSE Child(node[p], k)
  BY <1>1 DEF Down
<1>3. CASE ~node[p].leaf
  <2>1. (\A x \in PageIds : Sound(node[x])) /\ Shape(node, next_page, root, Gone, w)
    BY DEF PageInv, SoundPages, InTree
  <2>2. ForKey(w, p, k)
    BY <1>1 DEF ForKey
  <2>3. LET c == Child(node[p], k)
        IN  ForKey(w, c, k) /\ w.low[c] < k /\ w.level[c] < w.level[p]
    BY <1>1, <1>3, <2>1, <2>2, ChildForKey
  <2> QED BY <1>2, <1>3, <2>3 DEF ForKey, OnWay
<1> QED BY <1>2, <1>3

\* A tree is not higher than its pages allow.
LEMMA LevelOfRoot ==
  ASSUME PageInv, NEW w, InTree(w)
  PROVE  Height \in Nat /\ w.level[root] \in Nat /\ w.level[root] <= Height
<1>1. next_page \in 1 .. MaxPages + 1 /\ root \in PageIds /\ MaxPages \in Nat
  BY Constants DEF PageInv, Scalars
<1>2. w.level[root] \in Nat
  BY <1>1 DEF InTree, Views
<1>3. 2 * w.level[root] + 2 <= next_page + 1
  BY <1>1, <1>2 DEF InTree, Shape
<1> QED BY <1>1, <1>2, <1>3 DEF Height

\* A look-up from the root comes to the leaf that is for the key.
LEMMA LeafForPlace ==
  ASSUME KeysClose, PageInv, NEW w, InTree(w), NEW k \in Keys
  PROVE  LeafFor(k) \in OnWay(w, k) /\ node[LeafFor(k)].leaf
<1> DEFINE n == Height
           X == OnWay(w, k)
           down == Down(k)
           F == [i \in 1 .. n |-> [p \in X |-> down[p]]]
           Eq(s) == s = [d \in 0 .. n |-> IF d = 0 THEN root ELSE down[s[d - 1]]]
           at == CHOOSE s : Eq(s)
<1>1. n \in Nat /\ w.level[root] \in Nat /\ w.level[root] <= n
  BY LevelOfRoot
<1>2. root \in X
  <2>1. ForKey(w, root, k) /\ w.low[root] < k
    BY RootForKey
  <2> QED BY <2>1 DEF OnWay, ForKey
<1>3. \A p \in X : /\ down[p] \in X
                   /\ node[p].leaf => down[p] = p
                   /\ ~node[p].leaf => w.level[down[p]] < w.level[p]
  BY DownTheWay
<1>4. \A p \in X : w.level[p] \in Nat
  BY DEF OnWay, InTree, Views
<1>5. LeafFor(k) = at[n]
  BY DEF LeafFor
<1> HIDE DEF n, X, down
<1>6. Steps(F, n, X)
  BY <1>3 DEF Steps
<1>7. PICK s : Recursion(s, n, X, root, F)
  <2> HIDE DEF F
  <2> QED BY <1>1, <1>2, <1>6, RecursionExists, Zenon
<1>8. s \in [0 .. n -> X] /\ s[0] = root /\ \A i \in 1 .. n : s[i] = down[s[i - 1]]
  <2>1. s \in [0 .. n -> X] /\ s[0] = root /\ \A i \in 1 .. n : s[i] = F[i][s[i - 1]]
    BY <1>7 DEF Recursion
  <2>2. ASSUME NEW i \in 1 .. n PROVE s[i] = down[s[i - 1]]
    <3>1. s[i - 1] \in X /\ s[i] = F[i][s[i - 1]]
      BY <1>1, <2>1
    <3> QED BY <3>1
  <2> QED BY <2>1, <2>2
<1>9. Eq(at)
  <2>1. Eq(s)
    BY <1>1, <1>8
  <2> HIDE DEF Eq
  <2> QED BY <2>1
<1>10. at[n] = s[n]
  <2>1. at[0] = s[0] /\ \A i \in 1 .. n : at[i] = down[at[i - 1]]
    <3> HIDE DEF at
    <3> QED BY <1>1, <1>8, <1>9
  <2> HIDE DEF at
  <2>2. \A i \in 1 .. n : at[i - 1] = s[i - 1] => at[i] = s[i]
    BY <1>8, <2>1
  <2>3. \A i \in 0 .. n : at[i] = s[i]
    <3> HIDE DEF down
    <3>1. n \in Nat
      BY <1>1
    <3>2. GoAlike(n, at, s)
      BY <2>1, <2>2 DEF GoAlike
    <3> HIDE DEF n
    <3> QED BY <3>1, <3>2, SumUnique, Zenon
  <2> QED BY <1>1, <2>3
<1>11. node[s[n]].leaf
  <2> DEFINE S == {d \in Nat : d <= n => node[s[d]].leaf \/ w.level[s[d]] + d <= w.level[root]}
  <2>1. 0 \in S
    BY <1>1, <1>8
  <2>2. ASSUME NEW d \in Nat, d \in S PROVE d + 1 \in S
    <3> SUFFICES ASSUME d + 1 <= n
                 PROVE  node[s[d + 1]].leaf \/ w.level[s[d + 1]] + (d + 1) <= w.level[root]
      OBVIOUS
    <3>1. s[d] \in X /\ s[d + 1] \in X /\ s[d + 1] = down[s[d]]
      <4>1. d + 1 \in 1 .. n /\ d \in 0 .. n /\ (d + 1) - 1 = d
        BY <1>1
      <4> QED BY <1>8, <4>1
    <3>2. node[s[d]].leaf \/ w.level[s[d]] + d <= w.level[root]
      BY <1>1, <2>2
    <3> QED BY <1>1, <1>3, <1>4, <3>1, <3>2
  <2>3. n \in S
    <3>1. Nat \subseteq S
      <4> HIDE DEF S
      <4> QED BY <2>1, <2>2, NatSetInduction, Zenon
    <3> QED BY <1>1, <3>1
  <2>4. CASE w.level[s[n]] + n <= w.level[root]
    <3>1. s[n] \in X /\ w.level[s[n]] = 0
      BY <1>1, <1>4, <1>8, <2>4
    <3>2. down[s[n]] \in X /\ w.level[down[s[n]]] \in Nat
      BY <1>3, <1>4, <3>1
    <3> QED BY <1>3, <3>1, <3>2
  <2> QED BY <1>1, <2>3, <2>4
<1>12. s[n] \in X
  BY <1>1, <1>8
<1> HIDE DEF at
<1> QED BY <1>5, <1>10, <1>11, <1>12 DEF X

\* The value a look-up is told is what the leaves hold.
LEMMA ContentsHold ==
  ASSUME KeysClose, PageInv, NEW w, InTree(w), NEW k \in Keys
  PROVE  \A v : Holds(node, w, k, v) <=> v # NoValue /\ Contents[k] = v
<1> DEFINE p == LeafFor(k)
           n == node[p]
           i == FindPointer(n, k)
<1>1. p \in w.pages /\ w.low[p] < k /\ k <= w.high[p] /\ n.leaf
  BY LeafForPlace DEF OnWay
<1>2. /\ p \in PageIds /\ (\A x \in PageIds : Sound(node[x])) /\ k \in Int
      /\ Shape(node, next_page, root, Gone, w) /\ w.low[p] \in Int
  BY <1>1, Constants DEF PageInv, SoundPages, InTree, Views
<1>3. Contents[k] = IF Hit(n, k) THEN n.cells[i].ref ELSE NoValue
  BY <1>2 DEF Contents, Answers
<1> HIDE DEF p
<1>4. CASE ~Hit(n, k)
  <2>1. ForKey(w, p, k)
    BY <1>1, <1>2, Constants DEF ForKey
  <2>2. \A v : ~Holds(node, w, k, v)
    BY <1>1, <1>2, <1>4, <2>1, MissedIn
  <2> QED BY <1>3, <1>4, <2>2
<1>5. CASE Hit(n, k)
  <2> DEFINE u == n.cells[i].ref
  <2>1. /\ i \in 1 .. Len(n.cells) + 1 /\ i <= Len(n.cells) /\ KeyAt(n, i) = k
        /\ Len(n.cells) \in Nat /\ \A h \in 1 .. Len(n.cells) : n.cells[h] \in CellType(n.leaf)
    <3>0. Sound(n)
      BY <1>2
    <3> HIDE DEF n
    <3> QED BY <1>5, <3>0, FindPlace, SoundType
  <2> HIDE DEF i
  <2>2. i \in 1 .. Len(n.cells)
    BY <2>1
  <2>3. u \in Values /\ Link(n, i) = u
    <3>1. i # Len(n.cells) + 1
      BY <2>1
    <3> QED BY <1>1, <2>1, <2>2, <3>1 DEF CellType, Link
  <2>4. Holds(node, w, k, u)
    BY <1>1, <2>1, <2>2, <2>3 DEF Holds
  <2>5. u # NoValue
    BY <2>3, Constants
  <2> HIDE DEF u
  <2>6. \A v : Holds(node, w, k, v) => v = u
    BY <1>2, <2>4, HoldsOne
  <2>7. Contents[k] = u
    BY <1>3, <1>5 DEF u, i
  <2> QED BY <2>4, <2>5, <2>6, <2>7
<1> QED BY <1>4, <1>5

-----------------------------------------------------------------------------
(***************************************************************************)
(* Several threads, before a call begins at a page that is not the root.   *)
(***************************************************************************)
SharedInv ==
  /\ PageInv
  /\ raced \in BOOLEAN
  /\ ~raced => \E w \in Views : InTree(w)

LEMMA InitTree ==
  ASSUME Init
  PROVE  \E w \in Views : InTree(w) /\ \A k, v : ~Holds(node, w, k, v)
<1>1. PICK w \in Views : /\ Shape(node, next_page, root, Gone, w)
                         /\ \A k, v : ~Holds(node, w, k, v)
  BY InitShape
<1>2. AtRootNow /\ \A t \in Threads : NewKey(t) /\ Place(w, t)
  BY DEF Init, AtRootNow, AtRootOf, NewKey, Inserts, Place, Walks
<1> QED BY <1>1, <1>2 DEF InTree

LEMMA SharedInvInit == SharedInit => SharedInv
<1> SUFFICES ASSUME SharedInit PROVE SharedInv
  OBVIOUS
<1>1. Init
  BY DEF SharedInit
<1>2. PageInv
  BY <1>1, PageInvInit
<1>3. \E w \in Views : InTree(w)
  BY <1>1, InitTree
<1> QED BY <1>2, <1>3 DEF SharedInv, SharedInit

LEMMA SharedInvNext ==
  ASSUME KeysClose, SharedInv, [SharedNext]_<<vars, raced>>
  PROVE  SharedInv'
<1>1. PageInv'
  <2>1. PageInv /\ [Next]_vars
    BY DEF SharedInv, SharedNext, vars
  <2> QED BY <2>1, PageInvNext
<1>2. ASSUME raced' = FALSE PROVE (\E w \in Views : InTree(w))'
  <2>1. CASE UNCHANGED <<vars, raced>>
    <3>1. PICK w \in Views : InTree(w)
      BY <1>2, <2>1 DEF SharedInv
    <3>2. InTree(w)'
      BY <2>1, <3>1, TreeStutters
    <3> QED BY <3>2 DEF InTree
  <2>2. CASE SharedNext
    <3>1. PICK w \in Views : InTree(w)
      BY <1>2, <2>2 DEF SharedInv, SharedNext
    <3>2. PICK t \in Threads : Call(t) \/ Insert(t) \/ Lookup(t)
      BY <2>2 DEF SharedNext, Next
    <3>3. PICK w2 \in Views : Becomes(t, w, w2)
      BY <3>1, <3>2, TreeStep DEF SharedInv
    <3>4. AtRootNow'
      BY <1>2, <2>2 DEF SharedNext, AtRootNow, AtRootOf
    <3>5. InTree(w2)'
      BY <3>3, <3>4, TreeStays
    <3> QED BY <3>5 DEF InTree
  <2> QED BY <2>1, <2>2
<1>3. raced' \in BOOLEAN
  BY DEF SharedInv, SharedNext
<1> QED BY <1>1, <1>2, <1>3 DEF SharedInv

(***************************************************************************)
(* However the calls in progress split pages, and however many there are,  *)
(* a key in a leaf is found from the root, as long as none has begun at a  *)
(* page that another call has taken the root away from.                    *)
(***************************************************************************)
THEOREM KeysKept ==
  ASSUME KeysClose
  PROVE  SharedSpec => []NoKeyLost
<1>1. SharedInit => SharedInv
  BY SharedInvInit
<1>2. SharedInv /\ [SharedNext]_<<vars, raced>> => SharedInv'
  BY SharedInvNext
<1>3. SharedInv => NoKeyLost
  <2> SUFFICES ASSUME SharedInv, ~raced, NEW k \in Keys, Stored(k)
               PROVE  Contents[k] # NoValue
    BY DEF NoKeyLost
  <2>1. PICK w \in Views : InTree(w)
    BY DEF SharedInv
  <2>2. PageInv /\ Shape(node, next_page, root, Gone, w) /\ \A p \in PageIds : Sound(node[p])
    BY <2>1 DEF SharedInv, PageInv, SoundPages, InTree
  <2>3. (\E p \in PageIds : /\ node[p].leaf /\ p \notin Gone
                            /\ \E i \in DOMAIN node[p].cells : node[p].cells[i].key = k)
          <=> StoredIn(node, Gone, k)
    BY <2>2, StoredIs
  <2>4. StoredIn(node, Gone, k)
    BY <2>3 DEF Stored, Gone
  <2>5. PICK v : Holds(node, w, k, v)
    BY <2>2, <2>4, StoredFoundIn, FoundHolds
  <2> QED BY <2>1, <2>2, <2>5, ContentsHold
<1> QED BY <1>1, <1>2, <1>3, PTL DEF SharedSpec
-----------------------------------------------------------------------------
(***************************************************************************)
(* One thread that inserts no key twice: the table.                        *)
(***************************************************************************)
\* The leaves hold what Contents says.
TableOf(w) ==
  /\ Contents = [k \in Keys |-> Contents[k]]
  /\ Contents \in [Keys -> Values \cup {NoValue}]
  /\ \A k \in Keys : \A v : Holds(node, w, k, v) <=> v # NoValue /\ Contents[k] = v

LEMMA HoldsValue ==
  ASSUME PageInv, NEW w, InTree(w), NEW k, NEW v, Holds(node, w, k, v)
  PROVE  v \in Values
<1>1. PICK q \in w.pages : /\ node[q].leaf
                           /\ \E i \in 1 .. Len(node[q].cells) : Link(node[q], i) = v
  BY DEF Holds
<1>2. PICK i \in 1 .. Len(node[q].cells) : Link(node[q], i) = v
  BY <1>1
<1>3. q \in PageIds /\ Sound(node[q])
  BY <1>1 DEF InTree, Views, PageInv, SoundPages
<1> DEFINE n == node[q]
<1>4. Len(n.cells) \in Nat /\ n.cells[i] \in CellType(n.leaf)
  <2>1. Sound(n) /\ i \in 1 .. Len(n.cells)
    BY <1>3
  <2> HIDE DEF n
  <2> QED BY <2>1, SoundType
<1>5. i # Len(n.cells) + 1
  BY <1>4
<1> QED BY <1>1, <1>2, <1>4, <1>5 DEF Link, CellType

LEMMA TreeTable ==
  KeysClose /\ PageInv => \A w \in Views : InTree(w) => TableOf(w)
<1> SUFFICES ASSUME KeysClose, PageInv, NEW w \in Views, InTree(w) PROVE TableOf(w)
  OBVIOUS
<1>1. \A k \in Keys : \A v : Holds(node, w, k, v) <=> v # NoValue /\ Contents[k] = v
  BY ContentsHold
<1>2. Contents = [k \in Keys |-> Contents[k]]
  BY DEF Contents
<1>3. \A k \in Keys : Contents[k] \in Values \cup {NoValue}
  BY <1>1, HoldsValue
<1>4. Contents \in [Keys -> Values \cup {NoValue}]
  BY <1>2, <1>3
<1> QED BY <1>1, <1>2, <1>4 DEF TableOf

LEMMA TreeTableNext ==
  (KeysClose /\ PageInv => \A w \in Views : InTree(w) => TableOf(w))'
BY TreeTable, PTL

\* The inductive invariant.
AloneInv == PageInv /\ \E w \in Views : InTree(w)

\* The only thread splits the root in one step, and stands at no other page.
LEMMA AloneAtRoot ==
  ASSUME Alone, PageInv, NEW w, InTree(w), NEW t \in Threads,
         Call(t) \/ Insert(t) \/ Lookup(t)
  PROVE  AtRootNow'
<1>1. Threads = {t}
  BY DEF Alone
<1> SUFFICES AtRootOf(t)' => page'[t] = root'
  BY <1>1 DEF AtRootNow
<1>2. Scalars /\ (AtRootOf(t) => page[t] = root)
  BY DEF PageInv, InTree, AtRootNow
<1>3. ASSUME NEW kind, Fault(kind) PROVE AtRootOf(t)' => page'[t] = root'
  BY <1>2, <1>3 DEF Fault, shared, AtRootOf
<1>4. ASSUME NEW code, NEW value, Return(t, code, value) PROVE ~AtRootOf(t)'
  BY <1>2, <1>4 DEF Return, Scalars, AtRootOf
<1>5. ASSUME NEW p, NEW nodes, NEW latches, Proceed(t, p, nodes, latches) PROVE ~AtRootOf(t)'
  BY <1>2, <1>4, <1>5 DEF Proceed, StepDown, StoreInLeaf, Scalars, AtRootOf
<1>6. ASSUME NEW p, NEW nodes, Stumbles(t, p, nodes) PROVE AtRootOf(t)' => page'[t] = root'
  BY <1>3, <1>6 DEF Stumbles
<1>7. CASE Call(t)
  <2>1. PICK label, k, v : Begin(t, label, k, v)
    BY <1>7 DEF Call, InsertCall, LookupCall
  <2> QED BY <1>2, <2>1 DEF Begin, Scalars, shared
<1>8. CASE Insert(t)
  <2>1. CASE InsertRoot(t)
    BY <1>5, <1>6, <2>1 DEF InsertRoot
  <2>2. CASE SplitRoot(t)
    BY <1>5, <1>6, <2>2 DEF SplitRoot
  <2>3. CASE InsertRunsOut(t)
    BY <1>4, <2>3 DEF InsertRunsOut
  <2>4. CASE SplitRootRunsOut(t)
    BY <1>4, <2>4 DEF SplitRootRunsOut
  <2>5. CASE WalkFails(t)
    BY <1>3, <2>5 DEF WalkFails
  <2>6. CASE InsertWalk(t)
    BY <1>5, <1>6, <2>6 DEF InsertWalk
  <2>7. CASE SplitChild(t)
    <3>1. \E p, nodes, latches :
            Proceed(t, p, nodes, latches) \/ Stumbles(t, p, nodes) \/ Fault("assert")
      BY <2>7, Zenon DEF SplitChild
    <3> QED BY <1>3, <1>5, <1>6, <3>1
  <2> QED BY <1>8, <2>1, <2>2, <2>3, <2>4, <2>5, <2>6, <2>7 DEF Insert
<1>9. CASE Lookup(t)
  <2>1. CASE LookupStep(t)
    BY <1>2, <1>4, <2>1 DEF LookupStep, LookupAt, Answered, Scalars, AtRootOf
  <2>2. CASE LookupRunsOut(t)
    BY <1>4, <2>2 DEF LookupRunsOut
  <2> QED BY <1>9, <2>1, <2>2 DEF Lookup
<1> QED BY <1>7, <1>8, <1>9

LEMMA AloneInvInit == Init => AloneInv
BY PageInvInit, InitTree DEF AloneInv

LEMMA AloneStep ==
  ASSUME KeysClose, Alone, PageInv, NEW w, InTree(w), NEW t \in Threads,
         Call(t) \/ Insert(t) \/ Lookup(t)
  PROVE  \E w2 \in Views : Becomes(t, w, w2) /\ InTree(w2)'
<1>1. PICK w2 \in Views : Becomes(t, w, w2)
  BY TreeStep
<1> QED BY <1>1, AloneAtRoot, TreeStays

LEMMA AloneInvNext ==
  ASSUME KeysClose, Alone, AloneInv, [Next]_vars
  PROVE  AloneInv'
<1>1. PageInv'
  BY PageInvNext DEF AloneInv
<1>2. PICK w \in Views : InTree(w)
  BY DEF AloneInv
<1>3. \E w2 \in Views : InTree(w2)'
  BY <1>2, TreeStutters, AloneStep DEF AloneInv, Next
<1> QED BY <1>1, <1>3 DEF AloneInv, InTree

LEMMA AloneInvariant ==
  ASSUME KeysClose, Alone
  PROVE  Spec => []AloneInv
BY AloneInvInit, AloneInvNext, PTL DEF Spec

\* Every step is one of the table, or changes nothing there.
LEMMA TableStep ==
  ASSUME PageInv, NEW w, TableOf(w), NEW t \in Threads, NEW w2, TableOf(w2)', Effect(t, w, w2),
         args[t].key \in Keys
  PROVE  [Table!Next]_<<Contents, answer>>
<1>1. /\ Contents = [k \in Keys |-> Contents[k]]
      /\ Contents \in [Keys -> Values \cup {NoValue}]
      /\ \A k \in Keys : \A v : Holds(node, w, k, v) <=> v # NoValue /\ Contents[k] = v
  BY DEF TableOf
<1>2. /\ Contents' = [k \in Keys |-> Contents'[k]]
      /\ Contents' \in [Keys -> Values \cup {NoValue}]
      /\ \A k \in Keys : \A v : Holds(node', w2, k, v) <=> v # NoValue /\ Contents'[k] = v
  BY DEF TableOf
<1>3. NoValue \notin Values
  BY Constants
<1>4. ASSUME SameTable(node, w, node', w2) PROVE Contents' = Contents
  <2>1. ASSUME NEW k \in Keys PROVE Contents'[k] = Contents[k]
    <3>1. \A v : (v # NoValue /\ Contents'[k] = v) <=> (v # NoValue /\ Contents[k] = v)
      BY <1>1, <1>2, <1>4 DEF SameTable
    <3>2. CASE Contents[k] # NoValue
      BY <3>1, <3>2
    <3>3. CASE Contents'[k] # NoValue
      BY <3>1, <3>3
    <3> QED BY <3>2, <3>3
  <2> QED BY <1>1, <1>2, <2>1
<1>5. \A code, value : Says(t, code, value) => Table!Answer(t, code, value)
  BY DEF Says, Table!Answer
<1>6. CASE Tells(t, node, w, w2)
  <2>1. CASE SameTable(node, w, node', w2) /\ answer' = answer
    BY <1>4, <2>1
  <2>2. CASE \E v \in Values : /\ Puts(node, w, node', w2, args[t].key, v)
                               /\ Says(t, "SUCCESS", NoValue)
    <3> DEFINE k == args[t].key
    <3>1. PICK v \in Values : Puts(node, w, node', w2, k, v) /\ Says(t, "SUCCESS", NoValue)
      BY <2>2
    <3> HIDE DEF k
    <3>0. k \in Keys
      BY DEF k
    <3>2. Contents[k] = NoValue
      BY <1>1, <3>0, <3>1 DEF Puts
    <3>3. Contents'[k] = v
      <4>1. Holds(node', w2, k, v)
        BY <3>0, <3>1 DEF Puts
      <4> QED BY <1>2, <3>0, <4>1
    <3>4. ASSUME NEW j \in Keys \ {k} PROVE Contents'[j] = Contents[j]
      <4>1. \A u : (u # NoValue /\ Contents'[j] = u) <=> (u # NoValue /\ Contents[j] = u)
        <5>1. \A u : Holds(node', w2, j, u) <=> Holds(node, w, j, u)
          BY <3>1 DEF Puts
        <5> QED BY <1>1, <1>2, <5>1
      <4>2. CASE Contents[j] # NoValue
        BY <4>1, <4>2
      <4>3. CASE Contents'[j] # NoValue
        BY <4>1, <4>3
      <4> QED BY <4>2, <4>3
    <3>5. Table!Store(t, k, v)
      BY <1>5, <3>1, <3>2, <3>3, <3>4 DEF Table!Store
    <3> QED BY <3>0, <3>1, <3>5 DEF Table!Next
  <2> QED BY <1>6, <2>1, <2>2 DEF Tells
<1>7. CASE SameTable(node, w, node', w2) /\ \E k \in Keys : Reads(t, w, k)
  <2>1. PICK k \in Keys : Reads(t, w, k)
    BY <1>7
  <2>2. Contents' = Contents
    BY <1>4, <1>7
  <2>3. CASE (\A v : ~Holds(node, w, k, v)) /\ Says(t, "ENOENT", NoValue)
    <3>1. Contents[k] = NoValue
      BY <1>1, <2>3
    <3> QED BY <1>5, <2>2, <2>3, <3>1 DEF Table!LookUp, Table!Next
  <2>4. CASE \E v : Holds(node, w, k, v) /\ Says(t, "SUCCESS", v)
    <3>1. PICK v : Holds(node, w, k, v) /\ Says(t, "SUCCESS", v)
      BY <2>4
    <3>2. Contents[k] = v /\ v # NoValue
      BY <1>1, <3>1
    <3> QED BY <1>5, <2>2, <3>1, <3>2 DEF Table!LookUp, Table!Next
  <2> QED BY <2>1, <2>3, <2>4 DEF Reads
<1>8. CASE Drops(t, w, w2)
  <2>1. \A k \in Keys : Contents'[k] \in {Contents[k], NoValue}
    <3> SUFFICES ASSUME NEW k \in Keys, Contents'[k] # NoValue PROVE Contents'[k] = Contents[k]
      OBVIOUS
    <3>1. Holds(node', w2, k, Contents'[k])
      BY <1>2
    <3>2. Holds(node, w, k, Contents'[k])
      BY <1>8, <3>1 DEF Drops
    <3> QED BY <1>1, <3>2
  <2>2. Table!RunOut(t)
    BY <1>2, <1>5, <1>8, <2>1 DEF Drops, Table!RunOut
  <2> QED BY <2>2 DEF Table!Next
<1> QED BY <1>6, <1>7, <1>8 DEF Effect

LEMMA TableNext ==
  ASSUME KeysClose, Alone, AloneInv, AloneInv', [Next]_vars
  PROVE  [Table!Next]_<<Contents, answer>>
<1>1. PICK w \in Views : InTree(w)
  BY DEF AloneInv
<1>2. PageInv /\ PageInv' /\ TableOf(w)
  BY <1>1, TreeTable DEF AloneInv
<1>3. KeysClose'
  BY DEF KeysClose
<1>4. ASSUME NEW w2 \in Views, InTree(w2)' PROVE TableOf(w2)'
  BY <1>2, <1>3, <1>4, TreeTableNext DEF Views
<1>5. CASE UNCHANGED vars
  <2>1. node' = node /\ root' = root /\ answer' = answer
    BY <1>5 DEF vars
  <2>2. InTree(w)'
    BY <1>1, <1>5, TreeStutters
  <2>3. TableOf(w)'
    BY <1>4, <2>2
  <2>4. SameTable(node, w, node', w)
    BY <2>1 DEF SameTable
  <2>5. Contents' = Contents
    BY <2>1 DEF Contents, Answers, LeafFor, Down, Child, Hit, FindPointer
  <2> QED BY <2>1, <2>5
<1>6. CASE Next
  <2>1. PICK t \in Threads : Call(t) \/ Insert(t) \/ Lookup(t)
    BY <1>6 DEF Next
  <2>2. PICK w2 \in Views : Becomes(t, w, w2) /\ InTree(w2)'
    BY <1>1, <1>2, <2>1, AloneStep
  <2>3. TableOf(w2)' /\ Effect(t, w, w2)
    BY <1>4, <2>2 DEF Becomes
  <2>4. args[t].key \in Keys
    BY <1>2 DEF PageInv, Scalars
  <2> QED BY <1>2, <2>3, <2>4, TableStep
<1> QED BY <1>5, <1>6

(***************************************************************************)
(* An insertion that succeeds is found, one that fails has added nothing,  *)
(* a look-up answers what was stored: the pages of btree.c are the table   *)
(* of TableMap, over any number of splits, for one thread that inserts no  *)
(* key twice.                                                              *)
(***************************************************************************)
THEOREM TableImplemented ==
  ASSUME KeysClose, Alone
  PROVE  Spec => ImplementsTable
<1>1. Init => Table!Init
  <2> SUFFICES ASSUME Init PROVE Table!Init
    OBVIOUS
  <2>1. PICK w \in Views : InTree(w) /\ \A k, v : ~Holds(node, w, k, v)
    BY InitTree
  <2>2. TableOf(w)
    BY <2>1, PageInvInit, TreeTable
  <2>3. \A k \in Keys : Contents[k] = NoValue
    BY <2>1, <2>2 DEF TableOf
  <2>4. Contents = [k \in Keys |-> NoValue]
    BY <2>2, <2>3 DEF TableOf
  <2> QED BY <2>4 DEF Init, Table!Init
<1>2. AloneInv /\ AloneInv' /\ [Next]_vars => [Table!Next]_<<Contents, answer>>
  BY TableNext
<1> QED BY <1>1, <1>2, AloneInvariant, PTL DEF Spec, ImplementsTable, Table!Spec
-----------------------------------------------------------------------------
(***************************************************************************)
(* One thread that inserts no key twice: the shape.                        *)
(***************************************************************************)
\* The pages of a view with their keys.
RangeOf(w, p) == [page |-> p, low |-> w.low[p], high |-> w.high[p]]

RangesOf(w) == {RangeOf(w, p) : p \in w.pages}

\* The cells of a page, from the lemmas on links.
LEMMA TreePage ==
  ASSUME Alone, PageInv, NEW w, InTree(w), NEW p \in w.pages
  PROVE  /\ p \in PageIds /\ Sound(node[p]) /\ Len(node[p].cells) \in Nat
         /\ w.low[p] \in Int /\ w.high[p] \in Int /\ w.low[p] < w.high[p]
         /\ -1 <= w.low[p] /\ w.high[p] <= Top /\ w.level[p] \in Nat
         /\ \A i \in 1 .. Len(node[p].cells) :
              /\ node[p].cells[i].key \in Nat
              /\ w.low[p] < node[p].cells[i].key /\ node[p].cells[i].key <= w.high[p]
              /\ \A j \in 1 .. Len(node[p].cells) :
                   i < j => node[p].cells[i].key < node[p].cells[j].key
<1>1. /\ p \in PageIds /\ Sound(node[p]) /\ Shape(node, next_page, root, Gone, w)
      /\ w.low[p] \in Int /\ w.high[p] \in Int /\ w.level[p] \in Nat
  BY DEF InTree, Views, PageInv, SoundPages
<1>2. /\ w.low[p] < w.high[p] /\ -1 <= w.low[p] /\ w.high[p] <= Top
      /\ Ordered(node[p], w.low[p], w.high[p])
  BY <1>1 DEF Shape, InRange
<1>3. Len(node[p].cells) \in Nat /\ \A i \in 1 .. Len(node[p].cells) : KeyAt(node[p], i) \in Nat
  BY <1>1, SoundType, KeyAtType
<1>4. \A i \in 1 .. Len(node[p].cells) : KeyAt(node[p], i) = node[p].cells[i].key
  BY DEF KeyAt
<1>5. \A i \in 1 .. Len(node[p].cells) :
        /\ w.low[p] < KeyAt(node[p], i) /\ KeyAt(node[p], i) <= w.high[p]
        /\ \A j \in 1 .. Len(node[p].cells) : i < j => KeyAt(node[p], i) < KeyAt(node[p], j)
  BY <1>2 DEF Ordered
<1> QED BY <1>1, <1>2, <1>3, <1>4, <1>5

\* A link that is for keys leads to a page of the tree.
LEMMA TreeLink ==
  ASSUME Alone, PageInv, NEW w, InTree(w), NEW p \in w.pages, ~node[p].leaf,
         NEW j \in 1 .. Len(node[p].cells) + 1,
         j \in 1 .. Len(node[p].cells) \/ LowOf(node[p], w.low[p], j) < w.high[p]
  PROVE  IsChild(node, Gone, w, p, j)
<1> DEFINE n == node[p]
<1>1. /\ Len(n.cells) \in Nat /\ w.low[p] < w.high[p]
      /\ \A i \in 1 .. Len(n.cells) :
           /\ n.cells[i].key \in Nat /\ w.low[p] < n.cells[i].key
           /\ \A h \in 1 .. Len(n.cells) : i < h => n.cells[i].key < n.cells[h].key
  BY TreePage
<1>2. Linked(node, Gone, w)
  BY DEF InTree, Shape
<1>3. Live(n, w.low[p], w.high[p], j)
  <2>1. CASE j \in 1 .. Len(n.cells)
    <3>1. j # Len(n.cells) + 1
      BY <1>1, <2>1
    <3>2. CASE j = 1
      BY <1>1, <2>1, <3>1, <3>2 DEF Live, LowOf, HighOf, KeyAt
    <3>3. CASE j # 1
      <4>1. j - 1 \in 1 .. Len(n.cells) /\ j - 1 < j
        BY <1>1, <2>1, <3>3
      <4>2. n.cells[j - 1].key < n.cells[j].key
        BY <1>1, <2>1, <4>1
      <4> QED BY <3>1, <3>3, <4>2 DEF Live, LowOf, HighOf, KeyAt
    <3> QED BY <3>2, <3>3
  <2>2. CASE j \notin 1 .. Len(n.cells)
    <3>1. j = Len(n.cells) + 1
      BY <1>1, <2>2
    <3> QED BY <2>2, <3>1 DEF Live, HighOf
  <2> QED BY <2>1, <2>2
<1> QED BY <1>2, <1>3 DEF Linked

\* The parts of a page of the tree are its children.
LEMMA PartsInTree ==
  ASSUME Alone, PageInv, NEW w, InTree(w), NEW p \in w.pages
  PROVE  /\ Parts(RangeOf(w, p)) \subseteq RangesOf(w)
         /\ Gone = {} => \A r \in Parts(RangeOf(w, p)) : w.level[r.page] + 1 = w.level[p]
<1> DEFINE n == node[p]
           lo == w.low[p]
           hi == w.high[p]
           key == [i \in 0 .. Len(n.cells) |-> IF i = 0 THEN lo ELSE n.cells[i].key]
<1>1. Len(n.cells) \in Nat /\ Sound(n)
  BY TreePage
<1>2. \A j \in 1 .. Len(n.cells) + 1 : LowOf(n, lo, j) = key[j - 1]
  <2> SUFFICES ASSUME NEW j \in 1 .. Len(n.cells) + 1 PROVE LowOf(n, lo, j) = key[j - 1]
    OBVIOUS
  <2>1. j - 1 \in 0 .. Len(n.cells) /\ (j = 1 <=> j - 1 = 0)
    BY <1>1
  <2> QED BY <2>1 DEF LowOf, KeyAt
<1>3. \A j \in 1 .. Len(n.cells) : HighOf(n, hi, j) = key[j] /\ Link(n, j) = n.cells[j].ref
  <2> SUFFICES ASSUME NEW j \in 1 .. Len(n.cells)
               PROVE  HighOf(n, hi, j) = key[j] /\ Link(n, j) = n.cells[j].ref
    OBVIOUS
  <2>1. j \in 0 .. Len(n.cells) /\ j # 0 /\ j # Len(n.cells) + 1
    BY <1>1
  <2> QED BY <2>1 DEF HighOf, KeyAt, Link
<1>4. HighOf(n, hi, Len(n.cells) + 1) = hi /\ Link(n, Len(n.cells) + 1) = n.right
  BY DEF HighOf, Link
<1> DEFINE cell(i) == [page |-> n.cells[i].ref, low |-> key[i - 1], high |-> key[i]]
           last == [page |-> n.right, low |-> key[Len(n.cells)], high |-> hi]
<1>5. Parts(RangeOf(w, p)) = IF n.leaf THEN {}
                             ELSE {cell(i) : i \in DOMAIN n.cells}
                                    \cup IF key[Len(n.cells)] < hi THEN {last} ELSE {}
  BY DEF Parts, RangeOf
<1>6. DOMAIN n.cells = 1 .. Len(n.cells)
  <2> HIDE DEF n
  <2> QED BY <1>1 DEF Sound
<1> HIDE DEF key
<1>7. ASSUME NEW r \in Parts(RangeOf(w, p))
      PROVE  r \in RangesOf(w) /\ (Gone = {} => w.level[r.page] + 1 = w.level[p])
  <2>1. ~n.leaf
    BY <1>5
  <2>2. CASE \E i \in 1 .. Len(n.cells) : r = cell(i)
    <3>1. PICK i \in 1 .. Len(n.cells) : r = cell(i)
      BY <2>2
    <3>2. i \in 1 .. Len(n.cells) + 1
      BY <1>1
    <3>3. IsChild(node, Gone, w, p, i)
      BY <2>1, <3>2, TreeLink
    <3>4. r = RangeOf(w, n.cells[i].ref) /\ n.cells[i].ref \in w.pages
      BY <1>2, <1>3, <3>1, <3>2, <3>3 DEF IsChild, RangeOf
    <3>5. Gone = {} => w.level[n.cells[i].ref] + 1 = w.level[p]
      BY <1>3, <3>3 DEF IsChild
    <3>6. r.page = n.cells[i].ref
      BY <3>1
    <3> QED BY <3>4, <3>5, <3>6 DEF RangesOf
  <2>3. CASE r = last /\ key[Len(n.cells)] < hi
    <3>1. Len(n.cells) + 1 \in 1 .. Len(n.cells) + 1 /\ (Len(n.cells) + 1) - 1 = Len(n.cells)
      BY <1>1
    <3>2. IsChild(node, Gone, w, p, Len(n.cells) + 1)
      BY <1>2, <2>1, <2>3, <3>1, TreeLink
    <3>3. r = RangeOf(w, n.right) /\ n.right \in w.pages
      BY <1>2, <1>4, <2>3, <3>1, <3>2 DEF IsChild, RangeOf
    <3>4. Gone = {} => w.level[n.right] + 1 = w.level[p]
      BY <1>4, <3>2 DEF IsChild
    <3>5. r.page = n.right
      BY <2>3
    <3> QED BY <3>3, <3>4, <3>5 DEF RangesOf
  <2> QED BY <1>5, <1>6, <2>2, <2>3
<1> QED BY <1>7

\* Going down the tree level by level stays in it.
LEMMA LevelInTree ==
  ASSUME Alone, PageInv, NEW w, InTree(w), NEW d \in 0 .. Height
  PROVE  /\ Level(d) \subseteq RangesOf(w)
         /\ Gone = {} => \A r \in Level(d) : w.level[r.page] + d = w.level[root]
<1> DEFINE n == Height
           T == RangesOf(w)
           X == SUBSET T
           first == {[page |-> root, low |-> -1, high |-> Top]}
           down(S) == UNION {Parts(r) : r \in S}
           F == [i \in 1 .. n |-> [S \in X |-> down(S)]]
           Eq(s) == s = [i \in 0 .. n |-> IF i = 0 THEN first ELSE down(s[i - 1])]
           at == CHOOSE s : Eq(s)
<1>1. n \in Nat /\ w.level[root] \in Nat
  BY LevelOfRoot
<1>2. first \in X /\ \A r \in first : r.page = root
  <2>1. root \in w.pages /\ RangeOf(w, root) = [page |-> root, low |-> -1, high |-> Top]
    BY DEF InTree, Shape, AtTop, RangeOf
  <2> QED BY <2>1 DEF RangesOf
<1>3. ASSUME NEW r \in T
      PROVE  /\ r.page \in w.pages /\ Parts(r) \subseteq T
             /\ Gone = {} => \A q \in Parts(r) : w.level[q.page] + 1 = w.level[r.page]
  <2>1. PICK p \in w.pages : r = RangeOf(w, p)
    BY DEF RangesOf
  <2>2. r.page = p
    BY <2>1 DEF RangeOf
  <2> QED BY <2>1, <2>2, PartsInTree
<1>4. \A S \in X : down(S) \in X
  BY <1>3
<1>5. Level(d) = at[d]
  BY DEF Level
<1> HIDE DEF n, T, first
<1>6. Steps(F, n, X)
  <2> HIDE DEF down, X
  <2> QED BY <1>4 DEF Steps
<1>7. PICK s : Recursion(s, n, X, first, F)
  <2> HIDE DEF F, X
  <2> QED BY <1>1, <1>2, <1>6, RecursionExists, Zenon
<1>8. s \in [0 .. n -> X] /\ s[0] = first /\ \A i \in 1 .. n : s[i] = down(s[i - 1])
  <2>1. s \in [0 .. n -> X] /\ s[0] = first /\ \A i \in 1 .. n : s[i] = F[i][s[i - 1]]
    BY <1>7 DEF Recursion
  <2>2. ASSUME NEW i \in 1 .. n PROVE s[i] = down(s[i - 1])
    <3>1. s[i - 1] \in X /\ s[i] = F[i][s[i - 1]]
      <4> HIDE DEF F, X
      <4>1. i - 1 \in 0 .. n
        BY <1>1
      <4> QED BY <2>1, <4>1
    <3> HIDE DEF down, X
    <3> QED BY <3>1
  <2> QED BY <2>1, <2>2
<1> HIDE DEF F, X
<1>9. Eq(at)
  <2>1. Eq(s)
    <3> HIDE DEF down
    <3> QED BY <1>1, <1>8
  <2> HIDE DEF Eq
  <2> QED BY <2>1
<1>10. at[d] = s[d]
  <2>1. at[0] = s[0] /\ \A i \in 1 .. n : at[i] = down(at[i - 1])
    <3> HIDE DEF at, down
    <3> QED BY <1>1, <1>8, <1>9
  <2> HIDE DEF at
  <2>2. \A i \in 1 .. n : at[i - 1] = s[i - 1] => at[i] = s[i]
    BY <1>8, <2>1
  <2>3. \A i \in 0 .. n : at[i] = s[i]
    <3> HIDE DEF down
    <3>1. n \in Nat
      BY <1>1
    <3>2. GoAlike(n, at, s)
      BY <2>1, <2>2 DEF GoAlike
    <3> HIDE DEF n
    <3> QED BY <3>1, <3>2, SumUnique, Zenon
  <2> QED BY <2>3 DEF n
<1> HIDE DEF at
<1>11. ASSUME Gone = {} PROVE \A r \in s[d] : w.level[r.page] + d = w.level[root]
  <2> DEFINE P(i) == \A r \in s[i] : w.level[r.page] + i = w.level[root]
             S == {i \in Nat : i <= n => P(i)}
  <2>1. 0 \in S
    BY <1>1, <1>2, <1>8
  <2>2. ASSUME NEW i \in Nat, i \in S PROVE i + 1 \in S
    <3> SUFFICES ASSUME i + 1 <= n, NEW r \in s[i + 1]
                 PROVE  w.level[r.page] + (i + 1) = w.level[root]
      OBVIOUS
    <3>1. i + 1 \in 1 .. n /\ i \in 0 .. n /\ (i + 1) - 1 = i /\ i + 1 \in 0 .. n
      BY <1>1
    <3>2. s[i + 1] = down(s[i]) /\ s[i] \in SUBSET T /\ s[i + 1] \in SUBSET T
      BY <1>8, <3>1 DEF X
    <3>3. PICK q \in s[i] : r \in Parts(q)
      BY <3>2
    <3>4. q \in T /\ r \in T
      BY <3>2, <3>3
    <3>5. w.level[r.page] + 1 = w.level[q.page] /\ r.page \in w.pages /\ q.page \in w.pages
      BY <1>3, <1>11, <3>3, <3>4
    <3>6. w.level[q.page] + i = w.level[root]
      BY <1>1, <2>2, <3>1, <3>3
    <3>7. w.level[r.page] \in Nat /\ w.level[q.page] \in Nat
      BY <3>5 DEF InTree, Views
    <3> QED BY <1>1, <3>5, <3>6, <3>7
  <2>3. Nat \subseteq S
    <3> HIDE DEF S
    <3> QED BY <2>1, <2>2, NatSetInduction, Zenon
  <2>4. d \in Nat /\ d <= n
    BY <1>1 DEF n
  <2> QED BY <2>3, <2>4
<1>12. s[d] \in SUBSET T
  BY <1>8 DEF n, X
<1> QED BY <1>5, <1>10, <1>11, <1>12 DEF T

\* A page is on level 0 if it is a leaf, and else above it.
LEMMA LeafLevel ==
  ASSUME Alone, PageInv, NEW w, InTree(w), Gone = {}, NEW p \in w.pages
  PROVE  node[p].leaf <=> w.level[p] = 0
<1>1. node[p].leaf => w.level[p] = 0
  BY DEF InTree, Shape, LeavesLast
<1>2. ASSUME ~node[p].leaf PROVE w.level[p] # 0
  <2>1. Len(node[p].cells) \in Nat /\ w.level[p] \in Nat /\ w.low[p] < w.high[p]
    BY TreePage
  <2>2. 1 \in 1 .. Len(node[p].cells) + 1 /\ LowOf(node[p], w.low[p], 1) < w.high[p]
    BY <2>1 DEF LowOf
  <2>3. IsChild(node, Gone, w, p, 1)
    BY <1>2, <2>2, TreeLink
  <2>4. w.level[Link(node[p], 1)] < w.level[p] /\ w.level[Link(node[p], 1)] \in Nat
    BY <2>3 DEF IsChild, InTree, Views
  <2> QED BY <2>1, <2>4
<1> QED BY <1>1, <1>2

(***************************************************************************)
(* The keys of a page are in order and between the separators over it, and *)
(* no page has two parents.                                                *)
(***************************************************************************)
THEOREM SearchTreeAlways ==
  ASSUME KeysClose, Alone
  PROVE  Spec => []SearchTree
<1>1. AloneInv => SearchTree
  <2> SUFFICES ASSUME AloneInv PROVE SearchTree
    OBVIOUS
  <2>1. PICK w \in Views : InTree(w)
    BY DEF AloneInv
  <2>2. PageInv
    BY DEF AloneInv
  <2>3. Ranges \subseteq RangesOf(w)
    BY <2>1, <2>2, LevelInTree DEF Ranges
  <2>4. ASSUME NEW r \in Ranges
        PROVE  LET cells == node[r.page].cells
               IN  \A i \in DOMAIN cells :
                     /\ cells[i].key \in (r.low + 1) .. r.high
                     /\ i > 1 => cells[i - 1].key < cells[i].key
    <3>1. PICK p \in w.pages : r = RangeOf(w, p)
      BY <2>3 DEF RangesOf
    <3>2. r.page = p /\ r.low = w.low[p] /\ r.high = w.high[p]
      BY <3>1 DEF RangeOf
    <3>3. /\ Sound(node[p]) /\ Len(node[p].cells) \in Nat
          /\ w.low[p] \in Int /\ w.high[p] \in Int
          /\ \A i \in 1 .. Len(node[p].cells) :
               /\ node[p].cells[i].key \in Nat
               /\ w.low[p] < node[p].cells[i].key /\ node[p].cells[i].key <= w.high[p]
               /\ \A j \in 1 .. Len(node[p].cells) :
                    i < j => node[p].cells[i].key < node[p].cells[j].key
      BY <2>1, <2>2, TreePage
    <3>4. DOMAIN node[p].cells = 1 .. Len(node[p].cells)
      BY <3>3 DEF Sound
    <3>5. ASSUME NEW i \in 1 .. Len(node[p].cells)
          PROVE  /\ node[p].cells[i].key \in (w.low[p] + 1) .. w.high[p]
                 /\ i > 1 => node[p].cells[i - 1].key < node[p].cells[i].key
      <4>1. node[p].cells[i].key \in (w.low[p] + 1) .. w.high[p]
        BY <3>3
      <4>2. ASSUME i > 1 PROVE node[p].cells[i - 1].key < node[p].cells[i].key
        <5>1. i - 1 \in 1 .. Len(node[p].cells) /\ i - 1 < i
          BY <3>3, <4>2
        <5> QED BY <3>3, <5>1
      <4> QED BY <4>1, <4>2
    <3> QED BY <3>2, <3>4, <3>5
  <2>5. \A q, r \in Ranges : q.page = r.page => q = r
    BY <2>3 DEF RangesOf, RangeOf
  <2> QED BY <2>4, <2>5 DEF SearchTree
<1> QED BY <1>1, AloneInvariant, PTL

(***************************************************************************)
(* All leaves are at the same depth, whichever pages have been split,      *)
(* unless a page was left.                                                 *)
(***************************************************************************)
THEOREM SameDepthAlways ==
  ASSUME KeysClose, Alone
  PROVE  Spec => []SameDepth
<1>1. AloneInv => SameDepth
  <2> SUFFICES ASSUME AloneInv, NothingLeft, NEW d \in 0 .. Height
               PROVE  Cardinality({node[r.page].leaf : r \in Level(d)}) <= 1
    BY DEF SameDepth
  <2>1. PICK w \in Views : InTree(w)
    BY DEF AloneInv
  <2>2. PageInv /\ Gone = {}
    BY DEF AloneInv, NothingLeft, Gone
  <2>3. w.level[root] \in Nat /\ Height \in Nat
    BY <2>1, <2>2, LevelOfRoot
  <2> DEFINE Kinds == {node[r.page].leaf : r \in Level(d)}
             low == w.level[root] - d = 0
  <2>4. Kinds \subseteq {low}
    <3> SUFFICES ASSUME NEW r \in Level(d) PROVE node[r.page].leaf = low
      OBVIOUS
    <3>1. r \in RangesOf(w) /\ w.level[r.page] + d = w.level[root]
      BY <2>1, <2>2, LevelInTree
    <3>2. r.page \in w.pages
      BY <3>1 DEF RangesOf, RangeOf
    <3>3. w.level[r.page] \in Nat /\ Sound(node[r.page])
      BY <2>1, <2>2, <3>2, TreePage
    <3>4. node[r.page].leaf <=> w.level[r.page] = 0
      BY <2>1, <2>2, <3>2, LeafLevel
    <3>5. node[r.page].leaf \in BOOLEAN
      BY <3>3 DEF Sound, AnyPage
    <3>6. w.level[r.page] = 0 <=> w.level[root] - d = 0
      BY <2>3, <3>1, <3>3
    <3> QED BY <3>4, <3>5, <3>6
  <2> HIDE DEF Kinds, low
  <2>5. IsFiniteSet({low}) /\ Cardinality({low}) = 1
    BY FS_Singleton, Zenon
  <2>6. Cardinality(Kinds) <= Cardinality({low})
    BY <2>4, <2>5, FS_Subset, Zenon
  <2> QED BY <2>5, <2>6 DEF Kinds
<1> QED BY <1>1, AloneInvariant, PTL

-----------------------------------------------------------------------------
(***************************************************************************)
(* The chain of the leaves.                                                *)
(***************************************************************************)
LEMMA FirstKey == Min(Keys) \in Keys /\ \A k \in Keys : Min(Keys) <= k
<1>1. Keys \in SUBSET Nat /\ Keys # {}
  BY BTreeAssumption
<1> QED BY <1>1, MinIsLeast

\* A step along the chain.
NextLeaf(p) == IF p = 0 THEN 0 ELSE node[p].right

IsChain(c) ==
  /\ c \in [0 .. MaxPages -> PageIds \cup {0}]
  /\ c[0] = LeafFor(Min(Keys))
  /\ \A d \in 1 .. MaxPages : c[d] = NextLeaf(c[d - 1])

LEMMA ChainExists ==
  ASSUME KeysClose, PageInv, NEW w, InTree(w)
  PROVE  IsChain(Chain)
<1> DEFINE n == MaxPages
           X == PageIds \cup {0}
           first == LeafFor(Min(Keys))
           F == [i \in 1 .. n |-> [p \in X |-> NextLeaf(p)]]
           Eq(s) == s = [d \in 0 .. n |-> IF d = 0 THEN first
                                          ELSE IF s[d - 1] = 0 THEN 0 ELSE node[s[d - 1]].right]
           at == CHOOSE s : Eq(s)
<1>1. n \in Nat
  BY Constants
<1>2. first \in X
  <2>1. Min(Keys) \in Keys
    BY FirstKey
  <2>2. LeafFor(Min(Keys)) \in OnWay(w, Min(Keys))
    BY <2>1, LeafForPlace
  <2> QED BY <2>2 DEF OnWay, InTree, Views
<1>3. \A p \in X : NextLeaf(p) \in X
  <2>1. \A p \in PageIds : Sound(node[p])
    BY DEF PageInv, SoundPages
  <2>2. \A p \in PageIds : node[p].right \in X
    BY <2>1, SoundType
  <2> QED BY <2>2 DEF NextLeaf
<1>4. Chain = at
  BY DEF Chain
<1> HIDE DEF n, X, first
<1>5. Steps(F, n, X)
  BY <1>3 DEF Steps
<1>6. PICK s : Recursion(s, n, X, first, F)
  <2> HIDE DEF F
  <2> QED BY <1>1, <1>2, <1>5, RecursionExists, Zenon
<1>7. s \in [0 .. n -> X] /\ s[0] = first /\ \A i \in 1 .. n : s[i] = NextLeaf(s[i - 1])
  <2>1. s \in [0 .. n -> X] /\ s[0] = first /\ \A i \in 1 .. n : s[i] = F[i][s[i - 1]]
    BY <1>6 DEF Recursion
  <2>2. ASSUME NEW i \in 1 .. n PROVE s[i] = NextLeaf(s[i - 1])
    <3>1. s[i - 1] \in X /\ s[i] = F[i][s[i - 1]]
      BY <1>1, <2>1
    <3> QED BY <3>1
  <2> QED BY <2>1, <2>2
<1>8. Eq(at)
  <2>1. Eq(s)
    BY <1>1, <1>7 DEF NextLeaf
  <2> HIDE DEF Eq
  <2> QED BY <2>1
<1>9. /\ at = [d \in 0 .. n |-> at[d]]
      /\ at[0] = first /\ \A i \in 1 .. n : at[i] = NextLeaf(at[i - 1])
  <2> HIDE DEF at
  <2> QED BY <1>1, <1>8 DEF NextLeaf
<1> HIDE DEF at
<1>10. \A i \in 0 .. n : at[i] = s[i]
  <2>1. at[0] = s[0] /\ \A i \in 1 .. n : at[i - 1] = s[i - 1] => at[i] = s[i]
    BY <1>7, <1>9
  <2>2. GoAlike(n, at, s)
    BY <2>1 DEF GoAlike
  <2>3. n \in Nat
    BY <1>1
  <2> QED BY <2>2, <2>3, SumUnique, Zenon
<1>11. at \in [0 .. n -> X]
  <2>1. \A i \in 0 .. n : at[i] \in X
    BY <1>7, <1>10
  <2> QED BY <1>9, <2>1
<1> QED BY <1>4, <1>9, <1>11 DEF IsChain, n, X, first

\* The chain goes over the leaves in the order of their keys, and leaves out
\* none of them.
ChainTo(w, c, d) ==
  /\ c[d] # 0 => /\ c[d] \in w.pages /\ node[c[d]].leaf
                 /\ \A e \in 0 .. d - 1 : c[e] # 0 /\ w.high[c[e]] <= w.low[c[d]]
  /\ \A k \in Keys : c[d] = 0 \/ k <= w.high[c[d]] =>
       \E e \in 0 .. d : c[e] # 0 /\ w.low[c[e]] < k /\ k <= w.high[c[e]]

LEMMA ChainStarts ==
  ASSUME KeysClose, PageInv, NEW w, InTree(w), NEW c, IsChain(c)
  PROVE  ChainTo(w, c, 0)
<1> DEFINE p == LeafFor(Min(Keys))
<1>1. Min(Keys) \in Keys /\ \A k \in Keys : k \in Nat /\ Min(Keys) <= k
  BY FirstKey, Constants
<1>2. p \in w.pages /\ node[p].leaf /\ w.low[p] < Min(Keys)
  BY <1>1, LeafForPlace DEF OnWay
<1>3. p \in PageIds /\ p # 0 /\ w.low[p] \in Int
  <2>1. p \in PageIds /\ w.low[p] \in Int
    BY <1>2 DEF InTree, Views
  <2> QED BY <2>1 DEF PageIds
<1> HIDE DEF p
<1>4. w.low[p] = -1
  <2> SUFFICES ASSUME w.low[p] # -1 PROVE FALSE
    OBVIOUS
  <2>1. Found(node, w, w.low[p])
    BY <1>2 DEF InTree, Shape, SeparatorsFound
  <2>2. PICK q \in w.pages : \E i \in 1 .. Len(node[q].cells) : KeyAt(node[q], i) = w.low[p]
    BY <2>1 DEF Found
  <2>3. Sound(node[q])
    BY DEF InTree, Views, PageInv, SoundPages
  <2>4. w.low[p] \in Keys
    BY <2>2, <2>3, KeyAtType
  <2> QED BY <1>1, <1>2, <1>3, <2>4
<1>5. c[0] = p
  BY DEF IsChain, p
<1>6. ASSUME NEW k \in Keys, k <= w.high[p]
      PROVE  \E e \in 0 .. 0 : c[e] # 0 /\ w.low[c[e]] < k /\ k <= w.high[c[e]]
  <2>1. w.low[p] < k
    BY <1>1, <1>4
  <2> QED BY <1>3, <1>5, <1>6, <2>1
<1>7. \A e \in 0 .. 0 - 1 : FALSE
  OBVIOUS
<1> QED BY <1>2, <1>3, <1>5, <1>6, <1>7 DEF ChainTo

LEMMA ChainGoesOn ==
  ASSUME Alone, PageInv, NEW w, InTree(w), Gone = {}, NEW c, IsChain(c),
         NEW d \in 0 .. MaxPages - 1, ChainTo(w, c, d)
  PROVE  ChainTo(w, c, d + 1)
<1> DEFINE p == c[d]
           r == c[d + 1]
<1>1. MaxPages \in Nat /\ d + 1 \in 1 .. MaxPages /\ (d + 1) - 1 = d
      /\ \A k \in Keys : k \in Nat /\ k < Top
  BY Constants, BelowTop
<1>2. r = NextLeaf(p)
  BY <1>1 DEF IsChain
<1>3. CASE p = 0
  <2>1. r = 0
    BY <1>2, <1>3 DEF NextLeaf
  <2>2. \A e \in 0 .. d : e \in 0 .. d + 1
    BY <1>1
  <2> QED BY <1>3, <2>1, <2>2 DEF ChainTo
<1>4. CASE p # 0
  <2>1. /\ p \in w.pages /\ node[p].leaf
        /\ \A e \in 0 .. d - 1 : c[e] # 0 /\ w.high[c[e]] <= w.low[p]
        /\ \A k \in Keys : k <= w.high[p] =>
             \E e \in 0 .. d : c[e] # 0 /\ w.low[c[e]] < k /\ k <= w.high[c[e]]
    BY <1>4 DEF ChainTo
  <2>2. /\ w.low[p] \in Int /\ w.high[p] \in Int /\ w.low[p] < w.high[p]
        /\ r = node[p].right
    BY <1>2, <1>4, <2>1, TreePage DEF NextLeaf
  <2>3. IF w.high[p] = Top THEN r = 0
        ELSE r \in w.pages /\ node[r].leaf /\ w.low[r] = w.high[p]
    BY <2>1, <2>2 DEF InTree, Shape, LeavesLast
  <2>4. ASSUME NEW k \in Keys, k <= w.high[p]
        PROVE  \E e \in 0 .. d + 1 : c[e] # 0 /\ w.low[c[e]] < k /\ k <= w.high[c[e]]
    <3>1. PICK e \in 0 .. d : c[e] # 0 /\ w.low[c[e]] < k /\ k <= w.high[c[e]]
      BY <2>1, <2>4
    <3>2. e \in 0 .. d + 1
      BY <1>1
    <3> QED BY <3>1, <3>2
  <2>5. CASE w.high[p] = Top
    <3>1. \A k \in Keys : k <= w.high[p]
      BY <1>1, <2>2, <2>5
    <3>2. r = 0
      BY <2>3, <2>5
    <3> QED BY <2>4, <3>1, <3>2 DEF ChainTo
  <2>6. CASE w.high[p] # Top
    <3>1. r \in w.pages /\ node[r].leaf /\ w.low[r] = w.high[p]
      BY <2>3, <2>6
    <3>2. r # 0 /\ w.high[r] \in Int
      <4>1. r \in PageIds /\ w.high[r] \in Int
        BY <3>1 DEF InTree, Views
      <4> HIDE DEF r
      <4> QED BY <4>1 DEF PageIds
    <3>3. ASSUME NEW e \in 0 .. (d + 1) - 1 PROVE c[e] # 0 /\ w.high[c[e]] <= w.low[r]
      <4>1. CASE e = d
        BY <1>4, <2>2, <3>1, <4>1
      <4>2. CASE e # d
        <5>1. e \in 0 .. d - 1
          BY <1>1, <4>2
        <5>2. c[e] # 0 /\ w.high[c[e]] <= w.low[p]
          BY <2>1, <5>1
        <5>3. w.high[c[e]] \in Int
          <6>1. e \in 0 .. MaxPages
            BY <1>1
          <6> QED BY <5>2, <6>1 DEF IsChain, InTree, Views
        <5> QED BY <2>2, <3>1, <5>2, <5>3
      <4> QED BY <4>1, <4>2
    <3>4. ASSUME NEW k \in Keys, k <= w.high[r]
          PROVE  \E e \in 0 .. d + 1 : c[e] # 0 /\ w.low[c[e]] < k /\ k <= w.high[c[e]]
      <4>1. CASE k <= w.high[p]
        BY <2>4, <4>1
      <4>2. CASE ~(k <= w.high[p])
        <5>1. w.low[r] < k
          BY <1>1, <2>2, <3>1, <4>2
        <5>2. d + 1 \in 0 .. d + 1
          BY <1>1
        <5> QED BY <3>2, <3>4, <5>1, <5>2
      <4> QED BY <4>1, <4>2
    <3> QED BY <3>1, <3>2, <3>3, <3>4 DEF ChainTo
  <2> QED BY <2>5, <2>6
<1> QED BY <1>3, <1>4

LEMMA ChainGoes ==
  ASSUME KeysClose, Alone, PageInv, NEW w, InTree(w), Gone = {}, NEW c, IsChain(c)
  PROVE  \A d \in 0 .. MaxPages : ChainTo(w, c, d)
<1> DEFINE S == {d \in Nat : d <= MaxPages => ChainTo(w, c, d)}
<1>1. MaxPages \in Nat
  BY Constants
<1>2. 0 \in S
  BY ChainStarts
<1>3. ASSUME NEW d \in Nat, d \in S PROVE d + 1 \in S
  <2> SUFFICES ASSUME d + 1 <= MaxPages PROVE ChainTo(w, c, d + 1)
    OBVIOUS
  <2>1. d \in 0 .. MaxPages - 1 /\ ChainTo(w, c, d)
    BY <1>1, <1>3
  <2> QED BY <2>1, ChainGoesOn
<1>4. Nat \subseteq S
  <2> HIDE DEF S
  <2> QED BY <1>2, <1>3, NatSetInduction, Zenon
<1> QED BY <1>1, <1>4

\* There are not so many pages that it does not end.
LEMMA ChainEnds ==
  ASSUME KeysClose, Alone, PageInv, NEW w, InTree(w), Gone = {}, NEW c, IsChain(c)
  PROVE  c[MaxPages] = 0
<1> SUFFICES ASSUME c[MaxPages] # 0 PROVE FALSE
  OBVIOUS
<1> DEFINE n == MaxPages
           D == 0 .. n
<1>1. n \in Nat /\ n \in D
  BY Constants
<1>2. \A d \in D : ChainTo(w, c, d)
  BY ChainGoes
<1>3. \A d \in D : c[d] # 0
  <2>1. \A e \in 0 .. n - 1 : c[e] # 0
    BY <1>1, <1>2 DEF ChainTo
  <2>2. \A d \in D : d = n \/ d \in 0 .. n - 1
    BY <1>1
  <2> QED BY <2>1, <2>2
<1>4. \A d \in D : c[d] \in PageIds /\ c[d] \in w.pages
  BY <1>2, <1>3 DEF ChainTo, InTree, Views
<1>5. ASSUME NEW d \in D, NEW e \in D, e < d PROVE c[e] # c[d]
  <2>1. e \in 0 .. d - 1
    BY <1>5
  <2>2. w.high[c[e]] <= w.low[c[d]]
    BY <1>2, <1>3, <2>1 DEF ChainTo
  <2>3. /\ w.low[c[d]] \in Int /\ w.high[c[d]] \in Int /\ w.low[c[d]] < w.high[c[d]]
    BY <1>4, TreePage
  <2> QED BY <2>2, <2>3
<1>6. c \in [D -> PageIds]
  BY <1>4 DEF IsChain
<1>7. \A d, e \in D : c[d] = c[e] => d = e
  <2> SUFFICES ASSUME NEW d \in D, NEW e \in D, d # e PROVE c[d] # c[e]
    OBVIOUS
  <2>1. d < e \/ e < d
    OBVIOUS
  <2> QED BY <1>5, <2>1
<1>8. c \in Injection(D, PageIds)
  BY <1>6, <1>7 DEF Injection, IsInjective
<1>9. IsFiniteSet(PageIds) /\ Cardinality(PageIds) = n
  <2>1. IsFiniteSet(1 .. n) /\ Cardinality(1 .. n) = IF 1 > n THEN 0 ELSE n - 1 + 1
    BY <1>1, 1 \in Int, n \in Int, FS_Interval
  <2> QED BY <1>1, <2>1 DEF PageIds
<1>10. IsFiniteSet(D) /\ Cardinality(D) = n + 1
  <2>1. IsFiniteSet(0 .. n) /\ Cardinality(0 .. n) = IF 0 > n THEN 0 ELSE n - 0 + 1
    BY <1>1, 0 \in Int, n \in Int, FS_Interval
  <2> QED BY <1>1, <2>1
<1> HIDE DEF D, n
<1>11. Cardinality(D) <= Cardinality(PageIds)
  BY <1>8, <1>9, FS_Injection, Zenon
<1> QED BY <1>1, <1>9, <1>10, <1>11

(***************************************************************************)
(* Who follows the links of the leaves from the leftmost one comes by      *)
(* every stored key, in ascending order, and to an end: page_split keeps   *)
(* the chain, on all levels, unless a page was left.                       *)
(***************************************************************************)
THEOREM ChainSortedAlways ==
  ASSUME KeysClose, Alone
  PROVE  Spec => []ChainSorted
<1>1. AloneInv => ChainSorted
  <2> SUFFICES ASSUME AloneInv, NothingLeft PROVE ChainSorted
    BY DEF ChainSorted
  <2> DEFINE c == Chain
             linked == {d \in 0 .. MaxPages : c[d] # 0}
  <2>1. PICK w \in Views : InTree(w)
    BY DEF AloneInv
  <2>2. PageInv /\ Gone = {}
    BY DEF AloneInv, NothingLeft, Gone
  <2>3. IsChain(c)
    BY <2>1, <2>2, ChainExists
  <2> HIDE DEF c
  <2>4. \A d \in 0 .. MaxPages : ChainTo(w, c, d)
    BY <2>1, <2>2, <2>3, ChainGoes
  <2>5. c[MaxPages] = 0 /\ MaxPages \in 0 .. MaxPages
    BY <2>1, <2>2, <2>3, ChainEnds, Constants
  <2>6. ASSUME NEW d \in linked
        PROVE  LET n == node[c[d]]
               IN  /\ c[d] \in w.pages /\ c[d] \in PageIds /\ n.leaf /\ Sound(n)
                   /\ Len(n.cells) \in Nat /\ DOMAIN n.cells = 1 .. Len(n.cells)
                   /\ w.low[c[d]] \in Int /\ w.high[c[d]] \in Int
                   /\ \A i \in 1 .. Len(n.cells) :
                        /\ n.cells[i].key \in Nat /\ n.cells[i].key \in Keys
                        /\ w.low[c[d]] < n.cells[i].key /\ n.cells[i].key <= w.high[c[d]]
                        /\ \A j \in 1 .. Len(n.cells) :
                             i < j => n.cells[i].key < n.cells[j].key
    <3>1. c[d] \in w.pages /\ node[c[d]].leaf
      BY <2>4 DEF ChainTo
    <3>2. /\ c[d] \in PageIds /\ Sound(node[c[d]]) /\ Len(node[c[d]].cells) \in Nat
          /\ w.low[c[d]] \in Int /\ w.high[c[d]] \in Int
          /\ \A i \in 1 .. Len(node[c[d]].cells) :
               /\ node[c[d]].cells[i].key \in Nat
               /\ w.low[c[d]] < node[c[d]].cells[i].key
               /\ node[c[d]].cells[i].key <= w.high[c[d]]
               /\ \A j \in 1 .. Len(node[c[d]].cells) :
                    i < j => node[c[d]].cells[i].key < node[c[d]].cells[j].key
      BY <2>1, <2>2, <3>1, TreePage
    <3>3. DOMAIN node[c[d]].cells = 1 .. Len(node[c[d]].cells)
      BY <3>2 DEF Sound
    <3>4. \A i \in 1 .. Len(node[c[d]].cells) : node[c[d]].cells[i].key \in Keys
      BY <3>2, KeyAtType DEF KeyAt
    <3> QED BY <3>1, <3>2, <3>3, <3>4
  <2>7. \A d \in linked : \A i \in 2 .. Len(node[c[d]].cells) :
          node[c[d]].cells[i - 1].key < node[c[d]].cells[i].key
    <3> SUFFICES ASSUME NEW d \in linked, NEW i \in 2 .. Len(node[c[d]].cells)
                 PROVE  node[c[d]].cells[i - 1].key < node[c[d]].cells[i].key
      OBVIOUS
    <3>1. /\ i \in 1 .. Len(node[c[d]].cells) /\ i - 1 \in 1 .. Len(node[c[d]].cells)
          /\ i - 1 < i
      BY <2>6
    <3> QED BY <2>6, <3>1
  <2>8. \A d, e \in linked : d < e =>
          \A j \in KeysOn(c[d]), k \in KeysOn(c[e]) : j < k
    <3> SUFFICES ASSUME NEW d \in linked, NEW e \in linked, d < e,
                        NEW j \in KeysOn(c[d]), NEW k \in KeysOn(c[e])
                 PROVE  j < k
      OBVIOUS
    <3>1. d \in 0 .. e - 1
      OBVIOUS
    <3>2. w.high[c[d]] <= w.low[c[e]]
      BY <2>4, <3>1 DEF ChainTo
    <3>3. j \in Nat /\ j <= w.high[c[d]] /\ w.high[c[d]] \in Int
      BY <2>6 DEF KeysOn
    <3>4. k \in Nat /\ w.low[c[e]] < k /\ w.low[c[e]] \in Int
      BY <2>6 DEF KeysOn
    <3> QED BY <3>2, <3>3, <3>4
  <2>9. ASSUME NEW d \in linked, NEW k \in KeysOn(c[d]) PROVE k \in Keys /\ Stored(k)
    <3>1. PICK i \in DOMAIN node[c[d]].cells : k = node[c[d]].cells[i].key
      BY DEF KeysOn
    <3> QED BY <2>6, <3>1 DEF Stored, NothingLeft
  <2>10. ASSUME NEW k \in Keys, Stored(k) PROVE \E d \in linked : k \in KeysOn(c[d])
    <3>1. /\ Shape(node, next_page, root, Gone, w) /\ k \in Nat
          /\ \A p \in PageIds : Sound(node[p])
      BY <2>1, <2>2, Constants DEF InTree, PageInv, SoundPages
    <3>2. (\E p \in PageIds : /\ node[p].leaf /\ p \notin Gone
                              /\ \E i \in DOMAIN node[p].cells : node[p].cells[i].key = k)
            <=> StoredIn(node, Gone, k)
      BY <3>1, StoredIs
    <3>3. Found(node, w, k)
      BY <2>10, <3>1, <3>2, StoredFoundIn DEF Stored, Gone
    <3>4. PICK q \in w.pages :
            /\ node[q].leaf /\ w.low[q] < k /\ k <= w.high[q]
            /\ \E i \in 1 .. Len(node[q].cells) : KeyAt(node[q], i) = k
      BY <3>3 DEF Found
    <3>5. PICK d \in 0 .. MaxPages : c[d] # 0 /\ w.low[c[d]] < k /\ k <= w.high[c[d]]
      BY <2>4, <2>5 DEF ChainTo
    <3>6. d \in linked
      BY <3>5
    <3>7. w.low[q] \in Int /\ w.high[q] \in Int
      BY <2>1, <2>2, TreePage
    <3>8. q = c[d]
      <4>1. LeavesApart(node, w)
        BY <3>1 DEF Shape
      <4>2. c[d] \in w.pages /\ node[c[d]].leaf /\ w.low[c[d]] \in Int /\ w.high[c[d]] \in Int
        BY <2>6, <3>6
      <4> QED BY <3>1, <3>4, <3>5, <3>7, <4>1, <4>2 DEF LeavesApart
    <3>9. k \in KeysOn(c[d])
      BY <2>6, <3>4, <3>6, <3>8 DEF KeysOn, KeyAt
    <3> QED BY <3>6, <3>9
  <2> HIDE DEF linked
  <2>11. UNION {KeysOn(c[d]) : d \in linked} = {k \in Keys : Stored(k)}
    BY <2>9, <2>10
  <2> QED BY <2>5, <2>7, <2>8, <2>11 DEF ChainSorted, c, linked
<1> QED BY <1>1, AloneInvariant, PTL

=============================================================================
