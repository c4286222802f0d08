-------------------------- MODULE BTreePageProofs ---------------------------
(***************************************************************************)
(* Proofs about module BTree: its pages and its latches, for any number of *)
(* threads, keys and pages.  Every page is sound - its header says what    *)
(* its cells take -, through page_compact, page_split and the three ways   *)
(* to insert a cell; a call holds the one page it stands on; calls do not  *)
(* all wait for each other; and what the check for room leaves out.  The   *)
(* tree that the pages make is in module BTreeShapeProofs.                 *)
(***************************************************************************)
EXTENDS BTreeProperties, Induction, SequenceTheorems

-----------------------------------------------------------------------------
(***************************************************************************)
(* The bytes of a page.                                                    *)
(***************************************************************************)
CellType(leaf) == [key : Keys, ref : IF leaf THEN Values ELSE PageIds]

\* What the assumption on the constants says, in parts.
LEMMA Constants ==
  /\ KeyBytes \in [Keys -> Nat \ {0}]
  /\ ValueBytes \in [Values -> Nat \ {0}]
  /\ PageSize \in Nat
  /\ MaxPages \in Nat \ {0}
  /\ Threads # {} /\ NoThread \notin Threads
  /\ NoValue \notin Values
  /\ Keys # {} /\ Keys \subseteq Nat
  /\ Offered \subseteq Keys \X Values
  /\ IntSize \in Nat \ {0}
  /\ Clears \in BOOLEAN
BY BTreeAssumption

\* There is a key.
LEMMA AnyKeyType == AnyKey \in Keys
BY Constants, Zenon DEF AnyKey

\* A cell takes a positive number of bytes.
LEMMA CellBytesType ==
  ASSUME NEW leaf \in BOOLEAN, NEW c \in CellType(leaf)
  PROVE  CellBytes(leaf, c.key, c.ref) \in Nat
<1>1. KeyBytes \in [Keys -> Nat \ {0}] /\ ValueBytes \in [Values -> Nat \ {0}]
  BY Constants
<1> QED BY <1>1 DEF CellType, CellBytes, IdBytes

\* Two cells fit a page.
LEMMA TwoCellsFit ==
  ASSUME NEW leaf \in BOOLEAN, NEW c \in CellType(leaf)
  PROVE  2 * (CellBytes(leaf, c.key, c.ref) + PointerBytes) <= PageSize - HeaderBytes
<1>1. CASE leaf
  <2>1. c.key \in Keys /\ c.ref \in Values
    BY <1>1 DEF CellType
  <2>2. 2 * (KeyBytes[c.key] + ValueBytes[c.ref] + PointerBytes) <= PageSize - HeaderBytes
    BY <2>1, BTreeAssumption
  <2>3. CellBytes(leaf, c.key, c.ref) = KeyBytes[c.key] + ValueBytes[c.ref]
    BY <1>1 DEF CellBytes
  <2> QED BY <2>2, <2>3
<1>2. CASE ~leaf
  <2>1. c.key \in Keys
    BY <1>2 DEF CellType
  <2>2. 2 * (KeyBytes[c.key] + IdBytes + PointerBytes) <= PageSize - HeaderBytes
    BY <2>1, BTreeAssumption
  <2>3. CellBytes(leaf, c.key, c.ref) = KeyBytes[c.key] + IdBytes
    BY <1>2 DEF CellBytes
  <2> QED BY <2>2, <2>3
<1> QED BY <1>1, <1>2

(***************************************************************************)
(* The sums that PayloadBytes is the last of: up to each cell.             *)
(***************************************************************************)
IsSum(s, leaf, cells) ==
  /\ s \in [0 .. Len(cells) -> Nat]
  /\ s[0] = 0
  /\ \A i \in 1 .. Len(cells) :
       s[i] = s[i - 1] + CellBytes(leaf, cells[i].key, cells[i].ref)

\* PayloadBytes is the last of the sums.
LEMMA PayloadSum ==
  ASSUME NEW leaf \in BOOLEAN, NEW cells \in Seq(CellType(leaf))
  PROVE  \E s : IsSum(s, leaf, cells) /\ PayloadBytes(leaf, cells) = s[Len(cells)]
<1> DEFINE n == Len(cells)
           c(i) == CellBytes(leaf, cells[i].key, cells[i].ref)
           Eq(s) == s = [i \in 0 .. n |-> IF i = 0 THEN 0 ELSE s[i - 1] + c(i)]
           sum == CHOOSE s : Eq(s)
           w == [i \in 1 .. n |-> c(i)]
<1>1. n \in Nat /\ \A i \in 1 .. n : c(i) \in Nat
  <2>1. ASSUME NEW i \in 1 .. n PROVE cells[i] \in CellType(leaf)
    OBVIOUS
  <2>2. n \in Nat
    OBVIOUS
  <2> HIDE DEF n
  <2> QED BY <2>1, <2>2, CellBytesType
<1>2. w \in [1 .. n -> Nat] /\ \A i \in 1 .. n : w[i] = c(i)
  <2> HIDE DEF c, n
  <2> QED BY <1>1
<1>3. PICK s : s \in [0 .. n -> Nat] /\ s[0] = 0 /\ \A i \in 1 .. n : s[i] = s[i - 1] + w[i]
  <2> HIDE DEF w, n
  <2> QED BY <1>1, <1>2, SumExists, Zenon
<1>4. Eq(s)
  <2> HIDE DEF n, c, w
  <2> QED BY <1>1, <1>2, <1>3
<1>5. Eq(sum)
  <2> HIDE DEF Eq
  <2> QED BY <1>4
<1>6. PayloadBytes(leaf, cells) = sum[n]
  BY DEF PayloadBytes
<1>7. sum[n] = s[n]
  <2> HIDE DEF sum, n, c, w
  <2>1. sum[0] = s[0]
    BY <1>1, <1>3, <1>5
  <2>2. \A i \in 1 .. n : sum[i - 1] = s[i - 1] => sum[i] = s[i]
    BY <1>1, <1>2, <1>3, <1>5
  <2>3. \A i \in 0 .. n : sum[i] = s[i]
    <3>1. n \in Nat
      BY <1>1
    <3> HIDE DEF Eq
    <3>2. GoAlike(n, sum, s)
      BY <2>1, <2>2, Zenon DEF GoAlike
    <3> QED BY <3>1, <3>2, SumUnique, Zenon
  <2> QED BY <1>1, <2>3
<1> HIDE DEF sum, w
<1> QED BY <1>2, <1>3, <1>6, <1>7 DEF IsSum

\* Two sums of the same weights are one.
LEMMA PayloadIs ==
  ASSUME NEW leaf \in BOOLEAN, NEW cells \in Seq(CellType(leaf)),
         NEW z, IsSum(z, leaf, cells)
  PROVE  PayloadBytes(leaf, cells) = z[Len(cells)]
<1>1. PICK s : IsSum(s, leaf, cells) /\ PayloadBytes(leaf, cells) = s[Len(cells)]
  BY PayloadSum
<1> DEFINE n == Len(cells)
<1>2. n \in Nat
  OBVIOUS
<1> HIDE DEF n
<1>3. s[0] = z[0] /\ \A i \in 1 .. n : s[i - 1] = z[i - 1] => s[i] = z[i]
  BY <1>1 DEF IsSum, n
<1>4. \A i \in 0 .. n : s[i] = z[i]
  <2>1. GoAlike(n, s, z)
    BY <1>3, Zenon DEF GoAlike
  <2> QED BY <1>2, <2>1, SumUnique, Zenon
<1> QED BY <1>1, <1>2, <1>4 DEF n

\* The cells of a page take a number of bytes ...
LEMMA PayloadType ==
  ASSUME NEW leaf \in BOOLEAN, NEW cells \in Seq(CellType(leaf))
  PROVE  PayloadBytes(leaf, cells) \in Nat
<1>1. PICK s : IsSum(s, leaf, cells) /\ PayloadBytes(leaf, cells) = s[Len(cells)]
  BY PayloadSum
<1>2. Len(cells) \in Nat
  OBVIOUS
<1> QED BY <1>1, <1>2 DEF IsSum

\* ... none when there are none ...
LEMMA PayloadEmpty ==
  ASSUME NEW leaf \in BOOLEAN
  PROVE  PayloadBytes(leaf, <<>>) = 0
<1>1. <<>> \in Seq(CellType(leaf)) /\ Len(<<>>) = 0
  OBVIOUS
<1>2. PICK s : IsSum(s, leaf, <<>>) /\ PayloadBytes(leaf, <<>>) = s[Len(<<>>)]
  BY <1>1, PayloadSum
<1> QED BY <1>1, <1>2 DEF IsSum

\* ... and one takes what it takes.
LEMMA PayloadOne ==
  ASSUME NEW leaf \in BOOLEAN, NEW cells \in Seq(CellType(leaf)), Len(cells) = 1
  PROVE  PayloadBytes(leaf, cells) = CellBytes(leaf, cells[1].key, cells[1].ref)
<1>1. PICK s : IsSum(s, leaf, cells) /\ PayloadBytes(leaf, cells) = s[Len(cells)]
  BY PayloadSum
<1>2. s[0] = 0 /\ s[1] = s[1 - 1] + CellBytes(leaf, cells[1].key, cells[1].ref)
  BY <1>1 DEF IsSum
<1>3. CellBytes(leaf, cells[1].key, cells[1].ref) \in Nat
  <2>1. cells[1] \in CellType(leaf)
    <3>1. 1 \in 1 .. Len(cells)
      OBVIOUS
    <3> QED BY <3>1, ElementOfSeq
  <2> QED BY <2>1, CellBytesType
<1> QED BY <1>1, <1>2, <1>3

\* The cells in front of a place take no more than all of them, and those behind
\* it take the rest.
LEMMA PayloadSplit ==
  ASSUME NEW leaf \in BOOLEAN, NEW cells \in Seq(CellType(leaf)),
         NEW m \in 0 .. Len(cells)
  PROVE  PayloadBytes(leaf, SubSeq(cells, 1, m))
           + PayloadBytes(leaf, SubSeq(cells, m + 1, Len(cells)))
           = PayloadBytes(leaf, cells)
<1>1. PICK s : IsSum(s, leaf, cells) /\ PayloadBytes(leaf, cells) = s[Len(cells)]
  BY PayloadSum
<1> DEFINE n == Len(cells)
           a == SubSeq(cells, 1, m)
           b == SubSeq(cells, m + 1, n)
           sa == [i \in 0 .. m |-> s[i]]
           sb == [i \in 0 .. n - m |-> s[m + i] - s[m]]
<1>2. /\ n \in Nat /\ m \in Nat /\ m <= n
      /\ s \in [0 .. n -> Nat] /\ s[0] = 0
      /\ \A i \in 1 .. n : s[i] = s[i - 1] + CellBytes(leaf, cells[i].key, cells[i].ref)
  BY <1>1 DEF IsSum
<1>3. /\ a \in Seq(CellType(leaf)) /\ Len(a) = m /\ \A i \in 1 .. m : a[i] = cells[i]
      /\ b \in Seq(CellType(leaf)) /\ Len(b) = n - m
      /\ \A i \in 1 .. n - m : b[i] = cells[m + i]
  OBVIOUS
<1>c. \A i \in 1 .. n : CellBytes(leaf, cells[i].key, cells[i].ref) \in Nat
  <2>1. \A i \in 1 .. n : cells[i] \in CellType(leaf)
    OBVIOUS
  <2> QED BY <2>1, CellBytesType
<1> HIDE DEF n, a, b
<1>4. IsSum(sa, leaf, a)
  <2>1. /\ sa \in [0 .. m -> Nat] /\ sa[0] = 0
        /\ \A i \in 1 .. m : sa[i] = s[i] /\ sa[i - 1] = s[i - 1]
    <3>1. \A i \in 0 .. m : s[i] \in Nat
      BY <1>2
    <3> QED BY <1>2, <3>1
  <2> HIDE DEF sa
  <2>2. ASSUME NEW i \in 1 .. m
        PROVE  sa[i] = sa[i - 1] + CellBytes(leaf, a[i].key, a[i].ref)
    <3>1. i \in 1 .. n
      BY <1>2
    <3>2. s[i] = s[i - 1] + CellBytes(leaf, cells[i].key, cells[i].ref)
      BY <1>2, <3>1
    <3> QED BY <1>3, <2>1, <3>2
  <2> QED BY <1>3, <2>1, <2>2 DEF IsSum
<1>5. IsSum(sb, leaf, b)
  <2>1. \A i \in 0 .. n - m : s[m + i] >= s[m]
    <3> DEFINE S == {i \in Nat : i <= n - m => s[m + i] >= s[m]}
    <3>1. 0 \in S
      BY <1>2
    <3>2. ASSUME NEW i \in Nat, i \in S PROVE i + 1 \in S
      <4> SUFFICES ASSUME i + 1 <= n - m PROVE s[m + (i + 1)] >= s[m]
        OBVIOUS
      <4>1. /\ m + (i + 1) \in 1 .. n /\ (m + (i + 1)) - 1 = m + i
            /\ m + i \in 0 .. n /\ s[m + i] >= s[m]
        BY <1>2, <3>2
      <4>2. s[m + (i + 1)] = s[m + i] + CellBytes(leaf, cells[m + (i + 1)].key, cells[m + (i + 1)].ref)
        BY <1>2, <4>1
      <4> QED BY <1>2, <1>c, <4>1, <4>2
    <3> HIDE DEF S
    <3>3. Nat \subseteq S
      BY <3>1, <3>2, NatSetInduction, Zenon
    <3>4. ASSUME NEW i \in 0 .. n - m PROVE i \in S
      BY <1>2, <3>3
    <3>5. \A i \in Nat : i \in S /\ i <= n - m => s[m + i] >= s[m]
      BY DEF S
    <3>6. ASSUME NEW i \in 0 .. n - m PROVE s[m + i] >= s[m]
      <4>1. i \in Nat /\ i <= n - m
        BY <1>2
      <4> QED BY <4>1, <3>4, <3>5
    <3> QED BY <3>6
  <2>2. sb \in [0 .. n - m -> Nat] /\ sb[0] = 0
    <3>1. s[m] \in Nat /\ \A i \in 0 .. n - m : m + i \in 0 .. n /\ s[m + i] \in Nat
      BY <1>2
    <3>2. \A i \in 0 .. n - m : s[m + i] - s[m] \in Nat
      BY <2>1, <3>1
    <3>3. s[m + 0] - s[m] = 0 /\ 0 \in 0 .. n - m
      BY <1>2, <3>1
    <3> QED BY <3>2, <3>3
  <2>3. ASSUME NEW i \in 1 .. n - m
        PROVE  sb[i] = sb[i - 1] + CellBytes(leaf, b[i].key, b[i].ref)
    <3>1. /\ m + i \in 1 .. n /\ (m + i) - 1 = m + (i - 1)
          /\ i \in 0 .. n - m /\ i - 1 \in 0 .. n - m /\ b[i] = cells[m + i]
      BY <1>2, <1>3
    <3>2. s[m + i] = s[m + (i - 1)] + CellBytes(leaf, b[i].key, b[i].ref)
      BY <1>2, <3>1
    <3>3. sb[i] = s[m + i] - s[m] /\ sb[i - 1] = s[m + (i - 1)] - s[m]
      BY <3>1
    <3>4. /\ s[m + (i - 1)] \in Nat /\ s[m] \in Nat
          /\ CellBytes(leaf, b[i].key, b[i].ref) \in Nat
      BY <1>2, <1>c, <3>1
    <3> HIDE DEF sb
    <3> QED BY <3>2, <3>3, <3>4
  <2> HIDE DEF sb
  <2> QED BY <1>3, <2>2, <2>3 DEF IsSum
<1>6. PayloadBytes(leaf, a) = sa[m] /\ PayloadBytes(leaf, b) = sb[n - m]
  <2> HIDE DEF sa, sb
  <2> QED BY <1>3, <1>4, <1>5, PayloadIs
<1>7. sa[m] = s[m] /\ sb[n - m] = s[n] - s[m] /\ PayloadBytes(leaf, cells) = s[n]
  BY <1>1, <1>2 DEF n
<1> HIDE DEF sa, sb
<1>8. s[m] \in Nat /\ s[n] \in Nat
  BY <1>2
<1> QED BY <1>6, <1>7, <1>8 DEF a, b, n

\* A cell more takes its bytes, wherever it is put.
LEMMA PayloadInsert ==
  ASSUME NEW leaf \in BOOLEAN, NEW cells \in Seq(CellType(leaf)),
         NEW i \in 1 .. Len(cells) + 1, NEW c \in CellType(leaf)
  PROVE  PayloadBytes(leaf, InsertAt(cells, i, c))
           = PayloadBytes(leaf, cells) + CellBytes(leaf, c.key, c.ref)
<1>1. PICK s : IsSum(s, leaf, cells) /\ PayloadBytes(leaf, cells) = s[Len(cells)]
  BY PayloadSum
<1> DEFINE n == Len(cells)
           a == InsertAt(cells, i, c)
           z == CellBytes(leaf, c.key, c.ref)
           sa == [j \in 0 .. n + 1 |-> IF j < i THEN s[j] ELSE s[j - 1] + z]
<1>2. /\ n \in Nat /\ i \in 1 .. n + 1
      /\ s \in [0 .. n -> Nat] /\ s[0] = 0
      /\ \A j \in 1 .. n : s[j] = s[j - 1] + CellBytes(leaf, cells[j].key, cells[j].ref)
  BY <1>1 DEF IsSum
<1>3. /\ a \in Seq(CellType(leaf)) /\ Len(a) = n + 1
      /\ \A j \in 1 .. n + 1 :
           a[j] = IF j < i THEN cells[j] ELSE IF j = i THEN c ELSE cells[j - 1]
  BY InsertAtPlaces
<1>4. z \in Nat
  BY CellBytesType
<1> HIDE DEF n, a, z
<1>5. IsSum(sa, leaf, a)
  <2>1. sa \in [0 .. n + 1 -> Nat] /\ sa[0] = 0
    <3>1. \A j \in 0 .. n + 1 : j < i => j \in 0 .. n
      BY <1>2
    <3>2. \A j \in 0 .. n + 1 : ~(j < i) => j - 1 \in 0 .. n
      BY <1>2
    <3>3. \A j \in 0 .. n : s[j] \in Nat
      BY <1>2
    <3>4. \A j \in 0 .. n + 1 : (IF j < i THEN s[j] ELSE s[j - 1] + z) \in Nat
      BY <1>4, <3>1, <3>2, <3>3
    <3>5. 0 \in 0 .. n + 1 /\ 0 < i
      BY <1>2
    <3> QED BY <1>2, <3>4, <3>5
  <2>2. ASSUME NEW j \in 1 .. n + 1
        PROVE  sa[j] = sa[j - 1] + CellBytes(leaf, a[j].key, a[j].ref)
    <3>1. CASE j < i
      <4>1. sa[j] = s[j] /\ sa[j - 1] = s[j - 1] /\ a[j] = cells[j] /\ j \in 1 .. n
        BY <1>2, <1>3, <3>1
      <4> HIDE DEF sa
      <4> QED BY <1>2, <4>1
    <3>2. CASE j = i
      <4>1. sa[j] = s[j - 1] + z /\ sa[j - 1] = s[j - 1] /\ a[j] = c
        BY <1>2, <1>3, <3>2
      <4> HIDE DEF sa
      <4> QED BY <4>1 DEF z
    <3>3. CASE j > i
      <4>1. /\ sa[j] = s[j - 1] + z /\ sa[j - 1] = s[j - 2] + z
            /\ a[j] = cells[j - 1] /\ j - 1 \in 1 .. n
            /\ (j - 1) - 1 = j - 2 /\ j - 2 \in 0 .. n /\ j - 1 \in 0 .. n
        <5>1. /\ j - 1 \in 1 .. n /\ (j - 1) - 1 = j - 2 /\ j - 2 \in 0 .. n
              /\ j - 1 \in 0 .. n /\ j \in 0 .. n + 1 /\ j - 1 \in 0 .. n + 1
              /\ ~(j < i) /\ ~(j - 1 < i) /\ j # i
          BY <1>2, <3>3
        <5>2. a[j] = cells[j - 1]
          BY <1>3, <5>1
        <5>3. sa[j] = s[j - 1] + z
          BY <5>1
        <5>4. sa[j - 1] = s[j - 2] + z
          BY <5>1
        <5> QED BY <5>1, <5>2, <5>3, <5>4
      <4>2. s[j - 1] = s[j - 2] + CellBytes(leaf, a[j].key, a[j].ref)
        BY <1>2, <4>1
      <4>3. CellBytes(leaf, a[j].key, a[j].ref) \in Nat
        <5>1. a[j] \in CellType(leaf)
          BY <1>2, <1>3
        <5> QED BY <5>1, CellBytesType
      <4>4. s[j - 2] \in Nat
        BY <1>2, <4>1
      <4> HIDE DEF sa
      <4> QED BY <1>4, <4>1, <4>2, <4>3, <4>4
    <3> QED BY <1>2, <3>1, <3>2, <3>3
  <2> HIDE DEF sa
  <2> QED BY <1>3, <2>1, <2>2 DEF IsSum
<1>6. PayloadBytes(leaf, a) = sa[n + 1]
  <2> HIDE DEF sa
  <2> QED BY <1>3, <1>5, PayloadIs
<1>7. sa[n + 1] = s[n] + z
  BY <1>2
<1> QED BY <1>1, <1>6, <1>7 DEF a, n, z

\* An inner cell takes the same bytes whatever page it leads to.
LEMMA PayloadRedirected ==
  ASSUME NEW cells \in Seq(CellType(FALSE)), NEW i \in 1 .. Len(cells), NEW p \in PageIds
  PROVE  /\ [cells EXCEPT ![i].ref = p] \in Seq(CellType(FALSE))
         /\ PayloadBytes(FALSE, [cells EXCEPT ![i].ref = p]) = PayloadBytes(FALSE, cells)
<1> DEFINE a == [cells EXCEPT ![i].ref = p]
<1>1. PICK s : IsSum(s, FALSE, cells) /\ PayloadBytes(FALSE, cells) = s[Len(cells)]
  BY PayloadSum
<1>2. \A j \in 1 .. Len(cells) : cells[j] \in CellType(FALSE)
  BY ElementOfSeq
<1>3. /\ a \in Seq(CellType(FALSE)) /\ Len(a) = Len(cells)
      /\ \A j \in 1 .. Len(cells) : a[j].key = cells[j].key
  <2>1. [cells[i] EXCEPT !.ref = p] \in CellType(FALSE)
    BY <1>2 DEF CellType
  <2> DEFINE e == [cells[i] EXCEPT !.ref = p]
  <2>0. a = [cells EXCEPT ![i] = e]
    OBVIOUS
  <2>2. /\ a \in Seq(CellType(FALSE)) /\ Len(a) = Len(cells)
        /\ \A j \in 1 .. Len(cells) :
             a[j] = IF j = i THEN e ELSE cells[j]
    <3> HIDE DEF a, e
    <3>1. e \in CellType(FALSE)
      BY <2>1 DEF e
    <3> DEFINE S == CellType(FALSE)
    <3>3. cells \in Seq(S) /\ i \in 1 .. Len(cells) /\ e \in S
      BY <3>1
    <3> HIDE DEF S
    <3>2. /\ [cells EXCEPT ![i] = e] \in Seq(S)
          /\ Len([cells EXCEPT ![i] = e]) = Len(cells)
          /\ \A j \in 1 .. Len(cells) :
               [cells EXCEPT ![i] = e][j] = IF j = i THEN e ELSE cells[j]
      BY <3>3, ExceptSeq
    <3> USE DEF S
    <3> QED BY <2>0, <3>2
  <2>3. [cells[i] EXCEPT !.ref = p].key = cells[i].key
    BY <1>2 DEF CellType
  <2> HIDE DEF a
  <2> QED BY <2>2, <2>3
<1> HIDE DEF a
<1>4. IsSum(s, FALSE, a)
  BY <1>1, <1>3 DEF IsSum, CellBytes
<1>5. PayloadBytes(FALSE, a) = s[Len(a)]
  BY <1>3, <1>4, PayloadIs
<1> QED BY <1>1, <1>3, <1>5 DEF a

-----------------------------------------------------------------------------
(***************************************************************************)
(* Pages whose header says what their cells take.                          *)
(***************************************************************************)
PageType(leaf) ==
  [leaf : {leaf}, cells : Seq(CellType(leaf)), right : PageIds \cup {0},
   start : Int, free : Int]

\* A page whose header says what its cells take.
Sound(n) ==
  /\ n.leaf \in BOOLEAN
  /\ n \in PageType(n.leaf)
  /\ ~n.leaf => n.right \in PageIds
  /\ n.start = PageSize - PayloadBytes(n.leaf, n.cells)
  /\ n.free = Space(n)
  /\ n.free >= 0

\* page_compact makes a page sound whose cells fit.
LEMMA CompactSound ==
  ASSUME NEW leaf \in BOOLEAN, NEW n \in PageType(leaf),
         ~leaf => n.right \in PageIds,
         PayloadBytes(leaf, n.cells) + PointerBytes * Len(n.cells)
           <= PageSize - HeaderBytes
  PROVE  /\ Sound(Compact(n))
         /\ Compact(n).leaf = leaf
         /\ Compact(n).cells = n.cells
         /\ Compact(n).right = n.right
<1>1. /\ n.leaf = leaf /\ n.cells \in Seq(CellType(leaf)) /\ n.right \in PageIds \cup {0}
      /\ Len(n.cells) \in Nat
  BY DEF PageType
<1>2. PayloadBytes(leaf, n.cells) \in Nat /\ PageSize \in Nat
  BY <1>1, PayloadType, Constants
<1> DEFINE m == Compact(n)
           start == PageSize - PayloadBytes(leaf, n.cells)
           free == start - HeaderBytes - PointerBytes * Len(n.cells)
<1>3. start \in Int /\ free \in Int /\ free >= 0
  BY <1>1, <1>2 DEF HeaderBytes, PointerBytes
<1>4. m = [n EXCEPT !.start = start, !.free = free]
  BY <1>1 DEF Compact
<1> HIDE DEF m, start, free
<1>5. /\ m \in PageType(leaf) /\ m.leaf = leaf /\ m.cells = n.cells
      /\ m.right = n.right /\ m.start = start /\ m.free = free
  BY <1>1, <1>3, <1>4 DEF PageType
<1> QED BY <1>1, <1>3, <1>5 DEF Sound, Space, start, free, m

\* What a sound page is, field by field.
LEMMA SoundType ==
  ASSUME NEW n, Sound(n)
  PROVE  /\ n.leaf \in BOOLEAN /\ n \in PageType(n.leaf)
         /\ n.cells \in Seq(CellType(n.leaf)) /\ Len(n.cells) \in Nat
         /\ \A i \in 1 .. Len(n.cells) : n.cells[i] \in CellType(n.leaf)
         /\ PayloadBytes(n.leaf, n.cells) \in Nat
         /\ n.start \in HeaderBytes .. PageSize
         /\ n.free \in 0 .. PageSize - HeaderBytes
         /\ n.right \in PageIds \cup {0}
         /\ PayloadBytes(n.leaf, n.cells) + PointerBytes * Len(n.cells)
              = PageSize - HeaderBytes - n.free
<1>1. /\ n.leaf \in BOOLEAN /\ n \in PageType(n.leaf)
      /\ n.cells \in Seq(CellType(n.leaf)) /\ Len(n.cells) \in Nat
      /\ n.right \in PageIds \cup {0}
  BY DEF Sound, PageType
<1>2. \A i \in 1 .. Len(n.cells) : n.cells[i] \in CellType(n.leaf)
  BY <1>1, ElementOfSeq
<1>3. PayloadBytes(n.leaf, n.cells) \in Nat
  BY <1>1, PayloadType
<1>4. /\ n.start = PageSize - PayloadBytes(n.leaf, n.cells)
      /\ n.free = n.start - HeaderBytes - PointerBytes * Len(n.cells) /\ n.free >= 0
  BY DEF Sound, Space
<1>5. PageSize \in Nat
  BY Constants
<1>6. /\ n.start \in HeaderBytes .. PageSize /\ n.free \in 0 .. PageSize - HeaderBytes
      /\ PayloadBytes(n.leaf, n.cells) + PointerBytes * Len(n.cells)
              = PageSize - HeaderBytes - n.free
  BY <1>1, <1>3, <1>4, <1>5 DEF HeaderBytes, PointerBytes
<1> QED BY <1>1, <1>2, <1>3, <1>6

\* The page that pager_next hands out is sound.
LEMMA EmptyLeafSound == Sound(EmptyLeaf)
<1>1. EmptyLeaf \in PageType(TRUE) /\ EmptyLeaf.leaf = TRUE /\ EmptyLeaf.cells = <<>>
  BY Constants DEF EmptyLeaf, PageType, HeaderBytes
<1>2. EmptyLeaf.start = PageSize /\ EmptyLeaf.free = PageSize - HeaderBytes
  BY DEF EmptyLeaf
<1>3. PageSize - HeaderBytes >= 0
  <2>1. PICK k \in Keys : TRUE
    BY Constants
  <2>2. 2 * (KeyBytes[k] + IdBytes + PointerBytes) <= PageSize - HeaderBytes
    BY BTreeAssumption
  <2>3. KeyBytes[k] \in Nat
    BY Constants
  <2> QED BY <2>2, <2>3, Constants DEF IdBytes, PointerBytes, HeaderBytes
<1>4. PayloadBytes(TRUE, <<>>) = 0
  BY PayloadEmpty
<1>5. EmptyLeaf.leaf \in BOOLEAN /\ EmptyLeaf \in PageType(EmptyLeaf.leaf)
  BY <1>1
<1>6. Len(EmptyLeaf.cells) = 0 /\ PayloadBytes(EmptyLeaf.leaf, EmptyLeaf.cells) = 0
  BY <1>1, <1>4
<1>7. PageSize \in Nat
  BY Constants
<1> QED BY <1>1, <1>2, <1>3, <1>5, <1>6, <1>7 DEF Sound, Space, HeaderBytes, PointerBytes

\* The halves of a page.
LEMMA HalvesSound ==
  ASSUME NEW n, Sound(n), NEW next \in PageIds
  PROVE  /\ Sound(Lower(n, next)) /\ Sound(Upper(n))
         /\ Lower(n, next).leaf = n.leaf /\ Upper(n).leaf = n.leaf
         /\ Lower(n, next).right = next /\ Upper(n).right = n.right
         /\ Lower(n, next).cells = SubSeq(n.cells, 1, SplitAt(n))
         /\ Upper(n).cells = SubSeq(n.cells, SplitAt(n) + 1, Len(n.cells))
<1> DEFINE leaf == n.leaf
           cells == n.cells
           len == Len(n.cells)
           m == SplitAt(n)
           low == [n EXCEPT !.cells = SubSeq(@, 1, SplitAt(n)), !.right = next]
           up == [n EXCEPT !.cells = SubSeq(@, SplitAt(n) + 1, Len(@))]
<1>1. /\ leaf \in BOOLEAN /\ n \in PageType(leaf) /\ cells \in Seq(CellType(leaf))
      /\ len \in Nat
      /\ PayloadBytes(leaf, cells) + PointerBytes * len <= PageSize - HeaderBytes
      /\ PayloadBytes(leaf, cells) \in Nat
      /\ ~leaf => n.right \in PageIds
  <2>1. n.free \in 0 .. PageSize - HeaderBytes /\ PageSize \in Nat
    BY SoundType, Constants
  <2>2. ~n.leaf => n.right \in PageIds
    BY DEF Sound
  <2> QED BY SoundType, <2>1, <2>2 DEF HeaderBytes
<1>2. m \in 0 .. len
  <2>1. \A x \in Nat : x \div 2 \in 0 .. x
    OBVIOUS
  <2> QED BY <1>1, <2>1 DEF SplitAt
<1> DEFINE a == SubSeq(cells, 1, m)
           b == SubSeq(cells, m + 1, len)
<1>3. /\ a \in Seq(CellType(leaf)) /\ Len(a) = m
      /\ b \in Seq(CellType(leaf)) /\ Len(b) = len - m
  <2>1. 1 \in 1 .. len + 1 /\ m + 1 \in 1 .. len + 1 /\ len \in 0 .. len
    BY <1>1, <1>2
  <2> HIDE DEF m
  <2> QED BY <1>1, <1>2, <2>1, SubSeqPlaces
<1>4. /\ PayloadBytes(leaf, a) \in Nat /\ PayloadBytes(leaf, b) \in Nat
      /\ PayloadBytes(leaf, a) + PayloadBytes(leaf, b) = PayloadBytes(leaf, cells)
  <2> HIDE DEF m
  <2> QED BY <1>1, <1>2, <1>3, PayloadSplit, PayloadType
<1>5. /\ low \in PageType(leaf) /\ low.cells = a /\ low.right = next
      /\ up \in PageType(leaf) /\ up.cells = b /\ up.right = n.right
  <2> HIDE DEF m
  <2>1. low = [n EXCEPT !.cells = a, !.right = next] /\ up = [n EXCEPT !.cells = b]
    BY <1>1 DEF PageType, m
  <2> HIDE DEF low, up, a, b
  <2> QED BY <1>1, <1>3, <2>1 DEF PageType
<1>6. /\ PayloadBytes(leaf, a) + PointerBytes * m <= PageSize - HeaderBytes
      /\ PayloadBytes(leaf, b) + PointerBytes * (len - m) <= PageSize - HeaderBytes
  <2> HIDE DEF m, len, a, b, cells, leaf
  <2> QED BY <1>1, <1>2, <1>4, Constants DEF HeaderBytes, PointerBytes
<1>7. Lower(n, next) = Compact(low) /\ Upper(n) = Compact(up)
  BY DEF Lower, Upper
<1> HIDE DEF m, len, a, b, low, up
<1>8. /\ Sound(Compact(low)) /\ Compact(low).leaf = leaf
      /\ Compact(low).cells = low.cells /\ Compact(low).right = low.right
  BY <1>1, <1>3, <1>5, <1>6, CompactSound
<1>9. /\ Sound(Compact(up)) /\ Compact(up).leaf = leaf
      /\ Compact(up).cells = up.cells /\ Compact(up).right = up.right
  BY <1>1, <1>3, <1>5, <1>6, CompactSound
<1> QED BY <1>5, <1>7, <1>8, <1>9 DEF a, b, m, len

\* The root over two halves.
LEMMA NewRootSound ==
  ASSUME NEW p \in PageIds, NEW k \in Keys, NEW next \in PageIds
  PROVE  /\ Sound(NewRoot(p, k, next))
         /\ NewRoot(p, k, next).leaf = FALSE
         /\ NewRoot(p, k, next).cells = <<[key |-> k, ref |-> p]>>
         /\ NewRoot(p, k, next).right = next
<1> DEFINE c == [key |-> k, ref |-> p]
           n == [leaf |-> FALSE, cells |-> <<c>>, right |-> next, start |-> 0, free |-> 0]
<1>1. c \in CellType(FALSE)
  BY DEF CellType
<1> HIDE DEF c
<1>2. /\ <<c>> \in Seq(CellType(FALSE)) /\ Len(<<c>>) = 1 /\ <<c>>[1] = c
  <2> DEFINE S == CellType(FALSE)
  <2>1. c \in S
    BY <1>1
  <2> HIDE DEF S
  <2>2. <<c>> \in Seq(S) /\ Len(<<c>>) = 1 /\ <<c>>[1] = c
    BY <2>1
  <2> QED BY <2>2 DEF S
<1>3. n \in PageType(FALSE) /\ n.cells = <<c>> /\ n.right = next
  <2> DEFINE S == Seq(CellType(FALSE))
             s == <<c>>
  <2>1. s \in S
    BY <1>2
  <2> HIDE DEF S, s
  <2>2. [leaf |-> FALSE, cells |-> s, right |-> next, start |-> 0, free |-> 0]
          \in [leaf : {FALSE}, cells : S, right : PageIds \cup {0}, start : Int, free : Int]
    BY <2>1
  <2> QED BY <2>2 DEF PageType, S, s
<1>4. PayloadBytes(FALSE, <<c>>) = CellBytes(FALSE, c.key, c.ref)
  BY <1>2, PayloadOne
<1>5. 2 * (CellBytes(FALSE, c.key, c.ref) + PointerBytes) <= PageSize - HeaderBytes
  BY <1>1, TwoCellsFit
<1>6. CellBytes(FALSE, c.key, c.ref) \in Nat
  BY <1>1, CellBytesType
<1>7. PayloadBytes(FALSE, n.cells) + PointerBytes * Len(n.cells) <= PageSize - HeaderBytes
  <2> DEFINE b == CellBytes(FALSE, c.key, c.ref)
  <2>1. b \in Nat /\ 2 * (b + 2) <= PageSize - 12 /\ PageSize \in Nat
    BY <1>5, <1>6, Constants DEF PointerBytes, HeaderBytes
  <2> DEFINE p0 == PayloadBytes(FALSE, n.cells)
             l0 == Len(n.cells)
  <2>2. p0 = b /\ l0 = 1
    BY <1>2, <1>3, <1>4
  <2>3. p0 + 2 * l0 <= PageSize - 12
    <3> HIDE DEF b, p0, l0
    <3> QED BY <2>1, <2>2
  <2> QED BY <2>3 DEF PointerBytes, HeaderBytes
<1>8. NewRoot(p, k, next) = Compact(n)
  BY DEF NewRoot, c
<1> HIDE DEF n
<1>9. /\ Sound(Compact(n)) /\ Compact(n).leaf = FALSE
      /\ Compact(n).cells = n.cells /\ Compact(n).right = n.right
  BY <1>3, <1>7, CompactSound
<1> QED BY <1>3, <1>8, <1>9 DEF c

\* A cell more, where it fits.
LEMMA InsertCellSound ==
  ASSUME NEW n, Sound(n), NEW i \in 1 .. Len(n.cells) + 1,
         NEW c \in CellType(n.leaf), Fits(n, CellBytes(n.leaf, c.key, c.ref))
  PROVE  LET m == InsertCell(n, i, c.key, c.ref)
         IN  /\ Sound(m) /\ m.leaf = n.leaf /\ m.right = n.right
             /\ m.cells = InsertAt(n.cells, i, c)
             /\ m.cells \in Seq(CellType(n.leaf)) /\ Len(m.cells) = Len(n.cells) + 1
<1> DEFINE leaf == n.leaf
           bytes == CellBytes(leaf, c.key, c.ref)
           m == InsertCell(n, i, c.key, c.ref)
           cells == InsertAt(n.cells, i, c)
<1>1. /\ leaf \in BOOLEAN /\ n \in PageType(leaf) /\ n.cells \in Seq(CellType(leaf))
      /\ Len(n.cells) \in Nat /\ n.right \in PageIds \cup {0}
      /\ n.start \in Int /\ n.free \in Int
  BY SoundType DEF HeaderBytes, PageType
<1>2. bytes \in Nat
  BY <1>1, CellBytesType
<1>3. /\ n.start = PageSize - PayloadBytes(leaf, n.cells)
      /\ n.free = n.start - HeaderBytes - PointerBytes * Len(n.cells)
      /\ n.free = Space(n)
      /\ n.free >= bytes + PointerBytes
      /\ ~leaf => n.right \in PageIds
  BY DEF Sound, Space, Fits
<1>4. /\ cells \in Seq(CellType(leaf)) /\ Len(cells) = Len(n.cells) + 1
  BY <1>1, InsertAtPlaces
<1>5. c = [key |-> c.key, ref |-> c.ref]
  BY DEF CellType
<1>6. m = [n EXCEPT !.cells = cells, !.start = @ - bytes,
                    !.free = @ - (bytes + PointerBytes)]
  <2>1. ~(Space(n) < bytes + PointerBytes)
    BY <1>1, <1>2, <1>3 DEF PointerBytes
  <2> QED BY <1>5, <2>1 DEF InsertCell
<1> HIDE DEF m, cells, bytes
<1>7. /\ m \in PageType(leaf) /\ m.leaf = leaf /\ m.right = n.right /\ m.cells = cells
      /\ m.start = n.start - bytes /\ m.free = n.free - (bytes + PointerBytes)
  <2>1. n.start - bytes \in Int /\ n.free - (bytes + PointerBytes) \in Int
    BY <1>1, <1>2 DEF PointerBytes
  <2> QED BY <1>1, <1>4, <1>6, <2>1 DEF PageType
<1>8. PayloadBytes(leaf, cells) = PayloadBytes(leaf, n.cells) + bytes
  BY <1>1, PayloadInsert DEF cells, bytes
<1>9. PayloadBytes(leaf, n.cells) \in Nat
  BY SoundType
<1>10. /\ m.start = PageSize - PayloadBytes(leaf, cells)
       /\ m.free = m.start - HeaderBytes - PointerBytes * Len(cells)
       /\ m.free >= 0
  <2> DEFINE p == PayloadBytes(leaf, cells)
             q == PayloadBytes(leaf, n.cells)
             len == Len(n.cells)
  <2>1. /\ p = q + bytes /\ q \in Nat /\ bytes \in Nat /\ len \in Nat /\ PageSize \in Nat
        /\ Len(cells) = len + 1
        /\ n.start = PageSize - q /\ n.free = n.start - 12 - 2 * len
        /\ n.free >= bytes + 2
        /\ m.start = n.start - bytes /\ m.free = n.free - (bytes + 2)
    BY <1>1, <1>2, <1>3, <1>4, <1>7, <1>8, <1>9, Constants DEF HeaderBytes, PointerBytes
  <2>2. m.start = PageSize - p /\ m.free = m.start - 12 - 2 * (len + 1) /\ m.free >= 0
    <3> HIDE DEF p, q, len
    <3> QED BY <2>1
  <2> QED BY <2>1, <2>2 DEF HeaderBytes, PointerBytes
<1>11. Sound(m)
  BY <1>1, <1>3, <1>7, <1>10 DEF Sound, Space
<1> QED BY <1>4, <1>7, <1>11 DEF m, cells

-----------------------------------------------------------------------------
(***************************************************************************)
(* Where a key goes.                                                       *)
(***************************************************************************)
LEMMA MinIsLeast ==
  ASSUME NEW S \in SUBSET Nat, S # {}
  PROVE  Min(S) \in S /\ \A x \in S : Min(S) <= x
<1>1. \E x \in S : \A y \in S : x <= y
  BY LeastElement
<1> QED BY <1>1 DEF Min

\* The place FindPointer finds, as the comparison of keys has it.
LEMMA FindPointerPlace ==
  ASSUME NEW n, Sound(n), NEW k
  PROVE  LET i == FindPointer(n, k)
         IN  /\ i \in 1 .. Len(n.cells) + 1
             /\ \A j \in 1 .. Len(n.cells) : j < i => ~(KeyCompare(n.cells[j].key, k) >= 0)
             /\ i <= Len(n.cells) => KeyCompare(n.cells[i].key, k) >= 0
<1> DEFINE at == {i \in DOMAIN n.cells : KeyCompare(n.cells[i].key, k) >= 0}
<1>1. Len(n.cells) \in Nat /\ DOMAIN n.cells = 1 .. Len(n.cells)
  BY SoundType, LenProperties
<1>2. CASE at = {}
  <2>1. FindPointer(n, k) = Len(n.cells) + 1
    BY <1>2 DEF FindPointer
  <2> QED BY <1>1, <1>2, <2>1
<1>3. CASE at # {}
  <2>1. FindPointer(n, k) = Min(at)
    BY <1>3 DEF FindPointer
  <2>2. at \in SUBSET Nat
    BY <1>1
  <2>3. Min(at) \in at /\ \A j \in at : Min(at) <= j
    <3> HIDE DEF at
    <3> QED BY <1>3, <2>2, MinIsLeast
  <2>4. Min(at) \in 1 .. Len(n.cells) /\ KeyCompare(n.cells[Min(at)].key, k) >= 0
    BY <1>1, <2>3
  <2>5. ASSUME NEW j \in 1 .. Len(n.cells), j < Min(at)
        PROVE  ~(KeyCompare(n.cells[j].key, k) >= 0)
    <3>1. j \notin at
      <4> HIDE DEF at
      <4> QED BY <2>3, <2>4, <2>5
    <3> QED BY <1>1, <3>1
  <2> HIDE DEF at
  <2> QED BY <2>1, <2>4, <2>5
<1> QED BY <1>2, <1>3

\* The links of an inner page, the one to the right of its cells included.
Link(n, j) == IF j = Len(n.cells) + 1 THEN n.right ELSE n.cells[j].ref

\* A link of an inner page is a page, or 0 at the end.
LEMMA LinkType ==
  ASSUME NEW n, Sound(n), ~n.leaf, NEW j \in 1 .. Len(n.cells) + 1
  PROVE  Link(n, j) \in PageIds
<1>1. n.right \in PageIds
  BY DEF Sound
<1>2. ASSUME NEW i \in 1 .. Len(n.cells) PROVE n.cells[i].ref \in PageIds
  <2>1. n.cells[i] \in CellType(n.leaf)
    BY SoundType
  <2> QED BY <2>1 DEF CellType
<1>3. Len(n.cells) \in Nat
  BY SoundType
<1> QED BY <1>1, <1>2, <1>3 DEF Link

\* The child that covers a key is the link FindPointer finds.
LEMMA ChildIsLink ==
  ASSUME NEW n, Sound(n), ~n.leaf, NEW k
  PROVE  Child(n, k) = Link(n, FindPointer(n, k)) /\ Child(n, k) \in PageIds
<1>1. FindPointer(n, k) \in 1 .. Len(n.cells) + 1
  BY FindPointerPlace
<1>2. Child(n, k) = Link(n, FindPointer(n, k))
  BY DEF Child, Link
<1> QED BY <1>1, <1>2, LinkType

\* A page without room has a cell for each half.
LEMMA FullHasTwo ==
  ASSUME NEW n, Sound(n), NEW k \in Keys, NEW v \in Values, Full(n, k, v)
  PROVE  Len(n.cells) >= 2
<1> DEFINE leaf == n.leaf
           b == CellBytes(leaf, k, v)
           len == Len(n.cells)
           p == PayloadBytes(leaf, n.cells)
<1>1. /\ leaf \in BOOLEAN /\ n.cells \in Seq(CellType(leaf)) /\ len \in Nat /\ p \in Nat
      /\ p + 2 * len = PageSize - 12 - n.free /\ n.free \in Nat /\ n.free < b
      /\ PageSize \in Nat
  BY SoundType, Constants DEF Full, PointerBytes, HeaderBytes
<1>2. b \in Nat /\ 2 * (b + 2) <= PageSize - 12
  <2>1. PICK c \in CellType(leaf) : CellBytes(leaf, c.key, c.ref) = b
    <3>1. CASE leaf
      <4>1. [key |-> k, ref |-> v] \in CellType(leaf)
        BY <3>1 DEF CellType
      <4> QED BY <4>1
    <3>2. CASE ~leaf
      <4>1. [key |-> k, ref |-> 1] \in CellType(leaf)
        BY <3>2, Constants DEF CellType, PageIds
      <4>2. CellBytes(leaf, k, 1) = b
        BY <3>2 DEF CellBytes
      <4> QED BY <4>1, <4>2
    <3> QED BY <1>1, <3>1, <3>2
  <2> HIDE DEF b
  <2>2. 2 * (CellBytes(leaf, c.key, c.ref) + PointerBytes) <= PageSize - HeaderBytes
    BY <1>1, TwoCellsFit
  <2>3. CellBytes(leaf, c.key, c.ref) \in Nat
    BY <1>1, CellBytesType
  <2> QED BY <2>1, <2>2, <2>3 DEF PointerBytes, HeaderBytes
<1>3. len # 0
  <2> SUFFICES ASSUME len = 0 PROVE FALSE
    OBVIOUS
  <2>1. n.cells = <<>>
    BY <1>1
  <2>2. p = 0
    BY <1>1, <2>1, PayloadEmpty
  <2> HIDE DEF p, b, len
  <2> QED BY <1>1, <1>2, <2>2
<1>4. len # 1
  <2> SUFFICES ASSUME len = 1 PROVE FALSE
    OBVIOUS
  <2> DEFINE z == CellBytes(leaf, n.cells[1].key, n.cells[1].ref)
  <2>1. p = z
    BY <1>1, PayloadOne
  <2>2. n.cells[1] \in CellType(leaf)
    BY <1>1, ElementOfSeq
  <2>3. z \in Nat /\ 2 * (z + 2) <= PageSize - 12
    <3>1. 2 * (z + PointerBytes) <= PageSize - HeaderBytes /\ z \in Nat
      BY <1>1, <2>2, TwoCellsFit, CellBytesType
    <3> QED BY <3>1 DEF PointerBytes, HeaderBytes
  <2> HIDE DEF p, b, len, z
  <2> QED BY <1>1, <1>2, <2>1, <2>3
<1> HIDE DEF p, b, leaf
<1>5. len \in Nat
  BY <1>1
<1> HIDE DEF len
<1>6. len >= 2
  BY <1>3, <1>4, <1>5
<1> QED BY <1>6 DEF len

\* The key that separates the halves is one of the page.
LEMMA SplitKeyType ==
  ASSUME NEW n, Sound(n), Len(n.cells) >= 2
  PROVE  /\ SplitAt(n) \in 1 .. Len(n.cells) - 1
         /\ SplitKey(n) = n.cells[SplitAt(n)].key
         /\ SplitKey(n) \in Keys
<1>1. \A x \in Nat : x >= 2 => x \div 2 \in 1 .. x - 1
  OBVIOUS
<1>2. SplitAt(n) \in 1 .. Len(n.cells) - 1
  BY <1>1, SoundType DEF SplitAt
<1>3. n.cells[SplitAt(n)] \in CellType(n.leaf)
  BY <1>2, SoundType
<1> QED BY <1>2, <1>3 DEF SplitKey, CellType

\* page_insert_leaf
LEMMA InsertLeafSound ==
  ASSUME NEW n, Sound(n), n.leaf, NEW k \in Keys, NEW v \in Values,
         Fits(n, CellBytes(TRUE, k, v))
  PROVE  LET m == InsertLeaf(n, k, v)
         IN  /\ Sound(m) /\ m.leaf /\ m.right = n.right
             /\ Len(m.cells) = Len(n.cells) + 1
             /\ \A j \in 1 .. Len(n.cells) + 1 :
                  m.cells[j] = IF j < FindPointer(n, k) THEN n.cells[j]
                               ELSE IF j = FindPointer(n, k)
                                      THEN [key |-> k, ref |-> v]
                               ELSE n.cells[j - 1]
<1> DEFINE c == [key |-> k, ref |-> v]
           i == FindPointer(n, k)
           m == InsertCell(n, i, c.key, c.ref)
<1>1. n.leaf = TRUE
  BY SoundType
<1>2. c \in CellType(n.leaf) /\ c.key = k /\ c.ref = v
  BY <1>1 DEF CellType
<1>3. i \in 1 .. Len(n.cells) + 1
  BY FindPointerPlace
<1>4. Fits(n, CellBytes(n.leaf, c.key, c.ref))
  BY <1>1, <1>2
<1>5. InsertLeaf(n, k, v) = m
  BY <1>2 DEF InsertLeaf
<1> HIDE DEF c, i
<1>6. /\ Sound(m) /\ m.leaf = n.leaf /\ m.right = n.right
      /\ m.cells = InsertAt(n.cells, i, c)
      /\ Len(m.cells) = Len(n.cells) + 1
  BY <1>2, <1>3, <1>4, InsertCellSound
<1>7. \A j \in 1 .. Len(n.cells) + 1 :
        InsertAt(n.cells, i, c)[j] = IF j < i THEN n.cells[j]
                                     ELSE IF j = i THEN c ELSE n.cells[j - 1]
  <2> DEFINE S == CellType(n.leaf)
             s == n.cells
  <2>1. s \in Seq(S) /\ c \in S /\ i \in 1 .. Len(s) + 1
    BY <1>2, <1>3, SoundType
  <2> HIDE DEF S, s
  <2>2. /\ InsertAt(s, i, c) \in Seq(S)
        /\ Len(InsertAt(s, i, c)) = Len(s) + 1
        /\ \A j \in 1 .. Len(s) + 1 :
             InsertAt(s, i, c)[j] = IF j < i THEN s[j]
                                    ELSE IF j = i THEN c ELSE s[j - 1]
    BY <2>1, InsertAtPlaces
  <2> QED BY <2>2 DEF s
<1> QED BY <1>1, <1>5, <1>6, <1>7 DEF c, i

\* page_insert_inner: the page that was split keeps its place, the new one
\* comes after it.
LEMMA InsertInnerSound ==
  ASSUME NEW n, Sound(n), ~n.leaf, NEW i \in 1 .. Len(n.cells) + 1,
         NEW k \in Keys, NEW new \in PageIds, Fits(n, KeyBytes[k] + IdBytes)
  PROVE  LET m == InsertInner(n, i, k, new)
         IN  /\ Sound(m) /\ ~m.leaf
             /\ Len(m.cells) = Len(n.cells) + 1
             /\ \A j \in 1 .. Len(n.cells) + 1 :
                  m.cells[j].key = IF j < i THEN n.cells[j].key
                                   ELSE IF j = i THEN k ELSE n.cells[j - 1].key
             /\ \A j \in 1 .. Len(n.cells) + 2 :
                  Link(m, j) = IF j <= i THEN Link(n, j)
                               ELSE IF j = i + 1 THEN new ELSE Link(n, j - 1)
<1> DEFINE c == [key |-> k, ref |-> Link(n, i)]
           m == InsertCell(n, i, c.key, c.ref)
           len == Len(n.cells)
<1>1. n.leaf = FALSE /\ len \in Nat
  BY SoundType
<1>2. c \in CellType(n.leaf) /\ c.key = k /\ c.ref = Link(n, i)
  BY <1>1, LinkType DEF CellType
<1>3. Fits(n, CellBytes(n.leaf, c.key, c.ref))
  BY <1>1, <1>2 DEF CellBytes
<1> HIDE DEF c
<1>4. /\ Sound(m) /\ m.leaf = n.leaf /\ m.right = n.right
      /\ m.cells = InsertAt(n.cells, i, c)
      /\ m.cells \in Seq(CellType(n.leaf)) /\ Len(m.cells) = len + 1
  BY <1>2, <1>3, InsertCellSound
<1>5. \A j \in 1 .. len + 1 :
        m.cells[j] = IF j < i THEN n.cells[j] ELSE IF j = i THEN c ELSE n.cells[j - 1]
  <2> DEFINE S == CellType(n.leaf)
             s == n.cells
             q == i
  <2>1. s \in Seq(S) /\ c \in S /\ q \in 1 .. Len(s) + 1
    BY <1>2, SoundType
  <2>2. m.cells = InsertAt(s, q, c)
    BY <1>4
  <2> HIDE DEF S, s, m, q
  <2>3. /\ InsertAt(s, q, c) \in Seq(S)
        /\ Len(InsertAt(s, q, c)) = Len(s) + 1
        /\ \A j \in 1 .. Len(s) + 1 :
             InsertAt(s, q, c)[j] = IF j < q THEN s[j]
                                    ELSE IF j = q THEN c ELSE s[j - 1]
    BY <2>1, InsertAtPlaces
  <2> QED BY <2>2, <2>3 DEF s, q
<1>6. m \in PageType(FALSE) /\ m.free = Space(m) /\ m.free >= 0
      /\ m.start = PageSize - PayloadBytes(FALSE, m.cells)
  BY <1>1, <1>4 DEF Sound
<1> HIDE DEF m
<1>7. CASE i = len + 1
  <2> DEFINE z == [m EXCEPT !.right = new]
  <2>1. InsertInner(n, i, k, new) = z
    BY <1>2, <1>7 DEF InsertInner, m, Link
  <2>2. /\ z \in PageType(FALSE) /\ z.leaf = FALSE /\ z.cells = m.cells /\ z.right = new
        /\ z.start = m.start /\ z.free = m.free
    BY <1>6 DEF PageType
  <2> HIDE DEF z
  <2>3. Sound(z)
    BY <1>6, <2>2 DEF Sound, Space
  <2>4. \A j \in 1 .. len + 1 : z.cells[j].key = IF j < i THEN n.cells[j].key ELSE k
    BY <1>1, <1>2, <1>5, <1>7, <2>2
  <2>5. ASSUME NEW j \in 1 .. len + 2
        PROVE  Link(z, j) = IF j <= i THEN Link(n, j) ELSE new
    <3>1. CASE j = len + 2
      BY <1>1, <1>4, <1>7, <2>2, <3>1 DEF Link
    <3>2. CASE j = len + 1
      <4>1. Link(z, j) = c.ref
        BY <1>1, <1>4, <1>5, <1>7, <2>2, <3>2 DEF Link
      <4> QED BY <1>1, <1>2, <1>7, <3>2, <4>1
    <3>3. CASE j < len + 1
      BY <1>1, <1>4, <1>5, <1>7, <2>2, <3>3 DEF Link
    <3> QED BY <1>1, <3>1, <3>2, <3>3
  <2> QED BY <1>1, <1>4, <1>7, <2>1, <2>2, <2>3, <2>4, <2>5
<1>8. CASE i # len + 1
  <2> DEFINE cells == [m.cells EXCEPT ![i + 1].ref = new]
             z == [m EXCEPT !.cells = cells]
  <2>1. InsertInner(n, i, k, new) = z
    BY <1>2, <1>6, <1>8 DEF InsertInner, m, Link, PageType
  <2>2. /\ m.cells \in Seq(CellType(FALSE)) /\ i + 1 \in 1 .. Len(m.cells)
        /\ Len(m.cells) = len + 1
    <3>1. m.cells \in Seq(CellType(FALSE))
      BY <1>6 DEF PageType
    <3>2. Len(m.cells) = len + 1
      BY <1>4
    <3>3. i + 1 \in 1 .. len + 1
      BY <1>1, <1>8
    <3> QED BY <3>1, <3>2, <3>3
  <2>3. /\ cells \in Seq(CellType(FALSE))
        /\ PayloadBytes(FALSE, cells) = PayloadBytes(FALSE, m.cells)
    <3> DEFINE s == m.cells
               q == i + 1
    <3>1. s \in Seq(CellType(FALSE)) /\ q \in 1 .. Len(s)
      BY <2>2
    <3> HIDE DEF s, q
    <3>2. /\ [s EXCEPT ![q].ref = new] \in Seq(CellType(FALSE))
          /\ PayloadBytes(FALSE, [s EXCEPT ![q].ref = new]) = PayloadBytes(FALSE, s)
      BY <3>1, PayloadRedirected
    <3> QED BY <3>2 DEF s, q
  <2>4. /\ Len(cells) = len + 1
        /\ \A j \in 1 .. len + 1 :
             cells[j] = IF j = i + 1 THEN [m.cells[j] EXCEPT !.ref = new] ELSE m.cells[j]
    BY <2>2
  <2>5. \A j \in 1 .. len + 1 : m.cells[j] \in CellType(FALSE)
    BY <2>2, ElementOfSeq
  <2>6. /\ \A j \in 1 .. len + 1 : cells[j].key = m.cells[j].key
        /\ \A j \in 1 .. len + 1 :
             cells[j].ref = IF j = i + 1 THEN new ELSE m.cells[j].ref
    <3> HIDE DEF cells
    <3> QED BY <2>4, <2>5 DEF CellType
  <2> HIDE DEF cells
  <2>7. /\ z \in PageType(FALSE) /\ z.leaf = FALSE /\ z.cells = cells /\ z.right = n.right
        /\ z.start = m.start /\ z.free = m.free
    BY <1>4, <1>6, <2>3 DEF PageType
  <2> HIDE DEF z
  <2>8. Sound(z)
    <3>1. z.right \in PageIds
      BY <1>1, <2>7 DEF Sound
    <3> QED BY <1>6, <2>2, <2>3, <2>4, <2>7, <3>1 DEF Sound, Space
  <2>9. ASSUME NEW j \in 1 .. len + 2
        PROVE  Link(z, j) = IF j <= i THEN Link(n, j)
                            ELSE IF j = i + 1 THEN new ELSE Link(n, j - 1)
    <3>1. CASE j = len + 2
      BY <1>1, <1>8, <2>4, <2>7, <3>1 DEF Link
    <3>2. CASE j < i
      BY <1>1, <1>5, <2>4, <2>6, <2>7, <3>2 DEF Link
    <3>3. CASE j = i
      BY <1>1, <1>2, <1>5, <1>8, <2>4, <2>6, <2>7, <3>3 DEF Link
    <3>4. CASE j = i + 1
      BY <1>1, <1>8, <2>4, <2>6, <2>7, <3>4 DEF Link
    <3>5. CASE j > i + 1 /\ j < len + 2
      BY <1>1, <1>5, <2>4, <2>6, <2>7, <3>5 DEF Link
    <3> QED BY <1>1, <3>1, <3>2, <3>3, <3>4, <3>5
  <2>10. \A j \in 1 .. len + 1 :
          z.cells[j].key = IF j < i THEN n.cells[j].key
                           ELSE IF j = i THEN k ELSE n.cells[j - 1].key
    BY <1>1, <1>2, <1>5, <2>6, <2>7
  <2> QED BY <2>1, <2>4, <2>7, <2>8, <2>9, <2>10
<1> QED BY <1>7, <1>8

\* The key of a cell.
KeyAt(n, i) == n.cells[i].key

\* Page z is page n with separator k after link i, and page new behind it.
Over(n, z, i, k, new) ==
  /\ ~n.leaf /\ ~z.leaf
  /\ Len(z.cells) = Len(n.cells) + 1
  /\ \A j \in 1 .. Len(n.cells) + 1 :
       KeyAt(z, j) = IF j < i THEN KeyAt(n, j) ELSE IF j = i THEN k ELSE KeyAt(n, j - 1)
  /\ \A j \in 1 .. Len(n.cells) + 2 :
       Link(z, j) = IF j <= i THEN Link(n, j) ELSE IF j = i + 1 THEN new ELSE Link(n, j - 1)

\* InsertInner puts the new half behind the link.
LEMMA InnerOver ==
  ASSUME NEW n, Sound(n), ~n.leaf, NEW i \in 1 .. Len(n.cells) + 1, NEW k \in Keys,
         NEW new \in PageIds, Fits(n, CellBytes(FALSE, k, new)),
         NEW z, z = InsertInner(n, i, k, new)
  PROVE  Sound(z) /\ ~z.leaf /\ Over(n, z, i, k, new)
<1>1. Fits(n, KeyBytes[k] + IdBytes)
  BY DEF CellBytes
<1>2. LET m == InsertInner(n, i, k, new)
      IN  /\ Sound(m) /\ ~m.leaf
          /\ Len(m.cells) = Len(n.cells) + 1
          /\ \A j \in 1 .. Len(n.cells) + 1 :
               m.cells[j].key = IF j < i THEN n.cells[j].key
                                ELSE IF j = i THEN k ELSE n.cells[j - 1].key
          /\ \A j \in 1 .. Len(n.cells) + 2 :
               Link(m, j) = IF j <= i THEN Link(n, j)
                            ELSE IF j = i + 1 THEN new ELSE Link(n, j - 1)
  BY <1>1, InsertInnerSound
<1>3. /\ Sound(z) /\ ~z.leaf
      /\ Len(z.cells) = Len(n.cells) + 1
      /\ \A j \in 1 .. Len(n.cells) + 1 :
           z.cells[j].key = IF j < i THEN n.cells[j].key
                            ELSE IF j = i THEN k ELSE n.cells[j - 1].key
      /\ \A j \in 1 .. Len(n.cells) + 2 :
           Link(z, j) = IF j <= i THEN Link(n, j)
                        ELSE IF j = i + 1 THEN new ELSE Link(n, j - 1)
  BY <1>2
<1> QED BY <1>3 DEF Over, KeyAt

-----------------------------------------------------------------------------
(***************************************************************************)
(* The invariant: pages are sound, pages not handed out yet are empty and  *)
(* free, a call stands on an inner page that it holds.                     *)
(***************************************************************************)
AnyPage == PageType(TRUE) \cup PageType(FALSE)

\* All pages are sound.
SoundPages(nodes) ==
  nodes \in [PageIds -> AnyPage] /\ \A p \in PageIds : Sound(nodes[p])

\* The types of everything else.
Scalars ==
  /\ next_page \in 1 .. MaxPages + 1
  /\ root \in PageIds
  /\ fixed \in [PageIds -> Threads \cup {NoThread}]
  /\ pc \in [Threads -> States]
  /\ args \in [Threads -> [key : Keys, value : Values \cup {NoValue}]]
  /\ page \in [Threads -> PageIds \cup {0}]
  /\ error \in [Threads -> BOOLEAN]
  /\ answer \in [Threads -> [code : {"SUCCESS", "ENOENT", "ENOMEM"},
                             value : Values \cup {NoValue}]]
  /\ fault \in {"none", "assert", "unfix"}

\* Where a call is: at the root it has read, or on its way down.
AtRootOf(t) == pc[t] \in {"insert_root", "lookup_root"}
Walks(t) == pc[t] \in {"insert_walk", "lookup_walk"}
Inserts(t) == pc[t] \in {"insert_root", "insert_walk"}

\* A call has a page that was handed out, an inner one on its way down.
GoodCall(t) ==
  /\ AtRootOf(t) => page[t] \in PageIds /\ page[t] < next_page
  /\ Walks(t) => page[t] \in PageIds /\ ~node[page[t]].leaf
  /\ Inserts(t) => args[t].value \in Values

\* Pages not handed out are leaves, and nothing leads to them.
MadePages(nodes, made) ==
  \A p \in PageIds :
    /\ p >= made => nodes[p].leaf
    /\ ~nodes[p].leaf => \A j \in 1 .. Len(nodes[p].cells) + 1 : Link(nodes[p], j) < made

\* A call on its way down holds the page it stands on.
Standing == \A t \in Threads, p \in PageIds : Stands(t, p) => fixed[p] = t

\* The inductive invariant.
PageInv ==
  /\ SoundPages(node)
  /\ MadePages(node, next_page)
  /\ Scalars
  /\ root < next_page
  /\ \A p \in PageIds : p >= next_page => fixed[p] = NoThread
  /\ \A t \in Threads : GoodCall(t)
  /\ Standing

\* It gives the types ...
LEMMA PageInvTypeOK == PageInv => TypeOK
<1> SUFFICES ASSUME PageInv PROVE TypeOK
  OBVIOUS
<1>1. ASSUME NEW p \in PageIds
      PROVE  /\ node[p].leaf \in BOOLEAN
             /\ \A i \in DOMAIN node[p].cells :
                  node[p].cells[i] \in
                    [key : Keys, ref : IF node[p].leaf THEN Values ELSE PageIds]
             /\ node[p].right \in PageIds \cup {0}
             /\ node[p].start \in HeaderBytes .. PageSize
             /\ node[p].free \in 0 .. PageSize - HeaderBytes
  <2> DEFINE n == node[p]
  <2>1. Sound(n)
    BY DEF PageInv, SoundPages
  <2> HIDE DEF n
  <2>2. DOMAIN n.cells = 1 .. Len(n.cells)
    BY <2>1, SoundType, LenProperties
  <2>3. \A i \in DOMAIN n.cells :
          n.cells[i] \in [key : Keys, ref : IF n.leaf THEN Values ELSE PageIds]
    BY <2>1, <2>2, SoundType DEF CellType
  <2>4. /\ n.leaf \in BOOLEAN /\ n.right \in PageIds \cup {0}
        /\ n.start \in HeaderBytes .. PageSize
        /\ n.free \in 0 .. PageSize - HeaderBytes
    BY <2>1, SoundType
  <2> QED BY <2>3, <2>4 DEF n
<1>2. DOMAIN node = PageIds
  BY DEF PageInv, SoundPages
<1> QED BY <1>1, <1>2 DEF PageInv, Scalars, TypeOK

\* ... and the byte counts of the headers ...
LEMMA PageInvExact == PageInv => FreeSpaceExact
BY DEF PageInv, SoundPages, Sound, FreeSpaceExact

\* ... and holds when btree_create has made the root.
LEMMA PageInvInit == Init => PageInv
<1> SUFFICES ASSUME Init PROVE PageInv
  OBVIOUS
<1>1. EmptyLeaf.leaf = TRUE /\ EmptyLeaf \in AnyPage
  <2>1. EmptyLeaf \in PageType(EmptyLeaf.leaf) /\ EmptyLeaf.leaf = TRUE
    BY EmptyLeafSound DEF Sound, EmptyLeaf
  <2> QED BY <2>1 DEF AnyPage
<1>2. SoundPages(node)
  BY <1>1, EmptyLeafSound DEF Init, SoundPages
<1>3. Scalars
  <2>1. MaxPages \in Nat \ {0}
    BY Constants
  <2>2. 2 \in 1 .. MaxPages + 1 /\ 1 \in PageIds
    BY <2>1 DEF PageIds
  <2> QED BY <2>2, AnyKeyType DEF Init, Scalars, States, NoThread
<1>4. MadePages(node, next_page)
  BY <1>1 DEF Init, MadePages
<1>5. ASSUME NEW t \in Threads PROVE GoodCall(t)
  BY DEF Init, GoodCall, AtRootOf, Walks, Inserts
<1>6. Standing
  BY DEF Init, Standing, Stands
<1>7. root < next_page /\ \A p \in PageIds : fixed[p] = NoThread
  BY DEF Init
<1> QED BY <1>2, <1>3, <1>4, <1>5, <1>6, <1>7 DEF PageInv

\* What other threads have of the calls of t.
Others(t) ==
  \A u \in Threads \ {t} :
    pc'[u] = pc[u] /\ page'[u] = page[u] /\ args'[u] = args[u]

\* The calls of others are as good as they were.
LEMMA OtherCalls ==
  ASSUME Scalars, NEW t \in Threads, NEW u \in Threads, u # t, Others(t), GoodCall(u),
         \A p \in PageIds : ~node[p].leaf => ~node'[p].leaf,
         next_page' \in Nat, next_page <= next_page'
  PROVE  GoodCall(u)'
<1>1. page[u] < next_page /\ page[u] \in PageIds => page[u] < next_page'
  BY Constants DEF Scalars, PageIds
<1> QED BY <1>1 DEF Others, GoodCall, AtRootOf, Walks, Inserts

\* A call that has returned.
LEMMA Returned ==
  ASSUME Scalars, NEW t \in Threads, NEW code \in {"SUCCESS", "ENOENT", "ENOMEM"},
         NEW value \in Values \cup {NoValue}, Return(t, code, value)
  PROVE  /\ pc' \in [Threads -> States]
         /\ args' \in [Threads -> [key : Keys, value : Values \cup {NoValue}]]
         /\ page' \in [Threads -> PageIds \cup {0}]
         /\ error' \in [Threads -> BOOLEAN]
         /\ answer' \in [Threads -> [code : {"SUCCESS", "ENOENT", "ENOMEM"},
                                     value : Values \cup {NoValue}]]
         /\ fault' = fault
         /\ pc'[t] = "idle" /\ page'[t] = 0 /\ GoodCall(t)'
         /\ Others(t)
<1>1. error' \in [Threads -> BOOLEAN]
  BY Zenon DEF Scalars, Return
<1>2. /\ pc' \in [Threads -> States] /\ pc'[t] = "idle"
      /\ \A u \in Threads \ {t} : pc'[u] = pc[u]
  BY DEF Scalars, Return, States
<1>3. /\ args' \in [Threads -> [key : Keys, value : Values \cup {NoValue}]]
      /\ \A u \in Threads \ {t} : args'[u] = args[u]
  BY AnyKeyType DEF Scalars, Return
<1>4. /\ page' \in [Threads -> PageIds \cup {0}] /\ page'[t] = 0
      /\ \A u \in Threads \ {t} : page'[u] = page[u]
  BY DEF Scalars, Return
<1>5. answer' \in [Threads -> [code : {"SUCCESS", "ENOENT", "ENOMEM"},
                               value : Values \cup {NoValue}]]
  BY DEF Scalars, Return
<1>6. fault' = fault
  BY DEF Return
<1>7. GoodCall(t)'
  BY <1>2 DEF GoodCall, AtRootOf, Walks, Inserts
<1> QED BY <1>1, <1>2, <1>3, <1>4, <1>5, <1>6, <1>7 DEF Others

(***************************************************************************)
(* What the calls of pager_fix, pager_next and pager_unfix between two     *)
(* waits come to: the thread holds page p now, and the page it stood on no *)
(* more, or nothing.                                                       *)
(***************************************************************************)
Hold(t, p) ==
  [q \in PageIds |-> IF q = p THEN t ELSE IF Stands(t, q) THEN NoThread ELSE fixed[q]]

HoldNothing(t) == [q \in PageIds |-> IF Stands(t, q) THEN NoThread ELSE fixed[q]]

\* The latches that are left behind stay so, and no others are.
SameLeft == \A q \in PageIds : Left(q)' <=> Left(q)

\* A call that stands on page p from now on.
LEMMA HoldsNow ==
  ASSUME Scalars, Standing, NEW t \in Threads, NEW p \in PageIds,
         fixed[p] = NoThread, fixed' = Hold(t, p),
         Walks(t)', page'[t] = p, Others(t)
  PROVE  /\ fixed' \in [PageIds -> Threads \cup {NoThread}]
         /\ Standing' /\ SameLeft
         /\ \A q \in PageIds : q # p /\ fixed[q] = NoThread => fixed'[q] = NoThread
<1>1. NoThread \notin Threads
  BY Constants
<1>2. \A q \in PageIds :
        fixed'[q] = IF q = p THEN t ELSE IF Stands(t, q) THEN NoThread ELSE fixed[q]
  BY DEF Hold
<1>3. fixed' \in [PageIds -> Threads \cup {NoThread}]
  BY DEF Hold, Scalars
<1>4. \A q \in PageIds : Stands(t, q)' <=> q = p
  BY DEF Stands, Walks
<1>5. \A u \in Threads \ {t} : \A q \in PageIds : Stands(u, q)' <=> Stands(u, q)
  BY DEF Stands, Others
<1>6. \A u \in Threads : \A q \in PageIds : Stands(u, q) => fixed[q] = u
  BY DEF Standing
<1>7. ASSUME NEW u \in Threads, NEW q \in PageIds, Stands(u, q)' PROVE fixed'[q] = u
  <2>1. CASE u = t
    BY <1>2, <1>4, <1>7, <2>1
  <2>2. CASE u # t
    <3>1. fixed[q] = u
      BY <1>5, <1>6, <1>7, <2>2
    <3>2. q # p /\ ~Stands(t, q)
      BY <1>1, <1>6, <2>2, <3>1
    <3> QED BY <1>2, <3>1, <3>2
  <2> QED BY <2>1, <2>2
<1>8. ASSUME NEW q \in PageIds PROVE Left(q)' <=> Left(q)
  <2>1. CASE q = p
    BY <1>2, <1>4, <2>1 DEF Left, Free
  <2>2. CASE q # p /\ Stands(t, q)
    <3>1. fixed[q] = t /\ fixed'[q] = NoThread
      BY <1>2, <1>6, <2>2
    <3> QED BY <2>2, <3>1 DEF Left, Free
  <2>3. CASE q # p /\ ~Stands(t, q)
    <3>1. fixed'[q] = fixed[q] /\ ~Stands(t, q)'
      BY <1>2, <1>4, <2>3
    <3>2. fixed[q] # NoThread => fixed[q] \in Threads
      BY DEF Scalars
    <3>3. fixed[q] \in Threads => (Stands(fixed[q], q)' <=> Stands(fixed[q], q))
      BY <1>5, <2>3, <3>1
    <3> QED BY <3>1, <3>2, <3>3 DEF Left, Free, Stands
  <2> QED BY <2>1, <2>2, <2>3
<1>9. Standing' /\ SameLeft
  BY <1>7, <1>8 DEF Standing, SameLeft
<1> QED BY <1>1, <1>2, <1>3, <1>9

\* A call that stands on no page any more.
LEMMA HoldsNothingNow ==
  ASSUME Scalars, Standing, NEW t \in Threads,
         fixed' = HoldNothing(t), ~Walks(t)', Others(t)
  PROVE  /\ fixed' \in [PageIds -> Threads \cup {NoThread}]
         /\ Standing' /\ SameLeft
         /\ \A q \in PageIds : fixed[q] = NoThread => fixed'[q] = NoThread
<1>1. NoThread \notin Threads
  BY Constants
<1>2. \A q \in PageIds : fixed'[q] = IF Stands(t, q) THEN NoThread ELSE fixed[q]
  BY DEF HoldNothing
<1>3. fixed' \in [PageIds -> Threads \cup {NoThread}]
  BY DEF HoldNothing, Scalars
<1>4. \A q \in PageIds : ~Stands(t, q)'
  BY DEF Stands, Walks
<1>5. \A u \in Threads \ {t} : \A q \in PageIds : Stands(u, q)' <=> Stands(u, q)
  BY DEF Stands, Others
<1>6. \A u \in Threads : \A q \in PageIds : Stands(u, q) => fixed[q] = u
  BY DEF Standing
<1>7. ASSUME NEW u \in Threads, NEW q \in PageIds, Stands(u, q)' PROVE fixed'[q] = u
  <2>1. u # t
    BY <1>4, <1>7
  <2>2. fixed[q] = u
    BY <1>5, <1>6, <1>7, <2>1
  <2>3. ~Stands(t, q)
    BY <1>6, <2>1, <2>2
  <2> QED BY <1>2, <2>2, <2>3
<1>8. ASSUME NEW q \in PageIds PROVE Left(q)' <=> Left(q)
  <2>1. CASE Stands(t, q)
    <3>1. fixed[q] = t /\ fixed'[q] = NoThread
      BY <1>2, <1>6, <2>1
    <3> QED BY <2>1, <3>1 DEF Left, Free
  <2>2. CASE ~Stands(t, q)
    <3>1. fixed'[q] = fixed[q] /\ ~Stands(t, q)'
      BY <1>2, <1>4, <2>2
    <3>2. fixed[q] # NoThread => fixed[q] \in Threads
      BY DEF Scalars
    <3>3. fixed[q] \in Threads => (Stands(fixed[q], q)' <=> Stands(fixed[q], q))
      BY <1>5, <2>2, <3>1
    <3> QED BY <3>1, <3>2, <3>3 DEF Left, Free, Stands
  <2> QED BY <2>1, <2>2
<1>9. Standing' /\ SameLeft
  BY <1>7, <1>8 DEF Standing, SameLeft
<1> QED BY <1>1, <1>2, <1>3, <1>9

\* Proceed, with the latches that the calls before it come to.
Goes(t, p, nodes) ==
  \/ StepDown(t, p, nodes, Hold(t, p))
  \/ StoreInLeaf(t, p, nodes, Hold(t, p)) /\ fixed' = HoldNothing(t)

\* Proceed leaves the thread with the page it goes on to, or with none.
LEMMA ProceedGoes ==
  ASSUME NEW t, NEW p \in PageIds, NEW nodes, NEW latches, latches = Hold(t, p),
         fixed[p] = NoThread, Proceed(t, p, nodes, latches)
  PROVE  Goes(t, p, nodes)
<1>1. CASE StepDown(t, p, nodes, latches)
  BY <1>1 DEF Goes
<1>2. CASE StoreInLeaf(t, p, nodes, latches)
  <2>1. StoreInLeaf(t, p, nodes, Hold(t, p)) /\ fixed' = [Hold(t, p) EXCEPT ![p] = NoThread]
    BY <1>2 DEF StoreInLeaf, Unfix
  <2>2. [Hold(t, p) EXCEPT ![p] = NoThread] = HoldNothing(t)
    BY DEF Hold, HoldNothing
  <2> QED BY <2>1, <2>2 DEF Goes
<1> QED BY <1>1, <1>2 DEF Proceed

\* Who stands where, for a call at the root and for one on its way down.
LEMMA StandsWhere ==
  ASSUME NEW t \in Threads
  PROVE  /\ ~Walks(t) => \A q \in PageIds : ~Stands(t, q)
         /\ Walks(t) => \A q \in PageIds : Stands(t, q) <=> q = page[t]
BY DEF Stands, Walks

\* InsertRoot fixes the root.
LEMMA RootLatches ==
  ASSUME Scalars, NEW t \in Threads, ~Walks(t), NEW p \in PageIds
  PROVE  Fix(fixed, t, p) = Hold(t, p)
<1>1. \A q \in PageIds : ~Stands(t, q)
  BY StandsWhere
<1> QED BY <1>1 DEF Fix, Hold, Scalars

\* SplitRoot fixes three pages and unfixes two.
LEMMA SplitRootLatches ==
  ASSUME Scalars, NEW t \in Threads, ~Walks(t),
         NEW p \in PageIds, NEW next \in PageIds, NEW new \in PageIds,
         p # next, p # new, next # new,
         fixed[p] = NoThread, fixed[next] = NoThread, fixed[new] = NoThread,
         NEW side \in {p, next}
  PROVE  Unfix(KeepSide(Fix(Fix(Fix(fixed, t, p), t, next), t, new), side, p, next), new)
           = Hold(t, side)
<1> DEFINE three == Fix(Fix(Fix(fixed, t, p), t, next), t, new)
           left == Unfix(KeepSide(three, side, p, next), new)
<1>1. \A q \in PageIds : ~Stands(t, q)
  BY StandsWhere
<1>2. /\ DOMAIN three = PageIds
      /\ \A q \in PageIds : three[q] = IF q \in {p, next, new} THEN t ELSE fixed[q]
  BY DEF Fix, Scalars
<1> HIDE DEF three
<1>3. /\ left = [q \in PageIds |-> left[q]]
      /\ \A q \in PageIds : left[q] = IF q = side THEN t ELSE fixed[q]
  BY <1>2 DEF Unfix, KeepSide
<1> HIDE DEF left
<1>4. left = Hold(t, side)
  BY <1>1, <1>3 DEF Hold
<1> QED BY <1>4 DEF left, three

\* InsertWalk fixes the child and unfixes the parent.
LEMMA ChildLatches ==
  ASSUME Scalars, NEW t \in Threads, Walks(t), page[t] \in PageIds, fixed[page[t]] = t,
         NEW child \in PageIds, fixed[child] = NoThread
  PROVE  Unfix(Fix(fixed, t, child), page[t]) = Hold(t, child)
<1>1. \A q \in PageIds : Stands(t, q) <=> q = page[t]
  BY StandsWhere
<1>2. child # page[t]
  BY Constants
<1>3. \A q \in PageIds : Unfix(Fix(fixed, t, child), page[t])[q] =
        IF q = child THEN t ELSE IF q = page[t] THEN NoThread ELSE fixed[q]
  BY <1>2 DEF Fix, Unfix, Scalars
<1> QED BY <1>1, <1>3 DEF Fix, Unfix, Hold, Scalars

\* SplitChild fixes two pages and unfixes one of them, and the parent.
LEMMA SplitChildLatches ==
  ASSUME Scalars, NEW t \in Threads, Walks(t), page[t] \in PageIds, fixed[page[t]] = t,
         NEW child \in PageIds, NEW next \in PageIds, child # next,
         fixed[child] = NoThread, fixed[next] = NoThread,
         NEW side \in {child, next}
  PROVE  Unfix(KeepSide(Fix(Fix(fixed, t, child), t, next), side, child, next), page[t])
           = Hold(t, side)
<1> DEFINE two == Fix(Fix(fixed, t, child), t, next)
           left == Unfix(KeepSide(two, side, child, next), page[t])
<1>1. \A q \in PageIds : Stands(t, q) <=> q = page[t]
  BY StandsWhere
<1>2. /\ DOMAIN two = PageIds
      /\ \A q \in PageIds : two[q] = IF q \in {child, next} THEN t ELSE fixed[q]
  BY DEF Fix, Scalars
<1> HIDE DEF two
<1>3. child # page[t] /\ next # page[t]
  BY Constants
<1>4. /\ left = [q \in PageIds |-> left[q]]
      /\ \A q \in PageIds :
           left[q] = IF q = side THEN t ELSE IF q = page[t] THEN NoThread ELSE fixed[q]
  BY <1>2, <1>3 DEF Unfix, KeepSide
<1> HIDE DEF left
<1>5. left = Hold(t, side)
  BY <1>1, <1>4 DEF Hold
<1> QED BY <1>5 DEF left, two

\* A look-up fixes the next page and unfixes the one it stands on, if any.
LEMMA LookupLatches ==
  ASSUME Scalars, Standing, NEW t \in Threads, pc[t] \in {"lookup_root", "lookup_walk"},
         Walks(t) => page[t] \in PageIds
  PROVE  /\ LetGo(fixed, t) = HoldNothing(t)
         /\ \A p \in PageIds : fixed[p] = NoThread =>
              /\ LetGo(Fix(fixed, t, p), t) = Hold(t, p)
              /\ Unfix(LetGo(Fix(fixed, t, p), t), p) = HoldNothing(t)
<1>1. CASE pc[t] = "lookup_root"
  <2>1. \A q \in PageIds : ~Stands(t, q)
    BY <1>1, StandsWhere DEF Walks
  <2>2. LetGo(fixed, t) = HoldNothing(t)
    BY <1>1, <2>1 DEF LetGo, HoldNothing, Scalars
  <2>3. ASSUME NEW p \in PageIds, fixed[p] = NoThread
        PROVE  /\ LetGo(Fix(fixed, t, p), t) = Hold(t, p)
               /\ Unfix(LetGo(Fix(fixed, t, p), t), p) = HoldNothing(t)
    BY <1>1, <2>1, <2>3 DEF LetGo, Fix, Unfix, Hold, HoldNothing, Scalars
  <2> QED BY <2>2, <2>3
<1>2. CASE pc[t] = "lookup_walk"
  <2>1. Walks(t) /\ page[t] \in PageIds /\ \A q \in PageIds : Stands(t, q) <=> q = page[t]
    BY <1>2, StandsWhere DEF Walks
  <2>2. fixed[page[t]] = t /\ t # NoThread
    BY <2>1, Constants DEF Standing
  <2>3. LetGo(fixed, t) = HoldNothing(t)
    BY <1>2, <2>1 DEF LetGo, Unfix, HoldNothing, Scalars
  <2>4. ASSUME NEW p \in PageIds, fixed[p] = NoThread
        PROVE  /\ LetGo(Fix(fixed, t, p), t) = Hold(t, p)
               /\ Unfix(LetGo(Fix(fixed, t, p), t), p) = HoldNothing(t)
    <3>1. p # page[t]
      BY <2>2, <2>4
    <3>2. LetGo(Fix(fixed, t, p), t) = Unfix(Fix(fixed, t, p), page[t])
      BY <1>2 DEF LetGo
    <3>3. LetGo(Fix(fixed, t, p), t) = Hold(t, p)
      BY <2>1, <2>2, <2>4, <3>2, ChildLatches
    <3>4. Unfix(Hold(t, p), p) = HoldNothing(t)
      BY <2>4 DEF Unfix, Hold, HoldNothing
    <3> QED BY <3>3, <3>4
  <2> QED BY <2>3, <2>4
<1> QED BY <1>1, <1>2

-----------------------------------------------------------------------------
(***************************************************************************)
(* The steps.                                                              *)
(***************************************************************************)
\* Bounds of the page numbers.
LEMMA PageNumbers ==
  /\ MaxPages \in Nat
  /\ Scalars => next_page \in Nat
  /\ \A p \in PageIds : p \in Nat
BY Constants DEF Scalars, PageIds

\* A call begins: it has the root, which was handed out.
LEMMA BeginStep ==
  ASSUME PageInv, NEW t \in Threads, NEW label \in {"insert_root", "lookup_root"},
         NEW k \in Keys, NEW v \in Values \cup {NoValue}, Begin(t, label, k, v),
         label = "insert_root" => v \in Values
  PROVE  PageInv' /\ SameLeft
<1>1. /\ node' = node /\ next_page' = next_page /\ root' = root /\ fixed' = fixed
      /\ answer' = answer /\ fault' = fault /\ pc[t] = "idle"
  BY DEF Begin, shared
<1>2. Scalars
  BY DEF PageInv
<1>3. /\ pc' \in [Threads -> States] /\ pc'[t] = label
      /\ \A u \in Threads \ {t} : pc'[u] = pc[u]
  BY <1>2 DEF Scalars, Begin, States
<1>4. /\ args' \in [Threads -> [key : Keys, value : Values \cup {NoValue}]]
      /\ args'[t].value = v
      /\ \A u \in Threads \ {t} : args'[u] = args[u]
  BY <1>2 DEF Scalars, Begin
<1>5. /\ page' \in [Threads -> PageIds \cup {0}] /\ page'[t] = root
      /\ \A u \in Threads \ {t} : page'[u] = page[u]
  BY <1>2 DEF Scalars, Begin
<1>6. error' \in [Threads -> BOOLEAN]
  <2>1. error' = [error EXCEPT ![t] = error[t] /\ ~Clears] /\ error \in [Threads -> BOOLEAN]
    BY <1>2 DEF Scalars, Begin
  <2> QED BY <2>1, Zenon
<1>7. Scalars'
  BY <1>1, <1>2, <1>3, <1>4, <1>5, <1>6 DEF Scalars
<1>8. Others(t)
  BY <1>3, <1>4, <1>5 DEF Others
<1>9. ASSUME NEW u \in Threads PROVE GoodCall(u)'
  <2>1. CASE u = t
    <3>1. ~Walks(u)' /\ (Inserts(u)' => v \in Values)
      BY <1>3, <2>1 DEF Walks, Inserts
    <3>2. page'[u] \in PageIds /\ page'[u] < next_page'
      BY <1>1, <1>2, <1>5, <2>1 DEF PageInv, Scalars
    <3> QED BY <1>4, <2>1, <3>1, <3>2 DEF GoodCall
  <2>2. CASE u # t
    <3>1. GoodCall(u)
      BY DEF PageInv
    <3>2. next_page \in Nat
      BY <1>2, PageNumbers
    <3> QED BY <1>1, <1>2, <1>8, <2>2, <3>1, <3>2, OtherCalls
  <2> QED BY <2>1, <2>2
<1>10. Standing' /\ SameLeft
  <2>1. ASSUME NEW p \in PageIds, NEW u \in Threads PROVE Stands(u, p)' <=> Stands(u, p)
    <3>1. CASE u = t
      BY <1>1, <1>3, <3>1 DEF Stands
    <3>2. CASE u # t
      BY <1>3, <1>5, <3>2 DEF Stands
    <3> QED BY <3>1, <3>2
  <2>2. \A p \in PageIds : fixed[p] = NoThread \/ fixed[p] \in Threads
    BY <1>2 DEF Scalars
  <2>3. ASSUME NEW p \in PageIds PROVE Left(p)' <=> Left(p)
    BY <1>1, <2>1, <2>2 DEF Left, Free, Stands
  <2> QED BY <1>1, <2>1, <2>3 DEF PageInv, Standing, SameLeft
<1>11. SoundPages(node)' /\ MadePages(node, next_page)'
  BY <1>1 DEF PageInv, SoundPages, MadePages
<1>12. root' < next_page' /\ \A p \in PageIds : p >= next_page' => fixed'[p] = NoThread
  BY <1>1 DEF PageInv
<1> QED BY <1>7, <1>9, <1>10, <1>11, <1>12 DEF PageInv

\* A step that leaves everything but the thread's call alone, or gives up.
LEMMA FaultStep ==
  ASSUME PageInv, NEW kind \in {"assert", "unfix"}, Fault(kind)
  PROVE  PageInv' /\ SameLeft
<1>1. /\ node' = node /\ next_page' = next_page /\ root' = root /\ fixed' = fixed
      /\ pc' = pc /\ args' = args /\ page' = page /\ error' = error /\ answer' = answer
      /\ fault' = kind
  BY DEF Fault, shared
<1>2. Scalars'
  BY <1>1 DEF PageInv, Scalars
<1>3. \A u \in Threads : GoodCall(u)'
  BY <1>1 DEF PageInv, GoodCall, AtRootOf, Walks, Inserts
<1>4. /\ Standing' /\ SameLeft /\ SoundPages(node)' /\ MadePages(node, next_page)'
  BY <1>1 DEF PageInv, Standing, SameLeft, Stands, Left, Free, SoundPages, MadePages
<1>5. root' < next_page' /\ \A p \in PageIds : p >= next_page' => fixed'[p] = NoThread
  BY <1>1 DEF PageInv
<1> QED BY <1>2, <1>3, <1>4, <1>5 DEF PageInv

\* Where page p does not take the key, only "fault" changes.
LEMMA StumblesStep ==
  ASSUME PageInv, NEW t \in Threads, NEW p, NEW nodes, Stumbles(t, p, nodes)
  PROVE  PageInv' /\ SameLeft
<1>1. Fault("unfix") \/ Fault("assert")
  BY DEF Stumbles
<1> QED BY <1>1, FaultStep

(***************************************************************************)
(* What the pages may become in a step that hands out pages: their         *)
(* headers stay right, and an inner page stays one.                        *)
(***************************************************************************)
Grown(nodes, made, top) ==
  /\ made \in Nat /\ next_page <= made /\ made <= MaxPages + 1
  /\ top \in PageIds /\ top < made
  /\ SoundPages(nodes)
  /\ MadePages(nodes, made)
  /\ \A p \in PageIds : ~node[p].leaf => ~nodes[p].leaf

\* Pages that did not change have grown.
LEMMA GrownStays ==
  ASSUME PageInv
  PROVE  Grown(node, next_page, root)
<1>1. next_page \in Nat /\ next_page <= MaxPages + 1
  BY Constants DEF PageInv, Scalars
<1> QED BY <1>1 DEF PageInv, Scalars, Grown

\* Page p takes the key, or leads to the page that does.
LEMMA ProceedStep ==
  ASSUME PageInv, NEW t \in Threads, NEW p \in PageIds, NEW nodes,
         Inserts(t), fixed[p] = NoThread, p < next_page',
         Grown(nodes, next_page', root'), Goes(t, p, nodes)
  PROVE  PageInv' /\ SameLeft
<1>1. Scalars /\ Standing
  BY DEF PageInv
<1>2. /\ args[t].value \in Values /\ args[t].key \in Keys
  BY DEF PageInv, GoodCall, Scalars
<1>3. /\ next_page' \in Nat /\ next_page <= next_page' /\ next_page' <= MaxPages + 1
      /\ root' \in PageIds /\ root' < next_page'
      /\ nodes \in [PageIds -> AnyPage]
      /\ \A q \in PageIds : Sound(nodes[q])
      /\ MadePages(nodes, next_page')
      /\ \A q \in PageIds : ~node[q].leaf => ~nodes[q].leaf
  BY DEF Grown, SoundPages
<1>4. next_page' \in 1 .. MaxPages + 1
  BY <1>1, <1>3, Constants DEF Scalars
<1>5. CASE StepDown(t, p, nodes, Hold(t, p))
  <2>1. /\ ~nodes[p].leaf /\ node' = nodes /\ fixed' = Hold(t, p)
        /\ args' = args /\ error' = error /\ answer' = answer /\ fault' = fault
    BY <1>5 DEF StepDown
  <2>2. /\ pc' \in [Threads -> States] /\ pc'[t] = "insert_walk"
        /\ \A u \in Threads \ {t} : pc'[u] = pc[u]
    BY <1>1, <1>5 DEF StepDown, Scalars, States
  <2>3. /\ page' \in [Threads -> PageIds \cup {0}] /\ page'[t] = p
        /\ \A u \in Threads \ {t} : page'[u] = page[u]
    BY <1>1, <1>5 DEF StepDown, Scalars
  <2>4. Others(t)
    BY <2>1, <2>2, <2>3 DEF Others
  <2>5. /\ fixed' \in [PageIds -> Threads \cup {NoThread}]
        /\ Standing' /\ SameLeft
        /\ \A q \in PageIds : q # p /\ fixed[q] = NoThread => fixed'[q] = NoThread
    BY <1>1, <2>1, <2>2, <2>3, <2>4, HoldsNow DEF Walks
  <2>6. Scalars'
    BY <1>1, <1>3, <1>4, <2>1, <2>2, <2>3, <2>5 DEF Scalars
  <2>7. ASSUME NEW u \in Threads PROVE GoodCall(u)'
    <3>1. CASE u = t
      BY <1>2, <2>1, <2>2, <2>3, <3>1 DEF GoodCall, AtRootOf, Walks, Inserts
    <3>2. CASE u # t
      <4>1. GoodCall(u)
        BY DEF PageInv
      <4> QED BY <1>1, <1>3, <2>1, <2>4, <3>2, <4>1, OtherCalls
    <3> QED BY <3>1, <3>2
  <2>8. SoundPages(node)' /\ MadePages(node, next_page)'
    BY <1>3, <2>1 DEF SoundPages, MadePages
  <2>9. ASSUME NEW q \in PageIds, q >= next_page' PROVE fixed'[q] = NoThread
    <3>1. q >= next_page /\ q # p
      BY <1>1, <1>3, <2>9, PageNumbers
    <3> QED BY <2>5, <3>1 DEF PageInv
  <2> QED BY <1>3, <2>5, <2>6, <2>7, <2>8, <2>9 DEF PageInv
<1>6. CASE StoreInLeaf(t, p, nodes, Hold(t, p)) /\ fixed' = HoldNothing(t)
  <2> DEFINE n == nodes[p]
             m == InsertLeaf(n, args[t].key, args[t].value)
  <2>1. /\ n.leaf /\ Fits(n, CellBytes(TRUE, args[t].key, args[t].value))
        /\ node' = [nodes EXCEPT ![p] = m] /\ fixed' = HoldNothing(t)
        /\ Return(t, "SUCCESS", NoValue)
    BY <1>6 DEF StoreInLeaf
  <2>2. Sound(n)
    BY <1>3
  <2> HIDE DEF n
  <2>3. Sound(m) /\ m.leaf
    BY <1>2, <2>1, <2>2, InsertLeafSound
  <2>4. m \in AnyPage
    BY <2>3, SoundType DEF AnyPage
  <2> HIDE DEF m
  <2>5. /\ node' \in [PageIds -> AnyPage]
        /\ \A q \in PageIds : node'[q] = IF q = p THEN m ELSE nodes[q]
    BY <1>3, <2>1, <2>4
  <2>6. SoundPages(node)'
    BY <1>3, <2>3, <2>5 DEF SoundPages
  <2>7. MadePages(node, next_page)'
    BY <1>3, <2>3, <2>5 DEF MadePages
  <2>8. \A q \in PageIds : ~node[q].leaf => ~node'[q].leaf
    BY <1>3, <2>1, <2>5 DEF n
  <2>9. /\ pc' \in [Threads -> States]
        /\ args' \in [Threads -> [key : Keys, value : Values \cup {NoValue}]]
        /\ page' \in [Threads -> PageIds \cup {0}]
        /\ error' \in [Threads -> BOOLEAN]
        /\ answer' \in [Threads -> [code : {"SUCCESS", "ENOENT", "ENOMEM"},
                                    value : Values \cup {NoValue}]]
        /\ fault' = fault
        /\ pc'[t] = "idle" /\ page'[t] = 0 /\ GoodCall(t)'
        /\ Others(t)
    BY <1>1, <2>1, Returned
  <2>10. /\ fixed' \in [PageIds -> Threads \cup {NoThread}]
         /\ Standing' /\ SameLeft
         /\ \A q \in PageIds : fixed[q] = NoThread => fixed'[q] = NoThread
    <3>1. ~Walks(t)'
      BY <2>9 DEF Walks
    <3> QED BY <1>1, <2>1, <2>9, <3>1, HoldsNothingNow
  <2>11. Scalars'
    BY <1>1, <1>3, <1>4, <2>9, <2>10 DEF Scalars
  <2>12. ASSUME NEW u \in Threads PROVE GoodCall(u)'
    <3>1. CASE u = t
      BY <2>9, <3>1
    <3>2. CASE u # t
      <4>1. GoodCall(u)
        BY DEF PageInv
      <4> QED BY <1>1, <1>3, <2>8, <2>9, <3>2, <4>1, OtherCalls
    <3> QED BY <3>1, <3>2
  <2>13. ASSUME NEW q \in PageIds, q >= next_page' PROVE fixed'[q] = NoThread
    <3>1. q >= next_page
      BY <1>1, <1>3, <2>13, PageNumbers
    <3> QED BY <2>10, <3>1 DEF PageInv
  <2> QED BY <1>3, <2>6, <2>7, <2>10, <2>11, <2>12, <2>13 DEF PageInv
<1> QED BY <1>5, <1>6 DEF Goes

\* The links of the halves of an inner page are links of the page, and next.
LEMMA HalfLinks ==
  ASSUME NEW n, Sound(n), ~n.leaf, NEW next \in PageIds
  PROVE  /\ \A j \in 1 .. Len(Lower(n, next).cells) + 1 :
              Link(Lower(n, next), j) = next
                \/ \E i \in 1 .. Len(n.cells) + 1 : Link(Lower(n, next), j) = Link(n, i)
         /\ \A j \in 1 .. Len(Upper(n).cells) + 1 :
              \E i \in 1 .. Len(n.cells) + 1 : Link(Upper(n), j) = Link(n, i)
<1> DEFINE len == Len(n.cells)
           m == SplitAt(n)
           a == Lower(n, next)
           b == Upper(n)
<1>1. len \in Nat /\ m \in 0 .. len
  <2>1. \A x \in Nat : x \div 2 \in 0 .. x
    OBVIOUS
  <2> QED BY <2>1, SoundType DEF SplitAt
<1> DEFINE S == CellType(n.leaf)
           s == n.cells
<1>2. s \in Seq(S)
  BY SoundType
<1>3. /\ a.right = next /\ b.right = n.right
      /\ a.cells = SubSeq(s, 1, m) /\ b.cells = SubSeq(s, m + 1, len)
  BY HalvesSound
<1> HIDE DEF a, b, S, s, m, len
<1>4. Len(s) = len
  BY DEF s, len
<1>5. /\ Len(a.cells) = m /\ \A j \in 1 .. m : a.cells[j] = s[j]
      /\ Len(b.cells) = len - m /\ \A j \in 1 .. len - m : b.cells[j] = s[m + j]
  BY <1>1, <1>2, <1>3, <1>4
<1>6. ASSUME NEW j \in 1 .. Len(a.cells) + 1
      PROVE  Link(a, j) = next \/ \E i \in 1 .. len + 1 : Link(a, j) = Link(n, i)
  <2>1. CASE j = m + 1
    BY <1>3, <1>5, <2>1 DEF Link
  <2>2. CASE j # m + 1
    <3>1. j \in 1 .. len + 1 /\ Link(a, j) = Link(n, j)
      BY <1>1, <1>4, <1>5, <2>2 DEF Link, s
    <3> QED BY <3>1
  <2> QED BY <2>1, <2>2
<1>7. ASSUME NEW j \in 1 .. Len(b.cells) + 1
      PROVE  \E i \in 1 .. len + 1 : Link(b, j) = Link(n, i)
  <2>1. m + j \in 1 .. len + 1 /\ Link(b, j) = Link(n, m + j)
    BY <1>1, <1>3, <1>4, <1>5 DEF Link, s
  <2> QED BY <2>1
<1> QED BY <1>6, <1>7 DEF a, b, len

\* A page that is split into itself and the page handed out next.
LEMMA HalvesGrown ==
  ASSUME PageInv, NEW p \in PageIds, p < next_page, NEW made, NEW top,
         next_page \in PageIds, made \in Nat, next_page < made, made <= MaxPages + 1,
         top \in PageIds, top < made
  PROVE  Grown([node EXCEPT ![p] = Lower(node[p], next_page),
                            ![next_page] = Upper(node[p])], made, top)
<1> DEFINE n == node[p]
           a == Lower(node[p], next_page)
           b == Upper(node[p])
           nodes == [node EXCEPT ![p] = a, ![next_page] = b]
<1>1. Sound(n) /\ node \in [PageIds -> AnyPage] /\ \A r \in PageIds : Sound(node[r])
  BY DEF PageInv, SoundPages
<1>2. Sound(a) /\ Sound(b) /\ a.leaf = n.leaf /\ b.leaf = n.leaf
  <2> HIDE DEF n
  <2> QED BY <1>1, HalvesSound DEF n
<1>3. a \in AnyPage /\ b \in AnyPage
  <2>1. \A m : Sound(m) => m \in AnyPage
    BY SoundType DEF AnyPage
  <2> HIDE DEF a, b
  <2> QED BY <1>2, <2>1
<1>4. next_page \in Nat /\ \A r \in PageIds : r \in Nat
  BY PageNumbers DEF PageInv
<1>0. /\ \A x \in Nat : x <= next_page => x < made
      /\ next_page <= made
  BY <1>4
<1>5. ~n.leaf =>
        /\ \A j \in 1 .. Len(a.cells) + 1 : Link(a, j) < made
        /\ \A j \in 1 .. Len(b.cells) + 1 : Link(b, j) < made
  <2> SUFFICES ASSUME ~n.leaf
               PROVE  /\ \A j \in 1 .. Len(a.cells) + 1 : Link(a, j) < made
                      /\ \A j \in 1 .. Len(b.cells) + 1 : Link(b, j) < made
    OBVIOUS
  <2>1. \A i \in 1 .. Len(n.cells) + 1 : Link(n, i) < next_page /\ Link(n, i) \in Nat
    <3>1. \A i \in 1 .. Len(n.cells) + 1 : Link(n, i) \in PageIds
      <4> HIDE DEF n
      <4> QED BY <1>1, LinkType
    <3> QED BY <1>4, <3>1 DEF PageInv, MadePages
  <2>2. /\ \A j \in 1 .. Len(a.cells) + 1 :
             Link(a, j) = next_page
               \/ \E i \in 1 .. Len(n.cells) + 1 : Link(a, j) = Link(n, i)
        /\ \A j \in 1 .. Len(b.cells) + 1 :
             \E i \in 1 .. Len(n.cells) + 1 : Link(b, j) = Link(n, i)
    BY <1>1, HalfLinks
  <2> HIDE DEF a, b, n
  <2>3. \A i \in 1 .. Len(n.cells) + 1 : Link(n, i) < made
    BY <1>0, <1>4, <2>1
  <2> QED BY <1>0, <1>4, <2>2, <2>3
<1> HIDE DEF a, b
<1>6. /\ nodes \in [PageIds -> AnyPage]
      /\ \A r \in PageIds :
           nodes[r] = IF r = next_page THEN b ELSE IF r = p THEN a ELSE node[r]
  BY <1>1, <1>3, <1>4
<1> HIDE DEF nodes
<1>7. SoundPages(nodes)
  BY <1>1, <1>2, <1>6 DEF SoundPages
<1>8. \A r \in PageIds : r >= next_page => node[r].leaf
  BY DEF PageInv, MadePages
<1>9. MadePages(nodes, made)
  <2>1. ASSUME NEW r \in PageIds, r >= made PROVE nodes[r].leaf
    <3>1. r # next_page /\ r # p /\ r >= next_page
      BY <1>4, <2>1
    <3> QED BY <1>6, <1>8, <3>1
  <2>2. ASSUME NEW r \in PageIds, ~nodes[r].leaf,
               NEW j \in 1 .. Len(nodes[r].cells) + 1
        PROVE  Link(nodes[r], j) < made
    <3>1. CASE r = next_page \/ r = p
      BY <1>2, <1>5, <1>6, <2>2, <3>1
    <3>2. CASE r # next_page /\ r # p
      <4>1. nodes[r] = node[r]
        BY <1>6, <3>2
      <4>2. Link(node[r], j) < next_page
        BY <2>2, <4>1 DEF PageInv, MadePages
      <4>3. Link(node[r], j) \in PageIds
        BY <1>1, <2>2, <4>1, LinkType
      <4> DEFINE x == Link(node[r], j)
      <4>4. x \in Nat /\ x < next_page
        BY <1>4, <4>2, <4>3
      <4> HIDE DEF x
      <4>5. x < made
        BY <1>0, <1>4, <4>4
      <4> QED BY <4>1, <4>5 DEF x
    <3> QED BY <3>1, <3>2
  <2> QED BY <2>1, <2>2 DEF MadePages
<1>10. \A r \in PageIds : ~node[r].leaf => ~nodes[r].leaf
  <2>1. node[next_page].leaf
    BY <1>4, <1>8
  <2> QED BY <1>2, <1>6, <2>1
<1>11. Grown(nodes, made, top)
  BY <1>0, <1>4, <1>7, <1>9, <1>10 DEF Grown
<1> QED BY <1>11 DEF nodes, a, b

\* An inner page more, or changed.
LEMMA OverGrown ==
  ASSUME PageInv, NEW made, NEW top, NEW nodes, Grown(nodes, made, top),
         NEW q \in PageIds, q < made,
         NEW over, Sound(over), ~over.leaf,
         \A j \in 1 .. Len(over.cells) + 1 : Link(over, j) < made
  PROVE  Grown([nodes EXCEPT ![q] = over], made, top)
<1> DEFINE z == [nodes EXCEPT ![q] = over]
<1>1. /\ nodes \in [PageIds -> AnyPage] /\ \A r \in PageIds : Sound(nodes[r])
      /\ MadePages(nodes, made) /\ \A r \in PageIds : ~node[r].leaf => ~nodes[r].leaf
  BY DEF Grown, SoundPages
<1>2. over \in AnyPage
  BY SoundType DEF AnyPage
<1>3. /\ z \in [PageIds -> AnyPage]
      /\ \A r \in PageIds : z[r] = IF r = q THEN over ELSE nodes[r]
  BY <1>1, <1>2
<1> HIDE DEF z
<1>4. SoundPages(z)
  BY <1>1, <1>3 DEF SoundPages
<1>5. ~(q >= made)
  BY PageNumbers DEF Grown
<1>6. MadePages(z, made)
  BY <1>1, <1>3, <1>5 DEF MadePages
<1>7. \A r \in PageIds : ~node[r].leaf => ~z[r].leaf
  BY <1>1, <1>3
<1>8. Grown(z, made, top)
  BY <1>4, <1>6, <1>7 DEF Grown
<1> QED BY <1>8 DEF z

\* What InsertRoot does with its latches.
LEMMA InsertRootGoes ==
  ASSUME PageInv, NEW t \in Threads, InsertRoot(t)
  PROVE  LET p == page[t]
         IN  /\ AtRoot(t) /\ ~Full(node[p], args[t].key, args[t].value)
             /\ \/ Goes(t, p, node) /\ UNCHANGED <<next_page, root>>
                \/ Stumbles(t, p, node)
<1>1. page[t] \in PageIds /\ fixed[page[t]] = NoThread /\ ~Walks(t) /\ Scalars
  BY DEF InsertRoot, AtRoot, Free, Walks, PageInv, GoodCall, AtRootOf
<1>2. Fix(fixed, t, page[t]) = Hold(t, page[t])
  BY <1>1, RootLatches
<1> QED BY <1>1, <1>2, ProceedGoes DEF InsertRoot

\* InsertRoot keeps the invariant.
LEMMA InsertRootStep ==
  ASSUME PageInv, NEW t \in Threads, InsertRoot(t)
  PROVE  PageInv' /\ SameLeft
<1> DEFINE p == page[t]
<1>1. Inserts(t) /\ p \in PageIds /\ p < next_page /\ fixed[p] = NoThread
  BY DEF InsertRoot, AtRoot, Free, Inserts, PageInv, GoodCall, AtRootOf
<1>2. CASE Goes(t, p, node) /\ UNCHANGED <<next_page, root>>
  <2>1. Grown(node, next_page', root') /\ p < next_page'
    BY <1>1, <1>2, GrownStays
  <2> QED BY <1>1, <1>2, <2>1, ProceedStep
<1>3. CASE Stumbles(t, p, node)
  BY <1>3, StumblesStep
<1> QED BY <1>2, <1>3, InsertRootGoes

\* The key goes to one of the halves.
LEMMA SideIs ==
  ASSUME NEW k, NEW split, NEW p, NEW next
  PROVE  Side(k, split, p, next) = p \/ Side(k, split, p, next) = next
BY DEF Side

\* The pages after SplitRoot has split page p: a new root is over the halves.
LEMMA SplitRootGrown ==
  ASSUME PageInv, NEW t \in Threads, Inserts(t),
         NEW p \in PageIds, p < next_page,
         Full(node[p], args[t].key, args[t].value), next_page + 1 \in PageIds,
         NEW nodes,
         nodes = [node EXCEPT
                    ![p] = Lower(node[p], next_page), ![next_page] = Upper(node[p]),
                    ![next_page + 1] = NewRoot(p, SplitKey(node[p]), next_page)]
  PROVE  /\ next_page \in PageIds /\ p # next_page /\ p # next_page + 1
         /\ next_page # next_page + 1
         /\ SplitKey(node[p]) \in Keys /\ Len(node[p].cells) >= 2
         /\ Grown(nodes, next_page + 2, next_page + 1)
<1> DEFINE n == node[p]
           next == next_page
           new == next_page + 1
           over == NewRoot(p, SplitKey(n), next)
<1>1. args[t].value \in Values /\ args[t].key \in Keys
  BY DEF PageInv, GoodCall, Scalars
<1>2. Sound(n) /\ Full(n, args[t].key, args[t].value)
  BY DEF PageInv, SoundPages
<1>3. SplitKey(n) \in Keys
  <2> HIDE DEF n
  <2> QED BY <1>1, <1>2, FullHasTwo, SplitKeyType
<1>4. /\ next_page \in Nat /\ MaxPages \in Nat /\ next_page >= 1 /\ new <= MaxPages
  BY PageNumbers, Constants DEF PageInv, Scalars, PageIds
<1>5. next \in PageIds /\ p \in Nat
  BY <1>4 DEF PageIds
<1>6. /\ Sound(over) /\ over.leaf = FALSE /\ over.right = next
      /\ over.cells = <<[key |-> SplitKey(n), ref |-> p]>>
  <2> HIDE DEF n
  <2> QED BY <1>3, <1>5, NewRootSound
<1>7. Len(over.cells) = 1 /\ over.cells[1].ref = p
  <2> DEFINE c == [key |-> SplitKey(n), ref |-> p]
  <2>1. c.ref = p
    OBVIOUS
  <2> HIDE DEF c
  <2>2. Len(<<c>>) = 1 /\ <<c>>[1] = c
    OBVIOUS
  <2> QED BY <1>6, <2>1, <2>2 DEF c
<1> HIDE DEF over
<1>8. ASSUME NEW j \in 1 .. Len(over.cells) + 1 PROVE Link(over, j) < next_page + 2
  <2>1. j = 1 \/ j = 2
    BY <1>7
  <2>2. Link(over, j) = p \/ Link(over, j) = next
    BY <1>6, <1>7, <2>1 DEF Link
  <2> QED BY <1>4, <1>5, <2>2
<1>9. /\ next_page + 2 \in Nat /\ next_page < next_page + 2
      /\ next_page + 2 <= MaxPages + 1
      /\ new < next_page + 2 /\ new # p /\ new # next_page /\ p < next_page + 2
      /\ next < next_page + 2
  BY <1>4, <1>5
<1>10. Grown(nodes, next_page + 2, new)
  <2> DEFINE made == next_page + 2
             q == new
             halves == [node EXCEPT ![p] = Lower(node[p], next_page),
                                    ![next_page] = Upper(node[p])]
  <2>1. /\ made \in Nat /\ next_page < made /\ made <= MaxPages + 1
        /\ q < made /\ q \in PageIds
        /\ \A j \in 1 .. Len(over.cells) + 1 : Link(over, j) < made
        /\ nodes = [halves EXCEPT ![q] = over]
    BY <1>8, <1>9 DEF over
  <2> HIDE DEF made, q
  <2>2. Grown(halves, made, q)
    BY <1>5, <2>1, HalvesGrown
  <2> HIDE DEF halves
  <2>3. Grown([halves EXCEPT ![q] = over], made, q)
    BY <1>6, <2>1, <2>2, OverGrown
  <2> QED BY <2>1, <2>3 DEF made, q
<1>11. Len(n.cells) >= 2
  <2> HIDE DEF n
  <2> QED BY <1>1, <1>2, FullHasTwo
<1> QED BY <1>3, <1>4, <1>5, <1>9, <1>10, <1>11

\* What SplitRoot does with its latches.
LEMMA SplitRootGoes ==
  ASSUME PageInv, NEW t \in Threads, SplitRoot(t)
  PROVE  LET p == page[t]
             n == node[p]
             next == next_page
             new == next_page + 1
             nodes == [node EXCEPT ![p] = Lower(n, next), ![next] = Upper(n),
                                   ![new] = NewRoot(p, SplitKey(n), next)]
             side == Side(args[t].key, SplitKey(n), p, next)
         IN  /\ AtRoot(t) /\ Full(n, args[t].key, args[t].value) /\ new \in PageIds
             /\ \/ Goes(t, side, nodes) /\ next_page' = next_page + 2 /\ root' = new
                \/ Stumbles(t, side, nodes)
<1> DEFINE p == page[t]
           n == node[p]
           next == next_page
           new == next_page + 1
           nodes == [node EXCEPT ![p] = Lower(n, next), ![next] = Upper(n),
                                 ![new] = NewRoot(p, SplitKey(n), next)]
           side == Side(args[t].key, SplitKey(n), p, next)
           three == Fix(Fix(Fix(fixed, t, p), t, next), t, new)
           latches == Unfix(KeepSide(three, side, p, next), new)
<1>1. /\ AtRoot(t) /\ Full(n, args[t].key, args[t].value) /\ new \in PageIds
      /\ \/ Proceed(t, side, nodes, latches) /\ next_page' = next_page + 2 /\ root' = new
         \/ Stumbles(t, side, nodes)
  BY DEF SplitRoot
<1>2. p \in PageIds /\ fixed[p] = NoThread /\ p < next_page /\ ~Walks(t) /\ Scalars
  BY <1>1 DEF AtRoot, Free, Walks, PageInv, GoodCall, AtRootOf
<1>3. /\ next \in PageIds /\ next_page \in Nat /\ p # next /\ p # new /\ next # new
      /\ next >= next_page /\ new >= next_page
  <2>1. next_page \in Nat /\ next_page >= 1 /\ p \in Nat
    BY <1>2, PageNumbers DEF Scalars
  <2>2. next \in PageIds
    BY <1>1, <2>1, Constants DEF PageIds
  <2> QED BY <1>2, <2>1, <2>2
<1>4. fixed[next] = NoThread /\ fixed[new] = NoThread
  BY <1>1, <1>3 DEF PageInv
<1>5. side \in {p, next}
  BY DEF Side
<1> HIDE DEF nodes, side, p
<1>6. latches = Hold(t, side)
  <2> HIDE DEF next, new
  <2> QED BY <1>1, <1>2, <1>3, <1>4, <1>5, SplitRootLatches
<1> HIDE DEF latches
<1>7. ASSUME Proceed(t, side, nodes, latches) PROVE Goes(t, side, nodes)
  <2>1. side \in PageIds /\ fixed[side] = NoThread
    BY <1>2, <1>3, <1>4, <1>5
  <2> QED BY <1>6, <1>7, <2>1, ProceedGoes
<1> QED BY <1>1, <1>7 DEF nodes, side, p

\* SplitRoot keeps the invariant.
LEMMA SplitRootStep ==
  ASSUME PageInv, NEW t \in Threads, SplitRoot(t)
  PROVE  PageInv' /\ SameLeft
<1> DEFINE p == page[t]
           n == node[p]
           next == next_page
           new == next_page + 1
           over == NewRoot(p, SplitKey(n), next)
           nodes == [node EXCEPT ![p] = Lower(n, next), ![next] = Upper(n), ![new] = over]
           side == Side(args[t].key, SplitKey(n), p, next)
<1>1. Inserts(t) /\ p \in PageIds /\ p < next_page /\ fixed[p] = NoThread
  BY DEF SplitRoot, AtRoot, Free, Inserts, PageInv, GoodCall, AtRootOf
<1>2. /\ Full(n, args[t].key, args[t].value) /\ new \in PageIds
      /\ \/ Goes(t, side, nodes) /\ next_page' = next_page + 2 /\ root' = new
         \/ Stumbles(t, side, nodes)
  BY SplitRootGoes
<1>3. CASE Stumbles(t, side, nodes)
  BY <1>3, StumblesStep
<1>4. CASE Goes(t, side, nodes) /\ next_page' = next_page + 2 /\ root' = new
  <2>1. /\ next_page \in PageIds /\ p # next_page /\ p # next_page + 1
        /\ Grown(nodes, next_page + 2, next_page + 1)
    <3> DEFINE no == nodes
    <3>1. no = [node EXCEPT
                  ![p] = Lower(node[p], next_page), ![next_page] = Upper(node[p]),
                  ![next_page + 1] = NewRoot(p, SplitKey(node[p]), next_page)]
      OBVIOUS
    <3> HIDE DEF no
    <3>2. /\ next_page \in PageIds /\ p # next_page /\ p # next_page + 1
          /\ Grown(no, next_page + 2, next_page + 1)
      BY <1>1, <1>2, <3>1, SplitRootGrown
    <3> QED BY <3>2 DEF no
  <2>2. next_page \in Nat /\ p < next_page + 2 /\ next < next_page + 2
    <3>1. next_page \in Nat /\ p \in Nat
      BY <1>1, PageNumbers DEF PageInv
    <3> QED BY <1>1, <3>1
  <2>3. side \in PageIds /\ fixed[side] = NoThread /\ side < next_page'
    <3>1. fixed[next] = NoThread
      BY <2>1, <2>2 DEF PageInv
    <3> HIDE DEF nodes
    <3> QED BY <1>1, <1>4, <2>1, <2>2, <3>1, SideIs
  <2>4. Grown(nodes, next_page', root')
    BY <1>4, <2>1
  <2> HIDE DEF nodes, side
  <2> QED BY <1>1, <1>4, <2>3, <2>4, ProceedStep
<1> QED BY <1>2, <1>3, <1>4

\* The page a walking call waits for.
LEMMA WalkPlace ==
  ASSUME PageInv, NEW t \in Threads, Walks(t)
  PROVE  LET parent == node[page[t]]
             child == Child(parent, args[t].key)
         IN  /\ page[t] \in PageIds /\ page[t] < next_page
             /\ fixed[page[t]] = t
             /\ Sound(parent) /\ ~parent.leaf
             /\ child \in PageIds /\ child < next_page
             /\ child = Link(parent, FindPointer(parent, args[t].key))
             /\ FindPointer(parent, args[t].key) \in 1 .. Len(parent.cells) + 1
<1> DEFINE p == page[t]
           parent == node[p]
           k == args[t].key
<1>1. p \in PageIds /\ ~parent.leaf
  BY DEF PageInv, GoodCall
<1>2. Sound(parent)
  BY <1>1 DEF PageInv, SoundPages
<1>3. p < next_page
  <2>1. ~(p >= next_page)
    BY <1>1 DEF PageInv, MadePages
  <2> QED BY <1>1, <2>1, PageNumbers DEF PageInv
<1>4. fixed[p] = t
  BY <1>1, StandsWhere DEF PageInv, Standing
<1>5. FindPointer(parent, k) \in 1 .. Len(parent.cells) + 1
  <2> HIDE DEF parent
  <2> QED BY <1>2, FindPointerPlace
<1>6. Child(parent, k) = Link(parent, FindPointer(parent, k)) /\ Child(parent, k) \in PageIds
  <2> HIDE DEF parent
  <2> QED BY <1>1, <1>2, ChildIsLink
<1>7. Child(parent, k) < next_page
  BY <1>1, <1>5, <1>6 DEF PageInv, MadePages
<1> QED BY <1>1, <1>2, <1>3, <1>4, <1>5, <1>6, <1>7

\* What InsertWalk does with its latches.
LEMMA InsertWalkGoes ==
  ASSUME PageInv, NEW t \in Threads, InsertWalk(t)
  PROVE  LET k == args[t].key
             child == Child(node[page[t]], k)
         IN  /\ Walking(t) /\ ~Hit(node[page[t]], k)
             /\ ~Full(node[child], k, args[t].value)
             /\ \/ Goes(t, child, node) /\ UNCHANGED <<next_page, root>>
                \/ Stumbles(t, child, node)
<1> DEFINE child == Child(node[page[t]], args[t].key)
<1>1. Walks(t) /\ fixed[child] = NoThread /\ Scalars
  BY DEF InsertWalk, Walking, Free, Walks, PageInv
<1>2. child \in PageIds /\ page[t] \in PageIds /\ fixed[page[t]] = t
  BY <1>1, WalkPlace
<1> HIDE DEF child
<1>3. Unfix(Fix(fixed, t, child), page[t]) = Hold(t, child)
  BY <1>1, <1>2, ChildLatches
<1> QED BY <1>1, <1>2, <1>3, ProceedGoes DEF InsertWalk, child

\* InsertWalk keeps the invariant.
LEMMA InsertWalkStep ==
  ASSUME PageInv, NEW t \in Threads, InsertWalk(t)
  PROVE  PageInv' /\ SameLeft
<1> DEFINE child == Child(node[page[t]], args[t].key)
<1>1. Inserts(t) /\ Walks(t) /\ fixed[child] = NoThread
  BY DEF InsertWalk, Walking, Free, Inserts, Walks
<1>2. child \in PageIds /\ child < next_page
  BY <1>1, WalkPlace
<1> HIDE DEF child
<1>3. CASE Goes(t, child, node) /\ UNCHANGED <<next_page, root>>
  <2>1. Grown(node, next_page', root') /\ child < next_page'
    BY <1>2, <1>3, GrownStays
  <2> QED BY <1>1, <1>2, <1>3, <2>1, ProceedStep
<1>4. CASE Stumbles(t, child, node)
  BY <1>4, StumblesStep
<1> QED BY <1>3, <1>4, InsertWalkGoes DEF child

\* A step that is no fault keeps the faults.
LEMMA ProceedNoFault ==
  ASSUME NEW t, NEW p, NEW nodes, Goes(t, p, nodes)
  PROVE  fault' = fault
BY DEF Goes, StepDown, StoreInLeaf, Return

\* What SplitChild does with its latches.
LEMMA SplitChildGoes ==
  ASSUME PageInv, NEW t \in Threads, SplitChild(t)
  PROVE  LET k == args[t].key
             q == page[t]
             parent == node[q]
             child == Child(parent, k)
             n == node[child]
             next == next_page
             split == SplitKey(n)
             nodes == [node EXCEPT
                         ![child] = Lower(n, next), ![next] = Upper(n),
                         ![q] = InsertInner(parent, FindPointer(parent, k), split, next)]
             side == Side(k, split, child, next)
         IN  /\ Walking(t) /\ ~Hit(parent, k)
             /\ Full(n, k, args[t].value) /\ next \in PageIds
             /\ IF Fits(parent, CellBytes(FALSE, split, next))
                  THEN \/ Goes(t, side, nodes) /\ next_page' = next_page + 1 /\ UNCHANGED root
                       \/ Stumbles(t, side, nodes)
                  ELSE Fault("assert")
<1> DEFINE k == args[t].key
           q == page[t]
           parent == node[q]
           child == Child(parent, k)
           n == node[child]
           next == next_page
           split == SplitKey(n)
           nodes == [node EXCEPT
                       ![child] = Lower(n, next), ![next] = Upper(n),
                       ![q] = InsertInner(parent, FindPointer(parent, k), split, next)]
           side == Side(k, split, child, next)
           two == Fix(Fix(fixed, t, child), t, next)
           latches == Unfix(KeepSide(two, side, child, next), q)
<1>1. /\ Walking(t) /\ ~Hit(parent, k) /\ Full(n, k, args[t].value) /\ next \in PageIds
      /\ IF Fits(parent, CellBytes(FALSE, split, next))
           THEN \/ /\ Proceed(t, side, nodes, latches)
                   /\ next_page' = next_page + 1 /\ UNCHANGED root
                \/ Stumbles(t, side, nodes)
           ELSE Fault("assert")
  BY DEF SplitChild
<1>2. Walks(t) /\ fixed[child] = NoThread /\ Scalars
  BY <1>1 DEF Walking, Free, Walks, PageInv
<1>3. child \in PageIds /\ child < next_page /\ q \in PageIds /\ fixed[q] = t
  BY <1>2, WalkPlace
<1>4. child # next /\ fixed[next] = NoThread
  <2>1. next_page \in Nat /\ child \in Nat
    BY <1>2, <1>3, PageNumbers
  <2> HIDE DEF child
  <2> QED BY <1>1, <1>3, <2>1 DEF PageInv
<1>5. side \in {child, next}
  BY DEF Side
<1> HIDE DEF nodes, side, child
<1>6. latches = Hold(t, side)
  <2> HIDE DEF next
  <2> QED BY <1>1, <1>2, <1>3, <1>4, <1>5, SplitChildLatches
<1> HIDE DEF latches
<1>7. ASSUME Proceed(t, side, nodes, latches) PROVE Goes(t, side, nodes)
  <2>1. side \in PageIds /\ fixed[side] = NoThread
    BY <1>1, <1>2, <1>3, <1>4, <1>5
  <2> QED BY <1>6, <1>7, <2>1, ProceedGoes
<1> QED BY <1>1, <1>7 DEF nodes, side, child

\* SplitChild splits a page with two cells or more, and the parent has the new half.
LEMMA SplitChildGrown ==
  ASSUME PageInv, NEW t \in Threads, SplitChild(t), fault' = "none"
  PROVE  LET k == args[t].key
             q == page[t]
             parent == node[q]
             child == Child(parent, k)
             n == node[child]
             next == next_page
             split == SplitKey(n)
             nodes == [node EXCEPT
                         ![child] = Lower(n, next), ![next] = Upper(n),
                         ![q] = InsertInner(parent, FindPointer(parent, k), split, next)]
             side == Side(k, split, child, next)
         IN  /\ pc[t] = "insert_walk" /\ fixed[child] = NoThread /\ ~Hit(parent, k)
             /\ q \in PageIds /\ child \in PageIds /\ next \in PageIds
             /\ child # q /\ q # next /\ child # next
             /\ child < next
             /\ split \in Keys /\ Len(n.cells) >= 2 /\ Fits(parent, CellBytes(FALSE, split, next))
             /\ Goes(t, side, nodes) /\ next_page' = next + 1 /\ UNCHANGED root
             /\ Grown(nodes, next_page + 1, root)
<1> DEFINE k == args[t].key
           q == page[t]
           parent == node[q]
           child == Child(parent, k)
           n == node[child]
           next == next_page
           split == SplitKey(n)
           over == InsertInner(parent, FindPointer(parent, k), split, next)
           nodes == [node EXCEPT ![child] = Lower(n, next), ![next] = Upper(n), ![q] = over]
           side == Side(k, split, child, next)
<1>10. /\ pc[t] = "insert_walk" /\ fixed[child] = NoThread /\ ~Hit(parent, k)
       /\ Inserts(t) /\ Walks(t)
  BY DEF SplitChild, Walking, Free, Inserts, Walks
<1>11. /\ Full(n, k, args[t].value) /\ next \in PageIds
       /\ Fits(parent, CellBytes(FALSE, split, next))
       /\ Goes(t, side, nodes) /\ next_page' = next_page + 1 /\ UNCHANGED root
  <2>1. ~Fault("assert") /\ ~Stumbles(t, side, nodes)
    BY DEF Fault, Stumbles
  <2> QED BY <2>1, SplitChildGoes
<1> HIDE DEF side
<1>1. /\ q \in PageIds /\ q < next_page /\ fixed[q] = t /\ Sound(parent) /\ ~parent.leaf
      /\ child \in PageIds /\ child < next_page
      /\ FindPointer(parent, k) \in 1 .. Len(parent.cells) + 1
  BY <1>10, WalkPlace
<1>2. /\ child # q /\ q # next /\ child # next
      /\ next_page \in Nat /\ next_page + 1 <= MaxPages + 1
      /\ MaxPages \in Nat /\ next_page < next_page + 1
      /\ q < next_page + 1 /\ child < next_page + 1
      /\ \A x \in PageIds : x < next_page => x < next_page + 1
  <2>1. t # NoThread
    BY Constants
  <2>2. next_page \in 1 .. MaxPages
    BY <1>11 DEF PageIds
  <2>3. \A x \in PageIds : x \in Nat
    BY PageNumbers
  <2>4. q \in Nat /\ child \in Nat /\ MaxPages \in Nat
    BY <1>1, <2>3, PageNumbers
  <2> HIDE DEF child, q
  <2> QED BY <1>1, <1>10, <2>1, <2>2, <2>3, <2>4
<1>3. Sound(n) /\ Full(n, k, args[t].value) /\ split = SplitKey(n) /\ args[t].value \in Values /\ k \in Keys
  BY <1>1, <1>10, <1>11 DEF PageInv, SoundPages, GoodCall, Scalars
<1>4. split \in Keys
  <2> HIDE DEF n, k
  <2> QED BY <1>3, FullHasTwo, SplitKeyType
<1> DEFINE i == FindPointer(parent, k)
           len == Len(parent.cells)
<1>5. /\ Sound(over) /\ ~over.leaf /\ Len(over.cells) = len + 1
      /\ \A j \in 1 .. len + 2 :
           Link(over, j) = IF j <= i THEN Link(parent, j)
                           ELSE IF j = i + 1 THEN next ELSE Link(parent, j - 1)
  <2> HIDE DEF parent, i, split
  <2>1. Sound(over) /\ ~over.leaf /\ Over(parent, over, i, split, next)
    BY <1>1, <1>4, <1>11, InnerOver DEF i
  <2> HIDE DEF over, len
  <2> QED BY <2>1 DEF Over, len
<1>6. \A j \in 1 .. len + 1 : Link(parent, j) < next_page + 1
  <2>1. \A j \in 1 .. len + 1 : Link(parent, j) < next_page
    BY <1>1 DEF PageInv, MadePages
  <2>2. \A j \in 1 .. len + 1 : Link(parent, j) \in PageIds
    <3> HIDE DEF parent
    <3> QED BY <1>1, LinkType
  <2> QED BY <1>2, <2>1, <2>2
<1>7. \A j \in 1 .. Len(over.cells) + 1 : Link(over, j) < next_page + 1
  <2>1. len \in Nat /\ i \in 1 .. len + 1
    BY <1>1, SoundType
  <2> HIDE DEF parent, over, i, len
  <2> QED BY <1>2, <1>5, <1>6, <2>1
<1>8. Grown(nodes, next_page + 1, root)
  <2> DEFINE made == next_page + 1
             halves == [node EXCEPT ![child] = Lower(node[child], next_page),
                                    ![next_page] = Upper(node[child])]
  <2>1. root \in PageIds /\ root < made
    BY <1>2 DEF PageInv, Scalars
  <2>2. /\ made \in Nat /\ next_page < made /\ made <= MaxPages + 1 /\ q < made
        /\ \A j \in 1 .. Len(over.cells) + 1 : Link(over, j) < made
        /\ nodes = [halves EXCEPT ![q] = over]
    BY <1>2, <1>7
  <2> HIDE DEF made, nodes, over, child, q
  <2>3. Grown(halves, made, root)
    BY <1>1, <1>2, <1>11, <2>1, <2>2, HalvesGrown
  <2> HIDE DEF halves
  <2>4. Grown([halves EXCEPT ![q] = over], made, root)
    BY <1>1, <1>5, <2>2, <2>3, OverGrown
  <2> QED BY <2>2, <2>4 DEF made
<1>9. Len(n.cells) >= 2
  <2> HIDE DEF n, k
  <2> QED BY <1>3, FullHasTwo
<1> HIDE DEF nodes
<1>12. Grown(nodes, next_page + 1, root) /\ Goes(t, side, nodes)
  BY <1>8, <1>11
<1> QED BY <1>1, <1>2, <1>4, <1>9, <1>10, <1>11, <1>12 DEF nodes, side

\* SplitChild keeps the invariant.
LEMMA SplitChildStep ==
  ASSUME PageInv, NEW t \in Threads, SplitChild(t)
  PROVE  PageInv' /\ SameLeft
<1> DEFINE k == args[t].key
           q == page[t]
           parent == node[q]
           child == Child(parent, k)
           n == node[child]
           next == next_page
           split == SplitKey(n)
           over == InsertInner(parent, FindPointer(parent, k), split, next)
           nodes == [node EXCEPT ![child] = Lower(n, next), ![next] = Upper(n), ![q] = over]
           side == Side(k, split, child, next)
<1>1. Inserts(t) /\ Walks(t) /\ fixed[child] = NoThread
  BY DEF SplitChild, Walking, Free, Inserts, Walks
<1>2. /\ Full(n, k, args[t].value) /\ next \in PageIds
      /\ IF Fits(parent, CellBytes(FALSE, split, next))
           THEN \/ Goes(t, side, nodes) /\ next_page' = next_page + 1 /\ UNCHANGED root
                \/ Stumbles(t, side, nodes)
           ELSE Fault("assert")
  BY SplitChildGoes
<1>3. CASE Stumbles(t, side, nodes)
  BY <1>3, StumblesStep
<1>4. CASE Fault("assert")
  BY <1>4, FaultStep
<1>5. CASE /\ Fits(parent, CellBytes(FALSE, split, next))
           /\ Goes(t, side, nodes) /\ next_page' = next_page + 1 /\ UNCHANGED root
  <2>1. /\ q \in PageIds /\ child \in PageIds /\ child # q /\ q # next_page
        /\ child # next_page /\ child < next_page
        /\ Grown(nodes, next_page + 1, root)
    <3>1. fault' = "none"
      BY <1>5, ProceedNoFault DEF SplitChild, Walking
    <3> QED BY <3>1, SplitChildGrown
  <2>2. next_page \in Nat /\ \A x \in PageIds : x < next_page => x < next_page + 1
    BY PageNumbers DEF PageInv
  <2>3. side \in PageIds /\ fixed[side] = NoThread /\ side < next_page'
    <3>1. fixed[next] = NoThread
      BY <1>2, <2>2 DEF PageInv
    <3> HIDE DEF nodes, child, split, k
    <3> QED BY <1>1, <1>2, <1>5, <2>1, <2>2, <3>1, SideIs
  <2>4. Grown(nodes, next_page', root')
    BY <1>5, <2>1
  <2> HIDE DEF nodes, side
  <2> QED BY <1>1, <1>5, <2>3, <2>4, ProceedStep
<1> HIDE DEF nodes, side
<1> QED BY <1>2, <1>3, <1>4, <1>5

\* A call that fails before it has touched anything, or while it looks up.
LEMMA ReturnStep ==
  ASSUME PageInv, NEW t \in Threads, NEW code \in {"SUCCESS", "ENOENT", "ENOMEM"},
         NEW value \in Values \cup {NoValue}, Return(t, code, value),
         fixed' = HoldNothing(t), UNCHANGED shared
  PROVE  PageInv' /\ SameLeft
<1>1. Scalars /\ Standing /\ node' = node /\ next_page' = next_page /\ root' = root
  BY DEF PageInv, shared
<1>2. /\ pc' \in [Threads -> States]
      /\ args' \in [Threads -> [key : Keys, value : Values \cup {NoValue}]]
      /\ page' \in [Threads -> PageIds \cup {0}]
      /\ error' \in [Threads -> BOOLEAN]
      /\ answer' \in [Threads -> [code : {"SUCCESS", "ENOENT", "ENOMEM"},
                                  value : Values \cup {NoValue}]]
      /\ fault' = fault
      /\ pc'[t] = "idle" /\ page'[t] = 0 /\ GoodCall(t)'
      /\ Others(t)
  BY <1>1, Returned
<1>3. /\ fixed' \in [PageIds -> Threads \cup {NoThread}]
      /\ Standing' /\ SameLeft
      /\ \A q \in PageIds : fixed[q] = NoThread => fixed'[q] = NoThread
  <2>1. ~Walks(t)'
    BY <1>2 DEF Walks
  <2> QED BY <1>1, <1>2, <2>1, HoldsNothingNow
<1>4. Scalars'
  BY <1>1, <1>2, <1>3 DEF Scalars
<1>5. ASSUME NEW u \in Threads PROVE GoodCall(u)'
  <2>1. CASE u = t
    BY <1>2, <2>1
  <2>2. CASE u # t
    <3>1. GoodCall(u) /\ next_page \in Nat
      BY <1>1, PageNumbers DEF PageInv
    <3> QED BY <1>1, <1>2, <2>2, <3>1, OtherCalls
  <2> QED BY <2>1, <2>2
<1>6. SoundPages(node)' /\ MadePages(node, next_page)' /\ root' < next_page'
      /\ \A q \in PageIds : q >= next_page' => fixed'[q] = NoThread
  BY <1>1, <1>3 DEF PageInv, SoundPages, MadePages
<1> QED BY <1>3, <1>4, <1>5, <1>6 DEF PageInv

\* InsertRunsOut keeps the invariant.
LEMMA RunsOutStep ==
  ASSUME PageInv, NEW t \in Threads, InsertRunsOut(t)
  PROVE  PageInv' /\ SameLeft
<1>1. /\ Return(t, "ENOMEM", NoValue) /\ fixed' = fixed /\ UNCHANGED shared
      /\ pc[t] = "insert_root"
  BY DEF InsertRunsOut, AtRoot
<1>2. HoldNothing(t) = fixed
  <2>1. \A q \in PageIds : ~Stands(t, q)
    BY <1>1 DEF Stands
  <2> QED BY <2>1 DEF HoldNothing, PageInv, Scalars
<1> QED BY <1>1, <1>2, ReturnStep

\* What LookupStep does with its latches.
LEMMA LookupGoes ==
  ASSUME PageInv, NEW t \in Threads, LookupStep(t)
  PROVE  LET p == LookupTarget(t)
         IN  /\ p \in PageIds /\ fixed[p] = NoThread
             /\ \/ /\ ~node[p].leaf /\ fixed' = Hold(t, p)
                   /\ pc' = [pc EXCEPT ![t] = "lookup_walk"]
                   /\ page' = [page EXCEPT ![t] = p]
                   /\ UNCHANGED <<args, error, answer, fault>>
                \/ node[p].leaf /\ fixed' = HoldNothing(t) /\ Answered(t, node[p])
<1> DEFINE p == LookupTarget(t)
<1>1. /\ pc[t] \in {"lookup_root", "lookup_walk"} /\ fixed[p] = NoThread
      /\ LookupAt(t, p) /\ Scalars /\ Standing
  BY DEF LookupStep, Looking, Free, PageInv
<1>2. p \in PageIds /\ (Walks(t) => page[t] \in PageIds)
  <2>1. CASE pc[t] = "lookup_root"
    BY <2>1 DEF PageInv, GoodCall, AtRootOf, Walks, LookupTarget
  <2>2. CASE pc[t] # "lookup_root"
    <3>1. Walks(t)
      BY <1>1, <2>2 DEF Walks
    <3> QED BY <2>2, <3>1, WalkPlace DEF LookupTarget
  <2> QED BY <2>1, <2>2
<1> HIDE DEF p
<1>3. /\ LetGo(Fix(fixed, t, p), t) = Hold(t, p)
      /\ Unfix(LetGo(Fix(fixed, t, p), t), p) = HoldNothing(t)
  BY <1>1, <1>2, LookupLatches
<1> QED BY <1>1, <1>2, <1>3 DEF LookupAt, p

\* LookupStep keeps the invariant.
LEMMA LookupStepStep ==
  ASSUME PageInv, NEW t \in Threads, LookupStep(t)
  PROVE  PageInv' /\ SameLeft
<1> DEFINE p == LookupTarget(t)
<1>1. /\ pc[t] \in {"lookup_root", "lookup_walk"} /\ fixed[p] = NoThread
      /\ UNCHANGED shared
      /\ \/ /\ ~node[p].leaf /\ fixed' = Hold(t, p)
            /\ pc' = [pc EXCEPT ![t] = "lookup_walk"]
            /\ page' = [page EXCEPT ![t] = p]
            /\ UNCHANGED <<args, error, answer, fault>>
         \/ node[p].leaf /\ fixed' = HoldNothing(t) /\ Answered(t, node[p])
  BY LookupGoes DEF LookupStep, Looking
<1>2. p \in PageIds
  BY LookupGoes
<1> HIDE DEF p
<1>3. Scalars /\ Standing /\ node' = node /\ next_page' = next_page /\ root' = root
  BY <1>1 DEF PageInv, shared
<1>4. CASE ~node[p].leaf
  <2>1. /\ fixed' = Hold(t, p) /\ args' = args /\ error' = error /\ answer' = answer
        /\ fault' = fault
    BY <1>1, <1>4
  <2>2. /\ pc' \in [Threads -> States] /\ pc'[t] = "lookup_walk"
        /\ \A u \in Threads \ {t} : pc'[u] = pc[u]
    BY <1>1, <1>3, <1>4 DEF Scalars, States
  <2>3. /\ page' \in [Threads -> PageIds \cup {0}] /\ page'[t] = p
        /\ \A u \in Threads \ {t} : page'[u] = page[u]
    BY <1>1, <1>2, <1>3, <1>4 DEF Scalars
  <2>4. Others(t)
    BY <2>1, <2>2, <2>3 DEF Others
  <2>5. /\ fixed' \in [PageIds -> Threads \cup {NoThread}]
        /\ Standing' /\ SameLeft
        /\ \A q \in PageIds : q # p /\ fixed[q] = NoThread => fixed'[q] = NoThread
    BY <1>1, <1>2, <1>3, <2>1, <2>2, <2>3, <2>4, HoldsNow DEF Walks
  <2>6. Scalars'
    BY <1>3, <2>1, <2>2, <2>3, <2>5 DEF Scalars
  <2>7. ASSUME NEW u \in Threads PROVE GoodCall(u)'
    <3>1. CASE u = t
      BY <1>2, <1>3, <1>4, <2>2, <2>3, <3>1 DEF GoodCall, AtRootOf, Walks, Inserts
    <3>2. CASE u # t
      <4>1. GoodCall(u) /\ next_page \in Nat
        BY <1>3, PageNumbers DEF PageInv
      <4> QED BY <1>3, <2>4, <3>2, <4>1, OtherCalls
    <3> QED BY <3>1, <3>2
  <2>8. SoundPages(node)' /\ MadePages(node, next_page)' /\ root' < next_page'
    BY <1>3 DEF PageInv, SoundPages, MadePages
  <2>9. ASSUME NEW q \in PageIds, q >= next_page' PROVE fixed'[q] = NoThread
    <3>1. q # p /\ fixed[q] = NoThread
      BY <1>3, <1>4, <2>9 DEF PageInv, MadePages
    <3> QED BY <2>5, <3>1
  <2> QED BY <2>5, <2>6, <2>7, <2>8, <2>9 DEF PageInv
<1>5. CASE node[p].leaf
  <2> DEFINE n == node[p]
             k == args[t].key
  <2>1. fixed' = HoldNothing(t) /\ Answered(t, n)
    BY <1>1, <1>5
  <2>2. Sound(n)
    BY <1>2 DEF PageInv, SoundPages
  <2>3. CASE Hit(n, k)
    <3>1. FindPointer(n, k) \in 1 .. Len(n.cells)
      <4> HIDE DEF n, k
      <4>1. FindPointer(n, k) \in 1 .. Len(n.cells) + 1
        BY <2>2, FindPointerPlace
      <4>2. Len(n.cells) \in Nat
        BY <2>2, SoundType
      <4> QED BY <2>3, <4>1, <4>2 DEF Hit
    <3>2. n.cells[FindPointer(n, k)] \in CellType(TRUE)
      <4>1. n.leaf = TRUE
        BY <1>5, <2>2, SoundType
      <4> HIDE DEF n, k
      <4> QED BY <2>2, <3>1, <4>1, SoundType
    <3>3. n.cells[FindPointer(n, k)].ref \in Values
      BY <3>2 DEF CellType
    <3>4. Return(t, "SUCCESS", n.cells[FindPointer(n, k)].ref)
      BY <2>1, <2>3 DEF Answered
    <3> HIDE DEF n, k
    <3> QED BY <1>1, <2>1, <3>3, <3>4, ReturnStep
  <2>4. CASE ~Hit(n, k)
    <3>1. Return(t, "ENOENT", NoValue)
      BY <2>1, <2>4 DEF Answered
    <3> QED BY <1>1, <2>1, <3>1, ReturnStep
  <2> QED BY <2>3, <2>4
<1> QED BY <1>4, <1>5

\* LookupRunsOut keeps the invariant.
LEMMA LookupRunsOutStep ==
  ASSUME PageInv, NEW t \in Threads, LookupRunsOut(t)
  PROVE  PageInv' /\ SameLeft
<1>1. Return(t, "ENOMEM", NoValue) /\ fixed' = HoldNothing(t) /\ UNCHANGED shared
  <2>1. pc[t] \in {"lookup_root", "lookup_walk"} /\ Scalars /\ Standing
    BY DEF LookupRunsOut, Looking, PageInv
  <2>2. Walks(t) => page[t] \in PageIds
    BY DEF PageInv, GoodCall
  <2>3. LetGo(fixed, t) = HoldNothing(t)
    BY <2>1, <2>2, LookupLatches
  <2> QED BY <2>3 DEF LookupRunsOut
<1> QED BY <1>1, ReturnStep

\* SplitRootRunsOut keeps the invariant.
LEMMA SplitRootRunsOutStep ==
  ASSUME PageInv, NEW t \in Threads, SplitRootRunsOut(t)
  PROVE  /\ PageInv'
         /\ fixed[next_page] = NoThread /\ next_page \in PageIds
         /\ fixed' = [fixed EXCEPT ![next_page] = t]
         /\ \A q \in PageIds : Left(q)' <=> q = next_page
<1> DEFINE p == page[t]
           next == next_page
           nodes == [node EXCEPT ![p] = Lower(node[p], next_page),
                                 ![next_page] = Upper(node[p])]
<1>1. /\ pc[t] = "insert_root" /\ p \in PageIds /\ p < next_page /\ next \in PageIds
      /\ node' = nodes /\ fixed' = Unfix(Fix(Fix(fixed, t, p), t, next), p)
      /\ next_page' = next_page + 1 /\ Return(t, "ENOMEM", NoValue) /\ root' = root
      /\ fixed[p] = NoThread /\ \A q \in PageIds : ~Left(q)
  BY DEF SplitRootRunsOut, AtRoot, Free, NothingLeft, PageInv, GoodCall, AtRootOf
<1>2. /\ Scalars /\ Standing /\ root \in PageIds /\ root < next_page
      /\ \A q \in PageIds : q >= next_page => fixed[q] = NoThread
  BY DEF PageInv, Scalars
<1>3. /\ next_page \in Nat /\ next_page' \in Nat /\ next_page < next_page'
      /\ next_page <= next_page' /\ next_page' <= MaxPages + 1
      /\ root < next_page' /\ next_page' \in 1 .. MaxPages + 1
  <2>1. next_page \in 1 .. MaxPages /\ MaxPages \in Nat /\ root \in Nat
    BY <1>1, <1>2, PageNumbers DEF PageIds
  <2> HIDE DEF next, p
  <2> QED BY <1>1, <1>2, <2>1
<1>4. Grown(nodes, next_page', root)
  <2> DEFINE made == next_page'
  <2>1. made \in Nat /\ next_page < made /\ made <= MaxPages + 1 /\ root < made
    BY <1>3
  <2> HIDE DEF made, p
  <2>2. Grown(nodes, made, root)
    BY <1>1, <1>2, <2>1, HalvesGrown
  <2> QED BY <2>2 DEF made
<1> HIDE DEF nodes, p
<1>5. /\ SoundPages(node)' /\ MadePages(node, next_page)'
      /\ \A q \in PageIds : ~node[q].leaf => ~node'[q].leaf
  BY <1>1, <1>4 DEF Grown, SoundPages, MadePages
<1>6. /\ pc' \in [Threads -> States]
      /\ args' \in [Threads -> [key : Keys, value : Values \cup {NoValue}]]
      /\ page' \in [Threads -> PageIds \cup {0}]
      /\ error' \in [Threads -> BOOLEAN]
      /\ answer' \in [Threads -> [code : {"SUCCESS", "ENOENT", "ENOMEM"},
                                  value : Values \cup {NoValue}]]
      /\ fault' = fault
      /\ pc'[t] = "idle" /\ page'[t] = 0 /\ GoodCall(t)'
      /\ Others(t)
  BY <1>1, <1>2, Returned
<1>7. /\ fixed' \in [PageIds -> Threads \cup {NoThread}]
      /\ fixed' = [fixed EXCEPT ![next] = t]
      /\ \A q \in PageIds : fixed'[q] = IF q = next THEN t ELSE fixed[q]
      /\ fixed[next] = NoThread
  <2>1. p # next /\ fixed[next] = NoThread
    BY <1>1, <1>2, <1>3, PageNumbers
  <2>2. fixed' = [fixed EXCEPT ![next] = t]
    BY <1>1, <1>2, <2>1 DEF Scalars, Fix, Unfix
  <2> QED BY <1>1, <1>2, <2>1, <2>2 DEF Scalars
<1>8. Scalars'
  BY <1>1, <1>2, <1>3, <1>6, <1>7 DEF Scalars
<1>9. ASSUME NEW u \in Threads PROVE GoodCall(u)'
  <2>1. CASE u = t
    BY <1>6, <2>1
  <2>2. CASE u # t
    <3>1. GoodCall(u)
      BY DEF PageInv
    <3> QED BY <1>2, <1>3, <1>5, <1>6, <2>2, <3>1, OtherCalls
  <2> QED BY <2>1, <2>2
<1>10. Standing' /\ \A q \in PageIds : Left(q)' <=> q = next
  <2>1. \A q \in PageIds : ~Stands(t, q)'
    BY <1>6 DEF Stands
  <2>2. \A u \in Threads \ {t} : \A q \in PageIds : Stands(u, q)' <=> Stands(u, q)
    BY <1>6 DEF Stands, Others
  <2>3. \A q \in PageIds : \A u \in Threads : Stands(u, q) => fixed[q] = u
    BY <1>2 DEF Standing
  <2>4. ASSUME NEW q \in PageIds, NEW u \in Threads, Stands(u, q)' PROVE fixed'[q] = u
    <3>1. u # t /\ fixed[q] = u /\ u # NoThread
      BY <2>1, <2>2, <2>3, <2>4, Constants
    <3> QED BY <1>7, <3>1
  <2>5. ASSUME NEW q \in PageIds PROVE Left(q)' <=> q = next
    <3>1. CASE q = next
      <4>1. fixed'[q] = t /\ t # NoThread
        BY <1>7, <3>1, Constants
      <4> QED BY <2>1, <3>1, <4>1 DEF Left, Free, Stands
    <3>2. CASE q # next
      <4>1. fixed'[q] = fixed[q] /\ ~Left(q)
        BY <1>1, <1>7, <3>2
      <4>2. CASE fixed[q] = NoThread
        BY <3>2, <4>1, <4>2 DEF Left, Free
      <4>3. CASE fixed[q] # NoThread
        <5>1. fixed[q] \in Threads /\ Stands(fixed[q], q)
          BY <1>2, <4>1, <4>3 DEF Left, Free, Scalars
        <5>2. fixed[q] # t
          BY <1>1, <5>1 DEF Stands
        <5>3. Stands(fixed[q], q)'
          BY <2>2, <4>1, <5>1, <5>2 DEF Stands
        <5> QED BY <3>2, <4>1, <5>3 DEF Left, Free, Stands
      <4> QED BY <4>2, <4>3
    <3> QED BY <3>1, <3>2
  <2> QED BY <2>4, <2>5 DEF Standing
<1>11. ASSUME NEW q \in PageIds, q >= next_page' PROVE fixed'[q] = NoThread
  <2>1. q >= next_page /\ q # next
    BY <1>1, <1>3, <1>11, PageNumbers
  <2> QED BY <1>2, <1>7, <2>1
<1>12. root' < next_page'
  BY <1>1, <1>3
<1> QED BY <1>1, <1>5, <1>7, <1>8, <1>9, <1>10, <1>11, <1>12 DEF PageInv

\* WalkFails keeps the invariant.
LEMMA WalkFailsStep ==
  ASSUME PageInv, NEW t \in Threads, WalkFails(t)
  PROVE  PageInv' /\ SameLeft
<1>1. Fault("unfix") \/ Fault("assert")
  BY DEF WalkFails
<1> QED BY <1>1, FaultStep

\* InsertCall and LookupCall keep the invariant.
LEMMA CallStep ==
  ASSUME PageInv, NEW t \in Threads, Call(t)
  PROVE  PageInv' /\ SameLeft
<1>1. CASE \E pair \in Offered : InsertCall(t, pair[1], pair[2])
  <2>1. PICK pair \in Offered : InsertCall(t, pair[1], pair[2])
    BY <1>1
  <2>2. pair[1] \in Keys /\ pair[2] \in Values
    BY Constants
  <2> DEFINE k == pair[1]
             v == pair[2]
  <2>3. Begin(t, "insert_root", k, v)
    BY <2>1 DEF InsertCall
  <2> HIDE DEF k, v
  <2> QED BY <2>2, <2>3, BeginStep DEF k, v
<1>2. CASE \E k \in Keys : LookupCall(t, k)
  <2>1. PICK k \in Keys : Begin(t, "lookup_root", k, NoValue)
    BY <1>2 DEF LookupCall
  <2> QED BY <2>1, BeginStep
<1> QED BY <1>1, <1>2 DEF Call

\* Only SplitRootRunsOut leaves a latch behind.
LEMMA LeftSame ==
  ASSUME PageInv, NEW t \in Threads, Call(t) \/ Insert(t) \/ Lookup(t), ~SplitRootRunsOut(t)
  PROVE  SameLeft
<1>1. CASE Call(t)
  BY <1>1, CallStep
<1>2. CASE Insert(t)
  BY <1>2, InsertRootStep, SplitRootStep, RunsOutStep, WalkFailsStep, InsertWalkStep,
     SplitChildStep DEF Insert
<1>3. CASE Lookup(t)
  BY <1>3, LookupStepStep, LookupRunsOutStep DEF Lookup
<1> QED BY <1>1, <1>2, <1>3

\* Every step keeps the invariant.
LEMMA PageInvNext == PageInv /\ [Next]_vars => PageInv'
<1> SUFFICES ASSUME PageInv, [Next]_vars PROVE PageInv'
  OBVIOUS
<1>1. CASE Next
  <2>1. PICK t \in Threads : Call(t) \/ Insert(t) \/ Lookup(t)
    BY <1>1 DEF Next
  <2>2. CASE Call(t)
    BY <2>2, CallStep
  <2>3. CASE Insert(t)
    BY <2>3, InsertRootStep, SplitRootStep, RunsOutStep, SplitRootRunsOutStep,
       WalkFailsStep, InsertWalkStep, SplitChildStep DEF Insert
  <2>4. CASE Lookup(t)
    BY <2>4, LookupStepStep, LookupRunsOutStep DEF Lookup
  <2> QED BY <2>1, <2>2, <2>3, <2>4
<1>2. CASE UNCHANGED vars
  <2>1. /\ node' = node /\ next_page' = next_page /\ root' = root /\ fixed' = fixed
        /\ pc' = pc /\ args' = args /\ page' = page /\ error' = error
        /\ answer' = answer /\ fault' = fault
    BY <1>2 DEF vars
  <2>2. Scalars' /\ Standing' /\ SoundPages(node)' /\ MadePages(node, next_page)'
    BY <2>1 DEF PageInv, Scalars, Standing, Stands, SoundPages, MadePages
  <2>3. \A u \in Threads : GoodCall(u)'
    BY <2>1 DEF PageInv, GoodCall, AtRootOf, Walks, Inserts
  <2>4. root' < next_page' /\ \A p \in PageIds : p >= next_page' => fixed'[p] = NoThread
    BY <2>1 DEF PageInv
  <2> QED BY <2>2, <2>3, <2>4 DEF PageInv
<1> QED BY <1>1, <1>2

\* The pages are sound, and every call is where it should be, in every behaviour.
THEOREM PagesAlwaysSound == Spec => []PageInv
BY PageInvInit, PageInvNext, PTL DEF Spec

(***************************************************************************)
(* Every variable of the tree keeps its type: a cell of a leaf has a value *)
(* and one of an inner page a page, through every split, and neither the   *)
(* offset nor the byte count of a header leaves the page.                  *)
(***************************************************************************)
THEOREM TypeCorrect == Spec => []TypeOK
BY PagesAlwaysSound, PageInvTypeOK, PTL

(***************************************************************************)
(* data_start and free_space are what the cells take, on every page and    *)
(* after any history of insertions and splits.                             *)
(***************************************************************************)
THEOREM HeadersExact == Spec => []FreeSpaceExact
BY PagesAlwaysSound, PageInvExact, PTL

\* With memory enough no latch is left behind.
LEMMA NothingLeftNext ==
  ASSUME ~OutOfMemory, PageInv, NothingLeft, [Next]_vars
  PROVE  NothingLeft'
<1>1. CASE Next
  <2>1. PICK t \in Threads : Call(t) \/ Insert(t) \/ Lookup(t)
    BY <1>1 DEF Next
  <2>2. ~SplitRootRunsOut(t)
    BY DEF SplitRootRunsOut
  <2> QED BY <2>1, <2>2, LeftSame DEF SameLeft, NothingLeft
<1>2. CASE UNCHANGED vars
  BY <1>2 DEF vars, NothingLeft, Left, Free, Stands
<1> QED BY <1>1, <1>2

(***************************************************************************)
(* Of the up to four pages that a call has fixed at one time - the parent, *)
(* the page it goes on to, the half that is split off, a new root - all    *)
(* but the one it stands on are unfixed by the time it waits again, and    *)
(* that one too before it returns, in whichever half the key goes and      *)
(* whatever the other calls do.  With failures of pager_next this is not   *)
(* so (btree.c:407).                                                       *)
(***************************************************************************)
THEOREM LatchesInHand ==
  ASSUME ~OutOfMemory
  PROVE  Spec => []OnePageInHand
<1>1. Init => NothingLeft
  BY DEF Init, NothingLeft, Left, Free
<1>2. PageInv /\ NothingLeft /\ [Next]_vars => NothingLeft'
  BY NothingLeftNext
<1>3. PageInv /\ NothingLeft => OnePageInHand
  <2> SUFFICES ASSUME PageInv, NothingLeft, NEW p \in PageIds, NEW t \in Threads
               PROVE  fixed[p] = t <=> Stands(t, p)
    BY DEF OnePageInHand
  <2>1. Stands(t, p) => fixed[p] = t
    BY DEF PageInv, Standing
  <2>2. fixed[p] = t => Stands(t, p)
    BY Constants DEF NothingLeft, Left, Free
  <2> QED BY <2>1, <2>2
<1> QED BY <1>1, <1>2, <1>3, PagesAlwaysSound, PTL DEF Spec

(***************************************************************************)
(* The pages a step may change: those nobody holds, and the caller's own.  *)
(***************************************************************************)
OthersPagesStay(t) ==
  \A q \in PageIds : fixed[q] # NoThread /\ fixed[q] # t => node'[q] = node[q]

\* Proceed changes page p only.
LEMMA ProceedTouches ==
  ASSUME NEW t \in Threads, NEW p \in PageIds, NEW nodes, nodes \in [PageIds -> AnyPage],
         Goes(t, p, nodes)
  PROVE  \A q \in PageIds : q # p => node'[q] = nodes[q]
BY DEF Goes, StepDown, StoreInLeaf

\* Nobody holds a page that was not handed out.
LEMMA UnusedNobodys ==
  ASSUME PageInv, next_page \in PageIds
  PROVE  fixed[next_page] = NoThread
<1>1. next_page >= next_page
  BY PageNumbers DEF PageInv
<1> QED BY <1>1 DEF PageInv

\* A step of t leaves alone the pages that others hold.
LEMMA OnlyOwnPages ==
  ASSUME PageInv, NEW t \in Threads, Call(t) \/ Insert(t) \/ Lookup(t)
  PROVE  OthersPagesStay(t)
<1>1. node \in [PageIds -> AnyPage]
  BY DEF PageInv, SoundPages
<1>2. CASE UNCHANGED node
  BY <1>2 DEF OthersPagesStay
<1>3. CASE Call(t)
  BY <1>2, <1>3 DEF Call, InsertCall, LookupCall, Begin, shared
<1>4. CASE Lookup(t)
  BY <1>2, <1>4 DEF Lookup, LookupStep, LookupRunsOut, shared
<1>5. CASE InsertRunsOut(t) \/ WalkFails(t)
  BY <1>2, <1>5 DEF InsertRunsOut, WalkFails, Fault, shared
<1>6. CASE InsertRoot(t)
  <2>1. page[t] \in PageIds /\ fixed[page[t]] = NoThread
    BY <1>6 DEF InsertRoot, AtRoot, Free, PageInv, GoodCall, AtRootOf
  <2>2. CASE Goes(t, page[t], node)
    BY <1>1, <2>1, <2>2, ProceedTouches DEF OthersPagesStay
  <2>3. CASE Stumbles(t, page[t], node)
    BY <1>2, <2>3 DEF Stumbles, Fault, shared
  <2> QED BY <1>6, <2>2, <2>3, InsertRootGoes
<1>7. CASE SplitRoot(t)
  <2> DEFINE p == page[t]
             n == node[p]
             next == next_page
             new == next_page + 1
             over == NewRoot(p, SplitKey(n), next)
             nodes == [node EXCEPT ![p] = Lower(n, next), ![next] = Upper(n), ![new] = over]
             side == Side(args[t].key, SplitKey(n), p, next)
  <2>1. p \in PageIds /\ fixed[p] = NoThread /\ p < next_page
    BY <1>7 DEF SplitRoot, AtRoot, Free, PageInv, GoodCall, AtRootOf
  <2>2. new \in PageIds /\ (Goes(t, side, nodes) \/ Stumbles(t, side, nodes))
    BY <1>7, SplitRootGoes
  <2>3. next \in PageIds /\ fixed[next] = NoThread /\ fixed[new] = NoThread
    <3>1. next_page \in Nat /\ next_page >= 1
      BY Constants DEF PageInv, Scalars
    <3>2. next \in PageIds /\ new >= next_page
      BY <2>2, <3>1, Constants DEF PageIds
    <3> QED BY <2>2, <3>2, UnusedNobodys DEF PageInv
  <2>4. \A q \in PageIds : q # p /\ q # next /\ q # new => nodes[q] = node[q]
    BY <1>1
  <2>5. CASE Stumbles(t, side, nodes)
    BY <1>2, <2>5 DEF Stumbles, Fault, shared
  <2>6. CASE Goes(t, side, nodes)
    <3>1. side \in {p, next}
      BY DEF Side
    <3> HIDE DEF side, over, p
    <3>2. \A q \in PageIds : q # side => node'[q] = nodes[q]
      <4>1. DOMAIN nodes = PageIds
        BY <1>1
      <4> HIDE DEF nodes
      <4> QED BY <2>6, <4>1 DEF Goes, StepDown, StoreInLeaf
    <3> HIDE DEF nodes, next, new
    <3> QED BY <2>1, <2>3, <2>4, <3>1, <3>2 DEF OthersPagesStay
  <2> QED BY <2>2, <2>5, <2>6
<1>8. CASE SplitRootRunsOut(t)
  <2>1. page[t] \in PageIds /\ fixed[page[t]] = NoThread /\ next_page \in PageIds
    BY <1>8 DEF SplitRootRunsOut, AtRoot, Free, PageInv, GoodCall, AtRootOf
  <2>2. node' = [node EXCEPT ![page[t]] = Lower(node[page[t]], next_page),
                             ![next_page] = Upper(node[page[t]])]
    BY <1>8 DEF SplitRootRunsOut
  <2>3. \A q \in PageIds : q # page[t] /\ q # next_page => node'[q] = node[q]
    BY <1>1, <2>2
  <2>4. fixed[next_page] = NoThread
    BY <2>1, UnusedNobodys
  <2> QED BY <2>1, <2>3, <2>4 DEF OthersPagesStay
<1>9. CASE InsertWalk(t)
  <2> DEFINE p == Child(node[page[t]], args[t].key)
  <2>1. p \in PageIds /\ fixed[p] = NoThread
    <3>1. Walks(t) /\ fixed[p] = NoThread
      BY <1>9 DEF InsertWalk, Walking, Free, Walks
    <3> QED BY <3>1, WalkPlace
  <2>2. Goes(t, p, node) \/ Stumbles(t, p, node)
    BY <1>9, InsertWalkGoes
  <2> HIDE DEF p
  <2>3. CASE Goes(t, p, node)
    BY <1>1, <2>1, <2>3, ProceedTouches DEF OthersPagesStay
  <2>4. CASE Stumbles(t, p, node)
    BY <1>2, <2>4 DEF Stumbles, Fault, shared
  <2> QED BY <2>2, <2>3, <2>4
<1>10. CASE SplitChild(t)
  <2> DEFINE k == args[t].key
             q == page[t]
             parent == node[q]
             child == Child(parent, k)
             n == node[child]
             next == next_page
             split == SplitKey(n)
             over == InsertInner(parent, FindPointer(parent, k), split, next)
             nodes == [node EXCEPT ![child] = Lower(n, next), ![next] = Upper(n), ![q] = over]
             side == Side(k, split, child, next)
  <2>1. Walks(t) /\ fixed[child] = NoThread /\ next \in PageIds
    BY <1>10 DEF SplitChild, Walking, Free, Walks
  <2>2. child \in PageIds /\ q \in PageIds /\ fixed[q] = t
    BY <2>1, WalkPlace
  <2>3. Fault("assert") \/ Stumbles(t, side, nodes) \/ Goes(t, side, nodes)
    BY <1>10, SplitChildGoes
  <2>4. fixed[next] = NoThread
    BY <2>1, UnusedNobodys
  <2>5. CASE Fault("assert") \/ Stumbles(t, side, nodes)
    BY <1>2, <2>5 DEF Stumbles, Fault, shared
  <2>6. CASE Goes(t, side, nodes)
    <3>1. side \in {child, next}
      BY DEF Side
    <3>2. \A r \in PageIds : r # child /\ r # next /\ r # q => nodes[r] = node[r]
      BY <1>1
    <3> HIDE DEF side, over, child, q
    <3>3. \A r \in PageIds : r # side => node'[r] = nodes[r]
      <4>1. DOMAIN nodes = PageIds
        BY <1>1
      <4> HIDE DEF nodes
      <4> QED BY <2>6, <4>1 DEF Goes, StepDown, StoreInLeaf
    <3> HIDE DEF nodes, next
    <3> QED BY <2>1, <2>2, <2>4, <3>1, <3>2, <3>3 DEF OthersPagesStay
  <2> QED BY <2>3, <2>5, <2>6
<1> QED BY <1>3, <1>4, <1>5, <1>6, <1>7, <1>8, <1>9, <1>10 DEF Insert

-----------------------------------------------------------------------------
(***************************************************************************)
(* Links go down.  The pages can be ranked so that every link of an inner  *)
(* page, the one to the sibling that page_split leaves included, leads to  *)
(* a page of a lower rank: a new half comes between the page it was split  *)
(* from and the pages below it.                                            *)
(***************************************************************************)
Descends(rank, nodes) ==
  \A p \in PageIds : ~nodes[p].leaf =>
    \A j \in 1 .. Len(nodes[p].cells) + 1 : rank[Link(nodes[p], j)] < rank[p]

Downward(nodes) == \E rank \in [PageIds -> Nat] : Descends(rank, nodes)

\* A leaf that takes a key has no links still.
LEMMA ProceedDown ==
  ASSUME PageInv, NEW t \in Threads, Inserts(t), NEW p \in PageIds,
         NEW nodes, SoundPages(nodes), Downward(nodes), Goes(t, p, nodes)
  PROVE  Downward(node')
<1>1. CASE StepDown(t, p, nodes, Hold(t, p))
  BY <1>1 DEF StepDown
<1>2. CASE StoreInLeaf(t, p, nodes, Hold(t, p)) /\ fixed' = HoldNothing(t)
  <2> DEFINE n == nodes[p]
             c == [key |-> args[t].key, ref |-> args[t].value]
             m == InsertLeaf(n, c.key, c.ref)
  <2>1. /\ args[t].key \in Keys /\ args[t].value \in Values /\ c.key = args[t].key
        /\ c.ref = args[t].value
    BY DEF PageInv, Scalars, GoodCall
  <2>2. /\ n.leaf /\ Fits(n, CellBytes(TRUE, c.key, c.ref))
        /\ node' = [nodes EXCEPT ![p] = m]
    BY <1>2, <2>1 DEF StoreInLeaf
  <2>3. Sound(n) /\ n.leaf = TRUE /\ nodes \in [PageIds -> AnyPage]
    BY <2>2 DEF SoundPages, Sound
  <2>4. c \in CellType(n.leaf) /\ Fits(n, CellBytes(n.leaf, c.key, c.ref))
    BY <2>1, <2>2, <2>3 DEF CellType
  <2> DEFINE i == FindPointer(n, c.key)
  <2>5. i \in 1 .. Len(n.cells) + 1
    <3> HIDE DEF n, c
    <3> QED BY <2>3, FindPointerPlace
  <2>6. InsertCell(n, i, c.key, c.ref).leaf = n.leaf
    <3> HIDE DEF n, c, i
    <3> QED BY <2>3, <2>4, <2>5, InsertCellSound
  <2>7. m.leaf
    BY <2>3, <2>6 DEF InsertLeaf
  <2> HIDE DEF m, c
  <2>8. \A q \in PageIds : node'[q] = IF q = p THEN m ELSE nodes[q]
    BY <2>2, <2>3
  <2> QED BY <2>7, <2>8 DEF Downward, Descends
<1> QED BY <1>1, <1>2 DEF Goes

\* The ranks after a split of page p.
Between(rank, p, next) ==
  [x \in PageIds |-> IF x = next THEN 2 * rank[p] ELSE 2 * rank[x] + 1]

\* They fit the pages after it.
LEMMA HalvesDescend ==
  ASSUME PageInv, NEW rank \in [PageIds -> Nat], Descends(rank, node),
         NEW p \in PageIds, p < next_page, next_page \in PageIds
  PROVE  /\ Between(rank, p, next_page) \in [PageIds -> Nat]
         /\ Descends(Between(rank, p, next_page),
                     [node EXCEPT ![p] = Lower(node[p], next_page),
                                  ![next_page] = Upper(node[p])])
<1> DEFINE next == next_page
           n == node[p]
           a == Lower(n, next)
           b == Upper(n)
           r == Between(rank, p, next)
           nodes == [node EXCEPT ![p] = a, ![next] = b]
<1>1. /\ r \in [PageIds -> Nat] /\ p # next /\ r[next] = 2 * rank[p]
      /\ \A x \in PageIds : rank[x] \in Nat /\ (x # next => r[x] = 2 * rank[x] + 1)
  <2>1. p # next
    BY PageNumbers DEF PageInv
  <2> QED BY <2>1 DEF Between
<1>2. Sound(n) /\ node \in [PageIds -> AnyPage]
  BY DEF PageInv, SoundPages
<1>3. \A x \in PageIds : ~node[x].leaf =>
        \A j \in 1 .. Len(node[x].cells) + 1 :
          /\ Link(node[x], j) \in PageIds /\ Link(node[x], j) # next
          /\ rank[Link(node[x], j)] < rank[x]
  <2> SUFFICES ASSUME NEW x \in PageIds, ~node[x].leaf, NEW j \in 1 .. Len(node[x].cells) + 1
               PROVE  /\ Link(node[x], j) \in PageIds /\ Link(node[x], j) # next
                      /\ rank[Link(node[x], j)] < rank[x]
    OBVIOUS
  <2>1. Sound(node[x])
    BY DEF PageInv, SoundPages
  <2>2. Link(node[x], j) \in PageIds
    BY <2>1, LinkType
  <2>3. Link(node[x], j) < next
    BY DEF PageInv, MadePages
  <2>4. rank[Link(node[x], j)] < rank[x]
    BY DEF Descends
  <2> QED BY <2>2, <2>3, <2>4, PageNumbers
<1>4. a.leaf = n.leaf /\ b.leaf = n.leaf
  <2> HIDE DEF n
  <2> QED BY <1>2, HalvesSound DEF a, b
<1>5. \A x \in PageIds : nodes[x] = IF x = p THEN a ELSE IF x = next THEN b ELSE node[x]
  <2> HIDE DEF a, b, next
  <2> QED BY <1>1, <1>2
<1>6. ~n.leaf =>
        /\ \A j \in 1 .. Len(a.cells) + 1 :
             Link(a, j) = next \/ \E i \in 1 .. Len(n.cells) + 1 : Link(a, j) = Link(n, i)
        /\ \A j \in 1 .. Len(b.cells) + 1 :
             \E i \in 1 .. Len(n.cells) + 1 : Link(b, j) = Link(n, i)
  <2> HIDE DEF n
  <2> QED BY <1>2, HalfLinks
<1> HIDE DEF a, b, r, nodes, next
<1>7. ASSUME NEW x \in PageIds, ~nodes[x].leaf, NEW j \in 1 .. Len(nodes[x].cells) + 1
      PROVE  r[Link(nodes[x], j)] < r[x]
  <2>1. CASE x = p
    <3>1. ~n.leaf /\ nodes[x] = a
      BY <1>4, <1>5, <1>7, <2>1
    <3>2. CASE Link(a, j) = next
      BY <1>1, <2>1, <3>1, <3>2
    <3>3. CASE \E i \in 1 .. Len(n.cells) + 1 : Link(a, j) = Link(n, i)
      BY <1>1, <1>3, <2>1, <3>1, <3>3
    <3> QED BY <1>6, <1>7, <3>1, <3>2, <3>3
  <2>2. CASE x = next
    <3>1. ~n.leaf /\ nodes[x] = b
      BY <1>1, <1>4, <1>5, <1>7, <2>2
    <3>2. PICK i \in 1 .. Len(n.cells) + 1 : Link(b, j) = Link(n, i)
      BY <1>6, <1>7, <3>1
    <3> QED BY <1>1, <1>3, <2>2, <3>1, <3>2
  <2>3. CASE x # p /\ x # next
    <3>1. nodes[x] = node[x]
      BY <1>5, <2>3
    <3> QED BY <1>1, <1>3, <1>7, <2>3, <3>1
  <2> QED BY <2>1, <2>2, <2>3
<1>8. Descends(r, nodes)
  BY <1>7 DEF Descends
<1> QED BY <1>1, <1>8 DEF r, nodes, next, a, b

\* An inner page more, or changed, whose links go down.
LEMMA OverDescends ==
  ASSUME NEW rank, NEW nodes \in [PageIds -> AnyPage], Descends(rank, nodes),
         NEW q \in PageIds, NEW over,
         \A j \in 1 .. Len(over.cells) + 1 : rank[Link(over, j)] < rank[q]
  PROVE  Descends(rank, [nodes EXCEPT ![q] = over])
BY DEF Descends

\* SplitChild keeps the links going down.
LEMMA SplitChildDown ==
  ASSUME PageInv, NEW t \in Threads, SplitChild(t), fault' = "none", Downward(node)
  PROVE  Downward(node')
<1> DEFINE k == args[t].key
           q == page[t]
           parent == node[q]
           p == Child(parent, k)
           next == next_page
           split == SplitKey(node[p])
           i == FindPointer(parent, k)
           over == InsertInner(parent, i, split, next)
           halves == [node EXCEPT ![p] = Lower(node[p], next), ![next] = Upper(node[p])]
           nodes == [node EXCEPT ![p] = Lower(node[p], next), ![next] = Upper(node[p]),
                                 ![q] = over]
           side == Side(k, split, p, next)
<1>1. /\ pc[t] = "insert_walk"
      /\ q \in PageIds /\ p \in PageIds /\ next \in PageIds
      /\ p # q /\ q # next /\ p # next /\ p < next
      /\ split \in Keys /\ Fits(parent, CellBytes(FALSE, split, next))
      /\ Goes(t, side, nodes) /\ Grown(nodes, next_page + 1, root)
  BY SplitChildGrown
<1>2. /\ Inserts(t) /\ Sound(parent) /\ ~parent.leaf
      /\ i \in 1 .. Len(parent.cells) + 1 /\ p = Link(parent, i) /\ Len(parent.cells) \in Nat
  BY <1>1, WalkPlace, SoundType DEF Inserts, Walks
<1>3. PICK rank \in [PageIds -> Nat] : Descends(rank, node)
  BY DEF Downward
<1> DEFINE r == Between(rank, p, next)
<1>4. /\ r \in [PageIds -> Nat] /\ Descends(r, halves)
  <2> HIDE DEF p
  <2> QED BY <1>1, <1>3, HalvesDescend
<1>5. \A j \in 1 .. Len(parent.cells) + 1 :
        /\ Link(parent, j) \in PageIds /\ Link(parent, j) # next
        /\ rank[Link(parent, j)] < rank[q]
  <2>1. \A j \in 1 .. Len(parent.cells) + 1 : Link(parent, j) \in PageIds
    <3> HIDE DEF parent
    <3> QED BY <1>2, LinkType
  <2>2. \A j \in 1 .. Len(parent.cells) + 1 : Link(parent, j) < next
    BY <1>1, <1>2 DEF PageInv, MadePages
  <2>3. \A j \in 1 .. Len(parent.cells) + 1 : rank[Link(parent, j)] < rank[q]
    BY <1>1, <1>2, <1>3 DEF Descends
  <2> HIDE DEF parent
  <2> QED BY <2>1, <2>2, <2>3, PageNumbers
<1>6. Sound(over) /\ ~over.leaf /\ Over(parent, over, i, split, next)
  <2> HIDE DEF parent, i, split, next
  <2> QED BY <1>1, <1>2, InnerOver
<1>7. nodes = [halves EXCEPT ![q] = over]
  OBVIOUS
<1>8. halves \in [PageIds -> AnyPage]
  <2>1. Sound(node[p]) /\ node \in [PageIds -> AnyPage]
    BY <1>1 DEF PageInv, SoundPages
  <2>2. Lower(node[p], next) \in AnyPage /\ Upper(node[p]) \in AnyPage
    <3> HIDE DEF p
    <3>1. Sound(Lower(node[p], next)) /\ Sound(Upper(node[p]))
      BY <1>1, <2>1, HalvesSound
    <3> QED BY <3>1, SoundType DEF AnyPage
  <2> HIDE DEF p
  <2> QED BY <2>1, <2>2
<1> HIDE DEF nodes, halves, over, parent, i, side, p
<1>9. \A x \in PageIds : rank[x] \in Nat /\ r[x] = IF x = next THEN 2 * rank[p] ELSE 2 * rank[x] + 1
  BY <1>1 DEF Between
<1>10. \A j \in 1 .. Len(over.cells) + 1 : r[Link(over, j)] < r[q]
  <2> HIDE DEF r, next, q
  <2> SUFFICES ASSUME NEW j \in 1 .. Len(over.cells) + 1 PROVE r[Link(over, j)] < r[q]
    OBVIOUS
  <2>1. Link(over, j) = next \/ \E h \in 1 .. Len(parent.cells) + 1 : Link(over, j) = Link(parent, h)
    BY <1>2, <1>6 DEF Over
  <2>2. CASE Link(over, j) = next
    <3>1. rank[p] < rank[q]
      BY <1>2, <1>5
    <3> QED BY <1>1, <1>9, <2>2, <3>1
  <2>3. CASE \E h \in 1 .. Len(parent.cells) + 1 : Link(over, j) = Link(parent, h)
    BY <1>1, <1>5, <1>9, <2>3
  <2> QED BY <2>1, <2>2, <2>3
<1> HIDE DEF r
<1>11. Descends(r, nodes)
  BY <1>1, <1>4, <1>7, <1>8, <1>10, OverDescends
<1>12. SoundPages(nodes) /\ Downward(nodes)
  BY <1>1, <1>4, <1>11 DEF Grown, Downward
<1>13. side \in PageIds
  BY <1>1, SideIs DEF side
<1> QED BY <1>1, <1>2, <1>12, <1>13, ProceedDown

\* So does SplitRoot, of a page that is the root no more too.
LEMMA SplitRootDown ==
  ASSUME PageInv, NEW t \in Threads, SplitRoot(t), Downward(node)
  PROVE  Downward(node')
<1> DEFINE p == page[t]
           n == node[p]
           next == next_page
           new == next_page + 1
           over == NewRoot(p, SplitKey(n), next)
           halves == [node EXCEPT ![p] = Lower(n, next), ![next] = Upper(n)]
           nodes == [node EXCEPT ![p] = Lower(n, next), ![next] = Upper(n), ![new] = over]
           side == Side(args[t].key, SplitKey(n), p, next)
<1>1. /\ Inserts(t) /\ p \in PageIds /\ p < next_page
      /\ Full(n, args[t].key, args[t].value) /\ new \in PageIds
      /\ \/ Goes(t, side, nodes)
         \/ Stumbles(t, side, nodes)
  BY SplitRootGoes DEF AtRoot, Inserts, PageInv, GoodCall, AtRootOf
<1>2. CASE Stumbles(t, side, nodes)
  <2> HIDE DEF side, nodes
  <2>1. node' = node
    BY <1>2 DEF Stumbles, Fault, shared
  <2> QED BY <2>1
<1>3. CASE Goes(t, side, nodes)
  <2>1. /\ next \in PageIds /\ p # next /\ p # new /\ next # new
        /\ SplitKey(n) \in Keys /\ Grown(nodes, next_page + 2, new)
    <3> DEFINE no == nodes
    <3>1. no = [node EXCEPT
                  ![p] = Lower(node[p], next_page), ![next_page] = Upper(node[p]),
                  ![next_page + 1] = NewRoot(p, SplitKey(node[p]), next_page)]
      OBVIOUS
    <3> HIDE DEF no
    <3>2. /\ next_page \in PageIds /\ p # next_page /\ p # next_page + 1
          /\ next_page # next_page + 1
          /\ SplitKey(node[p]) \in Keys
          /\ Grown(no, next_page + 2, next_page + 1)
      BY <1>1, <3>1, SplitRootGrown
    <3> QED BY <3>2 DEF no
  <2>2. PICK rank \in [PageIds -> Nat] : Descends(rank, node)
    BY DEF Downward
  <2> DEFINE rank1 == [rank EXCEPT ![new] = rank[p] + 1]
             r == Between(rank1, p, next)
  <2>3. /\ rank1 \in [PageIds -> Nat] /\ rank1[new] = rank[p] + 1
        /\ \A x \in PageIds : x # new => rank1[x] = rank[x]
    BY <1>1, <2>2
  <2>4. Descends(rank1, node)
    <3> SUFFICES ASSUME NEW x \in PageIds, ~node[x].leaf, NEW j \in 1 .. Len(node[x].cells) + 1
                 PROVE  rank1[Link(node[x], j)] < rank1[x]
      BY DEF Descends
    <3>1. node[new].leaf /\ Link(node[x], j) < next_page /\ next_page \in Nat
      BY <1>1, PageNumbers DEF PageInv, MadePages
    <3>2. Link(node[x], j) \in PageIds
      <4>1. Sound(node[x])
        BY DEF PageInv, SoundPages
      <4> QED BY <4>1, LinkType
    <3>3. x # new /\ Link(node[x], j) # new
      BY <3>1
    <3>4. rank[Link(node[x], j)] < rank[x]
      BY <2>2 DEF Descends
    <3> HIDE DEF rank1
    <3> QED BY <2>3, <3>2, <3>3, <3>4
  <2> HIDE DEF rank1
  <2>5. r \in [PageIds -> Nat] /\ Descends(r, halves)
    <3> HIDE DEF p
    <3> QED BY <1>1, <2>1, <2>3, <2>4, HalvesDescend
  <2>6. r[p] = 2 * rank[p] + 1 /\ r[next] = 2 * rank[p] /\ r[new] = 2 * rank[p] + 3 /\ rank[p] \in Nat
    BY <1>1, <2>1, <2>2, <2>3 DEF Between
  <2>7. Sound(over) /\ over.right = next /\ over.cells = <<[key |-> SplitKey(n), ref |-> p]>>
    <3> HIDE DEF n
    <3> QED BY <1>1, <2>1, NewRootSound
  <2>8. Len(over.cells) = 1 /\ over.cells[1].ref = p
    <3> DEFINE c == [key |-> SplitKey(n), ref |-> p]
    <3>1. c.ref = p
      OBVIOUS
    <3> HIDE DEF c
    <3>2. Len(<<c>>) = 1 /\ <<c>>[1] = c
      OBVIOUS
    <3> QED BY <2>7, <3>1, <3>2 DEF c
  <2>9. nodes = [halves EXCEPT ![new] = over]
    OBVIOUS
  <2>10. halves \in [PageIds -> AnyPage]
    <3>1. Sound(n) /\ node \in [PageIds -> AnyPage]
      BY <1>1 DEF PageInv, SoundPages
    <3>2. Lower(n, next) \in AnyPage /\ Upper(n) \in AnyPage
      <4> HIDE DEF n
      <4>1. Sound(Lower(n, next)) /\ Sound(Upper(n))
        BY <2>1, <3>1, HalvesSound
      <4> QED BY <4>1, SoundType DEF AnyPage
    <3> HIDE DEF n, p
    <3> QED BY <3>1, <3>2
  <2> HIDE DEF over, halves, nodes, r, side, p, next, new
  <2>11. \A j \in 1 .. Len(over.cells) + 1 : r[Link(over, j)] < r[new]
    <3> SUFFICES ASSUME NEW j \in 1 .. Len(over.cells) + 1 PROVE r[Link(over, j)] < r[new]
      OBVIOUS
    <3>1. j = 1 \/ j = 2
      BY <2>8
    <3>2. Link(over, j) = p \/ Link(over, j) = next
      BY <2>7, <2>8, <3>1 DEF Link
    <3> QED BY <2>6, <3>2
  <2>12. Descends(r, nodes)
    BY <1>1, <2>5, <2>9, <2>10, <2>11, OverDescends
  <2>13. SoundPages(nodes) /\ Downward(nodes)
    BY <2>1, <2>5, <2>12 DEF Grown, Downward
  <2>14. side \in PageIds
    BY <1>1, <2>1, SideIs DEF side
  <2> QED BY <1>1, <1>3, <2>13, <2>14, ProceedDown
<1> HIDE DEF side, nodes
<1> QED BY <1>1, <1>2, <1>3

\* Every step keeps the links going down.
LEMMA DownNext == PageInv /\ Downward(node) /\ [Next]_vars => Downward(node')
<1> SUFFICES ASSUME PageInv, Downward(node), [Next]_vars PROVE Downward(node')
  OBVIOUS
<1>1. CASE node' = node
  BY <1>1
<1>2. ASSUME NEW t \in Threads, InsertRoot(t) PROVE Downward(node')
  <2>1. Inserts(t) /\ page[t] \in PageIds /\ SoundPages(node)
    BY <1>2 DEF InsertRoot, AtRoot, Inserts, PageInv, GoodCall, AtRootOf
  <2>2. CASE Goes(t, page[t], node)
    BY <2>1, <2>2, ProceedDown
  <2>3. CASE Stumbles(t, page[t], node)
    BY <1>1, <2>3 DEF Stumbles, Fault, shared
  <2> QED BY <1>2, <2>2, <2>3, InsertRootGoes
<1>3. ASSUME NEW t \in Threads, InsertWalk(t) PROVE Downward(node')
  <2> DEFINE p == Child(node[page[t]], args[t].key)
  <2>1. Inserts(t) /\ p \in PageIds /\ SoundPages(node)
    BY <1>3, WalkPlace DEF InsertWalk, Walking, Inserts, Walks, PageInv
  <2>2. Goes(t, p, node) \/ Stumbles(t, p, node)
    BY <1>3, InsertWalkGoes
  <2> HIDE DEF p
  <2>3. CASE Goes(t, p, node)
    BY <2>1, <2>3, ProceedDown
  <2>4. CASE Stumbles(t, p, node)
    BY <1>1, <2>4 DEF Stumbles, Fault, shared
  <2> QED BY <2>2, <2>3, <2>4
<1>4. ASSUME NEW t \in Threads, SplitChild(t) PROVE Downward(node')
  <2>1. CASE fault' = "none"
    BY <1>4, <2>1, SplitChildDown
  <2>2. CASE fault' # "none"
    <3>1. \A p, nodes : ~Goes(t, p, nodes)
      BY <1>4, <2>2, ProceedNoFault DEF SplitChild, Walking
    <3>2. Fault("assert") \/ \E p, nodes : Stumbles(t, p, nodes)
      BY <1>4, <3>1, SplitChildGoes
    <3>3. \E kind : Fault(kind)
      BY <3>2 DEF Stumbles
    <3> QED BY <1>1, <3>3 DEF Fault, shared
  <2> QED BY <2>1, <2>2
<1>5. ASSUME NEW t \in Threads, SplitRootRunsOut(t) PROVE Downward(node')
  <2> DEFINE p == page[t]
  <2>1. /\ p \in PageIds /\ p < next_page /\ next_page \in PageIds
        /\ node' = [node EXCEPT ![p] = Lower(node[p], next_page), ![next_page] = Upper(node[p])]
    BY <1>5 DEF SplitRootRunsOut, AtRoot, PageInv, GoodCall, AtRootOf
  <2>2. PICK rank \in [PageIds -> Nat] : Descends(rank, node)
    BY DEF Downward
  <2> HIDE DEF p
  <2>3. /\ Between(rank, p, next_page) \in [PageIds -> Nat]
        /\ Descends(Between(rank, p, next_page), node')
    BY <2>1, <2>2, HalvesDescend
  <2> QED BY <2>3 DEF Downward
<1>6. CASE UNCHANGED vars
  BY <1>1, <1>6 DEF vars
<1>7. ASSUME NEW t \in Threads,
             Call(t) \/ Lookup(t) \/ InsertRunsOut(t) \/ WalkFails(t)
      PROVE  node' = node
  <2>1. CASE Call(t)
    BY <2>1 DEF Call, InsertCall, LookupCall, Begin, shared
  <2>2. CASE Lookup(t)
    BY <2>2 DEF Lookup, LookupStep, LookupRunsOut, shared
  <2>3. CASE InsertRunsOut(t) \/ WalkFails(t)
    BY <2>3 DEF InsertRunsOut, WalkFails, Fault, shared
  <2> QED BY <1>7, <2>1, <2>2, <2>3
<1> QED BY <1>1, <1>2, <1>3, <1>4, <1>5, <1>6, <1>7, SplitRootDown DEF Next, Insert

\* Where links go down, the call that stands lowest does not wait for another.
LEMMA DownSomebody == PageInv /\ Downward(node) => SomebodyDescends
<1> SUFFICES ASSUME PageInv, Downward(node), NothingLeft, \A t \in Threads : Waits(t)
             PROVE  FALSE
  BY DEF SomebodyDescends
<1>1. PICK rank \in [PageIds -> Nat] : Descends(rank, node)
  BY DEF Downward
<1>2. \A p \in PageIds : fixed[p] # NoThread =>
        fixed[p] \in Threads /\ Walks(fixed[p]) /\ page[fixed[p]] = p
  BY DEF PageInv, Scalars, NothingLeft, Left, Free, Stands, Walks
<1>3. \A t \in Threads : Walks(t) =>
        \E u \in Threads : Walks(u) /\ rank[page[u]] < rank[page[t]]
  <2> SUFFICES ASSUME NEW t \in Threads, Walks(t)
               PROVE  \E u \in Threads : Walks(u) /\ rank[page[u]] < rank[page[t]]
    OBVIOUS
  <2> DEFINE q == page[t]
             c == Child(node[q], args[t].key)
             i == FindPointer(node[q], args[t].key)
  <2>1. /\ q \in PageIds /\ ~node[q].leaf /\ c \in PageIds /\ c = Link(node[q], i)
        /\ i \in 1 .. Len(node[q].cells) + 1
    BY WalkPlace
  <2>2. fixed[c] # NoThread
    BY DEF Waits, Walks, Free, LookupTarget
  <2> HIDE DEF i
  <2>3. rank[c] < rank[q]
    BY <1>1, <2>1 DEF Descends
  <2> HIDE DEF c
  <2>4. fixed[c] \in Threads /\ Walks(fixed[c]) /\ page[fixed[c]] = c
    BY <1>2, <2>1, <2>2
  <2> QED BY <2>3, <2>4
<1>4. \E t \in Threads : Walks(t)
  <2>1. PICK t \in Threads : TRUE
    BY Constants
  <2>2. CASE ~Walks(t)
    <3>1. AtRootOf(t) /\ fixed[page[t]] # NoThread
      BY <2>2 DEF Waits, Walks, AtRootOf, Free, LookupTarget
    <3>2. page[t] \in PageIds
      BY <3>1 DEF PageInv, GoodCall
    <3> QED BY <1>2, <3>1, <3>2
  <2> QED BY <2>2
<1> DEFINE T == {rank[page[t]] : t \in {u \in Threads : Walks(u)}}
<1>5. T \in SUBSET Nat /\ T # {}
  <2>1. \A t \in Threads : Walks(t) => page[t] \in PageIds
    BY DEF PageInv, GoodCall
  <2> QED BY <1>1, <1>4, <2>1
<1>6. PICK x \in T : \A y \in T : x <= y
  <2> HIDE DEF T
  <2> QED BY <1>5, LeastElement
<1>7. PICK t \in Threads : Walks(t) /\ x = rank[page[t]]
  OBVIOUS
<1>8. PICK u \in Threads : Walks(u) /\ rank[page[u]] < rank[page[t]]
  BY <1>3, <1>7
<1>9. rank[page[u]] \in T /\ rank[page[u]] \in Nat /\ x \in Nat
  BY <1>5, <1>8
<1> QED BY <1>6, <1>7, <1>8, <1>9

(***************************************************************************)
(* The calls in progress never all wait for each other, whatever splits    *)
(* and stale roots they have met: latch coupling cannot deadlock, unless a *)
(* page has been left fixed.                                               *)
(***************************************************************************)
THEOREM NoDeadlock == Spec => []SomebodyDescends
<1>1. Init => Downward(node)
  <2> SUFFICES ASSUME Init PROVE Downward(node)
    OBVIOUS
  <2>1. \A p \in PageIds : node[p].leaf
    BY EmptyLeafSound DEF Init, EmptyLeaf
  <2>2. [p \in PageIds |-> 0] \in [PageIds -> Nat]
    OBVIOUS
  <2> QED BY <2>1, <2>2 DEF Downward, Descends
<1>2. PageInv /\ Downward(node) /\ [Next]_vars => Downward(node)'
  BY DownNext
<1>3. PageInv /\ Downward(node) => SomebodyDescends
  BY DownSomebody
<1> QED BY <1>1, <1>2, <1>3, PagesAlwaysSound, PTL DEF Spec

-----------------------------------------------------------------------------
(***************************************************************************)
(* Cells of about one length, on leaves and on inner pages: the longest,   *)
(* with its pointer, is no longer than two of the shortest, and if a page  *)
(* can have three cells it can have any three.  The split at half of the   *)
(* cells then never leaves a half with no room for one more.               *)
(***************************************************************************)
EvenCells(short, long) ==
  /\ short \in [BOOLEAN -> Nat] /\ long \in [BOOLEAN -> Nat]
  /\ \A leaf \in BOOLEAN :
       /\ \A c \in CellType(leaf) :
            /\ short[leaf] <= CellBytes(leaf, c.key, c.ref) + PointerBytes
            /\ CellBytes(leaf, c.key, c.ref) + PointerBytes <= long[leaf]
       /\ long[leaf] <= 2 * short[leaf]
       /\ 2 * long[leaf] <= PageSize - HeaderBytes
       /\ \/ 3 * long[leaf] <= PageSize - HeaderBytes
          \/ 3 * short[leaf] > PageSize - HeaderBytes

\* The bytes of a page that its cells and their pointers take.
Taken(n) == PageSize - HeaderBytes - n.free

\* What the cells of a page take is between the extremes.
LEMMA PayloadBetween ==
  ASSUME NEW leaf \in BOOLEAN, NEW cells \in Seq(CellType(leaf)),
         NEW a \in Nat, NEW b \in Nat,
         \A c \in CellType(leaf) :
           /\ a <= CellBytes(leaf, c.key, c.ref) + PointerBytes
           /\ CellBytes(leaf, c.key, c.ref) + PointerBytes <= b
  PROVE  LET len == Len(cells)
             taken == PayloadBytes(leaf, cells) + PointerBytes * len
         IN  len * a <= taken /\ taken <= len * b
<1> DEFINE len == Len(cells)
           c(i) == CellBytes(leaf, cells[i].key, cells[i].ref)
<1>1. PICK s : IsSum(s, leaf, cells) /\ PayloadBytes(leaf, cells) = s[len]
  BY PayloadSum
<1>2. /\ len \in Nat /\ s \in [0 .. len -> Nat] /\ s[0] = 0
      /\ \A i \in 1 .. len : s[i] = s[i - 1] + c(i)
  BY <1>1 DEF IsSum
<1>3. \A i \in 1 .. len : c(i) \in Nat /\ a <= c(i) + 2 /\ c(i) + 2 <= b
  <2>1. \A i \in 1 .. len : cells[i] \in CellType(leaf)
    BY ElementOfSeq
  <2> QED BY <2>1, CellBytesType DEF PointerBytes
<1> HIDE DEF len, c
<1> DEFINE S == {i \in Nat : i <= len => i * a <= s[i] + 2 * i /\ s[i] + 2 * i <= i * b}
<1>4. 0 \in S
  BY <1>2
<1>5. ASSUME NEW i \in Nat, i \in S PROVE i + 1 \in S
  <2> SUFFICES ASSUME i + 1 <= len
               PROVE  (i + 1) * a <= s[i + 1] + 2 * (i + 1) /\ s[i + 1] + 2 * (i + 1) <= (i + 1) * b
    OBVIOUS
  <2>1. i * a <= s[i] + 2 * i /\ s[i] + 2 * i <= i * b
    BY <1>2, <1>5
  <2>2. i + 1 \in 1 .. len /\ i \in 0 .. len /\ (i + 1) - 1 = i
    BY <1>2
  <2>3. s[i + 1] = s[i] + c(i + 1) /\ s[i] \in Nat
    BY <1>2, <2>2
  <2>4. c(i + 1) \in Nat /\ a <= c(i + 1) + 2 /\ c(i + 1) + 2 <= b
    BY <1>3, <2>2
  <2>5. (i + 1) * a = i * a + a /\ (i + 1) * b = i * b + b /\ i * a \in Nat /\ i * b \in Nat
    OBVIOUS
  <2> DEFINE x == s[i]
             y == s[i + 1]
             w == c(i + 1)
             ia == i * a
             ib == i * b
  <2>6. /\ ia \in Nat /\ ib \in Nat /\ x \in Nat /\ w \in Nat /\ y = x + w
        /\ ia <= x + 2 * i /\ x + 2 * i <= ib /\ a <= w + 2 /\ w + 2 <= b
    BY <2>1, <2>3, <2>4, <2>5
  <2> HIDE DEF x, y, w, ia, ib
  <2>7. ia + a <= y + 2 * (i + 1) /\ y + 2 * (i + 1) <= ib + b
    BY <2>6
  <2> QED BY <2>5, <2>7 DEF y, ia, ib
<1>6. Nat \subseteq S
  <2> HIDE DEF S
  <2> QED BY <1>4, <1>5, NatSetInduction, Zenon
<1>7. len * a <= s[len] + 2 * len /\ s[len] + 2 * len <= len * b
  BY <1>2, <1>6
<1> QED BY <1>1, <1>7 DEF len, PointerBytes

\* So is what is taken of a page.
LEMMA TakenBetween ==
  ASSUME NEW short, NEW long, EvenCells(short, long), NEW n, Sound(n)
  PROVE  /\ Taken(n) \in Int
         /\ Len(n.cells) * short[n.leaf] <= Taken(n)
         /\ Taken(n) <= Len(n.cells) * long[n.leaf]
<1> DEFINE a == short[n.leaf]
           b == long[n.leaf]
           taken == PayloadBytes(n.leaf, n.cells) + PointerBytes * Len(n.cells)
<1>1. n.leaf \in BOOLEAN /\ n.cells \in Seq(CellType(n.leaf)) /\ taken \in Int
  BY SoundType DEF PointerBytes
<1>2. taken = Taken(n)
  <2>1. taken = PageSize - HeaderBytes - n.free
    BY SoundType
  <2> QED BY <2>1 DEF Taken
<1>3. /\ a \in Nat /\ b \in Nat
      /\ \A c \in CellType(n.leaf) :
           /\ a <= CellBytes(n.leaf, c.key, c.ref) + PointerBytes
           /\ CellBytes(n.leaf, c.key, c.ref) + PointerBytes <= b
  BY <1>1 DEF EvenCells
<1> HIDE DEF a, b
<1>4. Len(n.cells) * a <= taken /\ taken <= Len(n.cells) * b
  BY <1>1, <1>3, PayloadBetween
<1> QED BY <1>1, <1>2, <1>4 DEF a, b

\* A half of a page has room for one more cell, as long as they come.
LEMMA HalvesHaveRoom ==
  ASSUME NEW short, NEW long, EvenCells(short, long), NEW n, Sound(n), Len(n.cells) >= 2,
         NEW next \in PageIds
  PROVE  /\ Lower(n, next).free >= long[n.leaf]
         /\ Upper(n).free >= long[n.leaf]
<1> DEFINE x == Lower(n, next)
           y == Upper(n)
           len == Len(n.cells)
           m == SplitAt(n)
           a == short[n.leaf]
           b == long[n.leaf]
           F == PageSize - HeaderBytes
<1>1. /\ Sound(x) /\ Sound(y) /\ x.leaf = n.leaf /\ y.leaf = n.leaf
      /\ x.cells = SubSeq(n.cells, 1, m) /\ y.cells = SubSeq(n.cells, m + 1, len)
  BY HalvesSound
<1>2. m \in 1 .. len - 1 /\ len \in Nat
  BY SplitKeyType, SoundType
<1>3. Len(x.cells) = m /\ Len(y.cells) = len - m
  <2> DEFINE S == CellType(n.leaf)
             s == n.cells
  <2>1. s \in Seq(S)
    BY SoundType
  <2> HIDE DEF S, s, m, x, y
  <2> QED BY <1>1, <1>2, <2>1 DEF s
<1>4. Taken(x) + Taken(y) = Taken(n)
  <2> DEFINE leaf == n.leaf
             cells == n.cells
             p == PayloadBytes(leaf, cells)
             q == PayloadBytes(leaf, SubSeq(cells, 1, m))
             r == PayloadBytes(leaf, SubSeq(cells, m + 1, len))
  <2>1. q + r = p
    <3>1. leaf \in BOOLEAN /\ cells \in Seq(CellType(leaf)) /\ m \in 0 .. Len(cells)
      BY <1>2, SoundType
    <3> HIDE DEF m, leaf
    <3> QED BY <3>1, PayloadSplit
  <2>2. p + PointerBytes * len = Taken(n) /\ p \in Nat
    BY SoundType DEF Taken
  <2>3. q + PointerBytes * m = Taken(x) /\ q \in Nat
    BY <1>1, <1>3, SoundType DEF Taken
  <2>4. r + PointerBytes * (len - m) = Taken(y) /\ r \in Nat
    BY <1>1, <1>3, SoundType DEF Taken
  <2> HIDE DEF p, q, r, m, len, x, y
  <2> QED BY <1>2, <2>1, <2>2, <2>3, <2>4 DEF PointerBytes
<1>5. /\ m * a <= Taken(x) /\ Taken(x) <= m * b
      /\ (len - m) * a <= Taken(y) /\ Taken(y) <= (len - m) * b
      /\ Taken(x) \in Int /\ Taken(y) \in Int
  <2> HIDE DEF x, y, m, len
  <2> QED BY <1>1, <1>3, TakenBetween
<1>6. /\ x.free = F - Taken(x) /\ y.free = F - Taken(y) /\ Taken(n) <= F /\ F \in Int
  <2>1. \A z \in {x, y, n} : z.free \in Int /\ z.free >= 0
    <3> HIDE DEF x, y
    <3>1. ASSUME NEW z, Sound(z) PROVE z.free \in Int /\ z.free >= 0
      BY <3>1, SoundType, Constants DEF HeaderBytes
    <3> QED BY <1>1, <3>1
  <2>2. F \in Int
    BY Constants DEF HeaderBytes
  <2> HIDE DEF x, y, F
  <2>3. \A z : Taken(z) = F - z.free
    BY DEF Taken, F
  <2>4. Taken(x) = F - x.free /\ Taken(y) = F - y.free /\ Taken(n) = F - n.free
    BY <2>3
  <2> QED BY <2>1, <2>2, <2>4
<1>7. /\ a \in Nat /\ b \in Nat /\ b <= 2 * a /\ 2 * b <= F
      /\ 3 * b <= F \/ 3 * a > F
  BY SoundType DEF EvenCells
<1>8. m = len \div 2
  BY DEF SplitAt
<1> DEFINE tx == Taken(x)
           ty == Taken(y)
<1> HIDE DEF a, b, F, len, m, x, y
<1>9. tx <= F - b /\ ty <= F - b
  <2>1. tx + ty <= F
    BY <1>4, <1>6
  <2>2. CASE len >= 4
    <3>1. 2 <= m /\ 2 <= len - m
      BY <1>2, <1>8, <2>2
    <3>2. \A i \in Nat : 2 <= i => 2 * a <= i * a
      BY <1>7
    <3>3. m \in Nat /\ len - m \in Nat
      BY <1>2
    <3>4. 2 * a <= m * a /\ 2 * a <= (len - m) * a
      BY <3>1, <3>2, <3>3
    <3>5. m * a \in Int /\ (len - m) * a \in Int
      BY <1>7, <3>3
    <3>6. b <= tx /\ b <= ty
      BY <1>5, <1>7, <3>4, <3>5
    <3> QED BY <1>5, <1>6, <1>7, <2>1, <3>6
  <2>3. CASE len = 3
    <3>1. m = 1 /\ len - m = 2
      BY <1>8, <2>3
    <3> QED BY <1>5, <1>6, <1>7, <2>1, <3>1
  <2>4. CASE len = 2
    <3>1. m = 1 /\ len - m = 1
      BY <1>8, <2>4
    <3> QED BY <1>5, <1>6, <1>7, <3>1
  <2>5. len >= 2
    BY DEF len
  <2> QED BY <1>2, <2>2, <2>3, <2>4, <2>5
<1>10. x.free >= b /\ y.free >= b
  BY <1>5, <1>6, <1>7, <1>9
<1> QED BY <1>10 DEF x, y, b

\* What a cell needs, is there for the longest.
LEMMA LongestFits ==
  ASSUME NEW short, NEW long, EvenCells(short, long), NEW n, Sound(n),
         n.free >= long[n.leaf], NEW k \in Keys, NEW v \in Values
  PROVE  /\ ~Full(n, k, v)
         /\ n.leaf => Fits(n, CellBytes(TRUE, k, v))
<1>1. n.leaf \in BOOLEAN /\ n.free \in Int /\ long[n.leaf] \in Nat
  BY SoundType DEF EvenCells, HeaderBytes
<1> DEFINE b == CellBytes(n.leaf, k, v)
<1>2. PICK c \in CellType(n.leaf) : CellBytes(n.leaf, c.key, c.ref) = b
  <2>1. CASE n.leaf
    <3>1. [key |-> k, ref |-> v] \in CellType(n.leaf)
      BY <2>1 DEF CellType
    <3> QED BY <3>1
  <2>2. CASE ~n.leaf
    <3>1. [key |-> k, ref |-> 1] \in CellType(n.leaf)
      BY <2>2, Constants DEF CellType, PageIds
    <3>2. CellBytes(n.leaf, k, 1) = b
      BY <2>2 DEF CellBytes
    <3> QED BY <3>1, <3>2
  <2> QED BY <1>1, <2>1, <2>2
<1>3. b \in Nat
  <2> HIDE DEF b
  <2> QED BY <1>1, <1>2, CellBytesType
<1>4. b + PointerBytes <= long[n.leaf]
  <2> HIDE DEF b
  <2> QED BY <1>1, <1>2 DEF EvenCells
<1>5. n.leaf => CellBytes(TRUE, k, v) = b
  BY DEF CellBytes
<1> HIDE DEF b
<1>6. n.free >= b /\ n.free >= b + PointerBytes
  BY <1>1, <1>3, <1>4 DEF PointerBytes
<1>7. ~Full(n, k, v)
  BY <1>1, <1>3, <1>6 DEF Full, b
<1> QED BY <1>5, <1>6, <1>7 DEF Fits

\* The assertion fails for what the check leaves out only, and a page that an
\* insertion stands on has passed the check.
RoomInv ==
  /\ RoomForCells
  /\ \A t \in Threads :
       pc[t] = "insert_walk" => ~Full(node[page[t]], args[t].key, args[t].value)

\* A step that does not put the caller on a full page.
LEMMA RoomKept ==
  ASSUME RoomInv, PageInv, NEW t \in Threads,
         Call(t) \/ Insert(t) \/ Lookup(t),
         RoomForCells', Others(t),
         pc'[t] = "insert_walk" => ~Full(node'[page'[t]], args'[t].key, args'[t].value)
  PROVE  RoomInv'
<1>1. ASSUME NEW u \in Threads, u # t, pc'[u] = "insert_walk"
      PROVE  ~Full(node'[page'[u]], args'[u].key, args'[u].value)
  <2>1. pc[u] = "insert_walk" /\ page'[u] = page[u] /\ args'[u] = args[u]
    BY <1>1 DEF Others
  <2>2. Walks(u)
    BY <2>1 DEF Walks
  <2>3. page[u] \in PageIds /\ fixed[page[u]] = u
    BY <2>2, WalkPlace
  <2>4. node'[page[u]] = node[page[u]]
    BY <1>1, <2>3, OnlyOwnPages, Constants DEF OthersPagesStay
  <2> QED BY <2>1, <2>4 DEF RoomInv
<1> QED BY <1>1 DEF RoomInv

\* An assertion that fails for what the check leaves out, or another fault.
LEMMA FaultRoom ==
  ASSUME RoomInv, NEW t \in Threads, Fault("unfix") \/ (Fault("assert") /\ LeftOut(t))
  PROVE  RoomInv'
<1>1. node' = node /\ pc' = pc /\ page' = page /\ args' = args
  BY DEF Fault, shared
<1>2. \A u \in Threads :
        pc'[u] = "insert_walk" => ~Full(node'[page'[u]], args'[u].key, args'[u].value)
  BY <1>1 DEF RoomInv
<1>3. CASE Fault("unfix")
  <2>1. RoomForCells'
    BY <1>3 DEF Fault, RoomForCells
  <2> QED BY <1>2, <2>1 DEF RoomInv
<1>4. CASE LeftOut(t)
  <2>1. LeftOut(t)'
    BY <1>1, <1>4 DEF LeftOut, NoPointer, NoSeparator
  <2> QED BY <1>2, <2>1 DEF RoomInv, RoomForCells
<1> QED BY <1>3, <1>4

\* A call stumbles on a leaf that was checked: the pointer has no room.
LEMMA StumblesRoom ==
  ASSUME RoomInv, PageInv, NEW t \in Threads, Inserts(t), NEW n, Sound(n),
         ~Full(n, args[t].key, args[t].value), n.leaf,
         ~Fits(n, CellBytes(TRUE, args[t].key, args[t].value))
  PROVE  NoPointer(n, args[t].key, args[t].value)
<1> DEFINE b == CellBytes(TRUE, args[t].key, args[t].value)
<1>1. b \in Nat
  <2>1. [key |-> args[t].key, ref |-> args[t].value] \in CellType(TRUE)
    BY DEF PageInv, GoodCall, Scalars, CellType
  <2> QED BY <2>1, CellBytesType
<1>2. n.free \in Int /\ CellBytes(n.leaf, args[t].key, args[t].value) = b
  BY SoundType DEF HeaderBytes, CellBytes
<1> HIDE DEF b
<1>3. n.free >= b /\ ~(n.free >= b + 2)
  <2>1. ~(n.free < b)
    BY <1>2 DEF Full
  <2>2. ~(n.free >= b + 2)
    BY DEF Fits, PointerBytes, b
  <2> QED BY <1>1, <1>2, <2>1, <2>2
<1>4. n.free - b \in 0 .. 2 - 1
  BY <1>1, <1>2, <1>3
<1> QED BY <1>4 DEF NoPointer, PointerBytes, b

\* Page p, which the call goes on to, is not full: the call goes on as it should.
LEMMA GoesRoom ==
  ASSUME RoomInv, PageInv, NEW t \in Threads, fault = "none",
         Inserts(t), Insert(t), NEW p \in PageIds, NEW nodes,
         ~Full(nodes[p], args[t].key, args[t].value),
         Goes(t, p, nodes)
  PROVE  RoomInv'
<1>1. Scalars
  BY DEF PageInv
<1>2. CASE StepDown(t, p, nodes, Hold(t, p))
  <2>1. /\ fault' = fault /\ node' = nodes /\ page'[t] = p /\ args' = args
        /\ Others(t)
    BY <1>1, <1>2 DEF StepDown, Scalars, Others
  <2>2. RoomForCells'
    BY <2>1 DEF RoomForCells
  <2>3. ~Full(node'[page'[t]], args'[t].key, args'[t].value)
    BY <2>1
  <2> QED BY <2>1, <2>2, <2>3, RoomKept
<1>3. CASE StoreInLeaf(t, p, nodes, Hold(t, p)) /\ fixed' = HoldNothing(t)
  <2>1. Return(t, "SUCCESS", NoValue)
    BY <1>3 DEF StoreInLeaf
  <2>2. fault' = fault /\ pc'[t] = "idle" /\ Others(t)
    BY <1>1, <2>1, Returned
  <2>3. RoomForCells'
    BY <2>2 DEF RoomForCells
  <2> QED BY <2>2, <2>3, RoomKept
<1> QED BY <1>2, <1>3 DEF Goes

\* The half of a page that the key goes to has the room.
LEMMA SplitRoom ==
  ASSUME NEW short, NEW long, EvenCells(short, long), PageInv, NEW p \in PageIds,
         next_page \in PageIds, p # next_page,
         NEW k \in Keys, NEW v \in Values, Full(node[p], k, v),
         NEW nodes, NEW side \in {p, next_page},
         NEW q, q # p, q # next_page, NEW over,
         nodes = [node EXCEPT ![p] = Lower(node[p], next_page),
                              ![next_page] = Upper(node[p]), ![q] = over]
  PROVE  /\ ~Full(nodes[side], k, v)
         /\ nodes[side].leaf => Fits(nodes[side], CellBytes(TRUE, k, v))
<1>1. node \in [PageIds -> AnyPage] /\ Sound(node[p])
  BY DEF PageInv, SoundPages
<1>2. nodes[p] = Lower(node[p], next_page) /\ nodes[next_page] = Upper(node[p])
  BY <1>1
<1> DEFINE x == Lower(node[p], next_page)
           y == Upper(node[p])
           leaf == node[p].leaf
<1>3. Sound(x) /\ Sound(y) /\ x.leaf = leaf /\ y.leaf = leaf
  BY <1>1, HalvesSound
<1>4. Len(node[p].cells) >= 2
  BY <1>1, FullHasTwo
<1>5. x.free >= long[leaf] /\ y.free >= long[leaf]
  BY <1>1, <1>4, HalvesHaveRoom
<1> HIDE DEF x, y
<1>6. ~Full(x, k, v) /\ (x.leaf => Fits(x, CellBytes(TRUE, k, v)))
  BY <1>3, <1>5, LongestFits
<1>7. ~Full(y, k, v) /\ (y.leaf => Fits(y, CellBytes(TRUE, k, v)))
  BY <1>3, <1>5, LongestFits
<1> QED BY <1>2, <1>6, <1>7 DEF x, y

\* A call that stumbles after a split: not for want of room.
LEMMA StumblesFits ==
  ASSUME NEW t, NEW p, NEW nodes, Stumbles(t, p, nodes),
         nodes[p].leaf => Fits(nodes[p], CellBytes(TRUE, args[t].key, args[t].value))
  PROVE  Fault("unfix")
BY DEF Stumbles

\* No step is taken after a fault.
LEMMA NoneAfterFault ==
  ASSUME NEW t \in Threads, Call(t) \/ Insert(t) \/ Lookup(t)
  PROVE  fault = "none"
BY DEF Call, InsertCall, LookupCall, Begin, Insert, InsertRoot, SplitRoot, InsertRunsOut,
       SplitRootRunsOut, WalkFails, InsertWalk, SplitChild, AtRoot, Walking,
       Lookup, LookupStep, LookupRunsOut, Looking

\* Every insertion keeps the room.
LEMMA InsertRoom ==
  ASSUME NEW short, NEW long, EvenCells(short, long), RoomInv, PageInv,
         NEW t \in Threads, Insert(t)
  PROVE  RoomInv'
<1> DEFINE k == args[t].key
           v == args[t].value
<1>1. fault = "none" /\ Scalars
  BY NoneAfterFault DEF PageInv
<1>2. Inserts(t) => k \in Keys /\ v \in Values
  BY DEF PageInv, GoodCall, Scalars
<1>3. CASE InsertRoot(t)
  <2> DEFINE p == page[t]
  <2>1. p \in PageIds /\ Inserts(t) /\ pc[t] = "insert_root"
    BY <1>3 DEF InsertRoot, AtRoot, PageInv, GoodCall, AtRootOf, Inserts
  <2>2. Sound(node[p])
    BY <2>1 DEF PageInv, SoundPages
  <2>3. ~Full(node[p], k, v) /\ (Goes(t, p, node) \/ Stumbles(t, p, node))
    BY <1>3, InsertRootGoes
  <2>4. CASE Goes(t, p, node)
    BY <1>1, <1>3, <2>1, <2>3, <2>4, GoesRoom DEF Insert
  <2>5. CASE Stumbles(t, p, node)
    <3>1. Fault("unfix") \/ (Fault("assert") /\ node[p].leaf /\ ~Fits(node[p], CellBytes(TRUE, k, v)))
      BY <2>5 DEF Stumbles
    <3>2. ASSUME node[p].leaf, ~Fits(node[p], CellBytes(TRUE, k, v)) PROVE LeftOut(t)
      <4>1. NoPointer(node[p], k, v)
        BY <2>1, <2>2, <2>3, <3>2, StumblesRoom
      <4> QED BY <2>1, <4>1 DEF LeftOut
    <3> QED BY <3>1, <3>2, FaultRoom
  <2> QED BY <2>3, <2>4, <2>5
<1>4. CASE SplitRoot(t)
  <2> DEFINE p == page[t]
             n == node[p]
             next == next_page
             new == next_page + 1
             over == NewRoot(p, SplitKey(n), next)
             nodes == [node EXCEPT ![p] = Lower(n, next), ![next] = Upper(n), ![new] = over]
             side == Side(k, SplitKey(n), p, next)
  <2>1. p \in PageIds /\ Inserts(t) /\ p < next_page
    BY <1>4 DEF SplitRoot, AtRoot, PageInv, GoodCall, AtRootOf, Inserts
  <2>2. /\ Full(n, k, v) /\ new \in PageIds
        /\ Goes(t, side, nodes) \/ Stumbles(t, side, nodes)
    BY <1>4, SplitRootGoes
  <2>3. next_page \in PageIds /\ p # next_page /\ new # p /\ new # next_page
    <3>1. next_page \in Nat /\ next_page >= 1 /\ p \in Nat
      BY <2>1, Constants, PageNumbers DEF PageInv, Scalars
    <3> HIDE DEF p
    <3> QED BY <2>1, <2>2, <3>1, Constants DEF PageIds
  <2>4. side \in {p, next_page}
    BY DEF Side
  <2> HIDE DEF side, new, over, p, k, v
  <2>5. /\ ~Full(nodes[side], k, v)
        /\ nodes[side].leaf => Fits(nodes[side], CellBytes(TRUE, k, v))
    BY <1>2, <2>1, <2>2, <2>3, <2>4, SplitRoom
  <2>6. side \in PageIds
    BY <2>1, <2>3, <2>4
  <2> HIDE DEF nodes
  <2>7. CASE Goes(t, side, nodes)
    BY <1>1, <1>4, <2>1, <2>5, <2>6, <2>7, GoesRoom DEF Insert, k, v
  <2>8. CASE Stumbles(t, side, nodes)
    BY <2>5, <2>8, StumblesFits, FaultRoom DEF k, v
  <2> QED BY <2>2, <2>7, <2>8
<1>5. CASE InsertRunsOut(t) \/ SplitRootRunsOut(t)
  <2>1. Return(t, "ENOMEM", NoValue)
    BY <1>5 DEF InsertRunsOut, SplitRootRunsOut
  <2>2. fault' = "none" /\ pc'[t] = "idle" /\ Others(t)
    BY <1>1, <2>1, Returned
  <2>3. RoomForCells'
    BY <2>2 DEF RoomForCells
  <2> QED BY <2>2, <2>3, RoomKept
<1>6. CASE WalkFails(t)
  <2>1. ~Full(node[page[t]], k, v)
    BY <1>6 DEF WalkFails, RoomInv
  <2>2. Fault("unfix")
    BY <1>6, <2>1 DEF WalkFails
  <2> QED BY <2>2, FaultRoom
<1>7. CASE InsertWalk(t)
  <2> DEFINE p == Child(node[page[t]], k)
  <2>1. Inserts(t) /\ Walks(t) /\ pc[t] = "insert_walk"
    BY <1>7 DEF InsertWalk, Walking, Inserts, Walks
  <2>2. p \in PageIds
    BY <2>1, WalkPlace
  <2>3. ~Full(node[p], k, v) /\ (Goes(t, p, node) \/ Stumbles(t, p, node))
    BY <1>7, InsertWalkGoes
  <2>4. Sound(node[p])
    BY <2>2 DEF PageInv, SoundPages
  <2>5. CASE Goes(t, p, node)
    <3> HIDE DEF p
    <3> QED BY <1>1, <1>7, <2>1, <2>2, <2>3, <2>5, GoesRoom DEF Insert
  <2>6. CASE Stumbles(t, p, node)
    <3>1. Fault("unfix") \/ (Fault("assert") /\ node[p].leaf /\ ~Fits(node[p], CellBytes(TRUE, k, v)))
      BY <2>6 DEF Stumbles
    <3>2. ASSUME node[p].leaf, ~Fits(node[p], CellBytes(TRUE, k, v)) PROVE LeftOut(t)
      <4>1. NoPointer(node[p], k, v)
        <5> HIDE DEF p
        <5> QED BY <2>1, <2>3, <2>4, <3>2, StumblesRoom
      <4> QED BY <2>1, <4>1 DEF LeftOut
    <3> QED BY <3>1, <3>2, FaultRoom
  <2> QED BY <2>3, <2>5, <2>6
<1>8. CASE SplitChild(t)
  <2> DEFINE q == page[t]
             parent == node[q]
             child == Child(parent, k)
             n == node[child]
             next == next_page
             split == SplitKey(n)
             over == InsertInner(parent, FindPointer(parent, k), split, next)
             nodes == [node EXCEPT ![child] = Lower(n, next), ![next] = Upper(n), ![q] = over]
             side == Side(k, split, child, next)
  <2>1. Inserts(t) /\ Walks(t) /\ pc[t] = "insert_walk" /\ fixed[child] = NoThread
    BY <1>8 DEF SplitChild, Walking, Inserts, Walks, Free
  <2>2. /\ child \in PageIds /\ q \in PageIds /\ child < next_page /\ q < next_page
        /\ fixed[q] = t /\ Sound(parent) /\ ~parent.leaf
    BY <2>1, WalkPlace
  <2>3. /\ Full(n, k, v) /\ next \in PageIds
        /\ IF Fits(parent, CellBytes(FALSE, split, next))
             THEN Goes(t, side, nodes) \/ Stumbles(t, side, nodes)
             ELSE Fault("assert")
    BY <1>8, SplitChildGoes
  <2>4. CASE ~Fits(parent, CellBytes(FALSE, split, next))
    <3>1. Fault("assert")
      BY <2>3, <2>4
    <3>2. ~Full(parent, k, v)
      BY <2>1 DEF RoomInv
    <3>3. parent.free \in Int /\ KeyBytes[k] \in Nat
      <4>1. k \in Keys
        BY <1>2, <2>1
      <4> HIDE DEF parent, child, k
      <4>2. parent.free \in Int
        BY <2>2, SoundType DEF HeaderBytes
      <4> QED BY <4>1, <4>2, Constants
    <3>4. parent.free >= CellBytes(FALSE, k, 0)
      BY <2>2, <3>2, <3>3 DEF Full, CellBytes, IdBytes
    <3>5. ~Fits(parent, CellBytes(FALSE, split, 0))
      BY <2>4 DEF CellBytes
    <3>6. NoSeparator(parent, k, n)
      BY <3>4, <3>5 DEF NoSeparator
    <3>7. LeftOut(t)
      BY <2>1, <3>6 DEF LeftOut
    <3> QED BY <3>1, <3>7, FaultRoom
  <2>5. CASE Goes(t, side, nodes) \/ Stumbles(t, side, nodes)
    <3>1. side \in {child, next_page}
      BY DEF Side
    <3>2. child # next_page /\ q # child /\ q # next_page
      <4>1. child \in Nat /\ next_page \in Nat /\ q \in Nat
        BY <2>2, <2>3, PageNumbers
      <4> HIDE DEF child, q
      <4> QED BY <2>1, <2>2, <4>1, Constants
    <3> HIDE DEF side, over, child, q, k, v
    <3>3. /\ ~Full(nodes[side], k, v)
          /\ nodes[side].leaf => Fits(nodes[side], CellBytes(TRUE, k, v))
      BY <1>2, <2>1, <2>2, <2>3, <3>1, <3>2, SplitRoom
    <3>4. side \in PageIds
      BY <2>2, <2>3, <3>1
    <3> HIDE DEF nodes
    <3>5. CASE Goes(t, side, nodes)
      BY <1>1, <1>8, <2>1, <3>3, <3>4, <3>5, GoesRoom DEF Insert, k, v
    <3>6. CASE Stumbles(t, side, nodes)
      BY <3>3, <3>6, StumblesFits, FaultRoom DEF k, v
    <3> QED BY <2>5, <3>5, <3>6
  <2> QED BY <2>3, <2>4, <2>5
<1> QED BY <1>3, <1>4, <1>5, <1>6, <1>7, <1>8 DEF Insert

\* Every step keeps the room.
LEMMA RoomNext ==
  ASSUME NEW short, NEW long, EvenCells(short, long)
  PROVE  RoomInv /\ PageInv /\ [Next]_vars => RoomInv'
<1> SUFFICES ASSUME RoomInv, PageInv, [Next]_vars PROVE RoomInv'
  OBVIOUS
<1>1. CASE UNCHANGED vars
  BY <1>1 DEF vars, RoomInv, RoomForCells, LeftOut
<1>2. CASE Next
  <2>1. PICK t \in Threads : Call(t) \/ Insert(t) \/ Lookup(t)
    BY <1>2 DEF Next
  <2>2. Scalars /\ fault = "none"
    BY <2>1, NoneAfterFault DEF PageInv
  <2> DEFINE Goal == fault' = fault /\ pc'[t] # "insert_walk" /\ Others(t)
  <2>3. CASE Call(t)
    <3>1. ASSUME NEW pair \in Offered, InsertCall(t, pair[1], pair[2]) PROVE Goal
      BY <2>2, <3>1 DEF InsertCall, Begin, Scalars, Others
    <3>2. ASSUME NEW k \in Keys, LookupCall(t, k) PROVE Goal
      BY <2>2, <3>2 DEF LookupCall, Begin, Scalars, Others
    <3>3. Goal
      <4> HIDE DEF Goal
      <4> QED BY <2>3, <3>1, <3>2 DEF Call
    <3> QED BY <2>1, <2>2, <3>3, RoomKept DEF RoomForCells
  <2>4. CASE Lookup(t)
    <3>1. Goal
      BY <2>2, <2>4
         DEF Lookup, LookupStep, LookupRunsOut, LookupAt, Answered, Return, Scalars, Others
    <3> QED BY <2>1, <2>2, <3>1, RoomKept DEF RoomForCells
  <2>5. CASE Insert(t)
    BY <2>5, InsertRoom
  <2> QED BY <2>1, <2>3, <2>4, <2>5
<1> QED BY <1>1, <1>2

(***************************************************************************)
(* Where the cells of a page are of about one length, the check made on    *)
(* the way down leaves out two things and no other: if the assertion of    *)
(* page_insert_payload fails, it is the pointer to the cell of a leaf that *)
(* has no room, or a separator in a parent, which is longer than the key   *)
(* or has no room for its pointer.  In particular a half of a page that    *)
(* was just split always takes the cell.                                   *)
(***************************************************************************)
THEOREM RoomAlways ==
  ASSUME NEW short, NEW long, EvenCells(short, long)
  PROVE  Spec => []RoomForCells
<1>1. Init => RoomInv
  BY DEF Init, RoomInv, RoomForCells
<1>2. RoomInv /\ PageInv /\ [Next]_vars => RoomInv'
  BY RoomNext
<1>3. RoomInv => RoomForCells
  BY DEF RoomInv
<1> QED BY <1>1, <1>2, <1>3, PagesAlwaysSound, PTL DEF Spec

=============================================================================
