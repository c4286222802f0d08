----------------------------- MODULE Induction ------------------------------
(***************************************************************************)
(* Induction on the natural numbers, over a set instead of a predicate:    *)
(* the lemmas of the library that take a predicate for a parameter cannot  *)
(* be cited for a definition.  From it, that what is defined by recursion  *)
(* exists and is one; and two operators on sequences, place by place.      *)
(***************************************************************************)
EXTENDS Integers, FiniteSets, SequencesExt, FiniteSetTheorems, SequenceTheorems, TLAPS

(***************************************************************************)
(* A set that has 0, and with every number the next one, has them all.     *)
(* Otherwise let m be out of it: the numbers up to m that are in it make a *)
(* finite set, and adding 1 maps it into itself without 0.                 *)
(***************************************************************************)
LEMMA NatSetInduction ==
  ASSUME NEW S, 0 \in S, \A n \in Nat : n \in S => n + 1 \in S
  PROVE  Nat \subseteq S
<1> SUFFICES ASSUME NEW m \in Nat, m \notin S PROVE FALSE
  OBVIOUS
<1> DEFINE A == {n \in 0 .. m : n \in S}
           next == [n \in A |-> n + 1]
<1>1. A \in SUBSET (0 .. m) /\ 0 \in A
  OBVIOUS
<1>2. IsFiniteSet(A)
  BY <1>1, FS_Interval, FS_Subset, 0 \in Int, m \in Int, Zenon
<1>3. next \in Injection(A, A \ {0})
  <2>1. \A n \in A : n + 1 \in A \ {0}
    OBVIOUS
  <2>2. next \in [A -> A \ {0}]
    BY <2>1
  <2>3. \A a, b \in A : next[a] = next[b] => a = b
    OBVIOUS
  <2> QED
    BY <2>2, <2>3 DEF Injection, IsInjective
<1>4. IsFiniteSet(A \ {0}) /\ Cardinality(A \ {0}) = Cardinality(A) - 1
  BY <1>1, <1>2, FS_RemoveElement, Zenon
<1>5. Cardinality(A) <= Cardinality(A \ {0})
  BY <1>3, <1>4, FS_Injection, Zenon
<1>6. Cardinality(A) \in Nat
  BY <1>2, FS_CardinalityType, Zenon
<1> QED
  BY <1>4, <1>5, <1>6

\* A set of natural numbers has a least one.
LEMMA LeastElement ==
  ASSUME NEW T \in SUBSET Nat, T # {}
  PROVE  \E x \in T : \A y \in T : x <= y
<1> SUFFICES ASSUME \A x \in T : \E y \in T : y < x PROVE FALSE
  OBVIOUS
<1> DEFINE S == {n \in Nat : \A x \in T : x > n}
<1>1. 0 \in S
  OBVIOUS
<1>2. \A n \in Nat : n \in S => n + 1 \in S
  OBVIOUS
<1>3. Nat \subseteq S
  BY <1>1, <1>2, NatSetInduction, Zenon
<1>4. PICK x \in T : TRUE
  OBVIOUS
<1> QED
  BY <1>3, <1>4

(***************************************************************************)
(* A sequence defined by recursion exists: what a recursive function over  *)
(* 0 .. n is chosen from is not empty.                                     *)
(***************************************************************************)
Steps(F, n, X) == F \in [1 .. n -> [X -> X]]

Recursion(s, n, X, x, F) ==
  s \in [0 .. n -> X] /\ s[0] = x /\ \A i \in 1 .. n : s[i] = F[i][s[i - 1]]

LEMMA RecursionExists ==
  ASSUME NEW n \in Nat, NEW X, NEW x \in X, NEW F, Steps(F, n, X)
  PROVE  \E s : Recursion(s, n, X, x, F)
<1> USE DEF Steps
<1> DEFINE Good(m, s) == s[0] = x /\ \A i \in 1 .. m : s[i] = F[i][s[i - 1]]
           S == {m \in Nat : m <= n => \E s \in [0 .. m -> X] : Good(m, s)}
<1>1. 0 \in S
  <2>1. [i \in 0 .. 0 |-> x] \in [0 .. 0 -> X] /\ Good(0, [i \in 0 .. 0 |-> x])
    OBVIOUS
  <2> QED BY <2>1
<1>2. ASSUME NEW m \in Nat, m \in S PROVE m + 1 \in S
  <2> HIDE DEF Good
  <2> SUFFICES ASSUME m + 1 <= n PROVE \E s \in [0 .. m + 1 -> X] : Good(m + 1, s)
    OBVIOUS
  <2>1. PICK s \in [0 .. m -> X] : Good(m, s)
    BY <1>2
  <2> USE DEF Good
  <2> DEFINE z == [i \in 0 .. m + 1 |-> IF i = m + 1 THEN F[m + 1][s[m]] ELSE s[i]]
  <2>2. s[m] \in X /\ F[m + 1][s[m]] \in X
    OBVIOUS
  <2>3. z \in [0 .. m + 1 -> X]
    BY <2>2
  <2>4. z[0] = x /\ z[m + 1] = F[m + 1][z[m]]
    BY <2>1
  <2>5. ASSUME NEW i \in 1 .. m PROVE z[i] = F[i][z[i - 1]]
    <3>1. z[i] = s[i] /\ z[i - 1] = s[i - 1] /\ s[i] = F[i][s[i - 1]]
      BY <2>1
    <3> QED BY <3>1
  <2>6. Good(m + 1, z)
    <3> HIDE DEF z
    <3> QED BY <2>4, <2>5
  <2> HIDE DEF z, Good
  <2> QED BY <2>3, <2>6
<1>3. n \in S
  <2> HIDE DEF S
  <2> QED BY <1>1, <1>2, NatSetInduction, Zenon
<1>4. \E s \in [0 .. n -> X] : Good(n, s)
  <2> HIDE DEF Good
  <2> QED BY <1>3
<1> QED BY <1>4 DEF Recursion

\* The sums of the first weights.
LEMMA SumExists ==
  ASSUME NEW n \in Nat, NEW w \in [1 .. n -> Nat]
  PROVE  \E s \in [0 .. n -> Nat] :
           s[0] = 0 /\ \A i \in 1 .. n : s[i] = s[i - 1] + w[i]
<1> DEFINE F == [i \in 1 .. n |-> [x \in Nat |-> x + w[i]]]
<1>1. F \in [1 .. n -> [Nat -> Nat]] /\ \A i \in 1 .. n, x \in Nat : F[i][x] = x + w[i]
  OBVIOUS
<1> HIDE DEF F
<1>2. 0 \in Nat /\ Steps(F, n, Nat)
  BY <1>1 DEF Steps
<1>3. PICK s : Recursion(s, n, Nat, 0, F)
  BY <1>2, RecursionExists, Zenon
<1>4. \A i \in 1 .. n : s[i] = s[i - 1] + w[i]
  <2>1. \A i \in 1 .. n : s[i - 1] \in Nat
    BY <1>3 DEF Recursion
  <2> QED BY <1>1, <1>3, <2>1 DEF Recursion
<1> QED BY <1>3, <1>4 DEF Recursion

\* Two sequences that begin alike and go on alike are one.
GoAlike(n, a, b) ==
  a[0] = b[0] /\ \A i \in 1 .. n : a[i - 1] = b[i - 1] => a[i] = b[i]

LEMMA SumUnique ==
  ASSUME NEW n \in Nat, NEW a, NEW b, GoAlike(n, a, b)
  PROVE  \A i \in 0 .. n : a[i] = b[i]
<1> USE DEF GoAlike
<1> DEFINE S == {i \in Nat : i <= n => a[i] = b[i]}
<1>1. 0 \in S
  OBVIOUS
<1>2. ASSUME NEW m \in Nat, m \in S PROVE m + 1 \in S
  <2>1. m + 1 <= n => m + 1 \in 1 .. n /\ (m + 1) - 1 = m
    OBVIOUS
  <2> QED BY <1>2, <2>1
<1>3. Nat \subseteq S
  <2> HIDE DEF S
  <2> QED BY <1>1, <1>2, NatSetInduction, Zenon
<1> QED BY <1>3

-----------------------------------------------------------------------------
(***************************************************************************)
(* Sequences.                                                              *)
(***************************************************************************)
\* InsertAt, place by place.
LEMMA InsertAtPlaces ==
  ASSUME NEW S, NEW s \in Seq(S), NEW i \in 1 .. Len(s) + 1, NEW e \in S
  PROVE  /\ InsertAt(s, i, e) \in Seq(S)
         /\ Len(InsertAt(s, i, e)) = Len(s) + 1
         /\ \A j \in 1 .. Len(s) + 1 :
              InsertAt(s, i, e)[j] = IF j < i THEN s[j]
                                     ELSE IF j = i THEN e ELSE s[j - 1]
<1> DEFINE a == SubSeq(s, 1, i - 1)
           b == SubSeq(s, i, Len(s))
<1>1. Len(s) \in Nat /\ \A j \in 1 .. Len(s) : s[j] \in S
  OBVIOUS
<1>2. /\ a \in Seq(S) /\ Len(a) = i - 1
      /\ \A j \in 1 .. i - 1 : a[j] = s[j]
  <2>1. 1 \in Int /\ i - 1 \in Int /\ \A j \in 1 .. i - 1 : s[j] \in S
    BY <1>1
  <2>2. /\ a \in Seq(S)
        /\ Len(a) = IF 1 <= i - 1 THEN (i - 1) - 1 + 1 ELSE 0
        /\ \A j \in 1 .. (i - 1) - 1 + 1 : a[j] = s[1 + j - 1]
    BY <2>1, SubSeqProperties
  <2> HIDE DEF a
  <2> QED BY <1>1, <2>2
<1>3. /\ b \in Seq(S) /\ Len(b) = Len(s) - i + 1
      /\ \A j \in 1 .. Len(s) - i + 1 : b[j] = s[i + j - 1]
  <2>1. i \in Int /\ Len(s) \in Int /\ \A j \in i .. Len(s) : s[j] \in S
    BY <1>1
  <2>2. /\ b \in Seq(S)
        /\ Len(b) = IF i <= Len(s) THEN Len(s) - i + 1 ELSE 0
        /\ \A j \in 1 .. Len(s) - i + 1 : b[j] = s[i + j - 1]
    BY <2>1, SubSeqProperties
  <2> HIDE DEF b
  <2> QED BY <1>1, <2>2
<1> DEFINE c == a \o <<e>>
<1>4. /\ c \in Seq(S) /\ Len(c) = i
      /\ \A j \in 1 .. i : c[j] = IF j < i THEN s[j] ELSE e
  <2>1. <<e>> \in Seq(S) /\ Len(<<e>>) = 1 /\ <<e>>[1] = e
    OBVIOUS
  <2>2. /\ c \in Seq(S) /\ Len(c) = Len(a) + Len(<<e>>)
        /\ \A j \in 1 .. Len(a) + Len(<<e>>) :
             c[j] = IF j <= Len(a) THEN a[j] ELSE <<e>>[j - Len(a)]
    BY <1>2, <2>1, ConcatProperties, Zenon
  <2> HIDE DEF a, c
  <2> QED BY <1>2, <2>1, <2>2
<1>5. /\ c \o b \in Seq(S) /\ Len(c \o b) = Len(c) + Len(b)
      /\ \A j \in 1 .. Len(c) + Len(b) :
           (c \o b)[j] = IF j <= Len(c) THEN c[j] ELSE b[j - Len(c)]
  <2> HIDE DEF a, b, c
  <2> QED BY <1>3, <1>4, ConcatProperties, Zenon
<1>6. InsertAt(s, i, e) = c \o b
  BY DEF InsertAt
<1> HIDE DEF a, b, c
<1> QED BY <1>1, <1>3, <1>4, <1>5, <1>6

\* SubSeq, place by place.
LEMMA SubSeqPlaces ==
  ASSUME NEW S, NEW s \in Seq(S), NEW a \in 1 .. Len(s) + 1, NEW b \in 0 .. Len(s),
         a <= b + 1
  PROVE  /\ SubSeq(s, a, b) \in Seq(S)
         /\ Len(SubSeq(s, a, b)) = b - a + 1
         /\ \A j \in 1 .. b - a + 1 : SubSeq(s, a, b)[j] = s[a + j - 1]
<1>1. a \in Int /\ b \in Int /\ \A j \in a .. b : s[j] \in S
  OBVIOUS
<1>2. /\ SubSeq(s, a, b) \in Seq(S)
      /\ Len(SubSeq(s, a, b)) = IF a <= b THEN b - a + 1 ELSE 0
      /\ \A j \in 1 .. b - a + 1 : SubSeq(s, a, b)[j] = s[a + j - 1]
  BY <1>1, SubSeqProperties
<1> DEFINE c == SubSeq(s, a, b)
<1> HIDE DEF c
<1> QED BY <1>2

=============================================================================
