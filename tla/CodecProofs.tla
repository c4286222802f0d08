---------------------------- MODULE CodecProofs -----------------------------
(***************************************************************************)
(* Proofs about the bytes of integers, of identifiers and of cells: for    *)
(* groups of any number of values and integers of any number of bytes,     *)
(* what is put is got back, as long as it does not need the last byte; for *)
(* any clock and random bits, identifiers sort by their time; and in a     *)
(* page of any size, every pointer leads to its cell.                      *)
(***************************************************************************)
EXTENDS Cells, Uuid, Induction

LEMMA MinLeast ==
  ASSUME NEW S \in SUBSET Nat, S # {}
  PROVE  Min(S) \in S /\ \A y \in S : Min(S) <= y
BY LeastElement DEF Min

\* The weights are the powers of Group.
LEMMA WeightIs ==
  /\ Weight[0] = 1
  /\ \A i \in 1 .. MaxBytes : Weight[i] = Group * Weight[i - 1]
  /\ \A i \in 0 .. MaxBytes : Weight[i] \in Nat \ {0}
PROOF
  <1> DEFINE X == Nat \ {0}
             F == [i \in 1 .. MaxBytes |-> [x \in X |-> Group * x]]
             Body(f) == [n \in 0 .. MaxBytes |-> IF n = 0 THEN 1 ELSE Group * f[n - 1]]
  <1>1. Group \in X /\ MaxBytes \in Nat /\ \A x \in X : Group * x \in X
    BY VarintAssumption
  <1>2. Steps(F, MaxBytes, X)
    BY <1>1 DEF Steps
  <1>3. PICK s : Recursion(s, MaxBytes, X, 1, F)
    <2>1. 1 \in X
      OBVIOUS
    <2> HIDE DEF X, F
    <2>2. QED
      BY <1>1, <1>2, <2>1, RecursionExists
  <1>4. s \in [0 .. MaxBytes -> X] /\ s[0] = 1
        /\ \A i \in 1 .. MaxBytes : s[i] = F[i][s[i - 1]]
    BY <1>3 DEF Recursion
  <1>5. \A i \in 1 .. MaxBytes : s[i - 1] \in X /\ s[i] = Group * s[i - 1]
    <2> TAKE i \in 1 .. MaxBytes
    <2>1. i - 1 \in 0 .. MaxBytes
      BY <1>1
    <2>2. s[i - 1] \in X
      BY <1>4, <2>1
    <2>3. QED
      BY <1>4, <2>2
  <1>6. s = Body(s)
    <2>1. \A n \in 0 .. MaxBytes : n # 0 => n \in 1 .. MaxBytes
      BY <1>1
    <2>2. QED
      BY <1>4, <1>5, <2>1
  <1>7. Weight = Body(Weight)
    BY <1>6 DEF Weight
  <1>8. Weight[0] = 1 /\ \A i \in 1 .. MaxBytes : Weight[i] = Group * Weight[i - 1]
    <2> HIDE DEF X, F
    <2>1. 0 \in 0 .. MaxBytes /\ \A i \in 1 .. MaxBytes : i \in 0 .. MaxBytes /\ i # 0
      BY <1>1
    <2>2. QED
      BY <1>7, <2>1
  <1>9. \A i \in 0 .. MaxBytes : Weight[i] = s[i]
    <2> HIDE DEF X, F
    <2>1. \A i \in 1 .. MaxBytes : Weight[i - 1] = s[i - 1] => Weight[i] = s[i]
      BY <1>5, <1>8
    <2>2. MaxBytes \in Nat /\ Weight[0] = s[0]
      BY <1>1, <1>4, <1>8
    <2>3. ASSUME NEW w, w[0] = s[0],
                 \A i \in 1 .. MaxBytes : w[i - 1] = s[i - 1] => w[i] = s[i]
          PROVE  \A i \in 0 .. MaxBytes : w[i] = s[i]
      <3>1. GoAlike(MaxBytes, w, s)
        BY <2>3, Zenon DEF GoAlike
      <3>2. QED
        BY <2>2, <3>1, SumUnique, Zenon
    <2>4. QED
      BY <2>1, <2>2, <2>3
  <1>10. QED
    BY <1>4, <1>8, <1>9

\* A value and its groups: one group more.
LEMMA OneGroupMore ==
  ASSUME NEW v \in Nat, NEW w \in Nat \ {0}, NEW g \in Nat \ {0}
  PROVE  (v % w) + ((v \div w) % g) * w = v % (g * w)
PROOF
  <1> DEFINE q == v \div w
             r == v % w
             p == q \div g
             d == q % g
             x == r + d * w
  <1>1. v = w * q + r /\ q \in Nat /\ r \in 0 .. w - 1
    OBVIOUS
  <1>2. q = g * p + d /\ p \in Nat /\ d \in 0 .. g - 1
    BY <1>1
  <1> HIDE DEF q, r, p, d
  <1>3. v = (g * w) * p + x
    BY <1>1, <1>2
  <1>4. d * w <= (g - 1) * w
    BY <1>2
  <1>5. x \in Nat /\ x < g * w
    BY <1>1, <1>2, <1>4
  <1>6. g * w \in Nat \ {0}
    OBVIOUS
  <1>7. ASSUME NEW m \in Nat \ {0}, NEW y \in Nat, y < m, v = m * p + y
        PROVE  v % m = y
    BY <1>2, <1>7
  <1>8. v % (g * w) = x
    BY <1>3, <1>5, <1>6, <1>7
  <1>9. QED
    BY <1>8 DEF r, d, q

\* The result after the first bytes is the sum of their shares.
LEMMA ResultsAre ==
  ASSUME NEW b, \A i \in Positions : Share(b, i) \in Nat
  PROVE  /\ Results(b)[0] = 0
         /\ \A i \in 1 .. MaxBytes : Results(b)[i] = Results(b)[i - 1] + Share(b, i - 1)
PROOF
  <1> DEFINE w == [i \in 1 .. MaxBytes |-> Share(b, i - 1)]
             Body(f) == [n \in 0 .. MaxBytes |-> IF n = 0 THEN 0 ELSE f[n - 1] + Share(b, n - 1)]
  <1>1. MaxBytes \in Nat /\ \A i \in 1 .. MaxBytes : i - 1 \in Positions
    BY VarintAssumption DEF Positions, LastPosition
  <1>2. w \in [1 .. MaxBytes -> Nat]
    BY <1>1
  <1>3. PICK s \in [0 .. MaxBytes -> Nat] :
          s[0] = 0 /\ \A i \in 1 .. MaxBytes : s[i] = s[i - 1] + w[i]
    <2> HIDE DEF w
    <2>1. QED
      BY <1>1, <1>2, SumExists
  <1>4. s = Body(s)
    <2>1. \A n \in 0 .. MaxBytes : n # 0 => n \in 1 .. MaxBytes
      BY <1>1
    <2>2. QED
      BY <1>3, <2>1
  <1>5. Results(b) = Body(Results(b))
    BY <1>4 DEF Results
  <1>6. 0 \in 0 .. MaxBytes /\ \A i \in 1 .. MaxBytes : i \in 0 .. MaxBytes /\ i # 0
    BY <1>1
  <1>7. QED
    BY <1>5, <1>6

\* The value fits into the groups varint_put_len counts.
LEMMA PutLenFits ==
  ASSUME NEW v \in Nat, v < Weight[LastPosition]
  PROVE  PutLen(v) \in 1 .. LastPosition /\ v < Weight[PutLen(v)]
PROOF
  <1> DEFINE S == {MaxBytes} \cup {n \in 1 .. LastPosition : v < Weight[n]}
  <1>1. MaxBytes \in Nat /\ LastPosition \in 1 .. LastPosition /\ LastPosition < MaxBytes
    BY VarintAssumption DEF LastPosition
  <1>2. S \in SUBSET Nat /\ LastPosition \in S
    BY <1>1
  <1>3. Min(S) \in S /\ Min(S) <= LastPosition
    <2> HIDE DEF S
    <2>1. QED
      BY <1>2, MinLeast
  <1>4. QED
    BY <1>1, <1>3 DEF PutLen

(***************************************************************************)
(* varint_get gets back what varint_put puts, from whatever buffer, and    *)
(* both walk over the same bytes.                                          *)
(***************************************************************************)
THEOREM PutThenGet ==
  ASSUME NEW old \in [Positions -> Bytes],
         NEW v \in Nat, v < Weight[LastPosition]
  PROVE  /\ Get(Bytewise(old, v)) = v
         /\ GetLen(Bytewise(old, v)) = Stored(v)
PROOF
  <1> DEFINE b == Short(old, v)
             n == PutLen(v)
  <1>1. Group \in Nat \ {0, 1} /\ MaxBytes \in Nat \ {0, 1} /\ LastPosition = MaxBytes - 1
    BY VarintAssumption DEF LastPosition
  <1>2. n \in 1 .. LastPosition /\ v < Weight[n]
    BY PutLenFits
  <1>3. Weight[LastPosition] \in Nat \ {0} /\ Weight[n] \in Nat \ {0}
    BY <1>1, <1>2, WeightIs
  <1>4. Bytewise(old, v) = b /\ Stored(v) = n
    BY <1>3 DEF Bytewise, Stored
  <1>5. \A i \in 0 .. n - 1 : Digit(v, i) \in 0 .. Group - 1
    BY <1>1, <1>2, WeightIs DEF Digit
  <1>6. /\ \A i \in 0 .. n - 2 : i \in Positions /\ b[i] = Digit(v, i) + Group
        /\ n - 1 \in Positions /\ b[n - 1] = Digit(v, n - 1)
    BY <1>1, <1>2 DEF Short, Positions
  <1>7. GetLen(b) = n
    <2> HIDE DEF b, n
    <2> DEFINE S == {LastPosition} \cup {i \in Positions : ~Continues(b[i])}
    <2>1. \A i \in 0 .. n - 2 : Continues(b[i])
      BY <1>1, <1>2, <1>5, <1>6 DEF Continues
    <2>2. n - 1 \in S
      BY <1>1, <1>2, <1>5, <1>6 DEF Continues
    <2>3. S \in SUBSET Nat /\ \A i \in S : i >= n - 1
      BY <1>1, <1>2, <2>1 DEF Positions
    <2>4. Min(S) = n - 1
      <3> HIDE DEF S
      <3>1. Min(S) \in S /\ \A y \in S : Min(S) <= y
        BY <2>2, <2>3, MinLeast
      <3>2. Min(S) \in Nat /\ Min(S) <= n - 1 /\ Min(S) >= n - 1
        BY <2>2, <2>3, <3>1
      <3>3. QED
        BY <1>1, <1>2, <3>2
    <2>5. QED
      BY <1>1, <1>2, <2>4 DEF GetLen
  <1>8. ASSUME NEW i \in 0 .. n - 1
        PROVE  Share(b, i) = Digit(v, i) * Weight[i]
    <2> HIDE DEF b, n
    <2>1. Digit(v, i) \in 0 .. Group - 1 /\ i < LastPosition
      BY <1>1, <1>2, <1>5
    <2>2. b[i] % Group = Digit(v, i)
      <3>1. b[i] = Digit(v, i) \/ b[i] = Digit(v, i) + Group
        BY <1>2, <1>6
      <3>2. QED
        BY <1>1, <2>1, <3>1
    <2>3. QED
      BY <2>1, <2>2 DEF Share
  <1>9. \A i \in Positions : Share(b, i) \in Nat
    <2> SUFFICES ASSUME NEW i \in Positions PROVE Share(b, i) \in Nat
      OBVIOUS
    <2>1. b[i] \in Nat
      <3>1. CASE i \in 0 .. n - 1
        BY <1>1, <1>2, <1>5, <1>6, <3>1
      <3>2. CASE i \notin 0 .. n - 1
        <4>1. b[i] = old[i] /\ old[i] \in Bytes
          BY <1>1, <1>2, <3>2 DEF Short, Positions
        <4>2. QED
          BY <1>1, <4>1 DEF Bytes
      <3>3. QED
        BY <3>1, <3>2
    <2> HIDE DEF b
    <2>2. Weight[i] \in Nat
      BY <1>1, WeightIs DEF Positions
    <2>3. QED
      BY <1>1, <2>1, <2>2 DEF Share
  <1>10. Results(b)[n] = v % Weight[n]
    <2> HIDE DEF b, n
    <2> DEFINE rest == [i \in 0 .. n |-> v % Weight[i]]
    <2>1. Results(b)[0] = rest[0]
      BY <1>2, <1>9, ResultsAre, WeightIs
    <2>2. ASSUME NEW i \in 1 .. n, Results(b)[i - 1] = rest[i - 1]
          PROVE  Results(b)[i] = rest[i]
      <3> DEFINE w == Weight[i - 1]
      <3>1. i \in 1 .. MaxBytes /\ i - 1 \in 0 .. n - 1 /\ i \in 0 .. n /\ i - 1 \in 0 .. n
            /\ i - 1 \in 0 .. MaxBytes
        BY <1>1, <1>2
      <3>2. w \in Nat \ {0} /\ Weight[i] = Group * w
        BY <3>1, WeightIs
      <3>3. Results(b)[i] = (v % w) + Share(b, i - 1)
        BY <1>9, <2>2, <3>1, ResultsAre
      <3>4. Share(b, i - 1) = ((v \div w) % Group) * w
        BY <1>8, <3>1 DEF Digit
      <3>5. (v % w) + ((v \div w) % Group) * w = v % (Group * w)
        <4> HIDE DEF w
        <4>1. QED
          BY <1>1, <3>2, OneGroupMore
      <3>6. rest[i] = v % Weight[i]
        BY <3>1
      <3> HIDE DEF w, rest
      <3>7. QED
        BY <3>2, <3>3, <3>4, <3>5, <3>6
    <2>3. n \in Nat /\ n \in 0 .. n
      BY <1>1, <1>2
    <2>4. Results(b)[n] = rest[n]
      <3> HIDE DEF rest
      <3>1. QED
        <4>1. GoAlike(n, Results(b), rest)
          BY <2>1, <2>2 DEF GoAlike
        <4>2. \A i \in 0 .. n : Results(b)[i] = rest[i]
          BY <2>3, <4>1, SumUnique
        <4>3. QED
          BY <2>3, <4>2, Zenon
    <2>5. QED
      BY <2>3, <2>4
  <1>11. v % Weight[n] = v
    <2> HIDE DEF n
    <2>1. QED
      BY <1>2, <1>3
  <1>12. QED
    BY <1>4, <1>7, <1>10, <1>11 DEF Get

\* What a buffer holds stays bytes.
LEMMA PutBytes ==
  ASSUME NEW old \in [Positions -> Bytes],
         NEW v \in Nat, v < Weight[LastPosition]
  PROVE  Bytewise(old, v) \in [Positions -> Bytes]
PROOF
  <1>1. Group \in Nat \ {0, 1} /\ MaxBytes \in Nat \ {0, 1} /\ LastPosition = MaxBytes - 1
    BY VarintAssumption DEF LastPosition
  <1>2. PutLen(v) \in 1 .. LastPosition
    BY PutLenFits
  <1>3. ~(v >= Weight[LastPosition])
    BY <1>1, WeightIs
  <1>4. ASSUME NEW i \in Positions, i < PutLen(v)
        PROVE  Digit(v, i) \in Bytes /\ Digit(v, i) + Group \in Bytes
    <2>1. Weight[i] \in Nat \ {0}
      BY <1>1, WeightIs DEF Positions
    <2>2. Digit(v, i) \in 0 .. Group - 1
      BY <1>1, <2>1 DEF Digit
    <2>3. QED
      BY <1>1, <2>2 DEF Bytes
  <1>5. Short(old, v) \in [Positions -> Bytes]
    <2>1. ASSUME NEW i \in Positions
          PROVE  IF i < PutLen(v) - 1 THEN Digit(v, i) + Group \in Bytes
                 ELSE i = PutLen(v) - 1 => Digit(v, i) \in Bytes
      BY <1>1, <1>2, <1>4 DEF Positions
    <2>2. QED
      BY <2>1 DEF Short
  <1>6. QED
    BY <1>3, <1>5 DEF Bytewise

(***************************************************************************)
(* Whatever is put one after the other, into a buffer that held anything,  *)
(* is got back, as long as it fits into the groups in front of the last    *)
(* byte: 56 bits in the code (varint_put, varint_get).                     *)
(***************************************************************************)
BufferInv ==
  /\ value \in 0 .. Limit - 1
  /\ buffer \in [Positions -> Bytes]
  /\ Get(buffer) = value

THEOREM PutIsGot ==
  ASSUME Limit <= Weight[LastPosition]
  PROVE  Spec => []RoundTrip
PROOF
  <1>1. ASSUME NEW old \in [Positions -> Bytes], NEW v \in 0 .. Limit - 1
        PROVE  Bytewise(old, v) \in [Positions -> Bytes] /\ Get(Bytewise(old, v)) = v
    <2>1. Limit \in Nat /\ Weight[LastPosition] \in Nat
      <3>1. MaxBytes \in 0 .. MaxBytes /\ LastPosition \in 0 .. MaxBytes
        BY VarintAssumption DEF LastPosition
      <3>2. QED
        BY <3>1, VarintAssumption, WeightIs
    <2>2. v \in Nat /\ v < Weight[LastPosition]
      BY <2>1
    <2>3. QED
      BY <2>2, PutBytes, PutThenGet
  <1>2. Init => BufferInv
    <2>1. \A x \in Bytes : [i \in Positions |-> x] \in [Positions -> Bytes]
      OBVIOUS
    <2>2. QED
      BY <1>1, <2>1 DEF Init, BufferInv
  <1>3. BufferInv /\ [Next]_vars => BufferInv'
    <2>1. BufferInv /\ Next => BufferInv'
      BY <1>1 DEF Next, Put, BufferInv
    <2>2. BufferInv /\ UNCHANGED vars => BufferInv'
      BY DEF vars, BufferInv, Get, GetLen, Results, Share
    <2>3. QED
      BY <2>1, <2>2
  <1>4. BufferInv => RoundTrip
    BY DEF BufferInv, RoundTrip
  <1>5. QED
    BY <1>2, <1>3, <1>4, PTL DEF Spec

-----------------------------------------------------------------------------
\* One byte less at a time.
LEMMA ShiftedIs ==
  ASSUME NEW src \in Nat, NEW n \in Nat
  PROVE  /\ Shifted(src, 0) = src
         /\ Shifted(src, n + 1) = Shifted(src, n) \div 256
         /\ Shifted(src, n) \in Nat
PROOF
  <1> DEFINE Body(f, m) == [k \in 0 .. m |-> IF k = 0 THEN src ELSE f[k - 1] \div 256]
             F == [i \in 1 .. n + 1 |-> [x \in Nat |-> x \div 256]]
  <1>1. PICK s : Recursion(s, n + 1, Nat, src, F)
    <2>1. Steps(F, n + 1, Nat) /\ n + 1 \in Nat
      BY DEF Steps
    <2> HIDE DEF F
    <2>2. QED
      BY <2>1, RecursionExists
  <1>2. /\ s \in [0 .. n + 1 -> Nat] /\ s[0] = src
        /\ \A i \in 1 .. n + 1 : s[i] = s[i - 1] \div 256
    <2>1. s \in [0 .. n + 1 -> Nat] /\ s[0] = src /\ \A i \in 1 .. n + 1 : s[i] = F[i][s[i - 1]]
      BY <1>1 DEF Recursion
    <2>2. \A i \in 1 .. n + 1 : i - 1 \in 0 .. n + 1
      OBVIOUS
    <2>3. QED
      BY <2>1, <2>2
  <1>3. ASSUME NEW m \in 0 .. n + 1
        PROVE  Shifted(src, m) = s[m]
    <2> DEFINE g == CHOOSE f : f = Body(f, m)
               h == [k \in 0 .. m |-> s[k]]
    <2>1. \A k \in 0 .. m : k # 0 => k \in 1 .. n + 1 /\ k - 1 \in 0 .. m
      OBVIOUS
    <2>2. h = Body(h, m)
      BY <1>2, <2>1
    <2>3. g = Body(g, m)
      BY <2>2
    <2> HIDE DEF g
    <2>4. g[0] = s[0] /\ \A i \in 1 .. m : g[i - 1] = s[i - 1] => g[i] = s[i]
      <3>1. g[0] = src
        BY <2>3
      <3>2. \A i \in 1 .. m : g[i] = g[i - 1] \div 256 /\ s[i] = s[i - 1] \div 256
        BY <1>2, <2>3
      <3>3. QED
        BY <1>2, <3>1, <3>2
    <2>5. m \in Nat /\ m \in 0 .. m
      OBVIOUS
    <2>6. g[m] = s[m]
      <3>1. GoAlike(m, g, s)
        BY <2>4, Zenon DEF GoAlike
      <3>2. QED
        <4>1. \A i \in 0 .. m : g[i] = s[i]
          BY <2>5, <3>1, SumUnique
        <4>2. QED
          BY <2>5, <4>1, Zenon
    <2>7. QED
      BY <2>6 DEF Shifted, g
  <1>4. QED
    BY <1>2, <1>3

\* A number, and what is left of it when bytes are taken off.
LEMMA ShiftedChain ==
  ASSUME NEW src \in Nat
  PROVE  \E f : /\ f[0] = src
                /\ \A n \in Nat : f[n] = Shifted(src, n) /\ f[n] \in Nat
                /\ \A n \in Nat : f[n + 1] = f[n] \div 256
PROOF
  <1> DEFINE f == [n \in Nat |-> Shifted(src, n)]
  <1>1. ASSUME NEW n \in Nat PROVE f[n] = Shifted(src, n)
    OBVIOUS
  <1> HIDE DEF f
  <1>2. ASSUME NEW n \in Nat PROVE f[n] \in Nat /\ f[n + 1] = f[n] \div 256
    <2>1. n + 1 \in Nat
      OBVIOUS
    <2>2. f[n + 1] = Shifted(src, n + 1) /\ f[n] = Shifted(src, n)
      BY <1>1, <2>1
    <2>3. Shifted(src, n) \in Nat
      BY ShiftedIs
    <2>4. Shifted(src, n + 1) = Shifted(src, n) \div 256
      BY ShiftedIs
    <2>5. QED
      BY <2>2, <2>3, <2>4
  <1>3. Shifted(src, 0) = src
    <2>1. 0 \in Nat
      OBVIOUS
    <2>2. QED
      BY <2>1, ShiftedIs
  <1>4. f[0] = src
    BY <1>1, <1>3
  <1>5. QED
    BY <1>1, <1>2, <1>4

\* Numbers alike but for the last byte.
LEMMA LastByte ==
  ASSUME NEW x \in Nat, NEW y \in Nat, x <= y, x \div 256 = y \div 256
  PROVE  x % 256 <= y % 256 /\ (x % 256 = y % 256 => x = y)
OBVIOUS

\* The bytes of u in front are those of the time.
Stamped(u, time) ==
  /\ DOMAIN u = 0 .. 15
  /\ \A i \in 0 .. 5 : u[i] = Shifted(time, 5 - i) % 256

(***************************************************************************)
(* Identifiers of different times: as long as their first bytes agree, so  *)
(* do the times without the bytes behind; the byte where they first differ *)
(* is the larger one in the later time.                                    *)
(***************************************************************************)
LEMMA StampsSort ==
  ASSUME NEW x \in Nat, NEW y \in Nat, x < y, Shifted(x, 6) = 0, Shifted(y, 6) = 0,
         NEW u, NEW w, Stamped(u, x), Stamped(w, y)
  PROVE  Less(u, w)
PROOF
  <1>1. PICK X : /\ X[0] = x
                 /\ \A n \in Nat : X[n] = Shifted(x, n) /\ X[n] \in Nat
                 /\ \A n \in Nat : X[n + 1] = X[n] \div 256
    BY ShiftedChain, Zenon
  <1>2. PICK Y : /\ Y[0] = y
                 /\ \A n \in Nat : Y[n] = Shifted(y, n) /\ Y[n] \in Nat
                 /\ \A n \in Nat : Y[n + 1] = Y[n] \div 256
    BY ShiftedChain, Zenon
  <1>3. X[0] <= Y[0] /\ X[1] <= Y[1] /\ X[2] <= Y[2] /\ X[3] <= Y[3] /\ X[4] <= Y[4]
        /\ X[5] <= Y[5] /\ X[6] = Y[6]
    <2>1. \A a, b \in Nat : a <= b => a \div 256 <= b \div 256
      OBVIOUS
    <2>2. \A k \in Nat : X[k] <= Y[k] => X[k + 1] <= Y[k + 1]
      BY <1>1, <1>2, <2>1
    <2>3. X[0] <= Y[0]
      BY <1>1, <1>2
    <2>4. X[1] <= Y[1]
      BY <2>2, <2>3, 0 + 1 = 1
    <2>5. X[2] <= Y[2]
      BY <2>2, <2>4, 1 + 1 = 2
    <2>6. X[3] <= Y[3]
      BY <2>2, <2>5, 2 + 1 = 3
    <2>7. X[4] <= Y[4]
      BY <2>2, <2>6, 3 + 1 = 4
    <2>8. X[5] <= Y[5]
      BY <2>2, <2>7, 4 + 1 = 5
    <2>9. X[6] = Y[6]
      BY <1>1, <1>2
    <2>10. QED
      BY <2>3, <2>4, <2>5, <2>6, <2>7, <2>8, <2>9
  <1>4. ASSUME NEW i \in 0 .. 5, X[6 - i] = Y[6 - i]
        PROVE  u[i] <= w[i] /\ u[i] \in Nat /\ w[i] \in Nat /\ (u[i] = w[i] => X[5 - i] = Y[5 - i])
    <2>1. 5 - i \in Nat /\ (5 - i) + 1 = 6 - i /\ 5 - i \in {0, 1, 2, 3, 4, 5}
      OBVIOUS
    <2>2. /\ X[5 - i] \in Nat /\ Y[5 - i] \in Nat
          /\ X[6 - i] = X[5 - i] \div 256 /\ Y[6 - i] = Y[5 - i] \div 256
      BY <1>1, <1>2, <2>1
    <2>3. X[5 - i] <= Y[5 - i]
      BY <1>3, <2>1
    <2>4. u[i] = X[5 - i] % 256 /\ w[i] = Y[5 - i] % 256
      BY <1>1, <1>2, <2>1 DEF Stamped
    <2> DEFINE a == X[5 - i]
               b == Y[5 - i]
    <2>5. a \in Nat /\ b \in Nat /\ a <= b /\ a \div 256 = b \div 256
      BY <1>4, <2>2, <2>3
    <2>6. u[i] = a % 256 /\ w[i] = b % 256
      BY <2>4
    <2> HIDE DEF a, b
    <2>7. u[i] \in Nat /\ w[i] \in Nat
      BY <2>5, <2>6
    <2>8. u[i] <= w[i] /\ (u[i] = w[i] => a = b)
      BY <2>5, <2>6, LastByte
    <2>9. QED
      BY <2>7, <2>8 DEF a, b
  <1> DEFINE differ == {i \in DOMAIN u : u[i] # w[i]}
             m == Min(differ)
  <1>5. ASSUME NEW i \in 0 .. 6, \A j \in 0 .. i - 1 : u[j] = w[j]
        PROVE  X[6 - i] = Y[6 - i]
    <2> DEFINE S == {n \in Nat : n <= i => X[6 - n] = Y[6 - n]}
    <2>1. 0 \in S
      BY <1>3
    <2>2. ASSUME NEW n \in Nat, n \in S PROVE n + 1 \in S
      <3> SUFFICES ASSUME n + 1 <= i PROVE X[6 - (n + 1)] = Y[6 - (n + 1)]
        OBVIOUS
      <3>1. n \in 0 .. 5 /\ n \in 0 .. i - 1 /\ X[6 - n] = Y[6 - n] /\ 5 - n = 6 - (n + 1)
        BY <2>2
      <3>2. QED
        BY <1>4, <1>5, <3>1
    <2> HIDE DEF S
    <2>3. i \in S
      BY <2>1, <2>2, NatSetInduction
    <2>4. QED
      BY <2>3 DEF S
  <1>6. \E i \in 0 .. 5 : u[i] # w[i]
    <2> SUFFICES ASSUME \A i \in 0 .. 5 : u[i] = w[i] PROVE FALSE
      OBVIOUS
    <2>1. X[6 - 6] = Y[6 - 6]
      BY <1>5
    <2>2. QED
      BY <1>1, <1>2, <2>1
  <1>7. DOMAIN u = 0 .. 15
    BY DEF Stamped
  <1>8. differ \in SUBSET Nat /\ differ # {}
    BY <1>6, <1>7
  <1> HIDE DEF differ
  <1>9. m \in differ /\ \A i \in differ : m <= i
    BY <1>8, MinLeast
  <1>10. m \in 0 .. 5 /\ u[m] # w[m] /\ \A j \in 0 .. m - 1 : u[j] = w[j]
    <2> HIDE DEF m
    <2>1. m \in 0 .. 15 /\ u[m] # w[m]
      BY <1>7, <1>9 DEF differ
    <2>2. m <= 5
      BY <1>6, <1>7, <1>9, <2>1 DEF differ
    <2>3. QED
      BY <1>7, <1>9, <2>1, <2>2 DEF differ
  <1>11. u[m] < w[m]
    <2> HIDE DEF m
    <2>1. X[6 - m] = Y[6 - m]
      BY <1>5, <1>10
    <2>2. QED
      BY <1>4, <1>10, <2>1
  <1>12. QED
    BY <1>8, <1>11 DEF Less, differ

\* What uuid_v7_package leaves in front.
LEMMA PackageStamps ==
  ASSUME NEW u, DOMAIN u = 0 .. 15, NEW time, NEW a, NEW h, NEW l
  PROVE  Stamped(Package(u, time, a, h, l), time)
PROOF
  <1> DEFINE timed == Intcpy(u, 0, time, 6)
             v == Intcpy(timed, 6, a, 2)
             w == Intcpy(v, 8, h, 4)
             random == Intcpy(w, 12, l, 4)
  <1>1. DOMAIN timed = 0 .. 15 /\ \A i \in 0 .. 5 : timed[i] = Shifted(time, 5 - i) % 256
    BY DEF Intcpy
  <1> HIDE DEF timed
  <1>2. DOMAIN v = 0 .. 15 /\ \A i \in 0 .. 5 : v[i] = timed[i]
    BY <1>1 DEF Intcpy
  <1> HIDE DEF v
  <1>3. DOMAIN w = 0 .. 15 /\ \A i \in 0 .. 5 : w[i] = v[i]
    BY <1>2 DEF Intcpy
  <1> HIDE DEF w
  <1>4. DOMAIN random = 0 .. 15 /\ \A i \in 0 .. 5 : random[i] = w[i]
    BY <1>3 DEF Intcpy
  <1> HIDE DEF random
  <1>5. Package(u, time, a, h, l) =
          [random EXCEPT ![6] = (@ % 16) + 7 * 16, ![8] = (@ % 64) + 2 * 64]
    BY DEF Package, random, w, v, timed
  <1>6. QED
    BY <1>1, <1>2, <1>3, <1>4, <1>5 DEF Stamped

(***************************************************************************)
(* For any times and random bits, as long as the time fits into the six    *)
(* bytes it is given: an identifier of a later millisecond is larger       *)
(* (uuid_v7_create, uuid_v7_package).                                      *)
(***************************************************************************)
StampInv ==
  /\ timestamp \in Nat /\ Shifted(timestamp, 6) = 0
  /\ Stamped(uuid, timestamp)

THEOREM UuidsSorted ==
  ASSUME \A time \in Times : Shifted(time, 6) = 0
  PROVE  UuidSpec => UuidsSort
PROOF
  <1> DEFINE Later == timestamp' > timestamp => Less(uuid, uuid')
  <1>1. NoIdentifier => StampInv
    <2>1. Shifted(0, 0) = 0 /\ \A n \in Nat : Shifted(0, n) = 0 => Shifted(0, n + 1) = 0
      BY ShiftedIs
    <2>2. \A n \in Nat : Shifted(0, n) = 0
      <3> DEFINE S == {n \in Nat : Shifted(0, n) = 0}
      <3>1. 0 \in S /\ \A n \in Nat : n \in S => n + 1 \in S
        BY <2>1
      <3> HIDE DEF S
      <3>2. Nat \subseteq S
        BY <3>1, NatSetInduction
      <3>3. QED
        BY <3>2 DEF S
    <2>3. \A i \in 0 .. 5 : 5 - i \in Nat /\ NoUuid[i] = 0
      BY DEF NoUuid
    <2>4. Stamped(NoUuid, 0)
      BY <2>2, <2>3 DEF Stamped, NoUuid
    <2>5. QED
      BY <2>2, <2>4 DEF NoIdentifier, StampInv
  <1>2. StampInv /\ [UuidNext]_identifier => StampInv'
    <2>1. StampInv /\ UuidNext => StampInv'
      <3> SUFFICES ASSUME StampInv, NEW time \in Times, NEW a \in Randoms, NEW h \in Randoms,
                          NEW l \in Randoms, UuidCreate(time, a, h, l)
                   PROVE  StampInv'
        BY DEF UuidNext
      <3>1. Stamped(uuid', timestamp')
        BY PackageStamps DEF StampInv, Stamped, UuidCreate
      <3>2. timestamp' \in Nat /\ Shifted(timestamp', 6) = 0
        BY UuidAssumption DEF UuidCreate
      <3>3. QED
        BY <3>1, <3>2 DEF StampInv, Stamped, Shifted
    <2>2. StampInv /\ UNCHANGED identifier => StampInv'
      <3> SUFFICES ASSUME StampInv, UNCHANGED identifier PROVE StampInv'
        OBVIOUS
      <3>1. timestamp' = timestamp /\ uuid' = uuid
        BY DEF identifier
      <3>2. QED
        BY <3>1 DEF StampInv, Stamped
    <2>3. QED
      BY <2>1, <2>2
  <1>3. StampInv /\ StampInv' => Later
    <2> SUFFICES ASSUME StampInv, StampInv', timestamp' > timestamp PROVE Less(uuid, uuid')
      OBVIOUS
    <2>1. /\ timestamp' \in Nat /\ Shifted(timestamp', 6) = 0 /\ Stamped(uuid', timestamp')
          /\ timestamp \in Nat /\ Shifted(timestamp, 6) = 0 /\ Stamped(uuid, timestamp)
      BY DEF StampInv, Stamped, Shifted
    <2>2. timestamp < timestamp'
      BY <2>1
    <2>3. QED
      BY <2>1, <2>2, StampsSort
  <1>4. UuidSpec => [][Later]_identifier
    <2> HIDE DEF Later
    <2>1. StampInv /\ StampInv' => [Later]_identifier
      BY <1>3
    <2>2. QED
      BY <1>1, <1>2, <2>1, PTL DEF UuidSpec
  <1>5. QED
    BY <1>4 DEF UuidsSort

-----------------------------------------------------------------------------
(***************************************************************************)
(* The bytes of a cell: what varint_put and blob_put leave of the buffers  *)
(* of btree_table_insert, whatever these held before.                      *)
(***************************************************************************)
Biggest == Weight[LastPosition]

\* The bytes of an integer, and of a cell.
IntByte(v, i) == IF i < PutLen(v) - 1 THEN Digit(v, i) + Group ELSE Digit(v, i)

Spelling(v) == [i \in 1 .. PutLen(v) |-> IntByte(v, i - 1)]

CellType == {c \in [key : Keys, blob : Blobs] : c.key < Biggest /\ c.blob.size < Biggest}

CellImage(c) == Spelling(c.key) \o (Spelling(c.blob.size) \o c.blob.data)

CellSize(c) == PutLen(c.key) + (PutLen(c.blob.size) + c.blob.size)

\* What the assumptions say about the constants.
LEMMA CellConstants ==
  /\ Group \in Nat \ {0, 1} /\ MaxBytes \in Nat \ {0, 1} /\ LastPosition = MaxBytes - 1
  /\ Biggest \in Nat \ {0} /\ PageBytes \in Nat
  /\ Keys \subseteq Nat /\ \A b \in Blobs : b.size = Len(b.data) /\ b.data \in Seq(Bytes)
  /\ OldBytes \subseteq Bytes /\ 0 \in Bytes
PROOF
  <1>1. Group \in Nat \ {0, 1} /\ MaxBytes \in Nat \ {0, 1} /\ LastPosition = MaxBytes - 1
    BY VarintAssumption DEF LastPosition
  <1>2. Biggest \in Nat \ {0}
    BY <1>1, WeightIs DEF Biggest
  <1>3. Keys \subseteq 0 .. Limit - 1 /\ Limit \in Int
    <2>1. Weight[MaxBytes] \in Nat
      BY <1>1, WeightIs
    <2>2. QED
      BY <2>1, VarintAssumption, CellsAssumption
  <1>4. 0 \in Bytes
    BY <1>1 DEF Bytes
  <1>5. QED
    BY <1>1, <1>2, <1>3, <1>4, CellsAssumption

\* Each byte of an integer is one.
LEMMA IntByteIs ==
  ASSUME NEW v \in Nat, v < Biggest
  PROVE  /\ PutLen(v) \in 1 .. LastPosition
         /\ \A i \in 0 .. PutLen(v) - 1 : i \in Positions /\ IntByte(v, i) \in Bytes
PROOF
  <1>1. PutLen(v) \in 1 .. LastPosition
    BY PutLenFits DEF Biggest
  <1>2. ASSUME NEW i \in 0 .. PutLen(v) - 1
        PROVE  i \in Positions /\ IntByte(v, i) \in Bytes
    <2>1. i \in 0 .. MaxBytes /\ i \in Positions
      BY <1>1, CellConstants DEF Positions
    <2>2. Weight[i] \in Nat \ {0}
      BY <2>1, WeightIs
    <2>3. Digit(v, i) \in 0 .. Group - 1
      BY <2>2, CellConstants DEF Digit
    <2>4. QED
      BY <2>1, <2>3, CellConstants DEF IntByte, Bytes
  <1>3. QED
    BY <1>1, <1>2

\* Nothing of the buffer is left in what is taken from it.
LEMMA FirstBytesAre ==
  ASSUME NEW v \in Nat, v < Biggest, NEW old \in [Positions -> Bytes]
  PROVE  /\ FirstBytes(Bytewise(old, v), Stored(v)) = Spelling(v)
         /\ Stored(v) = PutLen(v)
PROOF
  <1> DEFINE n == PutLen(v)
  <1>1. Bytewise(old, v) = Short(old, v) /\ Stored(v) = n
    BY CellConstants DEF Bytewise, Stored, Biggest
  <1>2. n \in 1 .. LastPosition /\ \A i \in 0 .. n - 1 : i \in Positions
    BY IntByteIs
  <1>3. ASSUME NEW i \in 1 .. n
        PROVE  Short(old, v)[i - 1] = IntByte(v, i - 1)
    <2>1. i - 1 \in 0 .. n - 1 /\ (i - 1 < n - 1 \/ i - 1 = n - 1) /\ i - 1 \in Positions
      BY <1>2, CellConstants
    <2> HIDE DEF n
    <2>2. QED
      BY <2>1 DEF Short, IntByte, n
  <1>4. QED
    BY <1>1, <1>3 DEF FirstBytes, Spelling

LEMMA SpellingType ==
  ASSUME NEW v \in Nat, v < Biggest
  PROVE  /\ Spelling(v) \in Seq(Bytes) /\ Len(Spelling(v)) = PutLen(v)
         /\ \A i \in 1 .. PutLen(v) : Spelling(v)[i] = IntByte(v, i - 1)
PROOF
  <1> DEFINE n == PutLen(v)
             s == Spelling(v)
  <1>1. n \in Nat /\ \A i \in 0 .. n - 1 : IntByte(v, i) \in Bytes
    BY IntByteIs, CellConstants
  <1>2. s = [i \in 1 .. n |-> IntByte(v, i - 1)]
    BY DEF Spelling
  <1>3. \A i \in 1 .. n : i - 1 \in 0 .. n - 1
    BY <1>1
  <1> HIDE DEF n, s
  <1>4. s \in [1 .. n -> Bytes]
    BY <1>1, <1>2, <1>3
  <1>5. s \in Seq(Bytes) /\ Len(s) = n
    BY <1>1, <1>4
  <1>6. QED
    BY <1>2, <1>5 DEF n, s

\* The bytes of a cell, place by place.
LEMMA ImageIs ==
  ASSUME NEW c \in CellType
  PROVE  LET k == PutLen(c.key)
             n == PutLen(c.blob.size)
         IN  /\ c.key \in Nat /\ c.blob.size \in Nat /\ c.key < Biggest /\ c.blob.size < Biggest
             /\ c.key \in Keys /\ c.blob \in Blobs
             /\ c.blob.size = Len(c.blob.data) /\ c.blob.data \in Seq(Bytes)
             /\ k \in Nat \ {0} /\ n \in Nat \ {0}
             /\ CellSize(c) \in Nat \ {0} /\ CellSize(c) = k + (n + c.blob.size)
             /\ CellImage(c) \in Seq(Bytes) /\ Len(CellImage(c)) = CellSize(c)
             /\ \A i \in 1 .. k : CellImage(c)[i] = IntByte(c.key, i - 1)
             /\ \A i \in 1 .. n : CellImage(c)[k + i] = IntByte(c.blob.size, i - 1)
             /\ \A i \in 1 .. c.blob.size : CellImage(c)[k + (n + i)] = c.blob.data[i]
PROOF
  <1> DEFINE k == PutLen(c.key)
             n == PutLen(c.blob.size)
             m == c.blob.size
             d == c.blob.data
             a == Spelling(c.key)
             b == Spelling(m)
  <1>1. /\ c.key \in Nat /\ m \in Nat /\ c.key < Biggest /\ m < Biggest
        /\ m = Len(d) /\ d \in Seq(Bytes) /\ c.key \in Keys /\ c.blob \in Blobs
    <2>1. c.key \in Keys /\ c.blob \in Blobs /\ c.key < Biggest /\ m < Biggest
      BY DEF CellType
    <2>2. c.key \in Nat /\ m = Len(d) /\ d \in Seq(Bytes)
      BY <2>1, CellConstants
    <2> HIDE DEF d, m
    <2>3. QED
      BY <2>1, <2>2
  <1>2. k \in Nat \ {0} /\ n \in Nat \ {0}
    BY <1>1, IntByteIs, CellConstants
  <1>3. /\ a \in Seq(Bytes) /\ Len(a) = k
        /\ \A i \in 1 .. k : a[i] = IntByte(c.key, i - 1)
    BY <1>1, SpellingType
  <1>4. /\ b \in Seq(Bytes) /\ Len(b) = n
        /\ \A i \in 1 .. n : b[i] = IntByte(m, i - 1)
    BY <1>1, SpellingType
  <1>5. CellImage(c) = a \o (b \o d) /\ CellSize(c) = k + (n + m)
    BY DEF CellImage, CellSize
  <1> DEFINE bd == b \o d
             all == a \o bd
  <1> HIDE DEF a, b, d, k, n, m
  <1>6. /\ bd \in Seq(Bytes) /\ Len(bd) = Len(b) + Len(d)
        /\ \A i \in 1 .. Len(b) + Len(d) : bd[i] = IF i <= Len(b) THEN b[i] ELSE d[i - Len(b)]
    BY <1>1, <1>4, ConcatProperties, Zenon
  <1> HIDE DEF bd
  <1>7. /\ a \in Seq(Bytes) /\ bd \in Seq(Bytes)
    BY <1>3, <1>6
  <1>77. /\ all \in Seq(Bytes) /\ Len(all) = Len(a) + Len(bd)
        /\ \A i \in 1 .. Len(a) + Len(bd) : all[i] = IF i <= Len(a) THEN a[i] ELSE bd[i - Len(a)]
    BY <1>7, ConcatProperties, Zenon
  <1> HIDE DEF all
  <1>8. Len(bd) = n + m /\ Len(all) = k + (n + m)
    BY <1>1, <1>3, <1>4, <1>6, <1>77
  <1>9. \A i \in 1 .. k : all[i] = IntByte(c.key, i - 1)
    BY <1>1, <1>2, <1>3, <1>77, <1>8
  <1>10. \A i \in 1 .. n : bd[i] = IntByte(m, i - 1)
    BY <1>1, <1>2, <1>4, <1>6
  <1>11. \A i \in 1 .. m : bd[n + i] = d[i]
    BY <1>1, <1>2, <1>4, <1>6
  <1>12. \A i \in 1 .. n + m : all[k + i] = bd[i]
    BY <1>1, <1>2, <1>3, <1>77, <1>8
  <1>13. \A i \in 1 .. n : all[k + i] = IntByte(m, i - 1)
    <2> SUFFICES ASSUME NEW i \in 1 .. n PROVE all[k + i] = IntByte(m, i - 1)
      OBVIOUS
    <2>1. i \in 1 .. n + m
      BY <1>1, <1>2
    <2>2. QED
      BY <1>10, <1>12, <2>1
  <1>14. \A i \in 1 .. m : all[k + (n + i)] = d[i]
    <2> SUFFICES ASSUME NEW i \in 1 .. m PROVE all[k + (n + i)] = d[i]
      OBVIOUS
    <2>1. n + i \in 1 .. n + m
      BY <1>1, <1>2
    <2>2. all[k + (n + i)] = bd[n + i]
      BY <1>12, <2>1
    <2>3. QED
      BY <1>11, <2>2
  <1>15. CellImage(c) = all /\ CellSize(c) \in Nat \ {0}
    BY <1>1, <1>2, <1>5 DEF all, bd
  <1>16. QED
    BY <1>1, <1>2, <1>5, <1>77, <1>8, <1>9, <1>13, <1>14, <1>15 DEF k, n, m, d

-----------------------------------------------------------------------------
(***************************************************************************)
(* Reading a cell where it stands.                                         *)
(***************************************************************************)
Spelled(b, place, c) ==
  /\ place \in Nat /\ place + CellSize(c) <= PageBytes
  /\ \A i \in 1 .. CellSize(c) : b[place + i - 1] = CellImage(c)[i]

\* An integer that stands in the page is read: put there, it changes nothing.
LEMMA IntegerRead ==
  ASSUME bytes \in [Places -> Bytes], NEW place \in Nat,
         NEW v \in Nat, v < Biggest, place + PutLen(v) <= PageBytes,
         \A i \in 1 .. PutLen(v) : bytes[place + i - 1] = IntByte(v, i - 1)
  PROVE  Get(At(place)) = v /\ GetLen(At(place)) = PutLen(v)
PROOF
  <1> DEFINE b == At(place)
             n == PutLen(v)
  <1>1. b \in [Positions -> Bytes] /\ b = [i \in Positions |-> b[i]]
    <2>1. \A i \in Positions : (IF place + i \in Places THEN bytes[place + i] ELSE 0) \in Bytes
      BY CellConstants
    <2>2. QED
      BY <2>1 DEF At
  <1>2. n \in 1 .. LastPosition /\ \A i \in 0 .. n - 1 : i \in Positions
    BY IntByteIs
  <1>3. ASSUME NEW i \in 0 .. n - 1
        PROVE  b[i] = IntByte(v, i)
    <2>1. /\ i \in Positions /\ place + i \in Places
          /\ i + 1 \in 1 .. n /\ place + (i + 1) - 1 = place + i /\ (i + 1) - 1 = i
      BY <1>2, CellConstants DEF Places
    <2>2. b[i] = bytes[place + i]
      BY <2>1 DEF At
    <2>3. bytes[place + (i + 1) - 1] = IntByte(v, (i + 1) - 1)
      BY <2>1
    <2>4. QED
      BY <2>1, <2>2, <2>3
  <1> HIDE DEF b
  <1>4. ASSUME NEW i \in Positions
        PROVE  b[i] = IF i < n - 1 THEN Digit(v, i) + Group
                      ELSE IF i = n - 1 THEN Digit(v, i) ELSE b[i]
    <2>1. i \in Nat /\ n \in Nat
      BY <1>2, CellConstants DEF Positions
    <2>2. i <= n - 1 => b[i] = IntByte(v, i)
      <3> HIDE DEF n
      <3>1. i <= n - 1 => i \in 0 .. n - 1
        BY <2>1
      <3>2. QED
        BY <1>3, <3>1
    <2>3. IntByte(v, i) = IF i < n - 1 THEN Digit(v, i) + Group ELSE Digit(v, i)
      BY DEF IntByte
    <2> HIDE DEF n
    <2>4. QED
      BY <2>1, <2>2, <2>3
  <1>5. Short(b, v) = b
    <2>1. Short(b, v) = [i \in Positions |->
                           IF i < n - 1 THEN Digit(v, i) + Group
                           ELSE IF i = n - 1 THEN Digit(v, i) ELSE b[i]]
      BY DEF Short
    <2> HIDE DEF n
    <2>2. QED
      BY <1>1, <1>4, <2>1
  <1>6. Bytewise(b, v) = b /\ Stored(v) = n
    BY <1>5, CellConstants DEF Bytewise, Stored, Biggest
  <1>7. Get(Bytewise(b, v)) = v /\ GetLen(Bytewise(b, v)) = Stored(v)
    BY <1>1, PutThenGet DEF Biggest
  <1>8. QED
    BY <1>6, <1>7 DEF b

\* So is a cell: its key, its value and its length.
LEMMA CellRead ==
  ASSUME bytes \in [Places -> Bytes], NEW c \in CellType, NEW place, Spelled(bytes, place, c)
  PROVE  /\ Get(At(place)) = c.key
         /\ BlobCmp(BlobGet(ValuePlace(place)), c.blob) = 0
         /\ BlobGetLen(ValuePlace(place)) = PutLen(c.blob.size) + c.blob.size
         /\ CellLen(place) = CellSize(c)
         /\ CellBytes(place) = CellImage(c)
PROOF
  <1> DEFINE k == PutLen(c.key)
             n == PutLen(c.blob.size)
             m == c.blob.size
             d == c.blob.data
             image == CellImage(c)
             there == ValuePlace(place)
             data == BlobGet(there).data
  <1>1. /\ c.key \in Nat /\ m \in Nat /\ c.key < Biggest /\ m < Biggest
        /\ m = Len(d) /\ d \in Seq(Bytes) /\ k \in Nat \ {0} /\ n \in Nat \ {0}
        /\ CellSize(c) = k + (n + m)
        /\ image \in Seq(Bytes) /\ Len(image) = CellSize(c)
        /\ \A i \in 1 .. k : image[i] = IntByte(c.key, i - 1)
        /\ \A i \in 1 .. n : image[k + i] = IntByte(m, i - 1)
        /\ \A i \in 1 .. m : image[k + (n + i)] = d[i]
    BY ImageIs
  <1>2. /\ place \in Nat /\ place + (k + (n + m)) <= PageBytes /\ PageBytes \in Nat
        /\ \A i \in 1 .. k + (n + m) : bytes[place + i - 1] = image[i]
    BY <1>1, CellConstants DEF Spelled
  <1>3. Get(At(place)) = c.key /\ GetLen(At(place)) = k
    <2>1. \A i \in 1 .. k : bytes[place + i - 1] = IntByte(c.key, i - 1)
      <3> HIDE DEF k, n, m, d, image
      <3> SUFFICES ASSUME NEW i \in 1 .. k PROVE bytes[place + i - 1] = IntByte(c.key, i - 1)
        OBVIOUS
      <3>1. i \in 1 .. k + (n + m)
        BY <1>1
      <3>2. bytes[place + i - 1] = image[i]
        BY <1>2, <3>1
      <3>3. QED
        BY <1>1, <3>2
    <2>2. place + k <= PageBytes
      <3> HIDE DEF k, n, m, d, image
      <3>1. QED
        BY <1>1, <1>2
    <2>3. QED
      BY <1>1, <1>2, <2>1, <2>2, IntegerRead
  <1>4. there = place + k /\ there \in Nat
    BY <1>1, <1>2, <1>3 DEF ValuePlace, KeyLen
  <1>5. Get(At(there)) = m /\ GetLen(At(there)) = n
    <2>1. \A i \in 1 .. n : bytes[there + i - 1] = IntByte(m, i - 1)
      <3> HIDE DEF k, n, m, d, image, there
      <3> SUFFICES ASSUME NEW i \in 1 .. n PROVE bytes[there + i - 1] = IntByte(m, i - 1)
        OBVIOUS
      <3>1. k + i \in 1 .. k + (n + m) /\ place + (k + i) - 1 = there + i - 1
        BY <1>1, <1>2, <1>4
      <3>2. bytes[place + (k + i) - 1] = image[k + i]
        BY <1>2, <3>1
      <3>3. QED
        BY <1>1, <3>1, <3>2
    <2>2. there + n <= PageBytes
      <3> HIDE DEF k, n, m, d, image, there
      <3>1. QED
        BY <1>1, <1>2, <1>4
    <2> HIDE DEF there
    <2>3. QED
      BY <1>1, <1>4, <2>1, <2>2, IntegerRead
  <1>6. BlobGetLen(there) = n + m
    BY <1>5 DEF BlobGetLen
  <1>7. CellLen(place) = k + (n + m)
    BY <1>3, <1>6 DEF CellLen, KeyLen
  <1>8. CellBytes(place) = image
    <2>1. CellBytes(place) = [i \in 1 .. k + (n + m) |-> bytes[place + i - 1]]
      BY <1>7 DEF CellBytes
    <2>2. image = [i \in 1 .. k + (n + m) |-> image[i]]
      <3> HIDE DEF k, n, m, d, image
      <3>1. QED
        BY <1>1
    <2> HIDE DEF k, n, m, d, image
    <2>3. QED
      BY <1>2, <2>1, <2>2
  <1>9. BlobGet(there).size = m /\ \A i \in 1 .. m : data[i] = d[i]
    <2>1. BlobGet(there) = [size |-> m, data |-> [i \in 1 .. m |-> bytes[there + n + i - 1]]]
      BY <1>5 DEF BlobGet
    <2>2. ASSUME NEW i \in 1 .. m PROVE data[i] = d[i]
      <3>1. data[i] = bytes[there + n + i - 1]
        BY <2>1
      <3> HIDE DEF k, n, m, d, image, there, data
      <3>2. k + (n + i) \in 1 .. k + (n + m) /\ place + (k + (n + i)) - 1 = there + n + i - 1
        BY <1>1, <1>2, <1>4
      <3>3. bytes[place + (k + (n + i)) - 1] = image[k + (n + i)]
        BY <1>2, <3>2
      <3>4. QED
        BY <1>1, <3>1, <3>2, <3>3
    <2>3. QED
      BY <2>1, <2>2
  <1>10. BlobCmp(BlobGet(there), c.blob) = 0
    <2> DEFINE a == BlobGet(there)
    <2>1. a.size = m /\ Min({a.size, m}) = m
      <3>1. {m} \in SUBSET Nat /\ {m} # {} /\ m \in {m}
        BY <1>1
      <3>2. Min({m}) \in {m}
        BY <3>1, MinLeast
      <3>3. QED
        BY <1>9, <3>2
    <2> DEFINE differ == {i \in 1 .. Min({a.size, c.blob.size}) : a.data[i] # c.blob.data[i]}
    <2>2. differ = {}
      BY <1>9, <2>1
    <2>3. a.size - c.blob.size = 0
      BY <1>1, <2>1
    <2>4. BlobCmp(a, c.blob) = IF differ # {} THEN a.data[Min(differ)] - c.blob.data[Min(differ)]
                               ELSE a.size - c.blob.size
      BY DEF BlobCmp
    <2> HIDE DEF differ, a
    <2>5. QED
      BY <2>2, <2>3, <2>4 DEF a
  <1>11. QED
    BY <1>1, <1>3, <1>6, <1>7, <1>8, <1>10

-----------------------------------------------------------------------------
(***************************************************************************)
(* The cells of a page: each is spelled where its pointer leads, in the    *)
(* order of the keys, none overlaps another, and what they take together   *)
(* is what is taken of the page.                                           *)
(***************************************************************************)
CellKeys(cs) == \A i, j \in DOMAIN cs : i < j => cs[i].key < cs[j].key

Apart(p, c, q, d) == p + CellSize(c) <= q \/ q + CellSize(d) <= p

\* The places that the first cells take.
Sizes(z, cs) ==
  /\ z \in [0 .. Len(cs) -> Nat] /\ z[0] = 0
  /\ \A i \in 1 .. Len(cs) : z[i] = z[i - 1] + CellSize(cs[i])
  /\ \A i, j \in 0 .. Len(cs) : i <= j => z[i] <= z[j]

PageOk(b, start, ps, cs) ==
  /\ b \in [Places -> Bytes] /\ start \in 0 .. PageBytes
  /\ cs \in Seq(CellType) /\ ps \in Seq(Nat) /\ Len(ps) = Len(cs)
  /\ \A i \in 1 .. Len(cs) : start <= ps[i] /\ Spelled(b, ps[i], cs[i])
  /\ \A i, j \in 1 .. Len(cs) : i < j => Apart(ps[i], cs[i], ps[j], cs[j])
  /\ CellKeys(cs)
  /\ \E z : Sizes(z, cs) /\ z[Len(cs)] = PageBytes - start

CellInv == PageOk(bytes, data_start, pointers, cells)

\* What memcpy leaves of a page.
LEMMA WrittenType ==
  ASSUME NEW b \in [Places -> Bytes], NEW s \in Seq(Bytes), NEW place \in Int
  PROVE  Written(b, place, s) \in [Places -> Bytes]
PROOF
  <1>1. \A i \in DOMAIN s : s[i] \in Bytes
    OBVIOUS
  <1>2. \A x \in Places :
          (IF x - place + 1 \in DOMAIN s THEN s[x - place + 1] ELSE b[x]) \in Bytes
    BY <1>1
  <1>3. QED
    BY <1>2 DEF Written

LEMMA WrittenIs ==
  ASSUME NEW b \in [Places -> Bytes], NEW s \in Seq(Bytes), NEW place \in Nat,
         place + Len(s) <= PageBytes
  PROVE  /\ Written(b, place, s) \in [Places -> Bytes]
         /\ \A i \in 1 .. Len(s) : Written(b, place, s)[place + i - 1] = s[i]
         /\ \A x \in Places : x < place \/ x >= place + Len(s) => Written(b, place, s)[x] = b[x]
PROOF
  <1> DEFINE w == Written(b, place, s)
             n == Len(s)
  <1>1. n \in Nat /\ DOMAIN s = 1 .. n /\ \A i \in 1 .. n : s[i] \in Bytes
    OBVIOUS
  <1>2. w = [x \in Places |-> IF x - place + 1 \in DOMAIN s THEN s[x - place + 1] ELSE b[x]]
    BY DEF Written
  <1> HIDE DEF w, n
  <1>3. Places \subseteq Nat /\ \A x \in Nat : x < PageBytes => x \in Places
    BY CellConstants DEF Places
  <1>5. w \in [Places -> Bytes]
    BY WrittenType DEF w
  <1>6. ASSUME NEW i \in 1 .. n
        PROVE  w[place + i - 1] = s[i]
    <2>1. place + i - 1 \in Places /\ (place + i - 1) - place + 1 = i
      BY <1>1, <1>3, CellConstants DEF n
    <2>2. QED
      BY <1>1, <1>2, <2>1
  <1>7. ASSUME NEW x \in Places, x < place \/ x >= place + n
        PROVE  w[x] = b[x]
    <2>1. x - place + 1 \notin DOMAIN s
      BY <1>1, <1>3, <1>7
    <2>2. QED
      BY <1>2, <2>1
  <1>8. QED
    BY <1>5, <1>6, <1>7 DEF w, n

\* A cell is spelled where its bytes were written ...
LEMMA WrittenSpells ==
  ASSUME NEW b \in [Places -> Bytes], NEW c \in CellType, NEW place \in Nat,
         place + CellSize(c) <= PageBytes
  PROVE  /\ Written(b, place, CellImage(c)) \in [Places -> Bytes]
         /\ Spelled(Written(b, place, CellImage(c)), place, c)
PROOF
  <1>1. CellImage(c) \in Seq(Bytes) /\ Len(CellImage(c)) = CellSize(c)
    BY ImageIs
  <1>2. /\ Written(b, place, CellImage(c)) \in [Places -> Bytes]
        /\ \A i \in 1 .. CellSize(c) :
             Written(b, place, CellImage(c))[place + i - 1] = CellImage(c)[i]
    <2> DEFINE s == CellImage(c)
    <2> HIDE DEF s
    <2>1. s \in Seq(Bytes) /\ place + Len(s) <= PageBytes
      BY <1>1 DEF s
    <2>2. /\ Written(b, place, s) \in [Places -> Bytes]
          /\ \A i \in 1 .. Len(s) : Written(b, place, s)[place + i - 1] = s[i]
      BY <2>1, WrittenIs
    <2>3. QED
      BY <1>1, <2>2 DEF s
  <1>3. QED
    BY <1>2 DEF Spelled

\* ... and one that does not overlap it is where it was.
LEMMA WrittenKeeps ==
  ASSUME NEW b \in [Places -> Bytes], NEW c \in CellType, NEW place \in Nat,
         place + CellSize(c) <= PageBytes,
         NEW d \in CellType, NEW q, Spelled(b, q, d), Apart(place, c, q, d)
  PROVE  Spelled(Written(b, place, CellImage(c)), q, d)
PROOF
  <1> DEFINE w == Written(b, place, CellImage(c))
             n == CellSize(c)
             m == CellSize(d)
  <1>1. /\ CellImage(c) \in Seq(Bytes) /\ Len(CellImage(c)) = n
        /\ n \in Nat \ {0} /\ m \in Nat \ {0}
    BY ImageIs
  <1>2. \A x \in Places : x < place \/ x >= place + n => w[x] = b[x]
    <2> DEFINE s == CellImage(c)
    <2> HIDE DEF s
    <2>1. s \in Seq(Bytes) /\ place + Len(s) <= PageBytes
      BY <1>1 DEF s
    <2>2. \A x \in Places : x < place \/ x >= place + Len(s) => Written(b, place, s)[x] = b[x]
      BY <2>1, WrittenIs
    <2>3. QED
      BY <1>1, <2>2 DEF s
  <1>3. /\ q \in Nat /\ q + m <= PageBytes
        /\ \A i \in 1 .. m : b[q + i - 1] = CellImage(d)[i]
        /\ (place + n <= q \/ q + m <= place)
    BY DEF Spelled, Apart
  <1> HIDE DEF w, n, m
  <1>4. ASSUME NEW i \in 1 .. m
        PROVE  w[q + i - 1] = CellImage(d)[i]
    <2>1. q + i - 1 \in Places /\ (q + i - 1 < place \/ q + i - 1 >= place + n)
      BY <1>1, <1>3, CellConstants DEF Places
    <2>2. QED
      BY <1>2, <1>3, <2>1
  <1>5. QED
    BY <1>3, <1>4 DEF w, m, Spelled

\* What a page of sound cells reads like.
LEMMA InvReads == CellInv => CellsRead
PROOF
  <1> SUFFICES ASSUME CellInv PROVE CellsRead
    OBVIOUS
  <1>1. /\ bytes \in [Places -> Bytes]
        /\ cells \in Seq(CellType) /\ Len(pointers) = Len(cells) /\ DOMAIN cells = 1 .. Len(cells)
        /\ \A i \in 1 .. Len(cells) : Spelled(bytes, pointers[i], cells[i])
        /\ \A i, j \in 1 .. Len(cells) : i < j => Apart(pointers[i], cells[i], pointers[j], cells[j])
        /\ CellKeys(cells)
    BY DEF CellInv, PageOk
  <1>2. \A i \in 1 .. Len(cells) : cells[i] \in CellType
    BY <1>1
  <1>3. ASSUME NEW i \in 1 .. Len(cells)
        PROVE  /\ Get(At(pointers[i])) = cells[i].key
               /\ BlobCmp(BlobGet(ValuePlace(pointers[i])), cells[i].blob) = 0
               /\ BlobGetLen(ValuePlace(pointers[i])) = BlobPutLen(cells[i].blob)
               /\ CellLen(pointers[i]) = CellSize(cells[i])
    <2>1. Spelled(bytes, pointers[i], cells[i]) /\ cells[i] \in CellType
      BY <1>1, <1>2
    <2>2. QED
      BY <1>1, <2>1, CellRead DEF BlobPutLen
  <1>4. ASSUME NEW i \in DOMAIN cells, NEW j \in DOMAIN cells, i < j
        PROVE  /\ cells[i].key < cells[j].key
               /\ \/ pointers[i] + CellLen(pointers[i]) <= pointers[j]
                  \/ pointers[j] + CellLen(pointers[j]) <= pointers[i]
    <2>1. Apart(pointers[i], cells[i], pointers[j], cells[j])
      BY <1>1, <1>4
    <2>2. cells[i].key < cells[j].key
      BY <1>1, <1>4 DEF CellKeys
    <2>3. CellLen(pointers[i]) = CellSize(cells[i]) /\ CellLen(pointers[j]) = CellSize(cells[j])
      BY <1>1, <1>3
    <2>4. QED
      BY <2>1, <2>2, <2>3 DEF Apart
  <1>5. QED
    BY <1>1, <1>3, <1>4 DEF CellsRead

-----------------------------------------------------------------------------
(***************************************************************************)
(* The loops of page_compact and page_split: after m rounds the first m    *)
(* cells stand below each other at the end of the page, and the places     *)
(* that are not written yet are of no account.                             *)
(***************************************************************************)
Copies == [bytes : [Places -> Bytes], data_start : Int, pointers : Seq(Int)]

Done(b, m, z, cs) ==
  /\ b \in Copies /\ b.data_start = PageBytes - z[m] /\ Len(b.pointers) = m
  /\ \A j \in 1 .. m :
       b.pointers[j] = PageBytes - z[j] /\ Spelled(b.bytes, PageBytes - z[j], cs[j])

Source(ps, cs) ==
  /\ bytes \in [Places -> Bytes]
  /\ cs \in Seq(CellType) /\ ps \in Seq(Nat) /\ Len(ps) = Len(cs)
  /\ \A i \in 1 .. Len(cs) : Spelled(bytes, ps[i], cs[i])

\* What a round copies.
LEMMA CopyIs ==
  ASSUME bytes \in [Places -> Bytes], NEW c \in CellType, NEW place, Spelled(bytes, place, c),
         NEW b \in Copies
  PROVE  /\ CopyCell(b, place) \in Copies
         /\ CopyCell(b, place).data_start = b.data_start - CellSize(c)
         /\ CopyCell(b, place).pointers = Append(b.pointers, b.data_start - CellSize(c))
         /\ CopyCell(b, place).bytes = Written(b.bytes, b.data_start - CellSize(c), CellImage(c))
PROOF
  <1> DEFINE s == b.data_start - CellSize(c)
             w == Written(b.bytes, s, CellImage(c))
  <1>1. CellSize(c) \in Nat /\ CellImage(c) \in Seq(Bytes)
    BY ImageIs
  <1>2. b.bytes \in [Places -> Bytes] /\ b.data_start \in Int /\ b.pointers \in Seq(Int)
    BY DEF Copies
  <1>3. s \in Int /\ Append(b.pointers, s) \in Seq(Int)
    BY <1>1, <1>2
  <1> HIDE DEF s
  <1>4. w \in [Places -> Bytes]
    BY <1>1, <1>2, <1>3, WrittenType
  <1>5. CellLen(place) = CellSize(c) /\ CellBytes(place) = CellImage(c)
    BY CellRead
  <1>6. CopyCell(b, place) = [bytes |-> w, data_start |-> s, pointers |-> Append(b.pointers, s)]
    BY <1>5 DEF CopyCell, s
  <1> HIDE DEF w
  <1>7. QED
    BY <1>3, <1>4, <1>6 DEF Copies, s, w

\* One round more.
LEMMA OneRoundMore ==
  ASSUME NEW ps, NEW cs, Source(ps, cs), NEW z, Sizes(z, cs), z[Len(cs)] <= PageBytes,
         NEW m \in 0 .. Len(cs) - 1, NEW b, Done(b, m, z, cs)
  PROVE  Done(CopyCell(b, ps[m + 1]), m + 1, z, cs)
PROOF
  <1> DEFINE n == Len(cs)
             e == m + 1
             c == cs[e]
             s == PageBytes - z[e]
             d == CopyCell(b, ps[e])
  <1>1. /\ n \in Nat /\ e \in 1 .. n /\ m \in 0 .. n /\ e - 1 = m /\ m \in Nat
        /\ c \in CellType /\ \A j \in 1 .. m : j \in 1 .. n /\ j \in 0 .. n /\ cs[j] \in CellType
        /\ 0 \in 0 .. n /\ n \in 0 .. n /\ e \in 0 .. n
    BY DEF Source
  <1>2. /\ b \in Copies /\ b.data_start = PageBytes - z[m] /\ Len(b.pointers) = m
        /\ b.bytes \in [Places -> Bytes] /\ b.pointers \in Seq(Int)
        /\ \A j \in 1 .. m :
             b.pointers[j] = PageBytes - z[j] /\ Spelled(b.bytes, PageBytes - z[j], cs[j])
    BY DEF Done, Copies
  <1>3. /\ z \in [0 .. n -> Nat] /\ z[e] = z[m] + CellSize(c) /\ z[e] <= z[n]
        /\ \A j \in 1 .. m : z[j] <= z[m]
    <2>1. z[e] = z[e - 1] + CellSize(c)
      BY <1>1 DEF Sizes
    <2>2. QED
      BY <1>1, <2>1 DEF Sizes
  <1>4. CellSize(c) \in Nat /\ PageBytes \in Nat
    BY <1>1, ImageIs, CellConstants
  <1> HIDE DEF n, e
  <1>5. z[e] \in Nat /\ z[m] \in Nat /\ z[n] \in Nat /\ z[n] <= PageBytes
    BY <1>1, <1>3 DEF n
  <1>6. b.data_start - CellSize(c) = s /\ s \in Nat /\ s + CellSize(c) = PageBytes - z[m]
    <2> DEFINE ze == z[e]
               zm == z[m]
               len == CellSize(c)
    <2>1. /\ ze = zm + len /\ ze <= PageBytes /\ ze \in Nat /\ zm \in Nat
          /\ len \in Nat /\ PageBytes \in Nat /\ b.data_start = PageBytes - zm
      <3>1. z[e] <= PageBytes
        BY <1>3, <1>4, <1>5
      <3>2. QED
        BY <1>2, <1>3, <1>4, <1>5, <3>1
    <2> HIDE DEF ze, zm, len, c
    <2>2. (PageBytes - zm) - len = PageBytes - ze /\ PageBytes - ze \in Nat
      BY <2>1
    <2>3. (PageBytes - ze) + len = PageBytes - zm
      BY <2>1
    <2>4. QED
      BY <2>1, <2>2, <2>3 DEF ze, zm, len
  <1>7. Spelled(bytes, ps[e], c) /\ bytes \in [Places -> Bytes]
    BY <1>1 DEF Source, n
  <1>8. /\ d \in Copies /\ d.data_start = s /\ d.pointers = Append(b.pointers, s)
        /\ d.bytes = Written(b.bytes, s, CellImage(c))
    BY <1>1, <1>2, <1>6, <1>7, CopyIs
  <1>9. s + CellSize(c) <= PageBytes
    BY <1>4, <1>5, <1>6
  <1> HIDE DEF c, s, d
  <1>10. Spelled(d.bytes, s, c)
    BY <1>1, <1>2, <1>6, <1>8, <1>9, WrittenSpells
  <1>11. ASSUME NEW j \in 1 .. m
         PROVE  Spelled(d.bytes, PageBytes - z[j], cs[j])
    <2>1. Spelled(b.bytes, PageBytes - z[j], cs[j]) /\ cs[j] \in CellType
      BY <1>1, <1>2
    <2>2. z[j] <= z[m] /\ z[j] \in Nat
      BY <1>1, <1>3
    <2>3. s + CellSize(c) <= PageBytes - z[j]
      BY <1>4, <1>5, <1>6, <2>2
    <2>4. Apart(s, c, PageBytes - z[j], cs[j])
      BY <2>3 DEF Apart
    <2>5. QED
      BY <1>1, <1>2, <1>6, <1>8, <1>9, <2>1, <2>4, WrittenKeeps
  <1>12. /\ Len(d.pointers) = m + 1 /\ d.pointers[m + 1] = s
         /\ \A j \in 1 .. m : d.pointers[j] = b.pointers[j]
    BY <1>1, <1>2, <1>6, <1>8
  <1>13. ASSUME NEW j \in 1 .. e
         PROVE  d.pointers[j] = PageBytes - z[j] /\ Spelled(d.bytes, PageBytes - z[j], cs[j])
    <2>1. CASE j = e
      BY <1>10, <1>12, <2>1 DEF s, c, e
    <2>2. CASE j # e
      <3>1. j \in 1 .. m
        BY <1>1, <2>2 DEF e
      <3>2. QED
        BY <1>2, <1>11, <1>12, <3>1
    <2>3. QED
      BY <2>1, <2>2
  <1>14. QED
    BY <1>8, <1>12, <1>13 DEF Done, d, e, s

\* All of them.
LEMMA MovedDone ==
  ASSUME NEW ps, NEW cs, Source(ps, cs), NEW z, Sizes(z, cs), z[Len(cs)] <= PageBytes,
         NEW to \in [Places -> Bytes]
  PROVE  Done(Moved(to, ps), Len(cs), z, cs)
PROOF
  <1> DEFINE n == Len(cs)
             first == [bytes |-> to, data_start |-> PageBytes, pointers |-> <<>>]
             F == [i \in 1 .. n |-> [b \in Copies |-> CopyCell(b, ps[i])]]
             Eq(f) == f = [i \in 0 .. n |-> IF i = 0 THEN first ELSE CopyCell(f[i - 1], ps[i])]
             moved == CHOOSE f : Eq(f)
  <1>1. n \in Nat /\ Len(ps) = n
    BY DEF Source
  <1>2. first \in Copies
    BY CellConstants DEF Copies
  <1>3. ASSUME NEW i \in 1 .. n, NEW b \in Copies
        PROVE  CopyCell(b, ps[i]) \in Copies
    <2>1. cs[i] \in CellType /\ Spelled(bytes, ps[i], cs[i]) /\ bytes \in [Places -> Bytes]
      BY DEF Source
    <2>2. QED
      BY <2>1, CopyIs
  <1> HIDE DEF n, first
  <1>4. Steps(F, n, Copies) /\ \A i \in 1 .. n, b \in Copies : F[i][b] = CopyCell(b, ps[i])
    BY <1>3 DEF Steps
  <1> HIDE DEF F
  <1>5. PICK s : Recursion(s, n, Copies, first, F)
    BY <1>1, <1>2, <1>4, RecursionExists, Zenon
  <1>6. /\ s \in [0 .. n -> Copies] /\ s[0] = first
        /\ \A i \in 1 .. n : s[i - 1] \in Copies /\ s[i] = CopyCell(s[i - 1], ps[i])
    <2>1. \A i \in 1 .. n : i - 1 \in 0 .. n
      BY <1>1
    <2>2. s \in [0 .. n -> Copies] /\ s[0] = first /\ \A i \in 1 .. n : s[i] = F[i][s[i - 1]]
      BY <1>5 DEF Recursion
    <2>3. QED
      BY <1>4, <2>1, <2>2
  <1>7. Eq(moved)
    <2>1. Eq(s)
      <3>1. \A i \in 0 .. n : i # 0 => i \in 1 .. n
        BY <1>1
      <3>2. QED
        BY <1>6, <3>1
    <2> HIDE DEF Eq
    <2>2. QED
      BY <2>1
  <1> HIDE DEF moved
  <1>8. moved[0] = s[0] /\ \A i \in 1 .. n : moved[i] = CopyCell(moved[i - 1], ps[i])
    <2>1. 0 \in 0 .. n /\ \A i \in 1 .. n : i \in 0 .. n /\ i # 0
      BY <1>1
    <2>2. QED
      BY <1>6, <1>7, <2>1
  <1>9. GoAlike(n, moved, s)
    BY <1>6, <1>8 DEF GoAlike
  <1>10. \A i \in 0 .. n : moved[i] = s[i]
    BY <1>1, <1>9, SumUnique
  <1>11. Moved(to, ps) = moved[n]
    BY <1>1 DEF Moved, moved, first
  <1> DEFINE S == {i \in Nat : i <= n => Done(s[i], i, z, cs)}
  <1>12. 0 \in S
    <2>1. z[0] = 0
      BY DEF Sizes
    <2>2. s[0] \in Copies /\ s[0].data_start = PageBytes - 0 /\ s[0].pointers = <<>>
      BY <1>2, <1>6, CellConstants DEF first
    <2>3. Done(s[0], 0, z, cs)
      BY <2>1, <2>2 DEF Done
    <2>4. QED
      BY <2>3
  <1>13. ASSUME NEW i \in Nat, i \in S PROVE i + 1 \in S
    <2> SUFFICES ASSUME i + 1 <= n PROVE Done(s[i + 1], i + 1, z, cs)
      OBVIOUS
    <2>1. Done(s[i], i, z, cs) /\ i \in 0 .. n - 1 /\ i + 1 \in 1 .. n /\ (i + 1) - 1 = i
      BY <1>1, <1>13
    <2>2. s[i + 1] = CopyCell(s[i], ps[i + 1])
      BY <1>6, <2>1
    <2> HIDE DEF S
    <2>3. QED
      BY <2>1, <2>2, OneRoundMore DEF n
  <1>14. n \in S
    <2> HIDE DEF S
    <2>1. QED
      BY <1>1, <1>12, <1>13, NatSetInduction, Zenon
  <1>15. moved[n] = s[n]
    BY <1>1, <1>10
  <1>16. QED
    BY <1>1, <1>11, <1>14, <1>15 DEF n

\* The page that the rounds leave.
LEMMA DonePage ==
  ASSUME NEW cs \in Seq(CellType), CellKeys(cs),
         NEW z, Sizes(z, cs), z[Len(cs)] <= PageBytes, NEW b, Done(b, Len(cs), z, cs)
  PROVE  PageOk(b.bytes, b.data_start, b.pointers, cs)
PROOF
  <1> DEFINE n == Len(cs)
             ps == b.pointers
  <1>1. /\ n \in Nat /\ n \in 0 .. n /\ \A i \in 1 .. n : i \in 0 .. n /\ i - 1 \in 0 .. n
        /\ \A i \in 1 .. n : cs[i] \in CellType
    OBVIOUS
  <1>2. /\ b.bytes \in [Places -> Bytes] /\ b.data_start = PageBytes - z[n]
        /\ ps \in Seq(Int) /\ Len(ps) = n
        /\ \A i \in 1 .. n : ps[i] = PageBytes - z[i] /\ Spelled(b.bytes, ps[i], cs[i])
    BY DEF Done, Copies
  <1>3. /\ z \in [0 .. n -> Nat] /\ \A i \in 1 .. n : z[i] = z[i - 1] + CellSize(cs[i])
        /\ \A i, j \in 0 .. n : i <= j => z[i] <= z[j]
    BY DEF Sizes
  <1>4. PageBytes \in Nat
    BY CellConstants
  <1> HIDE DEF n, ps
  <1>5. z[n] \in Nat /\ z[n] <= PageBytes /\ b.data_start \in 0 .. PageBytes
    BY <1>1, <1>2, <1>3, <1>4 DEF n
  <1>6. ASSUME NEW i \in 1 .. n
        PROVE  z[i] \in Nat /\ z[i] <= z[n] /\ b.data_start <= ps[i] /\ ps[i] \in Nat
    <2>1. z[i] \in Nat /\ z[i] <= z[n]
      BY <1>1, <1>3
    <2>2. QED
      BY <1>2, <1>4, <1>5, <2>1
  <1>7. ps \in Seq(Nat)
    <2>1. ps \in [1 .. n -> Int]
      BY <1>2
    <2>2. ps \in [1 .. n -> Nat]
      BY <1>6, <2>1
    <2>3. QED
      BY <1>1, <2>2
  <1>8. ASSUME NEW i \in 1 .. n, NEW j \in 1 .. n, i < j
        PROVE  Apart(ps[i], cs[i], ps[j], cs[j])
    <2>1. i \in 0 .. n /\ j - 1 \in 0 .. n /\ i <= j - 1
      BY <1>1, <1>8
    <2>2. z[i] <= z[j - 1] /\ z[j] = z[j - 1] + CellSize(cs[j])
      BY <1>3, <2>1
    <2>3. CellSize(cs[j]) \in Nat /\ z[j - 1] \in Nat /\ z[i] \in Nat
      BY <1>1, <1>3, <2>1, ImageIs
    <2>4. ps[i] = PageBytes - z[i] /\ ps[j] = PageBytes - z[j]
      BY <1>2
    <2>5. ps[j] + CellSize(cs[j]) <= ps[i]
      BY <1>4, <2>2, <2>3, <2>4
    <2>6. QED
      BY <2>5 DEF Apart
  <1>9. z[n] = PageBytes - b.data_start
    BY <1>2, <1>4, <1>5
  <1>10. QED
    BY <1>2, <1>5, <1>6, <1>7, <1>8, <1>9 DEF PageOk, n, ps

\* Cells that stand together in a page, moved to the end of one.
LEMMA PartMoved ==
  ASSUME CellInv, NEW from \in 0 .. Len(cells), NEW upto \in from .. Len(cells),
         NEW to \in [Places -> Bytes]
  PROVE  LET m == Moved(to, SubSeq(pointers, from + 1, upto))
         IN  PageOk(m.bytes, m.data_start, m.pointers, SubSeq(cells, from + 1, upto))
PROOF
  <1> DEFINE n == Len(cells)
             k == upto - from
             ps == SubSeq(pointers, from + 1, upto)
             cs == SubSeq(cells, from + 1, upto)
             b == Moved(to, ps)
  <1>1. PICK z : Sizes(z, cells) /\ z[n] = PageBytes - data_start
    BY DEF CellInv, PageOk
  <1>2. /\ bytes \in [Places -> Bytes] /\ data_start \in 0 .. PageBytes /\ PageBytes \in Nat
        /\ cells \in Seq(CellType) /\ pointers \in Seq(Nat) /\ Len(pointers) = n
        /\ \A i \in 1 .. n : Spelled(bytes, pointers[i], cells[i])
        /\ CellKeys(cells)
    BY CellConstants DEF CellInv, PageOk
  <1>3. /\ n \in Nat /\ k \in Nat /\ from \in 0 .. n /\ upto \in from .. n /\ upto = from + k
        /\ \A j \in 1 .. k : from + j \in 1 .. n
        /\ \A j \in 0 .. k : from + j \in 0 .. n
    BY <1>2
  <1>4. /\ cs \in Seq(CellType) /\ Len(cs) = k
        /\ \A j \in 1 .. k : cs[j] = cells[from + j]
    <2>1. /\ from + 1 \in 1 .. Len(cells) + 1 /\ upto \in 0 .. Len(cells) /\ from + 1 <= upto + 1
          /\ upto - (from + 1) + 1 = k /\ \A j \in 1 .. k : (from + 1) + j - 1 = from + j
      BY <1>2, <1>3
    <2>2. /\ cs \in Seq(CellType) /\ Len(cs) = upto - (from + 1) + 1
          /\ \A j \in 1 .. upto - (from + 1) + 1 : cs[j] = cells[(from + 1) + j - 1]
      BY <1>2, <2>1, SubSeqPlaces
    <2> HIDE DEF cs, k
    <2>3. QED
      BY <2>1, <2>2
  <1>5. /\ ps \in Seq(Nat) /\ Len(ps) = k
        /\ \A j \in 1 .. k : ps[j] = pointers[from + j]
    <2>1. /\ from + 1 \in 1 .. Len(pointers) + 1 /\ upto \in 0 .. Len(pointers)
          /\ from + 1 <= upto + 1
          /\ upto - (from + 1) + 1 = k /\ \A j \in 1 .. k : (from + 1) + j - 1 = from + j
      BY <1>2, <1>3
    <2>2. /\ ps \in Seq(Nat) /\ Len(ps) = upto - (from + 1) + 1
          /\ \A j \in 1 .. upto - (from + 1) + 1 : ps[j] = pointers[(from + 1) + j - 1]
      BY <1>2, <2>1, SubSeqPlaces
    <2> HIDE DEF ps, k
    <2>3. QED
      BY <2>1, <2>2
  <1> HIDE DEF ps, cs, k, n
  <1>6. Source(ps, cs)
    <2>1. \A j \in 1 .. k : Spelled(bytes, ps[j], cs[j])
      BY <1>2, <1>3, <1>4, <1>5
    <2>2. QED
      BY <1>2, <1>4, <1>5, <2>1 DEF Source
  <1>7. CellKeys(cs)
    <2> SUFFICES ASSUME NEW i \in 1 .. k, NEW j \in 1 .. k, i < j
                 PROVE  cs[i].key < cs[j].key
      BY <1>4 DEF CellKeys
    <2>1. from + i \in 1 .. n /\ from + j \in 1 .. n /\ from + i < from + j
      BY <1>3
    <2>2. cells[from + i].key < cells[from + j].key
      BY <1>2, <2>1 DEF CellKeys, n
    <2>3. QED
      BY <1>4, <2>2
  <1> DEFINE y == [j \in 0 .. k |-> z[from + j] - z[from]]
  <1>8. /\ z \in [0 .. n -> Nat] /\ \A i \in 1 .. n : z[i] = z[i - 1] + CellSize(cells[i])
        /\ \A i, j \in 0 .. n : i <= j => z[i] <= z[j]
    BY <1>1 DEF Sizes, n
  <1>9. \A j \in 0 .. k : /\ z[from + j] \in Nat /\ z[from] \in Nat /\ z[from] <= z[from + j]
                          /\ y[j] = z[from + j] - z[from] /\ y[j] \in Nat
    <2> SUFFICES ASSUME NEW j \in 0 .. k
                 PROVE  /\ z[from + j] \in Nat /\ z[from] \in Nat /\ z[from] <= z[from + j]
                        /\ y[j] = z[from + j] - z[from] /\ y[j] \in Nat
      OBVIOUS
    <2>1. from + j \in 0 .. n /\ from \in 0 .. n /\ from <= from + j
      BY <1>3
    <2>2. z[from + j] \in Nat /\ z[from] \in Nat /\ z[from] <= z[from + j]
      BY <1>8, <2>1
    <2>3. QED
      BY <2>2
  <1>10. Sizes(y, cs)
    <2>1. y \in [0 .. k -> Nat]
      <3>1. y = [j \in 0 .. k |-> y[j]]
        OBVIOUS
      <3> HIDE DEF y
      <3>2. QED
        BY <1>9, <3>1
    <2> HIDE DEF y
    <2>2. y[0] = 0
      BY <1>3, <1>9
    <2>3. ASSUME NEW j \in 1 .. k
          PROVE  y[j] = y[j - 1] + CellSize(cs[j])
      <3>1. /\ j \in 0 .. k /\ j - 1 \in 0 .. k /\ from + j \in 1 .. n
            /\ (from + j) - 1 = from + (j - 1)
        BY <1>3
      <3>2. z[from + j] = z[from + (j - 1)] + CellSize(cs[j])
        BY <1>4, <1>8, <3>1
      <3>3. CellSize(cs[j]) \in Nat
        BY <1>4, ImageIs
      <3>4. /\ y[j] = z[from + j] - z[from] /\ z[from + j] \in Nat /\ z[from] \in Nat
            /\ y[j - 1] = z[from + (j - 1)] - z[from] /\ z[from + (j - 1)] \in Nat
        BY <1>9, <3>1
      <3> DEFINE p == z[from + j]
                 q == z[from + (j - 1)]
      <3>5. y[j] = p - z[from] /\ y[j - 1] = q - z[from] /\ p = q + CellSize(cs[j])
        BY <3>2, <3>4
      <3>6. p \in Nat /\ q \in Nat
        BY <3>4
      <3> HIDE DEF p, q
      <3>7. QED
        BY <3>3, <3>4, <3>5, <3>6
    <2>4. ASSUME NEW i \in 0 .. k, NEW j \in 0 .. k, i <= j
          PROVE  y[i] <= y[j]
      <3>1. from + i \in 0 .. n /\ from + j \in 0 .. n /\ from + i <= from + j
        BY <1>3, <2>4
      <3>2. z[from + i] <= z[from + j]
        BY <1>8, <3>1
      <3> DEFINE p == z[from + i]
                 q == z[from + j]
      <3>3. y[i] = p - z[from] /\ p \in Nat /\ z[from] \in Nat
        BY <1>9
      <3>4. y[j] = q - z[from] /\ q \in Nat /\ p <= q
        BY <1>9, <3>2
      <3> HIDE DEF p, q, y
      <3>5. QED
        BY <3>3, <3>4
    <2>5. QED
      BY <1>4, <2>1, <2>2, <2>3, <2>4 DEF Sizes
  <1>11. y[k] <= PageBytes
    <2>1. k \in 0 .. k /\ from + k \in 0 .. n /\ n \in 0 .. n /\ from + k <= n
      BY <1>3
    <2>2. z[from + k] <= z[n] /\ z[n] \in Nat
      BY <1>8, <2>1
    <2>3. z[n] <= PageBytes
      BY <1>1, <1>2
    <2>4. y[k] = z[from + k] - z[from] /\ z[from] \in Nat /\ z[from + k] \in Nat
      BY <1>9, <2>1
    <2> HIDE DEF y
    <2>5. QED
      BY <1>2, <2>2, <2>3, <2>4
  <1> HIDE DEF y
  <1>12. Done(b, Len(cs), y, cs)
    BY <1>4, <1>6, <1>10, <1>11, MovedDone
  <1> HIDE DEF b
  <1>13. PageOk(b.bytes, b.data_start, b.pointers, cs)
    BY <1>4, <1>7, <1>10, <1>11, <1>12, DonePage
  <1>14. QED
    BY <1>13 DEF b, ps, cs

\* Either half of a page that is split is one.
LEMMA SplitInv ==
  ASSUME CellInv, Split
  PROVE  CellInv'
PROOF
  <1> DEFINE n == Len(cells)
             at == n \div 2
  <1>1. n \in Nat /\ at \in 0 .. n /\ bytes \in [Places -> Bytes] /\ 0 \in 0 .. n /\ n \in at .. n
        /\ cells \in Seq(CellType) /\ Len(pointers) = n
    <2>1. n \in Nat
      BY DEF CellInv, PageOk
    <2>2. at \in 0 .. n
      <3> HIDE DEF n
      <3>1. QED
        BY <2>1
    <2> HIDE DEF at, n
    <2>3. QED
      BY <2>1, <2>2 DEF CellInv, PageOk, n
  <1> HIDE DEF at
  <1>2. CASE /\ Become(Moved(bytes, SubSeq(pointers, 1, at)))
             /\ cells' = SubSeq(cells, 1, at)
    <2> DEFINE m == Moved(bytes, SubSeq(pointers, 0 + 1, at))
    <2>1. PageOk(m.bytes, m.data_start, m.pointers, SubSeq(cells, 0 + 1, at))
      BY <1>1, PartMoved
    <2>2. bytes' = m.bytes /\ data_start' = m.data_start /\ pointers' = m.pointers
      BY <1>2 DEF Become
    <2>3. cells' = SubSeq(cells, 0 + 1, at)
      BY <1>2
    <2> HIDE DEF m
    <2>4. QED
      BY <2>1, <2>2, <2>3 DEF CellInv
  <1>3. ASSUME NEW x \in OldBytes,
               Become(Moved([i \in Places |-> x], SubSeq(pointers, at + 1, Len(pointers)))),
               cells' = SubSeq(cells, at + 1, Len(cells))
        PROVE  CellInv'
    <2> DEFINE to == [i \in Places |-> x]
               m == Moved(to, SubSeq(pointers, at + 1, n))
    <2>1. to \in [Places -> Bytes]
      BY CellConstants
    <2>2. bytes' = m.bytes /\ data_start' = m.data_start /\ pointers' = m.pointers
      BY <1>1, <1>3 DEF Become
    <2> HIDE DEF to
    <2>3. PageOk(m.bytes, m.data_start, m.pointers, SubSeq(cells, at + 1, n))
      BY <1>1, <2>1, PartMoved
    <2> HIDE DEF m
    <2>4. QED
      BY <1>3, <2>2, <2>3 DEF CellInv
  <1>4. QED
    BY <1>2, <1>3 DEF Split, at

\* What varint_put and blob_put put together is the cell.
LEMMA PayloadIs ==
  ASSUME NEW c \in CellType, NEW old \in [Positions -> Bytes]
  PROVE  /\ FirstBytes(Bytewise(old, c.key), Stored(c.key)) \o BlobPut(old, c.blob) = CellImage(c)
         /\ Stored(c.key) + BlobPutLen(c.blob) = CellSize(c)
PROOF
  <1>1. c.key \in Nat /\ c.key < Biggest /\ c.blob.size \in Nat /\ c.blob.size < Biggest
    BY ImageIs
  <1>2. FirstBytes(Bytewise(old, c.key), Stored(c.key)) = Spelling(c.key)
        /\ Stored(c.key) = PutLen(c.key)
    BY <1>1, FirstBytesAre
  <1>3. FirstBytes(Bytewise(old, c.blob.size), Stored(c.blob.size)) = Spelling(c.blob.size)
    BY <1>1, FirstBytesAre
  <1>4. QED
    BY <1>2, <1>3 DEF BlobPut, BlobPutLen, CellImage, CellSize

\* The pointer found is where the key belongs.
LEMMA FindPointerIs ==
  ASSUME CellInv, NEW k \in Nat
  PROVE  LET i == FindPointer(k)
         IN  /\ i \in 1 .. Len(cells) + 1
             /\ \A j \in 1 .. Len(cells) : j < i => cells[j].key < k
             /\ \A j \in 1 .. Len(cells) : j >= i => cells[j].key >= k
             /\ i \in 1 .. Len(cells) => Get(At(pointers[i])) = cells[i].key
PROOF
  <1> DEFINE n == Len(cells)
             i == FindPointer(k)
             S == {n + 1} \cup {j \in 1 .. n : cells[j].key >= k}
  <1>1. /\ n \in Nat /\ bytes \in [Places -> Bytes]
        /\ Len(pointers) = n /\ DOMAIN pointers = 1 .. n /\ CellKeys(cells) /\ DOMAIN cells = 1 .. n
        /\ \A j \in 1 .. n : cells[j] \in CellType /\ Spelled(bytes, pointers[j], cells[j])
    BY DEF CellInv, PageOk
  <1> HIDE DEF n
  <1>2. ASSUME NEW j \in 1 .. n
        PROVE  Get(At(pointers[j])) = cells[j].key /\ cells[j].key \in Nat
    <2>1. cells[j] \in CellType /\ Spelled(bytes, pointers[j], cells[j])
      BY <1>1
    <2>2. QED
      BY <1>1, <2>1, CellRead, ImageIs
  <1>3. i = Min(S)
    <2>1. {n + 1} \cup {j \in DOMAIN pointers : Get(At(pointers[j])) >= k} = S
      BY <1>1, <1>2
    <2>2. i = Min({n + 1} \cup {j \in DOMAIN pointers : Get(At(pointers[j])) >= k})
      BY <1>1 DEF FindPointer
    <2> HIDE DEF S, i
    <2>3. QED
      BY <2>1, <2>2
  <1>4. S \in SUBSET Nat /\ n + 1 \in S
    BY <1>1
  <1>5. i \in S /\ \A j \in S : i <= j
    <2> HIDE DEF S, i
    <2>1. QED
      BY <1>3, <1>4, MinLeast
  <1> HIDE DEF i
  <1>6. i \in 1 .. n + 1
    BY <1>1, <1>5
  <1>7. ASSUME NEW j \in 1 .. n, j < i
        PROVE  cells[j].key < k
    <2>1. j \notin S
      BY <1>5, <1>6, <1>7
    <2>2. ~(cells[j].key >= k)
      BY <2>1
    <2>3. QED
      BY <1>2, <2>2
  <1>8. ASSUME NEW j \in 1 .. n, j >= i
        PROVE  cells[j].key >= k
    <2>1. i \in 1 .. n /\ cells[i].key >= k /\ cells[i].key \in Nat
      BY <1>1, <1>2, <1>5, <1>6, <1>8
    <2>2. j = i \/ cells[i].key < cells[j].key
      BY <1>1, <1>8, <2>1 DEF CellKeys
    <2>3. QED
      BY <1>2, <2>1, <2>2
  <1>9. QED
    BY <1>2, <1>6, <1>7, <1>8 DEF i, n

\* The places of the cells with one more among them.
LEMMA SizesInsert ==
  ASSUME NEW cs \in Seq(CellType), NEW i \in 1 .. Len(cs) + 1, NEW c \in CellType,
         NEW z, Sizes(z, cs),
         NEW cs2 \in Seq(CellType), Len(cs2) = Len(cs) + 1,
         \A j \in 1 .. Len(cs) + 1 :
           cs2[j] = IF j < i THEN cs[j] ELSE IF j = i THEN c ELSE cs[j - 1]
  PROVE  \E y : Sizes(y, cs2) /\ y[Len(cs2)] = z[Len(cs)] + CellSize(c)
PROOF
  <1> DEFINE n == Len(cs)
             m == CellSize(c)
             y == [j \in 0 .. n + 1 |-> IF j < i THEN z[j] ELSE z[j - 1] + m]
  <1>1. n \in Nat /\ m \in Nat /\ i \in 1 .. n + 1 /\ Len(cs2) = n + 1
    BY ImageIs
  <1>2. /\ z \in [0 .. n -> Nat] /\ z[0] = 0
        /\ \A j \in 1 .. n : z[j] = z[j - 1] + CellSize(cs[j])
        /\ \A j, k \in 0 .. n : j <= k => z[j] <= z[k]
    BY DEF Sizes
  <1>3. \A j \in 1 .. n + 1 : cs2[j] = IF j < i THEN cs[j] ELSE IF j = i THEN c ELSE cs[j - 1]
    OBVIOUS
  <1> HIDE DEF n, m
  <1>4. /\ \A j \in 0 .. n + 1 : j < i => y[j] = z[j] /\ z[j] \in Nat /\ j \in 0 .. n
        /\ \A j \in 0 .. n + 1 : ~(j < i) => /\ y[j] = z[j - 1] + m /\ z[j - 1] \in Nat
                                             /\ j - 1 \in 0 .. n
    BY <1>1, <1>2
  <1>5. y \in [0 .. n + 1 -> Nat]
    <2>1. y = [j \in 0 .. n + 1 |-> y[j]]
      OBVIOUS
    <2> HIDE DEF y
    <2>2. ASSUME NEW j \in 0 .. n + 1 PROVE y[j] \in Nat
      <3>1. j < i => y[j] \in Nat
        BY <1>4
      <3>2. ASSUME ~(j < i) PROVE y[j] \in Nat
        <4>1. y[j] = z[j - 1] + m /\ z[j - 1] \in Nat
          BY <1>4, <3>2
        <4>2. QED
          BY <1>1, <4>1
      <3>3. QED
        BY <3>1, <3>2
    <2>3. QED
      BY <2>1, <2>2
  <1> HIDE DEF y
  <1>6. y[0] = 0
    BY <1>1, <1>2, <1>4
  <1>7. ASSUME NEW j \in 1 .. n + 1
        PROVE  y[j] = y[j - 1] + CellSize(cs2[j])
    <2>1. j \in 0 .. n + 1 /\ j - 1 \in 0 .. n + 1
      BY <1>1
    <2>2. CASE j < i
      <3>1. j \in 1 .. n /\ j - 1 < i /\ cs2[j] = cs[j]
        BY <1>1, <1>3, <2>2
      <3>2. QED
        BY <1>2, <1>4, <2>1, <2>2, <3>1
    <2>3. CASE j = i
      <3>1. j - 1 < i /\ cs2[j] = c
        BY <1>1, <1>3, <2>3
      <3>2. QED
        BY <1>4, <2>1, <2>3, <3>1 DEF m
    <2>4. CASE j > i
      <3>1. /\ j - 1 \in 1 .. n /\ ~(j < i) /\ ~(j - 1 < i) /\ cs2[j] = cs[j - 1]
        BY <1>1, <1>3, <2>4
      <3>2. y[j] = z[j - 1] + m /\ y[j - 1] = z[(j - 1) - 1] + m /\ z[(j - 1) - 1] \in Nat
        BY <1>4, <2>1, <3>1
      <3>3. z[j - 1] = z[(j - 1) - 1] + CellSize(cs[j - 1]) /\ CellSize(cs[j - 1]) \in Nat
        <4>1. cs[j - 1] \in CellType
          BY <3>1 DEF n
        <4>2. QED
          BY <1>2, <3>1, <4>1, ImageIs
      <3>4. QED
        BY <1>1, <3>1, <3>2, <3>3
    <2>5. QED
      BY <1>1, <2>2, <2>3, <2>4
  <1>8. ASSUME NEW j \in 0 .. n + 1, NEW k \in 0 .. n + 1, j <= k
        PROVE  y[j] <= y[k]
    <2>1. CASE k < i
      <3>1. j < i
        BY <1>1, <1>8, <2>1
      <3>2. QED
        BY <1>2, <1>4, <1>8, <2>1, <3>1
    <2>2. CASE ~(k < i) /\ j < i
      <3>1. j <= k - 1 /\ j \in 0 .. n /\ k - 1 \in 0 .. n
        BY <1>1, <1>4, <2>2
      <3>2. z[j] <= z[k - 1]
        BY <1>2, <3>1
      <3>3. y[j] = z[j] /\ y[k] = z[k - 1] + m /\ z[j] \in Nat /\ z[k - 1] \in Nat
        BY <1>4, <2>2
      <3>4. QED
        BY <1>1, <3>2, <3>3
    <2>3. CASE ~(j < i)
      <3>1. ~(k < i) /\ j - 1 <= k - 1 /\ j - 1 \in 0 .. n /\ k - 1 \in 0 .. n
        <4>1. ~(k < i)
          BY <1>1, <1>8, <2>3
        <4>2. QED
          BY <1>4, <1>8, <2>3, <4>1
      <3>2. z[j - 1] <= z[k - 1]
        BY <1>2, <3>1
      <3>3. y[j] = z[j - 1] + m /\ y[k] = z[k - 1] + m /\ z[j - 1] \in Nat /\ z[k - 1] \in Nat
        BY <1>4, <2>3, <3>1
      <3>4. QED
        BY <1>1, <3>2, <3>3
    <2>4. QED
      BY <2>1, <2>2, <2>3
  <1>9. Sizes(y, cs2)
    BY <1>1, <1>5, <1>6, <1>7, <1>8 DEF Sizes
  <1>10. y[n + 1] = z[n] + m
    <2>1. n + 1 \in 0 .. n + 1 /\ ~(n + 1 < i) /\ (n + 1) - 1 = n
      BY <1>1
    <2>2. QED
      BY <1>4, <2>1
  <1>11. QED
    BY <1>1, <1>9, <1>10 DEF n, m

\* Whatever the integer, what it is put into stays bytes.
LEMMA AnyPutBytes ==
  ASSUME NEW old \in [Positions -> Bytes], NEW v \in Nat
  PROVE  FirstBytes(Bytewise(old, v), Stored(v)) \in Seq(Bytes)
         /\ Len(FirstBytes(Bytewise(old, v), Stored(v))) = Stored(v)
         /\ Stored(v) \in Nat
PROOF
  <1> DEFINE b == Bytewise(old, v)
             n == Stored(v)
  <1>1. b \in [Positions -> Bytes] /\ n \in 1 .. MaxBytes
    <2>1. CASE v < Biggest
      <3>1. b \in [Positions -> Bytes]
        BY <2>1, PutBytes DEF Biggest
      <3>2. n = PutLen(v) /\ PutLen(v) \in 1 .. LastPosition
        BY <2>1, FirstBytesAre, IntByteIs
      <3>3. QED
        BY <3>1, <3>2, CellConstants
    <2>2. CASE ~(v < Biggest)
      <3>1. v >= Weight[LastPosition]
        BY <2>2, CellConstants DEF Biggest
      <3>2. b = Long(old, v) /\ n = MaxBytes
        BY <3>1 DEF Bytewise, Stored
      <3>3. Weight[0] = 1 /\ Digit(v, 0) \in 0 .. Group - 1
        BY WeightIs, CellConstants DEF Digit
      <3>4. Digit(v, 0) + Group \in Bytes /\ (v \div Group) % (2 * Group) \in Bytes
        BY <3>3, CellConstants DEF Bytes
      <3>5. b \in [Positions -> Bytes]
        BY <3>2, <3>4 DEF Long
      <3>6. QED
        BY <3>2, <3>5, CellConstants
    <2>3. QED
      BY <2>1, <2>2
  <1> DEFINE s == FirstBytes(b, n)
  <1>2. s = [i \in 1 .. n |-> b[i - 1]]
    BY DEF FirstBytes
  <1> HIDE DEF b, n, s
  <1>3. \A i \in 1 .. n : i - 1 \in Positions
    BY <1>1, CellConstants DEF Positions
  <1>4. s \in [1 .. n -> Bytes]
    BY <1>1, <1>2, <1>3
  <1>5. s \in Seq(Bytes) /\ Len(s) = n /\ n \in Nat
    BY <1>1, <1>4
  <1>6. QED
    BY <1>5 DEF s, b, n

\* A value is shorter than what is inserted for it.
LEMMA PayloadLonger ==
  ASSUME NEW k \in Nat, NEW blob \in Blobs, NEW old \in [Positions -> Bytes]
  PROVE  LET payload == FirstBytes(Bytewise(old, k), Stored(k)) \o BlobPut(old, blob)
         IN  Len(payload) \in Nat /\ blob.size <= Len(payload) /\ blob.size \in Nat
PROOF
  <1> DEFINE a == FirstBytes(Bytewise(old, k), Stored(k))
             b == FirstBytes(Bytewise(old, blob.size), Stored(blob.size))
             d == blob.data
             bd == b \o d
  <1>1. blob.size = Len(d) /\ d \in Seq(Bytes) /\ blob.size \in Nat
    BY CellConstants
  <1>2. a \in Seq(Bytes) /\ Len(a) \in Nat
    BY AnyPutBytes
  <1>3. b \in Seq(Bytes) /\ Len(b) \in Nat
    BY <1>1, AnyPutBytes
  <1>4. BlobPut(old, blob) = bd
    BY DEF BlobPut
  <1> HIDE DEF a, b, d
  <1>5. bd \in Seq(Bytes) /\ Len(bd) = Len(b) + Len(d)
    BY <1>1, <1>3
  <1> HIDE DEF bd
  <1>6. Len(a \o bd) = Len(a) + Len(bd)
    BY <1>2, <1>5
  <1>7. Len(a \o bd) \in Nat /\ blob.size <= Len(a \o bd)
    BY <1>1, <1>2, <1>3, <1>5, <1>6
  <1>8. QED
    BY <1>1, <1>4, <1>7 DEF a

\* A list of places with one more among them.
LEMMA PointersInsert ==
  ASSUME NEW s \in Seq(Nat), NEW i \in 1 .. Len(s) + 1, NEW e \in Nat
  PROVE  /\ InsertAt(s, i, e) \in Seq(Nat) /\ Len(InsertAt(s, i, e)) = Len(s) + 1
         /\ \A j \in 1 .. Len(s) + 1 :
              InsertAt(s, i, e)[j] = IF j < i THEN s[j] ELSE IF j = i THEN e ELSE s[j - 1]
PROOF
  BY InsertAtPlaces

\* A cell with its pointer among the others.
LEMMA InsertOk ==
  ASSUME CellInv, NEW c \in CellType, NEW i \in 1 .. Len(cells) + 1, NEW start \in Nat,
         start = data_start - CellSize(c),
         \A j \in 1 .. Len(cells) : j < i => cells[j].key < c.key,
         \A j \in 1 .. Len(cells) : j >= i => cells[j].key > c.key
  PROVE  PageOk(Written(bytes, start, CellImage(c)), start,
                InsertAt(pointers, i, start), InsertAt(cells, i, c))
PROOF
  <1> DEFINE n == Len(cells)
             b == Written(bytes, start, CellImage(c))
             ps == InsertAt(pointers, i, start)
             cs == InsertAt(cells, i, c)
             before(j) == IF j < i THEN j ELSE j - 1
  <1>1. PICK z : Sizes(z, cells) /\ z[n] = PageBytes - data_start
    BY DEF CellInv, PageOk
  <1>2. /\ bytes \in [Places -> Bytes] /\ data_start \in 0 .. PageBytes /\ PageBytes \in Nat
        /\ cells \in Seq(CellType) /\ pointers \in Seq(Nat) /\ Len(pointers) = n
        /\ \A j \in 1 .. n : data_start <= pointers[j] /\ Spelled(bytes, pointers[j], cells[j])
        /\ \A j, k \in 1 .. n : j < k => Apart(pointers[j], cells[j], pointers[k], cells[k])
        /\ CellKeys(cells) /\ DOMAIN cells = 1 .. n
    BY CellConstants DEF CellInv, PageOk
  <1>3. /\ n \in Nat /\ CellSize(c) \in Nat \ {0} /\ start + CellSize(c) = data_start
        /\ start + CellSize(c) <= PageBytes /\ start <= data_start
        /\ \A j \in 1 .. n : cells[j] \in CellType /\ cells[j].key \in Nat
        /\ c.key \in Nat
    <2>1. n \in Nat /\ \A j \in 1 .. n : cells[j] \in CellType
      BY <1>2
    <2>2. c.key \in Nat /\ CellSize(c) \in Nat \ {0}
      BY ImageIs
    <2>3. \A j \in 1 .. n : cells[j].key \in Nat
      BY <2>1, ImageIs
    <2> HIDE DEF n
    <2>4. start + CellSize(c) = data_start /\ data_start <= PageBytes /\ start <= data_start
      BY <1>2, <2>2
    <2>5. QED
      BY <2>1, <2>2, <2>3, <2>4
  <1>4. /\ cs \in Seq(CellType) /\ Len(cs) = n + 1
        /\ \A j \in 1 .. n + 1 :
             cs[j] = IF j < i THEN cells[j] ELSE IF j = i THEN c ELSE cells[j - 1]
    <2>1. cells \in Seq(CellType) /\ i \in 1 .. Len(cells) + 1
      BY <1>2
    <2>2. QED
      BY <2>1, InsertAtPlaces
  <1>5. /\ ps \in Seq(Nat) /\ Len(ps) = n + 1
        /\ \A j \in 1 .. n + 1 :
             ps[j] = IF j < i THEN pointers[j] ELSE IF j = i THEN start ELSE pointers[j - 1]
    <2>1. i \in 1 .. Len(pointers) + 1 /\ pointers \in Seq(Nat) /\ start \in Nat
      BY <1>2
    <2>2. QED
      BY <1>2, <2>1, PointersInsert
  <1> HIDE DEF ps, cs, n
  <1>6. b \in [Places -> Bytes] /\ Spelled(b, start, c)
    BY <1>2, <1>3, WrittenSpells
  <1>7. i \in 1 .. n + 1
    BY DEF n
  <1>8. ASSUME NEW j \in 1 .. n + 1, j # i
        PROVE  /\ before(j) \in 1 .. n
               /\ cs[j] = cells[before(j)] /\ ps[j] = pointers[before(j)]
               /\ j < i => before(j) < i
               /\ j > i => before(j) >= i
    <2>1. CASE j < i
      BY <1>3, <1>4, <1>5, <1>7, <2>1
    <2>2. CASE j > i
      <3>1. ~(j < i) /\ j - 1 \in 1 .. n /\ j - 1 >= i
        BY <1>3, <1>7, <2>2
      <3>2. cs[j] = cells[j - 1] /\ ps[j] = pointers[j - 1]
        BY <1>4, <1>5, <1>8, <3>1
      <3>3. before(j) = j - 1
        BY <3>1
      <3> HIDE DEF before
      <3>4. QED
        BY <3>1, <3>2, <3>3
    <2>3. QED
      BY <1>7, <1>8, <2>1, <2>2
  <1>9. cs[i] = c /\ ps[i] = start
    BY <1>4, <1>5, <1>7
  <1>10. ASSUME NEW j \in 1 .. n
         PROVE  Apart(start, c, pointers[j], cells[j]) /\ Spelled(b, pointers[j], cells[j])
    <2>1. /\ data_start <= pointers[j] /\ Spelled(bytes, pointers[j], cells[j])
          /\ cells[j] \in CellType
      BY <1>2, <1>3
    <2>2. Apart(start, c, pointers[j], cells[j])
      BY <1>3, <2>1 DEF Apart
    <2>3. QED
      BY <1>2, <1>3, <2>1, <2>2, WrittenKeeps
  <1> HIDE DEF b
  <1>11. ASSUME NEW j \in 1 .. n + 1
         PROVE  start <= ps[j] /\ Spelled(b, ps[j], cs[j])
    <2>1. CASE j = i
      BY <1>6, <1>9, <2>1
    <2>2. CASE j # i
      <3> DEFINE q == before(j)
      <3>1. q \in 1 .. n /\ cs[j] = cells[q] /\ ps[j] = pointers[q]
        BY <1>8, <2>2
      <3> HIDE DEF q
      <3>2. data_start <= pointers[q] /\ Spelled(b, pointers[q], cells[q])
        BY <1>2, <1>10, <3>1
      <3>3. pointers[q] \in Nat
        BY <1>2, <3>1
      <3>4. QED
        BY <1>2, <1>3, <3>1, <3>2, <3>3
    <2>3. QED
      BY <2>1, <2>2
  <1>12. ASSUME NEW j \in 1 .. n + 1, NEW k \in 1 .. n + 1, j < k
         PROVE  cs[j].key < cs[k].key /\ Apart(ps[j], cs[j], ps[k], cs[k])
    <2>1. CASE j = i
      <3> DEFINE q == before(k)
      <3>1. q \in 1 .. n /\ q >= i /\ cs[k] = cells[q] /\ ps[k] = pointers[q]
        BY <1>8, <1>12, <2>1
      <3> HIDE DEF q
      <3>2. cells[q].key > c.key /\ cells[q].key \in Nat
        BY <1>3, <3>1 DEF n
      <3>3. Apart(start, c, pointers[q], cells[q])
        BY <1>10, <3>1
      <3>4. QED
        BY <1>3, <1>9, <2>1, <3>1, <3>2, <3>3
    <2>2. CASE k = i
      <3> DEFINE q == before(j)
      <3>1. q \in 1 .. n /\ q < i /\ cs[j] = cells[q] /\ ps[j] = pointers[q]
        BY <1>8, <1>12, <2>2
      <3> HIDE DEF q
      <3>2. cells[q].key < c.key
        BY <3>1 DEF n
      <3>3. Apart(pointers[q], cells[q], start, c)
        BY <1>10, <3>1 DEF Apart
      <3>4. QED
        BY <1>9, <2>2, <3>1, <3>2, <3>3
    <2>3. CASE j # i /\ k # i
      <3> DEFINE q == before(j)
                 r == before(k)
      <3>1. q < r
        BY <1>7, <1>12, <2>3
      <3>2. /\ q \in 1 .. n /\ cs[j] = cells[q] /\ ps[j] = pointers[q]
            /\ r \in 1 .. n /\ cs[k] = cells[r] /\ ps[k] = pointers[r]
        BY <1>8, <2>3
      <3> HIDE DEF q, r
      <3>3. cells[q].key < cells[r].key
        BY <1>2, <3>1, <3>2 DEF CellKeys, n
      <3>4. Apart(pointers[q], cells[q], pointers[r], cells[r])
        BY <1>2, <3>1, <3>2
      <3>5. QED
        BY <3>2, <3>3, <3>4
    <2>4. QED
      BY <2>1, <2>2, <2>3
  <1>13. \E y : Sizes(y, cs) /\ y[Len(cs)] = PageBytes - start
    <2>1. PICK y : Sizes(y, cs) /\ y[Len(cs)] = z[n] + CellSize(c)
      BY <1>1, <1>2, <1>4, SizesInsert DEF n
    <2>2. z[n] + CellSize(c) = PageBytes - start
      BY <1>1, <1>2, <1>3
    <2>3. QED
      BY <2>1, <2>2
  <1>14. CellKeys(cs)
    BY <1>4, <1>12 DEF CellKeys
  <1>15. start \in 0 .. PageBytes
    BY <1>2, <1>3
  <1>16. PageOk(b, start, ps, cs)
    BY <1>4, <1>5, <1>6, <1>11, <1>12, <1>13, <1>14, <1>15 DEF PageOk
  <1>17. QED
    BY <1>16 DEF b, ps, cs

\* The whole of an insertion.
LEMMA InsertInv ==
  ASSUME PageBytes <= Biggest, CellInv,
         NEW k \in Keys, k < Biggest, NEW blob \in Blobs, NEW x \in OldBytes, InsertCell(k, blob, x)
  PROVE  CellInv'
PROOF
  <1> DEFINE old == [j \in Positions |-> x]
             payload == FirstBytes(Bytewise(old, k), Stored(k)) \o BlobPut(old, blob)
             i == FindPointer(k)
             start == data_start - (Stored(k) + BlobPutLen(blob))
             c == [key |-> k, blob |-> blob]
             n == Len(cells)
  <1>1. /\ i \in DOMAIN pointers => Get(At(pointers[i])) # k
        /\ Len(payload) + PointerBytes <= Room
        /\ bytes' = Written(bytes, start, payload) /\ data_start' = start
        /\ pointers' = InsertAt(pointers, i, start) /\ cells' = InsertAt(cells, i, c)
    BY DEF InsertCell
  <1>2. old \in [Positions -> Bytes]
    BY CellConstants
  <1>3. k \in Nat /\ k < Biggest
    BY CellConstants
  <1>4. n \in Nat /\ Len(pointers) = n /\ DOMAIN pointers = 1 .. n /\ data_start \in 0 .. PageBytes
    BY DEF CellInv, PageOk
  <1> HIDE DEF old
  <1>5. Len(payload) \in Nat /\ blob.size <= Len(payload) /\ blob.size \in Nat
    BY <1>2, <1>3, PayloadLonger
  <1> HIDE DEF payload
  <1>6. Len(payload) + 2 <= data_start - 2 * n
    BY <1>1, <1>4 DEF Room, PointerBytes
  <1>7. blob.size < Biggest
    BY <1>4, <1>5, <1>6, CellConstants
  <1>8. c \in CellType /\ c.key = k /\ c.blob = blob
    BY <1>3, <1>7 DEF CellType
  <1> HIDE DEF c
  <1>9. payload = CellImage(c) /\ Stored(k) + BlobPutLen(blob) = CellSize(c)
    BY <1>2, <1>8, PayloadIs DEF payload
  <1>10. Len(CellImage(c)) = CellSize(c) /\ CellSize(c) \in Nat
    BY <1>8, ImageIs
  <1>11. start = data_start - CellSize(c) /\ start \in Nat
    BY <1>4, <1>6, <1>9, <1>10
  <1> HIDE DEF start
  <1>12. /\ i \in 1 .. n + 1
         /\ \A j \in 1 .. n : j < i => cells[j].key < k
         /\ \A j \in 1 .. n : j >= i => cells[j].key >= k
         /\ i \in 1 .. n => Get(At(pointers[i])) = cells[i].key
    BY <1>3, FindPointerIs
  <1>13. CellKeys(cells) /\ DOMAIN cells = 1 .. n /\ \A j \in 1 .. n : cells[j].key \in Nat
    <2>1. cells \in Seq(CellType) /\ CellKeys(cells)
      BY DEF CellInv, PageOk
    <2>2. \A j \in 1 .. n : cells[j] \in CellType
      BY <2>1
    <2>3. QED
      BY <2>1, <2>2, ImageIs
  <1> HIDE DEF i, n
  <1>14. ASSUME NEW j \in 1 .. n, j >= i
         PROVE  cells[j].key > c.key
    <2>1. i \in 1 .. n
      BY <1>4, <1>12, <1>14
    <2>2. cells[i].key # k /\ cells[i].key >= k /\ cells[i].key \in Nat
      BY <1>1, <1>4, <1>12, <1>13, <2>1
    <2>3. j = i \/ cells[i].key < cells[j].key
      BY <1>12, <1>13, <1>14, <2>1 DEF CellKeys
    <2>4. QED
      BY <1>3, <1>8, <1>13, <2>2, <2>3
  <1>15. PageOk(Written(bytes, start, CellImage(c)), start,
                InsertAt(pointers, i, start), InsertAt(cells, i, c))
    <2>1. i \in 1 .. Len(cells) + 1
      BY <1>12 DEF n
    <2>2. \A j \in 1 .. Len(cells) : j < i => cells[j].key < c.key
      BY <1>8, <1>12 DEF n
    <2>3. \A j \in 1 .. Len(cells) : j >= i => cells[j].key > c.key
      BY <1>14 DEF n
    <2>4. QED
      BY <1>8, <1>11, <2>1, <2>2, <2>3, InsertOk
  <1>16. /\ bytes' = Written(bytes, start, CellImage(c)) /\ data_start' = start
         /\ pointers' = InsertAt(pointers, i, start) /\ cells' = InsertAt(cells, i, c)
    BY <1>1, <1>9
  <1>17. QED
    BY <1>15, <1>16 DEF CellInv

(***************************************************************************)
(* CellsRead, for pages and keys that need no ninth byte: whatever was     *)
(* inserted into a leaf and however it was split, every pointer leads to   *)
(* the bytes of its cell (btree_table_insert, page_insert_leaf, page_split *)
(* and page_compact with varint.c and blob.c).                             *)
(***************************************************************************)
THEOREM CellsAlwaysRead ==
  ASSUME \A k \in Keys : k < Weight[LastPosition], PageBytes <= Weight[LastPosition]
  PROVE  CellsSpec => []CellsRead
PROOF
  <1>1. Init /\ EmptyLeaf => CellInv
    <2> SUFFICES ASSUME EmptyLeaf PROVE CellInv
      OBVIOUS
    <2>1. /\ bytes \in [Places -> Bytes] /\ data_start = PageBytes /\ data_start \in 0 .. PageBytes
          /\ pointers = <<>> /\ cells = <<>> /\ Len(cells) = 0 /\ Len(pointers) = 0
      BY CellConstants DEF EmptyLeaf
    <2> DEFINE z == [j \in 0 .. 0 |-> 0]
    <2>2. Sizes(z, cells) /\ z[Len(cells)] = PageBytes - data_start
      BY <2>1, CellConstants DEF Sizes
    <2> HIDE DEF z
    <2>3. cells \in Seq(CellType) /\ pointers \in Seq(Nat) /\ CellKeys(cells)
      BY <2>1 DEF CellKeys
    <2>4. QED
      BY <2>1, <2>2, <2>3 DEF CellInv, PageOk
  <1>2. CellInv /\ [CellsNext]_<<vars, page>> => CellInv'
    <2> SUFFICES ASSUME CellInv, [CellsNext]_<<vars, page>> PROVE CellInv'
      OBVIOUS
    <2>1. CASE Split
      BY <2>1, SplitInv
    <2>2. ASSUME NEW k \in Keys, NEW blob \in Blobs, NEW x \in OldBytes, InsertCell(k, blob, x)
          PROVE  CellInv'
      BY <2>2, InsertInv DEF Biggest
    <2>3. CASE UNCHANGED <<vars, page>>
      <3>1. /\ bytes' = bytes /\ data_start' = data_start
            /\ pointers' = pointers /\ cells' = cells
        BY <2>3 DEF page
      <3>2. QED
        BY <3>1 DEF CellInv
    <2>4. QED
      BY <2>1, <2>2, <2>3 DEF CellsNext
  <1>3. CellInv => CellsRead
    BY InvReads
  <1>4. QED
    BY <1>1, <1>2, <1>3, PTL DEF CellsSpec

=============================================================================
