------------------------------- MODULE Varint -------------------------------
(***************************************************************************)
(* The variable-length integers of src/varint.c: groups of seven bits, the *)
(* lowest first, each with a bit that says whether another byte follows;   *)
(* the last of nine bytes has eight bits of the value.  Integers are put   *)
(* into a buffer that holds whatever was there before.                     *)
(***************************************************************************)
EXTENDS Integers, FiniteSetsExt

CONSTANTS
  Group,     \* the number of values of a group, 2^7 in the code
  MaxBytes,  \* the length of the longest integer, 9 in the code
  Limit      \* bound: the integers used are below Limit

LastPosition == MaxBytes - 1
Positions == 0 .. LastPosition
Bytes == 0 .. 2 * Group - 1

\* What the bits of the nth group count, 1 << 7 * n
Weight[n \in 0 .. MaxBytes] == IF n = 0 THEN 1 ELSE Group * Weight[n - 1]

ASSUME VarintAssumption ==
  /\ Group \in Nat \ {0, 1}
  /\ MaxBytes \in Nat \ {0, 1}
  /\ Limit \in 1 .. 2 * Weight[MaxBytes]

VARIABLES
  buffer,  \* the bytes at dst
  value,   \* the integer put last
  size     \* what varint_put returned for it

vars == <<buffer, value, size>>

\* The byte says that another one follows.
Continues(byte) == byte >= Group

Digit(v, i) == (v \div Weight[i]) % Group

\* varint_put_len
PutLen(v) == Min({MaxBytes} \cup {n \in 1 .. LastPosition : v < Weight[n]})

\* Variant: the first byte is not marked.
ShortUnmarked(old, v) ==
  [i \in Positions |->
     IF i \in 1 .. PutLen(v) - 2 THEN Digit(v, i) + Group
     ELSE IF i < PutLen(v) THEN Digit(v, i)
     ELSE old[i]]

\* The bytes of a value that needs no ninth byte.
Short(old, v) ==
  [i \in Positions |->
     IF i < PutLen(v) - 1 THEN Digit(v, i) + Group
     ELSE IF i = PutLen(v) - 1 THEN Digit(v, i)
     ELSE old[i]]

\* The bytes of a value that does: the loop counts down, wraps around and ends
\* after one round, so one group is written and eight bits of what follows.
Long(old, v) ==
  [old EXCEPT ![0] = Digit(v, 0) + Group,
              ![LastPosition] = (v \div Group) % (2 * Group)]

\* varint_put
Bytewise(old, v) == IF v >= Weight[LastPosition] THEN Long(old, v) ELSE Short(old, v)

\* varint_get_len
GetLen(b) == 1 + Min({LastPosition} \cup {i \in Positions : ~Continues(b[i])})

\* What a byte adds to the result.
Share(b, i) == (IF i < LastPosition THEN b[i] % Group ELSE b[i]) * Weight[i]

\* The result after n bytes.
Results(b) ==
  LET result[n \in 0 .. MaxBytes] ==
        IF n = 0 THEN 0 ELSE result[n - 1] + Share(b, n - 1)
  IN  result

\* varint_get
Get(b) == Results(b)[GetLen(b)]

\* What varint_put returns.
Stored(v) == IF v >= Weight[LastPosition] THEN MaxBytes ELSE PutLen(v)

\* The first integer is put into a buffer nobody has written to.
Init ==
  /\ value \in 0 .. Limit - 1
  /\ \E x \in Bytes : buffer = Bytewise([i \in Positions |-> x], value)
  /\ size = Stored(value)

Put(v) ==
  /\ buffer' = Bytewise(buffer, v)
  /\ value' = v
  /\ size' = Stored(v)

Next == \E v \in 0 .. Limit - 1 : Put(v)

Spec == Init /\ [][Next]_vars

-----------------------------------------------------------------------------
(***************************************************************************)
(* What is put is got back, whatever was in the buffer (test_varint).      *)
(***************************************************************************)
RoundTrip == Get(buffer) = value

=============================================================================
