-------------------------------- MODULE Uuid --------------------------------
(***************************************************************************)
(* The identifiers of src/uuid.c, version 7: the time in milliseconds in   *)
(* front, random bits behind, version and variant in between.  Left out is *)
(* a gettimeofday that fails, before a byte is written.                    *)
(***************************************************************************)
EXTENDS Integers, FiniteSetsExt

CONSTANTS
  Times,   \* the times of the clock looked at, in milliseconds
  Randoms  \* the results of random() looked at

ASSUME UuidAssumption == Times \subseteq Nat /\ Randoms \subseteq Nat

VARIABLES
  timestamp,  \* when the identifier was made
  uuid        \* its bytes

identifier == <<timestamp, uuid>>

\* src >> (8 * n)
Shifted(src, n) ==
  LET f[k \in 0 .. n] == IF k = 0 THEN src ELSE f[k - 1] \div 256 IN f[n]

\* Variant: the lowest byte first, as memcpy would leave it.
IntcpyLowFirst(dst, at, src, n) ==
  [i \in DOMAIN dst |->
     IF i \in at .. at + n - 1 THEN Shifted(src, i - at) % 256 ELSE dst[i]]

\* intcpy(dst + at, src, n)
Intcpy(dst, at, src, n) ==
  [i \in DOMAIN dst |->
     IF i \in at .. at + n - 1 THEN Shifted(src, n - 1 - (i - at)) % 256
     ELSE dst[i]]

\* uuid_v7_package; rand_b is high << 32 | low
Package(out, time, rand_a, high, low) ==
  LET timed == Intcpy(out, 0, time, 6)
      random == Intcpy(Intcpy(Intcpy(timed, 6, rand_a, 2), 8, high, 4), 12, low, 4)
  IN  [random EXCEPT ![6] = (@ % 16) + 7 * 16,
                     ![8] = (@ % 64) + 2 * 64]

NoUuid == [i \in 0 .. 15 |-> 0]

NoIdentifier == timestamp = 0 /\ uuid = NoUuid

\* uuid_v7_create
UuidCreate(time, rand_a, high, low) ==
  /\ timestamp' = time
  /\ uuid' = Package(uuid, time, rand_a, high, low)

UuidNext == \E time \in Times, a, h, l \in Randoms : UuidCreate(time, a, h, l)

UuidSpec == NoIdentifier /\ [][UuidNext]_identifier

-----------------------------------------------------------------------------
Less(a, b) ==
  LET differ == {i \in DOMAIN a : a[i] # b[i]}
  IN  differ # {} /\ a[Min(differ)] < b[Min(differ)]

(***************************************************************************)
(* An identifier made at a later millisecond is larger, byte by byte, and  *)
(* so never the same, whatever the random bits, the version and the        *)
(* variant are.                                                            *)
(***************************************************************************)
UuidsSort == [][timestamp' > timestamp => Less(uuid, uuid')]_identifier

=============================================================================
