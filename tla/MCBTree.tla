------------------------------ MODULE MCBTree -------------------------------
(***************************************************************************)
(* The B-tree with pages of two or three cells.                            *)
(***************************************************************************)
EXTENDS BTreeProperties, TLC

CONSTANTS ShortValue, ShortBytes, OddValue, EvenValue

\* The lengths of varint_put_len, with keys of seven bits to a byte.
MCKeyBytes == [k \in Keys |-> IF k < 128 THEN 1 ELSE 2]

\* With keys of one byte a cell on a leaf is shorter than on an inner page, as
\* long, or longer.
MCValueBytes ==
  [v \in Values |-> IF v = ShortValue THEN ShortBytes
                    ELSE IF v = EvenValue THEN 5 ELSE 4]

\* One value for a key, not the same for its neighbours.
MCOffered == {<<k, IF k % 2 = 0 THEN EvenValue ELSE OddValue>> : k \in Keys}

Symmetry == Permutations(Threads)

=============================================================================
