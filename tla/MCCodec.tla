------------------------------ MODULE MCCodec -------------------------------
(***************************************************************************)
(* Integers, the cells of a page, and identifiers.  Groups of two bits     *)
(* instead of seven: keys of one to three bytes, values with a length of   *)
(* one and of two bytes, whose own bytes look like parts of an integer.    *)
(***************************************************************************)
EXTENDS Cells, Uuid

Blob(n, byte) == [size |-> n, data |-> [i \in 1 .. n |-> byte]]
MCBlobs == {Blob(0, 0), Blob(1, 7), Blob(4, 5)}

MCTimes == {1, 255, 256, 65535, 65536, 16777216}

CodecInit == Init /\ EmptyLeaf /\ NoIdentifier

\* Bound: a behaviour has cells or identifiers, which share no state.
CodecNext ==
  \/ /\ timestamp = 0
     /\ CellsNext
     /\ UNCHANGED identifier
  \/ /\ cells = <<>> /\ value = 0
     /\ UuidNext
     /\ UNCHANGED <<vars, page>>

CodecSpec == CodecInit /\ [][CodecNext]_<<vars, page, identifier>>

=============================================================================
