----------------------------- MODULE PageCache ------------------------------
(***************************************************************************)
(* What the pager promises (include/pager.h), without threads, latches,    *)
(* ring or directory: a bounded set of pages, each in a frame of its own,  *)
(* that clients fix in shared or in exclusive mode.  A page may be evicted *)
(* at any time, but not while it is fixed.                                 *)
(***************************************************************************)
EXTENDS Integers, FiniteSets

CONSTANTS
  PageIds,   \* the ids of the pages
  Frames,    \* the buffers pages are kept in
  Handles,   \* what a client names a fixed page by
  Capacity,  \* the largest number of pages kept
  NoFrame,   \* the frame of a page that is not kept
  NoPin      \* what a handle holds that names no page

VARIABLES
  frame,     \* page id -> its frame
  pins       \* handle -> the page it holds fixed

Resident == {p \in PageIds : frame[p] # NoFrame}

PinnedBy(p) == {h \in Handles : pins[h] # NoPin /\ pins[h].id = p}

\* p may be fixed in mode x beside those who hold it already.
Compatible(p, x) ==
  IF x THEN PinnedBy(p) = {} ELSE \A h \in PinnedBy(p) : ~pins[h].exclusive

Init ==
  /\ frame = [p \in PageIds |-> NoFrame]
  /\ pins = [h \in Handles |-> NoPin]

Load(p, f) ==
  /\ frame[p] = NoFrame
  /\ \A q \in PageIds : frame[q] # f
  /\ Cardinality(Resident) < Capacity
  /\ frame' = [frame EXCEPT ![p] = f]
  /\ UNCHANGED pins

Evict(p) ==
  /\ frame[p] # NoFrame
  /\ PinnedBy(p) = {}
  /\ frame' = [frame EXCEPT ![p] = NoFrame]
  /\ UNCHANGED pins

Fix(h, p, x) ==
  /\ pins[h] = NoPin
  /\ frame[p] # NoFrame
  /\ Compatible(p, x)
  /\ pins' = [pins EXCEPT ![h] = [id |-> p, data |-> frame[p],
                                  exclusive |-> x]]
  /\ UNCHANGED frame

Unfix(h) ==
  /\ pins[h] # NoPin
  /\ pins' = [pins EXCEPT ![h] = NoPin]
  /\ UNCHANGED frame

Next ==
  \/ \E p \in PageIds : Evict(p) \/ \E f \in Frames : Load(p, f)
  \/ \E h \in Handles :
       Unfix(h) \/ \E p \in PageIds, x \in BOOLEAN : Fix(h, p, x)

Spec == Init /\ [][Next]_<<frame, pins>>

=============================================================================
