----------------------------- MODULE DedupRing ------------------------------
(***************************************************************************)
(* One DedupRingBuffer driven by an arbitrary sequence of test_and_insert  *)
(* and clear calls.  The ring implements a sliding window over the last    *)
(* Capacity new ids (module SlidingWindow).                                *)
(***************************************************************************)
EXTENDS IdRingBuffer, Sequences

CONSTANT Ids    \* the keys callers pass; T{} is not one of them: ProtocolStack
                \* never deduplicates a transaction id of 0

VARIABLES
    ring,       \* the IdRingBuffer object
    verdict     \* the id of the last test_and_insert and what it returned

vars == <<ring, verdict>>

NoCall == [seen |-> FALSE]

Init == ring = Empty /\ verdict = NoCall

test_and_insert(id) ==
    /\ verdict' = [id |-> id, seen |-> Holds(ring, id)]
    /\ ring' = Inserted(ring, id)

clear == ring' = Empty /\ verdict' = NoCall

Next == clear \/ \E id \in Ids : test_and_insert(id)

Spec == Init /\ [][Next]_vars

-----------------------------------------------------------------------------
(***************************************************************************)
(* The abstract window, from the oldest id to the newest: a ring that has  *)
(* wrapped is read once round from write_idx, one that has not up to it.   *)
(***************************************************************************)
WindowOf(r) ==
    IF r.ids[r.write_idx] = Zero
    THEN [i \in 1 .. r.write_idx |-> r.ids[i - 1]]
    ELSE [i \in 1 .. Capacity |-> r.ids[(r.write_idx + i - 1) % Capacity]]

Remembered == WindowOf(ring)

Window == INSTANCE SlidingWindow
            WITH Size <- Capacity, recent <- Remembered, verdict <- verdict

(* Every sequence of test_and_insert and clear calls on the ring, wrap of  *)
(* write_idx included, gives the answers of a sliding window over the last *)
(* Capacity new ids: IdRingBuffer.hpp:19-37 neither forgets an id early    *)
(* nor keeps one that Capacity newer ids should have displaced.            *)
ImplementsWindow == Window!Spec

(* The ring holds no id twice (IdRingBuffer.hpp:21-28): a hit returns      *)
(* before the write, so one id never takes two slots and shortens the      *)
(* window of the others.                                                   *)
NoDoubleSlot ==
    \A s, t \in Slots :
        ring.ids[s] = ring.ids[t] /\ ring.ids[s] # Zero => s = t

(* The ring is a value of the C++ struct.                                  *)
TypeOK == ring \in Rings(Ids)
=============================================================================
