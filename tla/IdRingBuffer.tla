---------------------------- MODULE IdRingBuffer ----------------------------
(***************************************************************************)
(* The fixed-capacity ring of ids of include/IdRingBuffer.hpp, as          *)
(* operators on a ring value [ids, write_idx].  ReliableSession keeps two  *)
(* of them (m_seen_requests, m_seen_responses); module DedupRing gives one *)
(* a life of its own.                                                      *)
(*                                                                         *)
(* An id is the 64-bit key that compose_dedup_key packs from a command id  *)
(* (16 bits) and a transaction id (32 bits).  The packing is injective, so *)
(* the modules that use the ring keep the key as the pair <<cmd, tx>>.     *)
(***************************************************************************)
EXTENDS Integers

CONSTANTS
    Capacity,   \* number of slots: 64 for DedupRingBuffer
    Zero        \* T{}, the value of a slot that was never written

Slots == 0 .. Capacity - 1

\* `std::array<T, Capacity> ids{}; size_t write_idx = 0;` and clear().
Empty == [ids |-> [s \in Slots |-> Zero], write_idx |-> 0]

\* Fault: the search starts at the second slot.
Holds_SkipsFirstSlot(ring, id) == \E s \in 1 .. Capacity - 1 : ring.ids[s] = id

\* The value test_and_insert(id) returns.
Holds(ring, id) == \E s \in Slots : ring.ids[s] = id

\* Fault: write_idx does not move.
Inserted_SameSlot(ring, id) ==
    [ring EXCEPT !.ids = [ring.ids EXCEPT ![ring.write_idx] = id]]

\* The ring test_and_insert(id) leaves: a hit changes nothing (it does not
\* refresh the id either), a miss overwrites the slot at write_idx.
Inserted(ring, id) ==
    IF Holds(ring, id)
    THEN ring
    ELSE [ids       |-> [ring.ids EXCEPT ![ring.write_idx] = id],
          write_idx |-> (ring.write_idx + 1) % Capacity]

\* Every ring over a set of ids.
Rings(Ids) == [ids : [Slots -> Ids \cup {Zero}], write_idx : Slots]
=============================================================================
