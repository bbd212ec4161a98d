---------------------------- MODULE SlidingWindow ---------------------------
(***************************************************************************)
(* What a deduplication ring promises, without slots or indices: it        *)
(* remembers the last Size ids it answered "new" for, in that order, and   *)
(* answers "seen" for exactly those.  An id is forgotten only when Size    *)
(* other ids have been new since, and a repeat does not prolong its stay.  *)
(***************************************************************************)
EXTENDS Integers, Sequences, SequencesExt

CONSTANTS Ids, Size

VARIABLES
    recent,     \* the ids remembered, the oldest first
    verdict     \* the last call and its answer

vars == <<recent, verdict>>

Calls == [id : Ids, seen : BOOLEAN]
NoCall == [seen |-> FALSE]

Init == recent = <<>> /\ verdict = NoCall

Repeat(id) ==
    /\ id \in ToSet(recent)
    /\ verdict' = [id |-> id, seen |-> TRUE]
    /\ UNCHANGED recent

New(id) ==
    /\ id \notin ToSet(recent)
    /\ verdict' = [id |-> id, seen |-> FALSE]
    /\ recent' = IF Len(recent) < Size
                 THEN Append(recent, id)
                 ELSE Append(Tail(recent), id)

Forget == recent' = <<>> /\ verdict' = NoCall

Next == Forget \/ \E id \in Ids : Repeat(id) \/ New(id)

Spec == Init /\ [][Next]_vars
=============================================================================
