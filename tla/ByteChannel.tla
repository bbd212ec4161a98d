---------------------------- MODULE ByteChannel -----------------------------
(***************************************************************************)
(* What the receive ring promises, without slots or indices: a bounded     *)
(* FIFO of bytes between one producer and one consumer.  A chunk goes in   *)
(* as a whole, or is dropped and counted if it does not fit.               *)
(***************************************************************************)
EXTENDS Integers, Sequences

CONSTANTS Capacity, Chunks, DropModulus

VARIABLES
    queue,          \* the bytes accepted and not read, the oldest first
    delivered,      \* what the last read returned
    dropped         \* chunks dropped, as counted

vars == <<queue, delivered, dropped>>

Init == queue = <<>> /\ delivered = <<>> /\ dropped = 0

Accept(chunk) ==
    /\ Len(queue) + Len(chunk) <= Capacity
    /\ queue' = queue \o chunk
    /\ UNCHANGED <<delivered, dropped>>

Drop(chunk) ==
    /\ Len(queue) + Len(chunk) > Capacity
    /\ dropped' = (dropped + 1) % DropModulus
    /\ UNCHANGED <<queue, delivered>>

Deliver(n) ==
    /\ delivered' = SubSeq(queue, 1, n)
    /\ queue' = SubSeq(queue, n + 1, Len(queue))
    /\ UNCHANGED dropped

Clear == queue' = <<>> /\ dropped' = 0 /\ UNCHANGED delivered

Next ==
    \/ \E chunk \in Chunks : Accept(chunk) \/ Drop(chunk)
    \/ \E n \in 1 .. Len(queue) : Deliver(n)
    \/ Clear

Spec == Init /\ [][Next]_vars
=============================================================================
