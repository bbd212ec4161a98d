---------------------------- MODULE FrameStream -----------------------------
(***************************************************************************)
(* What a parser promises, whatever its buffer: bytes arrive in order and  *)
(* a frame that arrived intact is delivered; a byte is given up only if no *)
(* frame can begin with it.                                                *)
(***************************************************************************)
EXTENDS Integers, Sequences

CONSTANTS Chunks, Packets, Registered       \* frames, as sequences of bytes

VARIABLES
    queue,          \* the bytes not yet used
    delivered       \* the last frame handed to a handler

vars == <<queue, delivered>>

Init == queue = <<>> /\ delivered = <<>>

\* The bytes from position i on are a frame, or may become one.
IsFrameAt(i, p) == SubSeq(queue, i, i + Len(p) - 1) = p
MayBeFrameAt(i, p) ==
    LET n == Len(queue) - i + 1
    IN  IF n >= Len(p) THEN IsFrameAt(i, p) ELSE SubSeq(queue, i, Len(queue)) = SubSeq(p, 1, n)

Arrive(chunk) == queue' = queue \o chunk /\ UNCHANGED delivered

Deliver(p) ==
    /\ Len(queue) >= Len(p) /\ IsFrameAt(1, p)
    /\ queue' = SubSeq(queue, Len(p) + 1, Len(queue))
    /\ delivered' = IF p \in Registered THEN p ELSE delivered

Skip(n) ==
    /\ \A i \in 1 .. n, p \in Packets : ~ MayBeFrameAt(i, p)
    /\ queue' = SubSeq(queue, n + 1, Len(queue))
    /\ UNCHANGED delivered

Clear == queue' = <<>> /\ UNCHANGED delivered

Next ==
    \/ \E chunk \in Chunks : Arrive(chunk)
    \/ \E p \in Packets : Deliver(p)
    \/ \E n \in 1 .. Len(queue) : Skip(n)
    \/ Clear

Spec == Init /\ [][Next]_vars
=============================================================================
