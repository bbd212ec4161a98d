----------------------------- MODULE BipBuffer ------------------------------
(***************************************************************************)
(* RPL/Containers/BipBuffer.hpp: a byte buffer that keeps what is written  *)
(* at once in one piece.  Region A is read first; region B, if there is    *)
(* one, starts at 0 and lies below A.  Operators on the value of a buffer. *)
(*                                                                         *)
(* A byte that is in neither region is Free: the code leaves it as it was, *)
(* and a read of it would show as Free.                                    *)
(***************************************************************************)
EXTENDS Integers, Sequences

CONSTANTS
    SIZE,           \* a power of two in the code, which no operation needs
    Free            \* no byte

EmptyBip == [bytes |-> [i \in 0 .. SIZE - 1 |-> Free],
             a_start |-> 0, a_size |-> 0, b_size |-> 0]

available(b) == b.a_size + b.b_size

AEnd(b) == b.a_start + b.a_size
InRegions(b, i) == i \in b.a_start .. AEnd(b) - 1 \/ i < b.b_size

-----------------------------------------------------------------------------
(* Writing.  A span is where the next bytes go and how many fit there.     *)

get_write_buffer(b) ==
    IF b.b_size > 0 THEN [from |-> b.b_size, room |-> b.a_start - b.b_size]
    ELSE IF AEnd(b) < SIZE THEN [from |-> AEnd(b), room |-> SIZE - AEnd(b)]
    ELSE [from |-> 0, room |-> b.a_start]

Filled(b, from, data) ==
    [b EXCEPT !.bytes = [i \in 0 .. SIZE - 1 |->
        IF i \in from .. from + Len(data) - 1 THEN data[i - from + 1] ELSE @[i]]]

\* For a length within the span of get_write_buffer.  (More is refused, but
\* for an empty buffer, which accepts any length.)
advance_write_index(b, length) ==
    IF b.b_size > 0 \/ AEnd(b) = SIZE
    THEN [b EXCEPT !.b_size = @ + length]
    ELSE [b EXCEPT !.a_size = @ + length]

\* Fault: one byte of A is overwritten.
FitsBelow_OffByOne(b, length) == b.b_size = 0 /\ b.a_start + 1 >= length

\* What does not fit behind A may still fit below it.
FitsBelow(b, length) == b.b_size = 0 /\ b.a_start >= length

CanWrite(b, length) == get_write_buffer(b).room >= length \/ FitsBelow(b, length)

write(b, data) ==
    IF get_write_buffer(b).room >= Len(data)
    THEN advance_write_index(Filled(b, get_write_buffer(b).from, data), Len(data))
    ELSE [Filled(b, 0, data) EXCEPT !.b_size = Len(data)]

-----------------------------------------------------------------------------
(* Reading.                                                                *)

\* Where the i-th unread byte lies, counted from 0.
At(b, i) == IF i < b.a_size THEN b.a_start + i ELSE i - b.a_size

\* The first n unread bytes, in one piece or two.
peek(b, n) == [i \in 1 .. n |-> b.bytes[At(b, i - 1)]]

get_contiguous_read_buffer(b) == peek(b, b.a_size)

Erased(b, n) ==
    [i \in 0 .. SIZE - 1 |->
        IF \E k \in 0 .. n - 1 : i = At(b, k) THEN Free ELSE b.bytes[i]]

\* Region B becomes A when A is used up; an empty buffer starts over at 0.
discard(b, n) ==
    IF n < b.a_size
    THEN [bytes |-> Erased(b, n),
          a_start |-> b.a_start + n, a_size |-> b.a_size - n, b_size |-> b.b_size]
    ELSE [bytes |-> Erased(b, n),
          a_start |-> IF n = available(b) THEN 0 ELSE n - b.a_size,
          a_size |-> available(b) - n, b_size |-> 0]
=============================================================================
