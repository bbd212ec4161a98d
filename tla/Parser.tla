------------------------------- MODULE Parser -------------------------------
(***************************************************************************)
(* RPL/Parser.hpp over its BipBuffer: bytes come in as chunks, by          *)
(* push_data (from drain_rx) or by DMA; every chunk is followed by         *)
(* try_parse_packets, whose scanning loop is an action per round.          *)
(*                                                                         *)
(* The i-th byte of frame f is <<f, i>>, and a checksum over such bytes is *)
(* right iff they are the bytes it was computed over.                      *)
(***************************************************************************)
EXTENDS BipBuffer

CONSTANTS
    HeaderSize, TailSize,
    HeaderChecked,      \* how many header bytes the header CRC covers
    Frames,             \* what senders send, other protocols' frames included
    PayloadSize,        \* of each frame
    MaxPayload,         \* of the packets the parser was instantiated with
    Registered,         \* the frames whose command is one of theirs
    Noise,              \* bytes of no frame
    StartLike,          \* bytes that equal the start byte
    Chunks,             \* what may arrive at once
    NoFrame

VARIABLES
    buffer,
    parsing,            \* inside try_parse_packets
    delivered,          \* the last packet handed to after_parse
    refused             \* whether the last push was answered BufferOverflow

vars == <<buffer, parsing, delivered, refused>>

FrameSize(f) == HeaderSize + PayloadSize[f] + TailSize
Wire(f) == [i \in 1 .. FrameSize(f) |-> <<f, i>>]
Bytes == Noise \cup UNION {{<<f, i>> : i \in 1 .. FrameSize(f)} : f \in Frames}

max_frame_size == HeaderSize + MaxPayload + TailSize

\* calculate_buffer_size: the power of two is the code's, the factor matters.
ASSUME ParserAssumption ==
    /\ SIZE \in Nat /\ SIZE >= 4 * max_frame_size
    /\ HeaderSize \in Nat /\ TailSize \in Nat \ {0} /\ MaxPayload \in Nat
    /\ HeaderChecked \in 1 .. HeaderSize
    /\ PayloadSize \in [Frames -> Nat]
    /\ \A f \in Registered : PayloadSize[f] <= MaxPayload
    /\ Registered \subseteq Frames /\ NoFrame \notin Frames
    /\ \A f \in Frames : <<f, 1>> \in StartLike
    /\ \A b \in Noise : b[1] \notin Frames
    /\ Chunks \subseteq Seq(Bytes) \ {<<>>} /\ Free \notin Bytes

Init ==
    /\ buffer = EmptyBip
    /\ parsing = FALSE /\ delivered = NoFrame /\ refused = FALSE

-----------------------------------------------------------------------------
(***************************************************************************)
(* Input.                                                                  *)
(***************************************************************************)
push_data(chunk) ==
    /\ ~ parsing
    /\ IF CanWrite(buffer, Len(chunk))
       THEN buffer' = write(buffer, chunk) /\ parsing' = TRUE /\ refused' = FALSE
       ELSE refused' = TRUE /\ UNCHANGED <<buffer, parsing>>
    /\ UNCHANGED delivered

\* get_write_buffer, the transfer, advance_write_index: the buffer is not
\* touched in between, which is left to the user of the two calls.
DmaTransfer(chunk) ==
    LET span == get_write_buffer(buffer)
    IN  /\ ~ parsing /\ Len(chunk) <= span.room
        /\ buffer' = advance_write_index(Filled(buffer, span.from, chunk), Len(chunk))
        /\ parsing' = TRUE
        /\ UNCHANGED <<delivered, refused>>

clear_buffer ==
    /\ ~ parsing /\ buffer' = EmptyBip
    /\ UNCHANGED <<parsing, delivered, refused>>

-----------------------------------------------------------------------------
(***************************************************************************)
(* try_parse_packets.  A round finds the next start byte in the contiguous *)
(* part, drops what is before it and looks at the frame that begins there. *)
(***************************************************************************)
StartBytes == {i \in 1 .. buffer.a_size : buffer.bytes[buffer.a_start + i - 1] \in StartLike}
scan_offset == (CHOOSE i \in StartBytes : \A j \in StartBytes : i <= j) - 1

NothingLeft ==
    /\ parsing /\ available(buffer) = 0
    /\ parsing' = FALSE
    /\ UNCHANGED <<buffer, delivered, refused>>

NoStartByte ==
    /\ parsing /\ buffer.a_size > 0 /\ StartBytes = {}
    /\ buffer' = discard(buffer, buffer.a_size)
    /\ UNCHANGED <<parsing, delivered, refused>>

DropGarbage ==
    /\ parsing /\ StartBytes # {} /\ scan_offset > 0
    /\ buffer' = discard(buffer, scan_offset)
    /\ UNCHANGED <<parsing, delivered, refused>>

(***************************************************************************)
(* parse_frame_impl on the bytes of b.                                     *)
(***************************************************************************)
HasHeader(b) == available(b) >= HeaderSize

\* The start byte and the header CRC; length and command come with them.
HeaderRight(b) ==
    \E f \in Frames : \A i \in 1 .. HeaderChecked : b.bytes[At(b, i - 1)] = <<f, i>>
FrameAhead(b) == b.bytes[At(b, 0)][1]

\* Fault: the length field is trusted.
LengthAccepted_Any(b) == TRUE

LengthAccepted(b) == FrameSize(FrameAhead(b)) <= max_frame_size

HasFrame(b) == available(b) >= FrameSize(FrameAhead(b))

CrcRight(b) == peek(b, FrameSize(FrameAhead(b))) = Wire(FrameAhead(b))

Rejected(b) ==
    HasHeader(b) /\ ~ (/\ HeaderRight(b) /\ LengthAccepted(b)
                       /\ HasFrame(b) => CrcRight(b))

Accepted(b) ==
    HasHeader(b) /\ HeaderRight(b) /\ LengthAccepted(b) /\ HasFrame(b) /\ CrcRight(b)

-----------------------------------------------------------------------------
StartsHere == parsing /\ StartBytes # {} /\ scan_offset = 0

FrameIncomplete ==
    /\ StartsHere
    /\ ~ Rejected(buffer) /\ ~ Accepted(buffer)
    /\ parsing' = FALSE
    /\ UNCHANGED <<buffer, delivered, refused>>

\* Fault: the whole frame is given up, with whatever begins inside it.
AfterFailure_WholeFrame(b) ==
    discard(b, IF HeaderRight(b) /\ HasFrame(b) THEN FrameSize(FrameAhead(b)) ELSE 1)

\* Fault: the start byte stays.
AfterFailure_Keep(b) == b

AfterFailure(b) == discard(b, 1)

FrameRejected ==
    /\ StartsHere /\ Rejected(buffer)
    /\ buffer' = AfterFailure(buffer)
    /\ UNCHANGED <<parsing, delivered, refused>>

\* A command no packet is registered for is dropped in silence.
FrameAccepted ==
    /\ StartsHere /\ Accepted(buffer)
    /\ delivered' = IF FrameAhead(buffer) \in Registered
                    THEN FrameAhead(buffer) ELSE delivered
    /\ buffer' = discard(buffer, FrameSize(FrameAhead(buffer)))
    /\ UNCHANGED <<parsing, refused>>

try_parse_packets ==
    \/ NothingLeft \/ NoStartByte \/ DropGarbage
    \/ FrameIncomplete \/ FrameRejected \/ FrameAccepted

Next ==
    \/ \E chunk \in Chunks : push_data(chunk) \/ DmaTransfer(chunk)
    \/ clear_buffer
    \/ try_parse_packets

Spec == Init /\ [][Next]_vars

FairSpec == Spec /\ WF_vars(try_parse_packets)

-----------------------------------------------------------------------------
(* The regions lie inside the buffer, B below A, and hold bytes that were  *)
(* written; whatever was read is gone.                                     *)
TypeOK ==
    /\ buffer.a_start \in Nat /\ buffer.a_size \in Nat /\ buffer.b_size \in Nat
    /\ AEnd(buffer) <= SIZE
    /\ buffer.b_size <= buffer.a_start
    /\ buffer.a_size = 0 => buffer.a_start = 0
    /\ buffer.bytes \in [0 .. SIZE - 1 -> Bytes \cup {Free}]
    /\ \A i \in 0 .. SIZE - 1 : buffer.bytes[i] \in Bytes <=> InRegions(buffer, i)
    /\ parsing \in BOOLEAN /\ refused \in BOOLEAN
    /\ delivered \in Registered \cup {NoFrame}

(* push_data returns BufferOverflow, and drain_rx ignores it: a chunk that *)
(* does not fit is gone.  Between two calls the parser keeps less than one *)
(* frame, so a chunk of half the rest of the buffer always fits, however   *)
(* the regions lie (Parser.hpp:309, BipBuffer.hpp:216, ProtocolStack.hpp:  *)
(* 253).                                                                   *)
AlwaysRoom ==
    ~ parsing =>
        \A n \in 1 .. SIZE : 2 * n <= SIZE - max_frame_size + 2 => CanWrite(buffer, n)

(* No frame is lost: bytes are delivered or given up as by a parser of one *)
(* unbroken stream, which gives up a byte only if no frame can begin with  *)
(* it - after noise, truncated and corrupted frames, false start bytes and *)
(* over every position of the two regions (Parser.hpp:512-701).            *)
Stream == INSTANCE FrameStream WITH
    Packets <- {Wire(f) : f \in {g \in Frames : PayloadSize[g] <= MaxPayload}},
    Registered <- {Wire(f) : f \in Registered},
    queue <- peek(buffer, available(buffer)),
    delivered <- IF delivered = NoFrame THEN <<>> ELSE Wire(delivered)
ImplementsStream == Stream!Spec

(* The scanning loop ends, whatever the bytes (Parser.hpp:516).            *)
ParseEnds == parsing ~> ~ parsing
=============================================================================
