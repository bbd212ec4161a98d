--------------------------- MODULE ISRRingBuffer ----------------------------
(***************************************************************************)
(* include/ISRRingBuffer.hpp: the ring between the receive interrupt (or   *)
(* the serial reader's thread), which writes, and the protocol thread,     *)
(* which reads in drain_rx.  Each operation is split at its accesses to    *)
(* shared memory; bytes are copied one at a time.                          *)
(*                                                                         *)
(* m_write_idx is atomic, released by write and acquired by available.     *)
(* m_read_idx is a plain size_t: nothing orders its update after the       *)
(* copying of the bytes, so a build may make it visible before.            *)
(* ReaderOrders says which orders a build produces.                        *)
(***************************************************************************)
EXTENDS Integers, Sequences

CONSTANTS
    Capacity,           \* a power of two
    IndexModulus,       \* 2^32 or 2^64: the indices are size_t and wrap
    DropModulus,        \* likewise, of m_drop_count
    Bytes,              \* the values of a byte
    Chunks,             \* what one interrupt may deliver: sequences of bytes
    ReadSizes,          \* the max a read may be called with
    ReaderOrders        \* a subset of {"copy_first", "index_first"}

ASSUME RingAssumption ==
    /\ Capacity \in Nat \ {0}
    /\ IndexModulus \in Nat /\ IndexModulus > Capacity
    /\ IndexModulus % Capacity = 0
    /\ DropModulus \in Nat \ {0}
    /\ Bytes # {}
    /\ Chunks \subseteq Seq(Bytes) \ {<<>>}
    /\ ReadSizes \subseteq Nat \ {0}
    /\ ReaderOrders \subseteq {"copy_first", "index_first"}

VARIABLES
    m_buf, m_write_idx, m_drop_count, m_read_idx,
    writing,        \* write: the chunk being copied, <<>> outside
    w_copied,       \* how many of its bytes are in the ring
    r_step,         \* read or clear: where the protocol thread is
    r_from, r_n,    \* the read: its first index and its length
    r_out,          \* the bytes copied so far
    expected,       \* history: the bytes it should return
    delivered       \* what the last read returned

write_vars == <<writing, w_copied>>
read_vars == <<r_step, r_from, r_n, r_out, expected, delivered>>
vars == <<m_buf, m_write_idx, m_drop_count, m_read_idx, write_vars, read_vars>>

Slot(idx) == idx % Capacity                     \* idx & kMask
Distance(to, from) == (to - from) % IndexModulus

available == Distance(m_write_idx, m_read_idx)

\* The bytes from one index to another.
Stored(from, n) == [i \in 1 .. n |-> m_buf[Slot(from + i - 1)]]

Init ==
    /\ m_buf \in [0 .. Capacity - 1 -> {CHOOSE b \in Bytes : TRUE}]
    /\ m_write_idx = 0 /\ m_drop_count = 0 /\ m_read_idx = 0
    /\ writing = <<>> /\ w_copied = 0
    /\ r_step = "idle" /\ r_from = 0 /\ r_n = 0 /\ r_out = <<>>
    /\ expected = <<>> /\ delivered = <<>>

-----------------------------------------------------------------------------
(***************************************************************************)
(* write.                                                                  *)
(***************************************************************************)

\* Fault: one byte more than there is room for.
HasRoom_OffByOne(len) == len <= Capacity - available + 1

HasRoom(len) == len <= Capacity /\ len <= Capacity - available

Idle == r_step \notin {"clear_drops", "clear_read"}

\* The counter is touched by nobody else, so dropping is one step.
WriteDropped(chunk) ==
    /\ Idle /\ writing = <<>>
    /\ ~ HasRoom(Len(chunk))
    /\ m_drop_count' = (m_drop_count + 1) % DropModulus
    /\ UNCHANGED <<m_buf, m_write_idx, m_read_idx, write_vars, read_vars>>

WriteStart(chunk) ==
    /\ Idle /\ writing = <<>>
    /\ HasRoom(Len(chunk))
    /\ writing' = chunk
    /\ UNCHANGED <<m_buf, m_write_idx, m_drop_count, m_read_idx, w_copied, read_vars>>

\* The two memcpy calls, before and after the end of the array.
WriteByte ==
    /\ w_copied < Len(writing)
    /\ m_buf' = [m_buf EXCEPT ![Slot(m_write_idx + w_copied)] = writing[w_copied + 1]]
    /\ w_copied' = w_copied + 1
    /\ UNCHANGED <<m_write_idx, m_drop_count, m_read_idx, writing, read_vars>>

\* Fault: the index may be stored before the last byte is copied.
WritePublish_Early ==
    /\ writing # <<>> /\ w_copied >= Len(writing) - 1
    /\ m_write_idx' = (m_write_idx + Len(writing)) % IndexModulus
    /\ writing' = <<>> /\ w_copied' = 0
    /\ UNCHANGED <<m_buf, m_drop_count, m_read_idx, read_vars>>

WritePublish ==
    /\ writing # <<>> /\ w_copied = Len(writing)
    /\ m_write_idx' = (m_write_idx + Len(writing)) % IndexModulus
    /\ writing' = <<>> /\ w_copied' = 0
    /\ UNCHANGED <<m_buf, m_drop_count, m_read_idx, read_vars>>

-----------------------------------------------------------------------------
(***************************************************************************)
(* read.  An empty ring returns 0 at once and changes nothing.             *)
(***************************************************************************)

\* Fault: asks for more than is there.
ReadLength_Max(max) == max

ReadLength(max) == IF max < available THEN max ELSE available

ReadStart(max) ==
    /\ r_step = "idle" /\ available > 0
    /\ r_from' = m_read_idx
    /\ r_n' = ReadLength(max)
    /\ r_out' = <<>>
    /\ expected' = Stored(m_read_idx, r_n')
    /\ \/ /\ "copy_first" \in ReaderOrders
          /\ r_step' = "copy" /\ UNCHANGED m_read_idx
       \/ /\ "index_first" \in ReaderOrders
          /\ r_step' = "copy_released"
          /\ m_read_idx' = (m_read_idx + r_n') % IndexModulus
    /\ UNCHANGED <<m_buf, m_write_idx, m_drop_count, write_vars, delivered>>

ReadByte ==
    /\ r_step \in {"copy", "copy_released"} /\ Len(r_out) < r_n
    /\ r_out' = Append(r_out, m_buf[Slot(r_from + Len(r_out))])
    /\ UNCHANGED <<m_buf, m_write_idx, m_drop_count, m_read_idx, write_vars,
                   r_step, r_from, r_n, expected, delivered>>

NextReadIdx == (m_read_idx + r_n) % IndexModulus

ReadDone ==
    /\ r_step \in {"copy", "copy_released"} /\ Len(r_out) = r_n
    /\ m_read_idx' = IF r_step = "copy" THEN NextReadIdx ELSE m_read_idx
    /\ delivered' = r_out
    /\ r_step' = "idle"
    /\ UNCHANGED <<m_buf, m_write_idx, m_drop_count, write_vars,
                   r_from, r_n, r_out, expected>>

(***************************************************************************)
(* clear: three stores by the protocol thread.  The stack never calls it;  *)
(* a caller has to mask the interrupt meanwhile, which Idle stands for.    *)
(***************************************************************************)
ClearWriteIdx ==
    /\ r_step = "idle" /\ writing = <<>>
    /\ m_write_idx' = 0 /\ r_step' = "clear_drops"
    /\ UNCHANGED <<m_buf, m_drop_count, m_read_idx, write_vars,
                   r_from, r_n, r_out, expected, delivered>>

ClearDropCount ==
    /\ r_step = "clear_drops"
    /\ m_drop_count' = 0 /\ r_step' = "clear_read"
    /\ UNCHANGED <<m_buf, m_write_idx, m_read_idx, write_vars,
                   r_from, r_n, r_out, expected, delivered>>

ClearReadIdx ==
    /\ r_step = "clear_read"
    /\ m_read_idx' = 0 /\ r_step' = "idle"
    /\ UNCHANGED <<m_buf, m_write_idx, m_drop_count, write_vars,
                   r_from, r_n, r_out, expected, delivered>>

write == \E chunk \in Chunks : WriteDropped(chunk) \/ WriteStart(chunk)
read == \E max \in ReadSizes : ReadStart(max)
clear == ClearWriteIdx \/ ClearDropCount \/ ClearReadIdx

Next == write \/ WriteByte \/ WritePublish \/ read \/ ReadByte \/ ReadDone \/ clear

Spec == Init /\ [][Next]_vars

-----------------------------------------------------------------------------
(* Every member keeps a value of its type, and the locals of the two       *)
(* operations fit the step they are at.                                    *)
TypeOK ==
    /\ m_buf \in [0 .. Capacity - 1 -> Bytes]
    /\ m_write_idx \in 0 .. IndexModulus - 1
    /\ m_read_idx \in 0 .. IndexModulus - 1
    /\ m_drop_count \in 0 .. DropModulus - 1
    /\ writing \in Chunks \cup {<<>>} /\ w_copied \in 0 .. Len(writing)
    /\ r_step \in {"idle", "copy", "copy_released", "clear_drops", "clear_read"}
    /\ r_from \in 0 .. IndexModulus - 1 /\ r_n \in 0 .. Capacity
    /\ r_out \in Seq(Bytes) /\ Len(r_out) <= r_n
    /\ expected \in Seq(Bytes) /\ delivered \in Seq(Bytes)

(* "Lock-free SPSC ring, ISR-safe" (README.md:14): a read returns the      *)
(* bytes that were the oldest in the ring when it began, although writes   *)
(* interrupt it at any byte: no slot is overwritten before it is copied.   *)
ReadIntact == r_step \in {"copy", "copy_released"} /\ Len(r_out) = r_n
                => r_out = expected

(* Between write and read, interleaved byte by byte and over any number of *)
(* wraps of slots and indices, the ring is a bounded FIFO: chunks enter    *)
(* whole or not at all, are dropped only when they do not fit, and leave   *)
(* in order (ISRRingBuffer.hpp:33-97).                                     *)
Clearing == r_step \in {"clear_drops", "clear_read"}
Channel == INSTANCE ByteChannel WITH
    queue <- IF Clearing THEN <<>> ELSE Stored(m_read_idx, available),
    dropped <- IF Clearing THEN 0 ELSE m_drop_count
ImplementsChannel == Channel!Spec
=============================================================================
