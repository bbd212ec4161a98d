------------------------ MODULE ISRRingBuffer_proofs ------------------------
(***************************************************************************)
(* In program order the receive ring is safe for every capacity, every     *)
(* width of the indices and every chunk: an interrupt never overwrites a   *)
(* byte the protocol thread has yet to copy.                               *)
(*                                                                         *)
(* The argument is about slots.  The reader copies some of the `available` *)
(* indices behind m_write_idx, the writer fills indices from m_write_idx   *)
(* on, and both together are at most Capacity indices in a row, which lie  *)
(* in different slots although the indices wrap at IndexModulus.           *)
(***************************************************************************)
EXTENDS ISRRingBuffer, TLAPS, SequenceTheorems

ProgramOrder == ReaderOrders = {"copy_first"}

(***************************************************************************)
(* Remainders.                                                             *)
(***************************************************************************)

(* Quotient and remainder are integers, and make up the dividend.          *)
LEMMA Division ==
    ASSUME NEW x \in Int, NEW n \in Nat, n > 0
    PROVE  /\ x \div n \in Int /\ x % n \in Int /\ 0 <= x % n /\ x % n < n
           /\ x = n * (x \div n) + (x % n)
<1>1. x \div n \in Int
  OBVIOUS
<1>2. x % n \in Int /\ 0 <= x % n /\ x % n < n
  OBVIOUS
<1>3. x = n * (x \div n) + (x % n)
  OBVIOUS
<1> QED
  BY <1>1, <1>2, <1>3

(* Products of natural numbers are natural numbers.                        *)
LEMMA Product == \A a, b \in Nat : a * b \in Nat
  OBVIOUS

(* No multiple of n lies strictly between 0 and n.                         *)
LEMMA NoMultipleBetween ==
    ASSUME NEW n \in Nat, n > 0, NEW q \in Int, 0 < n * q, n * q < n
    PROVE  FALSE
<1>1. CASE q \in Nat /\ q >= 1
  <2>1. n * q = n * (q - 1) + n
    BY <1>1
  <2>2. n * (q - 1) \in Nat
    BY <1>1, Product
  <2>3. n * q >= n
    <3> DEFINE a == n * q
               b == n * (q - 1)
    <3>1. a = b + n /\ b \in Nat
      BY <2>1, <2>2
    <3> HIDE DEF a, b
    <3>2. a >= n
      BY <3>1
    <3> QED
      BY <3>2 DEF a
  <2> QED
    BY <2>3
<1>2. CASE ~ (q \in Nat /\ q >= 1)
  <2>1. - q \in Nat
    BY <1>2
  <2>2. n * (- q) \in Nat
    BY <2>1, Product
  <2>3. n * (- q) = - (n * q)
    OBVIOUS
  <2> QED
    BY <2>2, <2>3
<1> QED
  BY <1>1, <1>2

(* A remainder is determined by the equation of the division.              *)
LEMMA RemainderUnique ==
    ASSUME NEW n \in Nat, n > 0, NEW k \in Int, NEW r \in Int, 0 <= r, r < n,
           NEW x \in Int, x = n * k + r
    PROVE  x % n = r
<1> DEFINE p == x \div n
           s == x % n
<1>1. p \in Int /\ x = n * p + s /\ s \in Int /\ 0 <= s /\ s < n
  BY Division
<1> HIDE DEF p, s
<1>2. n * (p - k) = n * p - n * k
  BY <1>1
<1>3. n * (k - p) = n * k - n * p
  BY <1>1
<1>4. n * (p - k) = r - s /\ n * (k - p) = s - r
  BY <1>1, <1>2, <1>3
<1>5. ~ (r - s > 0)
  <2> SUFFICES ASSUME r - s > 0 PROVE FALSE
    OBVIOUS
  <2>1. p - k \in Int /\ 0 < n * (p - k) /\ n * (p - k) < n
    BY <1>1, <1>4
  <2> QED
    BY <2>1, NoMultipleBetween
<1>6. ~ (s - r > 0)
  <2> SUFFICES ASSUME s - r > 0 PROVE FALSE
    OBVIOUS
  <2>1. k - p \in Int /\ 0 < n * (k - p) /\ n * (k - p) < n
    BY <1>1, <1>4
  <2> QED
    BY <2>1, NoMultipleBetween
<1>7. r = s
  BY <1>1, <1>5, <1>6
<1> QED
  BY <1>7 DEF s

(* Taking away a multiple of n leaves the remainder.                       *)
LEMMA RemainderOfMultiple ==
    ASSUME NEW n \in Nat, n > 0, NEW m \in Nat, m % n = 0, NEW x \in Int
    PROVE  (x - m) % n = x % n
<1> DEFINE p == x \div n
           q == m \div n
           s == x % n
<1>1. p \in Int /\ x = n * p + s /\ s \in Int /\ 0 <= s /\ s < n
  BY Division
<1>2. q \in Int /\ m = n * q
  BY Division
<1> HIDE DEF p, q, s
<1>3. n * (p - q) = n * p - n * q
  BY <1>1, <1>2
<1>4. x - m = n * (p - q) + s
  BY <1>1, <1>2, <1>3
<1>5. (x - m) % n = s
  BY <1>1, <1>2, <1>4, RemainderUnique
<1> QED
  BY <1>5 DEF s

(* Fewer than n numbers apart, different remainders.                       *)
LEMMA RemaindersApart ==
    ASSUME NEW n \in Nat, n > 0, NEW x \in Nat, NEW y \in Nat, x < y, y - x < n
    PROVE  x % n # y % n
<1> DEFINE p == x \div n
           q == y \div n
<1>0. x \in Int /\ y \in Int
  OBVIOUS
<1>1. p \in Int /\ x = n * p + (x % n) /\ x % n \in Int
  BY <1>0, Division
<1>2. q \in Int /\ y = n * q + (y % n) /\ y % n \in Int
  BY <1>0, Division
<1> HIDE DEF p, q
<1>3. ASSUME x % n = y % n PROVE FALSE
  <2>1. y - x = n * q - n * p
    BY <1>1, <1>2, <1>3
  <2>2. n * q - n * p = n * (q - p)
    BY <1>1, <1>2
  <2>3. q - p \in Int /\ 0 < y - x /\ n * (q - p) = y - x
    BY <1>1, <1>2, <2>1, <2>2
  <2> QED
    BY <2>3, NoMultipleBetween
<1> QED
  BY <1>3

(***************************************************************************)
(* Indices: below IndexModulus, and at most Capacity added to them.        *)
(***************************************************************************)
Indices == 0 .. IndexModulus - 1

(* What RingAssumption says of the sizes, in one place.                    *)
LEMMA Constants ==
    /\ Capacity \in Nat /\ Capacity > 0
    /\ IndexModulus \in Nat /\ IndexModulus > Capacity
    /\ IndexModulus % Capacity = 0
    /\ DropModulus \in Nat /\ DropModulus > 0
  BY RingAssumption

(* Adding to an index wraps at most once.                                  *)
LEMMA AddIndex ==
    ASSUME NEW a \in Indices, NEW n \in 0 .. Capacity
    PROVE  /\ (a + n) % IndexModulus \in Indices
           /\ a + n < IndexModulus => (a + n) % IndexModulus = a + n
           /\ a + n >= IndexModulus => (a + n) % IndexModulus = a + n - IndexModulus
<1> USE Constants
<1> DEFINE M == IndexModulus
           x == a + n
<1>1. /\ M \in Nat /\ M > 0 /\ x \in Nat /\ x < 2 * M
  BY DEF Indices
<1> HIDE DEF M, x
<1>2. x < M => x % M = x
  <2>1. ASSUME x < M PROVE M * 0 + x = x /\ 0 \in Int
    BY <1>1, <2>1
  <2> QED
    BY <1>1, <2>1, RemainderUnique
<1>3. x >= M => x % M = x - M
  <2>1. ASSUME x >= M PROVE M * 1 + (x - M) = x /\ x - M \in Int /\ 0 <= x - M /\ x - M < M
    BY <1>1, <2>1
  <2> QED
    BY <1>1, <2>1, RemainderUnique
<1>4. x % M \in 0 .. M - 1
  BY <1>1, Division
<1> QED
  BY <1>2, <1>3, <1>4 DEF M, x, Indices

(* The distance of two indices is what has to be added to the second.      *)
LEMMA DistanceOf ==
    ASSUME NEW a \in Indices, NEW b \in Indices
    PROVE  /\ Distance(a, b) \in Indices
           /\ a >= b => Distance(a, b) = a - b
           /\ a < b => Distance(a, b) = a - b + IndexModulus
<1> USE Constants
<1> DEFINE M == IndexModulus
           x == a - b
<1>1. /\ M \in Nat /\ M > 0 /\ x \in Int /\ - M < x /\ x < M
      /\ (a >= b) <=> (x >= 0)
  BY DEF Indices
<1>0. Distance(a, b) = x % M
  BY DEF Distance
<1> HIDE DEF M, x
<1>2. x >= 0 => x % M = x
  <2>1. ASSUME x >= 0 PROVE M * 0 + x = x
    BY <1>1, <2>1
  <2> QED
    BY <1>1, <2>1, RemainderUnique
<1>3. x < 0 => x % M = x + M
  <2>1. ASSUME x < 0 PROVE /\ M * (-1) + (x + M) = x /\ -1 \in Int
                           /\ x + M \in Int /\ 0 <= x + M /\ x + M < M
    BY <1>1, <2>1
  <2> QED
    BY <1>1, <2>1, RemainderUnique
<1>4. x % M \in 0 .. M - 1
  BY <1>1, Division
<1>5. a < b => x < 0
  BY DEF x, Indices
<1>6. a >= b => x >= 0
  BY DEF x, Indices
<1> QED
  BY <1>0, <1>2, <1>3, <1>4, <1>5, <1>6 DEF M, x, Indices
(* The writer moves ahead of the reader by what it has written ...         *)
LEMMA DistanceGrows ==
    ASSUME NEW a \in Indices, NEW b \in Indices, NEW n \in 0 .. Capacity,
           Distance(a, b) + n <= Capacity
    PROVE  Distance((a + n) % IndexModulus, b) = Distance(a, b) + n
<1> DEFINE c == (a + n) % IndexModulus
<1>1. c \in Indices /\ (c = a + n \/ c = a + n - IndexModulus)
  <2>1. /\ c \in Indices
        /\ a + n < IndexModulus => c = a + n
        /\ a + n >= IndexModulus => c = a + n - IndexModulus
    BY AddIndex
  <2>2. a + n \in Nat /\ IndexModulus \in Nat
    BY Constants DEF Indices
  <2> QED
    BY <2>1, <2>2
<1> HIDE DEF c
<1>2. /\ a >= b => Distance(a, b) = a - b
      /\ a < b => Distance(a, b) = a - b + IndexModulus
      /\ c >= b => Distance(c, b) = c - b
      /\ c < b => Distance(c, b) = c - b + IndexModulus
  BY <1>1, DistanceOf
<1>3. Distance(c, b) = Distance(a, b) + n
  BY <1>1, <1>2, Constants DEF Indices
<1> QED
  BY <1>3 DEF c

(* ... and the reader follows by what it has read.                         *)
LEMMA DistanceShrinks ==
    ASSUME NEW a \in Indices, NEW b \in Indices, NEW n \in 0 .. Capacity,
           n <= Distance(a, b)
    PROVE  Distance(a, (b + n) % IndexModulus) = Distance(a, b) - n
<1> DEFINE c == (b + n) % IndexModulus
<1>1. c \in Indices /\ (c = b + n \/ c = b + n - IndexModulus)
  <2>1. /\ c \in Indices
        /\ b + n < IndexModulus => c = b + n
        /\ b + n >= IndexModulus => c = b + n - IndexModulus
    BY AddIndex
  <2>2. b + n \in Nat /\ IndexModulus \in Nat
    BY Constants DEF Indices
  <2> QED
    BY <2>1, <2>2
<1> HIDE DEF c
<1>2. /\ a >= b => Distance(a, b) = a - b
      /\ a < b => Distance(a, b) = a - b + IndexModulus
      /\ a >= c => Distance(a, c) = a - c
      /\ a < c => Distance(a, c) = a - c + IndexModulus
  BY <1>1, DistanceOf
<1>3. Distance(a, c) = Distance(a, b) - n
  BY <1>1, <1>2, Constants DEF Indices
<1> QED
  BY <1>3 DEF c

(* A slot the writer may fill is none of those the reader may read.        *)
LEMMA SlotsApart ==
    ASSUME NEW w \in Indices, NEW r \in Indices, NEW c \in Nat, NEW i \in Nat,
           i < Distance(w, r), Distance(w, r) + c < Capacity
    PROVE  Slot(w + c) # Slot(r + i)
<1> DEFINE d == Distance(w, r)
           x == r + i
           y == r + d + c
<1>1. d \in Indices /\ (w >= r => d = w - r) /\ (w < r => d = w - r + IndexModulus)
  BY DistanceOf
<1>2. i < d /\ d + c < Capacity
  OBVIOUS
<1>3. w \in Nat /\ r \in Nat /\ d \in Nat
  BY <1>1 DEF Indices
<1> HIDE DEF d
<1>4. x \in Nat /\ y \in Nat /\ x < y /\ y - x < Capacity
  BY <1>2, <1>3, Constants
<1>5. w + c = y \/ w + c = y - IndexModulus
  BY <1>1, <1>3, Constants
<1> HIDE DEF x, y
<1>6. y % Capacity # x % Capacity
  BY <1>4, Constants, RemaindersApart
<1>7. (y - IndexModulus) % Capacity = y % Capacity
  <2>1. y \in Int
    BY <1>4
  <2> QED
    BY <2>1, Constants, RemainderOfMultiple
<1>8. Slot(w + c) = y % Capacity
  BY <1>5, <1>7 DEF Slot
<1> QED
  BY <1>6, <1>8 DEF Slot, x

(* Indices lead to slots of the array.                                     *)
LEMMA SlotInArray ==
    ASSUME NEW x \in Nat
    PROVE  Slot(x) \in 0 .. Capacity - 1
  BY Constants, Division DEF Slot

-----------------------------------------------------------------------------
(***************************************************************************)
(* The invariant.                                                          *)
(***************************************************************************)

\* The chunk being written has room, whatever is read meanwhile.
RoomInv ==
    /\ ~ Clearing => available <= Capacity
    /\ Clearing => writing = <<>> /\ m_write_idx = 0
    /\ writing # <<>> => Len(writing) <= Capacity - available

\* What a read has to copy is still in its slots, and what it has copied is the
\* beginning of that.
CopyInv ==
    /\ r_step # "copy_released"
    /\ r_step = "copy" =>
         /\ m_read_idx = r_from /\ r_n <= available
         /\ expected = Stored(r_from, r_n)
         /\ r_out = Stored(r_from, Len(r_out))

RingInv == TypeOK /\ RoomInv /\ CopyInv

(* The sequence a read has copied grows by the byte in the next slot.      *)
LEMMA StoredGrows ==
    ASSUME TypeOK, NEW from \in Indices, NEW n \in Nat
    PROVE  /\ Stored(from, n) \in Seq(Bytes) /\ Len(Stored(from, n)) = n
           /\ m_buf[Slot(from + n)] \in Bytes
           /\ Append(Stored(from, n), m_buf[Slot(from + n)]) = Stored(from, n + 1)
<1>1. \A i \in 1 .. n + 1 : m_buf[Slot(from + i - 1)] \in Bytes
  <2> TAKE i \in 1 .. n + 1
  <2>1. from + i - 1 \in Nat
    BY DEF Indices
  <2> QED
    BY <2>1, SlotInArray DEF TypeOK
<1>2. m_buf[Slot(from + n)] \in Bytes
  <2>1. from + n \in Nat
    BY DEF Indices
  <2> QED
    BY <2>1, SlotInArray DEF TypeOK
<1>3. Stored(from, n) \in Seq(Bytes) /\ Len(Stored(from, n)) = n
  <2> DEFINE f == Stored(from, n)
  <2>1. f \in [1 .. n -> Bytes]
    BY <1>1 DEF Stored
  <2> QED
    BY <2>1 DEF Stored
<1>4. Append(Stored(from, n), m_buf[Slot(from + n)]) = Stored(from, n + 1)
  <2> DEFINE f == Stored(from, n)
             b == m_buf[Slot(from + n)]
             g == Stored(from, n + 1)
  <2>1. g = [i \in 1 .. n + 1 |-> m_buf[Slot(from + i - 1)]]
    BY DEF Stored
  <2>2. f = [i \in 1 .. n |-> m_buf[Slot(from + i - 1)]]
    BY DEF Stored
  <2>3. Append(f, b) = [i \in 1 .. n + 1 |-> IF i = n + 1 THEN b ELSE f[i]]
    BY <1>3
  <2>4. \A i \in 1 .. n + 1 : (IF i = n + 1 THEN b ELSE f[i]) = g[i]
    <3> TAKE i \in 1 .. n + 1
    <3>1. CASE i = n + 1
      <4>1. from + i - 1 = from + n
        BY <3>1 DEF Indices
      <4> QED
        BY <2>1, <3>1, <4>1
    <3>2. CASE i # n + 1
      BY <2>1, <2>2, <3>2
    <3> QED
      BY <3>1, <3>2
  <2> HIDE DEF f, b
  <2>5. Append(f, b) = [i \in 1 .. n + 1 |-> g[i]]
    BY <2>3, <2>4
  <2>6. g = [i \in 1 .. n + 1 |-> g[i]]
    BY <2>1
  <2> QED
    BY <2>5, <2>6 DEF f, b
<1> QED
  BY <1>2, <1>3, <1>4

(* The empty ring satisfies the invariant.                                 *)
LEMMA RingInit == ProgramOrder /\ Init => RingInv
<1> SUFFICES ASSUME Init PROVE RingInv
  OBVIOUS
<1>1. TypeOK
  <2>1. m_buf \in [0 .. Capacity - 1 -> Bytes]
    BY RingAssumption DEF Init
  <2>2. <<>> \in Seq(Bytes) /\ Len(<<>>) = 0
    OBVIOUS
  <2>3. 0 \in 0 .. IndexModulus - 1 /\ 0 \in 0 .. DropModulus - 1 /\ 0 \in 0 .. Capacity
    BY Constants
  <2> QED
    BY <2>1, <2>2, <2>3 DEF Init, TypeOK
<1>2. available = 0
  <2>1. 0 \in Indices
    BY Constants DEF Indices
  <2> QED
    BY <2>1, DistanceOf DEF Init, available
<1> QED
  BY <1>1, <1>2, Constants DEF Init, RingInv, RoomInv, CopyInv, Clearing
-----------------------------------------------------------------------------
(***************************************************************************)
(* One lemma per step.                                                     *)
(***************************************************************************)

(* Both indices, and the distance between them, are in range.              *)
LEMMA Indexes ==
    ASSUME TypeOK
    PROVE  /\ m_write_idx \in Indices /\ m_read_idx \in Indices
           /\ available \in Nat
<1>1. m_write_idx \in Indices /\ m_read_idx \in Indices
  BY DEF TypeOK, Indices
<1>2. available \in Indices
  BY <1>1, DistanceOf DEF available
<1> QED
  BY <1>1, <1>2 DEF Indices

(* A write without room only counts.                                       *)
LEMMA WriteDroppedInv ==
    ASSUME RingInv, NEW chunk \in Chunks, WriteDropped(chunk)
    PROVE  RingInv'
<1>1. UNCHANGED <<m_buf, m_write_idx, m_read_idx, write_vars, read_vars>>
  BY DEF WriteDropped
<1>2. m_drop_count' \in 0 .. DropModulus - 1
  <2>1. m_drop_count + 1 \in Int
    BY Constants DEF RingInv, TypeOK
  <2>2. m_drop_count' = (m_drop_count + 1) % DropModulus
    BY DEF WriteDropped
  <2> QED
    BY <2>1, <2>2, Constants, Division
<1>3. TypeOK'
  BY <1>1, <1>2 DEF RingInv, TypeOK, write_vars, read_vars
<1>4. UNCHANGED <<available, Clearing>>
  BY <1>1 DEF available, Clearing, read_vars
<1>5. RoomInv' /\ CopyInv'
  BY <1>1, <1>4 DEF RingInv, RoomInv, CopyInv, Stored, write_vars, read_vars
<1> QED
  BY <1>3, <1>5 DEF RingInv

(* A write begins with all its room free and nothing copied.               *)
LEMMA WriteStartInv ==
    ASSUME RingInv, NEW chunk \in Chunks, WriteStart(chunk)
    PROVE  RingInv'
<1>1. /\ UNCHANGED <<m_buf, m_write_idx, m_drop_count, m_read_idx, w_copied, read_vars>>
      /\ writing = <<>> /\ writing' = chunk /\ HasRoom(Len(chunk)) /\ ~ Clearing
  BY DEF WriteStart, Idle, Clearing
<1>2. w_copied' \in 0 .. Len(writing')
  <2>1. w_copied = 0
    BY <1>1 DEF RingInv, TypeOK
  <2>2. Len(chunk) \in Nat
    BY RingAssumption
  <2> QED
    BY <1>1, <2>1, <2>2
<1>3. TypeOK'
  BY <1>1, <1>2 DEF RingInv, TypeOK, read_vars
<1>4. UNCHANGED <<available, Clearing>>
  BY <1>1 DEF available, Clearing, read_vars
<1>5. RoomInv'
  BY <1>1, <1>4 DEF RingInv, RoomInv, HasRoom
<1>6. CopyInv'
  BY <1>1, <1>4 DEF RingInv, CopyInv, Stored, read_vars
<1> QED
  BY <1>3, <1>5, <1>6 DEF RingInv

(* The heart of the matter: the slot that is written is not one that the   *)
(* read in progress covers.                                                *)
LEMMA WriteByteInv ==
    ASSUME RingInv, WriteByte
    PROVE  RingInv'
<1> DEFINE slot == Slot(m_write_idx + w_copied)
           byte == writing[w_copied + 1]
<1>1. /\ UNCHANGED <<m_write_idx, m_drop_count, m_read_idx, writing, read_vars>>
      /\ w_copied < Len(writing) /\ w_copied' = w_copied + 1
      /\ m_buf' = [m_buf EXCEPT ![slot] = byte]
  BY DEF WriteByte
<1>2. /\ writing \in Seq(Bytes) /\ w_copied \in Nat /\ Len(writing) \in Nat
      /\ writing # <<>>
  BY <1>1, RingAssumption DEF RingInv, TypeOK
<1>3. byte \in Bytes /\ w_copied + 1 \in 0 .. Len(writing)
  BY <1>1, <1>2
<1>4. m_buf' \in [0 .. Capacity - 1 -> Bytes]
  <2> HIDE DEF slot, byte
  <2> QED
    BY <1>1, <1>3 DEF RingInv, TypeOK
<1>5. TypeOK'
  BY <1>1, <1>3, <1>4 DEF RingInv, TypeOK, read_vars
<1>6. UNCHANGED <<available, Clearing>>
  BY <1>1 DEF available, Clearing, read_vars
<1>7. RoomInv'
  BY <1>1, <1>6 DEF RingInv, RoomInv
<1>8. ASSUME r_step = "copy", NEW n \in Nat, n <= r_n
      PROVE  Stored(r_from, n)' = Stored(r_from, n)
  <2>1. /\ m_read_idx = r_from /\ r_n <= available /\ r_n \in Nat
        /\ Len(writing) <= Capacity - available
    BY <1>2, <1>8 DEF RingInv, RoomInv, CopyInv, TypeOK
  <2>2. /\ m_write_idx \in Indices /\ r_from \in Indices /\ available \in Nat
        /\ available = Distance(m_write_idx, r_from)
    BY <2>1, Indexes DEF RingInv, available
  <2>3. ASSUME NEW i \in 1 .. n PROVE m_buf'[Slot(r_from + i - 1)] = m_buf[Slot(r_from + i - 1)]
    <3>1. /\ i - 1 \in Nat /\ i - 1 < available /\ available + w_copied < Capacity
          /\ r_from + i - 1 = r_from + (i - 1)
      BY <1>1, <1>2, <1>8, <2>1, <2>2, Constants DEF Indices
    <3>2. slot # Slot(r_from + (i - 1))
      BY <1>2, <2>2, <3>1, SlotsApart
    <3> HIDE DEF slot, byte
    <3> QED
      BY <1>1, <3>1, <3>2 DEF RingInv, TypeOK
  <2>4. r_from' = r_from
    BY <1>1 DEF read_vars
  <2> HIDE DEF slot, byte
  <2> QED
    BY <2>3, <2>4 DEF Stored
<1>9. CopyInv'
  <2>1. /\ r_step # "copy_released"
        /\ UNCHANGED <<m_read_idx, available, r_step, r_from, r_n, r_out, expected>>
    BY <1>1, <1>6 DEF RingInv, CopyInv, read_vars
  <2>2. ASSUME r_step = "copy"
        PROVE  expected = Stored(r_from, r_n)' /\ r_out = Stored(r_from, Len(r_out))'
    <3>1. r_n \in Nat /\ Len(r_out) \in Nat /\ Len(r_out) <= r_n
      BY Constants DEF RingInv, TypeOK
    <3>2. expected = Stored(r_from, r_n) /\ r_out = Stored(r_from, Len(r_out))
      BY <2>2 DEF RingInv, CopyInv
    <3>3. /\ Stored(r_from, r_n)' = Stored(r_from, r_n)
          /\ Stored(r_from, Len(r_out))' = Stored(r_from, Len(r_out))
      <4> DEFINE len == Len(r_out)
      <4>1. r_n <= r_n /\ len \in Nat /\ len <= r_n
        BY <3>1
      <4>2. len' = len /\ r_n' = r_n /\ r_from' = r_from
        BY <2>1
      <4> QED
        BY <1>8, <2>2, <3>1, <4>1, <4>2 DEF Stored
    <3> QED
      BY <3>2, <3>3
  <2>3. r_step' = "copy" => /\ m_read_idx' = r_from' /\ r_n' <= available'
    BY <2>1 DEF RingInv, CopyInv
  <2> QED
    BY <2>1, <2>2, <2>3 DEF CopyInv, Stored
<1> QED
  BY <1>5, <1>7, <1>9 DEF RingInv

(* Publishing makes the copied slots readable: available grows by them.    *)
LEMMA WritePublishInv ==
    ASSUME RingInv, WritePublish
    PROVE  RingInv'
<1>1. /\ UNCHANGED <<m_buf, m_drop_count, m_read_idx, read_vars>>
      /\ writing # <<>> /\ writing' = <<>> /\ w_copied' = 0
      /\ m_write_idx' = (m_write_idx + Len(writing)) % IndexModulus
  BY DEF WritePublish
<1>2. /\ m_write_idx \in Indices /\ m_read_idx \in Indices /\ available \in Nat
      /\ Len(writing) \in Nat /\ Len(writing) <= Capacity - available
  BY <1>1, Indexes, RingAssumption DEF RingInv, RoomInv, TypeOK
<1>3. Len(writing) \in 0 .. Capacity
  BY <1>2, Constants
<1>4. m_write_idx' \in Indices
  BY <1>1, <1>2, <1>3, AddIndex
<1>5. available' = available + Len(writing)
  <2>1. Distance(m_write_idx, m_read_idx) + Len(writing) <= Capacity
    BY <1>2, Constants DEF available
  <2>2. Distance((m_write_idx + Len(writing)) % IndexModulus, m_read_idx)
          = Distance(m_write_idx, m_read_idx) + Len(writing)
    BY <1>2, <1>3, <2>1, DistanceGrows
  <2> QED
    BY <1>1, <2>2 DEF available
<1>6. TypeOK'
  <2>1. Len(<<>>) = 0 /\ 0 \in 0 .. 0
    OBVIOUS
  <2> QED
    BY <1>1, <1>4, <2>1 DEF RingInv, TypeOK, read_vars, Indices
<1>7. ~ Clearing /\ ~ Clearing'
  BY <1>1 DEF RingInv, RoomInv, Clearing, read_vars
<1>8. RoomInv'
  BY <1>1, <1>2, <1>5, <1>7, Constants DEF RoomInv
<1>9. CopyInv'
  <2>1. r_step = "copy" => r_n <= available'
    BY <1>2, <1>5, Constants DEF RingInv, CopyInv, TypeOK
  <2> QED
    BY <1>1, <2>1 DEF RingInv, CopyInv, Stored, read_vars
<1> QED
  BY <1>6, <1>8, <1>9 DEF RingInv

(* A read fixes its length from the index it loaded; a write may only add  *)
(* to that.                                                                *)
LEMMA ReadStartInv ==
    ASSUME ProgramOrder, RingInv, NEW max \in ReadSizes, ReadStart(max)
    PROVE  RingInv'
<1>1. /\ UNCHANGED <<m_buf, m_write_idx, m_drop_count, m_read_idx, write_vars, delivered>>
      /\ r_step = "idle" /\ r_step' = "copy" /\ available > 0
      /\ r_from' = m_read_idx /\ r_n' = ReadLength(max) /\ r_out' = <<>>
      /\ expected' = Stored(m_read_idx, r_n')
  BY DEF ReadStart, ProgramOrder
<1>2. ~ Clearing /\ ~ Clearing' /\ available' = available
  BY <1>1 DEF Clearing, available
<1>3. /\ m_read_idx \in Indices /\ available \in Nat /\ available <= Capacity
      /\ max \in Nat
  BY <1>2, Indexes, RingAssumption DEF RingInv, RoomInv
<1>4. r_n' \in Nat /\ r_n' <= available /\ r_n' \in 0 .. Capacity
  BY <1>1, <1>3, Constants DEF ReadLength
<1>5. expected' \in Seq(Bytes)
  BY <1>1, <1>3, <1>4, StoredGrows DEF RingInv
<1>6. TypeOK'
  <2>1. <<>> \in Seq(Bytes) /\ Len(<<>>) = 0
    OBVIOUS
  <2> QED
    BY <1>1, <1>3, <1>4, <1>5, <2>1 DEF RingInv, TypeOK, write_vars, Indices
<1>7. RoomInv'
  BY <1>1, <1>2 DEF RingInv, RoomInv, write_vars
<1>8. CopyInv'
  <2>1. Stored(m_read_idx, 0) = <<>> /\ Len(<<>>) = 0
    BY DEF Stored
  <2>2. expected' = Stored(r_from, r_n)'
    BY <1>1 DEF Stored
  <2>3. r_out' = Stored(r_from, Len(r_out))'
    BY <1>1, <2>1 DEF Stored
  <2> QED
    BY <1>1, <1>2, <1>4, <2>2, <2>3 DEF CopyInv
<1> QED
  BY <1>6, <1>7, <1>8 DEF RingInv

(* A byte copied out is the one expected: the writer keeps off the unread  *)
(* slots.                                                                  *)
LEMMA ReadByteInv ==
    ASSUME RingInv, ReadByte
    PROVE  RingInv'
<1> DEFINE n == Len(r_out)
<1>1. /\ UNCHANGED <<m_buf, m_write_idx, m_drop_count, m_read_idx, write_vars,
                     r_step, r_from, r_n, expected, delivered>>
      /\ r_step = "copy" /\ n < r_n
      /\ r_out' = Append(r_out, m_buf[Slot(r_from + n)])
  BY DEF ReadByte, RingInv, CopyInv
<1>2. r_out \in Seq(Bytes) /\ n \in Nat /\ r_n \in Nat /\ r_from \in Indices
  BY Constants DEF RingInv, TypeOK, Indices
<1>3. r_out = Stored(r_from, n)
  BY <1>1 DEF RingInv, CopyInv
<1>4. /\ m_buf[Slot(r_from + n)] \in Bytes
      /\ r_out' = Stored(r_from, n + 1)
  <2>1. /\ m_buf[Slot(r_from + n)] \in Bytes
        /\ Append(Stored(r_from, n), m_buf[Slot(r_from + n)]) = Stored(r_from, n + 1)
    BY <1>2, StoredGrows DEF RingInv
  <2> QED
    BY <1>1, <1>3, <2>1
<1>5. r_out' \in Seq(Bytes) /\ Len(r_out') = n + 1
  <2>1. \A b \in Bytes : Append(r_out, b) \in Seq(Bytes) /\ Len(Append(r_out, b)) = n + 1
    BY <1>2
  <2> QED
    BY <1>1, <1>4, <2>1
<1> HIDE DEF n
<1>6. TypeOK'
  <2>1. Len(r_out') <= r_n
    BY <1>1, <1>2, <1>5
  <2> QED
    BY <1>1, <1>5, <2>1 DEF RingInv, TypeOK, write_vars
<1>7. UNCHANGED <<available, Clearing>>
  BY <1>1 DEF available, Clearing
<1>8. RoomInv'
  BY <1>1, <1>7 DEF RingInv, RoomInv, write_vars
<1>9. CopyInv'
  <2>1. r_out' = Stored(r_from, Len(r_out))'
    BY <1>1, <1>4, <1>5 DEF Stored
  <2>2. expected' = Stored(r_from, r_n)'
    BY <1>1 DEF RingInv, CopyInv, Stored
  <2> QED
    BY <1>1, <1>7, <2>1, <2>2 DEF RingInv, CopyInv
<1> QED
  BY <1>6, <1>8, <1>9 DEF RingInv

(* What has been read makes room for writes, and for nothing else.         *)
LEMMA ReadDoneInv ==
    ASSUME RingInv, ReadDone
    PROVE  RingInv'
<1>1. /\ UNCHANGED <<m_buf, m_write_idx, m_drop_count, write_vars,
                     r_from, r_n, r_out, expected>>
      /\ r_step = "copy" /\ r_step' = "idle" /\ delivered' = r_out
      /\ m_read_idx' = (m_read_idx + r_n) % IndexModulus
  BY DEF ReadDone, NextReadIdx, RingInv, CopyInv
<1>2. /\ m_write_idx \in Indices /\ m_read_idx \in Indices /\ available \in Nat
      /\ r_n \in 0 .. Capacity /\ r_n <= available
  BY <1>1, Indexes DEF RingInv, CopyInv, TypeOK
<1>3. m_read_idx' \in Indices
  BY <1>1, <1>2, AddIndex
<1>4. available' = available - r_n
  <2>1. Distance(m_write_idx, (m_read_idx + r_n) % IndexModulus)
          = Distance(m_write_idx, m_read_idx) - r_n
    BY <1>2, DistanceShrinks DEF available
  <2> QED
    BY <1>1, <2>1 DEF available
<1>5. TypeOK'
  BY <1>1, <1>3 DEF RingInv, TypeOK, write_vars, Indices
<1>6. RoomInv'
  <2>1. ~ Clearing /\ ~ Clearing'
    BY <1>1 DEF Clearing
  <2>2. available <= Capacity /\ (writing # <<>> => Len(writing) <= Capacity - available)
    BY <2>1 DEF RingInv, RoomInv
  <2>3. writing # <<>> => Len(writing) \in Nat
    BY RingAssumption DEF RingInv, TypeOK
  <2>4. available' <= Capacity /\ (writing # <<>> => Len(writing) <= Capacity - available')
    BY <1>2, <1>4, <2>2, <2>3, Constants
  <2> QED
    BY <1>1, <2>1, <2>4 DEF RoomInv, write_vars
<1>7. CopyInv'
  BY <1>1 DEF CopyInv
<1> QED
  BY <1>5, <1>6, <1>7 DEF RingInv

(* The stores of clear, with no write in between.                          *)
LEMMA ClearInv ==
    ASSUME RingInv, clear
    PROVE  RingInv'
<1> DEFINE zero == 0 \in 0 .. IndexModulus - 1 /\ 0 \in 0 .. DropModulus - 1
<1>0. zero
  BY Constants
<1> HIDE DEF zero
<1>1. CASE ClearWriteIdx
  <2>1. TypeOK'
    BY <1>0, <1>1 DEF ClearWriteIdx, RingInv, TypeOK, write_vars, zero
  <2>2. RoomInv' /\ CopyInv'
    BY <1>1 DEF ClearWriteIdx, RoomInv, CopyInv, Clearing, write_vars
  <2> QED
    BY <2>1, <2>2 DEF RingInv
<1>2. CASE ClearDropCount
  <2>1. TypeOK'
    BY <1>0, <1>2 DEF ClearDropCount, RingInv, TypeOK, write_vars, zero
  <2>2. RoomInv' /\ CopyInv'
    BY <1>2 DEF ClearDropCount, RingInv, RoomInv, CopyInv, Clearing, write_vars
  <2> QED
    BY <2>1, <2>2 DEF RingInv
<1>3. CASE ClearReadIdx
  <2>1. TypeOK'
    BY <1>0, <1>3 DEF ClearReadIdx, RingInv, TypeOK, write_vars, zero
  <2>2. /\ m_write_idx = 0 /\ m_write_idx' = 0 /\ m_read_idx' = 0
        /\ writing = <<>> /\ writing' = <<>> /\ r_step' = "idle"
    BY <1>3 DEF ClearReadIdx, RingInv, RoomInv, Clearing, write_vars
  <2>3. available' = 0
    <3>1. 0 \in Indices
      BY Constants DEF Indices
    <3>2. Distance(0, 0) = 0
      BY <3>1, DistanceOf
    <3> QED
      BY <2>2, <3>2 DEF available
  <2>4. RoomInv' /\ CopyInv'
    BY <2>2, <2>3, Constants DEF RoomInv, CopyInv, Clearing
  <2> QED
    BY <2>1, <2>4 DEF RingInv
<1> QED
  BY <1>1, <1>2, <1>3 DEF clear

(* Every action preserves the invariant.                                   *)
LEMMA RingStep == ProgramOrder /\ RingInv /\ [Next]_vars => RingInv'
<1> SUFFICES ASSUME ProgramOrder, RingInv, [Next]_vars PROVE RingInv'
  OBVIOUS
<1>1. CASE write
  BY <1>1, WriteDroppedInv, WriteStartInv DEF write
<1>2. CASE WriteByte
  BY <1>2, WriteByteInv
<1>3. CASE WritePublish
  BY <1>3, WritePublishInv
<1>4. CASE read
  BY <1>4, ReadStartInv DEF read
<1>5. CASE ReadByte
  BY <1>5, ReadByteInv
<1>6. CASE ReadDone
  BY <1>6, ReadDoneInv
<1>7. CASE clear
  BY <1>7, ClearInv
<1>8. CASE UNCHANGED vars
  BY <1>8 DEF vars, write_vars, read_vars, RingInv, TypeOK, RoomInv, CopyInv,
              Clearing, available, Stored
<1> QED
  BY <1>1, <1>2, <1>3, <1>4, <1>5, <1>6, <1>7, <1>8 DEF Next

-----------------------------------------------------------------------------
(* The invariant of the ring, in program order (ISRRingBuffer.hpp:32-104). *)
THEOREM RingInvariance == ASSUME ProgramOrder PROVE Spec => []RingInv
  BY RingInit, RingStep, PTL DEF Spec

(* Members and locals keep their types: no index leaves its range, no read *)
(* is longer than the ring (ISRRingBuffer.hpp:40-61, 76-96).               *)
THEOREM RingTypeCorrect == ASSUME ProgramOrder PROVE Spec => []TypeOK
<1>1. RingInv => TypeOK
  BY DEF RingInv
<1> QED
  BY <1>1, RingInvariance, PTL

(* A read returns the bytes that were the oldest in the ring when it       *)
(* began, whatever the interrupt writes meanwhile (README.md:14).          *)
THEOREM ReadsIntact == ASSUME ProgramOrder PROVE Spec => []ReadIntact
<1>1. RingInv => ReadIntact
  BY DEF RingInv, CopyInv, ReadIntact
<1> QED
  BY <1>1, RingInvariance, PTL

-----------------------------------------------------------------------------
(***************************************************************************)
(* The ring implements ByteChannel: what the channel holds is what is      *)
(* stored between the two indices.  Only four steps of the ring are steps  *)
(* of the channel (the drop, the store of either index, and the first of   *)
(* clear's); the copying of bytes is invisible to it.                      *)
(***************************************************************************)
Queue == IF Clearing THEN <<>> ELSE Stored(m_read_idx, available)
Dropped == IF Clearing THEN 0 ELSE m_drop_count

\* The bytes copied by write are in their slots when the index is stored.
WrittenInv == \A i \in 1 .. w_copied : m_buf[Slot(m_write_idx + i - 1)] = writing[i]

ChannelInv ==
    /\ WrittenInv
    /\ r_step = "copy" => r_n > 0
    /\ r_step = "clear_read" => m_drop_count = 0

(* The index behind the last stored byte leads to the slot written next.   *)
LEMMA SlotBehind ==
    ASSUME NEW w \in Indices, NEW r \in Indices, NEW c \in Nat
    PROVE  Slot(r + Distance(w, r) + c) = Slot(w + c)
<1> DEFINE d == Distance(w, r)
           y == r + d + c
<1>1. d \in Indices /\ (w >= r => d = w - r) /\ (w < r => d = w - r + IndexModulus)
  BY DistanceOf
<1>2. w \in Nat /\ r \in Nat /\ d \in Nat
  BY <1>1 DEF Indices
<1> HIDE DEF d
<1>3. y \in Int /\ (w + c = y \/ w + c = y - IndexModulus)
  BY <1>1, <1>2, Constants
<1> HIDE DEF y
<1>4. (y - IndexModulus) % Capacity = y % Capacity
  BY <1>3, Constants, RemainderOfMultiple
<1>5. Slot(y) = Slot(w + c)
  BY <1>3, <1>4 DEF Slot
<1> QED
  BY <1>5 DEF y, d

(* Adding to an index modulo IndexModulus leads to the same slots.         *)
LEMMA SlotAfterWrap ==
    ASSUME NEW r \in Indices, NEW n \in 0 .. Capacity, NEW i \in Nat
    PROVE  Slot(((r + n) % IndexModulus) + i) = Slot(r + n + i)
<1> DEFINE s == (r + n) % IndexModulus
           y == r + n + i
<1>1. /\ s \in Indices
      /\ r + n < IndexModulus => s = r + n
      /\ r + n >= IndexModulus => s = r + n - IndexModulus
  BY AddIndex
<1>2. r + n \in Nat /\ IndexModulus \in Nat /\ s \in Nat
  BY <1>1, Constants DEF Indices
<1> HIDE DEF s
<1>3. y \in Int /\ (s + i = y \/ s + i = y - IndexModulus)
  BY <1>1, <1>2
<1> HIDE DEF y
<1>4. (y - IndexModulus) % Capacity = y % Capacity
  BY <1>3, Constants, RemainderOfMultiple
<1>5. Slot(s + i) = Slot(y)
  BY <1>3, <1>4 DEF Slot
<1> QED
  BY <1>5 DEF s, y

(* The stored bytes, as a sequence.                                        *)
LEMMA StoredIs ==
    ASSUME TypeOK, NEW from \in Indices, NEW n \in Nat
    PROVE  /\ Stored(from, n) \in Seq(Bytes) /\ Len(Stored(from, n)) = n
           /\ \A i \in 1 .. n : Stored(from, n)[i] = m_buf[Slot(from + i - 1)]
  BY StoredGrows DEF Stored

(* Copying a byte of the chunk changes nothing that is stored.             *)
LEMMA WriteByteStutters ==
    ASSUME RingInv, WrittenInv, WriteByte
    PROVE  Queue' = Queue /\ WrittenInv'
<1> DEFINE slot == Slot(m_write_idx + w_copied)
           byte == writing[w_copied + 1]
<1>1. /\ UNCHANGED <<m_write_idx, m_drop_count, m_read_idx, writing, read_vars>>
      /\ w_copied < Len(writing) /\ w_copied' = w_copied + 1
      /\ m_buf' = [m_buf EXCEPT ![slot] = byte]
  BY DEF WriteByte
<1>2. /\ writing \in Seq(Bytes) /\ w_copied \in Nat /\ Len(writing) \in Nat
      /\ writing # <<>>
  BY <1>1, RingAssumption DEF RingInv, TypeOK
<1>3. /\ m_write_idx \in Indices /\ m_read_idx \in Indices /\ available \in Nat
      /\ available = Distance(m_write_idx, m_read_idx)
      /\ Len(writing) <= Capacity - available
  BY <1>2, Indexes DEF RingInv, RoomInv, available
<1>4. UNCHANGED <<available, Clearing>>
  BY <1>1 DEF available, Clearing, read_vars
<1>5. Stored(m_read_idx, available)' = Stored(m_read_idx, available)
  <2>1. ASSUME NEW i \in 1 .. available
        PROVE  m_buf'[Slot(m_read_idx + i - 1)] = m_buf[Slot(m_read_idx + i - 1)]
    <3>1. /\ i - 1 \in Nat /\ i - 1 < available /\ available + w_copied < Capacity
          /\ m_read_idx + i - 1 = m_read_idx + (i - 1)
      BY <1>1, <1>2, <1>3, Constants DEF Indices
    <3>2. slot # Slot(m_read_idx + (i - 1))
      BY <1>2, <1>3, <3>1, SlotsApart
    <3> HIDE DEF slot, byte
    <3> QED
      BY <1>1, <3>1, <3>2 DEF RingInv, TypeOK
  <2>2. m_read_idx' = m_read_idx /\ available' = available
    BY <1>1, <1>4
  <2> HIDE DEF slot, byte
  <2> QED
    BY <2>1, <2>2 DEF Stored
<1>6. WrittenInv'
  <2>1. ASSUME NEW i \in 1 .. w_copied + 1
        PROVE  m_buf'[Slot(m_write_idx + i - 1)] = writing[i]
    <3>0. m_write_idx + w_copied \in Nat /\ m_write_idx + i - 1 \in Nat
      BY <1>2, <1>3 DEF Indices
    <3>1. CASE i = w_copied + 1
      <4>1. m_write_idx + i - 1 = m_write_idx + w_copied
        BY <1>2, <3>1, <1>3 DEF Indices
      <4>2. slot \in 0 .. Capacity - 1
        BY <3>0, SlotInArray
      <4>3. Slot(m_write_idx + i - 1) = slot /\ writing[i] = byte
        BY <3>1, <4>1
      <4> HIDE DEF slot, byte
      <4> QED
        BY <1>1, <4>2, <4>3 DEF RingInv, TypeOK
    <3>2. CASE i # w_copied + 1
      <4>1. i \in 1 .. w_copied
        BY <1>2, <3>2
      <4>2. Slot(m_write_idx + i - 1) # slot
        <5> DEFINE x == m_write_idx + i - 1
                   y == m_write_idx + w_copied
        <5>1. x \in Nat /\ y \in Nat /\ x < y /\ y - x < Capacity
          BY <1>1, <1>2, <1>3, <3>0, <4>1, Constants DEF Indices
        <5> HIDE DEF x, y
        <5>2. x % Capacity # y % Capacity
          BY <5>1, Constants, RemaindersApart
        <5> QED
          BY <5>2 DEF x, y, Slot
      <4>3. m_buf[Slot(m_write_idx + i - 1)] = writing[i]
        BY <4>1 DEF WrittenInv
      <4>4. Slot(m_write_idx + i - 1) \in 0 .. Capacity - 1
        BY <3>0, SlotInArray
      <4> HIDE DEF slot, byte
      <4> QED
        BY <1>1, <4>2, <4>3, <4>4 DEF RingInv, TypeOK
    <3> QED
      BY <3>1, <3>2
  <2> HIDE DEF slot, byte
  <2> QED
    BY <1>1, <2>1 DEF WrittenInv
<1> HIDE DEF slot, byte
<1> QED
  BY <1>4, <1>5, <1>6 DEF Queue

(* Storing m_write_idx appends the whole chunk.                            *)
LEMMA PublishAppends ==
    ASSUME RingInv, WrittenInv, WritePublish
    PROVE  /\ writing \in Chunks /\ Len(Queue) + Len(writing) <= Capacity
           /\ Queue' = Queue \o writing
<1> DEFINE len == Len(writing)
           d == available
<1>1. /\ UNCHANGED <<m_buf, m_drop_count, m_read_idx, read_vars>>
      /\ writing # <<>> /\ w_copied = len
      /\ m_write_idx' = (m_write_idx + len) % IndexModulus
  BY DEF WritePublish
<1>2. writing \in Chunks /\ writing \in Seq(Bytes) /\ len \in Nat
  BY <1>1, RingAssumption DEF RingInv, TypeOK
<1>3. /\ m_write_idx \in Indices /\ m_read_idx \in Indices /\ d \in Nat
      /\ d = Distance(m_write_idx, m_read_idx) /\ len <= Capacity - d
  BY <1>1, Indexes DEF RingInv, RoomInv, available
<1>4. ~ Clearing /\ ~ Clearing'
  BY <1>1 DEF RingInv, RoomInv, Clearing, read_vars
<1>5. available' = d + len
  <2>1. len \in 0 .. Capacity /\ d + len <= Capacity
    BY <1>2, <1>3, Constants
  <2>2. Distance((m_write_idx + len) % IndexModulus, m_read_idx) = d + len
    BY <1>3, <2>1, DistanceGrows
  <2> QED
    BY <1>1, <2>2 DEF available
<1>6. Queue = Stored(m_read_idx, d)
  BY <1>4 DEF Queue
<1>7. Queue' = Stored(m_read_idx, d + len)
  BY <1>1, <1>4, <1>5 DEF Queue, Stored
<1> HIDE DEF d
<1>8. TypeOK
  BY DEF RingInv
<1>9. /\ Queue \in Seq(Bytes) /\ Len(Queue) = d
      /\ \A i \in 1 .. d : Queue[i] = m_buf[Slot(m_read_idx + i - 1)]
  BY <1>3, <1>6, <1>8, StoredIs
<1>10. /\ Queue' \in Seq(Bytes) /\ Len(Queue') = d + len
       /\ \A i \in 1 .. d + len : Queue'[i] = m_buf[Slot(m_read_idx + i - 1)]
  <2>1. d + len \in Nat
    BY <1>2, <1>3
  <2> QED
    BY <1>3, <1>7, <1>8, <2>1, StoredIs
<1>11. ASSUME NEW i \in 1 .. d + len
       PROVE  Queue'[i] = (Queue \o writing)[i]
  <2>1. (Queue \o writing)[i] = IF i <= d THEN Queue[i] ELSE writing[i - d]
    BY <1>2, <1>9, ConcatProperties
  <2>2. CASE i <= d
    BY <1>3, <1>9, <1>10, <2>1, <2>2
  <2>3. CASE ~ (i <= d)
    <3>1. i - d \in 1 .. len
      BY <1>2, <1>3, <2>3
    <3>2. m_buf[Slot(m_write_idx + (i - d) - 1)] = writing[i - d]
      BY <1>1, <3>1 DEF WrittenInv
    <3>3. Slot(m_read_idx + d + (i - d - 1)) = Slot(m_write_idx + (i - d - 1))
      <4>1. i - d - 1 \in Nat
        BY <1>3, <3>1
      <4> QED
        BY <1>3, <4>1, SlotBehind
    <3>4. /\ m_read_idx + d + (i - d - 1) = m_read_idx + i - 1
          /\ m_write_idx + (i - d) - 1 = m_write_idx + (i - d - 1)
      BY <1>2, <1>3 DEF Indices
    <3> QED
      BY <1>10, <2>1, <2>3, <3>2, <3>3, <3>4
  <2> QED
    BY <2>2, <2>3
<1>12. Queue \o writing \in Seq(Bytes) /\ Len(Queue \o writing) = d + len
  BY <1>2, <1>9, ConcatProperties
<1>13. Queue' = Queue \o writing
  <2> DEFINE s == Queue'
             t == Queue \o writing
  <2>1. /\ s \in Seq(Bytes) /\ t \in Seq(Bytes) /\ Len(s) = Len(t)
        /\ \A i \in 1 .. Len(s) : s[i] = t[i]
    BY <1>10, <1>11, <1>12
  <2> HIDE DEF s, t
  <2>2. s = t
    BY <2>1, SeqEqual
  <2> QED
    BY <2>2 DEF s, t
<1> QED
  BY <1>2, <1>3, <1>9, <1>13, Constants

(* Storing m_read_idx takes what was read off the queue.                   *)
LEMMA ReadDelivers ==
    ASSUME RingInv, ReadDone
    PROVE  /\ r_n <= Len(Queue) /\ Len(Queue) \in Nat
           /\ delivered' = SubSeq(Queue, 1, r_n)
           /\ Queue' = SubSeq(Queue, r_n + 1, Len(Queue))
<1> DEFINE n == r_n
           d == available
           next == (m_read_idx + n) % IndexModulus
<1>1. /\ UNCHANGED <<m_buf, m_write_idx, m_drop_count, write_vars,
                     r_from, r_n, r_out, expected>>
      /\ r_step = "copy" /\ r_step' = "idle" /\ delivered' = r_out
      /\ Len(r_out) = n /\ m_read_idx' = next
  BY DEF ReadDone, NextReadIdx, RingInv, CopyInv
<1>2. /\ m_write_idx \in Indices /\ m_read_idx \in Indices /\ d \in Nat
      /\ d = Distance(m_write_idx, m_read_idx)
      /\ n \in 0 .. Capacity /\ n <= d /\ m_read_idx = r_from
      /\ r_out = Stored(m_read_idx, n)
  BY <1>1, Indexes DEF RingInv, CopyInv, TypeOK, available
<1>3. ~ Clearing /\ ~ Clearing'
  BY <1>1 DEF Clearing
<1>4. available' = d - n
  <2>1. Distance(m_write_idx, (m_read_idx + n) % IndexModulus) = d - n
    BY <1>2, DistanceShrinks
  <2> QED
    BY <1>1, <2>1 DEF available
<1>5. Queue = Stored(m_read_idx, d)
  BY <1>3 DEF Queue
<1>6. Queue' = Stored(next, d - n)
  BY <1>1, <1>3, <1>4 DEF Queue, Stored
<1>7. next \in Indices
  BY <1>2, AddIndex
<1>8. \A i \in Nat : Slot(next + i) = Slot(m_read_idx + n + i)
  BY <1>2, SlotAfterWrap
<1>9. n \in Nat /\ d - n \in Nat /\ TypeOK
  BY <1>2, Constants DEF RingInv
<1> HIDE DEF d, next
<1>10. /\ Queue \in Seq(Bytes) /\ Len(Queue) = d
       /\ \A i \in 1 .. d : Queue[i] = m_buf[Slot(m_read_idx + i - 1)]
  BY <1>2, <1>5, <1>9, StoredIs
<1>11. /\ Queue' \in Seq(Bytes) /\ Len(Queue') = d - n
       /\ \A i \in 1 .. d - n : Queue'[i] = m_buf[Slot(next + i - 1)]
  BY <1>6, <1>7, <1>9, StoredIs
<1>12. /\ r_out \in Seq(Bytes) /\ Len(r_out) = n
       /\ \A i \in 1 .. n : r_out[i] = m_buf[Slot(m_read_idx + i - 1)]
  BY <1>2, <1>9, StoredIs
<1>13. r_out = SubSeq(Queue, 1, n)
  <2> DEFINE t == SubSeq(Queue, 1, n)
  <2>1. \A i \in 1 .. n : Queue[i] \in Bytes
    BY <1>2, <1>9, <1>10
  <2>2. /\ t \in Seq(Bytes) /\ Len(t) = n
        /\ \A i \in 1 .. n : t[i] = Queue[i]
    BY <1>2, <1>9, <1>10
  <2>3. \A i \in 1 .. n : r_out[i] = t[i]
    BY <1>2, <1>9, <1>10, <1>12, <2>2
  <2> HIDE DEF t
  <2>4. r_out = t
    BY <1>12, <2>2, <2>3, SeqEqual
  <2> QED
    BY <2>4 DEF t
<1>14. Queue' = SubSeq(Queue, n + 1, d)
  <2> DEFINE s == Queue'
             t == SubSeq(Queue, n + 1, d)
  <2>1. \A i \in n + 1 .. d : Queue[i] \in Bytes
    BY <1>2, <1>9, <1>10
  <2>2. /\ t \in Seq(Bytes) /\ Len(t) = d - n
        /\ \A i \in 1 .. d - n : t[i] = Queue[n + i]
    BY <1>2, <1>9, <1>10
  <2>3. ASSUME NEW i \in 1 .. d - n PROVE s[i] = t[i]
    <3>1. /\ i - 1 \in Nat /\ n + i \in 1 .. d
          /\ next + i - 1 = next + (i - 1)
          /\ m_read_idx + (n + i) - 1 = m_read_idx + n + (i - 1)
      BY <1>2, <1>7, <1>9 DEF Indices
    <3>2. Slot(next + (i - 1)) = Slot(m_read_idx + n + (i - 1))
      BY <1>8, <3>1
    <3> QED
      BY <1>10, <1>11, <2>2, <3>1, <3>2
  <2>4. s \in Seq(Bytes) /\ Len(s) = d - n
    BY <1>11
  <2> HIDE DEF s, t
  <2>5. s = t
    BY <2>2, <2>3, <2>4, SeqEqual
  <2> QED
    BY <2>5 DEF s, t
<1> QED
  BY <1>1, <1>2, <1>10, <1>13, <1>14

(* Nothing is being copied at first.                                       *)
LEMMA ChannelInit == Init => ChannelInv
  BY DEF Init, ChannelInv, WrittenInv

(* No action spoils what a write has already copied, or lets a read        *)
(* outgrow the ring.                                                       *)
LEMMA ChannelInvStep ==
    ASSUME ProgramOrder, RingInv, ChannelInv, [Next]_vars
    PROVE  ChannelInv'
<1>1. CASE write
  <2>1. /\ UNCHANGED <<m_buf, m_write_idx, w_copied, r_step, r_n>>
        /\ writing = <<>> /\ r_step # "clear_read"
    BY <1>1 DEF write, WriteDropped, WriteStart, Idle, write_vars, read_vars
  <2>2. w_copied = 0
    BY <2>1 DEF RingInv, TypeOK
  <2> QED
    BY <2>1, <2>2 DEF ChannelInv, WrittenInv
<1>2. CASE WriteByte
  BY <1>2, WriteByteStutters DEF ChannelInv, WriteByte, read_vars
<1>3. CASE WritePublish
  BY <1>3 DEF ChannelInv, WrittenInv, WritePublish, read_vars
<1>4. CASE read
  <2>1. PICK max \in ReadSizes : ReadStart(max)
    BY <1>4 DEF read
  <2>2. /\ UNCHANGED <<m_buf, m_write_idx, m_drop_count, write_vars>>
        /\ r_step' = "copy" /\ r_n' = ReadLength(max) /\ available > 0
    BY <2>1 DEF ReadStart, ProgramOrder
  <2>3. max \in Nat /\ max > 0 /\ available \in Nat
    BY Indexes, RingAssumption DEF RingInv
  <2>4. r_n' > 0
    BY <2>2, <2>3 DEF ReadLength
  <2> QED
    BY <2>2, <2>4 DEF ChannelInv, WrittenInv, write_vars
<1>5. CASE ReadByte
  BY <1>5 DEF ReadByte, ChannelInv, WrittenInv, write_vars
<1>6. CASE ReadDone
  BY <1>6 DEF ReadDone, ChannelInv, WrittenInv, write_vars
<1>7. CASE clear
  <2>1. w_copied = 0
    BY <1>7 DEF clear, ClearWriteIdx, ClearDropCount, ClearReadIdx, RingInv, RoomInv,
                TypeOK, Clearing
  <2> QED
    BY <1>7, <2>1 DEF clear, ClearWriteIdx, ClearDropCount, ClearReadIdx, ChannelInv,
                      WrittenInv, write_vars
<1>8. CASE UNCHANGED vars
  BY <1>8 DEF vars, write_vars, read_vars, ChannelInv, WrittenInv
<1> QED
  BY <1>1, <1>2, <1>3, <1>4, <1>5, <1>6, <1>7, <1>8 DEF Next

(* Every step of the ring is a step of the channel or none.                *)
LEMMA ChannelStep ==
    ASSUME ProgramOrder, RingInv, ChannelInv, [Next]_vars
    PROVE  [Channel!Next]_(Channel!vars)
<1> USE DEF Channel!vars
<1>0. /\ (IF Clearing THEN <<>> ELSE Stored(m_read_idx, available)) = Queue
      /\ (IF Clearing THEN 0 ELSE m_drop_count) = Dropped
  BY DEF Queue, Dropped
<1>1. ASSUME NEW chunk \in Chunks, WriteDropped(chunk) PROVE Channel!Drop(chunk)
  <2>1. ~ Clearing /\ UNCHANGED <<m_buf, m_write_idx, m_read_idx, available, Clearing, delivered>>
    BY <1>1 DEF WriteDropped, Idle, Clearing, available, read_vars
  <2>2. Queue' = Queue /\ Queue = Stored(m_read_idx, available)
    BY <2>1 DEF Queue, Stored
  <2>3. Len(Queue) = available /\ available \in Nat
    BY <2>2, Indexes, StoredIs DEF RingInv
  <2>4. Dropped' = (Dropped + 1) % DropModulus
    BY <1>1, <2>1 DEF WriteDropped, Dropped
  <2>5. Len(Queue) + Len(chunk) > Capacity
    <3>1. ~ HasRoom(Len(chunk)) /\ Len(chunk) \in Nat
      BY <1>1, RingAssumption DEF WriteDropped
    <3> QED
      BY <2>3, <3>1, Constants DEF HasRoom
  <2> QED
    BY <2>1, <2>2, <2>4, <2>5 DEF Channel!Drop, Queue, Dropped
<1>2. ASSUME WritePublish PROVE Channel!Accept(writing) /\ writing \in Chunks
  <2>1. UNCHANGED <<m_drop_count, Clearing, delivered>>
    BY <1>2 DEF WritePublish, Clearing, read_vars
  <2> QED
    BY <1>2, <2>1, PublishAppends DEF Channel!Accept, Queue, ChannelInv
<1>3. ASSUME ReadDone PROVE Channel!Deliver(r_n) /\ r_n \in 1 .. Len(Queue)
  <2>1. /\ UNCHANGED m_drop_count /\ ~ Clearing /\ ~ Clearing'
        /\ r_step = "copy" /\ r_n \in Nat
    BY <1>3, Constants DEF ReadDone, Clearing, RingInv, CopyInv, TypeOK
  <2>2. r_n > 0
    BY <2>1 DEF ChannelInv
  <2> QED
    BY <1>3, <2>1, <2>2, ReadDelivers DEF Channel!Deliver, Queue
<1>4. ASSUME ClearWriteIdx PROVE Channel!Clear
  BY <1>4 DEF ClearWriteIdx, Channel!Clear, Clearing
<1>5. ASSUME UNCHANGED <<Queue, Dropped, delivered>>
      PROVE  UNCHANGED Channel!vars
  BY <1>5 DEF Queue, Dropped
<1>6. CASE write
  <2>1. ASSUME NEW chunk \in Chunks, WriteStart(chunk)
        PROVE  UNCHANGED <<Queue, Dropped, delivered>>
    BY <2>1 DEF WriteStart, Queue, Dropped, Clearing, Stored, available, read_vars
  <2> QED
    BY <1>1, <1>5, <1>6, <2>1 DEF write, Channel!Next
<1>7. CASE WriteByte
  <2>1. Queue' = Queue
    BY <1>7, WriteByteStutters DEF ChannelInv
  <2> QED
    BY <1>5, <1>7, <2>1 DEF WriteByte, Dropped, Clearing, read_vars
<1>8. CASE WritePublish
  BY <1>2, <1>8 DEF Channel!Next
<1>9. CASE read
  <2>1. PICK max \in ReadSizes : ReadStart(max)
    BY <1>9 DEF read
  <2>2. UNCHANGED <<m_buf, m_write_idx, m_read_idx, m_drop_count, Clearing, delivered>>
    BY <2>1 DEF ReadStart, ProgramOrder, Clearing
  <2> QED
    BY <1>5, <2>2 DEF Queue, Dropped, Stored, available
<1>10. CASE ReadByte
  BY <1>5, <1>10 DEF ReadByte, Queue, Dropped, Stored, available, Clearing
<1>11. CASE ReadDone
  <2>1. Channel!Deliver(r_n) /\ r_n \in 1 .. Len(Queue)
    BY <1>3, <1>11
  <2> QED
    BY <1>0, <2>1 DEF Channel!Next
<1>12. CASE clear
  <2>1. CASE ClearWriteIdx
    BY <1>4, <2>1 DEF Channel!Next
  <2>2. CASE ClearDropCount
    BY <1>5, <2>2 DEF ClearDropCount, Queue, Dropped, Clearing
  <2>3. CASE ClearReadIdx
    <3>1. /\ Clearing /\ ~ Clearing' /\ m_drop_count' = 0
          /\ m_write_idx' = 0 /\ m_read_idx' = 0 /\ UNCHANGED delivered
      BY <2>3 DEF ClearReadIdx, Clearing, RingInv, RoomInv, ChannelInv
    <3>2. available' = 0
      <4>1. 0 \in Indices
        BY Constants DEF Indices
      <4>2. Distance(0, 0) = 0
        BY <4>1, DistanceOf
      <4> QED
        BY <3>1, <4>2 DEF available
    <3>3. Queue' = <<>>
      BY <3>1, <3>2 DEF Queue, Stored
    <3> QED
      BY <1>5, <3>1, <3>3 DEF Queue, Dropped
  <2> QED
    BY <1>12, <2>1, <2>2, <2>3 DEF clear
<1>13. CASE UNCHANGED vars
  BY <1>5, <1>13 DEF vars, write_vars, read_vars, Queue, Dropped, Stored, available, Clearing
<1> QED
  BY <1>6, <1>7, <1>8, <1>9, <1>10, <1>11, <1>12, <1>13 DEF Next

(* For every capacity, width of indices and set of chunks the ring, in     *)
(* program order, implements the bounded FIFO of whole chunks with a       *)
(* counter of drops (ISRRingBuffer.hpp:33-97), clear included.             *)
THEOREM RingImplementsChannel ==
    ASSUME ProgramOrder
    PROVE  Spec => ImplementsChannel
<1>1. Init => Channel!Init
  <2> SUFFICES ASSUME Init PROVE Channel!Init
    OBVIOUS
  <2>1. ~ Clearing /\ available = 0
    <3>1. 0 \in Indices
      BY Constants DEF Indices
    <3> QED
      BY <3>1, DistanceOf DEF Init, available, Clearing
  <2>2. Stored(m_read_idx, available) = <<>>
    BY <2>1 DEF Stored
  <2> QED
    BY <2>1, <2>2 DEF Init, Channel!Init
<1>2. RingInv /\ ChannelInv /\ [Next]_vars => [Channel!Next]_(Channel!vars)
  BY ChannelStep
<1>3. RingInv /\ ChannelInv /\ [Next]_vars => ChannelInv'
  BY ChannelInvStep
<1> QED
  BY <1>1, <1>2, <1>3, ChannelInit, RingInvariance, PTL
     DEF Spec, ImplementsChannel, Channel!Spec
=============================================================================
