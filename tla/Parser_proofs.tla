--------------------------- MODULE Parser_proofs ----------------------------
(***************************************************************************)
(* Theorems about the parser and its buffer, for every size of buffer,     *)
(* header and frames that ParserAssumption allows: the regions never       *)
(* overlap, a chunk of a certain size is never refused, and the parser     *)
(* refines FrameStream.                                                    *)
(***************************************************************************)
EXTENDS Parser, TLAPS, SequenceTheorems, WellFoundedInduction

\* What lies behind A is smaller than B: B is only opened by a chunk that
\* did not fit there.
GapSmall(b) == b.b_size > 0 => SIZE - AEnd(b) < b.b_size

Shape == [bytes : [0 .. SIZE - 1 -> Bytes \cup {Free}],
          a_start : Nat, a_size : Nat, b_size : Nat]

Bip(b) ==
    /\ b \in Shape
    /\ AEnd(b) <= SIZE /\ b.b_size <= b.a_start
    /\ b.a_size = 0 => b.a_start = 0
    /\ GapSmall(b)
    /\ \A i \in 0 .. SIZE - 1 : b.bytes[i] \in Bytes <=> InRegions(b, i)

ParserInv ==
    /\ Bip(buffer)
    /\ ~ parsing => available(buffer) < max_frame_size
    /\ parsing \in BOOLEAN /\ refused \in BOOLEAN
    /\ delivered \in Registered \cup {NoFrame}

(* The sizes of frames are numbers, and no frame is empty.                 *)
LEMMA Sizes ==
    /\ SIZE \in Nat /\ max_frame_size \in Nat /\ 4 * max_frame_size <= SIZE
    /\ HeaderSize \in Nat /\ HeaderSize < max_frame_size
    /\ \A f \in Frames : FrameSize(f) \in Nat \ {0}
    /\ Free \notin Bytes
  BY ParserAssumption DEF max_frame_size, FrameSize

(* A nonempty set of natural numbers has a least member.                   *)
LEMMA LeastOfNats ==
    ASSUME NEW S \in SUBSET Nat, S # {}
    PROVE  \E i \in S : \A j \in S : i <= j
<1> DEFINE Less == OpToRel(<, Nat)
<1>1. PICK i \in S : \A j \in S : <<j, i>> \notin Less
  <2> HIDE DEF Less
  <2> QED
    BY NatLessThanWellFounded, WFMin DEF Less
<1>2. \A j \in S : ~ (j < i)
  BY <1>1 DEF OpToRel
<1> QED
  BY <1>2

(***************************************************************************)
(* The buffer's operations.                                                *)
(***************************************************************************)

(* An empty buffer is well formed.                                         *)
LEMMA EmptyIsBip == Bip(EmptyBip)
  BY Sizes DEF Bip, Shape, EmptyBip, AEnd, GapSmall, InRegions

(* Filling free space puts bytes of data there and leaves the others.      *)
LEMMA FilledBytes ==
    ASSUME NEW b, Bip(b), NEW data \in Seq(Bytes), NEW from \in Nat,
           from + Len(data) <= SIZE
    PROVE  /\ Filled(b, from, data) \in Shape
           /\ Filled(b, from, data).a_start = b.a_start
           /\ Filled(b, from, data).a_size = b.a_size
           /\ Filled(b, from, data).b_size = b.b_size
           /\ \A i \in 0 .. SIZE - 1 : Filled(b, from, data).bytes[i] \in Bytes
                 <=> (i \in from .. from + Len(data) - 1 \/ InRegions(b, i))
<1> DEFINE new == [i \in 0 .. SIZE - 1 |->
                     IF i \in from .. from + Len(data) - 1
                     THEN data[i - from + 1] ELSE b.bytes[i]]
<1>1. Filled(b, from, data) = [b EXCEPT !.bytes = new]
  BY DEF Filled
<1>2. \A i \in from .. from + Len(data) - 1 : data[i - from + 1] \in Bytes
  BY Sizes
<1>3. new \in [0 .. SIZE - 1 -> Bytes \cup {Free}]
  BY <1>2 DEF Bip, Shape
<1>4. \A i \in 0 .. SIZE - 1 : new[i] \in Bytes
         <=> (i \in from .. from + Len(data) - 1 \/ InRegions(b, i))
  BY <1>2 DEF Bip, Shape
<1> HIDE DEF new
<1> QED
  BY <1>1, <1>3, <1>4 DEF Bip, Shape

(* Bytes written within the span of get_write_buffer and committed with    *)
(* advance_write_index keep the buffer well formed.                        *)
LEMMA CommitKeepsBip ==
    ASSUME NEW b, Bip(b), NEW data \in Seq(Bytes),
           Len(data) <= get_write_buffer(b).room
    PROVE  Bip(advance_write_index(Filled(b, get_write_buffer(b).from, data), Len(data)))
<1> DEFINE from == get_write_buffer(b).from
           f == Filled(b, from, data)
           n == Len(data)
<1>1. n \in Nat /\ SIZE \in Nat
  BY Sizes
<1>2. from \in Nat /\ from + n <= SIZE
  BY <1>1 DEF Bip, Shape, get_write_buffer, AEnd
<1>3. /\ f \in Shape
      /\ f.a_start = b.a_start /\ f.a_size = b.a_size /\ f.b_size = b.b_size
      /\ \A i \in 0 .. SIZE - 1 : f.bytes[i] \in Bytes
            <=> (i \in from .. from + n - 1 \/ InRegions(b, i))
  BY <1>2, FilledBytes
<1> HIDE DEF f, n
<1>4. ASSUME b.b_size > 0 \/ AEnd(b) = SIZE
      PROVE  Bip(advance_write_index(f, n))
  <2> DEFINE w == [f EXCEPT !.b_size = f.b_size + n]
  <2>1. advance_write_index(f, n) = w
    BY <1>3, <1>4 DEF advance_write_index, AEnd
  <2>2. from = b.b_size /\ b.b_size + n <= b.a_start
    BY <1>1, <1>4 DEF Bip, Shape, get_write_buffer, AEnd, n
  <2>3. w \in Shape /\ w.bytes = f.bytes /\ w.a_start = b.a_start
        /\ w.a_size = b.a_size /\ w.b_size = b.b_size + n
    BY <1>1, <1>3 DEF Shape, Bip
  <2> HIDE DEF w, from
  <2>4. \A i \in 0 .. SIZE - 1 : w.bytes[i] \in Bytes <=> InRegions(w, i)
    BY <1>1, <1>3, <2>2, <2>3 DEF Bip, Shape, InRegions, AEnd
  <2>5. GapSmall(w)
    BY <1>1, <1>4, <2>3 DEF Bip, Shape, GapSmall, AEnd
  <2> QED
    BY <1>1, <2>1, <2>2, <2>3, <2>4, <2>5 DEF Bip, Shape, AEnd
<1>5. ASSUME ~ (b.b_size > 0 \/ AEnd(b) = SIZE)
      PROVE  Bip(advance_write_index(f, n))
  <2> DEFINE w == [f EXCEPT !.a_size = f.a_size + n]
  <2>1. advance_write_index(f, n) = w
    BY <1>3, <1>5 DEF advance_write_index, AEnd
  <2>2. from = AEnd(b) /\ AEnd(b) + n <= SIZE /\ b.b_size = 0
    BY <1>1, <1>5 DEF Bip, Shape, get_write_buffer, AEnd, n
  <2>3. w \in Shape /\ w.bytes = f.bytes /\ w.a_start = b.a_start
        /\ w.a_size = b.a_size + n /\ w.b_size = b.b_size
    BY <1>1, <1>3 DEF Shape, Bip
  <2> HIDE DEF w, from
  <2>4. \A i \in 0 .. SIZE - 1 : w.bytes[i] \in Bytes <=> InRegions(w, i)
    <3> TAKE i \in 0 .. SIZE - 1
    <3>1. w.bytes[i] \in Bytes
            <=> (i \in AEnd(b) .. AEnd(b) + n - 1 \/ InRegions(b, i))
      BY <1>3, <2>2, <2>3
    <3>2. InRegions(w, i) <=> i \in b.a_start .. AEnd(b) + n - 1
      BY <1>1, <2>2, <2>3 DEF Bip, Shape, InRegions, AEnd
    <3>3. InRegions(b, i) <=> i \in b.a_start .. AEnd(b) - 1
      BY <2>2 DEF Bip, Shape, InRegions
    <3> QED
      BY <1>1, <3>1, <3>2, <3>3 DEF Bip, Shape, AEnd
  <2> QED
    BY <1>1, <2>1, <2>2, <2>3, <2>4 DEF Bip, Shape, AEnd, GapSmall
<1> QED
  BY <1>4, <1>5 DEF f, n

(* write keeps the buffer well formed.                                     *)
LEMMA WriteKeepsBip ==
    ASSUME NEW b, Bip(b), NEW data \in Seq(Bytes), CanWrite(b, Len(data))
    PROVE  Bip(write(b, data))
<1> DEFINE f == Filled(b, 0, data)
           n == Len(data)
<1>1. n \in Nat /\ SIZE \in Nat
  BY Sizes
<1>2. CASE get_write_buffer(b).room >= n
  <2>1. get_write_buffer(b).room \in Int
    BY <1>1 DEF Bip, Shape, get_write_buffer, AEnd
  <2> QED
    BY <1>1, <1>2, <2>1, CommitKeepsBip DEF write
<1>3. CASE ~ (get_write_buffer(b).room >= n)
  <2>1. b.b_size = 0 /\ n <= b.a_start /\ SIZE - AEnd(b) < n
    BY <1>1, <1>3 DEF CanWrite, FitsBelow, Bip, Shape, get_write_buffer, AEnd
  <2>2. n <= SIZE
    BY <1>1, <2>1 DEF Bip, Shape, AEnd
  <2>3. /\ f \in Shape
        /\ f.a_start = b.a_start /\ f.a_size = b.a_size /\ f.b_size = b.b_size
        /\ \A i \in 0 .. SIZE - 1 : f.bytes[i] \in Bytes
              <=> (i \in 0 .. n - 1 \/ InRegions(b, i))
    BY <1>1, <2>2, FilledBytes
  <2> DEFINE w == [f EXCEPT !.b_size = n]
  <2>4. write(b, data) = w
    BY <1>3 DEF write
  <2> HIDE DEF f, n
  <2>5. w \in Shape /\ w.bytes = f.bytes /\ w.a_start = b.a_start
        /\ w.a_size = b.a_size /\ w.b_size = n
    BY <1>1, <2>3 DEF Shape
  <2> HIDE DEF w
  <2>6. \A i \in 0 .. SIZE - 1 : w.bytes[i] \in Bytes <=> InRegions(w, i)
    BY <1>1, <2>1, <2>3, <2>5 DEF Bip, Shape, InRegions, AEnd
  <2> QED
    BY <1>1, <2>1, <2>4, <2>5, <2>6 DEF Bip, Shape, AEnd, GapSmall
<1> QED
  BY <1>2, <1>3

(* discard keeps the buffer well formed and takes away n bytes.            *)
LEMMA DiscardKeepsBip ==
    ASSUME NEW b, Bip(b), NEW n \in Nat, n <= available(b)
    PROVE  /\ Bip(discard(b, n))
           /\ available(discard(b, n)) = available(b) - n
<1> DEFINE e == Erased(b, n)
<1>1. SIZE \in Nat /\ Free \notin Bytes
  BY Sizes
<1>2. \A i \in 0 .. SIZE - 1 :
         (\E k \in 0 .. n - 1 : i = At(b, k))
           <=> \/ i \in b.a_start .. b.a_start + n - 1 /\ i < AEnd(b)
               \/ i < n - b.a_size
  <2> SUFFICES ASSUME NEW i \in 0 .. SIZE - 1
               PROVE  (\E k \in 0 .. n - 1 : i = At(b, k))
                        <=> \/ i \in b.a_start .. b.a_start + n - 1 /\ i < AEnd(b)
                            \/ i < n - b.a_size
    OBVIOUS
  <2>1. ASSUME NEW k \in 0 .. n - 1, i = At(b, k)
        PROVE  \/ i \in b.a_start .. b.a_start + n - 1 /\ i < AEnd(b)
               \/ i < n - b.a_size
    BY <2>1 DEF Bip, Shape, At, AEnd
  <2>2. ASSUME i \in b.a_start .. b.a_start + n - 1, i < AEnd(b)
        PROVE  i - b.a_start \in 0 .. n - 1 /\ i = At(b, i - b.a_start)
    BY <2>2 DEF Bip, Shape, At, AEnd
  <2>3. ASSUME i < n - b.a_size
        PROVE  i + b.a_size \in 0 .. n - 1 /\ i = At(b, i + b.a_size)
    BY <2>3 DEF Bip, Shape, At
  <2> QED
    BY <2>1, <2>2, <2>3
<1>3. /\ e \in [0 .. SIZE - 1 -> Bytes \cup {Free}]
      /\ \A i \in 0 .. SIZE - 1 : e[i] \in Bytes
            <=> /\ InRegions(b, i)
                /\ ~ (i \in b.a_start .. b.a_start + n - 1 /\ i < AEnd(b))
                /\ ~ (i < n - b.a_size)
  BY <1>1, <1>2 DEF Erased, Bip, Shape
<1> HIDE DEF e
<1>4. CASE n < b.a_size
  <2> DEFINE w == [bytes |-> e, a_start |-> b.a_start + n,
                   a_size |-> b.a_size - n, b_size |-> b.b_size]
  <2>1. discard(b, n) = w
    BY <1>4 DEF discard, e
  <2>2. w \in Shape /\ w.bytes = e /\ w.a_start = b.a_start + n
        /\ w.a_size = b.a_size - n /\ w.b_size = b.b_size
    BY <1>3, <1>4 DEF Bip, Shape
  <2> HIDE DEF w
  <2>3. \A i \in 0 .. SIZE - 1 : w.bytes[i] \in Bytes <=> InRegions(w, i)
    <3> TAKE i \in 0 .. SIZE - 1
    <3>1. w.bytes[i] \in Bytes
            <=> /\ InRegions(b, i)
                /\ ~ (i \in b.a_start .. b.a_start + n - 1 /\ i < AEnd(b))
      BY <1>3, <1>4, <2>2 DEF Bip, Shape
    <3>2. AEnd(w) = AEnd(b)
      BY <2>2 DEF Bip, Shape, AEnd
    <3> QED
      BY <1>1, <1>4, <2>2, <3>1, <3>2 DEF Bip, Shape, InRegions, AEnd
  <2>4. AEnd(w) = AEnd(b) /\ available(w) = available(b) - n
    BY <2>2 DEF Bip, Shape, AEnd, available
  <2>5. GapSmall(w) /\ w.a_size > 0 /\ w.b_size <= w.a_start
    BY <1>4, <2>2, <2>4 DEF Bip, Shape, GapSmall
  <2> QED
    BY <1>1, <2>1, <2>2, <2>3, <2>4, <2>5 DEF Bip
<1>5. CASE ~ (n < b.a_size)
  <2> DEFINE start == IF n = available(b) THEN 0 ELSE n - b.a_size
             left == available(b) - n
             w == [bytes |-> e, a_start |-> start, a_size |-> left, b_size |-> 0]
  <2>1. discard(b, n) = w
    BY <1>5 DEF discard, e
  <2>2. /\ left \in Nat /\ start \in Nat
        /\ start + left <= b.b_size
        /\ left = 0 => start = 0
        /\ left > 0 => start = n - b.a_size
    BY <1>5 DEF Bip, Shape, available
  <2>3. w \in Shape /\ w.bytes = e /\ w.a_start = start
        /\ w.a_size = left /\ w.b_size = 0
    BY <1>3, <2>2 DEF Shape
  <2>4. left = b.a_size + b.b_size - n
    BY DEF available, Bip, Shape
  <2> HIDE DEF w, start, left
  <2>5. \A i \in 0 .. SIZE - 1 : w.bytes[i] \in Bytes <=> InRegions(w, i)
    <3> TAKE i \in 0 .. SIZE - 1
    <3>1. InRegions(w, i) <=> i \in start .. start + left - 1
      BY <1>1, <2>2, <2>3 DEF InRegions, AEnd
    <3>2. w.bytes[i] \in Bytes
            <=> InRegions(b, i) /\ ~ (i \in b.a_start .. AEnd(b) - 1) /\ ~ (i < n - b.a_size)
      BY <1>1, <1>3, <1>5, <2>3 DEF Bip, Shape, AEnd
    <3>3. w.bytes[i] \in Bytes <=> i < b.b_size /\ i >= n - b.a_size
      BY <1>1, <3>2 DEF Bip, Shape, InRegions, AEnd
    <3>4. b.a_size \in Nat /\ b.b_size \in Nat /\ i \in Nat
      BY <1>1 DEF Bip, Shape
    <3>5. CASE left = 0
      BY <2>2, <2>4, <3>1, <3>3, <3>4, <3>5
    <3>6. CASE left > 0
      BY <2>2, <2>4, <3>1, <3>3, <3>4, <3>6
    <3> QED
      BY <2>2, <3>5, <3>6
  <2>6. available(w) = available(b) - n
    BY <2>2, <2>3 DEF available, left
  <2> QED
    BY <1>1, <2>1, <2>2, <2>3, <2>5, <2>6 DEF Bip, Shape, AEnd, GapSmall
<1> QED
  BY <1>4, <1>5

(***************************************************************************)
(* The parser.                                                             *)
(***************************************************************************)

(* The first start byte lies in the contiguous part.                       *)
LEMMA ScanOffsetBounds ==
    ASSUME Bip(buffer), StartBytes # {}
    PROVE  scan_offset \in Nat /\ scan_offset < buffer.a_size
<1>1. StartBytes \in SUBSET Nat
  BY DEF StartBytes
<1>2. PICK i \in StartBytes : \A j \in StartBytes : i <= j
  BY <1>1, LeastOfNats
<1>3. scan_offset + 1 \in StartBytes /\ scan_offset \in Int
  <2> DEFINE m == CHOOSE k \in StartBytes : \A j \in StartBytes : k <= j
  <2>1. m \in StartBytes
    BY <1>2
  <2>2. scan_offset = m - 1
    BY DEF scan_offset
  <2> HIDE DEF m
  <2>3. m \in Int
    BY <1>1, <2>1
  <2> QED
    BY <2>1, <2>2, <2>3
<1> QED
  BY <1>3 DEF StartBytes, Bip, Shape

(* A right header is that of a frame, whose size is a positive number.     *)
LEMMA HeaderNamesFrame ==
    ASSUME NEW b, HeaderRight(b)
    PROVE  FrameAhead(b) \in Frames /\ FrameSize(FrameAhead(b)) \in Nat \ {0}
<1>1. PICK f \in Frames : \A i \in 1 .. HeaderChecked : b.bytes[At(b, i - 1)] = <<f, i>>
  BY DEF HeaderRight
<1>2. b.bytes[At(b, 0)] = <<f, 1>>
  <2>1. 1 \in 1 .. HeaderChecked /\ 1 - 1 = 0
    BY ParserAssumption
  <2> QED
    BY <1>1, <2>1
<1> QED
  BY <1>2, Sizes DEF FrameAhead

(* What the parser waits with is less than one frame.                      *)
LEMMA WaitsForLess ==
    ASSUME NEW b, Bip(b), ~ Rejected(b), ~ Accepted(b)
    PROVE  available(b) < max_frame_size
<1>1. available(b) \in Nat
  BY DEF available, Bip, Shape
<1>2. CASE ~ HasHeader(b)
  BY <1>1, <1>2, Sizes DEF HasHeader
<1>3. CASE HasHeader(b)
  <2>1. HeaderRight(b) /\ LengthAccepted(b) /\ ~ HasFrame(b)
    BY <1>3 DEF Rejected, Accepted
  <2> QED
    BY <1>1, <2>1, HeaderNamesFrame, Sizes DEF LengthAccepted, HasFrame
<1> QED
  BY <1>2, <1>3

(* The initial state satisfies the invariant.                              *)
LEMMA InitParserInv == Init => ParserInv
<1> SUFFICES ASSUME Init PROVE ParserInv
  OBVIOUS
<1>1. available(EmptyBip) = 0
  BY DEF available, EmptyBip
<1>2. 0 < max_frame_size
  BY Sizes
<1>3. Bip(buffer) /\ available(buffer) < max_frame_size
  BY <1>1, <1>2, EmptyIsBip DEF Init
<1> QED
  BY <1>3 DEF Init, ParserInv

(* Every action preserves it.                                              *)
LEMMA StepParserInv == ParserInv /\ [Next]_vars => ParserInv'
<1> SUFFICES ASSUME ParserInv, [Next]_vars PROVE ParserInv'
  OBVIOUS
<1> USE DEF ParserInv
<1>0. \A chunk \in Chunks : chunk \in Seq(Bytes)
  BY ParserAssumption
<1>1. ASSUME NEW chunk \in Chunks, push_data(chunk)
      PROVE  ParserInv'
  <2>1. CASE CanWrite(buffer, Len(chunk))
    BY <1>0, <1>1, <2>1, WriteKeepsBip DEF push_data
  <2>2. CASE ~ CanWrite(buffer, Len(chunk))
    BY <1>1, <2>2 DEF push_data
  <2> QED
    BY <2>1, <2>2
<1>2. ASSUME NEW chunk \in Chunks, DmaTransfer(chunk)
      PROVE  ParserInv'
  <2>1. Bip(buffer')
    BY <1>0, <1>2, CommitKeepsBip DEF DmaTransfer
  <2> QED
    BY <1>2, <2>1 DEF DmaTransfer
<1>3. CASE clear_buffer
  <2>1. available(EmptyBip) = 0
    BY DEF available, EmptyBip
  <2> QED
    BY <1>3, <2>1, EmptyIsBip, Sizes DEF clear_buffer
<1>4. CASE NothingLeft
  <2>1. 0 < max_frame_size
    BY Sizes
  <2> QED
    BY <1>4, <2>1 DEF NothingLeft
<1>5. CASE NoStartByte
  <2>1. buffer.a_size \in Nat /\ buffer.a_size <= available(buffer)
    BY DEF Bip, Shape, available
  <2> QED
    BY <1>5, <2>1, DiscardKeepsBip DEF NoStartByte
<1>6. CASE DropGarbage
  <2>1. scan_offset \in Nat /\ scan_offset <= available(buffer)
    BY <1>6, ScanOffsetBounds DEF DropGarbage, Bip, Shape, available
  <2> QED
    BY <1>6, <2>1, DiscardKeepsBip DEF DropGarbage
<1>7. CASE FrameIncomplete
  BY <1>7, WaitsForLess DEF FrameIncomplete
<1>8. CASE FrameRejected
  <2>1. 1 <= available(buffer)
    BY <1>8, ScanOffsetBounds DEF FrameRejected, StartsHere, Bip, Shape, available
  <2> QED
    BY <1>8, <2>1, DiscardKeepsBip DEF FrameRejected, StartsHere, AfterFailure
<1>9. CASE FrameAccepted
  <2>1. /\ FrameSize(FrameAhead(buffer)) \in Nat
        /\ FrameSize(FrameAhead(buffer)) <= available(buffer)
    BY <1>9, HeaderNamesFrame DEF FrameAccepted, Accepted, HasFrame, available, Bip, Shape
  <2> QED
    BY <1>9, <2>1, DiscardKeepsBip DEF FrameAccepted, StartsHere
<1>10. CASE UNCHANGED vars
  BY <1>10 DEF vars
<1> QED
  BY <1>1, <1>2, <1>3, <1>4, <1>5, <1>6, <1>7, <1>8, <1>9, <1>10
  DEF Next, try_parse_packets

(* The invariant holds of every state the parser can reach.                *)
THEOREM ParserInvariance == Spec => []ParserInv
<1>1. ParserInv /\ [Next]_vars => ParserInv'
  BY StepParserInv
<1> QED
  BY InitParserInv, <1>1, PTL DEF Spec

(* The regions lie in the buffer, B below A, and contain exactly the bytes *)
(* written and not yet discarded, whatever the sizes of chunks and frames. *)
THEOREM RegionsCorrect == Spec => []TypeOK
<1>1. ParserInv => TypeOK
  BY DEF ParserInv, Bip, Shape, TypeOK
<1> QED
  BY <1>1, ParserInvariance, PTL

(* A chunk of at most half the buffer that a waiting frame leaves is never *)
(* refused: drain_rx, which ignores the refusal, loses nothing if its 256  *)
(* bytes are that small.                                                   *)
THEOREM NeverRefused == Spec => []AlwaysRoom
<1>1. ParserInv => AlwaysRoom
  <2> SUFFICES ASSUME ParserInv, ~ parsing, NEW n \in 1 .. SIZE,
                      2 * n <= SIZE - max_frame_size + 2
               PROVE  CanWrite(buffer, n)
    BY DEF AlwaysRoom
  <2> DEFINE s == buffer.a_start
             a == buffer.a_size
             b == buffer.b_size
  <2>1. s \in Nat /\ a \in Nat /\ b \in Nat /\ n \in Nat
    BY DEF ParserInv, Bip, Shape
  <2>2. s + a <= SIZE /\ b <= s /\ (a = 0 => s = 0) /\ a + b < max_frame_size
    BY DEF ParserInv, Bip, AEnd, available
  <2>3. b > 0 => SIZE - (s + a) < b
    BY DEF ParserInv, Bip, GapSmall, AEnd
  <2>4. CASE b > 0
    <3>1. s - b >= n
      BY <2>1, <2>2, <2>3, <2>4, Sizes
    <3> QED
      BY <2>4, <3>1 DEF CanWrite, get_write_buffer
  <2>5. CASE b = 0
    <3>1. SIZE - (s + a) >= n \/ s >= n
      BY <2>1, <2>2, <2>5, Sizes
    <3>2. CASE SIZE - (s + a) >= n
      <4>1. s + a < SIZE
        BY <2>1, <3>2, Sizes
      <4> QED
        BY <2>5, <3>2, <4>1 DEF CanWrite, get_write_buffer, AEnd
    <3>3. CASE s >= n
      BY <2>5, <3>3 DEF CanWrite, FitsBelow
    <3> QED
      BY <3>1, <3>2, <3>3
  <2> QED
    BY <2>1, <2>4, <2>5
<1> QED
  BY <1>1, ParserInvariance, PTL

(***************************************************************************)
(* The unread bytes as one sequence.                                       *)
(***************************************************************************)
Unread(b) == peek(b, available(b))

(* Every unread byte lies in a region, each in a place of its own.         *)
LEMMA AtPlaces ==
    ASSUME NEW b, Bip(b)
    PROVE  /\ available(b) \in Nat
           /\ \A i \in 0 .. available(b) - 1 :
                At(b, i) \in 0 .. SIZE - 1 /\ InRegions(b, At(b, i))
           /\ \A i, j \in 0 .. available(b) - 1 : At(b, i) = At(b, j) => i = j
<1>1. /\ SIZE \in Nat
      /\ b.a_start \in Nat /\ b.a_size \in Nat /\ b.b_size \in Nat
      /\ b.a_start + b.a_size <= SIZE /\ b.b_size <= b.a_start
  BY Sizes DEF Bip, Shape, AEnd
<1>2. \A i \in 0 .. available(b) - 1 :
         At(b, i) \in 0 .. SIZE - 1 /\ InRegions(b, At(b, i))
  BY <1>1 DEF At, available, InRegions, AEnd
<1>3. \A i, j \in 0 .. available(b) - 1 : At(b, i) = At(b, j) => i = j
  BY <1>1 DEF At, available
<1> QED
  BY <1>1, <1>2, <1>3 DEF available

(* peek returns the bytes asked for.                                       *)
LEMMA PeekIsSeq ==
    ASSUME NEW b, Bip(b), NEW n \in 0 .. available(b)
    PROVE  /\ peek(b, n) \in Seq(Bytes) /\ Len(peek(b, n)) = n
           /\ \A i \in 1 .. n : peek(b, n)[i] = b.bytes[At(b, i - 1)]
<1>1. \A i \in 1 .. n : b.bytes[At(b, i - 1)] \in Bytes
  <2> TAKE i \in 1 .. n
  <2>1. i - 1 \in 0 .. available(b) - 1
    BY AtPlaces
  <2>2. At(b, i - 1) \in 0 .. SIZE - 1 /\ InRegions(b, At(b, i - 1))
    BY <2>1, AtPlaces
  <2> QED
    BY <2>2 DEF Bip
<1>2. n \in Nat
  BY AtPlaces
<1> QED
  BY <1>1, <1>2 DEF peek

(* discard takes the first n unread bytes and leaves the rest as it was.   *)
LEMMA DiscardDrops ==
    ASSUME NEW b, Bip(b), NEW n \in 0 .. available(b)
    PROVE  Unread(discard(b, n)) = SubSeq(Unread(b), n + 1, Len(Unread(b)))
<1> DEFINE d == discard(b, n)
           a == available(b)
<1>1. a \in Nat /\ n \in Nat /\ n <= a
  BY AtPlaces
<1>2. Bip(d) /\ available(d) = a - n
  BY <1>1, DiscardKeepsBip
<1>3. Unread(d) \in Seq(Bytes) /\ Len(Unread(d)) = a - n
      /\ \A i \in 1 .. a - n : Unread(d)[i] = d.bytes[At(d, i - 1)]
  BY <1>1, <1>2, PeekIsSeq DEF Unread
<1>4. Unread(b) \in Seq(Bytes) /\ Len(Unread(b)) = a
      /\ \A i \in 1 .. a : Unread(b)[i] = b.bytes[At(b, i - 1)]
  BY <1>1, PeekIsSeq DEF Unread
<1>5. \A i \in 1 .. a - n : d.bytes[At(d, i - 1)] = b.bytes[At(b, n + i - 1)]
  <2> SUFFICES ASSUME NEW i \in 1 .. a - n
               PROVE  d.bytes[At(d, i - 1)] = b.bytes[At(b, n + i - 1)]
    OBVIOUS
  <2>1. n + i - 1 \in 0 .. a - 1
    BY <1>1
  <2>2. At(d, i - 1) = At(b, n + i - 1)
    BY <1>1 DEF discard, At, Bip, Shape, available
  <2>3. At(b, n + i - 1) \in 0 .. SIZE - 1
    BY <2>1, AtPlaces
  <2>4. \A k \in 0 .. n - 1 : At(b, n + i - 1) # At(b, k)
    <3> TAKE k \in 0 .. n - 1
    <3>1. k \in 0 .. a - 1 /\ k # n + i - 1
      BY <1>1
    <3> QED
      BY <2>1, <3>1, AtPlaces
  <2>5. d.bytes = Erased(b, n)
    BY DEF discard
  <2> QED
    BY <2>2, <2>3, <2>4, <2>5 DEF Erased
<1> HIDE DEF d, a
<1>6. SubSeq(Unread(b), n + 1, a) \in Seq(Bytes)
      /\ Len(SubSeq(Unread(b), n + 1, a)) = a - n
      /\ \A i \in 1 .. a - n : SubSeq(Unread(b), n + 1, a)[i] = Unread(b)[n + i]
  <2>1. \A i \in n + 1 .. a : Unread(b)[i] \in Bytes
    BY <1>1, <1>4
  <2> QED
    BY <1>1, <2>1, SubSeqProperties
<1>7. \A i \in 1 .. a - n : Unread(d)[i] = SubSeq(Unread(b), n + 1, a)[i]
  <2> TAKE i \in 1 .. a - n
  <2>1. n + i \in 1 .. a
    BY <1>1
  <2>2. Unread(b)[n + i] = b.bytes[At(b, n + i - 1)]
    BY <1>4, <2>1
  <2> QED
    BY <1>3, <1>5, <1>6, <2>2
<1>8. Unread(d) = SubSeq(Unread(b), n + 1, a)
  BY <1>3, <1>6, <1>7, SeqEqual
<1> QED
  BY <1>4, <1>8 DEF d

(* A buffer with data behind its bytes: how either way to write ends.      *)
LEMMA GrownUnread ==
    ASSUME NEW b, Bip(b), NEW data \in Seq(Bytes), NEW w, Bip(w),
           available(w) = available(b) + Len(data),
           \A i \in 0 .. available(b) - 1 : w.bytes[At(w, i)] = b.bytes[At(b, i)],
           \A i \in 1 .. Len(data) : w.bytes[At(w, available(b) + i - 1)] = data[i]
    PROVE  Unread(w) = Unread(b) \o data
<1> DEFINE a == available(b)
           n == Len(data)
           s == Unread(b) \o data
<1>1. a \in Nat /\ n \in Nat
  BY AtPlaces
<1>2. Unread(w) \in Seq(Bytes) /\ Len(Unread(w)) = a + n
      /\ \A i \in 1 .. a + n : Unread(w)[i] = w.bytes[At(w, i - 1)]
  BY <1>1, PeekIsSeq DEF Unread
<1>3. Unread(b) \in Seq(Bytes) /\ Len(Unread(b)) = a
      /\ \A i \in 1 .. a : Unread(b)[i] = b.bytes[At(b, i - 1)]
  BY <1>1, PeekIsSeq DEF Unread
<1>4. s \in Seq(Bytes) /\ Len(s) = a + n
      /\ \A i \in 1 .. a + n : s[i] = IF i <= a THEN Unread(b)[i] ELSE data[i - a]
  BY <1>3, ConcatProperties
<1>5. \A i \in 1 .. a + n : Unread(w)[i] = s[i]
  <2> TAKE i \in 1 .. a + n
  <2>1. CASE i <= a
    <3>1. i - 1 \in 0 .. a - 1 /\ i \in 1 .. a
      BY <1>1, <2>1
    <3>2. w.bytes[At(w, i - 1)] = Unread(b)[i]
      BY <1>3, <3>1
    <3> QED
      BY <1>2, <1>4, <2>1, <3>2
  <2>2. CASE ~ (i <= a)
    <3>1. i - a \in 1 .. n /\ a + (i - a) - 1 = i - 1
      BY <1>1, <2>2
    <3>2. w.bytes[At(w, i - 1)] = data[i - a]
      BY <3>1
    <3> QED
      BY <1>2, <1>4, <2>2, <3>2
  <2> QED
    BY <2>1, <2>2
<1> HIDE DEF s, n, a
<1>6. Unread(w) = s
  BY <1>2, <1>4, <1>5, SeqEqual
<1> QED
  BY <1>6 DEF s

(* Bytes written in the span of get_write_buffer and committed follow the  *)
(* unread ones.                                                            *)
LEMMA CommitAppends ==
    ASSUME NEW b, Bip(b), NEW data \in Seq(Bytes),
           Len(data) <= get_write_buffer(b).room
    PROVE  Unread(advance_write_index(Filled(b, get_write_buffer(b).from, data), Len(data)))
             = Unread(b) \o data
<1> DEFINE from == get_write_buffer(b).from
           n == Len(data)
           a == available(b)
           f == Filled(b, from, data)
           w == advance_write_index(f, n)
           new == [i \in 0 .. SIZE - 1 |->
                     IF i \in from .. from + n - 1 THEN data[i - from + 1] ELSE b.bytes[i]]
<1>1. n \in Nat /\ SIZE \in Nat /\ a \in Nat
  BY Sizes, AtPlaces
<1>2. from \in Nat /\ from + n <= SIZE
  BY <1>1 DEF Bip, Shape, get_write_buffer, AEnd
<1>3. Bip(w)
  BY CommitKeepsBip
<1>4. /\ f.bytes = new /\ f.a_start = b.a_start
      /\ f.a_size = b.a_size /\ f.b_size = b.b_size
  BY DEF Filled, Bip, Shape
<1>5. w.bytes = new /\ w.a_start = b.a_start
  BY <1>4 DEF advance_write_index, Filled, Bip, Shape
<1>6. /\ available(w) = a + n
      /\ \A i \in 0 .. a - 1 : At(w, i) = At(b, i)
      /\ \A i \in 1 .. n : At(w, a + i - 1) = from + i - 1
  <2>1. CASE b.b_size > 0 \/ AEnd(b) = SIZE
    <3>1. w.a_size = b.a_size /\ w.b_size = b.b_size + n
      BY <1>4, <2>1 DEF advance_write_index, AEnd, Filled, Bip, Shape
    <3>2. from = b.b_size
      BY <1>1, <2>1 DEF Bip, Shape, get_write_buffer, AEnd
    <3> QED
      BY <1>1, <1>5, <3>1, <3>2 DEF available, At, Bip, Shape
  <2>2. CASE ~ (b.b_size > 0 \/ AEnd(b) = SIZE)
    <3>1. w.a_size = b.a_size + n /\ w.b_size = b.b_size /\ b.b_size = 0
      BY <1>4, <2>2 DEF advance_write_index, AEnd, Filled, Bip, Shape
    <3>2. from = AEnd(b)
      BY <1>1, <2>2 DEF Bip, Shape, get_write_buffer, AEnd
    <3> QED
      BY <1>1, <1>5, <3>1, <3>2 DEF available, At, Bip, Shape, AEnd
  <2> QED
    BY <2>1, <2>2
<1>7. \A i \in 0 .. SIZE - 1 : InRegions(b, i) => i \notin from .. from + n - 1
  BY <1>1, <1>2 DEF Bip, Shape, get_write_buffer, AEnd, InRegions
<1>8. \A i \in 0 .. a - 1 : w.bytes[At(w, i)] = b.bytes[At(b, i)]
  <2> TAKE i \in 0 .. a - 1
  <2>1. At(b, i) \in 0 .. SIZE - 1 /\ InRegions(b, At(b, i))
    BY AtPlaces
  <2>2. At(b, i) \notin from .. from + n - 1
    BY <1>7, <2>1
  <2> QED
    BY <1>5, <1>6, <2>1, <2>2
<1>9. \A i \in 1 .. n : w.bytes[At(w, a + i - 1)] = data[i]
  <2> TAKE i \in 1 .. n
  <2>1. /\ from + i - 1 \in from .. from + n - 1
        /\ from + i - 1 \in 0 .. SIZE - 1
        /\ (from + i - 1) - from + 1 = i
    BY <1>1, <1>2
  <2> QED
    BY <1>5, <1>6, <2>1
<1> QED
  <2> HIDE DEF w, f
  <2>1. Unread(w) = Unread(b) \o data
    BY <1>3, <1>6, <1>8, <1>9, GrownUnread
  <2> QED
    BY <2>1 DEF w, f

(* So do the bytes of write, wherever it puts them.                        *)
LEMMA WriteAppends ==
    ASSUME NEW b, Bip(b), NEW data \in Seq(Bytes), CanWrite(b, Len(data))
    PROVE  Unread(write(b, data)) = Unread(b) \o data
<1> DEFINE n == Len(data)
           a == available(b)
           w == [Filled(b, 0, data) EXCEPT !.b_size = n]
           new == [i \in 0 .. SIZE - 1 |->
                     IF i \in 0 .. 0 + n - 1 THEN data[i - 0 + 1] ELSE b.bytes[i]]
<1>1. n \in Nat /\ SIZE \in Nat /\ a \in Nat
  BY Sizes, AtPlaces
<1>2. CASE get_write_buffer(b).room >= n
  <2>1. get_write_buffer(b).room \in Int
    BY <1>1 DEF Bip, Shape, get_write_buffer, AEnd
  <2> QED
    BY <1>1, <1>2, <2>1, CommitAppends DEF write
<1>3. CASE ~ (get_write_buffer(b).room >= n)
  <2>1. b.b_size = 0 /\ n <= b.a_start
    BY <1>1, <1>3 DEF CanWrite, FitsBelow
  <2>2. write(b, data) = w
    BY <1>3 DEF write
  <2>3. Bip(w)
    BY <2>2, WriteKeepsBip
  <2>4. w.bytes = new /\ w.a_start = b.a_start /\ w.a_size = b.a_size /\ w.b_size = n
    BY DEF Filled, Bip, Shape
  <2>5. /\ available(w) = a + n
        /\ \A i \in 0 .. a - 1 : At(w, i) = At(b, i)
        /\ \A i \in 1 .. n : At(w, a + i - 1) = i - 1
    BY <1>1, <2>1, <2>4 DEF available, At, Bip, Shape
  <2>6. \A i \in 0 .. a - 1 : w.bytes[At(w, i)] = b.bytes[At(b, i)]
    <3> TAKE i \in 0 .. a - 1
    <3>1. At(b, i) \in 0 .. SIZE - 1 /\ InRegions(b, At(b, i))
      BY AtPlaces
    <3>2. At(b, i) \notin 0 .. 0 + n - 1
      BY <1>1, <2>1, <3>1 DEF InRegions, AEnd, Bip, Shape
    <3> QED
      BY <2>4, <2>5, <3>1, <3>2
  <2>7. \A i \in 1 .. n : w.bytes[At(w, a + i - 1)] = data[i]
    <3> TAKE i \in 1 .. n
    <3>1. i - 1 \in 0 .. 0 + n - 1 /\ i - 1 \in 0 .. SIZE - 1 /\ (i - 1) - 0 + 1 = i
      BY <1>1, <2>1 DEF Bip, Shape, AEnd
    <3> QED
      BY <2>4, <2>5, <3>1
  <2> HIDE DEF w
  <2>8. Unread(w) = Unread(b) \o data
    BY <2>3, <2>5, <2>6, <2>7, GrownUnread
  <2> QED
    BY <2>2, <2>8
<1> QED
  BY <1>2, <1>3

(***************************************************************************)
(* The parser implements the stream: its queue is what is unread.          *)
(***************************************************************************)

(* A frame is a nonempty sequence, known by its first byte.                *)
LEMMA WireIsSeq ==
    ASSUME NEW f \in Frames
    PROVE  /\ FrameSize(f) \in Nat \ {0}
           /\ Wire(f) \in Seq(Bytes) /\ Len(Wire(f)) = FrameSize(f)
           /\ \A i \in 1 .. FrameSize(f) : Wire(f)[i] = <<f, i>>
           /\ \A g \in Frames : Wire(f) = Wire(g) => f = g
<1>1. FrameSize(f) \in Nat \ {0} /\ \A g \in Frames : FrameSize(g) \in Nat \ {0}
  BY Sizes
<1>2. \A i \in 1 .. FrameSize(f) : <<f, i>> \in Bytes
  BY DEF Bytes
<1>3. \A g \in Frames : Wire(g)[1] = <<g, 1>>
  BY <1>1 DEF Wire
<1> QED
  BY <1>1, <1>2, <1>3 DEF Wire

(* If a frame may begin at a place, its first byte lies there.             *)
LEMMA FirstByteThere ==
    ASSUME ParserInv, NEW f \in Frames, NEW i \in 1 .. available(buffer),
           Stream!MayBeFrameAt(i, Wire(f))
    PROVE  /\ Unread(buffer)[i] = <<f, 1>>
           /\ \A k \in 1 .. FrameSize(f) :
                i + k - 1 <= available(buffer) => Unread(buffer)[i + k - 1] = <<f, k>>
<1> DEFINE u == Unread(buffer)
           a == available(buffer)
           m == FrameSize(f)
<1>1. a \in Nat /\ i \in Nat /\ m \in Nat \ {0}
  BY AtPlaces, WireIsSeq DEF ParserInv
<1>2. u \in Seq(Bytes) /\ Len(u) = a
  BY <1>1, PeekIsSeq DEF Unread, ParserInv
<1>3. Wire(f) \in Seq(Bytes) /\ Len(Wire(f)) = m
      /\ \A k \in 1 .. m : Wire(f)[k] = <<f, k>>
  BY WireIsSeq
<1> HIDE DEF u, a, m
<1>4. ASSUME NEW k \in 1 .. m, i + k - 1 <= a
      PROVE  u[i + k - 1] = <<f, k>>
  <2>1. IF a - i + 1 >= m THEN SubSeq(u, i, i + m - 1) = Wire(f)
        ELSE SubSeq(u, i, a) = SubSeq(Wire(f), 1, a - i + 1)
    BY <1>2, <1>3 DEF Stream!MayBeFrameAt, Stream!IsFrameAt, u, Unread
  <2>2. CASE a - i + 1 >= m
    <3>1. \A j \in i .. i + m - 1 : u[j] \in Bytes
      BY <1>1, <1>2, <2>2 DEF a
    <3>2. SubSeq(u, i, i + m - 1)[k] = u[i + k - 1]
      BY <1>1, <3>1, SubSeqProperties
    <3> QED
      BY <1>3, <2>1, <2>2, <3>2
  <2>3. CASE ~ (a - i + 1 >= m)
    <3>1. \A j \in i .. a : u[j] \in Bytes
      BY <1>1, <1>2
    <3>2. k \in 1 .. a - i + 1
      BY <1>1, <1>4
    <3>3. SubSeq(u, i, a)[k] = u[i + k - 1]
      BY <1>1, <3>1, <3>2, SubSeqProperties
    <3>4. a - i + 1 \in Nat /\ a - i + 1 < m
      BY <1>1, <2>3 DEF a
    <3>5. \A j \in 1 .. a - i + 1 : Wire(f)[j] \in Bytes
      <4> TAKE j \in 1 .. a - i + 1
      <4>1. j \in 1 .. m
        BY <1>1, <3>4
      <4> QED
        BY <1>3, <4>1
    <3>6. SubSeq(Wire(f), 1, a - i + 1)[k] = Wire(f)[1 + k - 1]
      <4>1. k \in 1 .. (a - i + 1) - 1 + 1 /\ 1 \in Int /\ a - i + 1 \in Int
        BY <3>2, <3>4
      <4> QED
        BY <3>5, <4>1, SubSeqProperties
    <3>7. 1 + k - 1 = k /\ Wire(f)[k] = <<f, k>>
      BY <1>1, <1>3
    <3> QED
      BY <2>1, <2>3, <3>3, <3>6, <3>7
  <2> QED
    BY <2>2, <2>3
<1>5. u[i] = <<f, 1>>
  <2>1. 1 \in 1 .. m /\ i + 1 - 1 = i /\ i <= a
    BY <1>1 DEF a
  <2> QED
    BY <1>4, <2>1
<1> QED
  BY <1>4, <1>5 DEF u, a, m

(* Within region A a frame can only begin at a start byte.                 *)
LEMMA BeginsAtStartByte ==
    ASSUME ParserInv, NEW f \in Frames, NEW i \in 1 .. buffer.a_size,
           Stream!MayBeFrameAt(i, Wire(f))
    PROVE  i \in StartBytes
<1>1. i \in 1 .. available(buffer) /\ i - 1 < buffer.a_size
  BY DEF ParserInv, Bip, Shape, available
<1>2. Unread(buffer)[i] = <<f, 1>>
  BY <1>1, FirstByteThere
<1>3. Unread(buffer)[i] = buffer.bytes[At(buffer, i - 1)]
  <2>1. available(buffer) \in 0 .. available(buffer)
    BY AtPlaces DEF ParserInv
  <2> QED
    BY <1>1, <2>1, PeekIsSeq DEF Unread, ParserInv
<1>4. At(buffer, i - 1) = buffer.a_start + i - 1
  BY <1>1 DEF At, ParserInv, Bip, Shape
<1> QED
  BY <1>2, <1>3, <1>4, ParserAssumption DEF StartBytes

(* Giving up bytes where no frame can begin is a step of the stream.       *)
LEMMA SkipStep ==
    ASSUME ParserInv, NEW n \in 1 .. available(buffer),
           \A i \in 1 .. n, f \in Frames :
             PayloadSize[f] <= MaxPayload => ~ Stream!MayBeFrameAt(i, Wire(f)),
           buffer' = discard(buffer, n), UNCHANGED delivered
    PROVE  Stream!Next
<1>1. n \in 0 .. available(buffer)
  BY AtPlaces DEF ParserInv
<1>2. Unread(buffer') = SubSeq(Unread(buffer), n + 1, Len(Unread(buffer)))
  BY <1>1, DiscardDrops DEF ParserInv
<1>3. Stream!Skip(n)
  BY <1>2 DEF Stream!Skip, Unread
<1>4. Len(Unread(buffer)) = available(buffer)
  BY AtPlaces, PeekIsSeq DEF ParserInv, Unread
<1> QED
  BY <1>3, <1>4 DEF Stream!Next, Unread

(* Chunks are accepted by push_data or transferred; either way they arrive.*)
LEMMA ArrivalsImplement ==
    ASSUME ParserInv, NEW chunk \in Chunks, push_data(chunk) \/ DmaTransfer(chunk)
    PROVE  [Stream!Next]_(Stream!vars)
<1>1. chunk \in Seq(Bytes)
  BY ParserAssumption
<1>2. CASE push_data(chunk) /\ ~ CanWrite(buffer, Len(chunk))
  BY <1>2 DEF push_data, Stream!vars
<1>3. ASSUME Unread(buffer') = Unread(buffer) \o chunk, UNCHANGED delivered
      PROVE  Stream!Next
  <2>1. Stream!Arrive(chunk)
    BY <1>3 DEF Stream!Arrive, Unread
  <2> QED
    BY <2>1 DEF Stream!Next
<1>4. CASE push_data(chunk) /\ CanWrite(buffer, Len(chunk))
  <2>1. Unread(buffer') = Unread(buffer) \o chunk /\ UNCHANGED delivered
    BY <1>1, <1>4, WriteAppends DEF push_data, ParserInv
  <2> QED
    BY <1>3, <2>1
<1>5. CASE DmaTransfer(chunk)
  <2>1. Unread(buffer') = Unread(buffer) \o chunk /\ UNCHANGED delivered
    BY <1>1, <1>5, CommitAppends DEF DmaTransfer, ParserInv
  <2> QED
    BY <1>3, <2>1
<1> QED
  BY <1>2, <1>4, <1>5

(* Bytes before the first start byte are given up.                         *)
LEMMA ScansImplement ==
    ASSUME ParserInv, NoStartByte \/ DropGarbage
    PROVE  Stream!Next
<1>1. buffer.a_size \in Nat /\ buffer.a_size <= available(buffer)
  BY DEF ParserInv, Bip, Shape, available
<1>2. ASSUME NEW n \in 1 .. buffer.a_size, \A i \in 1 .. n : i \notin StartBytes,
             buffer' = discard(buffer, n), UNCHANGED delivered
      PROVE  Stream!Next
  <2>1. n \in 1 .. available(buffer)
    BY <1>1, AtPlaces DEF ParserInv
  <2>2. \A i \in 1 .. n, f \in Frames : ~ Stream!MayBeFrameAt(i, Wire(f))
    <3> SUFFICES ASSUME NEW i \in 1 .. n, NEW f \in Frames,
                        Stream!MayBeFrameAt(i, Wire(f))
                 PROVE  FALSE
      OBVIOUS
    <3>1. i \in 1 .. buffer.a_size
      BY <1>1
    <3> QED
      BY <1>2, <3>1, BeginsAtStartByte
  <2> QED
    BY <1>2, <2>1, <2>2, SkipStep
<1>3. CASE NoStartByte
  <2>1. buffer.a_size \in 1 .. buffer.a_size
    BY <1>1, <1>3 DEF NoStartByte
  <2> QED
    BY <1>2, <1>3, <2>1 DEF NoStartByte
<1>4. CASE DropGarbage
  <2>1. scan_offset \in Nat /\ scan_offset < buffer.a_size /\ scan_offset > 0
    BY <1>4, ScanOffsetBounds DEF DropGarbage, ParserInv
  <2>2. \A i \in 1 .. scan_offset : i \notin StartBytes
    <3>1. PICK m \in StartBytes : \A j \in StartBytes : m <= j
      <4>1. StartBytes \in SUBSET Nat
        BY DEF StartBytes
      <4> QED
        BY <1>4, <4>1, LeastOfNats DEF DropGarbage
    <3> DEFINE first == CHOOSE k \in StartBytes : \A j \in StartBytes : k <= j
    <3>2. first \in StartBytes /\ \A j \in StartBytes : first <= j
      BY <3>1
    <3>3. scan_offset = first - 1
      BY DEF scan_offset
    <3> HIDE DEF first
    <3>4. first \in Nat
      BY <3>2 DEF StartBytes
    <3> QED
      BY <3>2, <3>3, <3>4
  <2> QED
    BY <1>1, <1>2, <1>4, <2>1, <2>2 DEF DropGarbage
<1> QED
  BY <1>3, <1>4

(* A rejected frame's first byte is given up: no frame of a size the       *)
(* parser takes can begin there.                                           *)
LEMMA RejectionImplements ==
    ASSUME ParserInv, FrameRejected
    PROVE  Stream!Next
<1> DEFINE a == available(buffer)
           u == Unread(buffer)
<1>1. 1 \in 1 .. a /\ a \in Nat
  BY ScanOffsetBounds
  DEF FrameRejected, StartsHere, ParserInv, Bip, Shape, available
<1>2. /\ a >= HeaderSize /\ HeaderSize \in Nat /\ HeaderChecked \in 1 .. HeaderSize
      /\ Len(u) = a /\ \A i \in 1 .. a : u[i] = buffer.bytes[At(buffer, i - 1)]
  <2>1. a >= HeaderSize /\ HeaderSize \in Nat /\ HeaderChecked \in 1 .. HeaderSize
    BY ParserAssumption DEF FrameRejected, Rejected, HasHeader
  <2>2. Bip(buffer) /\ a \in 0 .. available(buffer)
    BY <1>1 DEF ParserInv
  <2>3. Len(u) = a /\ \A i \in 1 .. a : u[i] = buffer.bytes[At(buffer, i - 1)]
    BY <2>2, PeekIsSeq DEF Unread
  <2> QED
    BY <2>1, <2>3
<1>3. ASSUME NEW g \in Frames, PayloadSize[g] <= MaxPayload,
             Stream!MayBeFrameAt(1, Wire(g))
      PROVE  FALSE
  <2>1. /\ FrameSize(g) \in Nat \ {0} /\ HeaderSize < FrameSize(g)
        /\ FrameSize(g) <= max_frame_size
    BY <1>3, ParserAssumption DEF FrameSize, max_frame_size
  <2>2. \A k \in 1 .. FrameSize(g) : k <= a => u[k] = <<g, k>>
    <3> SUFFICES ASSUME NEW k \in 1 .. FrameSize(g), k <= a PROVE u[k] = <<g, k>>
      OBVIOUS
    <3>1. 1 + k - 1 = k
      BY <2>1
    <3> QED
      BY <1>1, <1>3, <3>1, FirstByteThere
  <2>3. \A i \in 1 .. HeaderChecked : buffer.bytes[At(buffer, i - 1)] = <<g, i>>
    <3> TAKE i \in 1 .. HeaderChecked
    <3>1. i \in 1 .. FrameSize(g) /\ i \in 1 .. a /\ i <= a
      BY <1>1, <1>2, <2>1
    <3> QED
      BY <1>2, <2>2, <3>1
  <2>4. HeaderRight(buffer)
    BY <2>3 DEF HeaderRight
  <2>5. FrameAhead(buffer) = g
    <3>1. 1 \in 1 .. HeaderChecked /\ 1 - 1 = 0
      BY <1>2
    <3>2. buffer.bytes[At(buffer, 0)] = <<g, 1>>
      BY <2>3, <3>1
    <3> QED
      BY <3>2 DEF FrameAhead
  <2>6. LengthAccepted(buffer)
    BY <2>1, <2>5 DEF LengthAccepted
  <2>7. ASSUME HasFrame(buffer) PROVE CrcRight(buffer)
    <3>1. FrameSize(g) <= a
      BY <1>1, <2>1, <2>5, <2>7 DEF HasFrame
    <3>2. \A i \in 1 .. FrameSize(g) : buffer.bytes[At(buffer, i - 1)] = <<g, i>>
      <4> TAKE i \in 1 .. FrameSize(g)
      <4>1. i \in 1 .. a /\ i <= a
        BY <1>1, <2>1, <3>1
      <4> QED
        BY <1>2, <2>2, <4>1
    <3> QED
      BY <2>5, <3>2 DEF CrcRight, peek, Wire
  <2> QED
    BY <2>4, <2>6, <2>7 DEF FrameRejected, Rejected
<1>4. \A i \in 1 .. 1, f \in Frames :
         PayloadSize[f] <= MaxPayload => ~ Stream!MayBeFrameAt(i, Wire(f))
  <2> SUFFICES ASSUME NEW i \in 1 .. 1, NEW f \in Frames, PayloadSize[f] <= MaxPayload,
                      Stream!MayBeFrameAt(i, Wire(f))
               PROVE  FALSE
    OBVIOUS
  <2>1. i = 1
    OBVIOUS
  <2> QED
    BY <1>3, <2>1
<1> QED
  BY <1>1, <1>4, SkipStep DEF FrameRejected, AfterFailure

(* An accepted frame is the next of the stream, and delivered.             *)
LEMMA AcceptanceImplements ==
    ASSUME ParserInv, FrameAccepted
    PROVE  Stream!Next
<1> DEFINE f == FrameAhead(buffer)
           m == FrameSize(f)
           a == available(buffer)
           u == Unread(buffer)
<1>1. f \in Frames /\ m \in Nat \ {0}
  BY HeaderNamesFrame DEF FrameAccepted, Accepted
<1>2. a \in Nat /\ m <= a /\ peek(buffer, m) = Wire(f) /\ m <= max_frame_size
  BY AtPlaces DEF FrameAccepted, Accepted, HasFrame, CrcRight, LengthAccepted, ParserInv
<1>3. PayloadSize[f] <= MaxPayload
  BY <1>1, <1>2, ParserAssumption DEF FrameSize, max_frame_size
<1>4. Len(Wire(f)) = m /\ Wire(f) \in Seq(Bytes)
      /\ \A g \in Frames : Wire(f) = Wire(g) => f = g
  BY <1>1, WireIsSeq
<1>5. u \in Seq(Bytes) /\ Len(u) = a
      /\ \A i \in 1 .. a : u[i] = buffer.bytes[At(buffer, i - 1)]
  BY <1>2, PeekIsSeq DEF Unread, ParserInv
<1>6. Unread(buffer') = SubSeq(u, m + 1, Len(u))
  <2>1. buffer' = discard(buffer, m) /\ m \in 0 .. available(buffer)
    BY <1>1, <1>2 DEF FrameAccepted
  <2> QED
    BY <2>1, DiscardDrops DEF ParserInv
<1>7. SubSeq(u, 1, m) = Wire(f)
  <2>1. \A i \in 1 .. m : u[i] \in Bytes
    BY <1>1, <1>2, <1>5
  <2>2. /\ SubSeq(u, 1, m) \in Seq(Bytes) /\ Len(SubSeq(u, 1, m)) = m
        /\ \A i \in 1 .. m : SubSeq(u, 1, m)[i] = u[i]
    BY <1>1, <2>1, SubSeqProperties
  <2>3. \A i \in 1 .. m : u[i] = Wire(f)[i]
    BY <1>1, <1>2, <1>5 DEF peek
  <2> QED
    BY <1>4, <2>2, <2>3, SeqEqual
<1>8. (IF delivered' = NoFrame THEN <<>> ELSE Wire(delivered'))
        = IF Wire(f) \in {Wire(g) : g \in Registered} THEN Wire(f)
          ELSE IF delivered = NoFrame THEN <<>> ELSE Wire(delivered)
  <2>1. Wire(f) \in {Wire(g) : g \in Registered} <=> f \in Registered
    BY <1>4, ParserAssumption
  <2>2. delivered' = IF f \in Registered THEN f ELSE delivered
    BY DEF FrameAccepted
  <2>3. f # NoFrame
    BY <1>1, ParserAssumption
  <2> QED
    BY <2>1, <2>2, <2>3
<1> HIDE DEF f, m, a, u
<1>9. Stream!Deliver(Wire(f))
  <2>1. Len(u) >= Len(Wire(f))
    BY <1>1, <1>2, <1>4, <1>5
  <2>2. SubSeq(u, 1, 1 + Len(Wire(f)) - 1) = Wire(f)
    <3>1. 1 + m - 1 = m
      BY <1>1
    <3> QED
      BY <1>4, <1>7, <3>1
  <2> QED
    BY <1>4, <1>6, <1>8, <2>1, <2>2 DEF Stream!Deliver, Stream!IsFrameAt, Unread, u
<1> QED
  BY <1>1, <1>3, <1>9 DEF Stream!Next

(* Every step of the parser is one of the stream, or invisible there.      *)
LEMMA StreamStep == ParserInv /\ [Next]_vars => [Stream!Next]_(Stream!vars)
<1> SUFFICES ASSUME ParserInv, [Next]_vars PROVE [Stream!Next]_(Stream!vars)
  OBVIOUS
<1>1. CASE clear_buffer
  <2>1. available(buffer') = 0
    BY <1>1 DEF clear_buffer, available, EmptyBip
  <2>2. peek(buffer', 0) = <<>>
    BY DEF peek
  <2>3. Stream!Clear
    BY <1>1, <2>1, <2>2 DEF clear_buffer, Stream!Clear
  <2> QED
    BY <2>3 DEF Stream!Next
<1>2. CASE NothingLeft \/ FrameIncomplete \/ UNCHANGED vars
  BY <1>2 DEF NothingLeft, FrameIncomplete, vars, Stream!vars
<1> QED
  BY <1>1, <1>2, ArrivalsImplement, ScansImplement, RejectionImplements,
     AcceptanceImplements
  DEF Next, try_parse_packets

(* Whatever the sizes of the buffer and the frames and whatever arrives,   *)
(* the parser over its two regions loses no frame: it gives up a byte only *)
(* if no frame it could take begins there, and delivers what arrived       *)
(* intact.                                                                 *)
THEOREM ParserImplementsStream == Spec => ImplementsStream
<1>1. Init => Stream!Init
  <2> SUFFICES ASSUME Init PROVE Stream!Init
    OBVIOUS
  <2>1. available(buffer) = 0
    BY DEF Init, available, EmptyBip
  <2>2. peek(buffer, 0) = <<>>
    BY DEF peek
  <2> QED
    BY <2>1, <2>2 DEF Init, Stream!Init
<1>2. ParserInv /\ [Next]_vars => [Stream!Next]_(Stream!vars)
  BY StreamStep
<1> QED
  BY <1>1, <1>2, ParserInvariance, PTL DEF Spec, ImplementsStream, Stream!Spec
=============================================================================
