------------------------ MODULE ProtocolStack_proofs ------------------------
(***************************************************************************)
(* One endpoint in an arbitrary environment, for every packet that may     *)
(* arrive, every queue capacity, window and cache: the invariants of its   *)
(* session and of the stack around it, what the transmit queue gives up    *)
(* when it is full, and, with a window of 1, the bytes of retransmissions. *)
(*                                                                         *)
(* Last, the session of module MCSessionHost, by itself: its ring of       *)
(* responses implements the sliding window.                                *)
(*                                                                         *)
(* The environment is that of module MCProtocolStack, whose definitions    *)
(* for the small instances (the packets of EndpointArrivals and so on)     *)
(* play no part here.                                                      *)
(***************************************************************************)
EXTENDS MCProtocolStack, MCSessionHost, ReliableSession_proofs, SequenceTheorems

-----------------------------------------------------------------------------
(***************************************************************************)
(* The transmit queue.                                                     *)
(***************************************************************************)

(* Removing the element at i moves those behind it up by one.              *)
LEMMA RemoveAtEffect ==
    ASSUME NEW S, NEW q \in Seq(S), NEW i \in 1 .. Len(q)
    PROVE  /\ RemoveAt(q, i) \in Seq(S)
           /\ Len(RemoveAt(q, i)) = Len(q) - 1
           /\ \A j \in 1 .. Len(q) - 1 :
                 RemoveAt(q, i)[j] = IF j < i THEN q[j] ELSE q[j + 1]
<1> DEFINE front == SubSeq(q, 1, i - 1)
           back == SubSeq(q, i + 1, Len(q))
<1>1. Len(q) \in Nat /\ \A j \in 1 .. Len(q) : q[j] \in S
  BY LenProperties, ElementOfSeq
<1>2. /\ front \in Seq(S) /\ Len(front) = i - 1
      /\ \A j \in 1 .. i - 1 : front[j] = q[j]
  <2>1. \A j \in 1 .. i - 1 : q[j] \in S
    BY <1>1
  <2> QED
    BY <1>1, <2>1, SubSeqProperties
<1>3. /\ back \in Seq(S) /\ Len(back) = Len(q) - i
      /\ \A j \in 1 .. Len(q) - i : back[j] = q[i + j]
  <2>1. \A j \in i + 1 .. Len(q) : q[j] \in S
    BY <1>1
  <2>2. /\ SubSeq(q, i + 1, Len(q)) \in Seq(S)
        /\ Len(SubSeq(q, i + 1, Len(q)))
             = IF i + 1 <= Len(q) THEN Len(q) - (i + 1) + 1 ELSE 0
        /\ \A j \in 1 .. Len(q) - (i + 1) + 1 :
              SubSeq(q, i + 1, Len(q))[j] = q[(i + 1) + j - 1]
    BY <1>1, <2>1, SubSeqProperties
  <2> QED
    BY <1>1, <2>2
<1> HIDE DEF front, back
<1>4. /\ front \o back \in Seq(S)
      /\ Len(front \o back) = Len(front) + Len(back)
      /\ \A j \in 1 .. Len(front) + Len(back) :
            (front \o back)[j] = IF j <= Len(front) THEN front[j] ELSE back[j - Len(front)]
  BY <1>2, <1>3, ConcatProperties
<1>5. RemoveAt(q, i) = front \o back
  BY DEF RemoveAt, front, back
<1>6. Len(front) + Len(back) = Len(q) - 1
  BY <1>1, <1>2, <1>3
<1>7. ASSUME NEW j \in 1 .. Len(q) - 1
      PROVE  (front \o back)[j] = IF j < i THEN q[j] ELSE q[j + 1]
  <2>1. CASE j < i
    BY <1>1, <1>2, <1>4, <1>6, <2>1
  <2>2. CASE ~ j < i
    <3>1. j - Len(front) \in 1 .. Len(q) - i /\ i + (j - Len(front)) = j + 1
      BY <1>1, <1>2, <2>2
    <3>2. (front \o back)[j] = back[j - Len(front)]
      BY <1>1, <1>2, <1>4, <1>6, <2>2
    <3> QED
      BY <1>3, <2>2, <3>1, <3>2
  <2> QED
    BY <2>1, <2>2
<1> QED
  BY <1>4, <1>5, <1>6, <1>7

(* Front drops the newest element.                                         *)
LEMMA FrontEffect ==
    ASSUME NEW S, NEW q \in Seq(S), Len(q) > 0
    PROVE  Front(q) \in Seq(S) /\ Len(Front(q)) = Len(q) - 1
<1> DEFINE front == SubSeq(q, 1, Len(q) - 1)
<1>1. Len(q) \in Nat /\ \A i \in 1 .. Len(q) - 1 : q[i] \in S
  BY LenProperties, ElementOfSeq
<1>2. /\ front \in Seq(S)
      /\ Len(front) = IF 1 <= Len(q) - 1 THEN (Len(q) - 1) - 1 + 1 ELSE 0
      /\ Front(q) = front
  BY <1>1, SubSeqProperties DEF Front
<1> HIDE DEF front
<1> QED
  BY <1>1, <1>2

(* drop_one_telemetry removes a telemetry frame.                           *)
LEMMA DropEffect ==
    ASSUME NEW q \in Seq(Frames), Telemetry(q) # {}
    PROVE  \E i \in Telemetry(q) :
              /\ i \in 1 .. Len(q)
              /\ drop_one_telemetry(q) = RemoveAt(q, i)
<1>1. Telemetry(q) \in SUBSET Nat
  BY DEF Telemetry
<1>2. \E i \in Telemetry(q) : \A j \in Telemetry(q) : i <= j
  BY <1>1, LeastOfNats
<1> QED
  BY <1>2 DEF drop_one_telemetry, Telemetry

(* What a queue becomes when a frame gets in.                              *)
Room(q, base) ==
    \/ base = q
    \/ Telemetry(q) # {} /\ base = drop_one_telemetry(q)
    \/ IsFull(q) /\ Telemetry(q) = {} /\ base = Front(q)

(* It is a queue with room for one more frame.                             *)
LEMMA RoomEffect ==
    ASSUME NEW q \in Seq(Frames), NEW base, Room(q, base), Len(q) <= TxQueueCap,
           base = q => Len(q) < TxQueueCap
    PROVE  base \in Seq(Frames) /\ Len(base) < TxQueueCap
<1>1. CASE base = q
  BY <1>1
<1>2. CASE Telemetry(q) # {} /\ base = drop_one_telemetry(q)
  <2>1. PICK i \in 1 .. Len(q) : base = RemoveAt(q, i)
    BY <1>2, DropEffect
  <2> QED
    BY <2>1, RemoveAtEffect, StackAssumption
<1>3. CASE IsFull(q) /\ base = Front(q)
  <2>1. Len(q) \in Nat /\ Len(q) > 0
    BY <1>3, StackAssumption DEF IsFull
  <2>2. base \in Seq(Frames) /\ Len(base) = Len(q) - 1
    BY <1>3, <2>1, FrontEffect
  <2> QED
    BY <2>1, <2>2, StackAssumption
<1> QED
  BY <1>1, <1>2, <1>3 DEF Room

(* A priority or telemetry frame is refused or gets in that way,           *)
LEMMA PrebuiltEffect ==
    ASSUME NEW q \in Seq(Frames), NEW f \in Frames, NEW priority
    PROVE  \/ enqueue_prebuilt_frame(q, f, priority) = q
           \/ \E base : /\ Room(q, base) /\ (base = q => Len(q) < TxQueueCap)
                        /\ enqueue_prebuilt_frame(q, f, priority) = Append(base, f)
<1>1. Len(q) \in Nat
  OBVIOUS
<1> DEFINE base == IF ~ IsFull(q) THEN q
                   ELSE IF Telemetry(q) # {} THEN drop_one_telemetry(q)
                   ELSE Front(q)
<1>2. base = q => Len(q) < TxQueueCap
  <2>1. CASE ~ IsFull(q)
    BY <1>1, <2>1, StackAssumption DEF IsFull
  <2>2. CASE IsFull(q) /\ Telemetry(q) # {}
    BY <1>1, <2>2, DropEffect, RemoveAtEffect
  <2>3. CASE IsFull(q) /\ Telemetry(q) = {}
    <3>1. Len(q) > 0
      BY <1>1, <2>3, StackAssumption DEF IsFull
    <3>2. Len(Front(q)) = Len(q) - 1
      BY <3>1, FrontEffect
    <3> QED
      BY <1>1, <2>3, <3>2
  <2> QED
    BY <2>1, <2>2, <2>3
<1>3. Room(q, base)
  BY DEF Room
<1>4. \/ enqueue_prebuilt_frame(q, f, priority) = q
      \/ enqueue_prebuilt_frame(q, f, priority) = Append(base, f)
  BY DEF enqueue_prebuilt_frame
<1> QED
  BY <1>2, <1>3, <1>4

(* and so is a request, unless its type is foreign to the stack: then the  *)
(* room is made for nothing.                                               *)
LEMMA PendingEffect ==
    ASSUME NEW q \in Seq(Frames), NEW f \in Frames
    PROVE  \/ enqueue_pending_frame(q, f) = q
           \/ Telemetry(q) # {} /\ enqueue_pending_frame(q, f) = drop_one_telemetry(q)
           \/ \E base : /\ Room(q, base) /\ (base = q => Len(q) < TxQueueCap)
                        /\ enqueue_pending_frame(q, f) = Append(base, f)
<1>1. Len(q) \in Nat
  OBVIOUS
<1>2. CASE ~ IsFull(q)
  BY <1>1, <1>2, StackAssumption DEF enqueue_pending_frame, IsFull, Room
<1>3. CASE IsFull(q) /\ Telemetry(q) # {}
  <2>1. Room(q, drop_one_telemetry(q)) /\ drop_one_telemetry(q) # q
    BY <1>1, <1>3, DropEffect, RemoveAtEffect DEF Room
  <2> QED
    BY <1>3, <2>1 DEF enqueue_pending_frame
<1>4. CASE IsFull(q) /\ Telemetry(q) = {}
  BY <1>4 DEF enqueue_pending_frame, CanEnqueuePending
<1> QED
  BY <1>2, <1>3, <1>4

(* Either way the queue stays one of frames and within its capacity.       *)
Fits(q) == q \in Seq(Frames) /\ Len(q) <= TxQueueCap

(* A queue that fits still fits after either.                              *)
LEMMA EnqueueFits ==
    ASSUME NEW q, Fits(q), NEW f \in Frames, NEW priority
    PROVE  /\ Fits(enqueue_prebuilt_frame(q, f, priority))
           /\ Fits(enqueue_pending_frame(q, f))
<1>1. ASSUME NEW base, Room(q, base), base = q => Len(q) < TxQueueCap
      PROVE  Fits(Append(base, f))
  <2>1. base \in Seq(Frames) /\ Len(base) < TxQueueCap
    BY <1>1, RoomEffect DEF Fits
  <2> QED
    BY <2>1, StackAssumption DEF Fits
<1>2. q \in Seq(Frames)
  BY DEF Fits
<1>3. Fits(enqueue_prebuilt_frame(q, f, priority))
  BY <1>1, <1>2, PrebuiltEffect
<1>4. Telemetry(q) # {} => Fits(drop_one_telemetry(q))
  <2> HAVE Telemetry(q) # {}
  <2>1. PICK i \in 1 .. Len(q) : drop_one_telemetry(q) = RemoveAt(q, i)
    BY <1>2, DropEffect
  <2> QED
    BY <1>2, <2>1, RemoveAtEffect, StackAssumption DEF Fits
<1>5. Fits(enqueue_pending_frame(q, f))
  BY <1>1, <1>2, <1>4, PendingEffect
<1> QED
  BY <1>3, <1>5

-----------------------------------------------------------------------------
(* Nothing reliable leaves an unchanged queue,                             *)
LEMMA KeepsItself ==
    ASSUME NEW q \in Seq(Frames)
    PROVE  KeepsReliable(q, q)
<1> DEFINE at == [i \in Reliable(q) |-> i]
<1>1. at \in [Reliable(q) -> Reliable(q)]
  OBVIOUS
<1>2. \A i \in Reliable(q), m \in Reliable(q) :
         m <= at[i] => \E j \in Reliable(q) : at[j] = m
  OBVIOUS
<1> QED
  BY <1>1, <1>2 DEF KeepsReliable

(* one that grows at the end,                                              *)
LEMMA KeepsAppended ==
    ASSUME NEW q \in Seq(Frames), NEW f \in Frames
    PROVE  KeepsReliable(q, Append(q, f))
<1> DEFINE r == Append(q, f)
           at == [i \in Reliable(q) |-> i]
<1>1. Len(q) \in Nat /\ Len(r) = Len(q) + 1 /\ \A i \in 1 .. Len(q) : r[i] = q[i]
  OBVIOUS
<1> HIDE DEF r
<1>2. Reliable(r) \cap (1 .. Len(q)) = Reliable(q) /\ Reliable(q) \subseteq 1 .. Len(q)
  BY <1>1 DEF Reliable, Telemetry
<1>3. at \in [Reliable(q) -> Reliable(r)]
  BY <1>2
<1>4. \A i \in Reliable(q) : r[at[i]] = q[i]
  BY <1>1, <1>2
<1>5. \A i \in Reliable(q), m \in Reliable(r) :
         m <= at[i] => \E j \in Reliable(q) : at[j] = m
  <2> TAKE i \in Reliable(q), m \in Reliable(r)
  <2> HAVE m <= at[i]
  <2>1. m \in Reliable(q)
    BY <1>1, <1>2 DEF Reliable
  <2> QED
    BY <2>1
<1>6. \A i, j \in Reliable(q) : i < j => at[i] < at[j]
  OBVIOUS
<1> QED
  BY <1>3, <1>4, <1>5, <1>6 DEF KeepsReliable, r

(* or one that gives up a telemetry frame.                                 *)
LEMMA KeepsDropped ==
    ASSUME NEW q \in Seq(Frames), NEW t \in Telemetry(q)
    PROVE  KeepsReliable(q, RemoveAt(q, t))
<1> DEFINE r == RemoveAt(q, t)
           at == [i \in Reliable(q) |-> IF i < t THEN i ELSE i - 1]
<1>1. t \in 1 .. Len(q) /\ Len(q) \in Nat
  BY DEF Telemetry
<1>2. /\ Len(r) = Len(q) - 1
      /\ \A j \in 1 .. Len(q) - 1 : r[j] = IF j < t THEN q[j] ELSE q[j + 1]
  BY <1>1, RemoveAtEffect
<1> HIDE DEF r
<1>3. /\ Reliable(q) \subseteq (1 .. Len(q)) \ {t}
      /\ Reliable(r) \subseteq 1 .. Len(q) - 1
      /\ \A i \in 1 .. Len(q) : i \in Reliable(q) <=> ~ is_telemetry_cmd(q[i].cmd)
      /\ \A i \in 1 .. Len(q) - 1 : i \in Reliable(r) <=> ~ is_telemetry_cmd(r[i].cmd)
  BY <1>1, <1>2 DEF Reliable, Telemetry
<1>4. \A i \in Reliable(q) :
         /\ at[i] \in 1 .. Len(q) - 1
         /\ at[i] = IF i < t THEN i ELSE i - 1
         /\ r[at[i]] = q[i]
  <2> SUFFICES ASSUME NEW i \in Reliable(q)
               PROVE  /\ at[i] \in 1 .. Len(q) - 1
                      /\ at[i] = IF i < t THEN i ELSE i - 1
                      /\ r[at[i]] = q[i]
    OBVIOUS
  <2>1. i \in 1 .. Len(q) /\ i # t
    BY <1>3
  <2>2. CASE i < t
    BY <1>1, <1>2, <2>1, <2>2
  <2>3. CASE i > t
    <3>1. i - 1 \in 1 .. Len(q) - 1 /\ ~ i - 1 < t /\ (i - 1) + 1 = i /\ ~ i < t
      BY <1>1, <2>1, <2>3
    <3>2. r[i - 1] = q[i]
      BY <1>2, <3>1
    <3> QED
      BY <3>1, <3>2
  <2> QED
    BY <1>1, <2>1, <2>2, <2>3
<1>5. at \in [Reliable(q) -> Reliable(r)]
  <2>1. \A i \in Reliable(q) : at[i] \in Reliable(r)
    BY <1>1, <1>3, <1>4
  <2> QED
    BY <2>1
<1>6. \A i, j \in Reliable(q) : i < j => at[i] < at[j]
  BY <1>1, <1>3, <1>4
<1>7. \A i \in Reliable(q), m \in Reliable(r) :
         m <= at[i] => \E j \in Reliable(q) : at[j] = m
  <2> TAKE i \in Reliable(q), m \in Reliable(r)
  <2> HAVE m <= at[i]
  <2> DEFINE j == IF m < t THEN m ELSE m + 1
  <2>1. m \in 1 .. Len(q) - 1
    BY <1>1, <1>3, <1>4
  <2>2. j \in 1 .. Len(q) /\ q[j] = r[m]
    BY <1>1, <1>2, <2>1
  <2>3. j \in Reliable(q)
    BY <1>1, <1>3, <2>1, <2>2
  <2>4. at[j] = m
    BY <1>1, <1>4, <2>1, <2>3
  <2> QED
    BY <2>3, <2>4
<1> HIDE DEF at
<1> QED
  BY <1>4, <1>5, <1>6, <1>7 DEF KeepsReliable, r

(* Two steps that keep the reliable frames keep them together.             *)
LEMMA KeepsTwice ==
    ASSUME NEW q \in Seq(Frames), NEW r \in Seq(Frames), NEW s \in Seq(Frames),
           KeepsReliable(q, r), KeepsReliable(r, s)
    PROVE  KeepsReliable(q, s)
<1>1. PICK f \in [Reliable(q) -> Reliable(r)] :
        /\ \A i \in Reliable(q) : r[f[i]] = q[i]
        /\ \A i, j \in Reliable(q) : i < j => f[i] < f[j]
        /\ \A i \in Reliable(q), m \in Reliable(r) :
              m <= f[i] => \E j \in Reliable(q) : f[j] = m
  BY DEF KeepsReliable
<1>2. PICK g \in [Reliable(r) -> Reliable(s)] :
        /\ \A i \in Reliable(r) : s[g[i]] = r[i]
        /\ \A i, j \in Reliable(r) : i < j => g[i] < g[j]
        /\ \A i \in Reliable(r), m \in Reliable(s) :
              m <= g[i] => \E j \in Reliable(r) : g[j] = m
  BY DEF KeepsReliable
<1> DEFINE at == [i \in Reliable(q) |-> g[f[i]]]
<1>3. at \in [Reliable(q) -> Reliable(s)] /\ \A i \in Reliable(q) : s[at[i]] = q[i]
  BY <1>1, <1>2
<1>4. \A i, j \in Reliable(q) : i < j => at[i] < at[j]
  BY <1>1, <1>2
<1>5. \A i \in Reliable(q), m \in Reliable(s) :
         m <= at[i] => \E j \in Reliable(q) : at[j] = m
  <2> TAKE i \in Reliable(q), m \in Reliable(s)
  <2> HAVE m <= at[i]
  <2>1. PICK k \in Reliable(r) : g[k] = m
    BY <1>1, <1>2
  <2>2. Reliable(r) \subseteq Nat /\ Reliable(s) \subseteq Nat
    BY DEF Reliable
  <2>3. k <= f[i]
    <3>1. f[i] < k => g[f[i]] < m
      BY <1>1, <1>2, <2>1
    <3> QED
      BY <1>1, <1>2, <2>1, <2>2, <3>1
  <2>4. PICK j \in Reliable(q) : f[j] = k
    BY <1>1, <2>3
  <2> QED
    BY <2>1, <2>4
<1> HIDE DEF at
<1> QED
  BY <1>3, <1>4, <1>5 DEF KeepsReliable

(* So a frame that gets in while there is telemetry costs no reliable one, *)
(* and neither does making room for one that is refused.                   *)
LEMMA RoomKeeps ==
    ASSUME NEW q \in Seq(Frames), Telemetry(q) # {}, NEW f \in Frames
    PROVE  /\ KeepsReliable(q, drop_one_telemetry(q))
           /\ \A base : Room(q, base) => KeepsReliable(q, Append(base, f))
<1>1. PICK t \in Telemetry(q) : t \in 1 .. Len(q) /\ drop_one_telemetry(q) = RemoveAt(q, t)
  BY DropEffect
<1> DEFINE rest == RemoveAt(q, t)
<1>2. rest \in Seq(Frames) /\ KeepsReliable(q, rest)
  BY <1>1, RemoveAtEffect, KeepsDropped
<1> HIDE DEF rest
<1>3. KeepsReliable(q, Append(rest, f))
  <2> DEFINE longer == Append(rest, f)
  <2>1. longer \in Seq(Frames) /\ KeepsReliable(rest, longer)
    BY <1>2, KeepsAppended
  <2> HIDE DEF longer
  <2>2. KeepsReliable(q, longer)
    BY <1>2, <2>1, KeepsTwice
  <2> QED
    BY <2>2 DEF longer
<1>4. \A base : Room(q, base) => base = q \/ base = rest
  BY <1>1 DEF Room, rest
<1> QED
  BY <1>1, <1>2, <1>3, <1>4, KeepsAppended DEF rest

(* Both ways of queueing a frame keep them.                                *)
LEMMA EnqueueKeeps ==
    ASSUME NEW q \in Seq(Frames), Telemetry(q) # {}, NEW f \in Frames, NEW priority
    PROVE  /\ KeepsReliable(q, enqueue_prebuilt_frame(q, f, priority))
           /\ KeepsReliable(q, enqueue_pending_frame(q, f))
<1>1. /\ KeepsReliable(q, q) /\ KeepsReliable(q, drop_one_telemetry(q))
      /\ \A base : Room(q, base) => KeepsReliable(q, Append(base, f))
  BY KeepsItself, RoomKeeps
<1>2. KeepsReliable(q, enqueue_prebuilt_frame(q, f, priority))
  <2> DEFINE r == enqueue_prebuilt_frame(q, f, priority)
  <2>1. r = q \/ \E base : Room(q, base) /\ r = Append(base, f)
    BY PrebuiltEffect
  <2> HIDE DEF r
  <2>2. KeepsReliable(q, r)
    BY <1>1, <2>1
  <2> QED
    BY <2>2 DEF r
<1>3. KeepsReliable(q, enqueue_pending_frame(q, f))
  <2> DEFINE r == enqueue_pending_frame(q, f)
  <2>1. \/ r = q \/ r = drop_one_telemetry(q)
        \/ \E base : Room(q, base) /\ r = Append(base, f)
    BY PendingEffect
  <2> HIDE DEF r
  <2>2. KeepsReliable(q, r)
    BY <1>1, <2>1
  <2> QED
    BY <2>2 DEF r
<1> QED
  BY <1>2, <1>3

(* Two priority frames in a row, as for a duplicate with a cached answer:  *)
(* the second displaces the first rather than a reliable frame before it.  *)
LEMMA EnqueueTwiceKeeps ==
    ASSUME NEW q, Fits(q), Telemetry(q) # {}, NEW f \in Frames, NEW g \in Frames
    PROVE  KeepsReliable(q, enqueue_prebuilt_frame(enqueue_prebuilt_frame(q, f, TRUE), g, TRUE))
<1> DEFINE r == enqueue_prebuilt_frame(q, f, TRUE)
           s == enqueue_prebuilt_frame(r, g, TRUE)
<1> SUFFICES KeepsReliable(q, s)
  OBVIOUS
<1>1. Fits(r) /\ Fits(s) /\ q \in Seq(Frames) /\ KeepsReliable(q, r)
  BY EnqueueFits, EnqueueKeeps DEF Fits
<1>2. CASE Telemetry(r) # {}
  <2>1. KeepsReliable(r, s)
    BY <1>1, <1>2, EnqueueKeeps DEF Fits
  <2> QED
    BY <1>1, <2>1, KeepsTwice DEF Fits
<1>3. CASE Telemetry(r) = {}
  <2>1. PICK base : Room(q, base) /\ (base = q => Len(q) < TxQueueCap) /\ r = Append(base, f)
    <3>1. r # q
      BY <1>3
    <3> QED
      BY <1>1, <3>1, PrebuiltEffect
  <2>2. base \in Seq(Frames) /\ r \in Seq(Frames)
    BY <1>1, <2>1, RoomEffect DEF Fits
  <2>3. PICK rest : Room(r, rest) /\ (s = r \/ s = Append(rest, g))
    <3>1. \E rest : Room(r, rest)
      BY DEF Room
    <3> QED
      BY <2>2, <3>1, PrebuiltEffect
  <2> HIDE DEF r, s
  <2>4. CASE s = r
    BY <1>1, <2>4
  <2>5. CASE s = Append(rest, g) /\ rest = r
    <3>1. KeepsReliable(r, s)
      BY <2>2, <2>5, KeepsAppended
    <3> QED
      BY <1>1, <3>1, KeepsTwice DEF Fits
  <2>6. CASE s = Append(rest, g) /\ rest = Front(r)
    <3>1. rest = base
      <4>1. /\ Len(base) \in Nat /\ Len(r) = Len(base) + 1
            /\ \A i \in 1 .. Len(base) : r[i] = base[i]
        BY <2>1, <2>2
      <4>2. rest = SubSeq(r, 1, Len(base))
        BY <2>6, <4>1 DEF Front
      <4>3. \A i \in 1 .. Len(base) : r[i] \in Frames
        BY <2>2, <4>1, ElementOfSeq
      <4>4. /\ rest \in Seq(Frames)
            /\ Len(rest) = IF 1 <= Len(base) THEN Len(base) - 1 + 1 ELSE 0
            /\ \A i \in 1 .. Len(base) - 1 + 1 : rest[i] = r[1 + i - 1]
        BY <4>1, <4>2, <4>3, SubSeqProperties
      <4>5. Len(rest) = Len(base) /\ \A i \in 1 .. Len(rest) : rest[i] = base[i]
        BY <4>1, <4>4
      <4> QED
        BY <2>2, <4>4, <4>5, SeqEqual
    <3> QED
      BY <1>1, <2>1, <2>6, <3>1, RoomKeeps
  <2> QED
    BY <1>3, <2>3, <2>4, <2>5, <2>6 DEF Room
<1> QED
  BY <1>2, <1>3

-----------------------------------------------------------------------------
(***************************************************************************)
(* The endpoint.                                                           *)
(***************************************************************************)
RetryEntries == [cmd : RequestCmds, tx : TxIds, body : Callers, valid : BOOLEAN]

\* A packet that may be answered is a request of the peer.
Answerable(p) == is_reliable(p.cmd) /\ p.tx # 0 => p.cmd \in RequestCmds /\ p.body \in Callers

StackOK ==
    /\ Fits(m_tx_queue)
    /\ m_handlers \subseteq HandlerCmds
    /\ phase \in {"rx", "handler", "outbound", "poll", "errors", "requeue", "tx"}
    /\ running \in Frames /\ Answerable(running)
    /\ phase # "handler" => running = NoPacket
    /\ retries \in Seq(RetryEntries)
    /\ phase \notin {"errors", "requeue"} => retries = <<>>
    /\ phase = "requeue" => retries # <<>>

StackInv == SessionInv /\ StackOK

\* What a step outside drain_tx does to the queue.
QueueStep == Telemetry(m_tx_queue) # {} => KeepsReliable(m_tx_queue, m_tx_queue')

(* The frames the endpoint builds.                                         *)
LEMMA FrameTypes ==
    /\ NoPacket \in Frames /\ Answerable(NoPacket) /\ 0 \in TxIds
    /\ \A tx \in TxIds : [cmd |-> ACK_CMD, tx |-> tx, body |-> NoBody] \in Frames
    /\ \A cmd \in RequestCmds \cup ResponseCmds, tx \in TxIds, body \in Callers :
          [cmd |-> cmd, tx |-> tx, body |-> body] \in Frames
    /\ \A cmd \in TelemetryCmds : [cmd |-> cmd, tx |-> 0, body |-> NoBody] \in Frames
<1>1. 0 \in TxIds
  BY SessionAssumption DEF TxIds
<1> QED
  BY <1>1, StackAssumption, ArrivalAssumption DEF NoPacket, Frames, ACK_CMD, Answerable

(* A step that leaves the session alone.                                   *)
LEMMA SessionSame ==
    ASSUME SessionInv, UNCHANGED session_vars
    PROVE  SessionInv'
BY StepInv

(* A step that leaves the queue alone.                                     *)
LEMMA QueueSame ==
    ASSUME StackOK, UNCHANGED m_tx_queue
    PROVE  Fits(m_tx_queue)' /\ QueueStep
<1>1. Fits(m_tx_queue)'
  BY DEF StackOK, Fits
<1> QED
  BY <1>1, KeepsItself DEF QueueStep, StackOK, Fits

(* One frame into the queue.                                               *)
LEMMA QueueOne ==
    ASSUME StackOK, NEW f \in Frames, NEW priority,
           \/ m_tx_queue' = enqueue_prebuilt_frame(m_tx_queue, f, priority)
           \/ m_tx_queue' = enqueue_pending_frame(m_tx_queue, f)
    PROVE  Fits(m_tx_queue)' /\ QueueStep
<1>1. Fits(m_tx_queue) /\ m_tx_queue \in Seq(Frames)
  BY DEF StackOK, Fits
<1>2. Fits(m_tx_queue')
  BY <1>1, EnqueueFits
<1>3. Telemetry(m_tx_queue) # {} => KeepsReliable(m_tx_queue, m_tx_queue')
  BY <1>1, EnqueueKeeps
<1> QED
  BY <1>2, <1>3 DEF QueueStep, Fits, Frames

(* The rest of the stack, for the steps that only move the phase.          *)
LEMMA HandlerRuns ==
    ASSUME StackOK, phase = "rx", NEW p \in Frames, Answerable(p), RunHandler(p),
           Fits(m_tx_queue)'
    PROVE  StackOK'
BY FrameTypes DEF StackOK, RunHandler, Answerable

(* A step that leaves all but the queue alone.                             *)
LEMMA StackSame ==
    ASSUME StackOK, Fits(m_tx_queue)', UNCHANGED <<m_handlers, phase, running, retries>>
    PROVE  StackOK'
BY DEF StackOK, Answerable

-----------------------------------------------------------------------------
(* A packet arrives.                                                       *)
LEMMA UnreliableStep ==
    ASSUME StackInv, phase = "rx", NEW p \in Arrivals, UnreliablePacket(p)
    PROVE  StackInv' /\ QueueStep
<1>1. p \in Frames /\ Answerable(p)
  BY ArrivalAssumption DEF UnreliablePacket, Answerable
<1> QED
  BY <1>1, SessionSame, QueueSame, HandlerRuns DEF UnreliablePacket, StackInv

(* Telemetry is dispatched; other packets without an id are ignored.       *)
LEMMA UntrackedStep ==
    ASSUME StackInv, phase = "rx", NEW p \in Arrivals, UntrackedPacket(p)
    PROVE  StackInv' /\ QueueStep
<1>1. p \in Frames /\ Answerable(p)
  BY ArrivalAssumption DEF UntrackedPacket, Answerable
<1>2. CASE is_telemetry_cmd(p.cmd)
  BY <1>1, <1>2, SessionSame, QueueSame, HandlerRuns DEF UntrackedPacket, StackInv
<1>3. CASE ~ is_telemetry_cmd(p.cmd)
  BY <1>3, SessionSame, QueueSame, StackSame
  DEF UntrackedPacket, Ignore, StackInv, vars, stack_vars
<1> QED
  BY <1>2, <1>3

(* What a request with a transaction id is.                                *)
LEMMA RequestArrives ==
    ASSUME NEW p \in Arrivals, Route(p.cmd) = "request", p.tx # 0
    PROVE  /\ p.cmd \in RequestCmds /\ p.tx \in TxIds /\ p.body \in Callers
           /\ p \in Frames /\ Answerable(p) /\ AckFrame(p) \in Frames
<1>1. p.cmd # ACK_CMD
  BY DEF Route
<1> QED
  BY <1>1, ArrivalAssumption, FrameTypes DEF Answerable, AckFrame, Frames

(* A duplicate queues an ack and perhaps the cached response.              *)
LEMMA DuplicateStep ==
    ASSUME StackInv, NEW p \in Arrivals, Route(p.cmd) = "request", DuplicateRequest(p)
    PROVE  StackInv' /\ QueueStep
<1> DEFINE key == compose_dedup_key(p.cmd, p.tx)
           response == [cmd |-> m_completed_cache[key].response_cmd, tx |-> p.tx,
                        body |-> m_completed_cache[key].body]
<1>1. /\ p.tx # 0 /\ on_request(p.cmd, p.tx)
      /\ m_tx_queue' =
           LET acked == enqueue_prebuilt_frame(m_tx_queue, AckFrame(p), TRUE)
           IN IF HasCached(p.cmd, p.tx)
              THEN enqueue_prebuilt_frame(acked, response, TRUE) ELSE acked
      /\ UNCHANGED <<m_handlers, phase, running, retries>>
  BY DEF DuplicateRequest
<1>2. SessionInv'
  BY <1>1, RequestArrives, OnRequestInv DEF StackInv
<1>3. AckFrame(p) \in Frames
  BY <1>1, RequestArrives
<1>4. CASE HasCached(p.cmd, p.tx)
  <2>1. response \in Frames
    <3>1. m_completed_cache[key] \in CompletedResponses
      BY <1>4 DEF StackInv, SessionInv, TypeOK, HasCached
    <3> QED
      BY <1>1, <3>1, RequestArrives, FrameTypes DEF CompletedResponses
  <2> HIDE DEF response
  <2>2. Fits(m_tx_queue)
    BY DEF StackInv, StackOK
  <2>3. Fits(m_tx_queue') /\ QueueStep
    BY <1>1, <1>3, <1>4, <2>1, <2>2, EnqueueFits, EnqueueTwiceKeeps DEF QueueStep
  <2>4. Fits(m_tx_queue)'
    BY <2>3 DEF Fits, Frames
  <2> QED
    BY <1>1, <1>2, <2>3, <2>4, StackSame DEF StackInv
<1>5. CASE ~ HasCached(p.cmd, p.tx)
  <2>1. Fits(m_tx_queue)' /\ QueueStep
    BY <1>1, <1>3, <1>5, QueueOne DEF StackInv
  <2> QED
    BY <1>1, <1>2, <2>1, StackSame DEF StackInv
<1> QED
  BY <1>4, <1>5

(* A new request queues its ack and runs its handler.                      *)
LEMMA NewRequestStep ==
    ASSUME StackInv, phase = "rx", NEW p \in Arrivals, Route(p.cmd) = "request", NewRequest(p)
    PROVE  StackInv' /\ QueueStep
<1>1. p.tx # 0 /\ on_request(p.cmd, p.tx) /\ RunHandler(p)
  BY DEF NewRequest
<1>2. Fits(m_tx_queue)' /\ QueueStep
  BY <1>1, RequestArrives, QueueOne DEF NewRequest, StackInv
<1>3. SessionInv'
  BY <1>1, RequestArrives, OnRequestInv DEF StackInv
<1> QED
  BY <1>1, <1>2, <1>3, RequestArrives, HandlerRuns DEF StackInv

(* Any packet of the environment.                                          *)
LEMMA ReceiveStep ==
    ASSUME StackInv, Receive
    PROVE  StackInv' /\ QueueStep
<1>1. PICK p \in Arrivals : handle_packet_internal(p)
  BY DEF Receive
<1>2. phase = "rx"
  BY <1>1 DEF handle_packet_internal
<1>3. CASE Route(p.cmd) = "ack" /\ handle_ack_packet(p)
  <2>1. p.tx \in TxIds /\ on_ack(p.tx) /\ UNCHANGED stack_vars
    BY <1>3, ArrivalAssumption DEF Frames, handle_ack_packet
  <2> QED
    BY <2>1, OnAckInv, QueueSame, StackSame DEF StackInv, stack_vars
<1>4. CASE Route(p.cmd) = "request" /\ handle_request_packet(p)
  BY <1>2, <1>4, UnreliableStep, UntrackedStep, DuplicateStep, NewRequestStep
  DEF handle_request_packet
<1>5. CASE Route(p.cmd) = "response" /\ handle_response_packet(p)
  <2>1. CASE p.tx = 0
    BY <1>5, <2>1, SessionSame, QueueSame, StackSame
    DEF handle_response_packet, Ignore, vars, stack_vars, StackInv
  <2>2. CASE p.tx # 0
    <3>1. p.cmd \in ResponseCmds /\ p.tx \in TxIds /\ p.body \in Callers
      <4>1. p.cmd # ACK_CMD
        BY <1>5 DEF Route
      <4> QED
        BY <1>5, <2>2, <4>1, ArrivalAssumption DEF Frames
    <3>2. on_response(p.cmd, p.tx, p.body) /\ UNCHANGED stack_vars
      BY <1>5, <2>2 DEF handle_response_packet
    <3> QED
      BY <3>1, <3>2, OnResponseInv, QueueSame, StackSame DEF StackInv, stack_vars
  <2> QED
    BY <2>1, <2>2
<1> QED
  BY <1>1, <1>3, <1>4, <1>5 DEF handle_packet_internal

-----------------------------------------------------------------------------
(* The application.                                                        *)
LEMMA HandlerReturnsStep ==
    ASSUME StackInv, HandlerReturns
    PROVE  StackInv' /\ QueueStep
<1>1. SessionInv' /\ Fits(m_tx_queue)' /\ QueueStep
  BY SessionSame, QueueSame DEF HandlerReturns, StackInv
<1>2. StackOK'
  BY <1>1, FrameTypes DEF HandlerReturns, StackInv, StackOK
<1> QED
  BY <1>1, <1>2 DEF StackInv

(* A handler is registered.                                                *)
LEMMA RegisterStep ==
    ASSUME StackInv, NEW cmd \in HandlerCmds, register_handler(cmd)
    PROVE  StackInv' /\ QueueStep
<1>1. SessionInv' /\ Fits(m_tx_queue)' /\ QueueStep
  BY SessionSame, QueueSame DEF register_handler, StackInv
<1>2. StackOK'
  BY <1>1 DEF register_handler, StackInv, StackOK, Answerable
<1> QED
  BY <1>1, <1>2 DEF StackInv

(* Entries that may have moved are entries all the same.                   *)
LEMMA MovedType ==
    ASSUME NEW q \in Seq(RetryEntries)
    PROVE  Moved(q) \in Seq(RetryEntries) /\ (Moved(q) = <<>> <=> q = <<>>)
<1>1. \A i \in 1 .. Len(q) : [q[i] EXCEPT !.valid = FALSE] \in RetryEntries
  <2> TAKE i \in 1 .. Len(q)
  <2>1. q[i] \in RetryEntries
    BY ElementOfSeq
  <2> QED
    BY <2>1 DEF RetryEntries
<1>2. Moved(q) = [i \in 1 .. Len(q) |-> [q[i] EXCEPT !.valid = FALSE]]
  BY DEF Moved
<1>3. Len(q) \in Nat
  OBVIOUS
<1> DEFINE r == [i \in 1 .. Len(q) |-> [q[i] EXCEPT !.valid = FALSE]]
<1>4. r \in Seq(RetryEntries) /\ Len(r) = Len(q)
  BY <1>1, <1>3
<1> HIDE DEF r
<1>5. r = <<>> <=> q = <<>>
  BY <1>4
<1> QED
  BY <1>2, <1>4, <1>5 DEF r

(* A call is made; the map may move under the retries.                     *)
LEMMA SendStep ==
    ASSUME StackInv, NEW k \in Callers, NEW cmd \in RequestCmds,
           NEW timeout \in Timeouts, NEW max_retries \in RetryLimits,
           Send(k, cmd, timeout, max_retries)
    PROVE  StackInv' /\ QueueStep
<1>1. SessionInv' /\ Fits(m_tx_queue)' /\ QueueStep
  BY SendInv, QueueSame DEF Send, StackInv
<1>2. retries' \in Seq(RetryEntries) /\ (retries' = <<>> <=> retries = <<>>)
  BY MovedType DEF Send, StackInv, StackOK
<1>3. StackOK'
  BY <1>1, <1>2 DEF Send, StackInv, StackOK, Answerable
<1> QED
  BY <1>1, <1>3 DEF StackInv

(* A status frame is queued.                                               *)
LEMMA BroadcastStep ==
    ASSUME StackInv, NEW cmd \in TelemetryCmds, broadcast(cmd)
    PROVE  StackInv' /\ QueueStep
<1> DEFINE f == [cmd |-> cmd, tx |-> 0, body |-> NoBody]
<1>1. f \in Frames /\ m_tx_queue' = enqueue_prebuilt_frame(m_tx_queue, f, FALSE)
  BY FrameTypes DEF broadcast
<1>2. SessionInv' /\ Fits(m_tx_queue)' /\ QueueStep
  BY <1>1, SessionSame, QueueOne DEF broadcast, StackInv
<1> QED
  BY <1>2, StackSame DEF broadcast, StackInv

(* The request whose handler runs is answered.                             *)
LEMMA AnswerStep ==
    ASSUME StackInv, AnswerRequest
    PROVE  StackInv' /\ QueueStep
<1> DEFINE response == ResponseOf[running.cmd]
           f == [cmd |-> response, tx |-> running.tx, body |-> running.body]
<1>1. /\ m_tx_queue' = enqueue_prebuilt_frame(m_tx_queue, f, TRUE)
      /\ cache_response(running.cmd, running.tx, response, running.body)
      /\ UNCHANGED <<m_handlers, phase, running, retries>>
  BY DEF AnswerRequest, send_response_and_cache
<1>2. /\ running.cmd \in RequestCmds /\ running.tx \in TxIds /\ running.body \in Callers
      /\ response \in ResponseCmds
  BY SessionAssumption DEF AnswerRequest, StackInv, StackOK, Answerable, Frames
<1>3. f \in Frames
  BY <1>2, FrameTypes
<1>4. SessionInv'
  BY <1>1, <1>2, CacheResponseInv DEF StackInv
<1>5. Fits(m_tx_queue)' /\ QueueStep
  BY <1>1, <1>3, QueueOne DEF StackInv
<1> QED
  BY <1>1, <1>4, <1>5, StackSame DEF StackInv

-----------------------------------------------------------------------------
(* The cycle.                                                              *)
LEMMA PumpStep ==
    ASSUME StackInv, PumpOutbound
    PROVE  StackInv' /\ QueueStep
<1>1. TakeOutbound /\ OutboundTx \in DOMAIN m_pending_by_tx
  BY TakeOutboundEffect DEF PumpOutbound, StackInv
<1>2. RequestFrame(OutboundTx) \in Frames
  <2>1. m_pending_by_tx[OutboundTx] \in PendingEntries /\ OutboundTx \in TxIds
    BY <1>1 DEF StackInv, SessionInv, TypeOK
  <2> QED
    BY <2>1, FrameTypes DEF RequestFrame, PendingEntries
<1>3. SessionInv'
  BY <1>1, TakeOutboundInv DEF StackInv
<1>4. Fits(m_tx_queue)' /\ QueueStep
  BY <1>2, QueueOne DEF PumpOutbound, StackInv
<1>5. StackOK'
  BY <1>4 DEF PumpOutbound, StackInv, StackOK, Answerable
<1> QED
  BY <1>3, <1>4, <1>5 DEF StackInv

(* The steps of the cycle that only move the phase.                        *)
LEMMA QuietCycleStep ==
    ASSUME StackInv, RxDrained \/ OutboundDone \/ ErrorCallbacksReturn \/ FrameKept
    PROVE  StackInv' /\ QueueStep
<1>1. UNCHANGED <<m_tx_queue, m_handlers, running, retries>>
  BY DEF RxDrained, OutboundDone, ErrorCallbacksReturn, FrameKept
<1>2. Fits(m_tx_queue)' /\ QueueStep
  BY <1>1, QueueSame DEF StackInv
<1>3. SessionInv'
  BY SessionSame, NextOutboundInv
  DEF RxDrained, OutboundDone, ErrorCallbacksReturn, FrameKept, StackInv, next_outbound
<1>4. StackOK'
  BY <1>1, <1>2 DEF RxDrained, OutboundDone, ErrorCallbacksReturn, FrameKept,
                    StackInv, StackOK, Answerable
<1> QED
  BY <1>2, <1>3, <1>4 DEF StackInv

(* What poll hands to the loop over the retries.                           *)
LEMMA PollRetries ==
    ASSUME SessionInv, PollSession
    PROVE  /\ retries' \in Seq([cmd : RequestCmds, tx : TxIds, body : Callers, valid : {TRUE}])
           /\ retries' = <<>> <=> Retried = {}
<1> DEFINE Entries == [cmd : RequestCmds, tx : TxIds, body : Callers, valid : {TRUE}]
           n == Cardinality(Retried)
<1>1. PICK order \in SetToSeqs(Retried) :
         retries' = [i \in DOMAIN order |-> RetransmitEntry(order[i])]
  BY DEF PollSession
<1>2. IsFiniteSet(Retried) /\ Retried \subseteq InWindow
  <2>1. Retried \subseteq InWindow
    BY DEF Retried, Due
  <2> QED
    BY <2>1, InWindowFinite, FS_Subset DEF SessionInv
<1>3. n \in Nat /\ (n = 0 <=> Retried = {})
  BY <1>2, FS_CardinalityType, FS_EmptySet
<1>4. order \in [1 .. n -> Retried]
  BY DEF SetToSeqs
<1>5. \A tx \in Retried : RetransmitEntry(tx) \in Entries
  BY <1>2 DEF SessionInv, TypeOK, InWindow, PendingEntries, RetransmitEntry
<1> HIDE DEF n, Entries
<1>6. retries' = [i \in 1 .. n |-> RetransmitEntry(order[i])]
  BY <1>1, <1>4
<1>7. \A i \in 1 .. n : RetransmitEntry(order[i]) \in Entries
  BY <1>4, <1>5
<1>8. retries' \in Seq(Entries) /\ Len(retries') = n
  BY <1>3, <1>6, <1>7
<1>9. retries' = <<>> <=> n = 0
  BY <1>3, <1>8
<1> QED
  BY <1>3, <1>8, <1>9 DEF Entries

(* poll, up to its error callbacks.                                        *)
LEMMA PollStep ==
    ASSUME StackInv, PollSession
    PROVE  StackInv' /\ QueueStep
<1>1. SessionInv'
  BY PollInv DEF PollSession, StackInv
<1>2. Fits(m_tx_queue)' /\ QueueStep
  BY QueueSame DEF PollSession, StackInv
<1>3. retries' \in Seq(RetryEntries) /\ (retries' = <<>> <=> Retried = {})
  <2>1. [cmd : RequestCmds, tx : TxIds, body : Callers, valid : {TRUE}] \subseteq RetryEntries
    BY DEF RetryEntries
  <2> QED
    BY <2>1, PollRetries, SeqMonotonic DEF StackInv
<1>4. StackOK'
  BY <1>2, <1>3 DEF PollSession, StackInv, StackOK, Answerable
<1> QED
  BY <1>1, <1>2, <1>4 DEF StackInv

(* One entry of poll into the queue, whatever its bytes have become.       *)
LEMMA RequeueStep ==
    ASSUME StackInv, RequeueRetry
    PROVE  StackInv' /\ QueueStep
<1> DEFINE r == Head(retries)
<1>1. /\ retries \in Seq(RetryEntries) /\ retries # <<>> /\ phase = "requeue"
      /\ retries' = Tail(retries)
      /\ phase' = IF Len(retries) = 1 THEN "tx" ELSE "requeue"
      /\ UNCHANGED <<session_vars, m_handlers, running>>
  BY DEF RequeueRetry, StackInv, StackOK
<1>2. /\ r \in RetryEntries /\ retries' \in Seq(RetryEntries)
      /\ retries' = <<>> <=> Len(retries) = 1
  <2>1. /\ r \in RetryEntries /\ Tail(retries) \in Seq(RetryEntries)
        /\ Len(Tail(retries)) = Len(retries) - 1 /\ Len(retries) \in Nat
    BY <1>1, HeadTailProperties
  <2>2. Tail(retries) = <<>> <=> Len(Tail(retries)) = 0
    BY <2>1, EmptySeq
  <2> QED
    BY <1>1, <2>1, <2>2
<1>3. PICK b \in (TxIds \X Callers) :
         m_tx_queue' = enqueue_pending_frame(
                         m_tx_queue, [cmd |-> r.cmd, tx |-> b[1], body |-> b[2]])
  <2>1. <<r.tx, r.body>> \in TxIds \X Callers
    BY <1>2 DEF RetryEntries
  <2> QED
    BY <2>1 DEF RequeueRetry
<1>4. [cmd |-> r.cmd, tx |-> b[1], body |-> b[2]] \in Frames
  BY <1>2, <1>3, FrameTypes DEF RetryEntries
<1>5. SessionInv' /\ Fits(m_tx_queue)' /\ QueueStep
  BY <1>1, <1>3, <1>4, SessionSame, QueueOne DEF StackInv
<1> HIDE DEF r
<1>6. StackOK'
  BY <1>1, <1>2, <1>5 DEF StackInv, StackOK, Answerable
<1> QED
  BY <1>5, <1>6 DEF StackInv

(* drain_tx takes from the front.                                          *)
LEMMA FrameSentStep ==
    ASSUME StackInv, FrameSent
    PROVE  StackInv'
<1>1. m_tx_queue \in Seq(Frames) /\ Len(m_tx_queue) <= TxQueueCap /\ m_tx_queue # <<>>
  BY DEF StackInv, StackOK, Fits, FrameSent
<1>2. Fits(m_tx_queue')
  BY <1>1, HeadTailProperties, StackAssumption DEF FrameSent, Fits
<1>3. Fits(m_tx_queue)'
  BY <1>2 DEF Fits, Frames
<1>4. SessionInv'
  BY SessionSame DEF FrameSent, StackInv
<1>5. StackOK'
  BY <1>3 DEF FrameSent, StackInv, StackOK, Answerable
<1> QED
  BY <1>4, <1>5 DEF StackInv

(* Time passes.                                                            *)
LEMMA ClockTickStep ==
    ASSUME StackInv, ClockTick
    PROVE  StackInv' /\ QueueStep
BY TickInv, QueueSame, StackSame DEF ClockTick, StackInv, stack_vars

-----------------------------------------------------------------------------
(***************************************************************************)
(* The theorems.                                                           *)
(***************************************************************************)

(* An endpoint just constructed.                                           *)
LEMMA InitStackInv == StackInit => StackInv
<1> SUFFICES ASSUME StackInit PROVE StackInv
  OBVIOUS
<1>1. SessionInv
  BY InitSessionInv DEF StackInit
<1>2. Fits(m_tx_queue) /\ retries \in Seq(RetryEntries)
  BY StackAssumption DEF StackInit, Fits
<1> QED
  BY <1>1, <1>2, FrameTypes DEF StackInit, StackInv, StackOK

(* Every step keeps the invariant, and outside drain_tx the reliable       *)
(* frames as long as there is telemetry.                                   *)
LEMMA NextStackInv ==
    ASSUME StackInv, [EndpointNext]_vars
    PROVE  StackInv' /\ (phase # "tx" => QueueStep)
<1>1. CASE Receive \/ HandlerReturns
  BY <1>1, ReceiveStep, HandlerReturnsStep
<1>2. CASE AppCalls \/ AnswerRequest
  BY <1>2, RegisterStep, SendStep, BroadcastStep, AnswerStep DEF AppCalls
<1>3. CASE CycleStep
  BY <1>3, PumpStep, QuietCycleStep, PollStep, RequeueStep, FrameSentStep
  DEF CycleStep, handle_session_outbound, drain_tx, FrameSent
<1>4. CASE ClockTick
  BY <1>4, ClockTickStep
<1>5. CASE UNCHANGED vars
  BY <1>5, SessionSame, QueueSame, StackSame DEF vars, stack_vars, StackInv
<1> QED
  BY <1>1, <1>2, <1>3, <1>4, <1>5 DEF EndpointNext

(* The invariant of an endpoint in an arbitrary environment: whatever      *)
(* arrives and whatever the application does, the session keeps its        *)
(* invariants and the stack around it stays well formed.                   *)
THEOREM StackInvariance == StackSpec => []StackInv
<1>1. StackInit => StackInv
  BY InitStackInv
<1>2. StackInv /\ [EndpointNext]_vars => StackInv'
  BY NextStackInv
<1> QED
  BY <1>1, <1>2, PTL DEF StackSpec

(* m_tx_queue stays within TX_QUEUE_CAP on every path that queues a frame  *)
(* or two (ProtocolStack.hpp:288-335).                                     *)
THEOREM TransmitQueueBounded == StackSpec => []TxQueueBounded
<1>1. StackInv => TxQueueBounded
  BY DEF StackInv, StackOK, Fits, TxQueueBounded
<1> QED
  BY <1>1, StackInvariance, PTL

(* The response cache keeps its capacity inside the stack, where a request *)
(* may be answered more than once (ReliableSession.hpp:337-345).           *)
THEOREM StackCacheBounded == StackSpec => []CacheBounded
<1>1. StackInv => CacheBounded
  BY DEF StackInv, SessionInv
<1> QED
  BY <1>1, StackInvariance, PTL

(* A full queue gives up its telemetry before anything else: while there   *)
(* is some, no step but the transmission itself removes or reorders a      *)
(* reliable frame, for every capacity.                                     *)
THEOREM TelemetryYields == StackSpec => TelemetryYieldsFirst
<1>1. StackInv /\ [EndpointNext]_vars
        => [phase # "tx" /\ Telemetry(m_tx_queue) # {}
              => KeepsReliable(m_tx_queue, m_tx_queue')]_vars
  BY NextStackInv DEF QueueStep
<1> QED
  BY <1>1, StackInvariance, PTL DEF StackSpec, TelemetryYieldsFirst

-----------------------------------------------------------------------------
(***************************************************************************)
(* The bytes of a retransmission.                                          *)
(***************************************************************************)

\* When the window is 1, poll never returns retries and runs error callbacks at once.
NarrowInv ==
    /\ StackInv
    /\ RetryBytesValid
    /\ phase = "errors" => retries = <<>>

(* A window of 1 holds at most one call.                                   *)
LEMMA OneInWindow ==
    ASSUME SessionInv, WindowSize <= 1
    PROVE  \A s, t \in InWindow : s = t
<1>1. Cardinality(InWindow) <= 1
  BY SessionAssumption DEF SessionInv, InflightExact, CountWithinWindow, window_size
<1>2. IsFiniteSet(InWindow)
  BY InWindowFinite DEF SessionInv
<1> SUFFICES ASSUME NEW s \in InWindow, NEW t \in InWindow, s # t PROVE FALSE
  OBVIOUS
<1>3. Cardinality({s, t}) = 2
  <2>1. IsFiniteSet({t}) /\ Cardinality({t}) = 1 /\ {s, t} = {t} \cup {s}
    BY FS_Singleton
  <2> QED
    BY <2>1, FS_AddElement
<1>4. Cardinality({s, t}) <= Cardinality(InWindow)
  BY <1>2, FS_Subset
<1> QED
  BY <1>1, <1>2, <1>3, <1>4, FS_CardinalityType

(* So a call that expires leaves no other to retransmit.                   *)
LEMMA PollKeepsNarrow ==
    ASSUME NarrowInv, WindowSize <= 1, PollSession
    PROVE  NarrowInv'
<1>1. /\ retries' \in Seq([cmd : RequestCmds, tx : TxIds, body : Callers, valid : {TRUE}])
      /\ retries' = <<>> <=> Retried = {}
  BY PollRetries DEF NarrowInv, StackInv
<1>2. RetryBytesValid'
  <2> DEFINE Entries == [cmd : RequestCmds, tx : TxIds, body : Callers, valid : {TRUE}]
  <2>1. \A e \in Entries : e.valid
    OBVIOUS
  <2>2. retries' \in Seq(Entries)
    BY <1>1
  <2> HIDE DEF Entries
  <2> QED
    BY <2>1, <2>2 DEF RetryBytesValid
<1>3. Expired # {} => Retried = {}
  BY OneInWindow DEF NarrowInv, StackInv, Expired, Retried, Due
<1> QED
  BY <1>1, <1>2, <1>3, PollStep DEF NarrowInv, PollSession

(* A retransmission queued leaves the others valid.                        *)
LEMMA RequeueKeepsNarrow ==
    ASSUME NarrowInv, RequeueRetry
    PROVE  NarrowInv'
<1>1. /\ retries \in Seq(RetryEntries) /\ retries # <<>>
      /\ retries' = Tail(retries) /\ phase' # "errors"
  BY DEF RequeueRetry, NarrowInv, StackInv, StackOK
<1>2. /\ Len(retries) \in Nat /\ DOMAIN retries' = 1 .. Len(retries) - 1
      /\ \A i \in DOMAIN retries' : i + 1 \in DOMAIN retries /\ retries'[i] = retries[i + 1]
  BY <1>1, HeadTailProperties
<1> QED
  BY <1>1, <1>2, RequeueStep DEF NarrowInv, RetryBytesValid

(* A call can be made only when there are no retries left.                 *)
LEMMA SendKeepsNarrow ==
    ASSUME NarrowInv, NEW k \in Callers, NEW cmd \in RequestCmds,
           NEW timeout \in Timeouts, NEW max_retries \in RetryLimits,
           Send(k, cmd, timeout, max_retries)
    PROVE  NarrowInv'
<1>1. retries = <<>> /\ Moved(<<>>) = <<>>
  BY DEF Send, OnProtocolThread, NarrowInv, StackInv, StackOK, Moved
<1>2. retries' = <<>> /\ phase' = phase
  BY <1>1 DEF Send
<1> QED
  BY <1>2, SendStep DEF NarrowInv, RetryBytesValid

(* Every step keeps the invariant of the narrow window.                    *)
LEMMA NextNarrowInv ==
    ASSUME WindowSize <= 1, NarrowInv, [EndpointNext]_vars
    PROVE  NarrowInv'
<1>1. StackInv'
  BY NextStackInv DEF NarrowInv
<1>2. CASE UNCHANGED retries /\ phase' # "errors"
  BY <1>1, <1>2 DEF NarrowInv, RetryBytesValid
<1>3. CASE UNCHANGED <<retries, phase>>
  BY <1>1, <1>3 DEF NarrowInv, RetryBytesValid
<1>4. CASE PollSession \/ RequeueRetry
  BY <1>4, PollKeepsNarrow, RequeueKeepsNarrow
<1>5. CASE \E k \in Callers, cmd \in RequestCmds, timeout \in Timeouts,
             max_retries \in RetryLimits : Send(k, cmd, timeout, max_retries)
  BY <1>5, SendKeepsNarrow
<1>6. CASE Receive
  <2>1. UNCHANGED retries /\ (phase' = phase \/ phase' = "handler")
    BY <1>6 DEF Receive, handle_packet_internal, handle_ack_packet, handle_request_packet,
                UnreliablePacket, UntrackedPacket, DuplicateRequest, NewRequest,
                handle_response_packet, RunHandler, Ignore, vars, stack_vars
  <2> QED
    BY <1>2, <1>3, <2>1
<1>7. CASE \/ \E cmd \in HandlerCmds : register_handler(cmd)
           \/ \E cmd \in TelemetryCmds : broadcast(cmd)
           \/ AnswerRequest \/ ClockTick \/ UNCHANGED vars
  <2>1. UNCHANGED <<retries, phase>>
    BY <1>7 DEF register_handler, broadcast, AnswerRequest, send_response_and_cache,
                ClockTick, vars, stack_vars
  <2> QED
    BY <1>3, <2>1
<1>8. CASE HandlerReturns \/ RxDrained \/ handle_session_outbound \/ ErrorCallbacksReturn
           \/ drain_tx
  <2>1. UNCHANGED retries /\ phase' # "errors"
    BY <1>8 DEF HandlerReturns, RxDrained, handle_session_outbound, PumpOutbound,
                OutboundDone, ErrorCallbacksReturn, drain_tx, FrameSent, FrameKept
  <2> QED
    BY <1>2, <2>1
<1> QED
  BY <1>4, <1>5, <1>6, <1>7, <1>8 DEF EndpointNext, AppCalls, CycleStep

(* With a window of 1 the pointers that poll returned still point at the   *)
(* bytes when these are queued again: error callbacks, which may send and  *)
(* so move the map, run in no cycle that retransmits                       *)
(* (ReliableSession.hpp:199-245, ProtocolStack.hpp:277-284).               *)
THEOREM RetransmittedBytesValid ==
    ASSUME WindowSize <= 1
    PROVE  StackSpec => []RetryBytesValid
<1>1. StackInit => NarrowInv
  BY InitStackInv DEF StackInit, NarrowInv, RetryBytesValid
<1>2. NarrowInv /\ [EndpointNext]_vars => NarrowInv'
  BY NextNarrowInv
<1>3. NarrowInv => RetryBytesValid
  BY DEF NarrowInv
<1> QED
  BY <1>1, <1>2, <1>3, PTL DEF StackSpec

-----------------------------------------------------------------------------
(***************************************************************************)
(* The copies of a request that wait.  A call gets its first frame with    *)
(* its place in the window and one more with each retry; nothing else      *)
(* queues a request, and whatever the queue displaces makes them fewer.    *)
(***************************************************************************)
CountOf(q, k) == Cardinality(RequestsOf(q, k))
IsCopy(f, k) == IF f.cmd \in RequestCmds /\ f.body = k THEN 1 ELSE 0

\* The other frames of an endpoint are of other commands.
OwnCommands == RequestCmds \cap (ResponseCmds \cup TelemetryCmds \cup {ACK_CMD}) = {}

CopiesInv ==
    /\ NarrowInv
    /\ CopiesWithinRetries
    /\ \A k \in Callers \ DOMAIN answers : Copies(k) = 0

(* They can be counted.                                                    *)
LEMMA CopiesCounted ==
    ASSUME NEW X, NEW q \in Seq(X), NEW k
    PROVE  IsFiniteSet(RequestsOf(q, k)) /\ CountOf(q, k) \in Nat
<1>1. IsFiniteSet(1 .. Len(q)) /\ RequestsOf(q, k) \subseteq 1 .. Len(q)
  BY FS_Interval DEF RequestsOf
<1> QED
  BY <1>1, FS_Subset, FS_CardinalityType DEF CountOf

(* A queue whose frames all have a place of their own in another has no    *)
(* more of them.                                                           *)
LEMMA CopiesEmbedded ==
    ASSUME NEW X, NEW p \in Seq(X), NEW q \in Seq(X), NEW k,
           NEW at \in [DOMAIN p -> DOMAIN q],
           \A i, j \in DOMAIN p : at[i] = at[j] => i = j,
           \A i \in DOMAIN p : q[at[i]] = p[i]
    PROVE  CountOf(p, k) <= CountOf(q, k)
<1> DEFINE g == [i \in RequestsOf(p, k) |-> at[i]]
<1>1. g \in Injection(RequestsOf(p, k), RequestsOf(q, k))
  BY DEF Injection, RequestsOf, IsInjective
<1>2. IsFiniteSet(RequestsOf(q, k))
  BY CopiesCounted
<1> QED
  BY <1>1, <1>2, FS_Injection DEF CountOf

(* A frame put in adds at most itself.                                     *)
LEMMA CopiesAppended ==
    ASSUME NEW X, NEW q \in Seq(X), NEW f \in X, NEW k
    PROVE  CountOf(Append(q, f), k) <= CountOf(q, k) + IsCopy(f, k)
<1> DEFINE p == Append(q, f)
           n == Len(q) + 1
           A == RequestsOf(q, k)
<1>1. /\ n \in Nat /\ n >= 1 /\ DOMAIN p = 1 .. n /\ p[n] = f
      /\ DOMAIN q = 1 .. n - 1 /\ \A i \in 1 .. n - 1 : p[i] = q[i]
  OBVIOUS
<1> HIDE DEF p, n
<1>2. RequestsOf(p, k) = IF IsCopy(f, k) = 1 THEN A \cup {n} ELSE A
  <2>1. \A i : i \in 1 .. n <=> i \in 1 .. n - 1 \/ i = n
    BY <1>1
  <2> QED
    BY <1>1, <2>1 DEF RequestsOf, IsCopy
<1>3. IsFiniteSet(A) /\ Cardinality(A) \in Nat
  BY CopiesCounted DEF CountOf
<1> HIDE DEF A
<1>4. Cardinality(A \cup {n}) <= Cardinality(A) + 1
  <2>1. Cardinality(A \cup {n}) = IF n \in A THEN Cardinality(A) ELSE Cardinality(A) + 1
    BY <1>3, FS_AddElement
  <2> QED
    BY <1>3, <2>1
<1>5. IsCopy(f, k) \in {0, 1}
  BY DEF IsCopy
<1> QED
  BY <1>2, <1>3, <1>4, <1>5 DEF CountOf, p, A

(* The frame at the front takes itself out.                                *)
LEMMA CopiesOfTail ==
    ASSUME NEW X, NEW q \in Seq(X), q # <<>>, NEW k
    PROVE  CountOf(Tail(q), k) + IsCopy(Head(q), k) <= CountOf(q, k)
<1> DEFINE A == RequestsOf(Tail(q), k)
           B == RequestsOf(q, k) \ {1}
           g == [i \in A |-> i + 1]
<1>1. /\ Tail(q) \in Seq(X) /\ Head(q) = q[1] /\ 1 \in DOMAIN q
      /\ \A i \in DOMAIN Tail(q) :
            i \in Nat /\ i > 0 /\ i + 1 \in DOMAIN q /\ Tail(q)[i] = q[i + 1]
  OBVIOUS
<1>2. IsFiniteSet(RequestsOf(q, k)) /\ CountOf(q, k) \in Nat
  BY CopiesCounted
<1>3. g \in Injection(A, B)
  BY <1>1 DEF Injection, RequestsOf, IsInjective
<1>4. IsFiniteSet(B) /\ Cardinality(B) = CountOf(q, k) - IsCopy(Head(q), k)
  <2>1. 1 \in RequestsOf(q, k) <=> IsCopy(Head(q), k) = 1
    BY <1>1 DEF RequestsOf, IsCopy
  <2>2. IsCopy(Head(q), k) \in {0, 1}
    BY DEF IsCopy
  <2> QED
    BY <1>2, <2>1, <2>2, FS_RemoveElement DEF CountOf
<1>5. Cardinality(A) <= Cardinality(B) /\ Cardinality(A) \in Nat
  BY <1>3, <1>4, FS_Injection, FS_CardinalityType
<1>6. IsCopy(Head(q), k) \in {0, 1}
  BY DEF IsCopy
<1> QED
  BY <1>2, <1>4, <1>5, <1>6 DEF CountOf

(* Making room makes them no more.                                         *)
LEMMA CopiesInRoom ==
    ASSUME NEW q \in Seq(Frames), NEW k
    PROVE  /\ \A i \in 1 .. Len(q) : CountOf(RemoveAt(q, i), k) <= CountOf(q, k)
           /\ Len(q) > 0 => CountOf(Front(q), k) <= CountOf(q, k)
<1>1. ASSUME NEW i \in 1 .. Len(q)
      PROVE  CountOf(RemoveAt(q, i), k) <= CountOf(q, k)
  <2> DEFINE p == RemoveAt(q, i)
             at == [j \in DOMAIN p |-> IF j < i THEN j ELSE j + 1]
  <2>1. /\ p \in Seq(Frames) /\ DOMAIN p = 1 .. Len(q) - 1
        /\ \A j \in 1 .. Len(q) - 1 : p[j] = IF j < i THEN q[j] ELSE q[j + 1]
    BY RemoveAtEffect
  <2>2. i \in Nat /\ Len(q) \in Nat /\ DOMAIN q = 1 .. Len(q)
    OBVIOUS
  <2> HIDE DEF p
  <2>3. /\ at \in [DOMAIN p -> DOMAIN q]
        /\ \A j, m \in DOMAIN p : at[j] = at[m] => j = m
        /\ \A j \in DOMAIN p : q[at[j]] = p[j]
    BY <2>1, <2>2
  <2> HIDE DEF at
  <2>4. CountOf(p, k) <= CountOf(q, k)
    BY <2>1, <2>3, CopiesEmbedded
  <2> QED
    BY <2>4 DEF p
<1>2. ASSUME Len(q) > 0
      PROVE  CountOf(Front(q), k) <= CountOf(q, k)
  <2> DEFINE p == SubSeq(q, 1, Len(q) - 1)
             at == [j \in DOMAIN p |-> j]
  <2>1. Len(q) \in Nat /\ DOMAIN q = 1 .. Len(q) /\ \A j \in 1 .. Len(q) - 1 : q[j] \in Frames
    BY LenProperties, ElementOfSeq
  <2>2. /\ p \in Seq(Frames) /\ Len(p) = Len(q) - 1
        /\ \A j \in 1 .. Len(q) - 1 : p[j] = q[j]
    BY <1>2, <2>1, SubSeqProperties
  <2>3. Front(q) = p
    BY DEF Front
  <2> HIDE DEF p
  <2>4. /\ at \in [DOMAIN p -> DOMAIN q]
        /\ \A j, m \in DOMAIN p : at[j] = at[m] => j = m
        /\ \A j \in DOMAIN p : q[at[j]] = p[j]
    BY <2>1, <2>2
  <2> HIDE DEF at
  <2> QED
    BY <2>2, <2>3, <2>4, CopiesEmbedded
<1> QED
  BY <1>1, <1>2

(* So a queue in which a frame was to be put has at most that one more.    *)
LEMMA CopiesOfOutcome ==
    ASSUME NEW q, Fits(q), NEW f \in Frames, NEW r, NEW k,
           \/ r = q
           \/ Telemetry(q) # {} /\ r = drop_one_telemetry(q)
           \/ \E base : /\ Room(q, base) /\ (base = q => Len(q) < TxQueueCap)
                        /\ r = Append(base, f)
    PROVE  CountOf(r, k) \in Nat /\ CountOf(r, k) <= CountOf(q, k) + IsCopy(f, k)
<1>1. q \in Seq(Frames) /\ CountOf(q, k) \in Nat /\ IsCopy(f, k) \in {0, 1}
  BY CopiesCounted DEF Fits, IsCopy
<1>2. Telemetry(q) # {}
        => drop_one_telemetry(q) \in Seq(Frames)
           /\ CountOf(drop_one_telemetry(q), k) <= CountOf(q, k)
  <2> HAVE Telemetry(q) # {}
  <2>1. PICK i \in 1 .. Len(q) : drop_one_telemetry(q) = RemoveAt(q, i)
    BY <1>1, DropEffect
  <2> QED
    BY <1>1, <2>1, RemoveAtEffect, CopiesInRoom
<1>3. CASE r = q
  BY <1>1, <1>3
<1>4. CASE Telemetry(q) # {} /\ r = drop_one_telemetry(q)
  <2>1. CountOf(r, k) \in Nat /\ CountOf(r, k) <= CountOf(q, k)
    BY <1>2, <1>4, CopiesCounted
  <2> QED
    BY <1>1, <2>1
<1>5. ASSUME NEW base, Room(q, base), base = q => Len(q) < TxQueueCap, r = Append(base, f)
      PROVE  CountOf(r, k) \in Nat /\ CountOf(r, k) <= CountOf(q, k) + IsCopy(f, k)
  <2>1. base \in Seq(Frames)
    BY <1>1, <1>5, RoomEffect DEF Fits
  <2>2. CountOf(base, k) <= CountOf(q, k)
    <3>1. CASE base = q
      BY <1>1, <3>1
    <3>2. CASE IsFull(q) /\ base = Front(q)
      <4>1. Len(q) > 0
        BY <1>1, <3>2, StackAssumption DEF IsFull
      <4> QED
        BY <1>1, <3>2, <4>1, CopiesInRoom
    <3> QED
      BY <1>2, <1>5, <3>1, <3>2 DEF Room
  <2>3. CountOf(base, k) \in Nat
    BY <2>1, CopiesCounted
  <2>4. CountOf(Append(base, f), k) <= CountOf(base, k) + IsCopy(f, k)
    BY <2>1, CopiesAppended
  <2>5. CountOf(Append(base, f), k) \in Nat
    <3>1. Append(base, f) \in Seq(Frames)
      BY <2>1
    <3> QED
      BY <3>1, CopiesCounted
  <2> QED
    BY <1>1, <1>5, <2>2, <2>3, <2>4, <2>5
<1> QED
  BY <1>3, <1>4, <1>5

(* Both paths of the queue are such an attempt.                            *)
LEMMA CopiesQueued ==
    ASSUME StackOK, NEW f \in Frames, NEW priority,
           \/ m_tx_queue' = enqueue_prebuilt_frame(m_tx_queue, f, priority)
           \/ m_tx_queue' = enqueue_pending_frame(m_tx_queue, f),
           NEW k
    PROVE  /\ CountOf(m_tx_queue', k) \in Nat
           /\ CountOf(m_tx_queue', k) <= CountOf(m_tx_queue, k) + IsCopy(f, k)
<1>1. Fits(m_tx_queue) /\ m_tx_queue \in Seq(Frames)
  BY DEF StackOK, Fits
<1>2. \/ m_tx_queue' = m_tx_queue
      \/ Telemetry(m_tx_queue) # {} /\ m_tx_queue' = drop_one_telemetry(m_tx_queue)
      \/ \E base : /\ Room(m_tx_queue, base)
                   /\ base = m_tx_queue => Len(m_tx_queue) < TxQueueCap
                   /\ m_tx_queue' = Append(base, f)
  BY <1>1, PrebuiltEffect, PendingEffect
<1> QED
  BY <1>1, <1>2, CopiesOfOutcome

\* What most steps leave of the calls and of their copies.
CallsStay ==
    /\ DOMAIN answers \subseteq DOMAIN answers'
    /\ \A tx \in DOMAIN m_pending_by_tx' :
          /\ tx \in DOMAIN m_pending_by_tx
          /\ m_pending_by_tx'[tx].caller = m_pending_by_tx[tx].caller
          /\ m_pending_by_tx'[tx].inflight = m_pending_by_tx[tx].inflight
          /\ m_pending_by_tx'[tx].retry_count = m_pending_by_tx[tx].retry_count

\* The copies after a step, of a call that may be named by the state before it.
CopiesNext(k) == CountOf(m_tx_queue', k) + CountOf(retries', k)
CopiesShrink == \A k \in Callers : CopiesNext(k) <= Copies(k)

(* The copies of a call are a number, before and after a step.             *)
LEMMA CopiesType ==
    ASSUME StackOK, StackOK', NEW k
    PROVE  /\ CountOf(m_tx_queue, k) \in Nat /\ CountOf(retries, k) \in Nat
           /\ CountOf(m_tx_queue', k) \in Nat /\ CountOf(retries', k) \in Nat
           /\ Copies(k) = CountOf(m_tx_queue, k) + CountOf(retries, k)
           /\ CopiesNext(k) = CountOf(m_tx_queue', k) + CountOf(retries', k)
           /\ CopiesNext(k) \in Nat /\ Copies(k) \in Nat
<1>1. m_tx_queue \in Seq(Frames) /\ m_tx_queue' \in Seq(Frames)
  BY DEF StackOK, Fits, Frames
<1>2. retries \in Seq(RetryEntries) /\ retries' \in Seq(RetryEntries)
  BY DEF StackOK, RetryEntries
<1> QED
  BY <1>1, <1>2, CopiesCounted DEF Copies, CopiesNext, CountOf

(* The invariant in those terms.                                           *)
LEMMA CopiesInvNext ==
    ASSUME NarrowInv',
           \A tx \in DOMAIN m_pending_by_tx' :
              LET entry == m_pending_by_tx'[tx]
              IN CopiesNext(entry.caller) <= IF entry.inflight THEN entry.retry_count + 1 ELSE 0,
           \A k \in Callers \ DOMAIN answers' : CopiesNext(k) = 0
    PROVE  CopiesInv'
BY DEF CopiesInv, CopiesWithinRetries, Copies, CopiesNext, CountOf

(* A step that starts no call, counts no retry and queues no request.      *)
LEMMA StayKeepsCopies ==
    ASSUME CopiesInv, NarrowInv', CallsStay, CopiesShrink
    PROVE  CopiesInv'
<1>1. \A k \in Callers : CopiesNext(k) \in Nat /\ Copies(k) \in Nat /\ CopiesNext(k) <= Copies(k)
  BY CopiesType DEF CopiesInv, NarrowInv, StackInv, CopiesShrink
<1>2. \A tx \in DOMAIN m_pending_by_tx :
         /\ m_pending_by_tx[tx].caller \in Callers
         /\ m_pending_by_tx[tx].retry_count \in Nat
  BY EntryFields DEF CopiesInv, NarrowInv, StackInv, SessionInv, TypeOK
<1>3. \A tx \in DOMAIN m_pending_by_tx' :
         LET entry == m_pending_by_tx'[tx]
         IN CopiesNext(entry.caller) <= IF entry.inflight THEN entry.retry_count + 1 ELSE 0
  BY <1>1, <1>2 DEF CallsStay, CopiesInv, CopiesWithinRetries
<1>4. \A k \in Callers \ DOMAIN answers' : CopiesNext(k) = 0
  BY <1>1 DEF CallsStay, CopiesInv
<1> QED
  BY <1>3, <1>4, CopiesInvNext

(* An unchanged queue has its copies.                                      *)
LEMMA SameCopies ==
    ASSUME StackOK, UNCHANGED <<m_tx_queue, retries>>
    PROVE  CopiesShrink
<1>1. m_tx_queue \in Seq(Frames) /\ retries \in Seq(RetryEntries)
  BY DEF StackOK, Fits
<1>2. \A k : CountOf(m_tx_queue, k) \in Nat /\ CountOf(retries, k) \in Nat
  BY <1>1, CopiesCounted
<1> QED
  BY <1>2 DEF CopiesShrink, CopiesNext, Copies, CountOf

(* A frame of another command adds none.                                   *)
LEMMA ForeignFrame ==
    ASSUME StackOK, UNCHANGED retries, NEW f \in Frames, f.cmd \notin RequestCmds,
           NEW priority, m_tx_queue' = enqueue_prebuilt_frame(m_tx_queue, f, priority)
    PROVE  CopiesShrink
<1>1. m_tx_queue \in Seq(Frames) /\ retries \in Seq(RetryEntries)
  BY DEF StackOK, Fits
<1>2. \A k : CountOf(m_tx_queue, k) \in Nat /\ CountOf(retries, k) \in Nat
  BY <1>1, CopiesCounted
<1>3. \A k : /\ CountOf(m_tx_queue', k) \in Nat
             /\ CountOf(m_tx_queue', k) <= CountOf(m_tx_queue, k) + IsCopy(f, k)
  BY CopiesQueued
<1>4. \A k : IsCopy(f, k) = 0
  BY DEF IsCopy
<1>5. \A k : CountOf(m_tx_queue', k) <= CountOf(m_tx_queue, k)
  BY <1>2, <1>3, <1>4
<1> QED
  BY <1>2, <1>3, <1>5 DEF CopiesShrink, CopiesNext, Copies, CountOf

(* Calls that are left alone stay.                                         *)
LEMMA SameCalls ==
    ASSUME UNCHANGED <<m_pending_by_tx, answers>>
    PROVE  CallsStay
BY DEF CallsStay

(* A new deadline does not make an entry another.                          *)
LEMMA SameButDeadline ==
    ASSUME NEW entry \in PendingEntries, NEW left
    PROVE  LET later == [entry EXCEPT !.left = left]
           IN /\ later.caller = entry.caller /\ later.inflight = entry.inflight
              /\ later.retry_count = entry.retry_count
BY DEF PendingEntries

(* An acknowledgement starts no call and counts no retry,                  *)
LEMMA OnAckStays ==
    ASSUME TypeOK, NEW tx, on_ack(tx)
    PROVE  CallsStay
<1>1. CASE tx \in InWindow
  <2> DEFINE later == [m_pending_by_tx[tx] EXCEPT !.left = m_pending_by_tx[tx].timeout]
  <2>1. tx \in DOMAIN m_pending_by_tx /\ m_pending_by_tx[tx] \in PendingEntries
    BY <1>1 DEF InWindow, TypeOK
  <2>2. m_pending_by_tx' = [m_pending_by_tx EXCEPT ![tx] = later]
    BY <1>1, <2>1 DEF on_ack
  <2>3. /\ later.caller = m_pending_by_tx[tx].caller
        /\ later.inflight = m_pending_by_tx[tx].inflight
        /\ later.retry_count = m_pending_by_tx[tx].retry_count
    BY <2>1, SameButDeadline
  <2> HIDE DEF later
  <2>4. /\ DOMAIN m_pending_by_tx' = DOMAIN m_pending_by_tx
        /\ m_pending_by_tx'[tx] = later
        /\ \A t \in DOMAIN m_pending_by_tx : t # tx => m_pending_by_tx'[t] = m_pending_by_tx[t]
    BY <2>1, <2>2
  <2> QED
    BY <2>1, <2>3, <2>4 DEF CallsStay, on_ack
<1>2. CASE tx \notin InWindow
  BY <1>2, SameCalls DEF on_ack
<1> QED
  BY <1>1, <1>2

(* nor does time,                                                          *)
LEMMA TickStays ==
    ASSUME TypeOK, Tick
    PROVE  CallsStay
<1> DEFINE Elapsed(tx) == [m_pending_by_tx[tx] EXCEPT !.left = m_pending_by_tx[tx].left - 1]
<1>1. \A tx \in DOMAIN m_pending_by_tx :
        /\ Elapsed(tx).caller = m_pending_by_tx[tx].caller
        /\ Elapsed(tx).inflight = m_pending_by_tx[tx].inflight
        /\ Elapsed(tx).retry_count = m_pending_by_tx[tx].retry_count
  BY SameButDeadline DEF TypeOK
<1>2. m_pending_by_tx' =
        [tx \in DOMAIN m_pending_by_tx |->
           IF tx \in InWindow /\ m_pending_by_tx[tx].left > 0
           THEN Elapsed(tx) ELSE m_pending_by_tx[tx]]
  BY DEF Tick
<1> HIDE DEF Elapsed
<1> QED
  BY <1>1, <1>2 DEF CallsStay, Tick

(* nor a response.                                                         *)
LEMMA OnResponseStays ==
    ASSUME NEW cmd, NEW tx, NEW body, on_response(cmd, tx, body)
    PROVE  CallsStay
<1>1. CASE DuplicateResponse(cmd, tx) \/ StrayResponse(cmd, tx)
  BY <1>1, SameCalls DEF DuplicateResponse, StrayResponse, session_vars, host_vars
<1>2. CASE MatchedResponse(cmd, tx, body)
  BY <1>2 DEF MatchedResponse, Erase, CallsStay
<1> QED
  BY <1>1, <1>2 DEF on_response

(* A packet arrives: what it makes the endpoint queue is no request.       *)
LEMMA ReceiveCopies ==
    ASSUME CopiesInv, OwnCommands, NarrowInv', Receive
    PROVE  CopiesInv'
<1>1. PICK p \in Arrivals : handle_packet_internal(p)
  BY DEF Receive
<1>2. SessionInv /\ StackOK /\ TypeOK /\ Fits(m_tx_queue)
  BY DEF CopiesInv, NarrowInv, StackInv, StackOK, SessionInv
<1>3. CASE Route(p.cmd) = "ack" /\ handle_ack_packet(p)
  <2>1. on_ack(p.tx) /\ UNCHANGED <<m_tx_queue, retries>>
    BY <1>3 DEF handle_ack_packet, stack_vars
  <2> QED
    BY <1>2, <2>1, OnAckStays, SameCopies, StayKeepsCopies
<1>4. CASE Route(p.cmd) = "response" /\ handle_response_packet(p)
  <2>1. CallsStay /\ UNCHANGED <<m_tx_queue, retries>>
    BY <1>4, OnResponseStays, SameCalls
    DEF handle_response_packet, Ignore, vars, stack_vars, session_vars, host_vars
  <2> QED
    BY <1>2, <2>1, SameCopies, StayKeepsCopies
<1>5. CASE UnreliablePacket(p) \/ UntrackedPacket(p)
  <2>1. UNCHANGED <<m_pending_by_tx, answers, m_tx_queue, retries>>
    BY <1>5 DEF UnreliablePacket, UntrackedPacket, RunHandler, Ignore, vars, stack_vars,
                session_vars, host_vars
  <2> QED
    BY <1>2, <2>1, SameCalls, SameCopies, StayKeepsCopies
<1>6. CASE Route(p.cmd) = "request" /\ NewRequest(p)
  <2>1. AckFrame(p) \in Frames /\ AckFrame(p).cmd \notin RequestCmds
    BY <1>6, RequestArrives DEF NewRequest, AckFrame, OwnCommands
  <2>2. /\ m_tx_queue' = enqueue_prebuilt_frame(m_tx_queue, AckFrame(p), TRUE)
        /\ UNCHANGED <<m_pending_by_tx, answers, retries>>
    BY <1>6 DEF NewRequest, on_request, host_vars, RunHandler
  <2> QED
    BY <1>2, <2>1, <2>2, SameCalls, ForeignFrame, StayKeepsCopies
<1>7. CASE Route(p.cmd) = "request" /\ DuplicateRequest(p)
  <2> DEFINE key == compose_dedup_key(p.cmd, p.tx)
             response == [cmd |-> m_completed_cache[key].response_cmd, tx |-> p.tx,
                          body |-> m_completed_cache[key].body]
             acked == enqueue_prebuilt_frame(m_tx_queue, AckFrame(p), TRUE)
  <2>1. /\ m_tx_queue' = IF HasCached(p.cmd, p.tx)
                         THEN enqueue_prebuilt_frame(acked, response, TRUE) ELSE acked
        /\ UNCHANGED <<m_pending_by_tx, answers, retries>>
        /\ p.tx # 0
    BY <1>7 DEF DuplicateRequest, on_request, host_vars
  <2>2. AckFrame(p) \in Frames /\ AckFrame(p).cmd \notin RequestCmds
    BY <1>7, <2>1, RequestArrives DEF AckFrame, OwnCommands
  <2>3. CASE ~ HasCached(p.cmd, p.tx)
    BY <1>2, <2>1, <2>2, <2>3, SameCalls, ForeignFrame, StayKeepsCopies
  <2>4. CASE HasCached(p.cmd, p.tx)
    <3>1. response \in Frames /\ response.cmd \notin RequestCmds
      <4>1. m_completed_cache[key] \in CompletedResponses
        BY <1>2, <2>4 DEF TypeOK, HasCached
      <4> QED
        BY <1>7, <2>1, <4>1, RequestArrives, FrameTypes DEF CompletedResponses, OwnCommands
    <3> HIDE DEF response
    <3>2. m_tx_queue' = enqueue_prebuilt_frame(acked, response, TRUE)
      BY <2>1, <2>4
    <3>3. Fits(acked) /\ m_tx_queue \in Seq(Frames)
      BY <1>2, <2>2, EnqueueFits DEF Fits
    <3>4. ASSUME NEW k
          PROVE  /\ CountOf(acked, k) \in Nat
                 /\ CountOf(acked, k) <= CountOf(m_tx_queue, k) + IsCopy(AckFrame(p), k)
      BY <1>2, <2>2, <3>3, PrebuiltEffect, CopiesOfOutcome
    <3> HIDE DEF acked
    <3>5. ASSUME NEW k
          PROVE  /\ CountOf(m_tx_queue', k) \in Nat
                 /\ CountOf(m_tx_queue', k) <= CountOf(acked, k) + IsCopy(response, k)
      <4>1. acked \in Seq(Frames)
        BY <3>3 DEF Fits
      <4>2. \/ m_tx_queue' = acked
            \/ \E base : /\ Room(acked, base) /\ (base = acked => Len(acked) < TxQueueCap)
                         /\ m_tx_queue' = Append(base, response)
        BY <3>1, <3>2, <4>1, PrebuiltEffect
      <4> QED
        BY <3>1, <3>3, <4>2, CopiesOfOutcome
    <3>6. \A k : IsCopy(AckFrame(p), k) = 0 /\ IsCopy(response, k) = 0
      BY <2>2, <3>1 DEF IsCopy
    <3>7. \A k : CountOf(m_tx_queue', k) <= CountOf(m_tx_queue, k)
      <4> TAKE k
      <4>1. CountOf(m_tx_queue, k) \in Nat
        BY <3>3, CopiesCounted
      <4> QED
        BY <3>4, <3>5, <3>6, <4>1
    <3>8. CopiesShrink
      <4> SUFFICES ASSUME NEW k \in Callers
                   PROVE  CopiesNext(k) <= Copies(k)
        BY DEF CopiesShrink
      <4>1. Copies(k) = CountOf(m_tx_queue, k) + CountOf(retries, k)
            /\ CountOf(m_tx_queue, k) \in Nat /\ CountOf(retries, k) \in Nat
        BY <3>3, CopiesCounted, <1>2 DEF Copies, CountOf, StackOK
      <4>2. CountOf(retries', k) = CountOf(retries, k)
        BY <2>1
      <4> QED
        BY <3>5, <3>7, <4>1, <4>2 DEF CopiesNext
    <3> QED
      BY <2>1, <3>8, SameCalls, StayKeepsCopies
  <2> QED
    BY <2>3, <2>4
<1> QED
  BY <1>1, <1>3, <1>4, <1>5, <1>6, <1>7 DEF handle_packet_internal, handle_request_packet

(* A new call has no copies, and no place in the window.                   *)
LEMMA SendCopies ==
    ASSUME CopiesInv, NarrowInv', NEW k \in Callers, NEW cmd \in RequestCmds,
           NEW timeout \in Timeouts, NEW max_retries \in RetryLimits,
           Send(k, cmd, timeout, max_retries)
    PROVE  CopiesInv'
<1> DEFINE new == NewPending(k, cmd, timeout, max_retries)
<1>1. retries = <<>> /\ Moved(<<>>) = <<>>
  BY DEF Send, OnProtocolThread, CopiesInv, NarrowInv, StackInv, StackOK, Moved
<1>2. UNCHANGED <<m_tx_queue, retries>>
  BY <1>1 DEF Send
<1>3. /\ m_pending_by_tx' = Put(m_pending_by_tx, m_next_tx_id, new)
      /\ answers' = Put(answers, k, <<>>)
      /\ k \notin DOMAIN answers /\ m_next_tx_id \notin DOMAIN m_pending_by_tx
  BY DEF Send, send, register_pending, Unused
<1>4. new.caller = k /\ new.inflight = FALSE
  BY DEF NewPending
<1> HIDE DEF new
<1>5. /\ DOMAIN m_pending_by_tx' = DOMAIN m_pending_by_tx \cup {m_next_tx_id}
      /\ m_pending_by_tx'[m_next_tx_id] = new
      /\ \A tx \in DOMAIN m_pending_by_tx : m_pending_by_tx'[tx] = m_pending_by_tx[tx]
      /\ DOMAIN answers' = DOMAIN answers \cup {k}
  BY <1>3 DEF Put
<1>6. \A c : CopiesNext(c) = Copies(c)
  BY <1>2 DEF Copies, CopiesNext, CountOf
<1>7. Copies(k) = 0
  BY <1>3 DEF CopiesInv
<1>8. ASSUME NEW tx \in DOMAIN m_pending_by_tx'
      PROVE  LET entry == m_pending_by_tx'[tx]
             IN CopiesNext(entry.caller) <= IF entry.inflight THEN entry.retry_count + 1 ELSE 0
  <2>1. CASE tx = m_next_tx_id
    BY <1>4, <1>5, <1>6, <1>7, <2>1
  <2>2. CASE tx \in DOMAIN m_pending_by_tx
    BY <1>5, <1>6, <2>2 DEF CopiesInv, CopiesWithinRetries
  <2> QED
    BY <1>5, <1>8, <2>1, <2>2
<1>9. \A c \in Callers \ DOMAIN answers' : CopiesNext(c) = 0
  BY <1>5, <1>6 DEF CopiesInv
<1> QED
  BY <1>8, <1>9, CopiesInvNext

(* The call that enters the window had no copies and gets one.             *)
LEMMA PumpCopies ==
    ASSUME CopiesInv, NarrowInv', PumpOutbound
    PROVE  CopiesInv'
<1> DEFINE tx == OutboundTx
           c == m_pending_by_tx[tx].caller
           f == RequestFrame(tx)
           sent == [m_pending_by_tx[tx] EXCEPT !.inflight = TRUE,
                                               !.left = m_pending_by_tx[tx].timeout]
<1>1. SessionInv /\ StackOK /\ StackOK' /\ TakeOutbound
  BY DEF CopiesInv, NarrowInv, StackInv, PumpOutbound
<1>2. tx \in DOMAIN m_pending_by_tx \ InWindow
  BY <1>1, TakeOutboundEffect
<1>3. /\ m_pending_by_tx[tx] \in PendingEntries /\ c \in Callers /\ c \in DOMAIN answers
      /\ \A t \in DOMAIN m_pending_by_tx : m_pending_by_tx[t].caller = c => t = tx
      /\ ~ m_pending_by_tx[tx].inflight
  BY <1>1, <1>2, EntryFields DEF SessionInv, TypeOK, OneCallback, InWindow
<1>4. m_pending_by_tx' = [m_pending_by_tx EXCEPT ![tx] = sent] /\ answers' = answers
  BY <1>1, <1>2 DEF TakeOutbound
<1>5. sent.caller = c /\ sent.inflight = TRUE /\ sent.retry_count \in Nat
  <2>1. sent.caller = c /\ sent.inflight = TRUE
        /\ sent.retry_count = m_pending_by_tx[tx].retry_count
    BY <1>3 DEF PendingEntries
  <2> QED
    BY <1>3, <2>1, EntryFields
<1>6. f \in Frames /\ f.body = c /\ f.cmd \in RequestCmds
  <2>1. tx \in TxIds /\ m_pending_by_tx[tx].request_cmd \in RequestCmds
    BY <1>1, <1>2, <1>3 DEF SessionInv, TypeOK, PendingEntries
  <2> QED
    BY <1>3, <2>1, FrameTypes DEF RequestFrame
<1>7. m_tx_queue' = enqueue_pending_frame(m_tx_queue, f) /\ UNCHANGED retries
  BY DEF PumpOutbound
<1>8. /\ IsCopy(f, c) = 1 /\ \A k : k # c => IsCopy(f, k) = 0
  BY <1>6 DEF IsCopy
<1> HIDE DEF f, sent, c, tx
<1>9. ASSUME NEW k
      PROVE  /\ Copies(k) \in Nat /\ CopiesNext(k) \in Nat
             /\ CopiesNext(k) <= Copies(k) + IsCopy(f, k)
  <2>1. CountOf(m_tx_queue', k) <= CountOf(m_tx_queue, k) + IsCopy(f, k)
    BY <1>1, <1>6, <1>7, CopiesQueued
  <2>2. CountOf(retries', k) = CountOf(retries, k)
    BY <1>7
  <2>3. IsCopy(f, k) \in {0, 1}
    BY DEF IsCopy
  <2> QED
    BY <1>1, <2>1, <2>2, <2>3, CopiesType
<1>10. Copies(c) = 0
  <2>1. Copies(c) <= 0
    BY <1>2, <1>3 DEF CopiesInv, CopiesWithinRetries, c, tx
  <2> QED
    BY <1>9, <2>1
<1>11. CopiesNext(c) <= 1 /\ \A k : k # c => CopiesNext(k) <= Copies(k)
  BY <1>8, <1>9, <1>10
<1>12. /\ DOMAIN m_pending_by_tx' = DOMAIN m_pending_by_tx
       /\ m_pending_by_tx'[tx] = sent
       /\ \A t \in DOMAIN m_pending_by_tx : t # tx => m_pending_by_tx'[t] = m_pending_by_tx[t]
  BY <1>2, <1>4
<1>13. ASSUME NEW t \in DOMAIN m_pending_by_tx'
      PROVE  LET entry == m_pending_by_tx'[t]
             IN CopiesNext(entry.caller) <= IF entry.inflight THEN entry.retry_count + 1 ELSE 0
  <2>1. CASE t = tx
    <3>1. CopiesNext(sent.caller) <= 1
      BY <1>5, <1>11
    <3>2. CopiesNext(sent.caller) \in Nat
      BY <1>9
    <3>3. CopiesNext(sent.caller) <= sent.retry_count + 1
      BY <1>5, <3>1, <3>2
    <3> QED
      BY <1>5, <1>12, <2>1, <3>3
  <2>2. CASE t # tx
    <3> DEFINE entry == m_pending_by_tx[t]
    <3>1. t \in DOMAIN m_pending_by_tx /\ entry.caller # c /\ m_pending_by_tx'[t] = entry
      BY <1>3, <1>12, <1>13, <2>2
    <3>2. entry \in PendingEntries
      BY <1>1, <3>1 DEF SessionInv, TypeOK
    <3>3. Copies(entry.caller) <= IF entry.inflight THEN entry.retry_count + 1 ELSE 0
      BY <3>1 DEF CopiesInv, CopiesWithinRetries
    <3> HIDE DEF entry
    <3>4. entry.retry_count \in Nat
      BY <3>2, EntryFields
    <3> QED
      BY <1>9, <1>11, <3>1, <3>3, <3>4
  <2> QED
    BY <2>1, <2>2
<1>14. \A k \in Callers \ DOMAIN answers' : CopiesNext(k) = 0
  <2> SUFFICES ASSUME NEW k \in Callers \ DOMAIN answers'
               PROVE  CopiesNext(k) = 0
    OBVIOUS
  <2>1. k # c /\ Copies(k) = 0
    BY <1>3, <1>4 DEF CopiesInv
  <2> QED
    BY <1>9, <1>11, <2>1
<1> QED
  BY <1>13, <1>14, CopiesInvNext

(* poll returns at most one retry of a window of 1, for its own call.      *)
LEMMA PollCopies ==
    ASSUME CopiesInv, WindowSize <= 1, PollSession, NEW k
    PROVE  /\ CountOf(retries', k) \in {0, 1}
           /\ CountOf(retries', k) # 0
                => \E tx \in Retried : m_pending_by_tx[tx].caller = k
<1> DEFINE n == Cardinality(Retried)
<1>1. SessionInv
  BY DEF CopiesInv, NarrowInv, StackInv
<1>2. PICK order \in SetToSeqs(Retried) :
         retries' = [i \in DOMAIN order |-> RetransmitEntry(order[i])]
  BY DEF PollSession
<1>3. Retried \subseteq InWindow
  BY DEF Retried, Due
<1>4. n \in Nat /\ n <= 1
  <2>1. IsFiniteSet(InWindow) /\ Cardinality(InWindow) <= 1
    BY <1>1, InWindowFinite, SessionAssumption
    DEF SessionInv, InflightExact, CountWithinWindow, window_size
  <2> QED
    BY <1>3, <2>1, FS_Subset, FS_CardinalityType
<1>5. order \in [1 .. n -> Retried]
  BY DEF SetToSeqs
<1> HIDE DEF n
<1>6. /\ DOMAIN retries' = 1 .. n
      /\ \A i \in 1 .. n : retries'[i].body = m_pending_by_tx[order[i]].caller
  BY <1>2, <1>5 DEF RetransmitEntry
<1>7. RequestsOf(retries', k) \subseteq {1}
  BY <1>4, <1>6 DEF RequestsOf
<1>8. CountOf(retries', k) \in {0, 1}
  <2>1. IsFiniteSet({1}) /\ Cardinality({1}) = 1
    BY FS_Singleton
  <2>2. IsFiniteSet(RequestsOf(retries', k)) /\ Cardinality(RequestsOf(retries', k)) <= 1
    BY <1>7, <2>1, FS_Subset
  <2> QED
    BY <2>2, FS_CardinalityType DEF CountOf
<1>9. ASSUME CountOf(retries', k) # 0
      PROVE  \E tx \in Retried : m_pending_by_tx[tx].caller = k
  <2>1. RequestsOf(retries', k) # {}
    BY <1>9, FS_EmptySet DEF CountOf
  <2>2. PICK i \in 1 .. n : retries'[i].body = k
    BY <1>6, <2>1 DEF RequestsOf
  <2> QED
    BY <1>5, <1>6, <2>2
<1> QED
  BY <1>8, <1>9

(* A retry is counted and makes one copy.                                  *)
LEMMA PollKeepsCopies ==
    ASSUME CopiesInv, WindowSize <= 1, NarrowInv', PollSession
    PROVE  CopiesInv'
<1> DEFINE Retry(tx) ==
        [m_pending_by_tx[tx] EXCEPT !.retry_count = m_pending_by_tx[tx].retry_count + 1,
                                    !.left = m_pending_by_tx[tx].timeout]
<1>1. SessionInv /\ StackOK /\ StackOK' /\ poll /\ UNCHANGED m_tx_queue /\ retries = <<>>
  BY DEF CopiesInv, NarrowInv, StackInv, StackOK, PollSession
<1>2. \A tx \in DOMAIN m_pending_by_tx :
        /\ m_pending_by_tx[tx] \in PendingEntries
        /\ m_pending_by_tx[tx].retry_count \in Nat
        /\ m_pending_by_tx[tx].caller \in DOMAIN answers
  BY <1>1, EntryFields DEF SessionInv, TypeOK, OneCallback
<1>3. \A tx \in DOMAIN m_pending_by_tx :
        /\ Retry(tx).caller = m_pending_by_tx[tx].caller
        /\ Retry(tx).inflight = m_pending_by_tx[tx].inflight
        /\ Retry(tx).retry_count = m_pending_by_tx[tx].retry_count + 1
  BY <1>2 DEF PendingEntries
<1>4. /\ m_pending_by_tx' =
           [tx \in DOMAIN m_pending_by_tx \ Expired |->
              IF tx \in Retried THEN Retry(tx) ELSE m_pending_by_tx[tx]]
      /\ DOMAIN answers' = DOMAIN answers
  BY <1>1 DEF poll
<1> HIDE DEF Retry
<1>5. \A tx \in Retried : tx \in DOMAIN m_pending_by_tx /\ m_pending_by_tx[tx].inflight
  BY DEF Retried, Due, InWindow
<1>6. ASSUME NEW k
      PROVE  /\ Copies(k) \in Nat /\ CopiesNext(k) \in Nat
             /\ CopiesNext(k) <= Copies(k) + 1
             /\ (\A tx \in Retried : m_pending_by_tx[tx].caller # k) => CopiesNext(k) = Copies(k)
  <2>1. CountOf(m_tx_queue', k) = CountOf(m_tx_queue, k)
    BY <1>1
  <2>2. CountOf(retries, k) = 0
    BY <1>1, FS_EmptySet DEF CountOf, RequestsOf
  <2>3. /\ CountOf(retries', k) \in {0, 1}
        /\ CountOf(retries', k) # 0 => \E tx \in Retried : m_pending_by_tx[tx].caller = k
    BY PollCopies
  <2> QED
    BY <1>1, <2>1, <2>2, <2>3, CopiesType
<1>7. ASSUME NEW tx \in DOMAIN m_pending_by_tx'
      PROVE  LET entry == m_pending_by_tx'[tx]
             IN CopiesNext(entry.caller) <= IF entry.inflight THEN entry.retry_count + 1 ELSE 0
  <2> DEFINE old == m_pending_by_tx[tx]
  <2>1. tx \in DOMAIN m_pending_by_tx
    BY <1>4, <1>7
  <2>2. Copies(old.caller) <= IF old.inflight THEN old.retry_count + 1 ELSE 0
    BY <2>1 DEF CopiesInv, CopiesWithinRetries
  <2>3. old.retry_count \in Nat
    BY <1>2, <2>1
  <2>4. CASE tx \in Retried
    <3>1. /\ m_pending_by_tx'[tx].caller = old.caller
          /\ m_pending_by_tx'[tx].inflight
          /\ m_pending_by_tx'[tx].retry_count = old.retry_count + 1
          /\ old.inflight
      BY <1>3, <1>4, <1>5, <1>7, <2>1, <2>4
    <3> HIDE DEF old
    <3>2. CopiesNext(old.caller) <= old.retry_count + 2
      BY <1>6, <2>2, <2>3, <3>1
    <3> QED
      BY <2>3, <3>1, <3>2
  <2>5. CASE tx \notin Retried
    <3>1. m_pending_by_tx'[tx] = old
      BY <1>4, <1>7, <2>5
    <3>2. \A t \in Retried : m_pending_by_tx[t].caller # old.caller
      BY <1>1, <1>5, <2>1, <2>5 DEF SessionInv, OneCallback
    <3> HIDE DEF old
    <3>3. CopiesNext(old.caller) = Copies(old.caller)
      BY <1>6, <3>2
    <3> QED
      BY <2>2, <3>1, <3>3
  <2> QED
    BY <2>4, <2>5
<1>8. \A k \in Callers \ DOMAIN answers' : CopiesNext(k) = 0
  <2> SUFFICES ASSUME NEW k \in Callers \ DOMAIN answers'
               PROVE  CopiesNext(k) = 0
    OBVIOUS
  <2>1. Copies(k) = 0 /\ \A tx \in Retried : m_pending_by_tx[tx].caller # k
    BY <1>2, <1>4, <1>5 DEF CopiesInv
  <2> QED
    BY <1>6, <2>1
<1> QED
  BY <1>7, <1>8, CopiesInvNext

(* A retry that is queued waits in the queue instead.                      *)
LEMMA RequeueCopies ==
    ASSUME CopiesInv, NarrowInv', RequeueRetry
    PROVE  CopiesInv'
<1> DEFINE r == Head(retries)
           f == [cmd |-> r.cmd, tx |-> r.tx, body |-> r.body]
<1>1. /\ StackOK /\ StackOK' /\ retries \in Seq(RetryEntries) /\ retries # <<>>
      /\ retries' = Tail(retries)
      /\ UNCHANGED session_vars
  BY DEF RequeueRetry, CopiesInv, NarrowInv, StackInv, StackOK
<1>2. r \in RetryEntries /\ r.valid
  <2>1. 1 \in DOMAIN retries /\ r = retries[1] /\ r \in RetryEntries
    BY <1>1
  <2> QED
    BY <2>1 DEF CopiesInv, NarrowInv, RetryBytesValid
<1>3. m_tx_queue' = enqueue_pending_frame(m_tx_queue, f)
  BY <1>2 DEF RequeueRetry
<1>4. f \in Frames /\ f.cmd = r.cmd /\ f.body = r.body
  BY <1>2, FrameTypes DEF RetryEntries
<1>5. \A k : IsCopy(f, k) = IsCopy(r, k) /\ IsCopy(f, k) \in {0, 1}
  BY <1>4 DEF IsCopy
<1> HIDE DEF f, r
<1>6. CopiesShrink
  <2> SUFFICES ASSUME NEW k \in Callers
               PROVE  CopiesNext(k) <= Copies(k)
    BY DEF CopiesShrink
  <2>1. CountOf(m_tx_queue', k) <= CountOf(m_tx_queue, k) + IsCopy(f, k)
    BY <1>1, <1>3, <1>4, CopiesQueued
  <2>2. CountOf(retries', k) + IsCopy(r, k) <= CountOf(retries, k)
    BY <1>1, CopiesOfTail DEF r
  <2> QED
    BY <1>1, <1>5, <2>1, <2>2, CopiesType
<1>7. CallsStay
  BY <1>1, SameCalls DEF session_vars, host_vars
<1> QED
  BY <1>6, <1>7, StayKeepsCopies

(* A frame that is sent waits no more.                                     *)
LEMMA FrameSentCopies ==
    ASSUME CopiesInv, NarrowInv', FrameSent
    PROVE  CopiesInv'
<1>1. /\ StackOK /\ StackOK' /\ m_tx_queue \in Seq(Frames) /\ m_tx_queue # <<>>
      /\ m_tx_queue' = Tail(m_tx_queue)
      /\ UNCHANGED <<session_vars, retries>>
  BY DEF FrameSent, CopiesInv, NarrowInv, StackInv, StackOK, Fits
<1>2. CopiesShrink
  <2> SUFFICES ASSUME NEW k \in Callers
               PROVE  CopiesNext(k) <= Copies(k)
    BY DEF CopiesShrink
  <2>1. CountOf(m_tx_queue', k) + IsCopy(Head(m_tx_queue), k) <= CountOf(m_tx_queue, k)
    BY <1>1, CopiesOfTail
  <2>2. IsCopy(Head(m_tx_queue), k) \in {0, 1}
    BY DEF IsCopy
  <2>3. CountOf(retries', k) = CountOf(retries, k)
    BY <1>1
  <2> QED
    BY <1>1, <2>1, <2>2, <2>3, CopiesType
<1> QED
  BY <1>1, <1>2, SameCalls, StayKeepsCopies DEF session_vars, host_vars

(* Every step keeps the copies within the retries.                         *)
LEMMA NextCopiesInv ==
    ASSUME WindowSize <= 1, OwnCommands, CopiesInv, [EndpointNext]_vars
    PROVE  CopiesInv'
<1>1. NarrowInv' /\ StackOK /\ TypeOK
  BY NextNarrowInv DEF CopiesInv, NarrowInv, StackInv, SessionInv
<1>2. CASE Receive
  BY <1>1, <1>2, ReceiveCopies
<1>3. CASE PollSession \/ RequeueRetry \/ PumpOutbound \/ FrameSent
  BY <1>1, <1>3, PollKeepsCopies, RequeueCopies, PumpCopies, FrameSentCopies
<1>4. CASE \E k \in Callers, cmd \in RequestCmds, timeout \in Timeouts,
             max_retries \in RetryLimits : Send(k, cmd, timeout, max_retries)
  BY <1>1, <1>4, SendCopies
<1>5. CASE \E cmd \in TelemetryCmds : broadcast(cmd)
  <2>1. PICK cmd \in TelemetryCmds : broadcast(cmd)
    BY <1>5
  <2> DEFINE f == [cmd |-> cmd, tx |-> 0, body |-> NoBody]
  <2>2. f \in Frames /\ f.cmd \notin RequestCmds
    BY FrameTypes DEF OwnCommands
  <2>3. /\ m_tx_queue' = enqueue_prebuilt_frame(m_tx_queue, f, FALSE)
        /\ UNCHANGED <<session_vars, retries>>
    BY <2>1 DEF broadcast
  <2> HIDE DEF f
  <2> QED
    BY <1>1, <2>2, <2>3, SameCalls, ForeignFrame, StayKeepsCopies DEF session_vars, host_vars
<1>6. CASE AnswerRequest
  <2> DEFINE f == [cmd |-> ResponseOf[running.cmd], tx |-> running.tx, body |-> running.body]
  <2>1. /\ running.cmd \in RequestCmds /\ running.tx \in TxIds /\ running.body \in Callers
        /\ ResponseOf[running.cmd] \in ResponseCmds
    BY <1>1, <1>6, SessionAssumption DEF AnswerRequest, StackOK, Answerable, Frames
  <2>2. f \in Frames /\ f.cmd \notin RequestCmds
    BY <2>1, FrameTypes DEF OwnCommands
  <2>3. /\ m_tx_queue' = enqueue_prebuilt_frame(m_tx_queue, f, TRUE)
        /\ UNCHANGED <<host_vars, retries>>
    BY <1>6 DEF AnswerRequest, send_response_and_cache, cache_response
  <2> HIDE DEF f
  <2> QED
    BY <1>1, <2>2, <2>3, SameCalls, ForeignFrame, StayKeepsCopies DEF host_vars
<1>7. CASE \/ HandlerReturns \/ RxDrained \/ OutboundDone \/ ErrorCallbacksReturn \/ FrameKept
           \/ UNCHANGED vars
           \/ \E cmd \in HandlerCmds : register_handler(cmd)
  <2>1. UNCHANGED <<m_pending_by_tx, answers, m_tx_queue, retries>>
    BY <1>7 DEF HandlerReturns, RxDrained, OutboundDone, NoOutbound, ErrorCallbacksReturn,
                FrameKept, register_handler, vars, stack_vars, session_vars, host_vars
  <2> QED
    BY <1>1, <2>1, SameCalls, SameCopies, StayKeepsCopies
<1>8. CASE ClockTick
  <2>1. CallsStay /\ UNCHANGED <<m_tx_queue, retries>>
    BY <1>1, <1>8, TickStays DEF ClockTick, stack_vars
  <2> QED
    BY <1>1, <2>1, SameCopies, StayKeepsCopies
<1> QED
  BY <1>2, <1>3, <1>4, <1>5, <1>6, <1>7, <1>8
  DEF EndpointNext, AppCalls, CycleStep, handle_session_outbound, drain_tx

(* With a window of 1, and requests told from all else by their commands,  *)
(* no more copies of a pending request wait to be sent than its first      *)
(* frame and the retries counted for it, and none before its turn, for     *)
(* every queue, timeout and retry limit and however long the link refuses  *)
(* frames (ProtocolStack.hpp:259-284).                                     *)
THEOREM CopiesBounded ==
    ASSUME WindowSize <= 1, OwnCommands
    PROVE  StackSpec => []CopiesWithinRetries
<1>1. StackInit => CopiesInv
  <2> SUFFICES ASSUME StackInit PROVE CopiesInv
    OBVIOUS
  <2>1. NarrowInv
    BY InitStackInv DEF StackInit, NarrowInv, RetryBytesValid
  <2>2. \A k : Copies(k) = 0
    BY FS_EmptySet DEF StackInit, Copies, RequestsOf
  <2> QED
    BY <2>1, <2>2 DEF CopiesInv, CopiesWithinRetries, StackInit, SessionInit, NoEntries
<1>2. CopiesInv /\ [EndpointNext]_vars => CopiesInv'
  BY NextCopiesInv
<1>3. CopiesInv => CopiesWithinRetries
  BY DEF CopiesInv
<1> QED
  BY <1>1, <1>2, <1>3, PTL DEF StackSpec

-----------------------------------------------------------------------------
(***************************************************************************)
(* The responses of the session by itself (module MCSessionHost): through  *)
(* whatever calls, answers, polls and resets, the ring m_seen_responses is *)
(* the ring of module DedupRing, and so the window that one implements.    *)
(***************************************************************************)
\* DedupRing again, with the theorems about it.
SeenRing == INSTANCE DedupRing_proofs
              WITH Capacity <- SeenIdRingSize, Zero <- NoKey,
                   Ids <- ResponseCmds \X TxIds, ring <- m_seen_responses

\* The steps of HostSpec.
HostStep == CallStep \/ ResponseStep \/ ResetStep

(* The key of a response is not that of an unused slot, <<0, 0>>.          *)
LEMMA ResponseKeys ==
    ASSUME 0 \notin ResponseCmds
    PROVE  SeenRing!RingConstants
BY SessionAssumption DEF SeenRing!RingConstants, NoKey

(* No call of the application and no tick touches the ring.                *)
LEMMA CallsLeaveRing ==
    ASSUME CallStep
    PROVE  UNCHANGED <<m_seen_responses, verdict>>
<1>1. Calling /\ verdict' = verdict
  BY DEF CallStep
<1>2. ASSUME NEW tx \in TxIds, set_next_tx_id(tx) \/ on_ack(tx)
      PROVE  UNCHANGED m_seen_responses
  BY <1>2, Zenon DEF set_next_tx_id, on_ack
<1>3. ASSUME NEW k, NEW cmd, NEW timeout, NEW max_retries,
             send(k, cmd, timeout, max_retries)
      PROVE  UNCHANGED m_seen_responses
  BY <1>3, Zenon DEF send
<1>4. ASSUME poll \/ Tick
      PROVE  UNCHANGED m_seen_responses
  BY <1>4, Zenon DEF poll, Tick
<1>5. ASSUME next_outbound
      PROVE  UNCHANGED m_seen_responses
  BY <1>5, Zenon DEF next_outbound, TakeOutbound, NoOutbound
<1>6. UNCHANGED m_seen_responses
  BY <1>1, <1>2, <1>3, <1>4, <1>5, Zenon DEF Calling
<1> QED
  BY <1>1, <1>6

(* A response is looked up, and remembered if it is new; it has no effect  *)
(* just when it was there (ReliableSession.hpp:101-129).                   *)
LEMMA ResponseIsInsertion ==
    ASSUME SeenRing!RingConstants, SeenRing!WellFormed(m_seen_responses),
           NEW cmd \in ResponseCmds, NEW tx \in TxIds, NEW body \in Callers,
           JudgedResponse(cmd, tx, body)
    PROVE  SeenRing!test_and_insert(<<cmd, tx>>)
<1> DEFINE id == <<cmd, tx>>
           ring == m_seen_responses
           quiet == session_vars' = session_vars
<1>1. id \in ResponseCmds \X TxIds
  OBVIOUS
<1>2. on_response(cmd, tx, body) /\ verdict' = [id |-> id, seen |-> quiet]
  BY DEF JudgedResponse, compose_dedup_key
<1>3. (quiet => m_seen_responses' = ring) /\ quiet \in BOOLEAN
  BY Zenon DEF session_vars, host_vars
<1>4. SeenRing!Holds(ring, id) \in BOOLEAN
  BY Zenon DEF SeenRing!Holds
<1>5. CASE SeenRing!Holds(ring, id)
  <2>1. quiet
    BY <1>2, <1>5, Zenon
    DEF on_response, DuplicateResponse, StrayResponse, MatchedResponse, compose_dedup_key,
        Ring!Holds, Ring!Slots, SeenRing!Holds, SeenRing!Slots
  <2>2. quiet = SeenRing!Holds(ring, id)
    BY <1>3, <1>4, <1>5, <2>1, Zenon
  <2> HIDE DEF quiet
  <2>3. verdict' = [id |-> id, seen |-> SeenRing!Holds(ring, id)]
    BY <1>2, <2>2, Zenon
  <2>4. m_seen_responses' = SeenRing!Inserted(ring, id)
    BY <1>3, <1>5, <2>1, Zenon DEF SeenRing!Inserted
  <2> QED
    BY <2>3, <2>4, Zenon DEF SeenRing!test_and_insert
<1>6. CASE ~ SeenRing!Holds(ring, id)
  <2>1. m_seen_responses' = SeenRing!Inserted(ring, id)
    BY <1>2, <1>6, Zenon
    DEF on_response, DuplicateResponse, StrayResponse, MatchedResponse, compose_dedup_key,
        Ring!Holds, Ring!Slots, SeenRing!Holds, SeenRing!Slots,
        Ring!Inserted, SeenRing!Inserted
  <2>2. ring \in SeenRing!Rings(ResponseCmds \X TxIds)
    BY DEF SeenRing!WellFormed
  <2>3. /\ ring.write_idx \in SeenRing!Slots
        /\ m_seen_responses'.ids[ring.write_idx] = id
    <3>1. /\ ring.write_idx \in SeenRing!Slots
          /\ DOMAIN ring.ids = SeenRing!Slots
      BY <2>2 DEF SeenRing!Rings
    <3>2. SeenRing!Inserted(ring, id).ids = [ring.ids EXCEPT ![ring.write_idx] = id]
      BY <1>6 DEF SeenRing!Inserted
    <3> QED
      BY <2>1, <3>1, <3>2
  <2>4. SeenRing!Holds(m_seen_responses', id)
    BY <2>3, Zenon DEF SeenRing!Holds
  <2>5. ~ quiet
    BY <1>3, <1>6, <2>4
  <2>6. quiet = SeenRing!Holds(ring, id)
    BY <1>3, <1>4, <1>6, <2>5, Zenon
  <2> HIDE DEF quiet
  <2>7. verdict' = [id |-> id, seen |-> SeenRing!Holds(ring, id)]
    BY <1>2, <2>6, Zenon
  <2> QED
    BY <2>1, <2>7, Zenon DEF SeenRing!test_and_insert
<1> QED
  BY <1>5, <1>6

(* Every step of the session is a call on the ring or leaves it alone.     *)
LEMMA HostStepOnRing ==
    ASSUME SeenRing!RingConstants, SeenRing!WellFormed(m_seen_responses),
           [HostStep]_<<session_vars, verdict>>
    PROVE  [SeenRing!Next]_(SeenRing!vars)
<1>1. CASE CallStep
  BY <1>1, CallsLeaveRing DEF SeenRing!vars
<1>2. CASE ResponseStep
  <2>1. PICK cmd \in ResponseCmds, tx \in TxIds, body \in Callers :
          JudgedResponse(cmd, tx, body)
    BY <1>2, Zenon DEF ResponseStep, TxIds
  <2>2. SeenRing!test_and_insert(<<cmd, tx>>)
    BY <2>1, ResponseIsInsertion
  <2> QED
    BY <2>2 DEF SeenRing!Next
<1>3. CASE ResetStep
  <2>1. SeenRing!clear
    BY <1>3, Zenon
    DEF ResetStep, reset_device_state, Seen!NoCall, SeenRing!NoCall, SeenRing!clear,
        Ring!Empty, Ring!Slots, SeenRing!Empty, SeenRing!Slots
  <2> QED
    BY <2>1 DEF SeenRing!Next
<1>4. CASE UNCHANGED <<session_vars, verdict>>
  BY <1>4 DEF session_vars, host_vars, SeenRing!vars
<1> QED
  BY <1>1, <1>2, <1>3, <1>4 DEF HostStep

(* The window as module MCSessionHost and as module DedupRing name it.     *)
LEMMA SameWindow ==
    /\ SeenRing!Window!Init => Seen!Window!Init
    /\ [SeenRing!Window!Next]_(SeenRing!Window!vars)
         => [Seen!Window!Next]_(Seen!Window!vars)
<1>1. Seen!Remembered = SeenRing!Remembered
  BY Zenon
  DEF Seen!Remembered, Seen!WindowOf, SeenRing!Remembered, SeenRing!WindowOf
<1>2. \A id : id \in Seen!Window!ToSet(Seen!Remembered)
              <=> id \in SeenRing!Window!ToSet(SeenRing!Remembered)
  BY <1>1, Zenon DEF Seen!Window!ToSet, SeenRing!Window!ToSet
<1>3. ASSUME SeenRing!Window!Init
      PROVE  Seen!Window!Init
  BY <1>1, <1>3, Zenon
  DEF SeenRing!Window!Init, Seen!Window!Init, SeenRing!Window!NoCall, Seen!Window!NoCall
<1>4. Seen!Remembered' = SeenRing!Remembered'
  BY Zenon
  DEF Seen!Remembered, Seen!WindowOf, SeenRing!Remembered, SeenRing!WindowOf
<1>5. ASSUME SeenRing!Window!Next
      PROVE  Seen!Window!Next
  <2>1. CASE SeenRing!Window!Forget
    BY <1>4, <2>1, Zenon
    DEF SeenRing!Window!Forget, Seen!Window!Forget, Seen!Window!Next,
        SeenRing!Window!NoCall, Seen!Window!NoCall
  <2>2. ASSUME NEW id \in ResponseCmds \X TxIds,
               SeenRing!Window!Repeat(id) \/ SeenRing!Window!New(id)
        PROVE  Seen!Window!Repeat(id) \/ Seen!Window!New(id)
    BY <1>1, <1>2, <1>4, <2>2, Zenon
    DEF SeenRing!Window!Repeat, Seen!Window!Repeat, SeenRing!Window!New, Seen!Window!New
  <2> QED
    BY <1>5, <2>1, <2>2, Zenon DEF SeenRing!Window!Next, Seen!Window!Next
<1>6. SeenRing!Window!vars' = SeenRing!Window!vars
        => Seen!Window!vars' = Seen!Window!vars
  BY <1>1, <1>4, Zenon DEF SeenRing!Window!vars, Seen!Window!vars
<1> QED
  BY <1>3, <1>5, <1>6, Zenon

(* For every ring size, every set of commands and every number of ids:     *)
(* within a session, of all responses that arrive, matched, stray, late or *)
(* forged, exactly those among the last SeenIdRingSize new ones are        *)
(* without effect (ReliableSession.hpp:101-129, 302-308).                  *)
THEOREM SessionImplementsWindow ==
    ASSUME 0 \notin ResponseCmds
    PROVE  HostSpec => ImplementsWindow
<1> DEFINE Inv == SeenRing!WellFormed(m_seen_responses)
<1>1. SeenRing!RingConstants
  BY ResponseKeys
<1>2. HostInit => SeenRing!Init
  BY DEF HostInit, SessionInit, Seen!NoCall, Ring!Empty, Ring!Slots,
         SeenRing!Init, SeenRing!NoCall, SeenRing!Empty, SeenRing!Slots
<1>3. SeenRing!Init => Inv
  BY <1>1, SeenRing!EmptyRing DEF SeenRing!Init
<1>4. SeenRing!Init => Seen!Window!Init
  <2>1. SeenRing!WindowOf(SeenRing!Empty) = <<>>
    BY <1>1, SeenRing!EmptyWindow
  <2>2. SeenRing!Init => SeenRing!Window!Init
    BY <2>1 DEF SeenRing!Init, SeenRing!Remembered, SeenRing!NoCall,
                SeenRing!Window!Init, SeenRing!Window!NoCall
  <2> QED
    BY <2>2, SameWindow
<1>5. Inv /\ [HostStep]_<<session_vars, verdict>> => Inv'
  BY <1>1, HostStepOnRing, SeenRing!FormStep
<1>6. Inv /\ [HostStep]_<<session_vars, verdict>>
        => [Seen!Window!Next]_(Seen!Window!vars)
  BY <1>1, HostStepOnRing, SeenRing!StepImplements, SameWindow
<1> QED
  BY <1>2, <1>3, <1>4, <1>5, <1>6, PTL
  DEF HostSpec, HostStep, ImplementsWindow, Seen!ImplementsWindow, Seen!Window!Spec
====
