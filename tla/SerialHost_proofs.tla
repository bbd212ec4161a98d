------------------------- MODULE SerialHost_proofs --------------------------
(***************************************************************************)
(* The counted loop outlasts every call, for every number of calls, every  *)
(* window, timeout and number of retries, and whatever device and line do. *)
(*                                                                         *)
(* The turns a call may still see are bounded by what is still to come:    *)
(* each pending call has a cost in turns, which its timeouts, its retries  *)
(* and the acks that may still restart its timeout determine, and the      *)
(* costs of all of them make up a budget.  A turn of the loop spends at    *)
(* least one of it; a new call adds CallTurns; nothing else adds anything. *)
(***************************************************************************)
EXTENDS SerialHost, ReliableLink_proofs

-----------------------------------------------------------------------------
(***************************************************************************)
(* Hypotheses.                                                             *)
(***************************************************************************)

\* A call has a retry limit to choose, and the timeouts have a largest.
CallChoices == IsFiniteSet(Timeouts) /\ RetryLimits # {}

-----------------------------------------------------------------------------
(***************************************************************************)
(* The budget.                                                             *)
(***************************************************************************)
Positions(q, S) == {i \in DOMAIN q : q[i] \in S}
Count(q, S) == Cardinality(Positions(q, S))

Requests(t) == [cmd : RequestCmds, tx : {t}, body : Callers]
Resent(t) == [cmd : RequestCmds, tx : {t}, body : Callers, valid : {TRUE}]
AckOf(t) == [cmd |-> Host!ACK_CMD, tx |-> t, body |-> NoBody]

\* The acks that may still reach the host for id t: of the requests to be queued
\* again, queued and on the line, and those queued and on the line themselves.
Acks(t) ==
    Count(h_retries, Resent(t)) + Count(h_tx_queue, Requests(t)) + Count(h2d, Requests(t))
      + Count(d_tx_queue, {AckOf(t)}) + Count(d2h, {AckOf(t)})

\* Whether this turn has polled the session, and whether it has pumped the window.
Polled == main = "sleep" \/ h_phase \in {"errors", "requeue", "tx"}
Pumped == Polled \/ h_phase = "poll"

\* Sleeps until a deadline n ticks away has passed and been seen by poll, which
\* sees one that has passed after the poll of this turn only in the next.
Sleeps(n) == (n + SleepTicks - 1) \div SleepTicks
Left(polled, n) == IF polled /\ n = 0 THEN 1 ELSE Sleeps(n)

\* How often the timeout of a call in the window may start again: twice for each
\* retransmission that is left, once for itself and once for its ack, and once
\* for each ack under way.
Restarts(t) == 2 * (h_pending[t].max_retries - h_pending[t].retry_count) + Acks(t)

\* Turns until it ends.
InFlightCost(t) == Restarts(t) * WaitTurns + Left(Polled, h_pending[t].left) + 1

Cost(t) == IF h_pending[t].inflight THEN InFlightCost(t) ELSE CallTurns

Costs == [t \in DOMAIN h_pending |-> Cost(t)]

\* The sum of the values of a function, as the size of a set of so many elements.
Units(c) == UNION {{t} \X (1 .. c[t]) : t \in DOMAIN c}
Total(c) == Cardinality(Units(c))

\* The turn after which an empty window is filled again.
Idle == IF Pumped /\ HS!InWindow = {} /\ Issued # {} THEN 1 ELSE 0

ToSpend == Total(Costs) + Idle
Allowance == Cardinality(Issued) * CallTurns

\* No ack is under way for an id that has not been sent yet.
QuietIds ==
    \A t \in HS!TxIds :
        t >= h_next_tx_id \/ (t \in DOMAIN h_pending /\ ~ h_pending[t].inflight)
          => Acks(t) = 0

LoopState ==
    /\ main \in {"cycle", "sleep"}
    /\ main = "sleep" => h_phase = "rx"
    /\ h_phase = "errors" => Issued # {}
    /\ abandoned = {}
    /\ turns \in [Callers -> Nat]
    /\ \A k \in Callers \ Issued : turns[k] = 0

WithinAllowance ==
    /\ ToSpend <= Allowance
    /\ \A k \in Callers : Open(k) => turns[k] + ToSpend <= Allowance

LoopInv == LinkInvariant /\ LoopState /\ QuietIds /\ WithinAllowance

-----------------------------------------------------------------------------
(***************************************************************************)
(* Counting in queues.                                                     *)
(***************************************************************************)
Bit(x, S) == IF x \in S THEN 1 ELSE 0

(* The positions of a queue are finitely many.                             *)
LEMMA CountType ==
    ASSUME NEW X, NEW q \in Seq(X), NEW S
    PROVE  IsFiniteSet(Positions(q, S)) /\ Count(q, S) \in Nat
<1>1. IsFiniteSet(1 .. Len(q))
  BY FS_Interval
<1>2. Positions(q, S) \subseteq 1 .. Len(q)
  BY DEF Positions
<1> QED
  BY <1>1, <1>2, FS_Subset, FS_CardinalityType DEF Count

(* A queue whose frames are all, at a place of their own, in another one.  *)
LEMMA CountEmbedded ==
    ASSUME NEW X, NEW p \in Seq(X), NEW q \in Seq(X), NEW S,
           NEW f \in [DOMAIN p -> DOMAIN q],
           \A i, j \in DOMAIN p : f[i] = f[j] => i = j,
           \A i \in DOMAIN p : q[f[i]] = p[i]
    PROVE  Count(p, S) <= Count(q, S)
<1> DEFINE g == [i \in Positions(p, S) |-> f[i]]
<1>1. g \in Injection(Positions(p, S), Positions(q, S))
  BY DEF Injection, Positions, IsInjective
<1>2. IsFiniteSet(Positions(q, S))
  BY CountType
<1> QED
  BY <1>1, <1>2, FS_Injection DEF Count

(* Nothing is in an empty queue.                                           *)
LEMMA CountEmpty == \A S : Count(<<>>, S) = 0
BY FS_EmptySet DEF Count, Positions

(* A frame put in adds at most itself.                                     *)
LEMMA CountAppend ==
    ASSUME NEW X, NEW q \in Seq(X), NEW frame \in X, NEW S
    PROVE  Count(Append(q, frame), S) <= Count(q, S) + Bit(frame, S)
<1> DEFINE p == Append(q, frame)
           n == Len(q) + 1
<1>1. p \in Seq(X) /\ DOMAIN p = 1 .. n /\ n \in Nat /\ n >= 1 /\ p[n] = frame
      /\ DOMAIN q = 1 .. n - 1 /\ \A i \in 1 .. n - 1 : p[i] = q[i]
  OBVIOUS
<1> HIDE DEF p, n
<1>2. Positions(p, S) = IF frame \in S THEN Positions(q, S) \cup {n} ELSE Positions(q, S)
  <2>1. \A i : i \in 1 .. n <=> i \in 1 .. n - 1 \/ i = n
    BY <1>1
  <2>2. n \notin 1 .. n - 1
    BY <1>1
  <2> QED
    BY <1>1, <2>1, <2>2 DEF Positions
<1> DEFINE A == Positions(q, S)
<1>3. IsFiniteSet(A) /\ Cardinality(A) \in Nat
  BY CountType DEF Count
<1> HIDE DEF A
<1>4. Cardinality(A \cup {n}) <= Cardinality(A) + 1
  <2>1. Cardinality(A \cup {n}) = IF n \in A THEN Cardinality(A) ELSE Cardinality(A) + 1
    BY <1>3, FS_AddElement
  <2> QED
    BY <1>3, <2>1
<1> QED
  BY <1>2, <1>3, <1>4 DEF Count, Bit, p, A

(* The frame taken out first is no longer counted.                         *)
LEMMA CountTail ==
    ASSUME NEW X, NEW q \in Seq(X), q # <<>>, NEW S
    PROVE  Count(Tail(q), S) + Bit(Head(q), S) <= Count(q, S)
<1> DEFINE A == Positions(Tail(q), S)
           B == Positions(q, S) \ {1}
           g == [i \in A |-> i + 1]
<1>1. /\ Tail(q) \in Seq(X) /\ Head(q) = q[1] /\ 1 \in DOMAIN q
      /\ \A i \in DOMAIN Tail(q) : i \in Nat /\ i > 0 /\ i + 1 \in DOMAIN q /\ Tail(q)[i] = q[i + 1]
  OBVIOUS
<1>2. IsFiniteSet(Positions(q, S)) /\ Count(q, S) \in Nat
  BY CountType
<1>3. g \in Injection(A, B)
  BY <1>1 DEF Injection, Positions, IsInjective
<1>4. IsFiniteSet(B) /\ Cardinality(B) = IF Head(q) \in S THEN Count(q, S) - 1 ELSE Count(q, S)
  <2>1. 1 \in Positions(q, S) <=> Head(q) \in S
    BY <1>1 DEF Positions
  <2> QED
    BY <1>2, <2>1, FS_RemoveElement DEF Count
<1>5. Cardinality(A) <= Cardinality(B) /\ Cardinality(A) \in Nat
  BY <1>3, <1>4, FS_Injection, FS_CardinalityType
<1> QED
  BY <1>2, <1>4, <1>5 DEF Count, Bit

(* Two sequences one after the other.                                      *)
LEMMA Joined ==
    ASSUME NEW X, NEW a \in Seq(X), NEW b \in Seq(X)
    PROVE  /\ a \o b \in Seq(X) /\ DOMAIN (a \o b) = 1 .. Len(a) + Len(b)
           /\ \A i \in 1 .. Len(a) + Len(b) :
                 (a \o b)[i] = IF i <= Len(a) THEN a[i] ELSE b[i - Len(a)]
OBVIOUS

(* Nor is a frame dropped from the middle counted,                         *)
LEMMA CountRemoveAt ==
    ASSUME NEW X, NEW q \in Seq(X), NEW k \in DOMAIN q, NEW S
    PROVE  /\ Device!RemoveAt(q, k) \in Seq(X)
           /\ Count(Device!RemoveAt(q, k), S) <= Count(q, S)
<1> DEFINE p == SubSeq(q, 1, k - 1) \o SubSeq(q, k + 1, Len(q))
           f == [i \in DOMAIN p |-> IF i < k THEN i ELSE i + 1]
<1>1. k \in 1 .. Len(q) /\ Len(q) \in Nat
  OBVIOUS
<1>2. /\ p \in Seq(X) /\ DOMAIN p = 1 .. Len(q) - 1
      /\ \A i \in DOMAIN p : p[i] = IF i < k THEN q[i] ELSE q[i + 1]
  <2>1. /\ SubSeq(q, 1, k - 1) \in Seq(X) /\ Len(SubSeq(q, 1, k - 1)) = k - 1
        /\ \A i \in 1 .. k - 1 : SubSeq(q, 1, k - 1)[i] = q[i]
    BY <1>1
  <2>2. /\ SubSeq(q, k + 1, Len(q)) \in Seq(X) /\ Len(SubSeq(q, k + 1, Len(q))) = Len(q) - k
        /\ \A i \in 1 .. Len(q) - k : SubSeq(q, k + 1, Len(q))[i] = q[i + k]
    BY <1>1
  <2> DEFINE a == SubSeq(q, 1, k - 1)
             b == SubSeq(q, k + 1, Len(q))
  <2> HIDE DEF a, b
  <2>3. /\ a \o b \in Seq(X) /\ DOMAIN (a \o b) = 1 .. Len(q) - 1
        /\ \A i \in 1 .. Len(q) - 1 : (a \o b)[i] = IF i < k THEN a[i] ELSE b[i - (k - 1)]
    <3>1. a \in Seq(X) /\ b \in Seq(X) /\ Len(a) = k - 1 /\ Len(b) = Len(q) - k
      BY <2>1, <2>2 DEF a, b
    <3>2. /\ a \o b \in Seq(X) /\ DOMAIN (a \o b) = 1 .. Len(a) + Len(b)
          /\ \A i \in 1 .. Len(a) + Len(b) :
                (a \o b)[i] = IF i <= Len(a) THEN a[i] ELSE b[i - Len(a)]
      BY <3>1, Joined
    <3>3. Len(a) + Len(b) = Len(q) - 1
      BY <1>1, <3>1
    <3>4. \A i \in 1 .. Len(q) - 1 : i <= Len(a) <=> i < k
      BY <1>1, <3>1
    <3> QED
      BY <3>1, <3>2, <3>3, <3>4
  <2>4. \A i \in 1 .. Len(q) - 1 : (a \o b)[i] = IF i < k THEN q[i] ELSE q[i + 1]
    <3>1. \A i \in 1 .. Len(q) - 1 : i < k => i \in 1 .. k - 1
      BY <1>1
    <3>2. \A i \in 1 .. Len(q) - 1 :
             ~ (i < k) => i - (k - 1) \in 1 .. Len(q) - k /\ i - (k - 1) + k = i + 1
      BY <1>1
    <3> QED
      BY <2>1, <2>2, <2>3, <3>1, <3>2 DEF a, b
  <2> QED
    BY <2>3, <2>4 DEF a, b
<1>3. f \in [DOMAIN p -> DOMAIN q] /\ \A i, j \in DOMAIN p : f[i] = f[j] => i = j
  BY <1>1, <1>2
<1>4. \A i \in DOMAIN p : q[f[i]] = p[i]
  BY <1>2
<1> HIDE DEF f, p
<1>5. Count(p, S) <= Count(q, S)
  BY <1>2, <1>3, <1>4, CountEmbedded
<1> QED
  BY <1>2, <1>5 DEF Device!RemoveAt, p

(* nor one from the end.                                                   *)
LEMMA CountFront ==
    ASSUME NEW X, NEW q \in Seq(X), NEW S
    PROVE  Device!Front(q) \in Seq(X) /\ Count(Device!Front(q), S) <= Count(q, S)
<1> DEFINE p == SubSeq(q, 1, Len(q) - 1)
           f == [i \in DOMAIN p |-> i]
<1>1. /\ p \in Seq(X) /\ DOMAIN p \subseteq DOMAIN q
      /\ \A i \in DOMAIN p : p[i] = q[i]
  OBVIOUS
<1>2. Count(p, S) <= Count(q, S)
  <2>1. f \in [DOMAIN p -> DOMAIN q] /\ \A i, j \in DOMAIN p : f[i] = f[j] => i = j
    BY <1>1
  <2>2. \A i \in DOMAIN p : q[f[i]] = p[i]
    BY <1>1
  <2> HIDE DEF f, p
  <2> QED
    BY <1>1, <2>1, <2>2, CountEmbedded
<1> QED
  BY <1>1, <1>2 DEF Device!Front

(* Whatever a frame displaces, it adds at most itself to what is counted.  *)
LEMMA CountPrebuilt ==
    ASSUME NEW X, NEW q \in Seq(X), NEW frame \in X, NEW priority \in BOOLEAN, NEW S
    PROVE  LET queued == Device!enqueue_prebuilt_frame(q, frame, priority)
           IN queued \in Seq(X) /\ Count(queued, S) <= Count(q, S) + Bit(frame, S)
<1> DEFINE first == CHOOSE i \in Device!Telemetry(q) : \A j \in Device!Telemetry(q) : i <= j
           room == IF ~ Device!IsFull(q) THEN q
                   ELSE IF Device!Telemetry(q) # {} THEN Device!drop_one_telemetry(q)
                   ELSE Device!Front(q)
<1>1. Count(q, S) \in Nat /\ Bit(frame, S) \in {0, 1}
  BY CountType DEF Bit
<1>2. ASSUME Device!Telemetry(q) # {}
      PROVE  /\ Device!drop_one_telemetry(q) \in Seq(X)
             /\ Count(Device!drop_one_telemetry(q), S) <= Count(q, S)
  <2>1. Device!Telemetry(q) \in SUBSET Nat /\ Device!Telemetry(q) \subseteq DOMAIN q
    BY DEF Device!Telemetry
  <2>2. first \in Device!Telemetry(q)
    BY <1>2, <2>1, HS!LeastOfNats, Constants
  <2> HIDE DEF first
  <2>3. Device!RemoveAt(q, first) \in Seq(X) /\ Count(Device!RemoveAt(q, first), S) <= Count(q, S)
    BY <2>1, <2>2, CountRemoveAt
  <2> QED
    BY <2>3 DEF Device!drop_one_telemetry, first
<1>3. room \in Seq(X) /\ Count(room, S) <= Count(q, S)
  BY <1>1, <1>2, CountFront
<1>4. Device!enqueue_prebuilt_frame(q, frame, priority) \in {q, Append(room, frame)}
  BY DEF Device!enqueue_prebuilt_frame
<1> HIDE DEF room
<1>5. /\ Append(room, frame) \in Seq(X)
      /\ Count(Append(room, frame), S) <= Count(room, S) + Bit(frame, S)
      /\ Count(room, S) \in Nat /\ Count(Append(room, frame), S) \in Nat
  <2>1. Append(room, frame) \in Seq(X)
    BY <1>3
  <2>2. Count(Append(room, frame), S) <= Count(room, S) + Bit(frame, S)
    BY <1>3, CountAppend
  <2> QED
    BY <1>3, <2>1, <2>2, CountType
<1>6. Count(Append(room, frame), S) <= Count(q, S) + Bit(frame, S)
  BY <1>1, <1>3, <1>5
<1>7. Count(q, S) <= Count(q, S) + Bit(frame, S)
  BY <1>1
<1> QED
  BY <1>4, <1>5, <1>6, <1>7

-----------------------------------------------------------------------------
(***************************************************************************)
(* Sleeps and turns.                                                       *)
(***************************************************************************)

(* A quotient, and that it is the only number with that property.          *)
LEMMA Quotient ==
    ASSUME NEW a \in Nat, NEW s \in Nat \ {0}
    PROVE  /\ a \div s \in Nat
           /\ s * (a \div s) <= a /\ a < s * (a \div s) + s
OBVIOUS

(* Multiples are ordered as the numbers are.                               *)
LEMMA TimesGrows ==
    ASSUME NEW x \in Nat, NEW y \in Nat, NEW s \in Nat, x <= y
    PROVE  x * s <= y * s /\ x * s \in Nat /\ s * x <= s * y
OBVIOUS

(* Sleeps counts how many sleeps it takes until n ticks have passed.       *)
LEMMA SleepsIs ==
    ASSUME NEW n \in Nat
    PROVE  /\ Sleeps(n) \in Nat
           /\ SleepTicks * Sleeps(n) >= n
           /\ SleepTicks * Sleeps(n) < n + SleepTicks
<1>1. SleepTicks \in Nat \ {0} /\ n + SleepTicks - 1 \in Nat
  BY SleepAssumption
<1> DEFINE a == n + SleepTicks - 1
           d == a \div SleepTicks
<1>2. d \in Nat /\ SleepTicks * d <= a /\ a < SleepTicks * d + SleepTicks
  BY <1>1, Quotient
<1>3. SleepTicks * d \in Nat
  BY <1>1, <1>2
<1> HIDE DEF d
<1> QED
  BY <1>1, <1>2, <1>3 DEF Sleeps, d

(* Of two numbers of sleeps the smaller one sleeps less.                   *)
LEMMA FewerSleeps ==
    ASSUME NEW x \in Nat, NEW y \in Nat, SleepTicks * x < SleepTicks * y + SleepTicks
    PROVE  x <= y
<1>1. SleepTicks \in Nat \ {0}
  BY SleepAssumption
<1> SUFFICES ASSUME x >= y + 1 PROVE FALSE
  OBVIOUS
<1>2. SleepTicks * (y + 1) <= SleepTicks * x
  BY <1>1, TimesGrows
<1>3. SleepTicks * (y + 1) = SleepTicks * y + SleepTicks
  BY <1>1
<1> QED
  BY <1>1, <1>2, <1>3

(* No tick, no sleep; a later deadline is no fewer sleeps away, and every  *)
(* sleep takes one of them.                                                *)
LEMMA SleepsOrder ==
    /\ Sleeps(0) = 0
    /\ \A m, n \in Nat : m <= n => Sleeps(m) <= Sleeps(n)
    /\ \A n \in Nat : n > 0 => Sleeps(n) >= 1
    /\ \A n \in Nat : n > 0 => Slept(n) \in Nat /\ Sleeps(Slept(n)) + 1 <= Sleeps(n)
<1>1. SleepTicks \in Nat \ {0} /\ \A x \in Nat : SleepTicks * x \in Nat
  BY SleepAssumption
<1>2. ASSUME NEW m \in Nat, NEW n \in Nat, m <= n
      PROVE  Sleeps(m) <= Sleeps(n)
  <2>1. /\ Sleeps(m) \in Nat /\ Sleeps(n) \in Nat
        /\ SleepTicks * Sleeps(m) < m + SleepTicks /\ SleepTicks * Sleeps(n) >= n
    BY SleepsIs
  <2>2. SleepTicks * Sleeps(m) < SleepTicks * Sleeps(n) + SleepTicks
    BY <1>1, <1>2, <2>1
  <2> QED
    BY <2>1, <2>2, FewerSleeps
<1>3. Sleeps(0) = 0
  <2>1. Sleeps(0) \in Nat /\ SleepTicks * Sleeps(0) < 0 + SleepTicks
    BY SleepsIs
  <2>2. SleepTicks * Sleeps(0) < SleepTicks * 0 + SleepTicks
    BY <1>1, <2>1
  <2>3. Sleeps(0) <= 0
    BY <2>1, <2>2, FewerSleeps
  <2> QED
    BY <2>1, <2>3
<1>4. ASSUME NEW n \in Nat, n > 0
      PROVE  Sleeps(n) >= 1
  <2>1. Sleeps(n) \in Nat /\ SleepTicks * Sleeps(n) >= n
    BY SleepsIs
  <2>2. Sleeps(n) # 0
    BY <1>1, <1>4, <2>1
  <2> QED
    BY <2>1, <2>2
<1>5. ASSUME NEW n \in Nat, n > 0
      PROVE  Slept(n) \in Nat /\ Sleeps(Slept(n)) + 1 <= Sleeps(n)
  <2>1. CASE n <= SleepTicks
    <3>1. Slept(n) = 0
      BY <1>1, <2>1 DEF Slept
    <3>2. Sleeps(n) \in Nat
      BY SleepsIs
    <3> QED
      BY <1>3, <1>4, <1>5, <3>1, <3>2
  <2>2. CASE n > SleepTicks
    <3> DEFINE m == n - SleepTicks
    <3>1. Slept(n) = m /\ m \in Nat
      BY <1>1, <2>2 DEF Slept
    <3>2. /\ Sleeps(m) \in Nat /\ Sleeps(n) \in Nat
          /\ SleepTicks * Sleeps(m) < m + SleepTicks /\ SleepTicks * Sleeps(n) >= n
      BY <3>1, SleepsIs
    <3>3. SleepTicks * (Sleeps(m) + 1) = SleepTicks * Sleeps(m) + SleepTicks
      BY <1>1, <3>2
    <3>4. SleepTicks * (Sleeps(m) + 1) < SleepTicks * Sleeps(n) + SleepTicks
      BY <1>1, <3>1, <3>2, <3>3
    <3>5. Sleeps(m) + 1 <= Sleeps(n)
      BY <3>2, <3>4, FewerSleeps
    <3> QED
      BY <3>1, <3>5
  <2> QED
    BY <1>1, <2>1, <2>2
<1> QED
  BY <1>2, <1>3, <1>4, <1>5

(* A finite set of numbers that is not empty has a greatest.               *)
LEMMA GreatestOfNats ==
    ASSUME NEW S \in SUBSET Nat, IsFiniteSet(S), S # {}
    PROVE  Max(S) \in S /\ \A x \in S : x <= Max(S)
<1> DEFINE Sizes == {Cardinality({y \in S : y >= x}) : x \in S}
<1>1. Sizes \in SUBSET Nat /\ Sizes # {}
  <2>1. \A x \in S : {y \in S : y >= x} \in SUBSET S
    OBVIOUS
  <2>2. \A x \in S : Cardinality({y \in S : y >= x}) \in Nat
    BY <2>1, FS_Subset, FS_CardinalityType
  <2> QED
    BY <2>2
<1>2. PICK n \in Sizes : \A m \in Sizes : n <= m
  BY <1>1, HS!LeastOfNats, Constants
<1>3. PICK x \in S : n = Cardinality({y \in S : y >= x})
  BY <1>2
<1>4. ASSUME NEW z \in S, z > x PROVE FALSE
  <2> DEFINE A == {y \in S : y >= x}
             B == {y \in S : y >= z}
  <2>1. IsFiniteSet(A) /\ B \in SUBSET A /\ x \in A /\ x \notin B
    <3>1. IsFiniteSet(A)
      BY FS_Subset
    <3>2. x \in Nat /\ z \in Nat /\ \A y \in S : y \in Nat
      OBVIOUS
    <3>3. x \in A /\ x \notin B
      BY <1>4, <3>2
    <3>4. \A y \in S : y >= z => y >= x
      BY <1>4, <3>2
    <3> QED
      BY <3>1, <3>3, <3>4
  <2>2. Cardinality(B) <= Cardinality(A) /\ Cardinality(A) # Cardinality(B)
        /\ Cardinality(A) \in Nat /\ Cardinality(B) \in Nat
    BY <2>1, FS_Subset, FS_CardinalityType
  <2>3. Cardinality(B) \in Sizes
    OBVIOUS
  <2>4. n = Cardinality(A)
    BY <1>3
  <2> HIDE DEF A, B, Sizes
  <2>5. n <= Cardinality(B)
    BY <1>2, <2>3
  <2> QED
    BY <2>2, <2>4, <2>5
<1>5. x \in S /\ \A y \in S : x >= y
  BY <1>4
<1>6. Max(S) \in S /\ \A y \in S : Max(S) >= y
  BY <1>5 DEF Max
<1> QED
  BY <1>6

(* What a timeout and a call may take: a timeout at least one turn, and a  *)
(* call that is sent now no more than CallTurns.                           *)
LEMMA TurnsOfCalls ==
    ASSUME CallChoices
    PROVE  /\ WaitTurns \in Nat /\ WaitTurns >= 1
           /\ \A t \in Timeouts : t \in Nat /\ Sleeps(t) <= WaitTurns
           /\ CallTurns \in Nat /\ CallTurns >= 1
           /\ \A r \in RetryLimits :
                 r \in Nat /\ (2 * r + 1) * WaitTurns + WaitTurns + 1 <= CallTurns
<1> DEFINE S == Timeouts \cup {1}
<1>1. /\ S \in SUBSET Nat /\ IsFiniteSet(S) /\ 1 \in S
      /\ RetryLimits \in SUBSET Nat /\ IsFiniteSet(RetryLimits)
  <2>1. Timeouts \subseteq Nat /\ RetryLimits \subseteq 0 .. 255
    BY Constants DEF HS!SessionAssumption
  <2>2. IsFiniteSet(S)
    BY FS_AddElement DEF CallChoices
  <2>3. RetryLimits \in SUBSET Nat /\ \A r \in RetryLimits : r <= 255
    BY <2>1
  <2>4. IsFiniteSet(RetryLimits)
    BY <2>3, FS_BoundedSetOfNaturals
  <2> QED
    BY <2>1, <2>2, <2>3, <2>4
<1>2. Max(S) \in Nat /\ \A x \in S : x <= Max(S)
  BY <1>1, GreatestOfNats
<1>3. Max(RetryLimits) \in Nat /\ \A r \in RetryLimits : r \in Nat /\ r <= Max(RetryLimits)
  BY <1>1, GreatestOfNats DEF CallChoices
<1>4. WaitTurns = Sleeps(Max(S))
  BY DEF WaitTurns, Sleeps
<1>5. WaitTurns \in Nat /\ WaitTurns >= 1
  <2>1. Max(S) > 0
    BY <1>1, <1>2
  <2> QED
    BY <1>2, <1>4, <2>1, SleepsIs, SleepsOrder
<1>6. \A t \in Timeouts : t \in Nat /\ Sleeps(t) <= WaitTurns
  BY <1>1, <1>2, <1>4, SleepsOrder
<1> HIDE DEF S
<1> DEFINE m == Max(RetryLimits)
           W == WaitTurns
<1>7. CallTurns = 2 * (m + 1) * W + 1
  BY DEF CallTurns
<1> HIDE DEF m, W
<1>8. m \in Nat /\ W \in Nat /\ W >= 1
  BY <1>3, <1>5 DEF m, W
<1>9. 2 * (m + 1) * W \in Nat
  BY <1>8
<1>10. ASSUME NEW r \in RetryLimits
       PROVE  (2 * r + 1) * W + W + 1 <= CallTurns
  <2>1. r \in Nat /\ r <= m
    BY <1>3 DEF m
  <2>2. (2 * r + 2) * W <= (2 * (m + 1)) * W
    BY <1>8, <2>1, TimesGrows
  <2>3. (2 * r + 1) * W + W = (2 * r + 2) * W
    BY <1>8, <2>1
  <2>4. (2 * r + 2) * W \in Nat
    BY <1>8, <2>1
  <2> QED
    BY <1>7, <1>9, <2>2, <2>3, <2>4
<1> QED
  BY <1>3, <1>5, <1>6, <1>7, <1>9, <1>10 DEF W

-----------------------------------------------------------------------------
(***************************************************************************)
(* Sums.                                                                   *)
(***************************************************************************)

(* A sum of finitely many numbers is a number.                             *)
LEMMA TotalType ==
    ASSUME NEW D, IsFiniteSet(D), NEW c \in [D -> Nat]
    PROVE  IsFiniteSet(Units(c)) /\ Total(c) \in Nat
<1> DEFINE Parts == {{t} \X (1 .. c[t]) : t \in D}
<1>1. IsFiniteSet(Parts)
  <2> DEFINE f == [t \in D |-> {t} \X (1 .. c[t])]
  <2>1. f \in Surjection(D, Parts)
    BY DEF Surjection
  <2> HIDE DEF f
  <2> QED
    BY <2>1, FS_Surjection
<1>2. \A P \in Parts : IsFiniteSet(P)
  <2>1. ASSUME NEW t \in D PROVE IsFiniteSet({t} \X (1 .. c[t]))
    <3>1. IsFiniteSet({t}) /\ IsFiniteSet(1 .. c[t])
      <4>1. 1 \in Int /\ c[t] \in Int
        OBVIOUS
      <4> QED
        BY <4>1, FS_Singleton, FS_Interval
    <3> QED
      BY <3>1, FS_Product
  <2> QED
    BY <2>1
<1>3. IsFiniteSet(UNION Parts)
  BY <1>1, <1>2, FS_UNION
<1>4. Units(c) = UNION Parts
  BY DEF Units
<1> QED
  BY <1>3, <1>4, FS_CardinalityType DEF Total

(* Fewer and smaller terms make no greater sum,                            *)
LEMMA TotalShrinks ==
    ASSUME NEW D, IsFiniteSet(D), NEW c \in [D -> Nat], NEW E \in SUBSET D, NEW d \in [E -> Nat],
           \A t \in E : d[t] <= c[t]
    PROVE  Total(d) <= Total(c)
<1>1. Units(d) \subseteq Units(c)
  BY DEF Units
<1> QED
  BY <1>1, TotalType, FS_Subset DEF Total

(* and a term that goes or becomes smaller makes it smaller.               *)
LEMMA TotalSpends ==
    ASSUME NEW D, IsFiniteSet(D), NEW c \in [D -> Nat], NEW E \in SUBSET D, NEW d \in [E -> Nat],
           \A t \in E : d[t] <= c[t],
           NEW x \in D, c[x] >= 1, x \in E => d[x] < c[x]
    PROVE  Total(d) + 1 <= Total(c)
<1> DEFINE u == <<x, c[x]>>
<1>1. Units(d) \subseteq Units(c)
  BY DEF Units
<1>2. u \in Units(c) /\ u \notin Units(d)
  BY DEF Units
<1>3. /\ IsFiniteSet(Units(c)) /\ Total(c) \in Nat
      /\ Units(d) \subseteq Units(c) \ {u}
  BY <1>1, <1>2, TotalType
<1> HIDE DEF u
<1>4. IsFiniteSet(Units(c) \ {u}) /\ Cardinality(Units(c) \ {u}) = Total(c) - 1
  BY <1>2, <1>3, FS_RemoveElement DEF Total
<1>5. Total(d) <= Total(c) - 1 /\ Total(d) \in Nat
  BY <1>3, <1>4, FS_Subset, FS_CardinalityType DEF Total
<1> QED
  BY <1>3, <1>5

(* A new term adds itself.                                                 *)
LEMMA TotalAdds ==
    ASSUME NEW D, IsFiniteSet(D), NEW c \in [D -> Nat], NEW x, x \notin D,
           NEW d \in [D \cup {x} -> Nat], \A t \in D : d[t] <= c[t]
    PROVE  Total(d) <= Total(c) + d[x]
<1> DEFINE A == {x} \X (1 .. d[x])
<1>1. Units(d) \subseteq Units(c) \cup A
  BY DEF Units
<1>2. IsFiniteSet(Units(c)) /\ Total(c) \in Nat
  BY TotalType
<1>3. IsFiniteSet(A) /\ Cardinality(A) = d[x] /\ d[x] \in Nat
  <2>1. d[x] \in Nat
    OBVIOUS
  <2>2. IsFiniteSet({x}) /\ Cardinality({x}) = 1
    BY FS_Singleton
  <2>3. IsFiniteSet(1 .. d[x]) /\ Cardinality(1 .. d[x]) = d[x]
    BY <2>1, FS_Interval
  <2> DEFINE X == {x}
             B == 1 .. d[x]
  <2> HIDE DEF X, B
  <2>4. IsFiniteSet(X \X B) /\ Cardinality(X \X B) = Cardinality(X) * Cardinality(B)
    BY <2>2, <2>3, FS_Product DEF X, B
  <2>5. Cardinality(X) * Cardinality(B) = d[x]
    BY <2>1, <2>2, <2>3 DEF X, B
  <2> QED
    BY <2>1, <2>4, <2>5 DEF X, B
<1> HIDE DEF A
<1>4. /\ IsFiniteSet(Units(c) \cup A)
      /\ Cardinality(Units(c) \cup A) = Total(c) + d[x] - Cardinality(Units(c) \cap A)
      /\ Cardinality(Units(c) \cap A) \in Nat
  <2>1. IsFiniteSet(Units(c) \cap A)
    BY <1>2, FS_Intersection
  <2> QED
    BY <1>2, <1>3, <2>1, FS_Union, FS_CardinalityType DEF Total
<1>5. Total(d) <= Cardinality(Units(c) \cup A) /\ Total(d) \in Nat
  BY <1>1, <1>4, FS_Subset, FS_CardinalityType DEF Total
<1> QED
  BY <1>2, <1>3, <1>4, <1>5

(* No terms, no sum.                                                       *)
LEMMA TotalEmpty == \A c : DOMAIN c = {} => Total(c) = 0
<1>1. \A c : DOMAIN c = {} => Units(c) = {}
  BY DEF Units
<1> QED
  BY <1>1, FS_EmptySet DEF Total

-----------------------------------------------------------------------------
(***************************************************************************)
(* The costs of the calls.                                                 *)
(***************************************************************************)
Entry(e) ==
    /\ e.inflight \in BOOLEAN
    /\ e.timeout \in Timeouts /\ e.left \in Nat
    /\ e.max_retries \in RetryLimits /\ e.max_retries \in Nat
    /\ e.retry_count \in Nat /\ e.retry_count <= e.max_retries

\* Everything that is counted is a number.
Counted ==
    /\ IsFiniteSet(DOMAIN h_pending) /\ DOMAIN h_pending \subseteq HS!TxIds
    /\ \A t \in DOMAIN h_pending : Entry(h_pending[t])
    /\ \A t : Acks(t) \in Nat
    /\ Costs \in [DOMAIN h_pending -> Nat]
    /\ \A t \in DOMAIN h_pending : Costs[t] = Cost(t) /\ Cost(t) >= 1
    /\ Total(Costs) \in Nat /\ Idle \in {0, 1}
    /\ IsFiniteSet(Issued) /\ Cardinality(Issued) \in Nat /\ Allowance \in Nat

(* The ids, the acks and the sleeps before a deadline are numbers.         *)
LEMMA LeftOrder ==
    ASSUME NEW b \in BOOLEAN
    PROVE  /\ \A n \in Nat : Left(b, n) \in Nat /\ Sleeps(n) <= Left(b, n)
           /\ \A c \in BOOLEAN : \A m, n \in Nat :
                 m <= n /\ (c => b \/ m # 0) => Left(c, m) <= Left(b, n)
           /\ CallChoices => \A t \in Timeouts : Left(b, t) <= WaitTurns
<1>1. /\ Sleeps(0) = 0
      /\ \A n \in Nat : Sleeps(n) \in Nat
      /\ \A m, n \in Nat : m <= n => Sleeps(m) <= Sleeps(n)
      /\ \A n \in Nat : n > 0 => Sleeps(n) >= 1
  BY SleepsIs, SleepsOrder
<1>2. \A n \in Nat : Left(b, n) \in Nat /\ Sleeps(n) <= Left(b, n)
  BY <1>1 DEF Left
<1>3. ASSUME NEW c \in BOOLEAN, NEW m \in Nat, NEW n \in Nat, m <= n, c => b \/ m # 0
      PROVE  Left(c, m) <= Left(b, n)
  <2>1. CASE c /\ m = 0
    <3>1. Left(c, m) = 1 /\ b
      BY <1>3, <2>1 DEF Left
    <3>2. CASE n = 0
      BY <3>1, <3>2 DEF Left
    <3>3. CASE n > 0
      <4>1. 1 <= Sleeps(n) /\ Sleeps(n) <= Left(b, n)
        BY <1>1, <1>2, <3>3
      <4>2. Sleeps(n) \in Nat /\ Left(b, n) \in Nat
        BY <1>1, <1>2
      <4>3. 1 <= Left(b, n)
        BY <4>1, <4>2
      <4> QED
        BY <3>1, <4>3
    <3> QED
      BY <3>2, <3>3
  <2>2. CASE ~ (c /\ m = 0)
    <3>1. Left(c, m) = Sleeps(m)
      BY <2>2 DEF Left
    <3>2. Sleeps(m) <= Sleeps(n) /\ Sleeps(n) <= Left(b, n)
      BY <1>1, <1>2, <1>3
    <3>3. Sleeps(m) \in Nat /\ Sleeps(n) \in Nat /\ Left(b, n) \in Nat
      BY <1>1, <1>2
    <3> QED
      BY <3>1, <3>2, <3>3
  <2> QED
    BY <2>1, <2>2
<1>4. ASSUME CallChoices, NEW t \in Timeouts
      PROVE  Left(b, t) <= WaitTurns
  BY <1>4, TurnsOfCalls DEF Left
<1> QED
  BY <1>2, <1>3, <1>4

(* Restarts and sleeps make up the cost; one restart less pays for a whole *)
(* timeout.                                                                *)
LEMMA CostOrder ==
    ASSUME CallChoices, NEW x \in Nat, NEW y \in Nat, NEW s \in Nat, NEW r \in Nat
    PROVE  /\ x * WaitTurns + s + 1 \in Nat /\ x * WaitTurns + s + 1 >= 1
           /\ y <= x /\ r <= s => y * WaitTurns + r + 1 <= x * WaitTurns + s + 1
           /\ y <= x /\ r + 1 <= s => y * WaitTurns + r + 1 < x * WaitTurns + s + 1
           /\ y + 1 <= x /\ r <= WaitTurns => y * WaitTurns + r + 1 <= x * WaitTurns + s + 1
<1> DEFINE W == WaitTurns
<1>1. W \in Nat
  BY TurnsOfCalls
<1> HIDE DEF W
<1>2. x * W \in Nat /\ y * W \in Nat /\ (y + 1) * W = y * W + W
  BY <1>1
<1>3. y <= x => y * W <= x * W
  BY <1>1, TimesGrows
<1>4. y + 1 <= x => y * W + W <= x * W
  <2>1. y + 1 <= x => (y + 1) * W <= x * W
    BY <1>1, TimesGrows
  <2> QED
    BY <1>2, <2>1
<1>5. /\ x * W + s + 1 \in Nat /\ x * W + s + 1 >= 1
      /\ y <= x /\ r <= s => y * W + r + 1 <= x * W + s + 1
      /\ y <= x /\ r + 1 <= s => y * W + r + 1 < x * W + s + 1
      /\ y + 1 <= x /\ r <= W => y * W + r + 1 <= x * W + s + 1
  BY <1>1, <1>2, <1>3, <1>4
<1> QED
  BY <1>5 DEF W

(* The invariant of the link bounds everything that is counted.            *)
LEMMA LinkCounted ==
    ASSUME CallChoices, IdsNotReused
    PROVE  LinkInvariant => Counted
<1> SUFFICES ASSUME NEW R, LinkInv(R) PROVE Counted
  BY DEF LinkInvariant
<1>1. IsFiniteSet(DOMAIN h_pending) /\ DOMAIN h_pending \subseteq HS!TxIds
  <2>1. DOMAIN h_pending \subseteq HS!TxIds
    BY DEF LinkInv, HS!SessionInv, HS!TypeOK
  <2>2. IsFiniteSet(HS!TxIds)
    BY FS_Interval, Constants DEF HS!TxIds, HS!SessionAssumption
  <2> QED
    BY <2>1, <2>2, FS_Subset
<1>2. ASSUME NEW t \in DOMAIN h_pending PROVE Entry(h_pending[t])
  <2>1. h_pending[t] \in HS!PendingEntries /\ h_pending[t].retry_count <= h_pending[t].max_retries
    BY DEF LinkInv, HS!SessionInv, HS!TypeOK, HS!RetriesWithinLimit
  <2>2. \A r \in RetryLimits : r \in Nat
    BY Constants DEF HS!SessionAssumption
  <2> QED
    BY <2>1, <2>2 DEF Entry, HS!PendingEntries
<1>3. ASSUME NEW t PROVE Acks(t) \in Nat
  <2>1. /\ Count(h_retries, Resent(t)) \in Nat /\ Count(h_tx_queue, Requests(t)) \in Nat
        /\ Count(h2d, Requests(t)) \in Nat
    BY CountType DEF LinkInv, HostAgrees
  <2>2. Count(d_tx_queue, {AckOf(t)}) \in Nat /\ Count(d2h, {AckOf(t)}) \in Nat
    BY CountType DEF LinkInv, DeviceAgrees
  <2> QED
    BY <2>1, <2>2 DEF Acks
<1>4. ASSUME NEW t \in DOMAIN h_pending PROVE Cost(t) \in Nat /\ Cost(t) >= 1
  <2>1. CASE h_pending[t].inflight
    <3>1. Restarts(t) \in Nat
      BY <1>2, <1>3 DEF Restarts, Entry
    <3>2. Left(Polled, h_pending[t].left) \in Nat
      BY <1>2, LeftOrder DEF Entry, Polled
    <3>3. InFlightCost(t) \in Nat /\ InFlightCost(t) >= 1
      BY <3>1, <3>2, CostOrder DEF InFlightCost
    <3> QED
      BY <2>1, <3>3 DEF Cost
  <2>2. CASE ~ h_pending[t].inflight
    BY <2>2, TurnsOfCalls DEF Cost
  <2> QED
    BY <2>1, <2>2
<1>5. Costs \in [DOMAIN h_pending -> Nat] /\ \A t \in DOMAIN h_pending : Costs[t] = Cost(t)
  BY <1>4 DEF Costs
<1>6. Total(Costs) \in Nat /\ Idle \in {0, 1}
  BY <1>1, <1>5, TotalType DEF Idle
<1>7. IsFiniteSet(Issued) /\ Cardinality(Issued) \in Nat /\ Allowance \in Nat
  <2>1. Issued \subseteq Callers
    BY DEF LinkInv, HS!SessionInv, HS!TypeOK, Issued
  <2>2. IsFiniteSet(Issued) /\ Cardinality(Issued) \in Nat
    BY <2>1, FS_Subset, FS_CardinalityType DEF IdsNotReused
  <2> QED
    BY <2>2, TurnsOfCalls DEF Allowance
<1> QED
  BY <1>1, <1>2, <1>3, <1>4, <1>5, <1>6, <1>7 DEF Counted

(* Also in the next state.                                                 *)
LEMMA LinkCountedNext ==
    ASSUME CallChoices, IdsNotReused
    PROVE  LinkInvariant' => Counted'
BY LinkCounted, PTL

-----------------------------------------------------------------------------
(***************************************************************************)
(* The acks under way.                                                     *)
(***************************************************************************)
AcksKept == \A t : Acks(t)' <= Acks(t)

(* Where nothing moves nothing is added.                                   *)
LEMMA SameAcks ==
    ASSUME Counted, UNCHANGED <<h_retries, h_tx_queue, h2d, d_tx_queue, d2h>>
    PROVE  AcksKept
<1>1. \A t : Acks(t)' = Acks(t)
  BY DEF Acks
<1> QED
  BY <1>1 DEF AcksKept, Counted

(* A frame that leaves is no longer counted.                               *)
LEMMA CountLoses ==
    ASSUME NEW X, NEW q \in Seq(X), q # <<>>, NEW S
    PROVE  /\ Tail(q) \in Seq(X) /\ Head(q) \in X
           /\ Count(q, S) \in Nat /\ Count(Tail(q), S) \in Nat
           /\ Count(Tail(q), S) + Bit(Head(q), S) <= Count(q, S)
           /\ Count(Tail(q), S) <= Count(q, S)
<1>1. Tail(q) \in Seq(X) /\ Head(q) \in X
  OBVIOUS
<1>2. Count(q, S) \in Nat /\ Count(Tail(q), S) \in Nat
  BY <1>1, CountType
<1>3. Count(Tail(q), S) + Bit(Head(q), S) <= Count(q, S) /\ Bit(Head(q), S) \in {0, 1}
  BY CountTail DEF Bit
<1> QED
  BY <1>1, <1>2, <1>3

(* A frame that moves from one queue to another is counted once.           *)
LEMMA CountMoves ==
    ASSUME NEW X, NEW q \in Seq(X), NEW r \in Seq(X), q # <<>>, NEW S
    PROVE  /\ Count(q, S) \in Nat /\ Count(r, S) \in Nat
           /\ Count(Tail(q), S) \in Nat /\ Count(Append(r, Head(q)), S) \in Nat
           /\ Count(Tail(q), S) + Count(Append(r, Head(q)), S) <= Count(q, S) + Count(r, S)
<1>1. Tail(q) \in Seq(X) /\ Head(q) \in X /\ Append(r, Head(q)) \in Seq(X)
  OBVIOUS
<1>2. /\ Count(q, S) \in Nat /\ Count(r, S) \in Nat
      /\ Count(Tail(q), S) \in Nat /\ Count(Append(r, Head(q)), S) \in Nat
  BY <1>1, CountType
<1>3. /\ Count(Tail(q), S) + Bit(Head(q), S) <= Count(q, S)
      /\ Count(Append(r, Head(q)), S) <= Count(r, S) + Bit(Head(q), S)
      /\ Bit(Head(q), S) \in {0, 1}
  BY <1>1, CountTail, CountAppend DEF Bit
<1> QED
  BY <1>2, <1>3

(* What is counted in the five places of Acks.                             *)
AckParts(t) ==
    /\ Count(h_retries, Resent(t)) \in Nat /\ Count(h_tx_queue, Requests(t)) \in Nat
    /\ Count(h2d, Requests(t)) \in Nat
    /\ Count(d_tx_queue, {AckOf(t)}) \in Nat /\ Count(d2h, {AckOf(t)}) \in Nat

(* They are numbers.                                                       *)
LEMMA AckPartsType ==
    ASSUME NEW R, LinkInv(R), NEW t
    PROVE  AckParts(t)
BY CountType DEF LinkInv, HostAgrees, DeviceAgrees, AckParts

(* The host's request goes from its queue to the line.                     *)
LEMMA HostSendsAcks ==
    ASSUME NEW R, LinkInv(R), HostSends
    PROVE  AcksKept
<1>1. /\ h_tx_queue # <<>>
      /\ h_tx_queue' = Tail(h_tx_queue) /\ h2d' = Append(h2d, Head(h_tx_queue))
      /\ UNCHANGED <<h_retries, d_tx_queue, d2h>>
  BY DEF HostSends, Host!FrameSent, device
<1>2. h_tx_queue \in Seq(RequestFrames(R)) /\ h2d \in Seq(RequestFrames(R))
  BY DEF LinkInv, HostAgrees
<1>3. ASSUME NEW t PROVE Acks(t)' <= Acks(t)
  <2>1. /\ Count(h_tx_queue', Requests(t)) \in Nat /\ Count(h2d', Requests(t)) \in Nat
        /\ Count(h_tx_queue', Requests(t)) + Count(h2d', Requests(t))
             <= Count(h_tx_queue, Requests(t)) + Count(h2d, Requests(t))
    BY <1>1, <1>2, CountMoves
  <2>2. AckParts(t)
    BY AckPartsType
  <2> QED
    BY <1>1, <2>1, <2>2 DEF Acks, AckParts
<1> QED
  BY <1>3 DEF AcksKept

(* The device's frame goes from its queue to the line.                     *)
LEMMA DeviceSendsAcks ==
    ASSUME NEW R, LinkInv(R), DeviceSends
    PROVE  AcksKept
<1>1. /\ d_tx_queue # <<>>
      /\ d_tx_queue' = Tail(d_tx_queue) /\ d2h' = Append(d2h, Head(d_tx_queue))
      /\ UNCHANGED <<h_retries, h_tx_queue, h2d>>
  BY DEF DeviceSends, Device!FrameSent, host
<1>2. d_tx_queue \in Seq(DeviceFrames(R)) /\ d2h \in Seq(DeviceFrames(R))
  BY DEF LinkInv, DeviceAgrees
<1>3. ASSUME NEW t PROVE Acks(t)' <= Acks(t)
  <2>1. /\ Count(d_tx_queue', {AckOf(t)}) \in Nat /\ Count(d2h', {AckOf(t)}) \in Nat
        /\ Count(d_tx_queue', {AckOf(t)}) + Count(d2h', {AckOf(t)})
             <= Count(d_tx_queue, {AckOf(t)}) + Count(d2h, {AckOf(t)})
    BY <1>1, <1>2, CountMoves
  <2>2. AckParts(t)
    BY AckPartsType
  <2> QED
    BY <1>1, <2>1, <2>2 DEF Acks, AckParts
<1> QED
  BY <1>3 DEF AcksKept

(* A frame is lost.                                                        *)
LEMMA LoseAcks ==
    ASSUME NEW R, LinkInv(R), Lose
    PROVE  AcksKept
<1>1. /\ UNCHANGED <<h_retries, h_tx_queue, d_tx_queue>>
      /\ \/ h2d # <<>> /\ h2d' = Tail(h2d) /\ UNCHANGED d2h
         \/ d2h # <<>> /\ d2h' = Tail(d2h) /\ UNCHANGED h2d
  BY DEF Lose, host, device
<1>2. h2d \in Seq(RequestFrames(R)) /\ d2h \in Seq(DeviceFrames(R))
  BY DEF LinkInv, HostAgrees, DeviceAgrees
<1>3. ASSUME NEW t PROVE Acks(t)' <= Acks(t)
  <2>3. AckParts(t)
    BY AckPartsType
  <2>1. /\ Count(h2d', Requests(t)) \in Nat
        /\ Count(h2d', Requests(t)) <= Count(h2d, Requests(t))
    <3>1. CASE h2d # <<>> /\ h2d' = Tail(h2d)
      BY <1>2, <3>1, CountLoses
    <3>2. CASE UNCHANGED h2d
      BY <2>3, <3>2 DEF AckParts
    <3> QED
      BY <1>1, <3>1, <3>2
  <2>2. /\ Count(d2h', {AckOf(t)}) \in Nat
        /\ Count(d2h', {AckOf(t)}) <= Count(d2h, {AckOf(t)})
    <3>1. CASE d2h # <<>> /\ d2h' = Tail(d2h)
      BY <1>2, <3>1, CountLoses
    <3>2. CASE UNCHANGED d2h
      BY <2>3, <3>2 DEF AckParts
    <3> QED
      BY <1>1, <3>1, <3>2
  <2> QED
    BY <1>1, <2>1, <2>2, <2>3 DEF Acks, AckParts
<1> QED
  BY <1>3 DEF AcksKept

(* What a request displaces in the host's queue is nothing.                *)
LEMMA CountPending ==
    ASSUME NEW R, Registry(R), NEW q \in Seq(RequestFrames(R)), NEW frame \in RequestFrames(R), NEW S
    PROVE  LET queued == Host!enqueue_pending_frame(q, frame)
           IN queued \in Seq(RequestFrames(R)) /\ Count(queued, S) \in Nat
              /\ Count(queued, S) <= Count(q, S) + Bit(frame, S)
<1> DEFINE queued == Host!enqueue_pending_frame(q, frame)
<1>1. \A f \in RequestFrames(R) : ~ Host!is_telemetry_cmd(f.cmd)
  BY CommandClasses DEF RequestFrames, Request, Registry
<1>2. queued \in {q, Append(q, frame)}
  BY <1>1, EnqueueRequest
<1> HIDE DEF queued
<1>3. queued \in Seq(RequestFrames(R))
  BY <1>2
<1>4. Count(queued, S) \in Nat /\ Count(q, S) \in Nat /\ Bit(frame, S) \in {0, 1}
  BY <1>3, CountType DEF Bit
<1>5. Count(Append(q, frame), S) <= Count(q, S) + Bit(frame, S)
  BY CountAppend
<1>6. CASE queued = q
  BY <1>3, <1>4, <1>6 DEF queued
<1>7. CASE queued = Append(q, frame)
  BY <1>3, <1>4, <1>5, <1>7 DEF queued
<1> QED
  BY <1>2, <1>6, <1>7

(* A retransmission goes into the queue.                                   *)
LEMMA RequeueRetryAcks ==
    ASSUME NEW R, LinkInv(R), Host!RequeueRetry, UNCHANGED <<device, app, h2d, d2h, runs>>
    PROVE  AcksKept
<1> DEFINE r == Head(h_retries)
           Entries == [cmd : RequestCmds, tx : DOMAIN R, body : Callers, valid : {TRUE}]
           frame == [cmd |-> r.cmd, tx |-> r.tx, body |-> r.body]
<1>1. h_phase = "requeue" /\ h_retries # <<>> /\ h_retries \in Seq(Entries)
  BY DEF Host!RequeueRetry, LinkInv, HostAgrees
<1>2. r \in Entries /\ r.cmd = R[r.tx].cmd /\ r.body = R[r.tx].body
  <2>1. 1 \in DOMAIN h_retries /\ r = h_retries[1]
    BY <1>1
  <2> QED
    BY <1>1, <2>1, TailSeq DEF LinkInv, HostAgrees
<1>3. /\ h_tx_queue' = Host!enqueue_pending_frame(h_tx_queue, frame)
      /\ h_retries' = Tail(h_retries)
      /\ UNCHANGED <<h2d, d_tx_queue, d2h>>
  <2>1. r.valid = TRUE
    BY <1>2
  <2> QED
    BY <2>1 DEF Host!RequeueRetry, device
<1> HIDE DEF r
<1>4. frame \in RequestFrames(R)
  BY <1>2 DEF RequestFrames, Request
<1>5. ASSUME NEW t PROVE Acks(t)' <= Acks(t)
  <2>1. Bit(frame, Requests(t)) = Bit(r, Resent(t)) /\ Bit(frame, Requests(t)) \in {0, 1}
    BY <1>2 DEF Bit, Requests, Resent
  <2> HIDE DEF frame, Entries
  <2>2. /\ Count(h_tx_queue', Requests(t)) \in Nat
        /\ Count(h_tx_queue', Requests(t)) <= Count(h_tx_queue, Requests(t)) + Bit(frame, Requests(t))
    BY <1>3, <1>4, CountPending DEF LinkInv, HostAgrees
  <2>3. /\ Count(h_retries', Resent(t)) \in Nat
        /\ Count(h_retries', Resent(t)) + Bit(r, Resent(t)) <= Count(h_retries, Resent(t))
    BY <1>1, <1>3, CountLoses DEF r
  <2>4. AckParts(t)
    BY AckPartsType
  <2> QED
    BY <1>3, <2>1, <2>2, <2>3, <2>4 DEF Acks, AckParts
<1> QED
  BY <1>5 DEF AcksKept

-----------------------------------------------------------------------------
(* A frame with another command than an ack's is not counted.              *)
LEMMA NotAnAck ==
    /\ \A t, f : f.cmd # Host!ACK_CMD => Bit(f, {AckOf(t)}) = 0
    /\ \A cmd \in ResponseCmds \cup TelemetryCmds : cmd # Host!ACK_CMD
<1>1. \A t, f : f.cmd # Host!ACK_CMD => Bit(f, {AckOf(t)}) = 0
  BY DEF Bit, AckOf
<1>2. Host!Route(Host!ACK_CMD) = "ack"
  BY DEF Host!Route
<1>3. \A cmd \in ResponseCmds : cmd # Host!ACK_CMD
  BY <1>2, CommandClasses
<1>4. \A cmd \in TelemetryCmds : cmd # Host!ACK_CMD
  BY <1>2, CommandClasses, TelemetryRange
<1> QED
  BY <1>1, <1>3, <1>4

(* The ack takes the place of its request, and a cached response counts    *)
(* for nothing.                                                            *)
LEMMA DeviceReceiveAcks ==
    ASSUME NEW R, LinkInv(R), DeviceReceive
    PROVE  AcksKept
<1>1. PICK s \in DOMAIN R :
        /\ h2d # <<>> /\ h2d' = Tail(h2d)
        /\ Head(h2d) = Request(R, s)
        /\ UNCHANGED <<host, d2h>>
  BY DeviceReceives
<1> DEFINE p == Head(h2d)
<1>2. p.tx = s /\ p.cmd \in RequestCmds /\ s # 0 /\ s \in HS!TxIds
  <2>1. s \in 1 .. h_next_tx_id - 1 /\ R[s].cmd \in RequestCmds /\ h_next_tx_id \in HS!TxIds
    BY DEF LinkInv, Registry, HS!SessionInv, HS!TypeOK
  <2> QED
    BY <1>1, <2>1, Constants DEF Request, HS!TxIds, HS!SessionAssumption
<1>3. Host!Route(p.cmd) = "request" /\ Host!is_reliable(p.cmd)
  BY <1>2, CommandClasses
<1>4. Device!Route(p.cmd) = "request" /\ Device!is_reliable(p.cmd)
  BY <1>3 DEF Host!Route, Device!Route, Host!ACK_CMD, Device!ACK_CMD, Host!is_request_cmd,
         Device!is_request_cmd, Host!is_reliable, Device!is_reliable
<1>5. Device!DuplicateRequest(p) \/ Device!NewRequest(p)
  <2>1. Device!handle_packet_internal(p)
    BY DEF DeviceReceive
  <2> QED
    BY <1>2, <1>4, <2>1
    DEF Device!handle_packet_internal, Device!handle_request_packet,
        Device!UnreliablePacket, Device!UntrackedPacket
<1>6. Device!AckFrame(p) = AckOf(s) /\ AckOf(s) \in DeviceFrames(R)
  BY <1>2 DEF Device!AckFrame, AckOf, Host!ACK_CMD, Device!ACK_CMD, DeviceFrames, AckFrames
<1> DEFINE acked == Device!enqueue_prebuilt_frame(d_tx_queue, AckOf(s), TRUE)
<1>7. \/ d_tx_queue' = acked
      \/ \E f \in ResponseFrames(R) : d_tx_queue' = Device!enqueue_prebuilt_frame(acked, f, TRUE)
  <2> DEFINE key == <<p.cmd, p.tx>>
             answer == [cmd |-> d_cache[key].response_cmd, tx |-> p.tx, body |-> d_cache[key].body]
  <2>1. CASE Device!NewRequest(p)
    BY <1>6, <2>1 DEF Device!NewRequest
  <2>2. CASE Device!DuplicateRequest(p)
    <3>1. d_tx_queue' = IF key \in DOMAIN d_cache
                        THEN Device!enqueue_prebuilt_frame(acked, answer, TRUE)
                        ELSE acked
      BY <1>6, <2>2 DEF Device!DuplicateRequest, Device!HasCached, Device!compose_dedup_key
    <3>2. key \in DOMAIN d_cache => answer \in ResponseFrames(R)
      BY DEF LinkInv, DeviceAgrees
    <3> QED
      BY <3>1, <3>2
  <2> QED
    BY <1>5, <2>1, <2>2
<1> HIDE DEF acked
<1>8. ASSUME NEW t PROVE Acks(t)' <= Acks(t)
  <2>1. AckParts(t)
    BY AckPartsType
  <2>2. Bit(AckOf(s), {AckOf(t)}) = Bit(p, Requests(t)) /\ Bit(p, Requests(t)) \in {0, 1}
    <3>1. p \in Requests(s)
      BY <1>1 DEF Requests, Request, LinkInv, Registry, Issued, HS!SessionInv, HS!TypeOK
    <3> QED
      BY <1>1, <3>1 DEF Bit, AckOf, Requests
  <2>3. /\ acked \in Seq(DeviceFrames(R)) /\ Count(acked, {AckOf(t)}) \in Nat
        /\ Count(acked, {AckOf(t)}) <= Count(d_tx_queue, {AckOf(t)}) + Bit(p, Requests(t))
    <3>1. d_tx_queue \in Seq(DeviceFrames(R))
      BY DEF LinkInv, DeviceAgrees
    <3>2. /\ acked \in Seq(DeviceFrames(R))
          /\ Count(acked, {AckOf(t)}) <= Count(d_tx_queue, {AckOf(t)}) + Bit(AckOf(s), {AckOf(t)})
      BY <1>6, <3>1, CountPrebuilt DEF acked
    <3> QED
      BY <2>2, <3>2, CountType
  <2>4. /\ Count(d_tx_queue', {AckOf(t)}) \in Nat
        /\ Count(d_tx_queue', {AckOf(t)}) <= Count(acked, {AckOf(t)})
    <3>1. CASE d_tx_queue' = acked
      BY <2>3, <3>1
    <3>2. ASSUME NEW f \in ResponseFrames(R),
                 d_tx_queue' = Device!enqueue_prebuilt_frame(acked, f, TRUE)
          PROVE  /\ Count(d_tx_queue', {AckOf(t)}) \in Nat
                 /\ Count(d_tx_queue', {AckOf(t)}) <= Count(acked, {AckOf(t)})
      <4>1. f \in DeviceFrames(R) /\ f.cmd \in ResponseCmds
        BY Constants DEF DeviceFrames, ResponseFrames, Response, LinkInv, Registry,
              HS!SessionAssumption
      <4>2. Bit(f, {AckOf(t)}) = 0
        BY <4>1, NotAnAck
      <4>3. /\ d_tx_queue' \in Seq(DeviceFrames(R))
            /\ Count(d_tx_queue', {AckOf(t)}) <= Count(acked, {AckOf(t)}) + Bit(f, {AckOf(t)})
        BY <2>3, <3>2, <4>1, CountPrebuilt
      <4>4. Count(d_tx_queue', {AckOf(t)}) \in Nat
        BY <4>3, CountType
      <4> QED
        BY <2>3, <4>2, <4>3, <4>4
    <3> QED
      BY <1>7, <3>1, <3>2
  <2>5. /\ Count(h2d', Requests(t)) \in Nat
        /\ Count(h2d', Requests(t)) + Bit(p, Requests(t)) <= Count(h2d, Requests(t))
    BY <1>1, CountLoses DEF LinkInv, HostAgrees
  <2>6. UNCHANGED <<h_retries, h_tx_queue, d2h>>
    BY <1>1 DEF host
  <2> HIDE DEF p
  <2> QED
    BY <2>1, <2>2, <2>3, <2>4, <2>5, <2>6 DEF Acks, AckParts
<1> QED
  BY <1>8 DEF AcksKept

(* A frame that is no ack joins the queue of the device.                   *)
LEMMA OtherFrameAcks ==
    ASSUME NEW R, LinkInv(R), NEW frame \in DeviceFrames(R), frame.cmd # Host!ACK_CMD,
           NEW priority \in BOOLEAN,
           d_tx_queue' = Device!enqueue_prebuilt_frame(d_tx_queue, frame, priority),
           UNCHANGED <<h_retries, h_tx_queue, h2d, d2h>>
    PROVE  AcksKept
<1>1. ASSUME NEW t PROVE Acks(t)' <= Acks(t)
  <2>1. AckParts(t)
    BY AckPartsType
  <2>2. /\ d_tx_queue' \in Seq(DeviceFrames(R))
        /\ Count(d_tx_queue', {AckOf(t)}) <= Count(d_tx_queue, {AckOf(t)}) + Bit(frame, {AckOf(t)})
    BY CountPrebuilt DEF LinkInv, DeviceAgrees
  <2>3. Count(d_tx_queue', {AckOf(t)}) \in Nat /\ Bit(frame, {AckOf(t)}) = 0
    BY <2>2, CountType, NotAnAck
  <2> QED
    BY <2>1, <2>2, <2>3 DEF Acks, AckParts
<1> QED
  BY <1>1 DEF AcksKept

(* The device answers,                                                     *)
LEMMA DeviceAnswerAcks ==
    ASSUME NEW R, LinkInv(R), DeviceAnswer
    PROVE  AcksKept
<1>1. PICK p \in jobs : Device!send_response_and_cache(p.cmd, p.tx, p.body)
  BY DEF DeviceAnswer
<1>2. PICK t \in DOMAIN R : p = Request(R, t)
  BY DEF LinkInv, DeviceAgrees, RequestFrames
<1>3. R[t].cmd \in RequestCmds /\ R[t].body \in Callers
  BY DEF LinkInv, Registry, HS!SessionInv, HS!TypeOK, Issued
<1>4. Response(R, t) \in DeviceFrames(R)
  <2>1. executed[<<R[t].body, device_run>>] > 0 /\ device_run \in DeviceRuns
    BY <1>2 DEF LinkInv, DeviceAgrees, Request
  <2> QED
    BY <2>1 DEF DeviceFrames, ResponseFrames, Executed
<1>5. Response(R, t).cmd # Host!ACK_CMD
  BY <1>3, NotAnAck, Constants DEF Response, HS!SessionAssumption
<1>6. d_tx_queue' = Device!enqueue_prebuilt_frame(d_tx_queue, Response(R, t), TRUE)
  BY <1>1, <1>2 DEF Device!send_response_and_cache, Response, Request
<1>7. UNCHANGED <<h_retries, h_tx_queue, h2d, d2h>>
  BY DEF DeviceAnswer, host
<1> QED
  BY <1>4, <1>5, <1>6, <1>7, OtherFrameAcks

(* or reports its status.                                                  *)
LEMMA DeviceBroadcastAcks ==
    ASSUME NEW R, LinkInv(R), DeviceBroadcast
    PROVE  AcksKept
<1>1. PICK cmd \in TelemetryCmds : Device!broadcast(cmd)
  BY DEF DeviceBroadcast
<1> DEFINE frame == [cmd |-> cmd, tx |-> 0, body |-> NoBody]
<1>2. d_tx_queue' = Device!enqueue_prebuilt_frame(d_tx_queue, frame, FALSE)
  BY <1>1 DEF Device!broadcast
<1>3. frame \in DeviceFrames(R) /\ frame.cmd # Host!ACK_CMD
  BY NotAnAck DEF DeviceFrames, StatusFrames
<1>4. UNCHANGED <<h_retries, h_tx_queue, h2d, d2h>>
  BY DEF DeviceBroadcast, host
<1> QED
  BY <1>2, <1>3, <1>4, OtherFrameAcks

(* No step of the device adds an ack.                                      *)
LEMMA DeviceStepAcks ==
    ASSUME Counted, NEW R, LinkInv(R), DeviceStep
    PROVE  AcksKept
<1>1. CASE DeviceWorks
  <2>1. UNCHANGED <<h_retries, h_tx_queue, h2d, d_tx_queue, d2h>>
    BY <1>1 DEF DeviceWorks, host, Device!HandlerReturns, Device!RxDrained, Device!FrameKept
  <2> QED
    BY <2>1, SameAcks
<1> QED
  BY <1>1, DeviceReceiveAcks, DeviceAnswerAcks, DeviceBroadcastAcks, DeviceSendsAcks
  DEF DeviceStep

-----------------------------------------------------------------------------
(***************************************************************************)
(* What a step does to the costs.                                          *)
(***************************************************************************)
SameCosts(t) ==
    /\ h_pending'[t].max_retries = h_pending[t].max_retries
    /\ h_pending'[t].retry_count = h_pending[t].retry_count
    /\ h_pending'[t].left <= h_pending[t].left
    /\ Acks(t)' <= Acks(t)

(* A call that does nothing but wait, or that waits for the window, costs  *)
(* no more than it did.                                                    *)
LEMMA WaitingCost ==
    ASSUME CallChoices, Counted, Counted', NEW t \in DOMAIN h_pending, t \in DOMAIN h_pending',
           h_pending'[t].inflight = h_pending[t].inflight,
           h_pending[t].inflight
             => SameCosts(t) /\ (Polled' => Polled \/ h_pending'[t].left # 0)
    PROVE  Cost(t)' <= Cost(t)
<1>1. CASE ~ h_pending[t].inflight
  BY <1>1, TurnsOfCalls DEF Cost
<1>2. CASE h_pending[t].inflight
  <2>1. Entry(h_pending[t]) /\ Entry(h_pending'[t]) /\ Acks(t) \in Nat /\ Acks(t)' \in Nat
    BY DEF Counted
  <2>2. Restarts(t) \in Nat /\ Restarts(t)' \in Nat /\ Restarts(t)' <= Restarts(t)
    BY <1>2, <2>1 DEF Restarts, SameCosts, Entry
  <2>3. Polled \in BOOLEAN /\ Polled' \in BOOLEAN
    BY DEF Polled
  <2>4. /\ h_pending[t].left \in Nat /\ h_pending'[t].left \in Nat
        /\ h_pending'[t].left <= h_pending[t].left
    BY <1>2, <2>1 DEF Entry, SameCosts
  <2>5. /\ Left(Polled, h_pending[t].left) \in Nat
        /\ Left(Polled', h_pending'[t].left) \in Nat
        /\ Left(Polled', h_pending'[t].left) <= Left(Polled, h_pending[t].left)
    BY <1>2, <2>3, <2>4, LeftOrder
  <2>6. InFlightCost(t)' <= InFlightCost(t)
    BY <2>2, <2>5, CostOrder DEF InFlightCost
  <2> QED
    BY <1>2, <2>6 DEF Cost
<1> QED
  BY <1>1, <1>2

(* A call whose timeout starts again has paid for it with a restart.       *)
LEMMA RenewedCost ==
    ASSUME CallChoices, Counted, Counted', NEW t \in DOMAIN h_pending, t \in DOMAIN h_pending',
           h_pending[t].inflight, h_pending'[t].inflight,
           h_pending'[t].left \in Timeouts, Restarts(t)' + 1 <= Restarts(t)
    PROVE  Cost(t)' <= Cost(t)
<1>1. Entry(h_pending[t]) /\ Entry(h_pending'[t]) /\ Acks(t) \in Nat /\ Acks(t)' \in Nat
  BY DEF Counted
<1>2. Restarts(t) \in Nat /\ Restarts(t)' \in Nat
  BY <1>1 DEF Restarts, Entry
<1>3. Polled \in BOOLEAN /\ Polled' \in BOOLEAN
  BY DEF Polled
<1>4. /\ Left(Polled, h_pending[t].left) \in Nat
      /\ Left(Polled', h_pending'[t].left) \in Nat
      /\ Left(Polled', h_pending'[t].left) <= WaitTurns
  BY <1>1, <1>3, LeftOrder DEF Entry
<1>5. InFlightCost(t)' <= InFlightCost(t)
  BY <1>2, <1>4, CostOrder DEF InFlightCost
<1> QED
  BY <1>5 DEF Cost

CostsKept ==
    /\ DOMAIN h_pending' \subseteq DOMAIN h_pending
    /\ \A t \in DOMAIN h_pending' : Cost(t)' <= Cost(t)

(* No call costs more, so all of them do not,                              *)
LEMMA TotalKept ==
    ASSUME Counted, Counted', CostsKept
    PROVE  Total(Costs)' <= Total(Costs)
<1> DEFINE D == DOMAIN h_pending
           E == DOMAIN h_pending'
           c == Costs
           d == Costs'
<1>1. IsFiniteSet(D) /\ c \in [D -> Nat] /\ d \in [E -> Nat] /\ E \in SUBSET D
  BY DEF Counted, CostsKept
<1>2. \A t \in E : d[t] <= c[t]
  BY DEF Counted, CostsKept
<1> HIDE DEF c, d, D, E
<1>3. Total(d) <= Total(c)
  BY <1>1, <1>2, TotalShrinks
<1> QED
  BY <1>3 DEF c, d

(* and if a call ends or costs less, there is something spent.             *)
LEMMA TotalSpent ==
    ASSUME Counted, Counted', CostsKept,
           NEW x \in DOMAIN h_pending, x \in DOMAIN h_pending' => Cost(x)' < Cost(x)
    PROVE  Total(Costs)' + 1 <= Total(Costs)
<1> DEFINE D == DOMAIN h_pending
           E == DOMAIN h_pending'
           c == Costs
           d == Costs'
<1>1. IsFiniteSet(D) /\ c \in [D -> Nat] /\ d \in [E -> Nat] /\ E \in SUBSET D
  BY DEF Counted, CostsKept
<1>2. \A t \in E : d[t] <= c[t]
  BY DEF Counted, CostsKept
<1>3. x \in D /\ c[x] >= 1 /\ (x \in E => d[x] < c[x])
  BY DEF Counted
<1> HIDE DEF c, d, D, E
<1>4. Total(d) + 1 <= Total(c)
  BY <1>1, <1>2, <1>3, TotalSpends
<1> QED
  BY <1>4 DEF c, d

NoCallOpens == UNCHANGED Issued /\ \A k \in Callers : Open(k)' => Open(k)

(* A step without a turn that leaves no more to spend.                     *)
LEMMA NothingAdded ==
    ASSUME Counted, Counted', LoopState, WithinAllowance, NoCallOpens, UNCHANGED turns,
           ToSpend' <= ToSpend
    PROVE  WithinAllowance'
<1>1. Allowance' = Allowance /\ Allowance \in Nat
  BY DEF NoCallOpens, Allowance, Counted
<1>2. ToSpend \in Nat /\ ToSpend' \in Nat
  BY DEF Counted, ToSpend
<1>3. \A k \in Callers : turns'[k] = turns[k] /\ turns[k] \in Nat
  BY DEF LoopState
<1>4. ToSpend' <= Allowance'
  BY <1>1, <1>2 DEF WithinAllowance
<1>5. ASSUME NEW k \in Callers, Open(k)'
      PROVE  turns'[k] + ToSpend' <= Allowance'
  <2>1. turns[k] + ToSpend <= Allowance
    BY <1>5 DEF WithinAllowance, NoCallOpens
  <2> QED
    BY <1>1, <1>2, <1>3, <2>1
<1> QED
  BY <1>4, <1>5 DEF WithinAllowance

(* And neither does one that leaves no call pending.                       *)
LEMMA AllOver ==
    ASSUME CallChoices, Counted, LinkInvariant, abandoned = {}, DOMAIN h_pending = {}
    PROVE  WithinAllowance
<1>1. \A k \in Callers : ~ Open(k)
  BY DEF LinkInvariant, LinkInv, CallsAnswered, NoSilentLoss, PendingCallers, Open
<1>2. Total(Costs) = 0
  BY TotalEmpty DEF Costs
<1>3. Idle <= Allowance
  <2>1. CASE Issued = {}
    BY <2>1 DEF Idle, Counted
  <2>2. CASE Issued # {}
    <3>1. Cardinality(Issued) \in Nat /\ Cardinality(Issued) # 0
      BY <2>2, FS_EmptySet DEF Counted
    <3>2. CallTurns \in Nat /\ CallTurns >= 1
      BY TurnsOfCalls
    <3>3. 1 * CallTurns <= Cardinality(Issued) * CallTurns
      BY <3>1, <3>2, TimesGrows
    <3> QED
      BY <3>1, <3>2, <3>3 DEF Idle, Allowance, Counted
  <2> QED
    BY <2>1, <2>2
<1> QED
  BY <1>1, <1>2, <1>3 DEF WithinAllowance, ToSpend, Counted

(* Also of the next state.                                                 *)
LEMMA AllOverNext ==
    ASSUME CallChoices
    PROVE  (Counted /\ LinkInvariant /\ abandoned = {} /\ DOMAIN h_pending = {})' => WithinAllowance'
<1>1. Counted /\ LinkInvariant /\ abandoned = {} /\ DOMAIN h_pending = {} => WithinAllowance
  BY AllOver
<1> QED
  BY <1>1, PTL

(* Ids stay quiet while no ack is added and no call waits anew.            *)
LEMMA QuietKept ==
    ASSUME Counted, Counted', QuietIds, UNCHANGED h_next_tx_id,
           \A t \in HS!TxIds :
              \/ Acks(t)' <= Acks(t)
              \/ t \in DOMAIN h_pending' /\ h_pending'[t].inflight /\ ~ (t >= h_next_tx_id),
           \A t \in DOMAIN h_pending' :
              ~ h_pending'[t].inflight => t \in DOMAIN h_pending /\ ~ h_pending[t].inflight
    PROVE  QuietIds'
<1> SUFFICES ASSUME NEW t \in HS!TxIds,
                    \/ t >= h_next_tx_id'
                    \/ t \in DOMAIN h_pending' /\ ~ h_pending'[t].inflight
             PROVE  Acks(t)' = 0
  BY DEF QuietIds
<1>1. Acks(t) = 0
  BY DEF QuietIds
<1>2. Acks(t)' <= Acks(t)
  OBVIOUS
<1>3. Acks(t)' \in Nat
  BY DEF Counted
<1> QED
  BY <1>1, <1>2, <1>3

-----------------------------------------------------------------------------
(***************************************************************************)
(* The steps of the loop.                                                  *)
(***************************************************************************)
\* What is known of the states a step leads from and to.
Counting(R) ==
    /\ LinkInv(R) /\ LinkInvariant'
    /\ Counted /\ Counted'
    /\ LoopState /\ QuietIds /\ WithinAllowance

\* The part of the invariant this module adds.
LoopKept == LoopState' /\ QuietIds' /\ WithinAllowance'

IdleKept == Idle' <= Idle \/ DOMAIN h_pending' = {} \/ Total(Costs)' + 1 <= Total(Costs)

(* Any step but a turn and a new call.                                     *)
LEMMA StepWithin ==
    ASSUME CallChoices, NEW R, Counting(R),
           NoCallOpens, UNCHANGED <<turns, abandoned, h_next_tx_id>>,
           CostsKept, IdleKept,
           \A t \in HS!TxIds :
              \/ Acks(t)' <= Acks(t)
              \/ t \in DOMAIN h_pending' /\ h_pending'[t].inflight /\ ~ (t >= h_next_tx_id),
           \A t \in DOMAIN h_pending' :
              ~ h_pending'[t].inflight => t \in DOMAIN h_pending /\ ~ h_pending[t].inflight,
           main' \in {"cycle", "sleep"}, main' = "sleep" => h_phase' = "rx",
           h_phase' = "errors" => Issued # {}
    PROVE  LoopKept
<1> USE DEF Counting
<1>1. LoopState'
  BY DEF LoopState, NoCallOpens
<1>2. QuietIds'
  BY QuietKept
<1>3. WithinAllowance'
  <2>1. CASE DOMAIN h_pending' = {}
    <3>1. abandoned' = {}
      BY DEF LoopState
    <3> QED
      BY <2>1, <3>1, AllOverNext
  <2>2. CASE Idle' <= Idle
    <3>1. Total(Costs)' <= Total(Costs)
      BY TotalKept
    <3>2. ToSpend' <= ToSpend
      BY <2>2, <3>1 DEF ToSpend, Counted
    <3> QED
      BY <3>2, NothingAdded
  <2>3. CASE Total(Costs)' + 1 <= Total(Costs)
    <3>1. ToSpend' <= ToSpend
      BY <2>3 DEF ToSpend, Counted
    <3> QED
      BY <3>1, NothingAdded
  <2> QED
    BY <2>1, <2>2, <2>3 DEF IdleKept
<1> QED
  BY <1>1, <1>2, <1>3 DEF LoopKept

(* Calls that are left as they are, or whose timeout runs on.              *)
LEMMA CostsStay ==
    ASSUME CallChoices, NEW R, Counting(R), AcksKept,
           DOMAIN h_pending' = DOMAIN h_pending,
           \A t \in DOMAIN h_pending :
              /\ h_pending'[t].inflight = h_pending[t].inflight
              /\ h_pending'[t].max_retries = h_pending[t].max_retries
              /\ h_pending'[t].retry_count = h_pending[t].retry_count
              /\ h_pending'[t].left <= h_pending[t].left,
           Polled' => Polled \/ DOMAIN h_pending = {}
    PROVE  CostsKept
<1>1. ASSUME NEW t \in DOMAIN h_pending PROVE Cost(t)' <= Cost(t)
  <2>1. SameCosts(t)
    BY DEF SameCosts, AcksKept
  <2>2. Polled' => Polled
    OBVIOUS
  <2> QED
    BY <2>1, <2>2, WaitingCost DEF Counting
<1> QED
  BY <1>1 DEF CostsKept

(* A step that leaves the calls as they are and adds no ack.               *)
LEMMA CallsStay ==
    ASSUME CallChoices, NEW R, Counting(R), AcksKept,
           UNCHANGED <<turns, abandoned, h_next_tx_id, h_pending, h_answers>>,
           Polled' => Polled \/ DOMAIN h_pending = {},
           Pumped' => Pumped \/ HS!InWindow # {} \/ DOMAIN h_pending = {},
           main' \in {"cycle", "sleep"}, main' = "sleep" => h_phase' = "rx",
           h_phase' = "errors" => h_phase = "errors"
    PROVE  LoopKept
<1>1. \A t \in DOMAIN h_pending : h_pending[t].left <= h_pending[t].left
  BY DEF Counting, Counted, Entry
<1>2. CostsKept
  BY <1>1, CostsStay
<1>3. NoCallOpens /\ HS!InWindow' = HS!InWindow /\ Issued' = Issued
  BY DEF NoCallOpens, Issued, Open, HS!InWindow
<1>4. IdleKept
  <2>1. CASE DOMAIN h_pending = {}
    BY <2>1 DEF IdleKept
  <2>2. CASE DOMAIN h_pending # {}
    <3>1. Idle' <= Idle
      BY <1>3, <2>2 DEF Idle
    <3> QED
      BY <3>1 DEF IdleKept
  <2> QED
    BY <2>1, <2>2
<1>5. h_phase' = "errors" => Issued # {}
  BY DEF Counting, LoopState
<1>6. \A t : Acks(t)' <= Acks(t)
  BY DEF AcksKept
<1> QED
  BY <1>2, <1>3, <1>4, <1>5, <1>6, StepWithin

(* The device and the line.                                                *)
LEMMA DeviceLoop ==
    ASSUME CallChoices, NEW R, Counting(R), DeviceStep \/ Lose, UNCHANGED <<main, turns>>
    PROVE  LoopKept
<1>1. UNCHANGED <<host, runs>>
  <2>1. LinkInv(R)
    BY DEF Counting
  <2>2. ASSUME DeviceReceive PROVE UNCHANGED <<host, runs>>
    BY <2>1, <2>2, DeviceReceives
  <2> QED
    BY <2>2 DEF DeviceStep, Lose, DeviceAnswer, DeviceBroadcast, DeviceSends, DeviceWorks
<1>2. AcksKept
  BY DeviceStepAcks, LoseAcks DEF Counting
<1>3. /\ UNCHANGED <<abandoned, h_next_tx_id, h_pending, h_answers>>
      /\ UNCHANGED <<main, h_phase>>
  BY <1>1 DEF host, runs
<1>4. (Polled' <=> Polled) /\ (Pumped' <=> Pumped)
  BY <1>3 DEF Polled, Pumped
<1>5. main \in {"cycle", "sleep"} /\ (main = "sleep" => h_phase = "rx")
  BY DEF Counting, LoopState
<1> QED
  BY <1>2, <1>3, <1>4, <1>5, CallsStay

(* Time passes.                                                            *)
LEMMA TickLoop ==
    ASSUME CallChoices, NEW R, Counting(R), HostTick, UNCHANGED <<main, turns>>
    PROVE  LoopKept
<1>1. /\ HS!Tick /\ HostStackUnchanged
      /\ UNCHANGED <<device, app, h2d, d2h, runs>>
  BY HostClockTick DEF HostTick, Host!ClockTick, Host!stack_vars, HostStackUnchanged
<1>2. /\ DOMAIN h_pending' = DOMAIN h_pending
      /\ \A t \in DOMAIN h_pending :
            /\ h_pending'[t].inflight = h_pending[t].inflight
            /\ h_pending'[t].max_retries = h_pending[t].max_retries
            /\ h_pending'[t].retry_count = h_pending[t].retry_count
            /\ h_pending'[t].left <= h_pending[t].left
      /\ UNCHANGED <<h_next_tx_id, h_answers>>
  <2>1. DOMAIN h_pending' = DOMAIN h_pending /\ UNCHANGED <<h_next_tx_id, h_answers>>
    BY <1>1 DEF HS!Tick
  <2>2. ASSUME NEW t \in DOMAIN h_pending
        PROVE  /\ h_pending'[t].inflight = h_pending[t].inflight
               /\ h_pending'[t].max_retries = h_pending[t].max_retries
               /\ h_pending'[t].retry_count = h_pending[t].retry_count
               /\ h_pending'[t].left <= h_pending[t].left
    <3>1. h_pending[t] \in HS!PendingEntries /\ h_pending[t].left \in Nat
      BY DEF Counting, LinkInv, HS!SessionInv, HS!TypeOK, HS!PendingEntries
    <3>2. \/ h_pending'[t] = h_pending[t]
          \/ h_pending'[t] = [h_pending[t] EXCEPT !.left = h_pending[t].left - 1]
      BY <1>1 DEF HS!Tick
    <3> QED
      BY <3>1, <3>2 DEF HS!PendingEntries
  <2> QED
    BY <2>1, <2>2
<1>3. AcksKept
  BY <1>1, SameAcks DEF Counting, HostStackUnchanged, device
<1>4. /\ (Polled' <=> Polled) /\ (Pumped' <=> Pumped)
      /\ UNCHANGED <<h_phase, abandoned>>
  BY <1>1 DEF Polled, Pumped, HostStackUnchanged, runs
<1>5. CostsKept
  BY <1>2, <1>3, <1>4, CostsStay
<1>6. NoCallOpens /\ HS!InWindow' = HS!InWindow /\ Issued' = Issued
  BY <1>2 DEF NoCallOpens, Issued, Open, HS!InWindow
<1>7. IdleKept
  BY <1>4, <1>6 DEF IdleKept, Idle
<1>8. /\ main \in {"cycle", "sleep"} /\ (main = "sleep" => h_phase = "rx")
      /\ h_phase = "errors" => Issued # {}
  BY DEF Counting, LoopState
<1>9. \A t : Acks(t)' <= Acks(t)
  BY <1>3 DEF AcksKept
<1> QED
  BY <1>2, <1>4, <1>5, <1>6, <1>7, <1>8, <1>9, StepWithin

-----------------------------------------------------------------------------
(* A packet reaches the host: nothing, an ack that restarts a timeout, or  *)
(* a response that ends a call.                                            *)
LEMMA ReceiveLoop ==
    ASSUME CallChoices, NEW R, Counting(R), HostReceive, UNCHANGED <<main, turns>>, main = "cycle"
    PROVE  LoopKept
<1> USE DEF Counting
<1> DEFINE p == Head(d2h)
<1>1. /\ d2h # <<>> /\ d2h' = Tail(d2h)
      /\ UNCHANGED <<device, app, h2d, runs>>
      /\ Host!handle_packet_internal(p)
  BY DEF HostReceive
<1>2. /\ h_phase = "rx" /\ HostStackUnchanged
      /\ \/ HostSessionUnchanged
         \/ \E tx \in HS!TxIds : p = AckOf(tx) /\ HS!on_ack(tx)
         \/ \E t \in DOMAIN R : /\ Executed(R[t].body)
                                /\ HS!on_response(ResponseOf[R[t].cmd], t, R[t].body)
  BY <1>1, HostReceives DEF LinkInv, AckOf
<1>3. UNCHANGED <<h_retries, h_tx_queue, h2d, d_tx_queue, h_phase, abandoned>>
  BY <1>1, <1>2 DEF HostStackUnchanged, device, runs
<1>4. ~ Polled /\ ~ Polled' /\ ~ Pumped /\ ~ Pumped' /\ h_phase' = "rx"
  BY <1>2, <1>3 DEF Polled, Pumped
<1>5. IdleKept
  BY <1>4 DEF IdleKept, Idle
<1>6. \A t : Acks(t)' + Bit(p, {AckOf(t)}) <= Acks(t)
  <2>1. ASSUME NEW t PROVE Acks(t)' + Bit(p, {AckOf(t)}) <= Acks(t)
    <3>1. AckParts(t)
      BY AckPartsType
    <3>2. /\ Count(d2h', {AckOf(t)}) \in Nat
          /\ Count(d2h', {AckOf(t)}) + Bit(p, {AckOf(t)}) <= Count(d2h, {AckOf(t)})
      BY <1>1, CountLoses DEF LinkInv, DeviceAgrees
    <3>3. Bit(p, {AckOf(t)}) \in {0, 1}
      BY DEF Bit
    <3> HIDE DEF p
    <3> QED
      BY <1>3, <3>1, <3>2, <3>3 DEF Acks, AckParts
  <2> QED
    BY <2>1
<1>7. AcksKept
  <2>1. ASSUME NEW t PROVE Acks(t)' <= Acks(t)
    <3>1. Acks(t) \in Nat /\ Acks(t)' \in Nat /\ Bit(p, {AckOf(t)}) \in {0, 1}
      BY DEF Counted, Bit
    <3> QED
      BY <1>6, <3>1
  <2> QED
    BY <2>1 DEF AcksKept
<1> HIDE DEF p
<1>8. \A t \in DOMAIN h_pending : h_pending[t].left <= h_pending[t].left
  BY DEF Counted, Entry
<1>9. ASSUME CostsKept, HS!CallsKept, UNCHANGED h_next_tx_id, NoCallOpens
      PROVE  LoopKept
  <2>1. \A t \in DOMAIN h_pending' :
           ~ h_pending'[t].inflight => t \in DOMAIN h_pending /\ ~ h_pending[t].inflight
    BY <1>9 DEF HS!CallsKept
  <2>2. main \in {"cycle", "sleep"}
    BY DEF LoopState
  <2>3. \A t : Acks(t)' <= Acks(t)
    BY <1>7 DEF AcksKept
  <2> QED
    BY <1>3, <1>4, <1>5, <1>9, <2>1, <2>2, <2>3, StepWithin
<1>10. CASE HostSessionUnchanged
  BY <1>3, <1>4, <1>7, <1>10, CallsStay DEF HostSessionUnchanged
<1>11. ASSUME NEW tx \in HS!TxIds, p = AckOf(tx), HS!on_ack(tx)
       PROVE  LoopKept
  <2>1. HS!CallsKept /\ DOMAIN h_pending' = DOMAIN h_pending
    BY <1>11, HS!OnAckKeepsCalls, Constants DEF LinkInv, HS!SessionInv
  <2>2. UNCHANGED <<h_next_tx_id, h_answers>>
    BY <1>11 DEF HS!on_ack
  <2>3. ASSUME NEW t \in DOMAIN h_pending PROVE Cost(t)' <= Cost(t)
    <3>1. h_pending'[t].inflight = h_pending[t].inflight
      BY <2>1 DEF HS!CallsKept
    <3>2. CASE t = tx /\ h_pending[t].inflight
      <4>1. /\ h_pending[t] \in HS!PendingEntries
            /\ h_pending' = [h_pending EXCEPT ![t].left = h_pending[t].timeout]
        BY <1>11, <3>2 DEF HS!on_ack, HS!InWindow, LinkInv, HS!SessionInv, HS!TypeOK
      <4>2. /\ h_pending'[t].left \in Timeouts
            /\ h_pending'[t].max_retries = h_pending[t].max_retries
            /\ h_pending'[t].retry_count = h_pending[t].retry_count
        BY <4>1 DEF HS!PendingEntries
      <4>3. Bit(p, {AckOf(t)}) = 1
        BY <1>11, <3>2 DEF Bit
      <4>4. Acks(t)' + 1 <= Acks(t)
        BY <1>6, <4>3
      <4>5. Entry(h_pending[t]) /\ Acks(t) \in Nat /\ Acks(t)' \in Nat
        BY DEF Counted
      <4>6. Restarts(t)' + 1 <= Restarts(t)
        BY <4>2, <4>4, <4>5 DEF Restarts, Entry
      <4> QED
        BY <2>1, <3>1, <3>2, <4>2, <4>6, RenewedCost
    <3>3. CASE ~ (t = tx /\ h_pending[t].inflight)
      <4>1. h_pending'[t] = h_pending[t]
        BY <1>11, <3>3 DEF HS!on_ack, HS!InWindow
      <4>2. SameCosts(t)
        BY <1>7, <1>8, <4>1 DEF SameCosts, AcksKept
      <4> QED
        BY <1>4, <2>1, <4>1, <4>2, WaitingCost
    <3> QED
      BY <3>2, <3>3
  <2>4. CostsKept
    BY <2>1, <2>3 DEF CostsKept
  <2>5. NoCallOpens
    BY <2>2 DEF NoCallOpens, Issued, Open
  <2> QED
    BY <1>9, <2>1, <2>2, <2>4, <2>5
<1>12. ASSUME NEW t \in DOMAIN R, HS!on_response(ResponseOf[R[t].cmd], t, R[t].body)
       PROVE  LoopKept
  <2> DEFINE cmd == ResponseOf[R[t].cmd]
             body == R[t].body
             entry == h_pending[t]
  <2>1. /\ UNCHANGED <<h_next_tx_id, h_outbound>> /\ HS!CallsKept
        /\ \/ UNCHANGED <<h_answers, h_pending>>
           \/ /\ t \in DOMAIN h_pending
              /\ DOMAIN h_pending' = DOMAIN h_pending \ {t}
              /\ entry.caller \in DOMAIN h_answers
              /\ entry.response_cmd = cmd => h_answers' = [h_answers EXCEPT ![entry.caller] = <<body>>]
              /\ entry.response_cmd # cmd => h_answers' = h_answers
    BY <1>12, HS!ResponseEffect, Constants DEF LinkInv
  <2>2. \A s \in DOMAIN h_pending' : s \in DOMAIN h_pending /\ h_pending'[s] = h_pending[s]
    BY <1>12 DEF HS!on_response, HS!DuplicateResponse, HS!StrayResponse, HS!MatchedResponse,
                 HS!Erase, HS!session_vars, HS!host_vars
  <2> HIDE DEF cmd, body, entry
  <2>3. NoCallOpens
    <3>1. <<body>> # <<>>
      OBVIOUS
    <3> QED
      BY <2>1, <3>1 DEF NoCallOpens, Issued, Open
  <2>4. ASSUME NEW s \in DOMAIN h_pending' PROVE Cost(s)' <= Cost(s)
    <3>1. SameCosts(s)
      BY <1>7, <1>8, <2>2 DEF SameCosts, AcksKept
    <3> QED
      BY <1>4, <2>2, <3>1, WaitingCost
  <2>5. CostsKept
    BY <2>2, <2>4 DEF CostsKept
  <2> QED
    BY <1>9, <2>1, <2>3, <2>5
<1> QED
  BY <1>2, <1>10, <1>11, <1>12

-----------------------------------------------------------------------------
\* What each step of the cycle does besides.
Working ==
    /\ main = "cycle" /\ main' = IF h_phase = "tx" THEN "sleep" ELSE "cycle"
    /\ UNCHANGED turns

(* The loop works until its cycle ends.                                    *)
LEMMA WorkingPlace ==
    ASSUME Working, h_phase = "tx" => h_phase' = "rx"
    PROVE  /\ main' \in {"cycle", "sleep"} /\ (main' = "sleep" => h_phase' = "rx")
           /\ Polled' => h_phase' \in {"errors", "requeue", "tx"} \/ Polled
           /\ Pumped' => h_phase' \in {"poll", "errors", "requeue", "tx"} \/ Pumped
BY DEF Working, Polled, Pumped

(* A request goes out.                                                     *)
LEMMA HostSendsLoop ==
    ASSUME CallChoices, NEW R, Counting(R), HostSends, Working
    PROVE  LoopKept
<1>1. /\ h_phase = "tx" /\ h_phase' = "rx"
      /\ UNCHANGED <<abandoned, h_next_tx_id, h_pending, h_answers>>
  BY DEF HostSends, Host!FrameSent, Host!session_vars, Host!host_vars, runs
<1>2. AcksKept
  BY HostSendsAcks DEF Counting
<1>3. Polled /\ Pumped
  BY <1>1 DEF Polled, Pumped
<1> QED
  BY <1>1, <1>2, <1>3, WorkingPlace, CallsStay DEF Working

(* The steps that only move the phase.                                     *)
LEMMA PhaseLoop ==
    ASSUME CallChoices, NEW R, Counting(R), UNCHANGED <<device, app, h2d, d2h, runs>>, Working,
           Host!RxDrained \/ Host!ErrorCallbacksReturn \/ Host!FrameKept
    PROVE  LoopKept
<1>1. /\ UNCHANGED <<abandoned, h_next_tx_id, h_pending, h_answers>>
      /\ UNCHANGED <<h_retries, h_tx_queue, h2d, d_tx_queue, d2h>>
  BY DEF Host!RxDrained, Host!ErrorCallbacksReturn, Host!FrameKept, Host!session_vars,
         Host!host_vars, runs, device
<1>2. AcksKept
  BY <1>1, SameAcks DEF Counting
<1>3. /\ h_phase = "tx" => h_phase' = "rx"
      /\ h_phase' # "errors"
      /\ h_phase \in {"errors", "tx"} \/ (h_phase = "rx" /\ h_phase' = "outbound")
           \/ DOMAIN h_pending = {}
  BY DEF Host!RxDrained, Host!ErrorCallbacksReturn, Host!FrameKept
<1>4. /\ Polled' => Polled \/ DOMAIN h_pending = {}
      /\ Pumped' => Pumped \/ DOMAIN h_pending = {}
  BY <1>3 DEF Working, Polled, Pumped
<1> QED
  BY <1>1, <1>2, <1>3, <1>4, WorkingPlace, CallsStay DEF Working

(* A retransmission is queued again.                                       *)
LEMMA RequeueLoop ==
    ASSUME CallChoices, NEW R, Counting(R), UNCHANGED <<device, app, h2d, d2h, runs>>, Working,
           Host!RequeueRetry
    PROVE  LoopKept
<1>1. /\ h_phase = "requeue" /\ h_phase' \in {"tx", "requeue"}
      /\ UNCHANGED <<abandoned, h_next_tx_id, h_pending, h_answers>>
  BY DEF Host!RequeueRetry, Host!session_vars, Host!host_vars, runs
<1>2. AcksKept
  BY RequeueRetryAcks DEF Counting
<1>3. Polled /\ Pumped
  BY <1>1 DEF Polled, Pumped
<1> QED
  BY <1>1, <1>2, <1>3, WorkingPlace, CallsStay DEF Working

(* When no more calls are taken from the queue, one is in the window or    *)
(* none is pending.                                                        *)
LEMMA NothingToSend ==
    ASSUME NEW R, LinkInv(R), HS!NoOutbound
    PROVE  HS!InWindow # {} \/ DOMAIN h_pending = {}
<1> SUFFICES ASSUME HS!InWindow = {}, NEW t \in DOMAIN h_pending PROVE FALSE
  OBVIOUS
<1>1. HS!WindowOpen
  <2>1. h_inflight_count = 0
    BY SameCardinality, FS_EmptySet DEF LinkInv, HS!SessionInv, HS!InflightExact
  <2>2. HS!window_size >= 1
    BY Constants DEF HS!window_size, HS!SessionAssumption
  <2> QED
    BY <2>1, <2>2, Constants DEF HS!WindowOpen, HS!window_size, HS!SessionAssumption
<1>2. t \in HS!Queued
  BY DEF LinkInv, HS!SessionInv, HS!QueueExact
<1>3. PICK i \in 1 .. Len(h_outbound) : h_outbound[i] = t
  BY <1>2 DEF HS!Queued
<1>4. i \in HS!Live
  BY <1>3 DEF HS!Live
<1> QED
  BY <1>1, <1>4 DEF HS!NoOutbound, HS!HasOutbound

(* The window is full or the queue is empty.                               *)
LEMMA OutboundDoneLoop ==
    ASSUME CallChoices, NEW R, Counting(R), UNCHANGED <<device, app, h2d, d2h, runs>>, Working,
           Host!OutboundDone
    PROVE  LoopKept
<1>1. /\ HS!NoOutbound /\ h_phase = "outbound" /\ h_phase' = "poll"
      /\ UNCHANGED <<h_tx_queue, h_retries>>
  BY HostNoOutbound DEF Host!OutboundDone
<1>2. UNCHANGED <<abandoned, h_next_tx_id, h_pending, h_answers>>
  BY <1>1 DEF HS!NoOutbound, runs
<1>3. AcksKept
  BY <1>1, SameAcks DEF Counting, device
<1>4. HS!InWindow # {} \/ DOMAIN h_pending = {}
  BY <1>1, NothingToSend DEF Counting
<1>5. ~ Polled' /\ main' = "cycle"
  BY <1>1 DEF Working, Polled
<1> QED
  BY <1>1, <1>2, <1>3, <1>4, <1>5, CallsStay DEF Working

(* The next waiting call is sent: a call that costs no more than it did    *)
(* while it waited.                                                        *)
LEMMA PumpLoop ==
    ASSUME CallChoices, NEW R, Counting(R), UNCHANGED <<device, app, h2d, d2h, runs>>, Working,
           Host!PumpOutbound
    PROVE  LoopKept
<1> USE DEF Counting
<1>0. PICK tx : tx = HS!OutboundTx
  OBVIOUS
<1> DEFINE frame == Host!RequestFrame(tx)
<1>1. /\ HS!TakeOutbound
      /\ h_phase = "outbound" /\ h_phase' \in {"outbound", "poll"}
      /\ h_tx_queue' = Host!enqueue_pending_frame(h_tx_queue, frame)
      /\ UNCHANGED h_retries
  BY <1>0, HostTakeOutbound DEF Host!PumpOutbound
<1>2. /\ tx \in DOMAIN h_pending \ HS!InWindow
      /\ DOMAIN h_pending' = DOMAIN h_pending
      /\ HS!InWindow' = HS!InWindow \cup {tx}
      /\ UNCHANGED <<h_next_tx_id, h_answers>>
  BY <1>0, <1>1, HS!TakeOutboundEffect, Constants DEF LinkInv
<1>3. /\ h_pending' = [h_pending EXCEPT ![tx].inflight = TRUE,
                                        ![tx].left = h_pending[tx].timeout]
      /\ h_pending[tx] \in HS!PendingEntries
  BY <1>0, <1>1, <1>2 DEF HS!TakeOutbound, LinkInv, HS!SessionInv, HS!TypeOK
<1>4. /\ ~ h_pending[tx].inflight /\ h_pending'[tx].inflight
      /\ h_pending'[tx].left \in Timeouts
      /\ h_pending'[tx].max_retries = h_pending[tx].max_retries
      /\ h_pending'[tx].retry_count = h_pending[tx].retry_count
      /\ h_pending[tx].retry_count = 0
      /\ \A t \in DOMAIN h_pending : t # tx => h_pending'[t] = h_pending[t]
  <2>1. ~ h_pending[tx].inflight
    BY <1>2 DEF HS!InWindow
  <2>2. h_pending[tx].retry_count = 0
    BY <1>2 DEF LinkInv, HS!SessionInv, HS!RetriesWithinLimit
  <2> QED
    BY <1>2, <1>3, <2>1, <2>2 DEF HS!PendingEntries
<1>5. frame \in RequestFrames(R)
  BY <1>2 DEF LinkInv, HostAgrees, Host!RequestFrame, RequestFrames, Request
<1>6. \A t : Acks(t)' <= Acks(t) + Bit(frame, Requests(t))
  <2>1. ASSUME NEW t PROVE Acks(t)' <= Acks(t) + Bit(frame, Requests(t))
    <3>1. AckParts(t)
      BY AckPartsType
    <3>2. /\ Count(h_tx_queue', Requests(t)) \in Nat
          /\ Count(h_tx_queue', Requests(t))
               <= Count(h_tx_queue, Requests(t)) + Bit(frame, Requests(t))
      BY <1>1, <1>5, CountPending DEF LinkInv, HostAgrees
    <3>3. Bit(frame, Requests(t)) \in {0, 1}
      BY DEF Bit
    <3>4. UNCHANGED <<h_retries, h2d, d_tx_queue, d2h>>
      BY <1>1 DEF device
    <3> HIDE DEF frame
    <3> QED
      BY <3>1, <3>2, <3>3, <3>4 DEF Acks, AckParts
  <2> QED
    BY <2>1
<1>7. /\ \A t : t # tx => Acks(t)' <= Acks(t)
      /\ Acks(tx) = 0 /\ Acks(tx)' <= 1
  <2>1. \A t : Acks(t) \in Nat /\ Acks(t)' \in Nat
    BY DEF Counted
  <2>2. frame.tx = tx
    BY DEF Host!RequestFrame
  <2>3. \A t : t # tx => Bit(frame, Requests(t)) = 0
    BY <2>2 DEF Bit, Requests
  <2>4. Bit(frame, Requests(tx)) \in {0, 1}
    BY DEF Bit
  <2>5. Acks(tx) = 0
    BY <1>2, <1>4 DEF QuietIds, Counted
  <2> HIDE DEF frame
  <2>6. Acks(tx)' <= 1
    <3>1. Acks(tx)' <= Acks(tx) + Bit(frame, Requests(tx))
      BY <1>6
    <3> QED
      BY <2>1, <2>4, <2>5, <3>1
  <2>7. ASSUME NEW t, t # tx PROVE Acks(t)' <= Acks(t)
    BY <1>6, <2>1, <2>3, <2>7
  <2> QED
    BY <2>5, <2>6, <2>7
<1>8. ~ Polled' /\ main' = "cycle"
  BY <1>1 DEF Working, Polled
<1>9. Cost(tx)' <= Cost(tx)
  <2> DEFINE e == h_pending'[tx]
             n == Left(Polled', e.left)
             r == Restarts(tx)'
             m == e.max_retries
  <2>1. Entry(e) /\ Acks(tx)' \in Nat
    BY <1>2 DEF Counted
  <2>2. r \in Nat /\ r <= 2 * m + 1 /\ m \in Nat
    BY <1>4, <1>7, <2>1 DEF Restarts, Entry
  <2>3. n \in Nat /\ n <= WaitTurns
    <3>1. Polled' \in BOOLEAN
      BY DEF Polled
    <3> QED
      BY <1>4, <2>1, <3>1, LeftOrder DEF Entry
  <2>4. WaitTurns \in Nat /\ m \in RetryLimits
    BY <2>1, TurnsOfCalls DEF Entry
  <2>5. (2 * m + 1) * WaitTurns + WaitTurns + 1 <= CallTurns /\ CallTurns \in Nat
    BY <2>4, TurnsOfCalls
  <2>6. Cost(tx)' = r * WaitTurns + n + 1
    BY <1>4 DEF Cost, InFlightCost
  <2>7. Cost(tx) = CallTurns
    BY <1>4 DEF Cost
  <2> HIDE DEF n, r, m
  <2>8. 2 * m + 1 \in Nat
    BY <2>2
  <2>9. /\ r * WaitTurns <= (2 * m + 1) * WaitTurns
        /\ r * WaitTurns \in Nat
    BY <2>2, <2>4, <2>8, TimesGrows
  <2>10. (2 * m + 1) * WaitTurns \in Nat
    BY <2>4, <2>8
  <2> QED
    BY <2>3, <2>4, <2>5, <2>6, <2>7, <2>9, <2>10
<1>10. ASSUME NEW t \in DOMAIN h_pending, t # tx PROVE Cost(t)' <= Cost(t)
  <2>1. SameCosts(t)
    BY <1>4, <1>7, <1>10 DEF SameCosts, Counted, Entry
  <2> QED
    BY <1>2, <1>4, <1>8, <1>10, <2>1, WaitingCost
<1>11. CostsKept
  BY <1>2, <1>9, <1>10 DEF CostsKept
<1>12. NoCallOpens
  BY <1>2 DEF NoCallOpens, Issued, Open
<1>13. IdleKept
  <2>1. Idle' = 0
    BY <1>2 DEF Idle
  <2> QED
    BY <2>1 DEF IdleKept, Idle
<1>14. \A t \in HS!TxIds :
          \/ Acks(t)' <= Acks(t)
          \/ t \in DOMAIN h_pending' /\ h_pending'[t].inflight /\ ~ (t >= h_next_tx_id)
  <2>1. ~ (tx >= h_next_tx_id)
    <3>1. tx \in 1 .. h_next_tx_id - 1 /\ h_next_tx_id \in Nat
      BY <1>2, Constants DEF LinkInv, HostAgrees, Registry, HS!SessionInv, HS!TypeOK, HS!TxIds,
            HS!SessionAssumption
    <3> QED
      BY <3>1
  <2> QED
    BY <1>2, <1>4, <1>7, <2>1
<1>15. UNCHANGED <<turns, abandoned, h_next_tx_id>>
  BY <1>2 DEF Working, runs
<1> QED
  BY <1>1, <1>2, <1>4, <1>8, <1>11, <1>12, <1>13, <1>14, <1>15, StepWithin

-----------------------------------------------------------------------------
(* Poll resends a call once.                                               *)
LEMMA PollAcks ==
    ASSUME NEW R, LinkInv(R), Host!PollSession, UNCHANGED <<device, app, h2d, d2h, runs>>
    PROVE  \A t : /\ Acks(t)' <= Acks(t) + 1
                  /\ t \notin Host!Retried => Acks(t)' <= Acks(t)
<1>1. PICK order \in Host!SetToSeqs(Host!Retried) :
         h_retries' = [i \in DOMAIN order |-> Host!RetransmitEntry(order[i])]
  BY DEF Host!PollSession
<1>2. /\ order \in [1 .. Host!Cardinality(Host!Retried) -> Host!Retried]
      /\ \A i, j \in DOMAIN order : order[i] = order[j] => i = j
  BY DEF Host!SetToSeqs
<1>3. h_retries = <<>> /\ UNCHANGED <<h_tx_queue, h2d, d_tx_queue, d2h>>
  BY DEF Host!PollSession, LinkInv, HostAgrees, device
<1>4. ASSUME NEW t
      PROVE  /\ Acks(t)' <= Acks(t) + 1
             /\ t \notin Host!Retried => Acks(t)' <= Acks(t)
  <2> DEFINE P == Positions(h_retries', Resent(t))
  <2>1. \A i \in P : i \in DOMAIN order /\ order[i] = t
    <3>1. \A i \in P : i \in DOMAIN order /\ h_retries'[i] \in Resent(t)
      BY <1>1 DEF Positions
    <3>2. \A i \in DOMAIN order : h_retries'[i].tx = order[i]
      BY <1>1 DEF Host!RetransmitEntry
    <3>3. \A r \in Resent(t) : r.tx = t
      BY DEF Resent
    <3> QED
      BY <3>1, <3>2, <3>3
  <2> HIDE DEF P
  <2>2. CASE P = {}
    <3>1. Count(h_retries', Resent(t)) = 0
      BY <2>2, FS_EmptySet DEF Count, P
    <3>2. Count(h_retries, Resent(t)) = 0
      BY <1>3, CountEmpty
    <3>3. Acks(t)' = Acks(t)
      BY <1>3, <3>1, <3>2 DEF Acks
    <3>4. AckParts(t)
      BY AckPartsType
    <3> QED
      BY <3>3, <3>4 DEF Acks, AckParts
  <2>3. CASE P # {}
    <3>1. PICK i : P = {i}
      <4>1. PICK i : i \in P
        BY <2>3
      <4>2. \A j \in P : j = i
        BY <1>2, <2>1, <4>1
      <4> QED
        BY <4>1, <4>2
    <3>2. Count(h_retries', Resent(t)) = 1
      BY <3>1, FS_Singleton DEF Count, P
    <3>3. Count(h_retries, Resent(t)) = 0
      BY <1>3, CountEmpty
    <3>4. AckParts(t)
      BY AckPartsType
    <3>5. Acks(t)' <= Acks(t) + 1
      BY <1>3, <3>2, <3>3, <3>4 DEF Acks, AckParts
    <3>6. t \in Host!Retried
      BY <1>2, <2>1, <3>1
    <3> QED
      BY <3>5, <3>6
  <2> QED
    BY <2>2, <2>3
<1> QED
  BY <1>4

(* The calls whose deadline has passed are resent or end; if the window    *)
(* empties, a call has ended.                                              *)
LEMMA PollLoop ==
    ASSUME CallChoices, NEW R, Counting(R), UNCHANGED <<device, app, h2d, d2h, runs>>, Working,
           Host!PollSession
    PROVE  LoopKept
<1> USE DEF Counting
<1>1. /\ HS!poll /\ h_phase = "poll"
      /\ h_phase' \in {"errors", "requeue", "tx"}
      /\ h_phase' = "errors" => Host!Expired # {}
  BY HostPoll DEF Host!PollSession
<1>2. /\ HS!CallsKept
      /\ DOMAIN h_answers' = DOMAIN h_answers
      /\ \A k \in DOMAIN h_answers :
            \/ h_answers'[k] = h_answers[k]
            \/ h_answers[k] = <<>> /\ h_answers'[k] = <<Timeout>>
      /\ DOMAIN h_pending' = DOMAIN h_pending \ HS!Expired
      /\ UNCHANGED <<h_next_tx_id, h_outbound>>
  BY <1>1, HS!PollEffect, Constants DEF LinkInv
<1>3. /\ Host!Retried = HS!Retried /\ Host!Expired = HS!Expired
      /\ HS!Expired \subseteq HS!InWindow
      /\ HS!Retried = {t \in HS!InWindow : /\ h_pending[t].left = 0
                                           /\ ~ (h_pending[t].retry_count >= h_pending[t].max_retries)}
      /\ HS!Expired = {t \in HS!InWindow : /\ h_pending[t].left = 0
                                           /\ h_pending[t].retry_count >= h_pending[t].max_retries}
  BY DEF Host!Retried, HS!Retried, Host!Expired, HS!Expired, Host!Due, HS!Due,
         Host!InWindow, HS!InWindow
<1>4. /\ Polled' /\ ~ Polled /\ Pumped /\ Pumped' /\ main' = "cycle"
  BY <1>1 DEF Working, Polled, Pumped
<1>5. \A t \in DOMAIN h_pending' : h_pending'[t].inflight = h_pending[t].inflight
  BY <1>2 DEF HS!CallsKept
<1>6. ASSUME NEW t \in DOMAIN h_pending' PROVE Cost(t)' <= Cost(t)
  <2>1. t \in DOMAIN h_pending /\ t \notin HS!Expired
    BY <1>2
  <2>2. Entry(h_pending[t]) /\ Entry(h_pending'[t]) /\ h_pending[t] \in HS!PendingEntries
    BY <2>1 DEF Counted, LinkInv, HS!SessionInv, HS!TypeOK
  <2>3. CASE t \in HS!Retried
    <3>1. h_pending'[t] = [h_pending[t] EXCEPT !.retry_count = h_pending[t].retry_count + 1,
                                               !.left = h_pending[t].timeout]
      BY <1>1, <2>1, <2>3 DEF HS!poll
    <3>2. /\ h_pending'[t].left \in Timeouts
          /\ h_pending'[t].max_retries = h_pending[t].max_retries
          /\ h_pending'[t].retry_count = h_pending[t].retry_count + 1
      BY <2>2, <3>1 DEF HS!PendingEntries
    <3>3. Acks(t)' <= Acks(t) + 1 /\ Acks(t) \in Nat /\ Acks(t)' \in Nat
      BY PollAcks DEF Counted
    <3>4. Restarts(t)' + 1 <= Restarts(t)
      BY <2>2, <3>2, <3>3 DEF Restarts, Entry
    <3>5. h_pending[t].inflight /\ h_pending'[t].inflight
      BY <1>3, <1>5, <2>3 DEF HS!InWindow
    <3> QED
      BY <2>1, <3>2, <3>4, <3>5, RenewedCost
  <2>4. CASE t \notin HS!Retried
    <3>1. h_pending'[t] = h_pending[t]
      BY <1>1, <2>1, <2>4 DEF HS!poll
    <3>2. h_pending[t].inflight => h_pending[t].left # 0
      BY <1>3, <2>1, <2>4 DEF HS!InWindow
    <3>3. Acks(t)' <= Acks(t)
      BY <1>3, <2>4, PollAcks
    <3>4. SameCosts(t)
      BY <2>2, <3>1, <3>3 DEF SameCosts, Entry
    <3> QED
      BY <2>1, <3>1, <3>2, <3>4, WaitingCost
  <2> QED
    BY <2>3, <2>4
<1>7. CostsKept
  BY <1>2, <1>6 DEF CostsKept
<1>8. NoCallOpens
  <2>1. <<Timeout>> # <<>>
    OBVIOUS
  <2> QED
    BY <1>2, <2>1 DEF NoCallOpens, Issued, Open
<1>9. IdleKept
  <2>1. CASE HS!Expired = {}
    <3>1. HS!InWindow' = HS!InWindow
      BY <1>2, <1>5, <2>1 DEF HS!InWindow
    <3>2. Idle' <= Idle
      BY <1>4, <1>8, <3>1 DEF Idle, NoCallOpens
    <3> QED
      BY <3>2 DEF IdleKept
  <2>2. CASE HS!Expired # {}
    <3>1. PICK x : x \in HS!Expired
      BY <2>2
    <3>2. x \in DOMAIN h_pending /\ x \notin DOMAIN h_pending'
      BY <1>2, <1>3, <3>1 DEF HS!InWindow
    <3> QED
      BY <1>7, <3>2, TotalSpent DEF IdleKept
  <2> QED
    BY <2>1, <2>2
<1>10. h_phase' = "errors" => Issued # {}
  <2> SUFFICES ASSUME HS!Expired # {} PROVE Issued # {}
    BY <1>1, <1>3
  <2>1. PICK x : x \in HS!Expired
    OBVIOUS
  <2>2. x \in DOMAIN h_pending
    BY <1>3, <2>1 DEF HS!InWindow
  <2>3. h_pending[x].caller \in Issued
    BY <2>2 DEF LinkInv, HS!SessionInv, HS!OneCallback, Issued
  <2> QED
    BY <2>3
<1>11. \A t \in HS!TxIds :
          \/ Acks(t)' <= Acks(t)
          \/ t \in DOMAIN h_pending' /\ h_pending'[t].inflight /\ ~ (t >= h_next_tx_id)
  <2>1. ASSUME NEW t \in HS!Retried
        PROVE  t \in DOMAIN h_pending' /\ h_pending'[t].inflight /\ ~ (t >= h_next_tx_id)
    <3>1. t \in DOMAIN h_pending /\ h_pending[t].inflight /\ t \notin HS!Expired
      BY <1>3, <2>1 DEF HS!InWindow
    <3>2. t \in 1 .. h_next_tx_id - 1 /\ h_next_tx_id \in Nat
      BY <3>1, Constants DEF LinkInv, HostAgrees, Registry, HS!SessionInv, HS!TypeOK, HS!TxIds,
            HS!SessionAssumption
    <3> QED
      BY <1>2, <1>5, <3>1, <3>2
  <2> QED
    BY <1>3, <2>1, PollAcks
<1>12. UNCHANGED <<turns, abandoned, h_next_tx_id>>
  BY <1>2 DEF Working, runs
<1>13. \A t \in DOMAIN h_pending' :
          ~ h_pending'[t].inflight => t \in DOMAIN h_pending /\ ~ h_pending[t].inflight
  BY <1>2, <1>5
<1> QED
  BY <1>4, <1>7, <1>8, <1>9, <1>10, <1>11, <1>12, <1>13, StepWithin

-----------------------------------------------------------------------------
(* A new call brings its own turns.                                        *)
LEMMA CallLoop ==
    ASSUME CallChoices, IdsNotReused, RetriesNotMoved, NEW R, Counting(R), HostCall,
           UNCHANGED <<main, turns>>, main = "cycle"
    PROVE  LoopKept
<1> USE DEF Counting
<1>1. PICK k \in Callers, cmd \in RequestCmds, timeout \in Timeouts, max_retries \in RetryLimits :
         Host!Send(k, cmd, timeout, max_retries)
  BY DEF HostCall
<1>2. /\ h_phase = "errors" => CallbacksSend
      /\ UNCHANGED <<device, app, h2d, d2h, runs>>
  BY DEF HostCall
<1>0. PICK n : n = h_next_tx_id
  OBVIOUS
<1>3. /\ h_next_tx_id' = n + 1 /\ n \in Nat /\ UNCHANGED h_retries
  <2>1. h_next_tx_id' = h_next_tx_id + 1 /\ UNCHANGED h_retries
    BY <1>1, <1>2, HostCallStep
  <2>2. h_next_tx_id \in Nat
    BY Constants DEF LinkInv, HS!SessionInv, HS!TypeOK, HS!TxIds, HS!SessionAssumption
  <2> QED
    BY <1>0, <2>1, <2>2
<1>4. /\ HS!send(k, cmd, timeout, max_retries)
      /\ UNCHANGED <<h_tx_queue, h_phase>>
      /\ h_phase \in {"rx", "handler", "errors"}
  BY <1>1, HostSend DEF Host!Send, Host!OnProtocolThread
<1>5. /\ k \notin Issued /\ n \notin DOMAIN h_pending
      /\ h_pending' = HS!Put(h_pending, n, HS!NewPending(k, cmd, timeout, max_retries))
      /\ h_answers' = HS!Put(h_answers, k, <<>>)
  BY <1>0, <1>4 DEF HS!send, HS!Unused, HS!register_pending, Issued
<1>6. /\ DOMAIN h_pending' = DOMAIN h_pending \cup {n}
      /\ ~ h_pending'[n].inflight
      /\ \A t \in DOMAIN h_pending : h_pending'[t] = h_pending[t] /\ t # n
  BY <1>5 DEF HS!Put, HS!NewPending
<1>7. /\ Issued' = Issued \cup {k}
      /\ \A j \in Callers : Open(j)' => Open(j) \/ j = k
  BY <1>5 DEF Issued, Open, HS!Put
<1>8. \A t : Acks(t)' = Acks(t)
  BY <1>2, <1>3, <1>4 DEF Acks, device
<1>9. (Polled' <=> Polled) /\ (Pumped' <=> Pumped)
  BY <1>4 DEF Polled, Pumped
<1>10. HS!InWindow' = HS!InWindow
  BY <1>6 DEF HS!InWindow
<1>11. Idle' <= Idle
  <2>1. Pumped => Issued # {}
    BY <1>4 DEF Pumped, Polled, LoopState
  <2> QED
    BY <1>9, <1>10, <2>1 DEF Idle
<1>12. ASSUME NEW t \in DOMAIN h_pending PROVE Cost(t)' <= Cost(t)
  <2>1. SameCosts(t)
    BY <1>6, <1>8 DEF SameCosts, Counted, Entry
  <2> QED
    BY <1>6, <1>9, <2>1, WaitingCost
<1>13. Total(Costs)' <= Total(Costs) + CallTurns
  <2> DEFINE D == DOMAIN h_pending
             c == Costs
             d == Costs'
  <2>1. /\ IsFiniteSet(D) /\ c \in [D -> Nat] /\ d \in [D \cup {n} -> Nat] /\ n \notin D
        /\ \A t \in D : d[t] <= c[t]
    BY <1>5, <1>6, <1>12 DEF Counted
  <2>2. d[n] = CallTurns
    BY <1>6 DEF Counted, Cost
  <2> HIDE DEF c, d, D
  <2>3. Total(d) <= Total(c) + d[n]
    BY <2>1, TotalAdds
  <2> QED
    BY <2>2, <2>3 DEF c, d
<1>14. Allowance' = Allowance + CallTurns /\ CallTurns \in Nat /\ Allowance \in Nat
  <2>1. Cardinality(Issued') = Cardinality(Issued) + 1 /\ Cardinality(Issued) \in Nat
    BY <1>5, <1>7, FS_AddElement DEF Counted
  <2>2. CallTurns \in Nat
    BY TurnsOfCalls
  <2>3. (Cardinality(Issued) + 1) * CallTurns = Cardinality(Issued) * CallTurns + CallTurns
    BY <2>1, <2>2
  <2> QED
    BY <2>1, <2>2, <2>3 DEF Allowance, Counted
<1>15. ToSpend' <= ToSpend + CallTurns /\ ToSpend \in Nat /\ ToSpend' \in Nat
  BY <1>11, <1>13, <1>14 DEF ToSpend, Counted
<1>16. WithinAllowance'
  <2>1. ToSpend' <= Allowance'
    BY <1>14, <1>15 DEF WithinAllowance
  <2>2. ASSUME NEW j \in Callers, Open(j)'
        PROVE  turns'[j] + ToSpend' <= Allowance'
    <3>1. turns'[j] = turns[j] /\ turns[j] \in Nat
      BY DEF LoopState
    <3>2. CASE j = k
      <4>1. turns[j] = 0
        BY <1>5, <3>2 DEF LoopState
      <4>2. turns'[j] = 0
        BY <3>1, <4>1
      <4>3. \A x \in Nat : 0 + x = x
        OBVIOUS
      <4>4. 0 + ToSpend' = ToSpend'
        BY <1>15, <4>3
      <4>5. turns'[j] + ToSpend' = ToSpend'
        BY <4>2, <4>4, Zenon
      <4> QED
        BY <2>1, <4>5, Zenon
    <3>3. CASE Open(j)
      <4>1. turns[j] + ToSpend <= Allowance
        BY <3>3 DEF WithinAllowance
      <4> QED
        BY <1>14, <1>15, <3>1, <4>1
    <3> QED
      BY <1>7, <2>2, <3>2, <3>3
  <2> QED
    BY <2>1, <2>2 DEF WithinAllowance
<1>17. LoopState'
  BY <1>2, <1>4, <1>7 DEF LoopState, runs
<1>18. QuietIds'
  <2> SUFFICES ASSUME NEW t \in HS!TxIds,
                      \/ t >= h_next_tx_id'
                      \/ t \in DOMAIN h_pending' /\ ~ h_pending'[t].inflight
               PROVE  Acks(t) = 0
    BY <1>8 DEF QuietIds
  <2>1. t \in Nat
    BY Constants DEF HS!TxIds, HS!SessionAssumption
  <2>2. t >= h_next_tx_id \/ (t \in DOMAIN h_pending /\ ~ h_pending[t].inflight)
    BY <1>0, <1>3, <1>6, <2>1
  <2> QED
    BY <2>2 DEF QuietIds
<1> QED
  BY <1>16, <1>17, <1>18 DEF LoopKept

(* The next turn: every call in the window is a turn nearer its end, and   *)
(* if the window is empty this was the turn that fills it.                 *)
LEMMA WakeLoop ==
    ASSUME CallChoices, IdsNotReused, NEW R, Counting(R), MainWakes
    PROVE  LoopKept
<1> USE DEF Counting
<1>1. /\ main = "sleep" /\ main' = "cycle" /\ h_phase = "rx" /\ h_phase' = "rx"
      /\ UNCHANGED <<h_retries, h_tx_queue, h2d, d_tx_queue, d2h>>
      /\ UNCHANGED <<abandoned, h_next_tx_id, h_answers>>
  BY DEF MainWakes, LoopState, device, runs
<1>2. Polled /\ ~ Polled' /\ Pumped /\ ~ Pumped'
  BY <1>1 DEF Polled, Pumped
<1>3. /\ DOMAIN h_pending' = DOMAIN h_pending
      /\ \A t \in DOMAIN h_pending :
            h_pending'[t] = IF h_pending[t].inflight
                            THEN [h_pending[t] EXCEPT !.left = Slept(h_pending[t].left)]
                            ELSE h_pending[t]
  BY DEF MainWakes
<1>4. \A t : Acks(t)' = Acks(t) /\ Acks(t) \in Nat
  BY <1>1 DEF Acks, Counted
<1>5. ASSUME NEW t \in DOMAIN h_pending
      PROVE  /\ h_pending'[t].inflight = h_pending[t].inflight
             /\ h_pending[t].inflight => Cost(t)' < Cost(t)
             /\ ~ h_pending[t].inflight => Cost(t)' <= Cost(t)
  <2>1. Entry(h_pending[t]) /\ Entry(h_pending'[t]) /\ h_pending[t] \in HS!PendingEntries
    BY <1>3 DEF Counted, LinkInv, HS!SessionInv, HS!TypeOK
  <2>2. CASE ~ h_pending[t].inflight
    BY <1>3, <2>2, TurnsOfCalls DEF Cost
  <2>3. CASE h_pending[t].inflight
    <3> DEFINE m == h_pending[t].left
    <3>1. /\ h_pending'[t].inflight
          /\ h_pending'[t].left = Slept(m)
          /\ h_pending'[t].max_retries = h_pending[t].max_retries
          /\ h_pending'[t].retry_count = h_pending[t].retry_count
      BY <1>3, <2>1, <2>3 DEF HS!PendingEntries
    <3>2. Restarts(t)' = Restarts(t) /\ Restarts(t) \in Nat
      BY <1>4, <2>1, <3>1 DEF Restarts, Entry
    <3>3. /\ Left(Polled, m) \in Nat /\ Left(Polled', Slept(m)) \in Nat
          /\ Left(Polled', Slept(m)) + 1 <= Left(Polled, m)
      <4>1. m \in Nat
        BY <2>1 DEF Entry
      <4>2. CASE m = 0
        <5>1. Slept(m) = 0
          BY <4>2, SleepAssumption DEF Slept
        <5> QED
          BY <1>2, <4>2, <5>1, SleepsOrder DEF Left
      <4>3. CASE m > 0
        <5>1. Slept(m) \in Nat /\ Sleeps(Slept(m)) + 1 <= Sleeps(m)
          BY <4>1, <4>3, SleepsOrder
        <5>2. Left(Polled, m) = Sleeps(m) /\ Left(Polled', Slept(m)) = Sleeps(Slept(m))
          BY <1>2, <4>3 DEF Left
        <5> QED
          BY <4>1, <5>1, <5>2, SleepsIs
      <4> QED
        BY <4>1, <4>2, <4>3
    <3>4. InFlightCost(t)' < InFlightCost(t)
      <4>1. InFlightCost(t) = Restarts(t) * WaitTurns + Left(Polled, m) + 1
        BY DEF InFlightCost
      <4>2. InFlightCost(t)' = Restarts(t) * WaitTurns + Left(Polled', Slept(m)) + 1
        BY <3>1, <3>2 DEF InFlightCost
      <4> HIDE DEF m
      <4>3. Restarts(t) <= Restarts(t)
        BY <3>2
      <4> QED
        BY <3>2, <3>3, <4>1, <4>2, <4>3, CostOrder
    <3> QED
      BY <2>3, <3>1, <3>4 DEF Cost
  <2> QED
    BY <2>2, <2>3
<1>6. CostsKept
  <2>1. \A t \in DOMAIN h_pending : Cost(t) \in Nat /\ Cost(t)' \in Nat
    <3>1. \A t \in DOMAIN h_pending : Costs[t] = Cost(t) /\ Costs[t] \in Nat
      BY DEF Counted
    <3>2. \A t \in DOMAIN h_pending' : Costs'[t] = Cost(t)' /\ Costs'[t] \in Nat
      BY DEF Counted
    <3> QED
      BY <1>3, <3>1, <3>2
  <2> QED
    BY <1>3, <1>5, <2>1 DEF CostsKept
<1>7. NoCallOpens /\ \A k : Open(k)' <=> Open(k)
  BY <1>1 DEF NoCallOpens, Issued, Open
<1>8. Idle' = 0 /\ Total(Costs)' <= Total(Costs)
  BY <1>2, <1>6, TotalKept DEF Idle
<1>9. Issued # {} => ToSpend' + 1 <= ToSpend
  <2> SUFFICES ASSUME Issued # {} PROVE ToSpend' + 1 <= ToSpend
    OBVIOUS
  <2>1. CASE HS!InWindow = {}
    <3>1. Idle = 1
      BY <1>2, <2>1 DEF Idle
    <3> QED
      BY <1>8, <3>1 DEF ToSpend, Counted
  <2>2. CASE HS!InWindow # {}
    <3>1. PICK x \in DOMAIN h_pending : h_pending[x].inflight
      BY <2>2 DEF HS!InWindow
    <3>2. Total(Costs)' + 1 <= Total(Costs)
      BY <1>5, <1>6, <3>1, TotalSpent
    <3> QED
      BY <1>8, <3>2 DEF ToSpend, Counted
  <2> QED
    BY <2>1, <2>2
<1>10. ToSpend \in Nat /\ ToSpend' \in Nat /\ ToSpend' <= ToSpend
  BY <1>8 DEF ToSpend, Counted
<1>11. Allowance' = Allowance /\ Allowance \in Nat
  BY <1>7 DEF NoCallOpens, Allowance, Counted
<1>12. LoopLimit \in Nat /\ \A m \in Nat : /\ Min({m, LoopLimit}) \in Nat
                                           /\ Min({m, LoopLimit}) <= m
  <2>1. LoopLimit \in Nat
    BY TurnsOfCalls, FS_CardinalityType DEF LoopLimit, IdsNotReused
  <2>2. ASSUME NEW m \in Nat PROVE Min({m, LoopLimit}) \in Nat /\ Min({m, LoopLimit}) <= m
    <3> DEFINE S == {m, LoopLimit}
    <3>1. S \in SUBSET Nat /\ S # {} /\ m \in S
      BY <2>1
    <3>2. \E x \in S : \A y \in S : x <= y
      BY <3>1, HS!LeastOfNats, Constants
    <3> HIDE DEF S
    <3>3. Min(S) \in S /\ \A y \in S : Min(S) <= y
      BY <3>2 DEF Min
    <3>4. Min(S) \in Nat /\ Min(S) <= m
      BY <3>1, <3>3
    <3> QED
      BY <3>4 DEF S
  <2> QED
    BY <2>1, <2>2
<1>13. turns' = [k \in Callers |-> IF Open(k) THEN Min({turns[k], LoopLimit}) + 1 ELSE 0]
  BY DEF MainWakes
<1>14. \A k \in Callers : turns[k] \in Nat
  BY DEF LoopState
<1>15. WithinAllowance'
  <2>1. ToSpend' <= Allowance'
    BY <1>10, <1>11 DEF WithinAllowance
  <2>2. ASSUME NEW k \in Callers, Open(k)'
        PROVE  turns'[k] + ToSpend' <= Allowance'
    <3>1. Open(k) /\ Issued # {}
      BY <1>7, <2>2 DEF Open
    <3>2. turns'[k] <= turns[k] + 1 /\ turns'[k] \in Nat /\ turns[k] \in Nat
      <4>1. turns'[k] = Min({turns[k], LoopLimit}) + 1
        BY <1>13, <3>1
      <4> QED
        BY <1>12, <1>14, <4>1
    <3>3. turns[k] + ToSpend <= Allowance
      BY <3>1 DEF WithinAllowance
    <3>4. ToSpend' + 1 <= ToSpend
      BY <1>9, <3>1
    <3>5. \A a, b, c, d, e \in Nat : a <= b + 1 /\ b + c <= d /\ e + 1 <= c => a + e <= d
      OBVIOUS
    <3>6. turns'[k] + ToSpend' <= Allowance
      BY ONLY <1>10, <1>11, <3>2, <3>3, <3>4, <3>5
    <3> QED
      BY ONLY <1>11, <3>6
  <2> QED
    BY <2>1, <2>2 DEF WithinAllowance
<1>16. LoopState'
  <2>1. \A k \in Callers : turns'[k] \in Nat
    <3>1. ASSUME NEW k \in Callers PROVE turns'[k] \in Nat
      <4>1. Min({turns[k], LoopLimit}) \in Nat
        BY <1>12, <1>14
      <4> QED
        BY <1>13, <4>1
    <3> QED
      BY <3>1
  <2>2. turns' \in [Callers -> Nat]
    BY <1>13, <2>1
  <2>3. \A k \in Callers \ Issued' : turns'[k] = 0
    BY <1>7, <1>13 DEF NoCallOpens, Open
  <2>4. abandoned' = {}
    BY <1>1 DEF LoopState
  <2> QED
    BY <1>1, <2>2, <2>3, <2>4 DEF LoopState
<1>17. QuietIds'
  <2>1. \A t \in HS!TxIds : Acks(t)' <= Acks(t)
    BY <1>4
  <2>2. \A t \in DOMAIN h_pending' :
           ~ h_pending'[t].inflight => t \in DOMAIN h_pending /\ ~ h_pending[t].inflight
    BY <1>3, <1>5
  <2> QED
    BY <1>1, <2>1, <2>2, QuietKept
<1> QED
  BY <1>15, <1>16, <1>17 DEF LoopKept

-----------------------------------------------------------------------------
(***************************************************************************)
(* The invariant, and what it says.                                        *)
(***************************************************************************)

(* Sleeping changes nothing in the link but deadlines.                     *)
LEMMA WakeStep ==
    ASSUME NEW R, LinkInv(R), MainWakes
    PROVE  LinkInv(R)'
<1>1. /\ HostStackUnchanged
      /\ UNCHANGED <<h_next_tx_id, h_inflight_count, h_outbound, h_seen_responses,
                     h_seen_requests, h_cache, h_order, h_answers>>
      /\ UNCHANGED <<device, app, h2d, d2h, runs>>
  BY DEF MainWakes, HostStackUnchanged
<1>2. \A entry \in HS!PendingEntries :
         LET slept == [entry EXCEPT !.left = Slept(entry.left)]
         IN /\ slept \in HS!PendingEntries
            /\ slept.caller = entry.caller /\ slept.inflight = entry.inflight
            /\ slept.retry_count = entry.retry_count /\ slept.max_retries = entry.max_retries
            /\ slept.request_cmd = entry.request_cmd /\ slept.response_cmd = entry.response_cmd
  <2>1. \A n \in Nat : Slept(n) \in Nat
    BY SleepAssumption DEF Slept
  <2> QED
    BY <2>1 DEF HS!PendingEntries
<1>3. \A t \in DOMAIN h_pending : h_pending[t] \in HS!PendingEntries
  BY DEF LinkInv, HS!SessionInv, HS!TypeOK
<1>4. h_pending' = [tx \in DOMAIN h_pending |->
                      IF h_pending[tx].inflight
                      THEN [h_pending[tx] EXCEPT !.left = Slept(h_pending[tx].left)]
                      ELSE h_pending[tx]]
  BY DEF MainWakes
<1>5. /\ DOMAIN h_pending' = DOMAIN h_pending
      /\ \A t \in DOMAIN h_pending :
            /\ h_pending'[t] \in HS!PendingEntries
            /\ h_pending'[t].caller = h_pending[t].caller
            /\ h_pending'[t].inflight = h_pending[t].inflight
            /\ h_pending'[t].retry_count = h_pending[t].retry_count
            /\ h_pending'[t].max_retries = h_pending[t].max_retries
            /\ h_pending'[t].request_cmd = h_pending[t].request_cmd
            /\ h_pending'[t].response_cmd = h_pending[t].response_cmd
  BY <1>2, <1>3, <1>4
<1>6. h_pending' \in [DOMAIN h_pending -> HS!PendingEntries]
  BY <1>4, <1>5
<1>7. HS!SessionInv'
  <2>1. HS!DeadlineStep
    BY <1>1, <1>5, <1>6 DEF HS!DeadlineStep, HS!device_vars
  <2> QED
    BY <2>1, HS!DeadlineStepInv, Constants DEF LinkInv
<1>8. HS!CallsKept
  BY <1>5 DEF HS!CallsKept, HS!SameCall
<1>9. HostAgrees(R)'
  BY <1>1, <1>8, HostKept DEF LinkInv
<1> QED
  BY <1>1, <1>5, <1>7, <1>9, QuietHostStep

(* The steps of the program and of everything else are steps of the link.  *)
LEMMA LinkKept ==
    ASSUME IdsNotReused, RetriesNotMoved, NEW R, LinkInv(R), [SerialNext]_host_vars
    PROVE  LinkInvariant'
<1>1. CASE MainWakes
  BY <1>1, WakeStep DEF LinkInvariant
<1>2. CASE ~ MainWakes
  <2>1. [Next]_vars
    BY <1>2 DEF SerialNext, MainCalls, MainWorks, Elsewhere, Next, HostCycle, host_vars
  <2> QED
    BY <2>1, NextStep DEF LinkInvariant
<1> QED
  BY <1>1, <1>2

(* A step of the loop's own thread.                                        *)
LEMMA WorksLoop ==
    ASSUME CallChoices, NEW R, Counting(R), MainWorks
    PROVE  LoopKept
<1>1. Working /\ HostCycle
  BY DEF MainWorks, Working
<1>2. CASE HostSends
  BY <1>1, <1>2, HostSendsLoop
<1>3. CASE HostWorks
  <2>1. UNCHANGED <<device, app, h2d, d2h, runs>>
    BY <1>3 DEF HostWorks
  <2>2. CASE Host!RxDrained \/ Host!ErrorCallbacksReturn \/ Host!FrameKept
    BY <1>1, <2>1, <2>2, PhaseLoop
  <2>3. CASE Host!PumpOutbound
    BY <1>1, <2>1, <2>3, PumpLoop
  <2>4. CASE Host!OutboundDone
    BY <1>1, <2>1, <2>4, OutboundDoneLoop
  <2>5. CASE Host!PollSession
    BY <1>1, <2>1, <2>5, PollLoop
  <2>6. CASE Host!RequeueRetry
    BY <1>1, <2>1, <2>6, RequeueLoop
  <2> QED
    BY <1>3, <2>2, <2>3, <2>4, <2>5, <2>6 DEF HostWorks, Host!handle_session_outbound
<1> QED
  BY <1>1, <1>2, <1>3 DEF HostCycle

(* A step that changes nothing.                                            *)
LEMMA StutterLoop ==
    ASSUME CallChoices, NEW R, Counting(R), UNCHANGED host_vars
    PROVE  LoopKept
<1>1. UNCHANGED <<main, turns, host, runs, h2d, d2h, device>>
  BY DEF host_vars, vars
<1>2. /\ UNCHANGED <<turns, abandoned, h_next_tx_id, h_pending, h_answers>>
      /\ UNCHANGED <<main, h_phase, h_retries, h_tx_queue, h2d, d_tx_queue, d2h>>
  BY <1>1 DEF host, runs, device
<1>3. AcksKept
  BY <1>2, SameAcks DEF Counting
<1>4. (Polled' <=> Polled) /\ (Pumped' <=> Pumped)
  BY <1>2 DEF Polled, Pumped
<1>5. main \in {"cycle", "sleep"} /\ (main = "sleep" => h_phase = "rx")
  BY DEF Counting, LoopState
<1> QED
  BY <1>2, <1>3, <1>4, <1>5, CallsStay

(* Every step keeps the budget.                                            *)
LEMMA LoopStep ==
    ASSUME CallChoices, IdsNotReused, RetriesNotMoved, LoopInv, [SerialNext]_host_vars
    PROVE  LoopInv'
<1>1. PICK R : LinkInv(R)
  BY DEF LoopInv, LinkInvariant
<1>2. LinkInvariant'
  BY <1>1, LinkKept
<1>3. Counting(R)
  BY <1>1, <1>2, LinkCounted, LinkCountedNext DEF LoopInv, Counting
<1>4. LoopKept
  <2>1. CASE MainCalls
    <3>1. main = "cycle" /\ UNCHANGED <<main, turns>> /\ (HostCall \/ HostReceive)
      BY <2>1 DEF MainCalls
    <3> QED
      BY <1>3, <3>1, CallLoop, ReceiveLoop
  <2>2. CASE MainWorks
    BY <1>3, <2>2, WorksLoop
  <2>3. CASE MainWakes
    BY <1>3, <2>3, WakeLoop
  <2>4. CASE Elsewhere
    BY <1>3, <2>4, TickLoop, DeviceLoop DEF Elsewhere
  <2>5. CASE UNCHANGED host_vars
    BY <1>3, <2>5, StutterLoop
  <2> QED
    BY <2>1, <2>2, <2>3, <2>4, <2>5 DEF SerialNext
<1> QED
  BY <1>2, <1>4 DEF LoopKept, LoopInv

(* A program that has not called yet has spent nothing.                    *)
LEMMA LoopStart ==
    ASSUME CallChoices, IdsNotReused, SerialInit
    PROVE  LoopInv
<1>1. /\ main = "cycle" /\ turns = [k \in Callers |-> 0] /\ abandoned = {}
      /\ h_phase = "rx" /\ h_retries = <<>> /\ h_tx_queue = <<>> /\ h2d = <<>>
      /\ d_tx_queue = <<>> /\ d2h = <<>> /\ DOMAIN h_pending = {} /\ Issued = {}
  BY DEF SerialInit, Init, HostStart, DeviceStart, NoMap, Issued
<1>2. LinkInvariant
  BY InitStep DEF LinkInvariant, SerialInit
<1>3. LoopState
  BY <1>1 DEF LoopState
<1>4. QuietIds
  BY <1>1, CountEmpty DEF QuietIds, Acks
<1>5. WithinAllowance
  BY <1>1, <1>2, LinkCounted, AllOver
<1> QED
  BY <1>2, <1>3, <1>4, <1>5 DEF LoopInv

(* What an open call has taken and what all calls may still take is never  *)
(* more than the calls made so far have brought.                           *)
THEOREM LoopInvariantHolds ==
    ASSUME CallChoices, IdsNotReused, RetriesNotMoved
    PROVE  SerialSpec => []LoopInv
<1>1. SerialInit => LoopInv
  BY LoopStart
<1>2. LoopInv /\ [SerialNext]_host_vars => LoopInv'
  BY LoopStep
<1> QED
  BY <1>1, <1>2, PTL DEF SerialSpec

(* So a loop of LoopLimit turns never gives up on a pending call           *)
(* (send_serial.cpp:89-95, test_arm.cpp:124-137).                          *)
THEOREM LoopOutlastsEveryCall ==
    ASSUME CallChoices, IdsNotReused, RetriesNotMoved
    PROVE  SerialSpec => []LoopOutlastsCall
<1>1. LoopInv => LoopOutlastsCall
  <2> SUFFICES ASSUME LoopInv, NEW k \in Callers, Open(k)
               PROVE  turns[k] <= LoopLimit
    BY DEF LoopOutlastsCall
  <2>1. Counted
    BY LinkCounted DEF LoopInv
  <2>2. turns[k] \in Nat /\ ToSpend \in Nat /\ turns[k] + ToSpend <= Allowance
    BY <2>1 DEF LoopInv, LoopState, WithinAllowance, ToSpend, Counted
  <2>3. Allowance <= LoopLimit /\ LoopLimit \in Nat /\ Allowance \in Nat
    <3>1. Issued \subseteq Callers
      BY DEF LoopInv, LinkInvariant, LinkInv, HS!SessionInv, HS!TypeOK, Issued
    <3>2. /\ Cardinality(Issued) \in Nat /\ Cardinality(Callers) \in Nat
          /\ Cardinality(Issued) <= Cardinality(Callers)
      BY <3>1, FS_Subset, FS_CardinalityType DEF IdsNotReused
    <3>3. CallTurns \in Nat
      BY TurnsOfCalls
    <3> QED
      BY <3>2, <3>3, TimesGrows DEF Allowance, LoopLimit
  <2> QED
    BY <2>2, <2>3
<1> QED
  BY <1>1, LoopInvariantHolds, PTL
=============================================================================
