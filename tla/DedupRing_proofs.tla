-------------------------- MODULE DedupRing_proofs --------------------------
(***************************************************************************)
(* A ring of any capacity, driven by any calls with any ids, is a sliding  *)
(* window over the last Capacity new ids.                                  *)
(***************************************************************************)
EXTENDS DedupRing, TLAPS, SequenceTheorems

(* What the constants of DedupRing stand for: a ring has a slot, and no    *)
(* caller passes the value of a slot that was never written.               *)
RingConstants == Capacity \in Nat \ {0} /\ Zero \notin Ids

\* The invariant, of a ring r: no id twice, and a slot is unused only as long
\* as write_idx has not come round to it for the first time.
WellFormed(r) ==
    /\ r \in Rings(Ids)
    /\ \A s, t \in Slots : r.ids[s] = r.ids[t] /\ r.ids[s] # Zero => s = t
    /\ \A s \in Slots : r.ids[s] = Zero =>
         \A t \in Slots : (r.ids[t] = Zero) <=> (r.write_idx <= t)

(* The remainder of a number below twice the divisor.                      *)
LEMMA ModBelow == \A x, n \in Nat : n > 0 /\ x < n => x % n = x
  OBVIOUS

(* Below twice n, the remainder is taken by one subtraction.               *)
LEMMA ModAbove == \A x, n \in Nat : n > 0 /\ n <= x /\ x < 2 * n => x % n = x - n
  OBVIOUS

(* The slots are numbers below the capacity.                               *)
LEMMA SlotRange ==
    ASSUME RingConstants
    PROVE  /\ Capacity \in Nat /\ Capacity > 0
           /\ \A s : s \in Slots <=> (s \in Nat /\ s < Capacity)
  BY DEF RingConstants, Slots

(***************************************************************************)
(* The invariant.                                                          *)
(***************************************************************************)

(* The empty ring is well formed.                                          *)
LEMMA EmptyRing ==
    ASSUME RingConstants
    PROVE  WellFormed(Empty)
<1>1. Empty.write_idx = 0 /\ Empty.ids = [s \in Slots |-> Zero]
  BY DEF Empty
<1>2. Empty \in Rings(Ids)
  BY SlotRange DEF Rings, Empty
<1> QED
  BY <1>1, <1>2, SlotRange DEF WellFormed

(* A new id goes to the slot at write_idx, and to no other.                *)
LEMMA NewIdStored ==
    ASSUME RingConstants, NEW r \in Rings(Ids), NEW id \in Ids, ~ Holds(r, id),
           NEW q, q = Inserted(r, id)
    PROVE  /\ q \in Rings(Ids)
           /\ r.write_idx \in Slots /\ q.write_idx \in Slots
           /\ q.ids[r.write_idx] = id
           /\ \A s \in Slots : s # r.write_idx => q.ids[s] = r.ids[s]
           /\ q.write_idx = IF r.write_idx + 1 = Capacity THEN 0 ELSE r.write_idx + 1
<1> DEFINE w == r.write_idx
           ids == [r.ids EXCEPT ![w] = id]
           next == (w + 1) % Capacity
<1>1. w \in Slots /\ r.ids \in [Slots -> Ids \cup {Zero}]
  BY DEF Rings
<1>2. q = [ids |-> ids, write_idx |-> next]
  BY DEF Inserted
<1>3. next = IF w + 1 = Capacity THEN 0 ELSE w + 1
  <2> USE SlotRange
  <2> w + 1 \in Nat
    BY <1>1
  <2>1. CASE w + 1 = Capacity
    <3>1. Capacity % Capacity = Capacity - Capacity
      BY ModAbove
    <3> QED
      BY <2>1, <3>1
  <2>2. CASE w + 1 # Capacity
    <3> DEFINE x == w + 1
    <3>1. x \in Nat /\ x < Capacity
      BY <1>1, <2>2
    <3> HIDE DEF x
    <3>2. x % Capacity = x
      BY <3>1, ModBelow
    <3> QED
      BY <2>2, <3>2 DEF x
  <2> QED
    BY <2>1, <2>2
<1>4. next \in Slots
  BY <1>1, <1>3, SlotRange
<1>5. ids \in [Slots -> Ids \cup {Zero}]
  BY <1>1
<1>6. q \in Rings(Ids) /\ q.ids = ids /\ q.write_idx = next
  BY <1>2, <1>4, <1>5 DEF Rings
<1> QED
  BY <1>1, <1>3, <1>4, <1>6

(* Storing a new id keeps the ring well formed.                            *)
LEMMA NewIdKeepsForm ==
    ASSUME RingConstants, NEW r, WellFormed(r), NEW id \in Ids, ~ Holds(r, id),
           NEW q, q = Inserted(r, id)
    PROVE  WellFormed(q)
<1> DEFINE w == r.write_idx
<1>1. r \in Rings(Ids) /\ r.ids \in [Slots -> Ids \cup {Zero}]
  BY DEF WellFormed, Rings
<1>2. /\ q \in Rings(Ids) /\ w \in Slots /\ q.write_idx \in Slots
      /\ q.ids[w] = id /\ \A s \in Slots : s # w => q.ids[s] = r.ids[s]
      /\ q.write_idx = IF w + 1 = Capacity THEN 0 ELSE w + 1
  BY <1>1, NewIdStored
<1>3. id # Zero /\ \A s \in Slots : r.ids[s] # id
  BY DEF Holds, RingConstants
<1>4. \A s, t \in Slots : q.ids[s] = q.ids[t] /\ q.ids[s] # Zero => s = t
  BY <1>2, <1>3 DEF WellFormed
<1>5. ASSUME NEW s \in Slots, q.ids[s] = Zero, NEW t \in Slots
      PROVE  (q.ids[t] = Zero) <=> (q.write_idx <= t)
  <2>1. s # w /\ r.ids[s] = Zero
    BY <1>2, <1>3, <1>5
  <2>2. \A u \in Slots : (r.ids[u] = Zero) <=> (w <= u)
    BY <2>1 DEF WellFormed
  <2>3. q.write_idx = w + 1
    BY <1>2, <2>1, <2>2, SlotRange
  <2>4. CASE t = w
    BY <1>2, <1>3, <2>3, <2>4, SlotRange
  <2>5. CASE t # w
    BY <1>2, <2>2, <2>3, <2>5, SlotRange
  <2> QED
    BY <2>4, <2>5
<1> QED
  BY <1>2, <1>4, <1>5 DEF WellFormed

(* Every call keeps the ring well formed.                                  *)
LEMMA FormStep ==
    ASSUME RingConstants, WellFormed(ring), [Next]_vars
    PROVE  WellFormed(ring')
<1>1. CASE clear
  BY <1>1, EmptyRing DEF clear
<1>2. ASSUME NEW id \in Ids, test_and_insert(id)
      PROVE  WellFormed(ring')
  <2>1. CASE Holds(ring, id)
    BY <1>2, <2>1 DEF test_and_insert, Inserted
  <2>2. CASE ~ Holds(ring, id)
    BY <1>2, <2>2, NewIdKeepsForm DEF test_and_insert
  <2> QED
    BY <2>1, <2>2
<1>3. CASE UNCHANGED vars
  BY <1>3 DEF vars
<1> QED
  BY <1>1, <1>2, <1>3 DEF Next

(* The ring is always well formed.                                         *)
THEOREM RingInvariance ==
    ASSUME RingConstants
    PROVE  Spec => []WellFormed(ring)
<1>1. Init => WellFormed(ring)
  BY EmptyRing DEF Init
<1>2. WellFormed(ring) /\ [Next]_vars => WellFormed(ring)'
  BY FormStep
<1> QED
  BY <1>1, <1>2, PTL DEF Spec

(***************************************************************************)
(* The window.                                                             *)
(***************************************************************************)
\* The window as a function: how many ids it holds, and the slot of each.
Held(r) == IF r.ids[r.write_idx] = Zero THEN r.write_idx ELSE Capacity
SlotOf(r, i) ==
    IF r.ids[r.write_idx] = Zero THEN i - 1
    ELSE IF r.write_idx + i - 1 < Capacity THEN r.write_idx + i - 1
    ELSE r.write_idx + i - 1 - Capacity

(* The window lists the ids of those slots, and they are ids.              *)
LEMMA WindowSlots ==
    ASSUME RingConstants, NEW r, WellFormed(r)
    PROVE  /\ Held(r) \in 0 .. Capacity
           /\ \A i \in 1 .. Held(r) : SlotOf(r, i) \in Slots /\ r.ids[SlotOf(r, i)] \in Ids
           /\ WindowOf(r) = [i \in 1 .. Held(r) |-> r.ids[SlotOf(r, i)]]
<1> DEFINE w == r.write_idx
<1>1. w \in Slots /\ r.ids \in [Slots -> Ids \cup {Zero}]
  BY DEF WellFormed, Rings
<1>2. CASE r.ids[w] = Zero
  <2>1. \A t \in Slots : (r.ids[t] = Zero) <=> (w <= t)
    BY <1>1, <1>2 DEF WellFormed
  <2>2. Held(r) = w /\ \A i : SlotOf(r, i) = i - 1
    BY <1>2 DEF Held, SlotOf
  <2>3. \A i \in 1 .. w : i - 1 \in Slots /\ i - 1 < w
    BY <1>1, SlotRange
  <2>4. \A i \in 1 .. w : r.ids[i - 1] \in Ids
    <3> TAKE i \in 1 .. w
    <3>1. i - 1 \in Slots /\ ~ (w <= i - 1)
      BY <1>1, <2>3, SlotRange
    <3> QED
      BY <1>1, <2>1, <3>1
  <2>5. WindowOf(r) = [i \in 1 .. w |-> r.ids[i - 1]]
    BY <1>2 DEF WindowOf
  <2> QED
    BY <1>1, <2>2, <2>3, <2>4, <2>5, SlotRange
<1>3. CASE r.ids[w] # Zero
  <2>1. \A t \in Slots : r.ids[t] # Zero
    <3> TAKE t \in Slots
    <3>1. r.ids[t] = Zero /\ w <= w => r.ids[w] = Zero
      BY <1>1 DEF WellFormed
    <3> QED
      BY <1>1, <1>3, <3>1, SlotRange
  <2>2. Held(r) = Capacity
    BY <1>3 DEF Held
  <2>3. \A i \in 1 .. Capacity :
          /\ w + i - 1 < Capacity => SlotOf(r, i) = w + i - 1
          /\ ~ (w + i - 1 < Capacity) => SlotOf(r, i) = w + i - 1 - Capacity
    BY <1>3 DEF SlotOf
  <2>4. \A i \in 1 .. Capacity : SlotOf(r, i) \in Slots
    BY <1>1, <2>3, SlotRange
  <2>5. \A i \in 1 .. Capacity : (w + i - 1) % Capacity = SlotOf(r, i)
    <3> TAKE i \in 1 .. Capacity
    <3> DEFINE x == w + i - 1
    <3>1. x \in Nat /\ x < 2 * Capacity
      BY <1>1, SlotRange
    <3>2. /\ x < Capacity => SlotOf(r, i) = x
          /\ ~ (x < Capacity) => SlotOf(r, i) = x - Capacity
      BY <1>1, <2>3, SlotRange
    <3> HIDE DEF x
    <3>3. x % Capacity = SlotOf(r, i)
      <4>1. CASE x < Capacity
        BY <3>1, <3>2, <4>1, ModBelow, SlotRange
      <4>2. CASE ~ (x < Capacity)
        BY <3>1, <3>2, <4>2, ModAbove, SlotRange
      <4> QED
        BY <4>1, <4>2
    <3> QED
      BY <3>3 DEF x
  <2>6. WindowOf(r) = [i \in 1 .. Capacity |-> r.ids[SlotOf(r, i)]]
    BY <1>3, <2>5 DEF WindowOf
  <2> QED
    BY <1>1, <2>1, <2>2, <2>4, <2>6, SlotRange
<1> QED
  BY <1>2, <1>3

(* An id is in the window exactly if the ring holds it.                    *)
LEMMA HeldIsInWindow ==
    ASSUME RingConstants, NEW r, WellFormed(r), NEW id \in Ids
    PROVE  Holds(r, id) <=> id \in Window!ToSet(WindowOf(r))
<1> DEFINE w == r.write_idx
<1>1. w \in Slots /\ r.ids \in [Slots -> Ids \cup {Zero}] /\ id # Zero
  BY DEF WellFormed, Rings, RingConstants
<1>2. Window!ToSet(WindowOf(r)) = {r.ids[SlotOf(r, i)] : i \in 1 .. Held(r)}
  BY WindowSlots DEF Window!ToSet
<1>3. ASSUME NEW s \in Slots, r.ids[s] = id
      PROVE  \E i \in 1 .. Held(r) : SlotOf(r, i) = s
  <2>1. CASE r.ids[w] = Zero
    <3>1. ~ (w <= s)
      BY <1>1, <1>3, <2>1 DEF WellFormed
    <3>2. s + 1 \in 1 .. w
      BY <1>1, <3>1, SlotRange
    <3>3. SlotOf(r, s + 1) = s
      <4>1. (s + 1) - 1 = s
        BY SlotRange
      <4> QED
        BY <2>1, <4>1 DEF SlotOf
    <3> QED
      BY <2>1, <3>2, <3>3 DEF Held
  <2>2. CASE r.ids[w] # Zero
    <3>1. \A i :
            /\ w + i - 1 < Capacity => SlotOf(r, i) = w + i - 1
            /\ ~ (w + i - 1 < Capacity) => SlotOf(r, i) = w + i - 1 - Capacity
      BY <2>2 DEF SlotOf
    <3>2. CASE w <= s
      <4> DEFINE i == s - w + 1
      <4>1. i \in 1 .. Capacity /\ w + i - 1 = s
        BY <1>1, <3>2, SlotRange
      <4>2. s < Capacity
        BY SlotRange
      <4> HIDE DEF i
      <4>3. SlotOf(r, i) = s
        BY <3>1, <4>1, <4>2
      <4> QED
        BY <2>2, <4>1, <4>3 DEF Held
    <3>3. CASE ~ (w <= s)
      <4> DEFINE i == s - w + 1 + Capacity
      <4>1. i \in 1 .. Capacity /\ w + i - 1 = s + Capacity
        BY <1>1, <3>3, SlotRange
      <4>2. ~ (w + i - 1 < Capacity) /\ w + i - 1 - Capacity = s
        BY <1>1, <3>3, SlotRange
      <4>3. SlotOf(r, i) = s
        <5> HIDE DEF i, w
        <5> QED
          BY <3>1, <4>2
      <4> QED
        BY <2>2, <4>1, <4>3 DEF Held
    <3> QED
      BY <3>2, <3>3
  <2> QED
    BY <2>1, <2>2
<1> QED
  BY <1>2, <1>3, WindowSlots DEF Holds

(* The ids of the slots after a new one, when the ring had not wrapped.    *)
LEMMA SlotsWhileFilling ==
    ASSUME RingConstants, NEW r, WellFormed(r), NEW id \in Ids, ~ Holds(r, id),
           NEW q, q = Inserted(r, id), r.ids[r.write_idx] = Zero
    PROVE  /\ Held(r) = r.write_idx /\ Held(q) = r.write_idx + 1
           /\ \A i \in 1 .. r.write_idx : SlotOf(r, i) = i - 1
           /\ \A i \in 1 .. r.write_idx + 1 : SlotOf(q, i) = i - 1
<1> DEFINE w == r.write_idx
<1>1. r \in Rings(Ids) /\ r.ids \in [Slots -> Ids \cup {Zero}]
  BY DEF WellFormed, Rings
<1>2. /\ w \in Slots /\ q.write_idx \in Slots
      /\ q.ids[w] = id /\ \A s \in Slots : s # w => q.ids[s] = r.ids[s]
      /\ q.write_idx = IF w + 1 = Capacity THEN 0 ELSE w + 1
  BY <1>1, NewIdStored
<1>3. id # Zero
  BY DEF RingConstants
<1>4. \A t \in Slots : (r.ids[t] = Zero) <=> (w <= t)
  BY <1>2 DEF WellFormed
<1>5. CASE w + 1 = Capacity
  <2>1. q.write_idx = 0 /\ q.ids[0] # Zero
    BY <1>2, <1>3, <1>4, <1>5, SlotRange
  <2>2. Held(q) = w + 1
    BY <1>5, <2>1 DEF Held
  <2>3. \A i \in 1 .. w + 1 : 0 + i - 1 < Capacity /\ 0 + i - 1 = i - 1
    BY <1>2, <1>5, SlotRange
  <2>4. \A i \in 1 .. w + 1 : SlotOf(q, i) = i - 1
    BY <2>1, <2>3 DEF SlotOf
  <2> QED
    BY <2>2, <2>4 DEF Held, SlotOf
<1>6. CASE w + 1 # Capacity
  <2>1. q.write_idx = w + 1 /\ q.ids[w + 1] = Zero
    BY <1>2, <1>4, <1>6, SlotRange
  <2> QED
    BY <2>1 DEF Held, SlotOf
<1> QED
  BY <1>5, <1>6

(* The same when it had: every id moves up by one place.                   *)
LEMMA SlotsOnceFull ==
    ASSUME RingConstants, NEW r, WellFormed(r), NEW id \in Ids, ~ Holds(r, id),
           NEW q, q = Inserted(r, id), r.ids[r.write_idx] # Zero
    PROVE  /\ Held(r) = Capacity /\ Held(q) = Capacity
           /\ SlotOf(q, Capacity) = r.write_idx
           /\ \A i \in 1 .. Capacity - 1 :
                SlotOf(q, i) = SlotOf(r, i + 1) /\ SlotOf(q, i) # r.write_idx
<1> DEFINE w == r.write_idx
           v == q.write_idx
<1>1. r \in Rings(Ids) /\ r.ids \in [Slots -> Ids \cup {Zero}]
  BY DEF WellFormed, Rings
<1>2. /\ w \in Slots /\ v \in Slots
      /\ q.ids[w] = id /\ \A s \in Slots : s # w => q.ids[s] = r.ids[s]
      /\ v = IF w + 1 = Capacity THEN 0 ELSE w + 1
  BY <1>1, NewIdStored
<1>3. id # Zero
  BY DEF RingConstants
<1>4. \A t \in Slots : r.ids[t] # Zero
  <2> TAKE t \in Slots
  <2>1. r.ids[t] = Zero /\ w <= w => r.ids[w] = Zero
    BY <1>2 DEF WellFormed
  <2> QED
    BY <1>2, <2>1, SlotRange
<1>5. q.ids[v] # Zero
  BY <1>2, <1>3, <1>4
<1>6. \A i : /\ w + i - 1 < Capacity => SlotOf(r, i) = w + i - 1
             /\ ~ (w + i - 1 < Capacity) => SlotOf(r, i) = w + i - 1 - Capacity
  BY DEF SlotOf
<1>7. \A i : /\ v + i - 1 < Capacity => SlotOf(q, i) = v + i - 1
             /\ ~ (v + i - 1 < Capacity) => SlotOf(q, i) = v + i - 1 - Capacity
  BY <1>5 DEF SlotOf
<1>8. w \in Nat /\ w < Capacity /\ v \in Nat /\ v < Capacity
      /\ Capacity \in Nat /\ Capacity > 0
  BY <1>2, SlotRange
<1>9. (w + 1 = Capacity /\ v = 0) \/ (w + 1 < Capacity /\ v = w + 1)
  <2>1. CASE w + 1 = Capacity
    BY <1>2, <2>1
  <2>2. CASE w + 1 # Capacity
    <3>1. v = w + 1
      BY <1>2, <2>2
    <3>2. w + 1 < Capacity
      BY <1>8, <2>2
    <3> QED
      BY <3>1, <3>2
  <2> QED
    BY <2>1, <2>2
<1> HIDE DEF w, v
<1>10. SlotOf(q, Capacity) = w
  <2>1. CASE w + 1 = Capacity /\ v = 0
    <3>1. v + Capacity - 1 < Capacity /\ v + Capacity - 1 = w
      BY <1>8, <2>1
    <3> QED
      BY <1>7, <3>1
  <2>2. CASE w + 1 < Capacity /\ v = w + 1
    <3>1. ~ (v + Capacity - 1 < Capacity) /\ v + Capacity - 1 - Capacity = w
      BY <1>8, <2>2
    <3> QED
      BY <1>7, <3>1
  <2> QED
    BY <1>9, <2>1, <2>2
<1>11. ASSUME NEW i \in 1 .. Capacity - 1
       PROVE  SlotOf(q, i) = SlotOf(r, i + 1) /\ SlotOf(q, i) # w
  <2>1. CASE w + 1 = Capacity /\ v = 0
    <3>1. /\ v + i - 1 < Capacity /\ v + i - 1 # w
          /\ ~ (w + (i + 1) - 1 < Capacity)
          /\ w + (i + 1) - 1 - Capacity = v + i - 1
      BY <1>8, <2>1
    <3>2. SlotOf(q, i) = v + i - 1
      BY <1>7, <3>1
    <3>3. SlotOf(r, i + 1) = v + i - 1
      BY <1>6, <3>1
    <3> QED
      BY <3>1, <3>2, <3>3
  <2>2. CASE w + 1 < Capacity /\ v = w + 1
    <3>1. w + (i + 1) - 1 = v + i - 1 /\ v + i - 1 # w /\ v + i - 1 - Capacity # w
      BY <1>8, <2>2
    <3>2. CASE v + i - 1 < Capacity
      <4>1. SlotOf(q, i) = v + i - 1
        BY <1>7, <3>2
      <4>2. SlotOf(r, i + 1) = v + i - 1
        BY <1>6, <3>1, <3>2
      <4> QED
        BY <3>1, <4>1, <4>2
    <3>3. CASE ~ (v + i - 1 < Capacity)
      <4>1. SlotOf(q, i) = v + i - 1 - Capacity
        BY <1>7, <3>3
      <4> DEFINE j == i + 1
      <4>2. ~ (w + j - 1 < Capacity) /\ w + j - 1 - Capacity = v + i - 1 - Capacity
        BY <1>8, <3>1, <3>3
      <4>3. SlotOf(r, j) = v + i - 1 - Capacity
        <5> HIDE DEF j
        <5> QED
          BY <1>6, <4>2
      <4> QED
        BY <3>1, <4>1, <4>3
    <3> QED
      BY <3>2, <3>3
  <2> QED
    BY <1>9, <2>1, <2>2
<1>12. Held(r) = Capacity /\ Held(q) = Capacity
  BY <1>5 DEF Held, w, v
<1>13. \A i \in 1 .. Capacity - 1 : SlotOf(q, i) = SlotOf(r, i + 1) /\ SlotOf(q, i) # w
  BY <1>11
<1> QED
  BY <1>10, <1>12, <1>13 DEF w

(* A new id joins the window as its newest; the oldest of a full window    *)
(* leaves.                                                                 *)
LEMMA NewIdSlides ==
    ASSUME RingConstants, NEW r, WellFormed(r), NEW id \in Ids, ~ Holds(r, id),
           NEW q, q = Inserted(r, id)
    PROVE  WindowOf(q) = IF Len(WindowOf(r)) < Capacity
                         THEN Append(WindowOf(r), id)
                         ELSE Append(Tail(WindowOf(r)), id)
<1> DEFINE w == r.write_idx
           old == WindowOf(r)
           new == WindowOf(q)
<1>1. r \in Rings(Ids) /\ WellFormed(q)
  BY NewIdKeepsForm DEF WellFormed
<1>2. /\ w \in Slots /\ q.ids[w] = id
      /\ \A s \in Slots : s # w => q.ids[s] = r.ids[s]
  BY <1>1, NewIdStored
<1>3. /\ Held(r) \in 0 .. Capacity
      /\ \A i \in 1 .. Held(r) : SlotOf(r, i) \in Slots /\ r.ids[SlotOf(r, i)] \in Ids
      /\ old = [i \in 1 .. Held(r) |-> r.ids[SlotOf(r, i)]]
  BY WindowSlots
<1>4. /\ Held(q) \in 0 .. Capacity
      /\ \A i \in 1 .. Held(q) : SlotOf(q, i) \in Slots /\ q.ids[SlotOf(q, i)] \in Ids
      /\ new = [i \in 1 .. Held(q) |-> q.ids[SlotOf(q, i)]]
  BY <1>1, WindowSlots
<1>5. Held(r) \in Nat /\ Held(q) \in Nat
  BY <1>3, <1>4, SlotRange
<1>6. old \in Seq(Ids) /\ Len(old) = Held(r)
  BY <1>3, <1>5
<1>7. new \in Seq(Ids) /\ Len(new) = Held(q)
  BY <1>4, <1>5
<1>8. \A i \in 1 .. Held(r) : old[i] = r.ids[SlotOf(r, i)]
  BY <1>3
<1>9. \A i \in 1 .. Held(q) : new[i] = q.ids[SlotOf(q, i)]
  BY <1>4
<1>10. CASE r.ids[w] = Zero
  <2>1. /\ Held(r) = w /\ Held(q) = w + 1
        /\ \A i \in 1 .. w : SlotOf(r, i) = i - 1
        /\ \A i \in 1 .. w + 1 : SlotOf(q, i) = i - 1
    BY <1>10, SlotsWhileFilling
  <2>2. Len(old) < Capacity
    BY <1>2, <1>6, <2>1, SlotRange
  <2> HIDE DEF old, new
  <2>3. Append(old, id) \in Seq(Ids) /\ Len(Append(old, id)) = w + 1
    BY <1>6, <2>1
  <2>4. ASSUME NEW i \in 1 .. w + 1
        PROVE  new[i] = Append(old, id)[i]
    <3>1. CASE i = w + 1
      <4>1. Append(old, id)[i] = id
        BY <1>6, <2>1, <3>1, AppendProperties
      <4>2. i - 1 = w
        BY <1>2, <3>1, SlotRange
      <4> QED
        BY <1>2, <1>9, <2>1, <2>4, <4>1, <4>2
    <3>2. CASE i # w + 1
      <4>1. i \in 1 .. w /\ i - 1 \in Slots /\ i - 1 # w
        BY <1>2, <2>4, <3>2, SlotRange
      <4>2. Append(old, id)[i] = old[i]
        BY <1>6, <2>1, <4>1
      <4>3. new[i] = q.ids[i - 1] /\ old[i] = r.ids[i - 1]
        BY <1>8, <1>9, <2>1, <2>4, <4>1
      <4> QED
        BY <1>2, <4>1, <4>2, <4>3
    <3> QED
      BY <3>1, <3>2
  <2>5. new = Append(old, id)
    BY <1>7, <2>1, <2>3, <2>4, SeqEqual
  <2> QED
    BY <2>2, <2>5 DEF old, new
<1>11. CASE r.ids[w] # Zero
  <2>1. /\ Held(r) = Capacity /\ Held(q) = Capacity
        /\ SlotOf(q, Capacity) = w
        /\ \A i \in 1 .. Capacity - 1 :
             SlotOf(q, i) = SlotOf(r, i + 1) /\ SlotOf(q, i) # w
    BY <1>11, SlotsOnceFull
  <2>2. ~ (Len(old) < Capacity) /\ old # <<>>
    BY <1>6, <2>1, SlotRange
  <2> HIDE DEF old, new
  <2>3. Tail(old) \in Seq(Ids) /\ Len(Tail(old)) = Capacity - 1
    BY <1>6, <2>1, <2>2
  <2>4. Append(Tail(old), id) \in Seq(Ids) /\ Len(Append(Tail(old), id)) = Capacity
    BY <2>3, SlotRange
  <2>5. ASSUME NEW i \in 1 .. Capacity
        PROVE  new[i] = Append(Tail(old), id)[i]
    <3>1. CASE i = Capacity
      <4>1. Append(Tail(old), id)[i] = id
        BY <2>3, <3>1, SlotRange
      <4> QED
        BY <1>2, <1>9, <2>1, <2>5, <3>1, <4>1
    <3>2. CASE i # Capacity
      <4>1. i \in 1 .. Capacity - 1 /\ i + 1 \in 1 .. Capacity
        BY <2>5, <3>2, SlotRange
      <4>2. Append(Tail(old), id)[i] = old[i + 1]
        BY <1>6, <2>1, <2>2, <2>3, <4>1, SlotRange
      <4>3. new[i] = q.ids[SlotOf(r, i + 1)] /\ old[i + 1] = r.ids[SlotOf(r, i + 1)]
        BY <1>8, <1>9, <2>1, <2>5, <4>1
      <4>4. SlotOf(r, i + 1) \in Slots /\ SlotOf(r, i + 1) # w
        BY <1>3, <2>1, <4>1
      <4> QED
        BY <1>2, <4>2, <4>3, <4>4
    <3> QED
      BY <3>1, <3>2
  <2>6. new = Append(Tail(old), id)
    BY <1>7, <2>1, <2>4, <2>5, SeqEqual
  <2> QED
    BY <2>2, <2>6 DEF old, new
<1> QED
  BY <1>10, <1>11

(* The empty ring is an empty window.                                      *)
LEMMA EmptyWindow ==
    ASSUME RingConstants
    PROVE  WindowOf(Empty) = <<>>
<1>1. Empty.write_idx = 0 /\ Empty.ids[0] = Zero
  BY SlotRange DEF Empty
<1>2. WindowOf(Empty) = [i \in 1 .. 0 |-> Empty.ids[i - 1]]
  BY <1>1 DEF WindowOf
<1> QED
  BY <1>2

(* Every call on the ring is a call on the window with the same answer.    *)
LEMMA StepImplements ==
    ASSUME RingConstants, WellFormed(ring), [Next]_vars
    PROVE  [Window!Next]_(Window!vars)
<1>1. CASE clear
  BY <1>1, EmptyWindow
  DEF clear, Remembered, NoCall, Window!Next, Window!Forget, Window!NoCall
<1>2. ASSUME NEW id \in Ids, test_and_insert(id)
      PROVE  Window!Next
  <2>1. Holds(ring, id) <=> id \in Window!ToSet(Remembered)
    BY HeldIsInWindow DEF Remembered
  <2>2. CASE Holds(ring, id)
    <3>1. Window!Repeat(id)
      BY <1>2, <2>1, <2>2 DEF test_and_insert, Inserted, Remembered, Window!Repeat
    <3> QED
      BY <3>1 DEF Window!Next
  <2>3. CASE ~ Holds(ring, id)
    <3>1. Remembered' = IF Len(Remembered) < Capacity
                        THEN Append(Remembered, id)
                        ELSE Append(Tail(Remembered), id)
      BY <1>2, <2>3, NewIdSlides DEF test_and_insert, Remembered
    <3>2. Holds(ring, id) = FALSE
      BY <2>3 DEF Holds
    <3>3. verdict' = [id |-> id, seen |-> FALSE]
      BY <1>2, <3>2 DEF test_and_insert
    <3>4. Window!New(id)
      BY <2>1, <2>3, <3>1, <3>3 DEF Window!New
    <3> QED
      BY <3>4 DEF Window!Next
  <2> QED
    BY <2>2, <2>3
<1>3. CASE UNCHANGED vars
  BY <1>3 DEF vars, Remembered, Window!vars
<1> QED
  BY <1>1, <1>2, <1>3 DEF Next

(* For every capacity and every set of ids the ring of IdRingBuffer.hpp    *)
(* implements the sliding window over the last Capacity new ids, wrap of   *)
(* write_idx included.                                                     *)
THEOREM RingImplementsWindow ==
    ASSUME RingConstants
    PROVE  Spec => ImplementsWindow
<1>1. Init => Window!Init
  BY EmptyWindow DEF Init, Remembered, NoCall, Window!Init, Window!NoCall
<1>2. WellFormed(ring) /\ [Next]_vars => [Window!Next]_(Window!vars)
  BY StepImplements
<1> QED
  BY <1>1, <1>2, RingInvariance, PTL DEF Spec, ImplementsWindow, Window!Spec

(* For every capacity the ring keeps its type and holds no id twice.       *)
THEOREM RingCorrect ==
    ASSUME RingConstants
    PROVE  Spec => [](TypeOK /\ NoDoubleSlot)
<1>1. WellFormed(ring) => TypeOK /\ NoDoubleSlot
  BY DEF WellFormed, TypeOK, NoDoubleSlot
<1> QED
  BY <1>1, RingInvariance, PTL
=============================================================================
