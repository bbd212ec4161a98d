-------------------------- MODULE ReceivePath_proofs ------------------------
(***************************************************************************)
(* For any number of threads, stacks and types: a cycle's packets never    *)
(* leave its stack, a binding outlives everything but the destruction of a *)
(* stack of another type, no cycle leaves drain_rx early, and frames are   *)
(* handled once, in order and by the function their type calls for.        *)
(*                                                                         *)
(* The first two rest on one invariant, BindInv: instance() of a thread    *)
(* that is bound points, at the type of the stack it bound, to that stack. *)
(* DrainsAll needs DrainInv on top of it: a stack has one cycle at a time, *)
(* so that no other thread's loop touches its ring and its parser.         *)
(* InOrder needs OrderInv on top of both.  TypeOK needs that TotalBytes,    *)
(* a fold, is the number of bytes of the frames it runs over.              *)
(***************************************************************************)
EXTENDS MCReceivePath, TLAPS, SequenceTheorems, FiniteSetTheorems, WellFoundedInduction,
        NaturalsInduction

Stages == {"idle", "drain", "parse", "rest"}

BindTypes ==
    /\ on_packet \in [Threads -> Types \cup {NoType}]
    /\ instance \in [Types -> [Threads -> Stacks \cup {NoStack}]]
    /\ bound \in [Threads -> Stacks \cup {NoStack}]
    /\ running \in [Threads -> Stacks \cup {NoStack}]
    /\ stage \in [Threads -> Stages]
    /\ disturbed \subseteq Threads

\* A thread in a cycle runs the stack it is bound to.
CycleBound ==
    \A t \in Threads :
        /\ running[t] \in {NoStack, bound[t]}
        /\ (stage[t] = "idle") <=> (running[t] = NoStack)

\* A bound thread: its stack's type has it as instance(), and on_packet() is of
\* that type unless a destructor of another type has cleared it.
ThreadBound(t) ==
    bound[t] # NoStack =>
        /\ instance[TypeOf[bound[t]]][t] = bound[t]
        /\ on_packet[t] \in {TypeOf[bound[t]], NoType}
        /\ t \notin disturbed => on_packet[t] = TypeOf[bound[t]]

BindInv == BindTypes /\ CycleBound /\ \A t \in Threads : ThreadBound(t)

-----------------------------------------------------------------------------
(* Steps that bind.                                                        *)
LEMMA BindKeeps ==
    ASSUME BindInv, NEW t \in Threads, NEW s \in Stacks,
           Idle(t), Bind(t, s), UNCHANGED <<running, stage>>
    PROVE  BindInv'
<1> USE ThreadsAssumption
<1> TypeOf[s] \in Types /\ s # NoStack
  OBVIOUS
<1>1. BindTypes'
  BY DEF BindInv, BindTypes, Bind
<1>2. CycleBound'
  BY DEF BindInv, BindTypes, CycleBound, Bind, Idle
<1>3. ASSUME NEW u \in Threads PROVE ThreadBound(u)'
  <2>1. CASE u = t
    BY <2>1 DEF BindInv, BindTypes, Bind, ThreadBound
  <2>2. CASE u # t
    <3>1. /\ bound'[u] = bound[u] /\ on_packet'[u] = on_packet[u]
          /\ u \in disturbed' <=> u \in disturbed
      BY <2>2 DEF BindInv, BindTypes, Bind
    <3>2. \A type \in Types : instance'[type][u] = instance[type][u]
      BY <2>2 DEF BindInv, BindTypes, Bind
    <3>3. bound[u] # NoStack => TypeOf[bound[u]] \in Types
      BY DEF BindInv, BindTypes
    <3>4. ThreadBound(u)
      BY DEF BindInv
    <3> QED
      BY <3>1, <3>2, <3>3, <3>4 DEF ThreadBound
  <2> QED
    BY <2>1, <2>2
<1> QED
  BY <1>1, <1>2, <1>3 DEF BindInv

(* The destructor.  One of the bound stack's own type that is not the      *)
(* bound stack finds instance() taken and clears nothing.                  *)
LEMMA DestroyKeeps ==
    ASSUME BindInv, NEW t \in Threads, NEW s \in Stacks, Destroy(t, s)
    PROVE  BindInv'
<1> USE ThreadsAssumption
<1>0. TypeOf[s] \in Types /\ s # NoStack /\ UNCHANGED <<running, stage>>
  BY DEF Destroy
<1>1. BindTypes'
  <2>1. bound' \in [Threads -> Stacks \cup {NoStack}] /\ disturbed' \subseteq Threads
    BY DEF BindInv, BindTypes, Destroy
  <2>2. /\ on_packet' \in [Threads -> Types \cup {NoType}]
        /\ instance' \in [Types -> [Threads -> Stacks \cup {NoStack}]]
    <3>1. CASE ClearsBinding(t, s)
      <4>1. /\ instance' = [instance EXCEPT ![TypeOf[s]][t] = NoStack]
            /\ on_packet' = [on_packet EXCEPT ![t] = NoType]
        BY <3>1 DEF Destroy
      <4> QED
        BY <1>0, <4>1 DEF BindInv, BindTypes
    <3>2. CASE ~ ClearsBinding(t, s)
      BY <3>2 DEF BindInv, BindTypes, Destroy
    <3> QED
      BY <3>1, <3>2
  <2> QED
    BY <1>0, <2>1, <2>2 DEF BindInv, BindTypes
<1>2. CycleBound'
  BY <1>0 DEF BindInv, BindTypes, CycleBound, Destroy
<1>3. ASSUME NEW u \in Threads PROVE ThreadBound(u)'
  <2>1. CASE bound[u] = s \/ bound[u] = NoStack
    BY <2>1 DEF BindInv, BindTypes, Destroy, ThreadBound
  <2>2. CASE bound[u] # s /\ bound[u] # NoStack
    <3>1. /\ bound'[u] = bound[u] /\ TypeOf[bound[u]] \in Types
          /\ disturbed \subseteq disturbed'
      BY <2>2 DEF BindInv, BindTypes, Destroy
    <3>2. ThreadBound(u)
      BY DEF BindInv
    <3>3. CASE u # t \/ ~ ClearsBinding(t, s)
      <4>1. on_packet'[u] = on_packet[u]
        BY <3>3 DEF BindInv, BindTypes, Destroy
      <4>2. \/ instance' = [instance EXCEPT ![TypeOf[s]][t] = NoStack] /\ u # t
            \/ instance' = instance
        BY <3>3 DEF Destroy
      <4>3. instance'[TypeOf[bound[u]]][u] = instance[TypeOf[bound[u]]][u]
        BY <1>0, <3>1, <4>2 DEF BindInv, BindTypes
      <4> QED
        BY <3>1, <3>2, <4>1, <4>3 DEF ThreadBound
    <3>4. CASE u = t /\ ClearsBinding(t, s)
      <4>1. TypeOf[bound[u]] # TypeOf[s]
        BY <2>2, <3>2, <3>4 DEF ThreadBound, ClearsBinding
      <4>2. u \in disturbed'
        BY <2>2, <3>4, <4>1 DEF Destroy
      <4>3. instance'[TypeOf[bound[u]]][u] = instance[TypeOf[bound[u]]][u]
        BY <1>0, <3>1, <3>4, <4>1 DEF BindInv, BindTypes, Destroy
      <4>4. on_packet'[u] = NoType
        BY <3>4 DEF BindInv, BindTypes, Destroy
      <4> QED
        BY <3>1, <3>2, <4>2, <4>3, <4>4 DEF ThreadBound
    <3> QED
      BY <3>3, <3>4
  <2> QED
    BY <2>1, <2>2
<1> QED
  BY <1>1, <1>2, <1>3 DEF BindInv

(* Steps that leave every binding alone and move a thread at most within   *)
(* its cycle, into it or out of it.                                        *)
LEMMA CycleKeeps ==
    ASSUME BindInv, UNCHANGED binding,
           running' \in [Threads -> Stacks \cup {NoStack}],
           stage' \in [Threads -> Stages],
           CycleBound'
    PROVE  BindInv'
  BY DEF BindInv, BindTypes, ThreadBound, binding

(* Nothing is bound at first.                                              *)
LEMMA BindInit == Init => BindInv
  BY DEF Init, BindInv, BindTypes, CycleBound, ThreadBound, Stages

(* Every action preserves the invariant of the binding.                    *)
LEMMA BindStep == BindInv /\ [Next]_vars => BindInv'
<1> SUFFICES ASSUME BindInv, [Next]_vars PROVE BindInv'
  OBVIOUS
<1> USE ThreadsAssumption
<1>1. ASSUME NEW t \in Threads, NEW s \in Stacks, ProtocolStack(t, s)
      PROVE  BindInv'
  BY <1>1, BindKeeps DEF ProtocolStack
<1>2. ASSUME NEW t \in Threads, NEW s \in Stacks, bind_to_current_thread(t, s)
      PROVE  BindInv'
  BY <1>2, BindKeeps DEF bind_to_current_thread
<1>3. ASSUME NEW t \in Threads, NEW s \in Stacks, Destroy(t, s)
      PROVE  BindInv'
  BY <1>3, DestroyKeeps
<1>4. ASSUME NEW t \in Threads, NEW s \in Stacks, StartCycle(t, s)
      PROVE  BindInv'
  BY <1>4, CycleKeeps DEF StartCycle, BindInv, BindTypes, CycleBound, Stages, binding
<1>5. ASSUME NEW s \in Stacks, NEW cmd \in Frames, isr_feed(s, cmd)
      PROVE  BindInv'
  BY <1>5, CycleKeeps DEF isr_feed, BindInv, BindTypes, CycleBound, binding
<1>6. ASSUME NEW t \in Threads, run_one_cycle(t)
      PROVE  BindInv'
  <2>1. CASE ReadChunk(t)
    BY <2>1, CycleKeeps DEF ReadChunk, BindInv, BindTypes, CycleBound, Stages, binding
  <2>2. CASE Dispatch(t)
    BY <2>2, CycleKeeps DEF Dispatch, BindInv, BindTypes, CycleBound, binding
  <2>3. CASE Parsed(t)
    BY <2>3, CycleKeeps DEF Parsed, BindInv, BindTypes, CycleBound, Stages, binding
  <2>4. CASE RingEmpty(t)
    BY <2>4, CycleKeeps DEF RingEmpty, BindInv, BindTypes, CycleBound, Stages, binding
  <2>5. CASE EndCycle(t)
    BY <2>5, CycleKeeps DEF EndCycle, BindInv, BindTypes, CycleBound, Stages, binding
  <2> QED
    BY <1>6, <2>1, <2>2, <2>3, <2>4, <2>5 DEF run_one_cycle
<1>7. CASE UNCHANGED vars
  BY <1>7, CycleKeeps DEF vars, binding, BindInv, BindTypes, CycleBound
<1> QED
  BY <1>1, <1>2, <1>3, <1>4, <1>5, <1>6, <1>7 DEF Next

(* The invariant of the binding, in every program that keeps the           *)
(* discipline (ProtocolStack.hpp:46-86).                                   *)
THEOREM BindingInvariance == Spec => []BindInv
  BY BindInit, BindStep, PTL DEF Spec

(* A cycle's packets go to its own stack or to nobody                      *)
(* (ProtocolDispatch.hpp:14-18, ProtocolStack.hpp:539-543).                *)
THEOREM PacketsStayHome == Spec => []OwnPacketsOnly
<1>1. BindInv => OwnPacketsOnly
  BY ThreadsAssumption
     DEF BindInv, BindTypes, CycleBound, ThreadBound, OwnPacketsOnly, Target
<1> QED
  BY <1>1, BindingInvariance, PTL

(* Only the destruction of a stack of another type can take a thread's     *)
(* packets away from the stack it bound last (ProtocolStack.hpp:59-66).    *)
THEOREM BindingPersists == Spec => []BindingHolds
<1>1. BindInv => BindingHolds
  BY ThreadsAssumption
     DEF BindInv, BindTypes, ThreadBound, BindingHolds, Target
<1> QED
  BY <1>1, BindingInvariance, PTL
-----------------------------------------------------------------------------
(* Every stack has one cycle at a time.                                    *)
OneCycle ==
    \A t, u \in Threads :
        running[t] # NoStack /\ running[t] = running[u] => t = u

\* Functions of stacks, whatever their values.
OfStacks(f) == f = [s \in Stacks |-> f[s]]

\* What the loop of drain_rx owes and has done, seen from one thread.
ThreadDrains(t) ==
    running[t] # NoStack =>
        /\ Len(accepted[running[t]]) >= due[t]
        /\ stage[t] # "parse" => m_parser[running[t]] = <<>>
        /\ stage[t] = "rest" =>
             /\ m_rx_ring[running[t]] \in Seq(Frames)
             /\ Len(accepted[running[t]]) - Len(m_rx_ring[running[t]]) >= due[t]

DrainInv ==
    /\ BindInv
    /\ OneCycle
    /\ due \in [Threads -> Nat]
    /\ accepted \in [Stacks -> Seq(Frames)]
    /\ OfStacks(m_rx_ring) /\ OfStacks(m_parser)
    /\ \A s \in Stacks : (\A t \in Threads : running[t] # s) => m_parser[s] = <<>>
    /\ \A t \in Threads : ThreadDrains(t)

(* No cycle runs at first.                                                 *)
LEMMA DrainInit == Init => DrainInv
  BY BindInit DEF Init, DrainInv, OneCycle, OfStacks, ThreadDrains

(* A change to one stack's sequence leaves those of the others alone.      *)
LEMMA ChangedAt ==
    ASSUME NEW f, OfStacks(f), NEW s \in Stacks, NEW v,
           NEW g, g = [f EXCEPT ![s] = v]
    PROVE  OfStacks(g) /\ g[s] = v /\ \A r \in Stacks : r # s => g[r] = f[r]
  BY DEF OfStacks

(* Steps that change neither cycles nor traffic.                           *)
LEMMA DrainQuiet ==
    ASSUME DrainInv, BindInv', UNCHANGED <<traffic, running, stage, due>>
    PROVE  DrainInv'
  BY DEF DrainInv, OneCycle, OfStacks, ThreadDrains, traffic

(* A stack that is destroyed has no cycle, and the others keep theirs.     *)
LEMMA DrainDestroy ==
    ASSUME DrainInv, BindInv', NEW t \in Threads, NEW s \in Stacks, Destroy(t, s)
    PROVE  DrainInv'
<1>0. /\ accepted' = [accepted EXCEPT ![s] = <<>>]
      /\ m_rx_ring' = [m_rx_ring EXCEPT ![s] = <<>>]
      /\ m_parser' = [m_parser EXCEPT ![s] = <<>>]
      /\ UNCHANGED <<running, stage, due>>
      /\ \A u \in Threads : running[u] # s
  BY DEF Destroy
<1>1. /\ accepted' \in [Stacks -> Seq(Frames)]
      /\ OfStacks(m_rx_ring)' /\ OfStacks(m_parser)'
  <2>1. accepted' \in [Stacks -> Seq(Frames)]
    BY <1>0 DEF DrainInv
  <2>2. OfStacks(m_rx_ring') /\ OfStacks(m_parser')
    BY <1>0, ChangedAt DEF DrainInv
  <2> QED
    BY <2>1, <2>2 DEF OfStacks
<1>2. /\ \A r \in Stacks : r # s => /\ accepted'[r] = accepted[r]
                                    /\ m_rx_ring'[r] = m_rx_ring[r]
                                    /\ m_parser'[r] = m_parser[r]
      /\ m_parser'[s] = <<>>
  BY <1>0 DEF DrainInv, OfStacks
<1>3. ASSUME NEW u \in Threads PROVE ThreadDrains(u)'
  <2>1. running[u] # NoStack => running[u] \in Stacks /\ running[u] # s
    BY <1>0 DEF DrainInv, BindInv, BindTypes
  <2>2. ThreadDrains(u)
    BY DEF DrainInv
  <2> QED
    BY <1>0, <1>2, <2>1, <2>2 DEF ThreadDrains
<1>4. OneCycle' /\ due' \in [Threads -> Nat]
  BY <1>0 DEF DrainInv, OneCycle
<1>5. \A r \in Stacks : (\A u \in Threads : running'[u] # r) => m_parser'[r] = <<>>
  BY <1>0, <1>2 DEF DrainInv
<1> QED
  BY <1>1, <1>3, <1>4, <1>5 DEF DrainInv

(* A frame the ring takes counts on both sides.                            *)
LEMMA DrainFeed ==
    ASSUME DrainInv, BindInv', NEW s \in Stacks, NEW cmd \in Frames, isr_feed(s, cmd)
    PROVE  DrainInv'
<1>1. CASE FitsRing(m_rx_ring[s], cmd)
  <2>0. /\ accepted' = [accepted EXCEPT ![s] = Append(accepted[s], cmd)]
        /\ m_rx_ring' = [m_rx_ring EXCEPT ![s] = Append(m_rx_ring[s], cmd)]
        /\ UNCHANGED <<m_parser, running, stage, due>>
    BY <1>1 DEF isr_feed
  <2>1. accepted[s] \in Seq(Frames) /\ Append(accepted[s], cmd) \in Seq(Frames)
    BY DEF DrainInv
  <2>2. Len(Append(accepted[s], cmd)) = Len(accepted[s]) + 1
    BY <2>1
  <2>3. accepted' \in [Stacks -> Seq(Frames)] /\ OfStacks(m_rx_ring)' /\ OfStacks(m_parser)'
    BY <2>0, <2>1 DEF DrainInv, OfStacks
  <2>4. /\ \A r \in Stacks : r # s => /\ accepted'[r] = accepted[r]
                                      /\ m_rx_ring'[r] = m_rx_ring[r]
        /\ accepted'[s] = Append(accepted[s], cmd)
        /\ m_rx_ring'[s] = Append(m_rx_ring[s], cmd)
    BY <2>0 DEF DrainInv, OfStacks
  <2>5. ASSUME NEW u \in Threads PROVE ThreadDrains(u)'
    <3>1. ThreadDrains(u) /\ due[u] \in Nat
      BY DEF DrainInv
    <3>2. CASE running[u] # s
      <4>1. running[u] # NoStack => running[u] \in Stacks
        BY DEF DrainInv, BindInv, BindTypes
      <4> QED
        BY <2>0, <2>4, <3>1, <3>2, <4>1 DEF ThreadDrains
    <3>3. CASE running[u] = s
      <4>1. s # NoStack
        BY ThreadsAssumption
      <4>2. /\ Len(accepted[s]) >= due[u]
            /\ stage[u] # "parse" => m_parser[s] = <<>>
        BY <3>1, <3>3, <4>1 DEF ThreadDrains
      <4>3. Len(accepted[s]) \in Nat
        BY <2>1
      <4>4. Len(accepted'[s]) >= due[u]
        BY <2>2, <2>4, <3>1, <4>2, <4>3
      <4>5. ASSUME stage[u] = "rest"
            PROVE  /\ m_rx_ring'[s] \in Seq(Frames)
                   /\ Len(accepted'[s]) - Len(m_rx_ring'[s]) >= due[u]
        <5>1. /\ m_rx_ring[s] \in Seq(Frames)
              /\ Len(accepted[s]) - Len(m_rx_ring[s]) >= due[u]
          BY <3>1, <3>3, <4>1, <4>5 DEF ThreadDrains
        <5>2. /\ Append(m_rx_ring[s], cmd) \in Seq(Frames)
              /\ Len(Append(m_rx_ring[s], cmd)) = Len(m_rx_ring[s]) + 1
              /\ Len(m_rx_ring[s]) \in Nat
          BY <5>1
        <5> QED
          <6> DEFINE taken == Len(accepted[s])
                     left == Len(m_rx_ring[s])
          <6>1. taken \in Nat /\ left \in Nat /\ due[u] \in Nat /\ taken - left >= due[u]
            BY <3>1, <4>3, <5>1, <5>2
          <6>2. Len(accepted'[s]) = taken + 1 /\ Len(m_rx_ring'[s]) = left + 1
            BY <2>2, <2>4, <5>2
          <6> HIDE DEF taken, left
          <6>3. (taken + 1) - (left + 1) >= due[u]
            BY <6>1
          <6> QED
            BY <2>4, <5>2, <6>2, <6>3
      <4> QED
        BY <2>0, <3>3, <4>2, <4>4, <4>5 DEF ThreadDrains
    <3> QED
      BY <3>2, <3>3
  <2> QED
    BY <2>0, <2>3, <2>5 DEF DrainInv, OneCycle
<1>2. CASE ~ FitsRing(m_rx_ring[s], cmd)
  BY <1>2 DEF isr_feed, DrainInv, OneCycle, OfStacks, ThreadDrains
<1> QED
  BY <1>1, <1>2
(* What thread t does to the stack s whose cycle it runs is nothing to     *)
(* another thread.                                                         *)
LEMMA DrainElsewhere ==
    ASSUME DrainInv, NEW s \in Stacks, NEW u \in Threads, running[u] # s,
           running'[u] = running[u], stage'[u] = stage[u], due'[u] = due[u],
           \A r \in Stacks : r # s => /\ accepted'[r] = accepted[r]
                                      /\ m_rx_ring'[r] = m_rx_ring[r]
                                      /\ m_parser'[r] = m_parser[r]
    PROVE  ThreadDrains(u)'
<1>1. running[u] # NoStack => running[u] \in Stacks
  BY DEF DrainInv, BindInv, BindTypes
<1>2. ThreadDrains(u)
  BY DEF DrainInv
<1> QED
  BY <1>1, <1>2 DEF ThreadDrains

(* The steps of the loop: thread t changes ring, parser and stage of its   *)
(* own stack s.                                                            *)
LEMMA DrainLoop ==
    ASSUME DrainInv, BindInv', NEW t \in Threads, NEW s \in Stacks, running[t] = s,
           UNCHANGED <<accepted, running, due>>,
           NEW ring, NEW parser, NEW place,
           m_rx_ring' = [m_rx_ring EXCEPT ![s] = ring],
           m_parser' = [m_parser EXCEPT ![s] = parser],
           stage' = [stage EXCEPT ![t] = place],
           place # "parse" => parser = <<>>,
           place = "rest" => ring = <<>>
    PROVE  DrainInv'
<1>0. OfStacks(m_rx_ring) /\ OfStacks(m_parser)
  BY DEF DrainInv
<1>1. /\ OfStacks(m_rx_ring') /\ m_rx_ring'[s] = ring
      /\ \A r \in Stacks : r # s => m_rx_ring'[r] = m_rx_ring[r]
  <2>1. OfStacks(m_rx_ring')
    BY <1>0, ChangedAt
  <2>2. m_rx_ring'[s] = ring /\ \A r \in Stacks : r # s => m_rx_ring'[r] = m_rx_ring[r]
    BY <1>0 DEF OfStacks
  <2> QED
    BY <2>1, <2>2
<1>2. /\ OfStacks(m_parser') /\ m_parser'[s] = parser
      /\ \A r \in Stacks : r # s => m_parser'[r] = m_parser[r]
  <2>1. OfStacks(m_parser')
    BY <1>0, ChangedAt
  <2>2. m_parser'[s] = parser /\ \A r \in Stacks : r # s => m_parser'[r] = m_parser[r]
    BY <1>0 DEF OfStacks
  <2> QED
    BY <2>1, <2>2
<1>3. stage'[t] = place /\ \A u \in Threads : u # t => stage'[u] = stage[u]
  BY DEF DrainInv, BindInv, BindTypes
<1>4. ASSUME NEW u \in Threads PROVE ThreadDrains(u)'
  <2>1. CASE u = t
    <3>0. ThreadDrains(t) /\ s # NoStack
      BY ThreadsAssumption DEF DrainInv
    <3>1. /\ Len(accepted[s]) >= due[t]
          /\ Len(accepted[s]) \in Nat /\ due[t] \in Nat
      BY <3>0 DEF DrainInv, ThreadDrains
    <3>2. place = "rest" =>
            /\ m_rx_ring'[s] \in Seq(Frames)
            /\ Len(accepted'[s]) - Len(m_rx_ring'[s]) >= due[t]
      <4> SUFFICES ASSUME place = "rest"
                   PROVE  /\ m_rx_ring'[s] \in Seq(Frames)
                          /\ Len(accepted'[s]) - Len(m_rx_ring'[s]) >= due[t]
        OBVIOUS
      <4>1. m_rx_ring'[s] = <<>> /\ accepted' = accepted
        BY <1>1
      <4>2. Len(<<>>) = 0 /\ <<>> \in Seq(Frames)
        OBVIOUS
      <4>3. Len(accepted[s]) - 0 >= due[t]
        BY <3>1
      <4> QED
        BY <4>1, <4>2, <4>3
    <3>3. place # "parse" => m_parser'[s] = <<>>
      BY <1>2
    <3>4. /\ running'[u] = s /\ due'[u] = due[t] /\ accepted' = accepted
          /\ stage'[u] = place
      BY <1>3, <2>1
    <3>5. Len(accepted'[s]) >= due[t]
      BY <3>1, <3>4
    <3>6. /\ Len(accepted'[running'[u]]) >= due'[u]
          /\ stage'[u] # "parse" => m_parser'[running'[u]] = <<>>
      BY <3>3, <3>4, <3>5
    <3>7. stage'[u] = "rest" =>
            /\ m_rx_ring'[running'[u]] \in Seq(Frames)
            /\ Len(accepted'[running'[u]]) - Len(m_rx_ring'[running'[u]]) >= due'[u]
      BY <3>2, <3>4
    <3> QED
      BY <3>6, <3>7 DEF ThreadDrains
  <2>2. CASE u # t
    <3>1. running[u] # s
      BY <2>2, ThreadsAssumption DEF DrainInv, OneCycle
    <3> QED
      BY <1>1, <1>2, <1>3, <2>2, <3>1, DrainElsewhere
  <2> QED
    BY <2>1, <2>2
<1>5. \A r \in Stacks : (\A u \in Threads : running'[u] # r) => m_parser'[r] = <<>>
  BY <1>2 DEF DrainInv
<1>6. /\ OneCycle' /\ due' \in [Threads -> Nat] /\ accepted' \in [Stacks -> Seq(Frames)]
      /\ OfStacks(m_rx_ring)' /\ OfStacks(m_parser)'
  BY <1>1, <1>2 DEF DrainInv, OneCycle, OfStacks
<1> QED
  BY <1>4, <1>5, <1>6 DEF DrainInv

(* A cycle begins with an empty parser, and with nothing owed beyond what  *)
(* the ring has taken.                                                     *)
LEMMA DrainStart ==
    ASSUME DrainInv, BindInv', NEW t \in Threads, NEW s \in Stacks, StartCycle(t, s)
    PROVE  DrainInv'
<1> USE ThreadsAssumption
<1>0. /\ running' = [running EXCEPT ![t] = s]
      /\ stage' = [stage EXCEPT ![t] = "drain"]
      /\ due' = [due EXCEPT ![t] = Len(accepted[s])]
      /\ UNCHANGED <<accepted, m_rx_ring, m_parser>>
      /\ \A u \in Threads : running[u] # s
  BY DEF StartCycle, traffic
<1>1. /\ running'[t] = s /\ stage'[t] = "drain" /\ due'[t] = Len(accepted[s])
      /\ \A u \in Threads : u # t => /\ running'[u] = running[u]
                                     /\ stage'[u] = stage[u] /\ due'[u] = due[u]
  BY <1>0 DEF DrainInv, BindInv, BindTypes
<1>2. Len(accepted[s]) \in Nat /\ m_parser[s] = <<>>
  BY <1>0 DEF DrainInv
<1>3. ASSUME NEW u \in Threads PROVE ThreadDrains(u)'
  <2>1. CASE u = t
    <3>1. Len(accepted'[s]) >= due'[u] /\ m_parser'[s] = <<>> /\ stage'[u] = "drain"
      BY <1>0, <1>1, <1>2, <2>1
    <3> QED
      BY <1>1, <2>1, <3>1 DEF ThreadDrains
  <2>2. CASE u # t
    BY <1>0, <1>1, <2>2, DrainElsewhere
  <2> QED
    BY <2>1, <2>2
<1>4. OneCycle'
  BY <1>0, <1>1 DEF DrainInv, OneCycle
<1>5. due' \in [Threads -> Nat]
  BY <1>0, <1>2 DEF DrainInv
<1>6. \A r \in Stacks : (\A u \in Threads : running'[u] # r) => m_parser'[r] = <<>>
  <2> TAKE r \in Stacks
  <2>1. CASE r = s
    BY <1>0, <1>2, <2>1
  <2>2. CASE r # s
    <3> HAVE \A u \in Threads : running'[u] # r
    <3>1. \A u \in Threads : running[u] # r
      BY <1>1, <2>2 DEF DrainInv, BindInv, CycleBound, StartCycle, Idle
    <3> QED
      BY <1>0, <3>1 DEF DrainInv
  <2> QED
    BY <2>1, <2>2
<1> QED
  BY <1>0, <1>3, <1>4, <1>5, <1>6 DEF DrainInv, OfStacks

(* A cycle ends with an empty parser.                                      *)
LEMMA DrainEnd ==
    ASSUME DrainInv, BindInv', NEW t \in Threads, EndCycle(t)
    PROVE  DrainInv'
<1>0. /\ running' = [running EXCEPT ![t] = NoStack]
      /\ stage' = [stage EXCEPT ![t] = "idle"]
      /\ due' = [due EXCEPT ![t] = 0]
      /\ UNCHANGED <<accepted, m_rx_ring, m_parser>>
      /\ stage[t] = "rest"
  BY DEF EndCycle, traffic
<1>1. /\ running'[t] = NoStack
      /\ \A u \in Threads : u # t => /\ running'[u] = running[u]
                                     /\ stage'[u] = stage[u] /\ due'[u] = due[u]
  BY <1>0 DEF DrainInv, BindInv, BindTypes
<1>2. ASSUME NEW u \in Threads PROVE ThreadDrains(u)'
  <2>1. ThreadDrains(u)
    BY DEF DrainInv
  <2> QED
    BY <1>0, <1>1, <2>1 DEF ThreadDrains
<1>3. OneCycle' /\ due' \in [Threads -> Nat]
  BY <1>0, <1>1 DEF DrainInv, OneCycle
<1>4. ASSUME NEW r \in Stacks, \A u \in Threads : running'[u] # r
      PROVE  m_parser'[r] = <<>>
  <2>1. CASE running[t] = r
    <3>1. ThreadDrains(t) /\ r # NoStack
      BY ThreadsAssumption DEF DrainInv
    <3> QED
      BY <1>0, <2>1, <3>1 DEF ThreadDrains
  <2>2. CASE running[t] # r
    BY <1>0, <1>1, <1>4, <2>2 DEF DrainInv
  <2> QED
    BY <2>1, <2>2
<1> QED
  BY <1>0, <1>2, <1>3, <1>4 DEF DrainInv, OfStacks

(* Every action preserves the invariant of the cycle.                      *)
LEMMA DrainStep == DrainInv /\ [Next]_vars => DrainInv'
<1> SUFFICES ASSUME DrainInv, [Next]_vars PROVE DrainInv'
  OBVIOUS
<1> USE ThreadsAssumption
<1>0. BindInv'
  BY BindStep DEF DrainInv
<1>1. ASSUME NEW t \in Threads, NEW s \in Stacks, ProtocolStack(t, s)
      PROVE  DrainInv'
  BY <1>0, <1>1, DrainQuiet DEF ProtocolStack
<1>2. ASSUME NEW t \in Threads, NEW s \in Stacks, bind_to_current_thread(t, s)
      PROVE  DrainInv'
  BY <1>0, <1>2, DrainQuiet DEF bind_to_current_thread
<1>3. ASSUME NEW t \in Threads, NEW s \in Stacks, Destroy(t, s)
      PROVE  DrainInv'
  BY <1>0, <1>3, DrainDestroy
<1>4. ASSUME NEW t \in Threads, NEW s \in Stacks, StartCycle(t, s)
      PROVE  DrainInv'
  BY <1>0, <1>4, DrainStart
<1>5. ASSUME NEW s \in Stacks, NEW cmd \in Frames, isr_feed(s, cmd)
      PROVE  DrainInv'
  BY <1>0, <1>5, DrainFeed
<1>6. ASSUME NEW t \in Threads, run_one_cycle(t)
      PROVE  DrainInv'
  <2> DEFINE s == running[t]
  <2>0. stage[t] # "idle" => s \in Stacks /\ s # NoStack
    BY DEF DrainInv, BindInv, BindTypes, CycleBound
  <2>1. CASE ReadChunk(t)
    <3> DEFINE n == ReadLength(m_rx_ring[s])
               chunk == SubSeq(m_rx_ring[s], 1, n)
               ring == AfterRead(m_rx_ring[s], n)
    <3>1. stage[t] = "drain" /\ s \in Stacks
      BY <2>0, <2>1 DEF ReadChunk
    <3>2. ThreadDrains(t)
      BY DEF DrainInv
    <3>3. m_parser[s] = <<>>
      BY <2>0, <3>1, <3>2 DEF ThreadDrains
    <3>4. m_rx_ring' = [m_rx_ring EXCEPT ![s] = ring] /\ UNCHANGED <<accepted, running, due>>
      BY <2>1 DEF ReadChunk
    <3>5. CASE /\ m_parser' = [m_parser EXCEPT ![s] = m_parser[s] \o chunk]
               /\ stage' = [stage EXCEPT ![t] = "parse"]
      <4> DEFINE parser == m_parser[s] \o chunk
      <4> HIDE DEF ring, chunk, parser
      <4> QED
        BY <1>0, <3>1, <3>4, <3>5, DrainLoop DEF parser
    <3>6. CASE UNCHANGED <<m_parser, stage>>
      <4>1. /\ m_parser' = [m_parser EXCEPT ![s] = <<>>]
            /\ stage' = [stage EXCEPT ![t] = "drain"]
        BY <3>1, <3>3, <3>6 DEF DrainInv, OfStacks, BindInv, BindTypes
      <4> HIDE DEF ring, chunk
      <4> QED
        BY <1>0, <3>1, <3>4, <4>1, DrainLoop
    <3> QED
      BY <2>1, <3>5, <3>6 DEF ReadChunk
  <2>2. CASE Dispatch(t)
    <3>1. stage[t] = "parse" /\ s \in Stacks
      BY <2>0, <2>2 DEF Dispatch
    <3>2. /\ m_parser' = [m_parser EXCEPT ![s] = Tail(m_parser[s])]
          /\ UNCHANGED <<accepted, running, due>>
      BY <2>2 DEF Dispatch
    <3>3. /\ m_rx_ring' = [m_rx_ring EXCEPT ![s] = m_rx_ring[s]]
          /\ stage' = [stage EXCEPT ![t] = "parse"]
      BY <2>2, <3>1 DEF Dispatch, DrainInv, OfStacks, BindInv, BindTypes
    <3> QED
      BY <1>0, <3>1, <3>2, <3>3, DrainLoop
  <2>3. CASE Parsed(t)
    <3>1. stage[t] = "parse" /\ s \in Stacks /\ m_parser[s] = <<>>
      BY <2>0, <2>3 DEF Parsed
    <3>2. /\ m_parser' = [m_parser EXCEPT ![s] = <<>>]
          /\ m_rx_ring' = [m_rx_ring EXCEPT ![s] = m_rx_ring[s]]
          /\ stage' = [stage EXCEPT ![t] = "drain"]
          /\ UNCHANGED <<accepted, running, due>>
      BY <2>3, <3>1 DEF Parsed, traffic, DrainInv, OfStacks
    <3> QED
      BY <1>0, <3>1, <3>2, DrainLoop
  <2>4. CASE RingEmpty(t)
    <3>1. stage[t] = "drain" /\ s \in Stacks /\ m_rx_ring[s] = <<>>
      BY <2>0, <2>4 DEF RingEmpty
    <3>2. ThreadDrains(t)
      BY DEF DrainInv
    <3>3. m_parser[s] = <<>>
      BY <2>0, <3>1, <3>2 DEF ThreadDrains
    <3>4. /\ m_parser' = [m_parser EXCEPT ![s] = <<>>]
          /\ m_rx_ring' = [m_rx_ring EXCEPT ![s] = <<>>]
          /\ stage' = [stage EXCEPT ![t] = "rest"]
          /\ UNCHANGED <<accepted, running, due>>
      BY <2>4, <3>1, <3>3 DEF RingEmpty, traffic, DrainInv, OfStacks
    <3> QED
      BY <1>0, <3>1, <3>4, DrainLoop
  <2>5. CASE EndCycle(t)
    BY <1>0, <2>5, DrainEnd
  <2> QED
    BY <1>6, <2>1, <2>2, <2>3, <2>4, <2>5 DEF run_one_cycle
<1>7. CASE UNCHANGED vars
  BY <1>0, <1>7, DrainQuiet DEF vars
<1> QED
  BY <1>1, <1>2, <1>3, <1>4, <1>5, <1>6, <1>7 DEF Next

(* A cycle leaves drain_rx only after everything that had arrived before   *)
(* it began (ProtocolStack.hpp:244-255).                                   *)
THEOREM NothingLeftBehind == Spec => []DrainsAll
<1>1. DrainInv => DrainsAll
  <2> SUFFICES ASSUME DrainInv, NEW t \in Threads, stage[t] = "rest"
               PROVE  Len(accepted[running[t]]) - Len(m_rx_ring[running[t]])
                        - Len(m_parser[running[t]]) >= due[t]
    BY DEF DrainsAll
  <2> DEFINE s == running[t]
  <2>1. s # NoStack /\ s \in Stacks /\ ThreadDrains(t) /\ due[t] \in Nat
    BY DEF DrainInv, BindInv, BindTypes, CycleBound
  <2>2. /\ m_parser[s] = <<>> /\ m_rx_ring[s] \in Seq(Frames)
        /\ Len(accepted[s]) - Len(m_rx_ring[s]) >= due[t]
    BY <2>1 DEF ThreadDrains
  <2>3. Len(m_parser[s]) = 0 /\ Len(m_rx_ring[s]) \in Nat /\ Len(accepted[s]) \in Nat
    BY <2>1, <2>2 DEF DrainInv
  <2> HIDE DEF s
  <2>4. Len(accepted[s]) - Len(m_rx_ring[s]) - Len(m_parser[s]) >= due[t]
    <3> DEFINE taken == Len(accepted[s])
               waiting == Len(m_rx_ring[s])
               parsing == Len(m_parser[s])
    <3>1. /\ taken \in Nat /\ waiting \in Nat /\ parsing = 0 /\ due[t] \in Nat
          /\ taken - waiting >= due[t]
      BY <2>1, <2>2, <2>3
    <3> HIDE DEF taken, waiting, parsing
    <3>2. taken - waiting - parsing >= due[t]
      BY <3>1
    <3> QED
      BY <3>2 DEF taken, waiting, parsing
  <2> QED
    BY <2>4 DEF s
<1> QED
  BY <1>1, DrainInit, DrainStep, PTL DEF Spec

(* A non-empty set of naturals has a least member.                         *)
LEMMA LeastOfNats ==
    ASSUME NEW S \in SUBSET Nat, S # {}
    PROVE  \E i \in S : \A j \in S : i <= j
<1> DEFINE Less == OpToRel(<, Nat)
<1>1. PICK i \in S : \A j \in S : <<j, i>> \notin Less
  <2> HIDE DEF Less
  <2> QED
    BY NatLessThanWellFounded, WFMin DEF Less
<1>2. \A j \in S : ~ (j < i)
  BY <1>1 DEF OpToRel
<1> QED
  BY <1>2

-----------------------------------------------------------------------------
(***************************************************************************)
(* TotalBytes.  The fold is the number of the bytes of the frames: that    *)
(* number satisfies the fold's equations, whichever frame it takes next,   *)
(* and they have only one solution.                                        *)
(***************************************************************************)
\* The bytes of the frames at the places s of q.
BytesAt(q, s) == UNION {{i} \X (1 .. FrameBytes[q[i]]) : i \in s}
CountAt(q, s) == Cardinality(BytesAt(q, s))

(* Finitely many places, finitely many bytes.                              *)
LEMMA BytesFinite ==
    ASSUME NEW q \in Seq(Frames), NEW s \in SUBSET DOMAIN q
    PROVE  IsFiniteSet(s) /\ IsFiniteSet(BytesAt(q, s)) /\ CountAt(q, s) \in Nat
<1> DEFINE Parts == {{i} \X (1 .. FrameBytes[q[i]]) : i \in s}
<1>0. IsFiniteSet(s)
  <2>1. DOMAIN q = 1 .. Len(q) /\ 1 \in Int /\ Len(q) \in Int
    OBVIOUS
  <2>2. IsFiniteSet(1 .. Len(q))
    BY <2>1, FS_Interval
  <2> QED
    BY <2>1, <2>2, FS_Subset
<1>1. IsFiniteSet(Parts)
  <2> DEFINE f == [i \in s |-> {i} \X (1 .. FrameBytes[q[i]])]
  <2>1. f \in Surjection(s, Parts)
    BY DEF Surjection
  <2> HIDE DEF f
  <2> QED
    BY <1>0, <2>1, FS_Surjection
<1>2. \A P \in Parts : IsFiniteSet(P)
  <2>1. ASSUME NEW i \in s PROVE IsFiniteSet({i} \X (1 .. FrameBytes[q[i]]))
    <3>1. 1 \in Int /\ FrameBytes[q[i]] \in Int
      BY ReadAssumption
    <3> QED
      BY <3>1, FS_Singleton, FS_Interval, FS_Product
  <2> QED
    BY <2>1
<1>3. IsFiniteSet(UNION Parts)
  BY <1>1, <1>2, FS_UNION
<1> QED
  BY <1>0, <1>3, FS_CardinalityType DEF BytesAt, CountAt

(* Each frame has its own bytes.                                           *)
LEMMA CountTakes ==
    ASSUME NEW q \in Seq(Frames), NEW s \in SUBSET DOMAIN q, NEW x \in s
    PROVE  CountAt(q, s) = CountAt(q, s \ {x}) + FrameBytes[q[x]]
<1> DEFINE A == BytesAt(q, s \ {x})
           B == {x} \X (1 .. FrameBytes[q[x]])
<1>1. FrameBytes[q[x]] \in Nat
  BY ReadAssumption
<1>2. IsFiniteSet(A) /\ CountAt(q, s \ {x}) = Cardinality(A) /\ Cardinality(A) \in Nat
  BY BytesFinite, FS_CardinalityType DEF CountAt
<1>3. IsFiniteSet(B) /\ Cardinality(B) = FrameBytes[q[x]]
  <2> DEFINE X == {x}
             Y == 1 .. FrameBytes[q[x]]
  <2>1. IsFiniteSet(X) /\ Cardinality(X) = 1
    BY FS_Singleton
  <2>2. IsFiniteSet(Y) /\ Cardinality(Y) = FrameBytes[q[x]]
    <3> DEFINE size == FrameBytes[q[x]]
    <3>1. size \in Nat /\ 1 \in Int /\ size \in Int
      BY <1>1
    <3> HIDE DEF size
    <3>2. IsFiniteSet(1 .. size) /\ Cardinality(1 .. size) = size
      BY <3>1, FS_Interval
    <3> QED
      BY <3>2 DEF size
  <2> HIDE DEF X, Y
  <2>3. IsFiniteSet(X \X Y) /\ Cardinality(X \X Y) = Cardinality(X) * Cardinality(Y)
    BY <2>1, <2>2, FS_Product
  <2> QED
    BY <1>1, <2>1, <2>2, <2>3 DEF X, Y
<1>4. A \cap B = {} /\ BytesAt(q, s) = A \cup B
  BY DEF BytesAt
<1> HIDE DEF A, B
<1>5. Cardinality(A \cup B) = Cardinality(A) + Cardinality(B) - Cardinality(A \cap B)
  BY <1>2, <1>3, FS_Union
<1>6. Cardinality(A \cap B) = 0
  BY <1>4, FS_EmptySet
<1> QED
  BY <1>1, <1>2, <1>3, <1>4, <1>5, <1>6 DEF CountAt

(* So the fold is that number.                                             *)
LEMMA TotalIsCount ==
    ASSUME NEW q \in Seq(Frames)
    PROVE  TotalBytes(q) = CountAt(q, DOMAIN q)
<1> DEFINE D == DOMAIN q
           F(iter) == [s \in SUBSET D |->
              IF s = {} THEN 0
              ELSE LET x == CHOOSE y \in s : TRUE
                   IN  iter[s \ {x}] + FrameBytes[q[x]]]
           G == [s \in SUBSET D |-> CountAt(q, s)]
           H == CHOOSE iter : iter = F(iter)
<1>1. TotalBytes(q) = H[D]
  BY Zenon DEF TotalBytes, FoldSeq, FoldFunction, FoldFunctionOnSet, MapThenFoldSet
<1>2. CountAt(q, {}) = 0
  BY FS_EmptySet DEF CountAt, BytesAt
<1>3. ASSUME NEW s \in SUBSET D, s # {}
      PROVE  LET x == CHOOSE y \in s : TRUE
             IN  /\ x \in s /\ s \ {x} \in SUBSET D
                 /\ CountAt(q, s) = CountAt(q, s \ {x}) + FrameBytes[q[x]]
  <2> DEFINE x == CHOOSE y \in s : TRUE
  <2>1. x \in s
    BY <1>3
  <2> HIDE DEF x
  <2>2. CountAt(q, s) = CountAt(q, s \ {x}) + FrameBytes[q[x]]
    BY <2>1, CountTakes
  <2> QED
    BY <2>1, <2>2 DEF x
<1>4. G = F(G)
  BY <1>2, <1>3
<1>5. H = F(H)
  <2> HIDE DEF F, G
  <2> QED
    BY <1>4
<1> HIDE DEF H
<1>6. /\ H[{}] = 0
      /\ \A s \in SUBSET D : s # {} =>
            LET x == CHOOSE y \in s : TRUE IN H[s] = H[s \ {x}] + FrameBytes[q[x]]
  BY <1>5
<1> DEFINE Wrong == {s \in SUBSET D : H[s] # CountAt(q, s)}
           Ranks == {Cardinality(s) : s \in Wrong}
<1>7. Wrong = {}
  <2> SUFFICES ASSUME Wrong # {} PROVE FALSE
    OBVIOUS
  <2>1. Ranks \in SUBSET Nat /\ Ranks # {}
    <3>1. \A s \in Wrong : Cardinality(s) \in Nat
      BY BytesFinite, FS_CardinalityType
    <3> QED
      BY <3>1
  <2>2. PICK n \in Ranks : \A m \in Ranks : n <= m
    <3> HIDE DEF Ranks
    <3> QED
      BY <2>1, LeastOfNats
  <2>3. PICK s \in Wrong : n = Cardinality(s)
    BY <2>2
  <2>4. s # {} /\ s \in SUBSET D /\ IsFiniteSet(s)
    BY <1>2, <1>6, BytesFinite
  <2> DEFINE x == CHOOSE y \in s : TRUE
             r == s \ {x}
  <2>5. /\ x \in s /\ r \in SUBSET D /\ H[s] = H[r] + FrameBytes[q[x]]
        /\ CountAt(q, s) = CountAt(q, r) + FrameBytes[q[x]]
    BY <1>3, <1>6, <2>4
  <2> HIDE DEF x
  <2>6. r \in Wrong
    BY <2>3, <2>5
  <2>7. Cardinality(r) = Cardinality(s) - 1 /\ Cardinality(s) \in Nat
    BY <2>4, <2>5, FS_RemoveElement, FS_CardinalityType
  <2>8. Cardinality(r) \in Ranks
    BY <2>6
  <2> HIDE DEF r, Ranks, Wrong
  <2>9. n <= Cardinality(r)
    BY <2>2, <2>8
  <2> QED
    BY <2>3, <2>7, <2>9
<1>8. D \in SUBSET D
  OBVIOUS
<1> QED
  BY <1>1, <1>7, <1>8

(* A frame put in adds its bytes,                                          *)
LEMMA TotalAppend ==
    ASSUME NEW q \in Seq(Frames), NEW cmd \in Frames
    PROVE  TotalBytes(Append(q, cmd)) = TotalBytes(q) + FrameBytes[cmd]
<1> DEFINE p == Append(q, cmd)
           n == Len(q) + 1
<1>1. /\ p \in Seq(Frames) /\ n \in DOMAIN p /\ p[n] = cmd
      /\ DOMAIN p \ {n} = DOMAIN q /\ \A i \in DOMAIN q : p[i] = q[i]
  <2>1. /\ p \in Seq(Frames) /\ DOMAIN p = 1 .. n /\ n \in Nat /\ n >= 1 /\ p[n] = cmd
        /\ DOMAIN q = 1 .. n - 1 /\ \A i \in 1 .. n - 1 : p[i] = q[i]
    OBVIOUS
  <2> HIDE DEF p, n
  <2> QED
    BY <2>1
<1> HIDE DEF p, n
<1>2. BytesAt(p, DOMAIN q) = BytesAt(q, DOMAIN q)
  BY <1>1 DEF BytesAt
<1>3. CountAt(p, DOMAIN p) = CountAt(p, DOMAIN p \ {n}) + FrameBytes[p[n]]
  BY <1>1, CountTakes
<1>4. TotalBytes(p) = CountAt(p, DOMAIN p) /\ TotalBytes(q) = CountAt(q, DOMAIN q)
  BY <1>1, TotalIsCount
<1> QED
  BY <1>1, <1>2, <1>3, <1>4 DEF CountAt, p

(* and what a read takes away takes its bytes along.                       *)
LEMMA TotalAfterRead ==
    ASSUME NEW q \in Seq(Frames), NEW n \in 1 .. Len(q)
    PROVE  AfterRead(q, n) \in Seq(Frames) /\ TotalBytes(AfterRead(q, n)) <= TotalBytes(q)
<1> DEFINE p == SubSeq(q, n + 1, Len(q))
           A == BytesAt(p, DOMAIN p)
           B == BytesAt(q, DOMAIN q)
           f == [byte \in A |-> <<byte[1] + n, byte[2]>>]
<1>1. /\ p \in Seq(Frames)
      /\ \A i \in DOMAIN p : i \in Nat /\ i + n \in DOMAIN q /\ p[i] = q[i + n]
  OBVIOUS
<1> HIDE DEF p
<1>2. \A byte \in A : /\ byte = <<byte[1], byte[2]>> /\ byte[1] \in DOMAIN p
                      /\ byte[2] \in 1 .. FrameBytes[p[byte[1]]]
  BY DEF BytesAt
<1>3. \A i \in DOMAIN q : \A j \in 1 .. FrameBytes[q[i]] : <<i, j>> \in B
  BY DEF BytesAt
<1> HIDE DEF A, B
<1>4. f \in Injection(A, B)
  <2>1. \A byte \in A : f[byte] \in B
    BY <1>1, <1>2, <1>3
  <2>2. ASSUME NEW u \in A, NEW v \in A, f[u] = f[v] PROVE u = v
    <3>1. u[1] + n = v[1] + n /\ u[2] = v[2]
      BY <2>2
    <3>2. u[1] \in Nat /\ v[1] \in Nat /\ n \in Nat
      BY <1>1, <1>2
    <3>3. u[1] = v[1]
      BY <3>1, <3>2
    <3> QED
      BY <1>2, <3>1, <3>3
  <2> HIDE DEF f
  <2>3. f \in [A -> B]
    BY <2>1 DEF f
  <2> QED
    BY <2>2, <2>3 DEF Injection, IsInjective
<1>5. IsFiniteSet(B) /\ TotalBytes(p) = Cardinality(A) /\ TotalBytes(q) = Cardinality(B)
  BY <1>1, BytesFinite, TotalIsCount DEF A, B, CountAt
<1>6. Cardinality(A) <= Cardinality(B)
  <2> HIDE DEF f
  <2> QED
    BY <1>4, <1>5, FS_Injection
<1> QED
  BY <1>1, <1>5, <1>6 DEF AfterRead, p

(* The bytes of no frame and of one.                                       *)
LEMMA OneFrame ==
    ASSUME NEW cmd \in Frames
    PROVE  TotalBytes(<<>>) = 0 /\ TotalBytes(<<cmd>>) = FrameBytes[cmd]
<1>1. TotalBytes(<<>>) = 0
  <2>1. <<>> \in Seq(Frames) /\ DOMAIN <<>> = {}
    OBVIOUS
  <2>2. TotalBytes(<<>>) = CountAt(<<>>, {})
    BY <2>1, TotalIsCount
  <2> QED
    BY <2>2, FS_EmptySet DEF CountAt, BytesAt
<1>2. <<cmd>> = Append(<<>>, cmd) /\ <<>> \in Seq(Frames)
  OBVIOUS
<1>3. TotalBytes(<<cmd>>) = 0 + FrameBytes[cmd]
  BY <1>1, <1>2, TotalAppend
<1>4. FrameBytes[cmd] \in Nat
  BY ReadAssumption
<1> QED
  BY <1>1, <1>3, <1>4

(* A read of a ring that holds something takes a frame at least: the       *)
(* longest beginning that fits ReadMax bytes with all those shorter.       *)
LEMMA ReadTakesFrames ==
    ASSUME NEW q \in Seq(Frames), q # <<>>
    PROVE  ReadLength(q) \in 1 .. Len(q)
<1> DEFINE Long == {n \in 1 .. Len(q) : ~ FitsRead(q, n)}
<1>1. Len(q) \in Nat /\ Len(q) >= 1 /\ q[1] \in Frames
  OBVIOUS
<1>2. FitsRead(q, 1)
  <2>1. SubSeq(q, 1, 1) = <<q[1]>>
    <3> DEFINE s == SubSeq(q, 1, 1)
               t == <<q[1]>>
    <3>1. s \in Seq(Frames) /\ Len(s) = 1 /\ s[1] = q[1]
      BY <1>1
    <3>2. t \in Seq(Frames) /\ Len(t) = 1 /\ t[1] = q[1]
      BY <1>1
    <3> HIDE DEF s, t
    <3>3. s = t
      BY <3>1, <3>2, SeqEqual
    <3> QED
      BY <3>3 DEF s, t
  <2>2. TotalBytes(<<q[1]>>) = FrameBytes[q[1]]
    BY <1>1, OneFrame
  <2>3. FrameBytes[q[1]] \in 1 .. ReadMax /\ ReadMax \in Nat
    BY <1>1, ReadAssumption
  <2>4. FrameBytes[q[1]] <= ReadMax
    BY <2>3
  <2> QED
    BY <2>1, <2>2, <2>4 DEF FitsRead
<1>3. \E n \in 1 .. Len(q) : FitsRead(q, n) /\ (n < Len(q) => ~ FitsRead(q, n + 1))
  <2>1. CASE Long = {}
    BY <1>1, <2>1
  <2>2. CASE Long # {}
    <3>0. Long \in SUBSET Nat
      OBVIOUS
    <3>1. PICK k \in Long : \A j \in Long : k <= j
      <4> HIDE DEF Long
      <4> QED
        BY <2>2, <3>0, LeastOfNats
    <3>2. k \in 1 .. Len(q) /\ k # 1 /\ ~ FitsRead(q, k)
      BY <1>2, <3>1
    <3>3. k - 1 \in 1 .. Len(q) /\ k - 1 \notin Long /\ (k - 1) + 1 = k
      BY <1>1, <3>1, <3>2
    <3> QED
      BY <3>2, <3>3
  <2> QED
    BY <2>1, <2>2
<1> QED
  BY <1>3 DEF ReadLength

-----------------------------------------------------------------------------
(***************************************************************************)
(* InOrder.  Of one stack: what parser and ring hold is the newest of what *)
(* the ring took, and the handler's calls are embedded, in order, into     *)
(* what is older.                                                          *)
(***************************************************************************)
Calls == {<<cmd, Route(cmd)>> : cmd \in Frames}

PassedOf(taken, parser, ring) == Len(taken) - Len(parser) - Len(ring)
MineOf(taken, m, pack) == {j \in 1 .. m : taken[j] \in pack}

\* Frame at[i] is the one that call i brought.
Embeds(at, taken, calls, mine, lost) ==
    /\ at \in [1 .. Len(calls) -> mine]
    /\ \A i, j \in 1 .. Len(calls) : i < j => at[i] < at[j]
    /\ \A i \in 1 .. Len(calls) : calls[i][1] = taken[at[i]]
    /\ lost \/ \A j \in mine : \E i \in 1 .. Len(calls) : at[i] = j

Tracks(taken, parser, ring, calls, pack, lost) ==
    LET m == PassedOf(taken, parser, ring)
    IN /\ taken \in Seq(Frames) /\ parser \in Seq(Frames) /\ ring \in Seq(Frames)
       /\ calls \in Seq(Calls)
       /\ m \in Nat
       /\ \A i \in 1 .. Len(parser) : parser[i] = taken[m + i]
       /\ \A i \in 1 .. Len(ring) : ring[i] = taken[m + Len(parser) + i]
       /\ \E at : Embeds(at, taken, calls, MineOf(taken, m, pack), lost)

OrderInv ==
    /\ DrainInv
    /\ OfStacks(handled)
    /\ \A s \in Stacks :
         Tracks(accepted[s], m_parser[s], m_rx_ring[s], handled[s],
                PacketTypes[TypeOf[s]], s \in lossy)

(* An empty stack has lost nothing and handled nothing.                    *)
LEMMA TracksNothing ==
    ASSUME NEW pack, NEW lost
    PROVE  Tracks(<<>>, <<>>, <<>>, <<>>, pack, lost)
<1>1. /\ Len(<<>>) = 0 /\ <<>> \in Seq(Frames) /\ <<>> \in Seq(Calls)
      /\ PassedOf(<<>>, <<>>, <<>>) = 0
  <2>1. Len(<<>>) = 0 /\ <<>> \in Seq(Frames) /\ <<>> \in Seq(Calls)
    OBVIOUS
  <2>2. PassedOf(<<>>, <<>>, <<>>) = 0 - 0 - 0
    BY <2>1 DEF PassedOf
  <2> QED
    BY <2>1, <2>2
<1>2. MineOf(<<>>, 0, pack) = {}
  BY DEF MineOf
<1>3. Embeds([i \in {} |-> 0], <<>>, <<>>, {}, lost)
  BY <1>1 DEF Embeds
<1> QED
  BY <1>1, <1>2, <1>3 DEF Tracks

(* A frame the ring takes.                                                 *)
LEMMA TracksFeed ==
    ASSUME NEW taken, NEW parser, NEW ring, NEW calls, NEW pack, NEW lost,
           Tracks(taken, parser, ring, calls, pack, lost), NEW cmd \in Frames
    PROVE  Tracks(Append(taken, cmd), parser, Append(ring, cmd), calls, pack, lost)
<1> DEFINE taken2 == Append(taken, cmd)
           ring2 == Append(ring, cmd)
           m == PassedOf(taken, parser, ring)
           p == Len(parser)
           r == Len(ring)
<1>1. /\ taken \in Seq(Frames) /\ parser \in Seq(Frames) /\ ring \in Seq(Frames)
      /\ calls \in Seq(Calls) /\ m \in Nat /\ p \in Nat /\ r \in Nat
      /\ Len(taken) = m + p + r
      /\ \A i \in 1 .. p : parser[i] = taken[m + i]
      /\ \A i \in 1 .. r : ring[i] = taken[m + p + i]
  BY DEF Tracks, PassedOf
<1>2. PICK at : Embeds(at, taken, calls, MineOf(taken, m, pack), lost)
  BY DEF Tracks
<1>3. /\ taken2 \in Seq(Frames) /\ Len(taken2) = m + p + r + 1
      /\ \A i \in 1 .. m + p + r : taken2[i] = taken[i]
      /\ taken2[m + p + r + 1] = cmd
  BY <1>1
<1>4. /\ ring2 \in Seq(Frames) /\ Len(ring2) = r + 1
      /\ \A i \in 1 .. r : ring2[i] = ring[i]
      /\ ring2[r + 1] = cmd
  BY <1>1
<1>5. PassedOf(taken2, parser, ring2) = m
  BY <1>1, <1>3, <1>4 DEF PassedOf
<1> HIDE DEF m, p, r, taken2, ring2
<1>6. \A j \in 1 .. m : taken2[j] = taken[j]
  BY <1>1, <1>3
<1>7. MineOf(taken2, m, pack) = MineOf(taken, m, pack)
  BY <1>6 DEF MineOf
<1>8. Embeds(at, taken2, calls, MineOf(taken2, m, pack), lost)
  BY <1>2, <1>6, <1>7 DEF Embeds, MineOf
<1>9. \A i \in 1 .. p : parser[i] = taken2[m + i]
  BY <1>1, <1>3
<1>10. \A i \in 1 .. r + 1 : ring2[i] = taken2[m + p + i]
  <2> TAKE i \in 1 .. r + 1
  <2>1. CASE i = r + 1
    BY <1>1, <1>3, <1>4, <2>1
  <2>2. CASE i # r + 1
    <3>1. i \in 1 .. r /\ m + p + i \in 1 .. m + p + r
      BY <1>1, <2>2
    <3> QED
      BY <1>1, <1>3, <1>4, <3>1
  <2> QED
    BY <2>1, <2>2
<1> QED
  BY <1>1, <1>3, <1>4, <1>5, <1>8, <1>9, <1>10 DEF Tracks, taken2, ring2, p

(* A read: the oldest n frames go from the ring to an empty parser ...     *)
LEMMA TracksRead ==
    ASSUME NEW taken, NEW ring, NEW calls, NEW pack, NEW lost,
           Tracks(taken, <<>>, ring, calls, pack, lost), NEW n \in 1 .. Len(ring)
    PROVE  Tracks(taken, SubSeq(ring, 1, n), SubSeq(ring, n + 1, Len(ring)),
                  calls, pack, lost)
<1> DEFINE chunk == SubSeq(ring, 1, n)
           rest == SubSeq(ring, n + 1, Len(ring))
           m == PassedOf(taken, <<>>, ring)
           r == Len(ring)
<1>1. /\ taken \in Seq(Frames) /\ ring \in Seq(Frames) /\ calls \in Seq(Calls)
      /\ m \in Nat /\ r \in Nat /\ Len(taken) = m + r /\ n \in 1 .. r
      /\ \A i \in 1 .. r : ring[i] = taken[m + i]
  <2>1. Len(<<>>) = 0
    OBVIOUS
  <2> QED
    BY <2>1 DEF Tracks, PassedOf
<1>2. /\ chunk \in Seq(Frames) /\ Len(chunk) = n
      /\ \A i \in 1 .. n : chunk[i] = ring[i]
  BY <1>1
<1>3. /\ rest \in Seq(Frames) /\ Len(rest) = r - n
      /\ \A i \in 1 .. r - n : rest[i] = ring[n + i]
  BY <1>1
<1> HIDE DEF chunk, rest, m, r
<1>4. PassedOf(taken, chunk, rest) = m
  BY <1>1, <1>2, <1>3 DEF PassedOf
<1>5. ASSUME NEW i \in 1 .. n PROVE chunk[i] = taken[m + i]
  <2>1. i \in 1 .. r
    BY <1>1
  <2> QED
    BY <1>1, <1>2, <2>1
<1>6. ASSUME NEW i \in 1 .. r - n PROVE rest[i] = taken[m + n + i]
  <2>1. n + i \in 1 .. r /\ m + (n + i) = m + n + i
    BY <1>1
  <2> QED
    BY <1>1, <1>3, <2>1
<1>7. \E at : Embeds(at, taken, calls, MineOf(taken, m, pack), lost)
  BY DEF Tracks, m
<1> QED
  BY <1>1, <1>2, <1>3, <1>4, <1>5, <1>6, <1>7 DEF Tracks, chunk, rest, r

(* ... or nowhere, if the parser refuses them.                             *)
LEMMA TracksRefused ==
    ASSUME NEW taken, NEW ring, NEW calls, NEW pack, NEW lost,
           Tracks(taken, <<>>, ring, calls, pack, lost), NEW n \in 1 .. Len(ring)
    PROVE  Tracks(taken, <<>>, SubSeq(ring, n + 1, Len(ring)), calls, pack, TRUE)
<1> DEFINE rest == SubSeq(ring, n + 1, Len(ring))
           m == PassedOf(taken, <<>>, ring)
           r == Len(ring)
<1>0. Len(<<>>) = 0 /\ <<>> \in Seq(Frames)
  OBVIOUS
<1>1. /\ taken \in Seq(Frames) /\ ring \in Seq(Frames) /\ calls \in Seq(Calls)
      /\ m \in Nat /\ r \in Nat /\ Len(taken) = m + r /\ n \in 1 .. r
      /\ \A i \in 1 .. r : ring[i] = taken[m + i]
  BY <1>0 DEF Tracks, PassedOf
<1>2. PICK at : Embeds(at, taken, calls, MineOf(taken, m, pack), lost)
  BY DEF Tracks
<1>3. /\ rest \in Seq(Frames) /\ Len(rest) = r - n
      /\ \A i \in 1 .. r - n : rest[i] = ring[n + i]
  BY <1>1
<1> HIDE DEF rest, m, r
<1>4. PassedOf(taken, <<>>, rest) = m + n
  BY <1>0, <1>1, <1>3 DEF PassedOf
<1>5. /\ \A i \in 1 .. r - n : rest[i] = taken[m + n + Len(<<>>) + i]
      /\ \A i \in 1 .. Len(<<>>) : <<>>[i] = taken[m + n + i]
  <2>1. ASSUME NEW i \in 1 .. r - n PROVE rest[i] = taken[m + n + Len(<<>>) + i]
    <3>1. n + i \in 1 .. r /\ m + (n + i) = m + n + Len(<<>>) + i
      BY <1>0, <1>1
    <3> QED
      BY <1>1, <1>3, <3>1
  <2> QED
    BY <1>0, <2>1
<1>6. MineOf(taken, m, pack) \subseteq MineOf(taken, m + n, pack)
  BY <1>1 DEF MineOf
<1>7. Embeds(at, taken, calls, MineOf(taken, m + n, pack), TRUE)
  BY <1>2, <1>6 DEF Embeds
<1>8. m + n \in Nat
  BY <1>1
<1> QED
  BY <1>0, <1>1, <1>3, <1>4, <1>5, <1>7, <1>8 DEF Tracks, rest, r

(* The parser meets a frame: it is called with it, or it is not for this   *)
(* stack, or nobody is there to call and it is lost.                       *)
LEMMA TracksDispatch ==
    ASSUME NEW taken, NEW parser, NEW ring, NEW calls, NEW pack, NEW lost,
           Tracks(taken, parser, ring, calls, pack, lost), parser # <<>>,
           NEW calls2, NEW lost2, lost => lost2,
           \/ /\ Head(parser) \in pack
              /\ calls2 = Append(calls, <<Head(parser), Route(Head(parser))>>)
           \/ calls2 = calls /\ (Head(parser) \notin pack \/ lost2)
    PROVE  Tracks(taken, Tail(parser), ring, calls2, pack, lost2)
<1> DEFINE cmd == Head(parser)
           tail == Tail(parser)
           m == PassedOf(taken, parser, ring)
           p == Len(parser)
           r == Len(ring)
           count == Len(calls)
<1>1. /\ taken \in Seq(Frames) /\ parser \in Seq(Frames) /\ ring \in Seq(Frames)
      /\ calls \in Seq(Calls) /\ m \in Nat /\ p \in Nat /\ r \in Nat /\ count \in Nat
      /\ Len(taken) = m + p + r
      /\ \A i \in 1 .. p : parser[i] = taken[m + i]
      /\ \A i \in 1 .. r : ring[i] = taken[m + p + i]
  BY DEF Tracks, PassedOf
<1>2. PICK at : Embeds(at, taken, calls, MineOf(taken, m, pack), lost)
  BY DEF Tracks
<1>3. /\ p > 0 /\ cmd = parser[1] /\ cmd \in Frames
      /\ tail \in Seq(Frames) /\ Len(tail) = p - 1
      /\ \A i \in 1 .. p - 1 : tail[i] = parser[i + 1]
  BY <1>1
<1>4. cmd = taken[m + 1]
  BY <1>1, <1>3
<1> HIDE DEF cmd, tail, m, p, r
<1>5. PassedOf(taken, tail, ring) = m + 1 /\ m + 1 \in Nat
  BY <1>1, <1>3 DEF PassedOf, r
<1>6. \A i \in 1 .. p - 1 : tail[i] = taken[(m + 1) + i]
  BY <1>1, <1>3
<1>7. \A i \in 1 .. r : ring[i] = taken[(m + 1) + (p - 1) + i]
  BY <1>1, <1>3
<1>8. /\ MineOf(taken, m + 1, pack) = MineOf(taken, m, pack)
                                        \cup (IF cmd \in pack THEN {m + 1} ELSE {})
      /\ MineOf(taken, m, pack) \subseteq 1 .. m
  BY <1>1, <1>4 DEF MineOf
<1>9. /\ calls2 \in Seq(Calls)
      /\ \E at2 : Embeds(at2, taken, calls2, MineOf(taken, m + 1, pack), lost2)
  <2>1. CASE calls2 = calls /\ (cmd \notin pack \/ lost2)
    <3>1. Embeds(at, taken, calls, MineOf(taken, m + 1, pack), lost2)
      BY <1>2, <1>8, <2>1 DEF Embeds
    <3> QED
      BY <1>1, <2>1, <3>1
  <2>2. CASE cmd \in pack /\ calls2 = Append(calls, <<cmd, Route(cmd)>>)
    <3> DEFINE call == <<cmd, Route(cmd)>>
               mine == MineOf(taken, m, pack)
               at2 == [i \in 1 .. count + 1 |-> IF i = count + 1 THEN m + 1 ELSE at[i]]
    <3>1. call \in Calls /\ call[1] = cmd
      BY <1>3 DEF Calls
    <3> HIDE DEF call
    <3>2. /\ calls2 \in Seq(Calls) /\ Len(calls2) = count + 1
          /\ \A i \in 1 .. count : calls2[i] = calls[i]
          /\ calls2[count + 1] = call
      BY <1>1, <2>2, <3>1 DEF call
    <3>3. /\ at \in [1 .. count -> mine] /\ mine \subseteq 1 .. m
          /\ \A i, j \in 1 .. count : i < j => at[i] < at[j]
          /\ \A i \in 1 .. count : calls[i][1] = taken[at[i]]
          /\ lost \/ \A j \in mine : \E i \in 1 .. count : at[i] = j
      BY <1>2, <1>8 DEF Embeds
    <3>0. count \in Nat /\ m \in Nat
      BY <1>1
    <3>4. MineOf(taken, m + 1, pack) = mine \cup {m + 1}
      BY <1>8, <2>2
    <3> HIDE DEF count, mine
    <3>5. at2 \in [1 .. count + 1 -> mine \cup {m + 1}]
      BY <1>1, <3>3
    <3>6. \A i, j \in 1 .. count + 1 : i < j => at2[i] < at2[j]
      <4> TAKE i \in 1 .. count + 1, j \in 1 .. count + 1
      <4> HAVE i < j
      <4>0. i \in 1 .. count /\ i # count + 1
        BY <3>0
      <4>1. at2[i] = at[i] /\ at[i] \in 1 .. m /\ i \in 1 .. count
        BY <3>3, <4>0
      <4>2. CASE j = count + 1
        BY <3>0, <4>1, <4>2
      <4>3. CASE j # count + 1
        <5>0. j \in 1 .. count
          BY <3>0, <4>3
        <5>1. at2[j] = at[j]
          BY <4>3
        <5> QED
          BY <3>3, <4>1, <5>0, <5>1
      <4> QED
        BY <4>2, <4>3
    <3>7. \A i \in 1 .. count + 1 : calls2[i][1] = taken[at2[i]]
      <4> TAKE i \in 1 .. count + 1
      <4>1. CASE i = count + 1
        BY <1>4, <3>1, <3>2, <4>1
      <4>2. CASE i # count + 1
        <5>0. i \in 1 .. count
          BY <3>0, <4>2
        <5>1. at2[i] = at[i]
          BY <4>2
        <5> QED
          BY <3>2, <3>3, <5>0, <5>1
      <4> QED
        BY <4>1, <4>2
    <3>8. lost2 \/ \A j \in mine \cup {m + 1} : \E i \in 1 .. count + 1 : at2[i] = j
      <4> SUFFICES ASSUME ~ lost2, NEW j \in mine \cup {m + 1}
                   PROVE  \E i \in 1 .. count + 1 : at2[i] = j
        OBVIOUS
      <4>1. CASE j = m + 1
        <5>1. count + 1 \in 1 .. count + 1 /\ at2[count + 1] = m + 1
          BY <1>1
        <5> QED
          BY <4>1, <5>1
      <4>2. CASE j \in mine
        <5>1. PICK i \in 1 .. count : at[i] = j
          BY <3>3, <4>2
        <5>2. i \in 1 .. count + 1 /\ at2[i] = j
          BY <1>1, <5>1
        <5> QED
          BY <5>2
      <4> QED
        BY <4>1, <4>2
    <3>9. Embeds(at2, taken, calls2, mine \cup {m + 1}, lost2)
      <4> HIDE DEF at2
      <4> QED
        BY <3>2, <3>5, <3>6, <3>7, <3>8 DEF Embeds
    <3> QED
      BY <3>2, <3>4, <3>9
  <2> QED
    BY <2>1, <2>2 DEF cmd
<1> QED
  BY <1>1, <1>3, <1>5, <1>6, <1>7, <1>9 DEF Tracks, tail, r

(* No stack has accepted anything at first.                                *)
LEMMA OrderInit == Init => OrderInv
<1> SUFFICES ASSUME Init PROVE OrderInv
  OBVIOUS
<1>1. DrainInv /\ OfStacks(handled)
  BY DrainInit DEF Init, OfStacks
<1>2. ASSUME NEW s \in Stacks
      PROVE  Tracks(accepted[s], m_parser[s], m_rx_ring[s], handled[s],
                    PacketTypes[TypeOf[s]], s \in lossy)
  <2>1. /\ accepted[s] = <<>> /\ m_parser[s] = <<>> /\ m_rx_ring[s] = <<>>
        /\ handled[s] = <<>>
    BY DEF Init
  <2> QED
    BY <2>1, TracksNothing
<1> QED
  BY <1>1, <1>2 DEF OrderInv

(* A step that changes the traffic of stack s only.                        *)
LEMMA OrderOfOne ==
    ASSUME OrderInv, DrainInv', OfStacks(handled'), NEW s \in Stacks,
           \A r \in Stacks : r # s =>
               /\ accepted'[r] = accepted[r] /\ m_rx_ring'[r] = m_rx_ring[r]
               /\ m_parser'[r] = m_parser[r] /\ handled'[r] = handled[r]
               /\ r \in lossy' <=> r \in lossy,
           Tracks(accepted'[s], m_parser'[s], m_rx_ring'[s], handled'[s],
                  PacketTypes[TypeOf[s]], s \in lossy')
    PROVE  OrderInv'
<1>1. ASSUME NEW r \in Stacks
      PROVE  Tracks(accepted'[r], m_parser'[r], m_rx_ring'[r], handled'[r],
                    PacketTypes[TypeOf[r]], r \in lossy')
  <2>1. CASE r = s
    BY <2>1
  <2>2. CASE r # s
    <3>1. (r \in lossy') = (r \in lossy)
      BY <2>2
    <3>2. Tracks(accepted[r], m_parser[r], m_rx_ring[r], handled[r],
                 PacketTypes[TypeOf[r]], r \in lossy)
      BY DEF OrderInv
    <3> QED
      BY <2>2, <3>1, <3>2
  <2> QED
    BY <2>1, <2>2
<1> QED
  BY <1>1 DEF OrderInv, OfStacks

(* Steps that move no frame.                                               *)
LEMMA OrderQuiet ==
    ASSUME OrderInv, DrainInv', UNCHANGED traffic
    PROVE  OrderInv'
<1>1. UNCHANGED <<m_rx_ring, m_parser, accepted, handled, lossy>>
  BY DEF traffic
<1>2. ASSUME NEW s \in Stacks
      PROVE  Tracks(accepted'[s], m_parser'[s], m_rx_ring'[s], handled'[s],
                    PacketTypes[TypeOf[s]], s \in lossy')
  BY <1>1 DEF OrderInv
<1> QED
  BY <1>1, <1>2 DEF OrderInv, OfStacks

(* A destroyed stack starts over with nothing.                             *)
LEMMA OrderDestroy ==
    ASSUME OrderInv, DrainInv', NEW t \in Threads, NEW s \in Stacks, Destroy(t, s)
    PROVE  OrderInv'
<1>1. /\ accepted' = [accepted EXCEPT ![s] = <<>>]
      /\ m_rx_ring' = [m_rx_ring EXCEPT ![s] = <<>>]
      /\ m_parser' = [m_parser EXCEPT ![s] = <<>>]
      /\ handled' = [handled EXCEPT ![s] = <<>>]
      /\ lossy' = lossy \ {s}
  BY DEF Destroy
<1>2. OfStacks(m_rx_ring) /\ OfStacks(m_parser) /\ OfStacks(handled)
      /\ accepted \in [Stacks -> Seq(Frames)]
  BY DEF OrderInv, DrainInv
<1>3. OfStacks(handled')
  BY <1>1, <1>2, ChangedAt
<1>4. /\ accepted'[s] = <<>> /\ m_rx_ring'[s] = <<>> /\ m_parser'[s] = <<>>
      /\ handled'[s] = <<>>
  BY <1>1, <1>2 DEF OfStacks
<1>5. \A r \in Stacks : r # s =>
          /\ accepted'[r] = accepted[r] /\ m_rx_ring'[r] = m_rx_ring[r]
          /\ m_parser'[r] = m_parser[r] /\ handled'[r] = handled[r]
          /\ r \in lossy' <=> r \in lossy
  BY <1>1, <1>2 DEF OfStacks
<1>6. Tracks(accepted'[s], m_parser'[s], m_rx_ring'[s], handled'[s],
             PacketTypes[TypeOf[s]], s \in lossy')
  BY <1>4, TracksNothing
<1> QED
  BY <1>3, <1>5, <1>6, OrderOfOne

(* What the ring takes is the newest of what it accepted; what it drops is *)
(* in neither.                                                             *)
LEMMA OrderFeed ==
    ASSUME OrderInv, DrainInv', NEW s \in Stacks, NEW cmd \in Frames, isr_feed(s, cmd)
    PROVE  OrderInv'
<1>1. CASE FitsRing(m_rx_ring[s], cmd)
  <2>1. /\ accepted' = [accepted EXCEPT ![s] = Append(accepted[s], cmd)]
        /\ m_rx_ring' = [m_rx_ring EXCEPT ![s] = Append(m_rx_ring[s], cmd)]
        /\ UNCHANGED <<m_parser, handled, lossy>>
    BY <1>1 DEF isr_feed
  <2>2. OfStacks(m_rx_ring) /\ OfStacks(handled) /\ accepted \in [Stacks -> Seq(Frames)]
    BY DEF OrderInv, DrainInv
  <2>3. /\ accepted'[s] = Append(accepted[s], cmd)
        /\ m_rx_ring'[s] = Append(m_rx_ring[s], cmd)
    BY <2>1, <2>2 DEF OfStacks
  <2>4. \A r \in Stacks : r # s =>
            /\ accepted'[r] = accepted[r] /\ m_rx_ring'[r] = m_rx_ring[r]
            /\ m_parser'[r] = m_parser[r] /\ handled'[r] = handled[r]
            /\ r \in lossy' <=> r \in lossy
    BY <2>1, <2>2 DEF OfStacks
  <2>5. Tracks(accepted[s], m_parser[s], m_rx_ring[s], handled[s],
               PacketTypes[TypeOf[s]], s \in lossy)
    BY DEF OrderInv
  <2>6. Tracks(accepted'[s], m_parser[s], m_rx_ring'[s], handled[s],
               PacketTypes[TypeOf[s]], s \in lossy)
    BY <2>3, <2>5, TracksFeed
  <2>7. Tracks(accepted'[s], m_parser'[s], m_rx_ring'[s], handled'[s],
               PacketTypes[TypeOf[s]], s \in lossy')
    BY <2>1, <2>6
  <2> QED
    BY <2>1, <2>2, <2>4, <2>7, OrderOfOne
<1>2. CASE ~ FitsRing(m_rx_ring[s], cmd)
  BY <1>2, OrderQuiet DEF isr_feed, traffic
<1> QED
  BY <1>1, <1>2

(* A read moves the oldest frames of the ring to the end of the parser, or *)
(* loses them and marks the stack.                                         *)
LEMMA OrderRead ==
    ASSUME OrderInv, DrainInv', NEW t \in Threads, ReadChunk(t)
    PROVE  OrderInv'
<1> DEFINE s == running[t]
           ring == m_rx_ring[s]
           n == ReadLength(ring)
           chunk == SubSeq(ring, 1, n)
           rest == SubSeq(ring, n + 1, Len(ring))
<1>1. /\ stage[t] = "drain" /\ ring # <<>>
      /\ m_rx_ring' = [m_rx_ring EXCEPT ![s] = rest]
      /\ UNCHANGED <<accepted, handled>>
      /\ \/ m_parser' = [m_parser EXCEPT ![s] = m_parser[s] \o chunk] /\ UNCHANGED lossy
         \/ lossy' = lossy \cup {s} /\ UNCHANGED m_parser
  BY DEF ReadChunk, AfterRead
<1>2. s \in Stacks /\ s # NoStack
  BY <1>1 DEF OrderInv, DrainInv, BindInv, BindTypes, CycleBound
<1>3. m_parser[s] = <<>>
  <2>1. ThreadDrains(t)
    BY DEF OrderInv, DrainInv
  <2> QED
    BY <1>1, <1>2, <2>1 DEF ThreadDrains
<1>4. OfStacks(m_rx_ring) /\ OfStacks(m_parser) /\ OfStacks(handled)
  BY DEF OrderInv, DrainInv
<1>5. Tracks(accepted[s], <<>>, ring, handled[s], PacketTypes[TypeOf[s]], s \in lossy)
  BY <1>2, <1>3 DEF OrderInv
<1>6. n \in 1 .. Len(ring)
  <2>1. ring \in Seq(Frames)
    BY <1>5 DEF Tracks
  <2> QED
    BY <1>1, <2>1, ReadTakesFrames
<1>7. m_rx_ring'[s] = rest /\ \A r \in Stacks : r # s => m_rx_ring'[r] = m_rx_ring[r]
  BY <1>1, <1>2, <1>4 DEF OfStacks
<1>8. CASE m_parser' = [m_parser EXCEPT ![s] = m_parser[s] \o chunk] /\ UNCHANGED lossy
  <2>1. chunk \in Seq(Frames) /\ <<>> \o chunk = chunk
    <3>1. ring \in Seq(Frames)
      BY <1>5 DEF Tracks
    <3>2. chunk \in Seq(Frames)
      BY <1>6, <3>1
    <3> HIDE DEF chunk
    <3> QED
      BY <3>2, ConcatEmptySeq
  <2>2. m_parser'[s] = chunk /\ \A r \in Stacks : r # s => m_parser'[r] = m_parser[r]
    <3> HIDE DEF chunk
    <3> QED
      BY <1>2, <1>3, <1>4, <1>8, <2>1 DEF OfStacks
  <2>3. Tracks(accepted[s], chunk, rest, handled[s], PacketTypes[TypeOf[s]], s \in lossy)
    BY <1>5, <1>6, TracksRead
  <2>4. Tracks(accepted'[s], m_parser'[s], m_rx_ring'[s], handled'[s],
               PacketTypes[TypeOf[s]], s \in lossy')
    <3> HIDE DEF chunk, rest, s
    <3> QED
      BY <1>1, <1>7, <1>8, <2>2, <2>3
  <2> HIDE DEF chunk, rest, s
  <2> QED
    BY <1>1, <1>2, <1>4, <1>7, <1>8, <2>2, <2>4, OrderOfOne
<1>9. CASE lossy' = lossy \cup {s} /\ UNCHANGED m_parser
  <2>1. Tracks(accepted[s], <<>>, rest, handled[s], PacketTypes[TypeOf[s]], TRUE)
    BY <1>5, <1>6, TracksRefused
  <2>2. (s \in lossy') = TRUE
    BY <1>9
  <2>3. Tracks(accepted'[s], m_parser'[s], m_rx_ring'[s], handled'[s],
               PacketTypes[TypeOf[s]], s \in lossy')
    <3> HIDE DEF rest, s
    <3> QED
      BY <1>1, <1>3, <1>7, <1>9, <2>1, <2>2
  <2> HIDE DEF rest, s
  <2> QED
    BY <1>1, <1>2, <1>4, <1>7, <1>9, <2>3, OrderOfOne
<1> QED
  BY <1>1, <1>8, <1>9

(* The oldest frame leaves the parser and, if it is called with, is mapped *)
(* behind all the earlier calls.                                           *)
LEMMA OrderDispatch ==
    ASSUME OrderInv, DrainInv', NEW t \in Threads, Dispatch(t)
    PROVE  OrderInv'
<1> DEFINE s == running[t]
           cmd == Head(m_parser[s])
           called == cmd \in PacketTypes[TypeOf[s]] /\ Target(t) # NoStack
<1>1. /\ stage[t] = "parse" /\ m_parser[s] # <<>>
      /\ m_parser' = [m_parser EXCEPT ![s] = Tail(m_parser[s])]
      /\ handled' = IF called
                    THEN [handled EXCEPT ![Target(t)]
                            = Append(handled[Target(t)], <<cmd, Route(cmd)>>)]
                    ELSE handled
      /\ lossy' = IF Target(t) = NoStack THEN lossy \cup {s} ELSE lossy
      /\ UNCHANGED <<accepted, m_rx_ring>>
  BY DEF Dispatch
<1>2. s \in Stacks /\ s # NoStack
  BY <1>1 DEF OrderInv, DrainInv, BindInv, BindTypes, CycleBound
<1>3. Target(t) # NoStack => Target(t) = s
  <2>1. BindInv
    BY DEF OrderInv, DrainInv
  <2> QED
    BY <1>2, <2>1, ThreadsAssumption DEF BindInv, BindTypes, CycleBound, ThreadBound, Target
<1>4. OfStacks(m_parser) /\ OfStacks(handled)
  BY DEF OrderInv, DrainInv
<1> HIDE DEF s, cmd
<1>5. m_parser'[s] = Tail(m_parser[s])
      /\ \A r \in Stacks : r # s => m_parser'[r] = m_parser[r]
  BY <1>1, <1>2, <1>4 DEF OfStacks
<1>6. /\ OfStacks(handled')
      /\ handled'[s] = IF called THEN Append(handled[s], <<cmd, Route(cmd)>>) ELSE handled[s]
      /\ \A r \in Stacks : r # s => handled'[r] = handled[r]
  <2>1. CASE called
    <3>1. handled' = [handled EXCEPT ![s] = Append(handled[s], <<cmd, Route(cmd)>>)]
      BY <1>1, <1>3, <2>1
    <3>2. OfStacks(handled')
      BY <1>2, <1>4, <3>1, ChangedAt
    <3> QED
      BY <1>2, <1>4, <2>1, <3>1, <3>2 DEF OfStacks
  <2>2. CASE ~ called
    BY <1>1, <1>4, <2>2
  <2> QED
    BY <2>1, <2>2
<1>7. Tracks(accepted[s], m_parser[s], m_rx_ring[s], handled[s],
             PacketTypes[TypeOf[s]], s \in lossy)
  BY <1>2 DEF OrderInv
<1>8. /\ (s \in lossy) => (s \in lossy')
      /\ \/ /\ cmd \in PacketTypes[TypeOf[s]]
            /\ handled'[s] = Append(handled[s], <<cmd, Route(cmd)>>)
         \/ /\ handled'[s] = handled[s]
            /\ cmd \notin PacketTypes[TypeOf[s]] \/ s \in lossy'
  BY <1>1, <1>6
<1>9. Tracks(accepted[s], Tail(m_parser[s]), m_rx_ring[s], handled'[s],
             PacketTypes[TypeOf[s]], s \in lossy')
  <2> DEFINE calls2 == handled'[s]
             lost2 == s \in lossy'
             parser == m_parser[s]
             pack == PacketTypes[TypeOf[s]]
  <2>1. /\ Tracks(accepted[s], parser, m_rx_ring[s], handled[s], pack, s \in lossy)
        /\ parser # <<>> /\ ((s \in lossy) => lost2)
        /\ \/ /\ Head(parser) \in pack
              /\ calls2 = Append(handled[s], <<Head(parser), Route(Head(parser))>>)
           \/ calls2 = handled[s] /\ (Head(parser) \notin pack \/ lost2)
    BY <1>1, <1>7, <1>8 DEF cmd
  <2> HIDE DEF calls2, lost2, parser, pack
  <2>2. Tracks(accepted[s], Tail(parser), m_rx_ring[s], calls2, pack, lost2)
    BY <2>1, TracksDispatch
  <2> QED
    BY <2>2 DEF calls2, lost2, parser, pack
<1>10. Tracks(accepted'[s], m_parser'[s], m_rx_ring'[s], handled'[s],
              PacketTypes[TypeOf[s]], s \in lossy')
  BY <1>1, <1>5, <1>9
<1>11. \A r \in Stacks : r # s => (r \in lossy' <=> r \in lossy)
  BY <1>1
<1> QED
  BY <1>1, <1>2, <1>5, <1>6, <1>10, <1>11, OrderOfOne

(* Every action preserves the invariant of the order.                      *)
LEMMA OrderStep == OrderInv /\ [Next]_vars => OrderInv'
<1> SUFFICES ASSUME OrderInv, [Next]_vars PROVE OrderInv'
  OBVIOUS
<1>0. DrainInv'
  BY DrainStep DEF OrderInv
<1>1. ASSUME NEW t \in Threads, NEW s \in Stacks,
             ProtocolStack(t, s) \/ bind_to_current_thread(t, s) \/ StartCycle(t, s)
      PROVE  OrderInv'
  BY <1>0, <1>1, OrderQuiet DEF ProtocolStack, bind_to_current_thread, StartCycle
<1>2. ASSUME NEW t \in Threads, NEW s \in Stacks, Destroy(t, s)
      PROVE  OrderInv'
  BY <1>0, <1>2, OrderDestroy
<1>3. ASSUME NEW s \in Stacks, NEW cmd \in Frames, isr_feed(s, cmd)
      PROVE  OrderInv'
  BY <1>0, <1>3, OrderFeed
<1>4. ASSUME NEW t \in Threads, run_one_cycle(t)
      PROVE  OrderInv'
  <2>1. CASE ReadChunk(t)
    BY <1>0, <2>1, OrderRead
  <2>2. CASE Dispatch(t)
    BY <1>0, <2>2, OrderDispatch
  <2>3. CASE Parsed(t) \/ RingEmpty(t) \/ EndCycle(t)
    BY <1>0, <2>3, OrderQuiet DEF Parsed, RingEmpty, EndCycle
  <2> QED
    BY <1>4, <2>1, <2>2, <2>3 DEF run_one_cycle
<1>5. CASE UNCHANGED vars
  BY <1>0, <1>5, OrderQuiet DEF vars
<1> QED
  BY <1>1, <1>2, <1>3, <1>4, <1>5 DEF Next

(* For every capacity, chunk and number of stacks and threads, frames are  *)
(* handled at most once, in the order of arrival, by the stack they came   *)
(* to; only a refused chunk or a dispatch that finds nobody loses any      *)
(* behind the ring (ProtocolStack.hpp:244-255, 539-543).                   *)
THEOREM FramesInOrder == Spec => []InOrder
<1>1. OrderInv => InOrder
  <2> SUFFICES ASSUME OrderInv, NEW s \in Stacks
               PROVE  /\ m_parser[s] \o m_rx_ring[s]
                           = SubSeq(accepted[s], Passed(s) + 1, Len(accepted[s]))
                      /\ \E at \in [DOMAIN handled[s] -> Mine(s)] :
                           /\ \A i, j \in DOMAIN at : i < j => at[i] < at[j]
                           /\ \A i \in DOMAIN at : handled[s][i][1] = accepted[s][at[i]]
                           /\ s \in lossy \/ Mine(s) \subseteq Range(at)
    BY DEF InOrder
  <2> DEFINE taken == accepted[s]
             parser == m_parser[s]
             ring == m_rx_ring[s]
             calls == handled[s]
             pack == PacketTypes[TypeOf[s]]
             m == Passed(s)
  <2>1. Tracks(taken, parser, ring, calls, pack, s \in lossy)
    BY DEF OrderInv
  <2>2. m = PassedOf(taken, parser, ring) /\ Mine(s) = MineOf(taken, m, pack)
    BY DEF Passed, PassedOf, Mine, MineOf
  <2> HIDE DEF taken, parser, ring, calls, pack, m
  <2>3. /\ taken \in Seq(Frames) /\ parser \in Seq(Frames) /\ ring \in Seq(Frames)
        /\ calls \in Seq(Calls) /\ m \in Nat
        /\ Len(taken) = m + Len(parser) + Len(ring)
        /\ \A i \in 1 .. Len(parser) : parser[i] = taken[m + i]
        /\ \A i \in 1 .. Len(ring) : ring[i] = taken[m + Len(parser) + i]
    BY <2>1, <2>2 DEF Tracks, PassedOf
  <2>4. PICK at : Embeds(at, taken, calls, Mine(s), s \in lossy)
    BY <2>1, <2>2 DEF Tracks
  <2>5. parser \o ring = SubSeq(taken, m + 1, Len(taken))
    <3> DEFINE u == parser \o ring
               v == SubSeq(taken, m + 1, Len(taken))
               p == Len(parser)
               r == Len(ring)
    <3>1. /\ u \in Seq(Frames) /\ Len(u) = p + r /\ p \in Nat /\ r \in Nat
          /\ \A i \in 1 .. p + r : u[i] = IF i <= p THEN parser[i] ELSE ring[i - p]
      BY <2>3, ConcatProperties
    <3>2. /\ v \in Seq(Frames) /\ Len(v) = p + r
          /\ \A i \in 1 .. p + r : v[i] = taken[m + i]
      BY <2>3
    <3>3. ASSUME NEW i \in 1 .. p + r PROVE u[i] = v[i]
      <4>1. CASE i <= p
        BY <2>3, <3>1, <3>2, <4>1
      <4>2. CASE ~ (i <= p)
        <5>1. i - p \in 1 .. r /\ m + p + (i - p) = m + i
          BY <2>3, <3>1, <4>2
        <5> QED
          BY <2>3, <3>1, <3>2, <4>2, <5>1
      <4> QED
        BY <4>1, <4>2
    <3> HIDE DEF u, v
    <3>4. u = v
      BY <3>1, <3>2, <3>3, SeqEqual
    <3> QED
      BY <3>4 DEF u, v
  <2>6. DOMAIN calls = 1 .. Len(calls)
    BY <2>3
  <2>7. /\ at \in [DOMAIN calls -> Mine(s)] /\ DOMAIN at = 1 .. Len(calls)
        /\ \A i, j \in DOMAIN at : i < j => at[i] < at[j]
        /\ \A i \in DOMAIN at : calls[i][1] = taken[at[i]]
        /\ s \in lossy \/ Mine(s) \subseteq Range(at)
    BY <2>4, <2>6 DEF Embeds, Range
  <2> QED
    BY <2>5, <2>7 DEF taken, parser, ring, calls, m
<1> QED
  BY <1>1, OrderInit, OrderStep, PTL DEF Spec
-----------------------------------------------------------------------------
(***************************************************************************)
(* Which function gets a packet.                                           *)
(***************************************************************************)
MotorFeedback == Arm!Status("MotorFeedbackArray")

\* Ids of requests and responses, as Route tells them apart.
RoutesPairs(cmds) ==
    \A k \in DOMAIN cmds : Route(cmds[k][1]) = "request" /\ Route(cmds[k][2]) = "response"

(* All of the headers' packets, one exception.                             *)
LEMMA RolesById ==
    \A p \in Arm!Catalogue \ {MotorFeedback} : Route(p.cmd) = p.role
<1>1. Route(Arm!Ack.cmd) = Arm!Ack.role
  BY DEF Arm!Ack, Arm!AckCmd, Arm!Packet, Route, ACK_CMD
<1>2. \A f \in Arm!Families : RoutesPairs(f)
  <2> USE DEF Route, is_request_cmd, ACK_CMD, RoutesPairs
  <2>1. RoutesPairs(Arm!JointCmds)
    BY DEF Arm!JointCmds
  <2>2. RoutesPairs(Arm!ArmCmds)
    BY DEF Arm!ArmCmds
  <2>3. RoutesPairs(Arm!ClientCmds)
    BY DEF Arm!ClientCmds
  <2>4. RoutesPairs(Arm!SessionCmds)
    BY DEF Arm!SessionCmds
  <2>5. RoutesPairs(Arm!FeedbackCmds)
    BY DEF Arm!FeedbackCmds
  <2> USE DEF RoutesPairs
  <2> QED
    BY ONLY <2>1, <2>2, <2>3, <2>4, <2>5 DEF Arm!Families
<1>3. RoutesPairs(Arm!ReliableCmds)
  <2> DEFINE All == UNION {DOMAIN f : f \in Arm!Families}
             Of(k) == CHOOSE f \in Arm!Families : k \in DOMAIN f
  <2>1. Arm!ReliableCmds = [k \in All |-> Of(k)[k]]
    BY DEF Arm!ReliableCmds
  <2>2. ASSUME NEW k \in All PROVE Of(k) \in Arm!Families /\ k \in DOMAIN Of(k)
    OBVIOUS
  <2> HIDE DEF All, Of
  <2> QED
    BY <1>2, <2>1, <2>2 DEF RoutesPairs
<1>4. \A n \in DOMAIN Arm!RealTimeCmds : Route(Arm!RealTimeCmds[n]) = "request"
  BY DEF Arm!RealTimeCmds, Route, is_request_cmd, ACK_CMD
<1>5. \A n \in DOMAIN Arm!TelemetryCmds :
          n # "MotorFeedbackArray" => Route(Arm!TelemetryCmds[n]) = "request"
  BY DEF Arm!TelemetryCmds, Route, is_request_cmd, ACK_CMD
<1>6. ASSUME NEW k \in DOMAIN Arm!ReliableCmds
      PROVE  /\ Route(Arm!Request(k).cmd) = Arm!Request(k).role
             /\ Route(Arm!Response(k).cmd) = Arm!Response(k).role
  BY <1>3, <1>6 DEF RoutesPairs, Arm!Request, Arm!Response, Arm!Packet
<1>7. ASSUME NEW n \in DOMAIN Arm!RealTimeCmds
      PROVE  Route(Arm!RealTime(n).cmd) = Arm!RealTime(n).role
  BY <1>4 DEF Arm!RealTime, Arm!Packet
<1>8. ASSUME NEW n \in DOMAIN Arm!TelemetryCmds, Arm!Status(n) # MotorFeedback
      PROVE  Route(Arm!Status(n).cmd) = Arm!Status(n).role
  BY <1>5, <1>8 DEF Arm!Status, Arm!Packet, MotorFeedback
<1> QED
  BY <1>1, <1>6, <1>7, <1>8 DEF Arm!Catalogue

(* Whichever packets of the two headers arrive, but for                    *)
(* MotorFeedbackArray, and in whichever programs: each reaches the         *)
(* function that its type calls for (ProtocolStack.hpp:224-240, 412-415).  *)
THEOREM EveryPacketRouted ==
    ASSUME Frames \subseteq {p.cmd : p \in Arm!Catalogue \ {MotorFeedback}}
    PROVE  Spec => []RoutedByRole
<1>1. OrderInv => RoutedByRole
  <2> SUFFICES ASSUME OrderInv, NEW s \in Stacks, NEW i \in DOMAIN handled[s]
               PROVE  \E p \in Arm!Catalogue : handled[s][i] = <<p.cmd, p.role>>
    BY DEF RoutedByRole
  <2>1. handled[s] \in Seq(Calls)
    BY DEF OrderInv, Tracks
  <2>2. PICK cmd \in Frames : handled[s][i] = <<cmd, Route(cmd)>>
    <3>1. handled[s][i] \in Calls
      BY <2>1
    <3> QED
      BY <3>1 DEF Calls
  <2>3. PICK p \in Arm!Catalogue \ {MotorFeedback} : p.cmd = cmd
    OBVIOUS
  <2>4. Route(p.cmd) = p.role
    BY RolesById
  <2> QED
    BY <2>2, <2>3, <2>4
<1> QED
  BY <1>1, OrderInit, OrderStep, PTL DEF Spec

-----------------------------------------------------------------------------
(***************************************************************************)
(* TypeOK.  The rings keep within their capacity, instance() of a type is  *)
(* of that type, and who is bound is alive.                                *)
(***************************************************************************)
RingsFit == \A s \in Stacks : TotalBytes(m_rx_ring[s]) <= RingCapacity

InstancesTyped ==
    \A type \in Types, t \in Threads :
        instance[type][t] # NoStack => TypeOf[instance[type][t]] = type

BoundAlive == \A t \in Threads : bound[t] # NoStack => bound[t] \in alive

TypeInv == OrderInv /\ RingsFit /\ InstancesTyped /\ BoundAlive

(* Bound and typed after a step of the application.                        *)
LEMMA BindTyped ==
    ASSUME TypeInv, NEW t \in Threads, NEW s \in Stacks, Bind(t, s), alive' \in {alive, alive \cup {s}},
           s \in alive'
    PROVE  InstancesTyped' /\ BoundAlive'
<1> USE ThreadsAssumption
<1>0. TypeOf[s] \in Types /\ s # NoStack
  OBVIOUS
<1>1. BindTypes
  BY DEF TypeInv, OrderInv, DrainInv, BindInv
<1>2. ASSUME NEW type \in Types, NEW u \in Threads, instance'[type][u] # NoStack
      PROVE  TypeOf[instance'[type][u]] = type
  <2>1. CASE type = TypeOf[s] /\ u = t
    <3>1. instance'[type][u] = s
      BY <1>0, <1>1, <2>1 DEF Bind, BindTypes
    <3> QED
      BY <2>1, <3>1
  <2>2. CASE ~ (type = TypeOf[s] /\ u = t)
    <3>1. instance'[type][u] = instance[type][u]
      BY <1>0, <1>1, <2>2 DEF Bind, BindTypes
    <3> QED
      BY <1>2, <3>1 DEF TypeInv, InstancesTyped
  <2> QED
    BY <2>1, <2>2
<1>3. ASSUME NEW u \in Threads, bound'[u] # NoStack PROVE bound'[u] \in alive'
  BY <1>1, <1>3 DEF Bind, BindTypes, TypeInv, BoundAlive
<1> QED
  BY <1>2, <1>3 DEF InstancesTyped, BoundAlive

(* and after the destruction of a stack.                                   *)
LEMMA DestroyTyped ==
    ASSUME TypeInv, NEW t \in Threads, NEW s \in Stacks, Destroy(t, s)
    PROVE  InstancesTyped' /\ BoundAlive'
<1> USE ThreadsAssumption
<1>1. BindTypes
  BY DEF TypeInv, OrderInv, DrainInv, BindInv
<1>2. /\ alive' = alive \ {s}
      /\ bound' = [u \in Threads |-> IF bound[u] = s THEN NoStack ELSE bound[u]]
      /\ instance' \in {instance, [instance EXCEPT ![TypeOf[s]][t] = NoStack]}
  BY DEF Destroy
<1>3. ASSUME NEW type \in Types, NEW u \in Threads, instance'[type][u] # NoStack
      PROVE  TypeOf[instance'[type][u]] = type
  <2>1. instance'[type][u] \in {instance[type][u], NoStack}
    BY <1>1, <1>2 DEF BindTypes
  <2> QED
    BY <1>3, <2>1 DEF TypeInv, InstancesTyped
<1>4. ASSUME NEW u \in Threads, bound'[u] # NoStack PROVE bound'[u] \in alive'
  BY <1>2, <1>4 DEF TypeInv, BoundAlive
<1> QED
  BY <1>3, <1>4 DEF InstancesTyped, BoundAlive

(* A frame goes into a ring only if it fits, and comes out of it whole.    *)
LEMMA RingsKept ==
    ASSUME TypeInv, NEW s \in Stacks, NEW ring,
           m_rx_ring' = [m_rx_ring EXCEPT ![s] = ring], TotalBytes(ring) <= RingCapacity
    PROVE  RingsFit'
<1>1. ASSUME NEW r \in Stacks PROVE TotalBytes(m_rx_ring'[r]) <= RingCapacity
  <2>1. m_rx_ring'[r] = IF r = s THEN ring ELSE m_rx_ring[r]
    <3>1. OfStacks(m_rx_ring)
      BY DEF TypeInv, OrderInv, DrainInv
    <3> QED
      BY <3>1 DEF OfStacks
  <2> QED
    BY <2>1 DEF TypeInv, RingsFit
<1> QED
  BY <1>1 DEF RingsFit

(* Whoever leaves rings, bindings and stacks alone keeps the invariant.    *)
LEMMA TypeQuiet ==
    ASSUME TypeInv, OrderInv', UNCHANGED <<m_rx_ring, instance, bound, alive>>
    PROVE  TypeInv'
BY DEF TypeInv, RingsFit, InstancesTyped, BoundAlive

(* Every action preserves the invariant.                                   *)
LEMMA TypeStep == TypeInv /\ [Next]_vars => TypeInv'
<1> SUFFICES ASSUME TypeInv, [Next]_vars PROVE TypeInv'
  OBVIOUS
<1>0. OrderInv'
  BY OrderStep DEF TypeInv
<1>1. \A s \in Stacks : /\ m_rx_ring[s] \in Seq(Frames)
                        /\ TotalBytes(m_rx_ring[s]) <= RingCapacity
                        /\ TotalBytes(m_rx_ring[s]) \in Nat
  <2>1. ASSUME NEW s \in Stacks PROVE m_rx_ring[s] \in Seq(Frames)
    BY DEF TypeInv, OrderInv, Tracks
  <2>2. ASSUME NEW s \in Stacks PROVE TotalBytes(m_rx_ring[s]) \in Nat
    <3>1. m_rx_ring[s] \in Seq(Frames) /\ DOMAIN m_rx_ring[s] \in SUBSET DOMAIN m_rx_ring[s]
      BY <2>1
    <3> QED
      BY <3>1, TotalIsCount, BytesFinite
  <2> QED
    BY <2>1, <2>2 DEF TypeInv, RingsFit
<1>2. TotalBytes(<<>>) <= RingCapacity
  <2>1. TotalBytes(<<>>) = 0
    <3>1. <<>> \in Seq(Frames) /\ DOMAIN <<>> = {}
      OBVIOUS
    <3>2. CountAt(<<>>, {}) = 0
      BY FS_EmptySet DEF CountAt, BytesAt
    <3> QED
      BY <3>1, <3>2, TotalIsCount
  <2>2. RingCapacity \in Nat
    BY ReadAssumption
  <2> QED
    BY <2>1, <2>2
<1>3. ASSUME NEW t \in Threads, NEW s \in Stacks,
             ProtocolStack(t, s) \/ bind_to_current_thread(t, s)
      PROVE  TypeInv'
  <2>1. /\ Bind(t, s) /\ alive' \in {alive, alive \cup {s}} /\ s \in alive'
        /\ UNCHANGED m_rx_ring
    BY <1>3 DEF ProtocolStack, bind_to_current_thread, traffic
  <2>2. RingsFit'
    BY <2>1 DEF TypeInv, RingsFit
  <2> QED
    BY <1>0, <2>1, <2>2, BindTyped DEF TypeInv
<1>4. ASSUME NEW t \in Threads, NEW s \in Stacks, Destroy(t, s)
      PROVE  TypeInv'
  <2>1. RingsFit'
    BY <1>2, <1>4, RingsKept DEF Destroy
  <2> QED
    BY <1>0, <1>4, <2>1, DestroyTyped DEF TypeInv
<1>5. ASSUME NEW t \in Threads, NEW s \in Stacks, StartCycle(t, s)
      PROVE  TypeInv'
  BY <1>0, <1>5, TypeQuiet DEF StartCycle, binding, traffic
<1>6. ASSUME NEW s \in Stacks, NEW cmd \in Frames, isr_feed(s, cmd)
      PROVE  TypeInv'
  <2>1. UNCHANGED <<instance, bound, alive>>
    BY <1>6 DEF isr_feed, binding
  <2>2. CASE FitsRing(m_rx_ring[s], cmd)
    <3>1. m_rx_ring' = [m_rx_ring EXCEPT ![s] = Append(m_rx_ring[s], cmd)]
      BY <1>6, <2>2 DEF isr_feed
    <3>2. TotalBytes(Append(m_rx_ring[s], cmd)) = TotalBytes(m_rx_ring[s]) + FrameBytes[cmd]
      BY <1>1, TotalAppend
    <3>3. TotalBytes(Append(m_rx_ring[s], cmd)) <= RingCapacity
      BY <2>2, <3>2 DEF FitsRing
    <3>4. RingsFit'
      BY <3>1, <3>3, RingsKept
    <3> QED
      BY <1>0, <2>1, <3>4 DEF TypeInv, InstancesTyped, BoundAlive
  <2>3. CASE ~ FitsRing(m_rx_ring[s], cmd)
    BY <1>0, <1>6, <2>1, <2>3, TypeQuiet DEF isr_feed
  <2> QED
    BY <2>2, <2>3
<1>7. ASSUME NEW t \in Threads, run_one_cycle(t)
      PROVE  TypeInv'
  <2>1. CASE ReadChunk(t)
    <3> DEFINE s == running[t]
               n == ReadLength(m_rx_ring[s])
               ring == AfterRead(m_rx_ring[s], n)
    <3>1. /\ stage[t] = "drain" /\ m_rx_ring[s] # <<>>
          /\ m_rx_ring' = [m_rx_ring EXCEPT ![s] = ring]
          /\ UNCHANGED <<instance, bound, alive>>
      BY <2>1 DEF ReadChunk, binding
    <3>2. s \in Stacks
      BY <3>1 DEF TypeInv, OrderInv, DrainInv, BindInv, BindTypes, CycleBound
    <3>3. n \in 1 .. Len(m_rx_ring[s]) /\ m_rx_ring[s] \in Seq(Frames)
      BY <1>1, <3>1, <3>2, ReadTakesFrames
    <3> HIDE DEF n
    <3>4. ring \in Seq(Frames) /\ TotalBytes(ring) <= TotalBytes(m_rx_ring[s])
      BY <3>3, TotalAfterRead
    <3>5. TotalBytes(ring) \in Nat
      <4> HIDE DEF ring
      <4>1. DOMAIN ring \in SUBSET DOMAIN ring
        OBVIOUS
      <4> QED
        BY <3>4, <4>1, TotalIsCount, BytesFinite
    <3>6. TotalBytes(ring) <= RingCapacity
      BY <1>1, <3>2, <3>4, <3>5, ReadAssumption
    <3>7. RingsFit'
      BY <3>1, <3>2, <3>6, RingsKept
    <3> QED
      BY <1>0, <3>1, <3>7 DEF TypeInv, InstancesTyped, BoundAlive
  <2>2. CASE Dispatch(t) \/ Parsed(t) \/ RingEmpty(t) \/ EndCycle(t)
    BY <1>0, <2>2, TypeQuiet DEF Dispatch, Parsed, RingEmpty, EndCycle, binding, traffic
  <2> QED
    BY <1>7, <2>1, <2>2 DEF run_one_cycle
<1>8. CASE UNCHANGED vars
  BY <1>0, <1>8, TypeQuiet DEF vars, binding, traffic
<1> QED
  BY <1>3, <1>4, <1>5, <1>6, <1>7, <1>8 DEF Next

(* The rings never hold more than their capacity, whatever arrives, and    *)
(* bindings, cycles and parsers are where the stages of the cycles say     *)
(* (ProtocolStack.hpp:46-96, 199-205, 244-255).                            *)
THEOREM ReceiveTypeCorrect == Spec => []TypeOK
<1>1. Init => TypeInv
  <2> SUFFICES ASSUME Init PROVE TypeInv
    OBVIOUS
  <2>1. <<>> \in Seq(Frames) /\ DOMAIN <<>> = {} /\ RingCapacity \in Nat
    BY ReadAssumption
  <2>2. TotalBytes(<<>>) = 0
    BY <2>1, TotalIsCount, FS_EmptySet DEF CountAt, BytesAt
  <2>3. RingsFit
    BY <2>1, <2>2 DEF Init, RingsFit
  <2> QED
    BY <2>3, OrderInit DEF Init, TypeInv, InstancesTyped, BoundAlive
<1>2. TypeInv => TypeOK
  <2> SUFFICES ASSUME TypeInv PROVE TypeOK
    OBVIOUS
  <2>1. BindTypes /\ CycleBound /\ \A t \in Threads : ThreadDrains(t)
    BY DEF TypeInv, OrderInv, DrainInv, BindInv
  <2>2. ASSUME NEW t \in Threads
        PROVE  /\ running[t] \in {NoStack, bound[t]}
               /\ (stage[t] = "idle") = (running[t] = NoStack)
               /\ running[t] # NoStack /\ stage[t] # "parse" => m_parser[running[t]] = <<>>
    BY <2>1 DEF CycleBound, ThreadDrains
  <2> QED
    BY <2>1, <2>2 DEF TypeOK, TypeInv, BindTypes, RingsFit, InstancesTyped, BoundAlive
<1>3. TypeInv /\ [Next]_vars => TypeInv'
  BY TypeStep
<1> QED
  BY <1>1, <1>2, <1>3, PTL DEF Spec
=============================================================================
