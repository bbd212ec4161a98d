----------------------------- MODULE ReceivePath ----------------------------
(***************************************************************************)
(* The way of a received packet through a program with several stacks and  *)
(* threads: interrupt -> m_rx_ring -> drain_rx -> parser -> after_parse -> *)
(* ProtocolDispatch::on_packet() -> instance() -> handle_packet_internal.  *)
(*                                                                         *)
(* Neither the parser nor after_parse knows the stack the bytes came from. *)
(* on_packet() is one function pointer per thread, shared by the stacks of *)
(* every type (a "type" is an instantiation of the class template);        *)
(* instance() is one pointer per thread and type.  The constructor and     *)
(* bind_to_current_thread set both, the destructor may clear both.         *)
(*                                                                         *)
(* The discipline assumed of the program: a thread runs a cycle of the     *)
(* stack it bound last, no two threads run one stack, and nothing is       *)
(* built, bound or destroyed on a thread inside its cycle.  A stack is     *)
(* named by its storage, which is used again after its destruction.        *)
(*                                                                         *)
(* The unit of data is a whole frame; sizes are bytes.                     *)
(***************************************************************************)
EXTENDS PacketClasses, Sequences, SequencesExt

CONSTANTS
    Threads, Stacks,
    NoStack, NoType,    \* null pointers
    Types, TypeOf,      \* the type of each stack
    PacketTypes,        \* type -> command ids in its parameter pack
    Frames, FrameBytes, \* command ids that arrive, and the sizes of their frames
    RingCapacity,       \* bytes in m_rx_ring (4096)
    ReadMax,            \* bytes in the buffer of drain_rx (256)
    ParserSize,         \* type -> bytes in the buffer of its parser
    SureRoom,           \* type -> what push_data never refuses (NeverRefused)
    MaxFrames           \* bound: frames fed to the stacks that live

ASSUME ThreadsAssumption ==
    /\ TypeOf \in [Stacks -> Types]
    /\ NoStack \notin Stacks
    /\ NoType \notin Types

\* No frame is longer than one read (the longest has 136 bytes, a read 256).
ASSUME ReadAssumption ==
    /\ ReadMax \in Nat /\ RingCapacity \in Nat
    /\ \A cmd \in Frames : FrameBytes[cmd] \in 1 .. ReadMax

VARIABLES
    on_packet,      \* thread -> the type whose lambda on_packet() holds
    instance,       \* type -> thread -> the stack instance() points to
    alive,          \* stacks constructed and not destroyed
    m_rx_ring,      \* stack -> frames in its ISR ring
    m_parser,       \* stack -> frames pushed into its parser
    running,        \* thread -> the stack whose cycle it runs
    stage,          \* thread -> its place in that cycle
    bound,          \* history: thread -> the live stack it bound last
    disturbed,      \* history: threads that have since destroyed a stack of
                    \* another type
    accepted,       \* history: stack -> frames its ring took, in this life
    handled,        \* history: stack -> <<frame, route>> it was called with
    lossy,          \* history: stacks that lost a frame behind the ring
    due             \* history: thread -> what had arrived when its cycle began

binding == <<on_packet, instance, alive, bound, disturbed>>
traffic == <<m_rx_ring, m_parser, accepted, handled, lossy>>
vars == <<binding, traffic, running, stage, due>>

Init ==
    /\ on_packet = [t \in Threads |-> NoType]
    /\ instance = [c \in Types |-> [t \in Threads |-> NoStack]]
    /\ alive = {}
    /\ m_rx_ring = [s \in Stacks |-> <<>>]
    /\ m_parser = [s \in Stacks |-> <<>>]
    /\ running = [t \in Threads |-> NoStack]
    /\ stage = [t \in Threads |-> "idle"]
    /\ bound = [t \in Threads |-> NoStack]
    /\ disturbed = {}
    /\ accepted = [s \in Stacks |-> <<>>]
    /\ handled = [s \in Stacks |-> <<>>]
    /\ lossy = {}
    /\ due = [t \in Threads |-> 0]

-----------------------------------------------------------------------------
(***************************************************************************)
(* Binding.                                                                *)
(***************************************************************************)
Idle(t) == stage[t] = "idle"

\* Fault: a pointer that is already set is left alone.
Bind_KeepsInstance(t, s) ==
    /\ on_packet' = [on_packet EXCEPT ![t] = TypeOf[s]]
    /\ instance' = [instance EXCEPT ![TypeOf[s]][t] = IF @ = NoStack THEN s ELSE @]
    /\ bound' = [bound EXCEPT ![t] = s]
    /\ disturbed' = disturbed \ {t}

Bind(t, s) ==
    /\ on_packet' = [on_packet EXCEPT ![t] = TypeOf[s]]
    /\ instance' = [instance EXCEPT ![TypeOf[s]][t] = s]
    /\ bound' = [bound EXCEPT ![t] = s]
    /\ disturbed' = disturbed \ {t}

ProtocolStack(t, s) ==
    /\ Idle(t) /\ s \notin alive
    /\ alive' = alive \cup {s}
    /\ Bind(t, s)
    /\ UNCHANGED <<traffic, running, stage, due>>

bind_to_current_thread(t, s) ==
    /\ Idle(t) /\ s \in alive
    /\ Bind(t, s)
    /\ UNCHANGED <<alive, traffic, running, stage, due>>

\* Fault: the destructor does not ask whose binding it clears.
ClearsBinding_Always(t, s) == TRUE

\* The destructor clears the thread's binding only if instance() is its own.
ClearsBinding(t, s) == instance[TypeOf[s]][t] = s

\* ~ProtocolStack; its members go with it.
Destroy(t, s) ==
    /\ Idle(t) /\ s \in alive
    /\ \A u \in Threads : running[u] # s
    /\ alive' = alive \ {s}
    /\ IF ClearsBinding(t, s)
       THEN /\ instance' = [instance EXCEPT ![TypeOf[s]][t] = NoStack]
            /\ on_packet' = [on_packet EXCEPT ![t] = NoType]
       ELSE UNCHANGED <<instance, on_packet>>
    /\ bound' = [u \in Threads |-> IF bound[u] = s THEN NoStack ELSE bound[u]]
    /\ disturbed' = IF bound[t] # NoStack /\ TypeOf[bound[t]] # TypeOf[s]
                    THEN disturbed \cup {t} ELSE disturbed
    /\ m_rx_ring' = [m_rx_ring EXCEPT ![s] = <<>>]
    /\ m_parser' = [m_parser EXCEPT ![s] = <<>>]
    /\ accepted' = [accepted EXCEPT ![s] = <<>>]
    /\ handled' = [handled EXCEPT ![s] = <<>>]
    /\ lossy' = lossy \ {s}
    /\ UNCHANGED <<running, stage, due>>

-----------------------------------------------------------------------------
(***************************************************************************)
(* Arrival and drain_rx.                                                   *)
(***************************************************************************)
TotalBytes(q) == FoldSeq(LAMBDA cmd, sum : sum + FrameBytes[cmd], 0, q)

\* Fault: the ring takes what it has no room for.
FitsRing_Any(q, cmd) == TRUE

FitsRing(q, cmd) == TotalBytes(q) + FrameBytes[cmd] <= RingCapacity

\* A chunk that does not fit the ring is dropped.
isr_feed(s, cmd) ==
    /\ s \in alive
    /\ FoldFunction(LAMBDA q, n : Len(q) + n, 0, accepted) < MaxFrames
    /\ IF FitsRing(m_rx_ring[s], cmd)
       THEN /\ m_rx_ring' = [m_rx_ring EXCEPT ![s] = Append(@, cmd)]
            /\ accepted' = [accepted EXCEPT ![s] = Append(@, cmd)]
       ELSE UNCHANGED <<m_rx_ring, accepted>>
    /\ UNCHANGED <<binding, m_parser, handled, lossy, running, stage, due>>

StartCycle(t, s) ==
    /\ Idle(t) /\ bound[t] = s
    /\ \A u \in Threads : running[u] # s
    /\ running' = [running EXCEPT ![t] = s]
    /\ stage' = [stage EXCEPT ![t] = "drain"]
    /\ due' = [due EXCEPT ![t] = Len(accepted[s])]
    /\ UNCHANGED <<binding, traffic>>

\* What one read takes: the whole frames that fit ReadMax bytes.
FitsRead(q, n) == TotalBytes(SubSeq(q, 1, n)) <= ReadMax
ReadLength(q) ==
    CHOOSE n \in 1 .. Len(q) : FitsRead(q, n) /\ (n < Len(q) => ~ FitsRead(q, n + 1))

MayAccept(s, chunk) == TotalBytes(chunk) <= ParserSize[TypeOf[s]]
MayRefuse(s, chunk) == TotalBytes(chunk) > SureRoom[TypeOf[s]]

\* Fault: a read takes all there is out of the ring.
AfterRead_All(q, n) == <<>>

AfterRead(q, n) == SubSeq(q, n + 1, Len(q))

\* One turn of the loop: read a chunk and push it, the result ignored.
ReadChunk(t) ==
    LET s == running[t]
        n == ReadLength(m_rx_ring[s])
        chunk == SubSeq(m_rx_ring[s], 1, n)
    IN /\ stage[t] = "drain" /\ m_rx_ring[s] # <<>>
       /\ m_rx_ring' = [m_rx_ring EXCEPT ![s] = AfterRead(@, n)]
       /\ \/ /\ MayAccept(s, chunk)
             /\ m_parser' = [m_parser EXCEPT ![s] = @ \o chunk]
             /\ stage' = [stage EXCEPT ![t] = "parse"]
             /\ UNCHANGED lossy
          \/ /\ MayRefuse(s, chunk)
             /\ lossy' = lossy \cup {s}
             /\ UNCHANGED <<m_parser, stage>>
       /\ UNCHANGED <<binding, accepted, handled, running, due>>

\* Whom dispatch_after_parse calls on thread t.
Target(t) == IF on_packet[t] = NoType THEN NoStack ELSE instance[on_packet[t]][t]

\* The parser meets the next frame.  One outside the stack's pack is skipped as
\* garbage; without a target the packet is dropped.
Dispatch(t) ==
    LET s == running[t]
        cmd == Head(m_parser[s])
    IN /\ stage[t] = "parse" /\ m_parser[s] # <<>>
       /\ m_parser' = [m_parser EXCEPT ![s] = Tail(@)]
       /\ handled' = IF cmd \in PacketTypes[TypeOf[s]] /\ Target(t) # NoStack
                     THEN [handled EXCEPT ![Target(t)] = Append(@, <<cmd, Route(cmd)>>)]
                     ELSE handled
       /\ lossy' = IF Target(t) = NoStack THEN lossy \cup {s} ELSE lossy
       /\ UNCHANGED <<binding, m_rx_ring, accepted, running, stage, due>>

Parsed(t) ==
    /\ stage[t] = "parse" /\ m_parser[running[t]] = <<>>
    /\ stage' = [stage EXCEPT ![t] = "drain"]
    /\ UNCHANGED <<binding, traffic, running, due>>

\* Fault: the loop may end with frames left in the ring.
RingEmpty_Any(t) ==
    /\ stage[t] = "drain"
    /\ stage' = [stage EXCEPT ![t] = "rest"]
    /\ UNCHANGED <<binding, traffic, running, due>>

RingEmpty(t) ==
    /\ stage[t] = "drain" /\ m_rx_ring[running[t]] = <<>>
    /\ stage' = [stage EXCEPT ![t] = "rest"]
    /\ UNCHANGED <<binding, traffic, running, due>>

\* The steps of the cycle after drain_rx.
EndCycle(t) ==
    /\ stage[t] = "rest"
    /\ running' = [running EXCEPT ![t] = NoStack]
    /\ stage' = [stage EXCEPT ![t] = "idle"]
    /\ due' = [due EXCEPT ![t] = 0]
    /\ UNCHANGED <<binding, traffic>>

run_one_cycle(t) == ReadChunk(t) \/ Dispatch(t) \/ Parsed(t) \/ RingEmpty(t) \/ EndCycle(t)

Next ==
    \/ \E t \in Threads, s \in Stacks :
         ProtocolStack(t, s) \/ bind_to_current_thread(t, s) \/ Destroy(t, s)
           \/ StartCycle(t, s)
    \/ \E s \in Stacks, cmd \in Frames : isr_feed(s, cmd)
    \/ \E t \in Threads : run_one_cycle(t)

Spec == Init /\ [][Next]_vars

-----------------------------------------------------------------------------
(* While a stack's cycle runs, the packets its parser finds go to that     *)
(* stack or, if a destructor has cleared the binding, to nobody: never to  *)
(* another stack, and never through a pointer left behind by one that is   *)
(* gone (ProtocolStack.hpp:46-86, 539-543; ProtocolDispatch.hpp:14-18).    *)
OwnPacketsOnly ==
    \A t \in Threads : running[t] # NoStack => Target(t) \in {running[t], NoStack}

(* A thread's packets reach the stack it bound last, for as long as it     *)
(* destroys no stack of another type: building, rebinding and destroying   *)
(* stacks of the same type, on this thread or others, takes nothing away   *)
(* (ProtocolStack.hpp:59-66).                                              *)
BindingHolds ==
    \A t \in Threads :
        bound[t] # NoStack /\ t \notin disturbed => Target(t) = bound[t]

(* What the ring took is handled at most once, in order and by its own     *)
(* stack.  What waits in parser and ring is the newest of it; the handler's*)
(* calls match, one by one and in order, frames before that, and all of    *)
(* the stack's types unless a dispatch found nobody or the parser refused  *)
(* a chunk (ProtocolStack.hpp:244-255, 539-543).                           *)
Passed(s) == Len(accepted[s]) - Len(m_parser[s]) - Len(m_rx_ring[s])
Mine(s) == {j \in 1 .. Passed(s) : accepted[s][j] \in PacketTypes[TypeOf[s]]}
InOrder ==
    \A s \in Stacks :
        /\ m_parser[s] \o m_rx_ring[s]
             = SubSeq(accepted[s], Passed(s) + 1, Len(accepted[s]))
        /\ \E at \in [DOMAIN handled[s] -> Mine(s)] :
             /\ \A i, j \in DOMAIN at : i < j => at[i] < at[j]
             /\ \A i \in DOMAIN at : handled[s][i][1] = accepted[s][at[i]]
             /\ s \in lossy \/ Mine(s) \subseteq Range(at)

(* The cycle leaves drain_rx only when everything that had arrived before  *)
(* it began is out of ring and parser, whatever arrives meanwhile          *)
(* (ProtocolStack.hpp:244-255).                                            *)
DrainsAll ==
    \A t \in Threads :
        stage[t] = "rest" =>
            Len(accepted[running[t]]) - Len(m_rx_ring[running[t]])
              - Len(m_parser[running[t]]) >= due[t]
=============================================================================
