---------------------------- MODULE MCReceivePath ---------------------------
(***************************************************************************)
(* Two threads and three stacks, two of them of the type of send_serial    *)
(* and receive_serial and one with every packet of the arm, in one         *)
(* program.                                                                *)
(***************************************************************************)
EXTENDS ReceivePath

CONSTANTS a, b, c

Arm == INSTANCE ArmPackets

StackTypes == (a :> "serial") @@ (b :> "serial") @@ (c :> "arm")
Packs == [serial |-> Arm!SerialPack, arm |-> Arm!Catalogue]
Cmds == [type \in DOMAIN Packs |-> {p.cmd : p \in Packs[type]}]
Buffers == [type \in DOMAIN Packs |-> Arm!BufferSize(Packs[type])]
Rooms == [type \in DOMAIN Packs |-> Arm!SureFit(Packs[type])]

\* One packet of each class: an ack, a request, a response, a real-time command
\* with an even id, and telemetry, which is too long for the small stacks.
Arriving ==
    {Arm!Ack, Arm!Request("SetMitLimit"), Arm!Response("SetMitLimit"),
     Arm!RealTime("JointPosVel"), Arm!Status("ArmStatus")}
ArrivingCmds == {p.cmd : p \in Arriving}
Sizes == [cmd \in ArrivingCmds |->
            Arm!FrameSize(CHOOSE p \in Arriving : p.cmd = cmd)]

Symmetry == Permutations(Threads) \cup Permutations({a, b})

(* The bound stacks are alive, a cycle's stack is bound to its thread, and *)
(* what a stage has left is where the stage says.                          *)
TypeOK ==
    /\ on_packet \in [Threads -> Types \cup {NoType}]
    /\ instance \in [Types -> [Threads -> Stacks \cup {NoStack}]]
    /\ \A type \in Types, t \in Threads :
         instance[type][t] # NoStack => TypeOf[instance[type][t]] = type
    /\ \A t \in Threads :
         /\ bound[t] # NoStack => bound[t] \in alive
         /\ running[t] \in {NoStack, bound[t]}
         /\ (stage[t] = "idle") = (running[t] = NoStack)
         /\ running[t] # NoStack /\ stage[t] # "parse" => m_parser[running[t]] = <<>>
    /\ \A s \in Stacks : TotalBytes(m_rx_ring[s]) <= RingCapacity

(* Every packet but one gets to the function its type calls for: acks,     *)
(* requests, telemetry and real-time commands, whose ids are of both       *)
(* parities, and responses (ProtocolStack.hpp:224-240, 412-415).  The one  *)
(* is MotorFeedbackArray, see TelemetryDispatched of MCProtocolStack.      *)
RoutedByRole ==
    \A s \in Stacks : \A i \in DOMAIN handled[s] :
        \E p \in Arm!Catalogue : handled[s][i] = <<p.cmd, p.role>>
=============================================================================
