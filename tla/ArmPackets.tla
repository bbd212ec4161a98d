----------------------------- MODULE ArmPackets -----------------------------
(***************************************************************************)
(* include/ArmCommand.hpp and ArmStatus.hpp: the packets of the arm, by    *)
(* the name of their type.  The structs are packed, so their sizes add up; *)
(* the traits give each its command id.  From the size of the largest      *)
(* packet of a stack follow the size of its parser's buffer and what it is *)
(* sure to take in one piece.                                              *)
(***************************************************************************)
EXTENDS PacketClasses, FiniteSetsExt, TLC

TxIdSize == 4       \* TransactionId is a uint32_t

(***************************************************************************)
(* Sizes: payloads of commands and responses, then whole packets.          *)
(***************************************************************************)
CommandSize ==
    [SetMitLimit |-> 9, SetMotorState |-> 2, SetMotorControlMode |-> 2, SetZero |-> 1,
     ClearError |-> 1, HomeAll |-> 1, RunCalibration |-> 1, ClearFaults |-> 1,
     SetSafety |-> 8, SdkClientConnected |-> 1, SdkClientDisconnected |-> 1, HomeDone |-> 1]

\* Every response of a command is one status byte.
ResponseSize == [command \in DOMAIN CommandSize |-> 1]

RequestPackets == [command \in DOMAIN CommandSize |-> TxIdSize + CommandSize[command]]

ResponsePackets == [command \in DOMAIN ResponseSize |-> TxIdSize + ResponseSize[command]]

\* The packets that open and close a session have one byte both ways.
SessionPackets == [command \in {"UsbSessionStart", "UsbSessionStop"} |-> TxIdSize + 1]

AckPacket == TxIdSize + 2 + 1

RealTimePackets ==
    [JointCommand |-> 5 * 24 + 7, JointPosVel |-> 2 * 24 + 3, JointVelocity |-> 24 + 3,
     JointHybrid |-> 3 * 24 + 3, EmergencyStop |-> 1, Gripper |-> 5 * 4 + 7]

TelemetryPackets ==
    [ArmStatus |-> 1 + 3 + 4 + 8 + 3 * 24 + 12 + 20, MotorFeedbackArray |-> 7 * 17,
     GripperStatus |-> 20]

FeedbackRequest == TxIdSize + 1
FeedbackResponse == TxIdSize + TelemetryPackets.MotorFeedbackArray

-----------------------------------------------------------------------------
(***************************************************************************)
(* Command ids, from the traits: <<request, response>> of each command.    *)
(***************************************************************************)
JointCmds ==
    [SetMitLimit |-> <<24835, 24836>>,              \* 0x6103 0x6104
     SetMotorState |-> <<24837, 24838>>,            \* 0x6105 0x6106
     SetMotorControlMode |-> <<25109, 25110>>,      \* 0x6215 0x6216
     SetZero |-> <<24839, 24840>>,                  \* 0x6107 0x6108
     ClearError |-> <<24841, 24842>>]               \* 0x6109 0x610A

ArmCmds ==
    [HomeAll |-> <<25089, 25090>>,                  \* 0x6201 0x6202
     RunCalibration |-> <<25091, 25092>>,           \* 0x6203 0x6204
     ClearFaults |-> <<25093, 25094>>,              \* 0x6205 0x6206
     SetSafety |-> <<25095, 25096>>]                \* 0x6207 0x6208

ClientCmds ==
    [SdkClientConnected |-> <<25097, 25098>>,       \* 0x6209 0x620A
     SdkClientDisconnected |-> <<25099, 25100>>,    \* 0x620B 0x620C
     HomeDone |-> <<25101, 25102>>]                 \* 0x620D 0x620E

SessionCmds ==
    [UsbSessionStart |-> <<25103, 25104>>,          \* 0x620F 0x6210
     UsbSessionStop |-> <<25105, 25106>>]           \* 0x6211 0x6212

FeedbackCmds == [GetMotorFeedback |-> <<25107, 25108>>]     \* 0x6213 0x6214

RealTimeCmds ==
    [JointCommand |-> 25345,                        \* 0x6301
     EmergencyStop |-> 25347,                       \* 0x6303
     Gripper |-> 25349,                             \* 0x6305
     JointPosVel |-> 25350,                         \* 0x6306
     JointVelocity |-> 25351,                       \* 0x6307
     JointHybrid |-> 25352]                         \* 0x6308

TelemetryCmds ==
    [ArmStatus |-> 24577, MotorFeedbackArray |-> 24578, GripperStatus |-> 24579] \* 0x6001..3

AckCmd == 28656                                     \* 0x6FF0

-----------------------------------------------------------------------------
(***************************************************************************)
(* A packet: its command id, its size, and what it is for.  `role` comes   *)
(* from the type, never from the id.                                       *)
(***************************************************************************)
Packet(cmd, size, role) == [cmd |-> cmd, size |-> size, role |-> role]

Families == {JointCmds, ArmCmds, ClientCmds, SessionCmds, FeedbackCmds}
ReliableCmds ==
    [c \in UNION {DOMAIN f : f \in Families} |-> (CHOOSE f \in Families : c \in DOMAIN f)[c]]

RequestSizes ==
    RequestPackets @@ SessionPackets @@ ("GetMotorFeedback" :> FeedbackRequest)
ResponseSizes ==
    ResponsePackets @@ SessionPackets @@ ("GetMotorFeedback" :> FeedbackResponse)

Request(command) == Packet(ReliableCmds[command][1], RequestSizes[command], "request")
Response(command) == Packet(ReliableCmds[command][2], ResponseSizes[command], "response")
RealTime(name) == Packet(RealTimeCmds[name], RealTimePackets[name], "request")
Status(name) == Packet(TelemetryCmds[name], TelemetryPackets[name], "request")
Ack == Packet(AckCmd, AckPacket, "ack")

\* Every packet of the two headers.
Catalogue ==
    {Ack} \cup {Request(c) : c \in DOMAIN ReliableCmds}
          \cup {Response(c) : c \in DOMAIN ReliableCmds}
          \cup {RealTime(n) : n \in DOMAIN RealTimeCmds}
          \cup {Status(n) : n \in DOMAIN TelemetryCmds}

-----------------------------------------------------------------------------
(***************************************************************************)
(* The parser of a stack with packets `pack` (RPL/Parser.hpp).             *)
(***************************************************************************)
FrameOverhead == 9      \* a header of seven bytes, a checksum of two

FrameSize(packet) == packet.size + FrameOverhead
MaxFrame(pack) == Max({FrameSize(p) : p \in pack})

\* The least power of two that holds four frames.
BufferSize(pack) ==
    Min({size \in {2 ^ e : e \in 4 .. 12} : size >= 4 * MaxFrame(pack)})

\* What push_data never refuses between two calls (theorem NeverRefused).
SureFit(pack) == (BufferSize(pack) - MaxFrame(pack) + 2) \div 2

-----------------------------------------------------------------------------
\* The stacks of the example programs.
SerialPack == {Ack, Request("SetMitLimit"), Response("SetMitLimit")}

ArmPack ==
    SerialPack \cup {Request("SetMotorState"), Response("SetMotorState"),
                     RealTime("JointCommand"), RealTime("EmergencyStop"),
                     Status("ArmStatus"), Status("MotorFeedbackArray")}
=============================================================================
