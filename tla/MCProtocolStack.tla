--------------------------- MODULE MCProtocolStack --------------------------
(***************************************************************************)
(* One endpoint in an arbitrary environment: any packet of a small set may *)
(* arrive at any time and in any order, the link takes a frame or refuses  *)
(* it, and the application calls, answers and broadcasts as it likes.      *)
(***************************************************************************)
EXTENDS ProtocolStack

CONSTANTS Arrivals, TelemetryCmds

SetZero == 24839                \* 0x6107 SetZeroRequestPacket
SetZeroResponse == 24840        \* 0x6108
ArmStatus == 24577              \* 0x6001
MotorFeedbackArray == 24578     \* 0x6002
JointCommand == 25345           \* 0x6301
HomeAll == 24841                \* 0x6109 HomeAllRequestPacket
Responses == [cmd \in {SetZero} |-> SetZeroResponse]
TwoResponses == [cmd \in {SetZero, HomeAll} |-> cmd + 1]

Frames == [cmd : Nat, tx : TxIds, body : Callers \cup {NoBody}]

\* What may arrive is a packet; one with a transaction id belongs to a call: a reliable
\* request or a response to one (other types have no tx_id field).
ASSUME ArrivalAssumption ==
    /\ Arrivals \subseteq Frames /\ TelemetryCmds \subseteq Nat
    /\ \A p \in Arrivals : p.tx # 0 /\ p.cmd # ACK_CMD =>
          /\ p.body \in Callers
          /\ Route(p.cmd) = "request"  => is_reliable(p.cmd) /\ p.cmd \in RequestCmds
          /\ Route(p.cmd) = "response" => p.cmd \in ResponseCmds

Packet(cmd, tx, body) == [cmd |-> cmd, tx |-> tx, body |-> body]

\* What may arrive at one endpoint, which is host and device at once: answers to
\* its own calls, requests of its peer (a second one and one without an id
\* among them), the status of the arm, and an unreliable command.
Body == CHOOSE k \in Callers : TRUE
EndpointArrivals ==
    {Packet(ACK_CMD, 1, NoBody), Packet(SetZeroResponse, 1, Body),
     Packet(SetZeroResponse, 0, Body),
     Packet(SetZero, 1, Body), Packet(SetZero, 2, Body), Packet(SetZero, 0, Body),
     Packet(ArmStatus, 0, NoBody), Packet(JointCommand, 0, NoBody)}

TelemetryArrivals ==
    {Packet(ArmStatus, 0, NoBody), Packet(MotorFeedbackArray, 0, NoBody)}

Receive == \E p \in Arrivals : handle_packet_internal(p)

AppCalls ==
    \/ \E cmd \in HandlerCmds : register_handler(cmd)
    \/ \E k \in Callers, cmd \in RequestCmds, timeout \in Timeouts,
          max_retries \in RetryLimits : Send(k, cmd, timeout, max_retries)
    \/ \E cmd \in TelemetryCmds : broadcast(cmd)

\* The application answers only a request it has been handed.
AnswerRequest ==
    /\ phase = "handler" /\ is_reliable(running.cmd) /\ running.tx # 0
    /\ send_response_and_cache(running.cmd, running.tx, running.body)

EndpointNext == Receive \/ HandlerReturns \/ AppCalls \/ AnswerRequest \/ CycleStep \/ ClockTick

StackSpec == StackInit /\ [][EndpointNext]_vars

-----------------------------------------------------------------------------
\* The frames of a call that wait: queued, or about to be queued again.
RequestsOf(q, k) == {i \in DOMAIN q : q[i].cmd \in RequestCmds /\ q[i].body = k}
Copies(k) == Cardinality(RequestsOf(m_tx_queue, k)) + Cardinality(RequestsOf(retries, k))

(* The deadline of a call starts when its frame is queued, not when it is  *)
(* sent: while the link refuses frames, or the queue is busy with answers  *)
(* and broadcasts of handlers, timeouts queue the same request again.  At  *)
(* most its first frame and the retries counted so far wait, and nothing   *)
(* of a call that has no place in the window (ProtocolStack.hpp:259-284,   *)
(* ReliableSession.hpp:214-233, 254-282).                                  *)
CopiesWithinRetries ==
    \A tx \in DOMAIN m_pending_by_tx :
        LET entry == m_pending_by_tx[tx]
        IN Copies(entry.caller) <= IF entry.inflight THEN entry.retry_count + 1 ELSE 0

(* m_tx_queue never exceeds TX_QUEUE_CAP although each packet may queue    *)
(* two frames (ack and cached response) and each displacement path makes   *)
(* its own room (ProtocolStack.hpp:288-335).                               *)
TxQueueBounded == Len(m_tx_queue) <= TxQueueCap

\* The reliable frames of q are the first of those of r: `at` says where each went.
Reliable(q) == (1 .. Len(q)) \ Telemetry(q)
KeepsReliable(q, r) ==
    \E at \in [Reliable(q) -> Reliable(r)] :
        /\ \A i \in Reliable(q) : r[at[i]] = q[i]
        /\ \A i, j \in Reliable(q) : i < j => at[i] < at[j]
        /\ \A i \in Reliable(q), m \in Reliable(r) :
              m <= at[i] => \E j \in Reliable(q) : at[j] = m

(* While a telemetry frame is queued, no reliable frame is displaced: a    *)
(* full queue gives up telemetry first (drop_one_telemetry), so outside    *)
(* drain_tx the reliable frames stay, in order, and only grow at the end.  *)
TelemetryYieldsFirst ==
    [][phase # "tx" /\ Telemetry(m_tx_queue) # {}
         => KeepsReliable(m_tx_queue, m_tx_queue')]_vars

(* With a window of 1 the bytes of a retransmission are still where poll   *)
(* left them when they are queued: an error callback that sends a new call *)
(* (and may move the map) never runs in the cycle of a retransmission      *)
(* (ReliableSession.hpp:199-245, ProtocolStack.hpp:277-284).               *)
RetryBytesValid == \A i \in DOMAIN retries : retries[i].valid

(* "Status broadcast range (0x6000-0x60FF): no tx_id, dispatch directly":  *)
(* a telemetry packet with a registered handler reaches it.                *)
TelemetryDispatched ==
    \A p \in Arrivals :
        phase = "rx" /\ is_telemetry_cmd(p.cmd) /\ p.cmd \in m_handlers
          => ENABLED (handle_packet_internal(p) /\ running' = p)
=============================================================================
