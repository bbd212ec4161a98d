---------------------------- MODULE ProtocolStack ---------------------------
(***************************************************************************)
(* include/ProtocolStack.hpp: one endpoint.  It owns a ReliableSession,    *)
(* dispatches the packets its parser delivers, and queues the frames it    *)
(* sends.  run_one_cycle is the only thread:                               *)
(*                                                                         *)
(*   drain_rx -> handle_session_outbound -> handle_session_retries         *)
(*            -> drain_tx -> drain_rx ...                                  *)
(*                                                                         *)
(* `phase` says where in the cycle it is.  Application code runs between   *)
(* two cycles and inside handlers and response callbacks ("rx",            *)
(* "handler"), and inside the error callbacks of poll ("errors").          *)
(*                                                                         *)
(* A packet or frame is [cmd, tx, body]; tx is 0 for a packet type without *)
(* a tx_id field, which is what extract_tx_id_from_raw returns for it.     *)
(* Framing, CRC and serialisation are the business of the parser.          *)
(***************************************************************************)
EXTENDS ReliableSession, PacketClasses, SequencesExt

CONSTANTS
    NoBody,         \* the body of packets whose content plays no part
    HandlerCmds,    \* the commands handlers may be registered for
    PacketCmds,     \* the commands of PacketTypes: send takes requests of any
                    \* type, only those of the pack can be serialised
    TxQueueCap      \* TX_QUEUE_CAP

\* Command ids are uint16_t.
ASSUME StackAssumption ==
    /\ TxQueueCap \in Nat \ {0}
    /\ RequestCmds \cup ResponseCmds \subseteq Nat

VARIABLES
    m_tx_queue,     \* frames waiting for m_send_frame
    m_handlers,     \* commands with a registered handler
    phase,          \* place in run_one_cycle
    running,        \* the packet whose handler is running
    retries         \* what poll returned and has not been queued again

stack_vars == <<m_tx_queue, m_handlers, phase, running, retries>>
vars == <<session_vars, stack_vars>>

NoPacket == [cmd |-> 0, tx |-> 0, body |-> NoBody]

StackInit ==
    /\ SessionInit
    /\ m_tx_queue = <<>>
    /\ m_handlers = {}
    /\ phase = "rx"
    /\ running = NoPacket
    /\ retries = <<>>

-----------------------------------------------------------------------------
(***************************************************************************)
(* The transmit queue.  When it is full a frame gets in by displacing the  *)
(* first telemetry frame; failing that, a request waits and a priority or  *)
(* telemetry frame displaces the newest frame, whatever that is.           *)
(***************************************************************************)
Telemetry(q) == {i \in 1 .. Len(q) : is_telemetry_cmd(q[i].cmd)}

\* Fault: the queue takes one frame too many.
IsFull_OffByOne(q) == Len(q) > TxQueueCap

IsFull(q) == Len(q) >= TxQueueCap

drop_one_telemetry(q) ==
    RemoveAt(q, CHOOSE i \in Telemetry(q) : \A j \in Telemetry(q) : i <= j)

CanEnqueuePending(q, frame) ==
    /\ ~ IsFull(q) \/ Telemetry(q) # {}
    /\ frame.cmd \in PacketCmds

\* Room is made first: a request of a foreign type costs a telemetry frame too.
enqueue_pending_frame(q, frame) ==
    LET room == IF IsFull(q) /\ Telemetry(q) # {} THEN drop_one_telemetry(q) ELSE q
    IN IF CanEnqueuePending(q, frame) THEN Append(room, frame) ELSE room

CanEnqueuePrebuilt(q, frame, priority) ==
    ~ IsFull(q) \/ priority \/ is_telemetry_cmd(frame.cmd)

\* Fault: the newest frame is displaced although there is telemetry.
enqueue_prebuilt_frame_PopBack(q, frame, priority) ==
    IF ~ CanEnqueuePrebuilt(q, frame, priority) THEN q
    ELSE Append(IF IsFull(q) THEN Front(q) ELSE q, frame)

enqueue_prebuilt_frame(q, frame, priority) ==
    IF ~ CanEnqueuePrebuilt(q, frame, priority) THEN q
    ELSE Append(IF ~ IsFull(q) THEN q
                ELSE IF Telemetry(q) # {} THEN drop_one_telemetry(q)
                ELSE Front(q),
                frame)

-----------------------------------------------------------------------------
(***************************************************************************)
(* Receive: handle_packet_internal, called by the parser inside drain_rx.  *)
(***************************************************************************)
RunHandler(p) ==
    /\ phase' = IF p.cmd \in m_handlers THEN "handler" ELSE phase
    /\ running' = IF p.cmd \in m_handlers THEN p ELSE running
    /\ UNCHANGED <<m_handlers, retries>>

Ignore == UNCHANGED vars

handle_ack_packet(p) == on_ack(p.tx) /\ UNCHANGED stack_vars

UnreliablePacket(p) ==
    /\ ~ is_reliable(p.cmd)
    /\ RunHandler(p)
    /\ UNCHANGED <<session_vars, m_tx_queue>>

\* tx_id == 0 in the reliable range: telemetry is dispatched, the rest ignored.
UntrackedPacket(p) ==
    /\ is_reliable(p.cmd) /\ p.tx = 0
    /\ IF is_telemetry_cmd(p.cmd)
       THEN RunHandler(p) /\ UNCHANGED <<session_vars, m_tx_queue>>
       ELSE Ignore

AckFrame(p) == [cmd |-> ACK_CMD, tx |-> p.tx, body |-> NoBody]

\* Fault: a duplicate is dropped without an ack.
DuplicateRequest_NoAck(p) ==
    /\ is_reliable(p.cmd) /\ p.tx # 0
    /\ IsDuplicate(p.cmd, p.tx)
    /\ UNCHANGED vars

DuplicateRequest(p) ==
    /\ is_reliable(p.cmd) /\ p.tx # 0
    /\ IsDuplicate(p.cmd, p.tx)
    /\ LET acked == enqueue_prebuilt_frame(m_tx_queue, AckFrame(p), TRUE)
           cached == m_completed_cache[compose_dedup_key(p.cmd, p.tx)]
       IN m_tx_queue' =
            IF HasCached(p.cmd, p.tx)
            THEN enqueue_prebuilt_frame(
                   acked,
                   [cmd |-> cached.response_cmd, tx |-> p.tx, body |-> cached.body],
                   TRUE)
            ELSE acked
    /\ on_request(p.cmd, p.tx)
    /\ UNCHANGED <<m_handlers, phase, running, retries>>

NewRequest(p) ==
    /\ is_reliable(p.cmd) /\ p.tx # 0
    /\ ~ IsDuplicate(p.cmd, p.tx)
    /\ m_tx_queue' = enqueue_prebuilt_frame(m_tx_queue, AckFrame(p), TRUE)
    /\ on_request(p.cmd, p.tx)
    /\ RunHandler(p)

handle_request_packet(p) ==
    UnreliablePacket(p) \/ UntrackedPacket(p) \/ DuplicateRequest(p) \/ NewRequest(p)

handle_response_packet(p) ==
    IF p.tx = 0
    THEN Ignore
    ELSE on_response(p.cmd, p.tx, p.body) /\ UNCHANGED stack_vars

handle_packet_internal(p) ==
    /\ phase = "rx"
    /\ \/ Route(p.cmd) = "ack" /\ handle_ack_packet(p)
       \/ Route(p.cmd) = "request" /\ handle_request_packet(p)
       \/ Route(p.cmd) = "response" /\ handle_response_packet(p)

HandlerReturns ==
    /\ phase = "handler"
    /\ phase' = "rx"
    /\ running' = NoPacket
    /\ UNCHANGED <<session_vars, m_tx_queue, m_handlers, retries>>

-----------------------------------------------------------------------------
(***************************************************************************)
(* Calls of the application.                                               *)
(***************************************************************************)
OnProtocolThread == phase \in {"rx", "handler", "errors"}

register_handler(cmd) ==
    /\ OnProtocolThread
    /\ m_handlers' = m_handlers \cup {cmd}
    /\ UNCHANGED <<session_vars, m_tx_queue, phase, running, retries>>

\* A retransmission refers to the bytes inside the map entry.  A new entry may
\* make the map reallocate, after which `valid` no longer holds.
Moved(entries) == [i \in DOMAIN entries |-> [entries[i] EXCEPT !.valid = FALSE]]

Send(k, cmd, timeout, max_retries) ==
    /\ OnProtocolThread
    /\ send(k, cmd, timeout, max_retries)
    /\ retries' \in {retries, Moved(retries)}
    /\ UNCHANGED <<m_tx_queue, m_handlers, phase, running>>

\* The response goes out with priority, so queueing it cannot fail.
send_response_and_cache(cmd, tx, body) ==
    /\ OnProtocolThread
    /\ m_tx_queue' =
         enqueue_prebuilt_frame(
           m_tx_queue, [cmd |-> ResponseOf[cmd], tx |-> tx, body |-> body], TRUE)
    /\ cache_response(cmd, tx, ResponseOf[cmd], body)
    /\ UNCHANGED <<m_handlers, phase, running, retries>>

broadcast(cmd) ==
    /\ OnProtocolThread
    /\ m_tx_queue' =
         enqueue_prebuilt_frame(
           m_tx_queue, [cmd |-> cmd, tx |-> 0, body |-> NoBody], FALSE)
    /\ UNCHANGED <<session_vars, m_handlers, phase, running, retries>>

-----------------------------------------------------------------------------
(***************************************************************************)
(* run_one_cycle.                                                          *)
(***************************************************************************)

\* The receive ring is empty.  With no call pending the two session steps do
\* nothing and are passed over.
RxDrained ==
    /\ phase = "rx"
    /\ phase' = IF DOMAIN m_pending_by_tx = {} /\ m_outbound_queue = <<>>
                THEN "tx" ELSE "outbound"
    /\ UNCHANGED <<session_vars, m_tx_queue, m_handlers, running, retries>>

RequestFrame(tx) ==
    [cmd |-> m_pending_by_tx[tx].request_cmd, tx |-> tx,
     body |-> m_pending_by_tx[tx].caller]

\* handle_session_outbound, one turn of its loop.  When the queue refuses the
\* frame the loop ends, and the entry stays inflight although nothing was sent.
PumpOutbound ==
    /\ phase = "outbound"
    /\ TakeOutbound
    /\ m_tx_queue' = enqueue_pending_frame(m_tx_queue, RequestFrame(OutboundTx))
    /\ phase' = IF CanEnqueuePending(m_tx_queue, RequestFrame(OutboundTx))
                THEN "outbound" ELSE "poll"
    /\ UNCHANGED <<m_handlers, running, retries>>

OutboundDone ==
    /\ phase = "outbound"
    /\ NoOutbound
    /\ phase' = "poll"
    /\ UNCHANGED <<m_tx_queue, m_handlers, running, retries>>

handle_session_outbound == PumpOutbound \/ OutboundDone

RetransmitEntry(tx) ==
    [cmd |-> m_pending_by_tx[tx].request_cmd, tx |-> tx,
     body |-> m_pending_by_tx[tx].caller, valid |-> TRUE]

\* handle_session_retries: poll() up to its error callbacks.  The entries come
\* in the order of the map, which is arbitrary.
PollSession ==
    /\ phase = "poll"
    /\ poll
    /\ \E order \in SetToSeqs(Retried) :
         retries' = [i \in DOMAIN order |-> RetransmitEntry(order[i])]
    /\ phase' = IF Expired # {} THEN "errors"
                ELSE IF Retried # {} THEN "requeue" ELSE "tx"
    /\ UNCHANGED <<m_tx_queue, m_handlers, running>>

ErrorCallbacksReturn ==
    /\ phase = "errors"
    /\ phase' = IF retries # <<>> THEN "requeue" ELSE "tx"
    /\ UNCHANGED <<session_vars, m_tx_queue, m_handlers, running, retries>>

\* The loop over the retries; a full queue is ignored.  Bytes read through a
\* pointer that is no longer valid are arbitrary.
RequeueRetry ==
    /\ phase = "requeue"
    /\ LET r == Head(retries)
           bytes == IF r.valid THEN {<<r.tx, r.body>>} ELSE TxIds \X Callers
       IN \E b \in bytes :
            m_tx_queue' = enqueue_pending_frame(
                            m_tx_queue, [cmd |-> r.cmd, tx |-> b[1], body |-> b[2]])
    /\ retries' = Tail(retries)
    /\ phase' = IF Len(retries) = 1 THEN "tx" ELSE "requeue"
    /\ UNCHANGED <<session_vars, m_handlers, running>>

\* drain_tx: one frame per cycle, kept when m_send_frame refuses it.
FrameSent ==
    /\ phase = "tx" /\ m_tx_queue # <<>>
    /\ m_tx_queue' = Tail(m_tx_queue)
    /\ phase' = "rx"
    /\ UNCHANGED <<session_vars, m_handlers, running, retries>>

FrameKept ==
    /\ phase = "tx"
    /\ phase' = "rx"
    /\ UNCHANGED <<session_vars, m_tx_queue, m_handlers, running, retries>>

drain_tx == FrameSent \/ FrameKept

CycleStep ==
    \/ RxDrained
    \/ handle_session_outbound
    \/ PollSession
    \/ ErrorCallbacksReturn
    \/ RequeueRetry
    \/ drain_tx

ClockTick == Tick /\ UNCHANGED stack_vars
=============================================================================
