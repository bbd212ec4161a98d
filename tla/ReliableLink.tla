----------------------------- MODULE ReliableLink ---------------------------
(***************************************************************************)
(* Two endpoints of module ProtocolStack, a host that makes calls and a    *)
(* device that executes them, over a serial link: each direction is a FIFO *)
(* that may lose frames (a corrupted frame fails its CRC) but neither      *)
(* duplicates nor reorders them.  Duplicates come from retransmission.     *)
(*                                                                         *)
(* Both run the same code; only the host makes calls and only the device   *)
(* registers handlers.                                                     *)
(***************************************************************************)
EXTENDS Integers, Sequences, FiniteSets

CONSTANTS
    Callers, Timeout, TxModulus, Timeouts, RetryLimits,
    RequestCmds, ResponseCmds, ResponseOf, WindowSize, DeviceCacheCapacity,
    SeenIdRingSize, NoBody, PacketCmds, TxQueueCap,
    TelemetryCmds,          \* what the device broadcasts
    ChannelCap,             \* frames in flight in one direction
    FirstTxIds,             \* the first transaction id of each host run: the
                            \* constructor's 1, or one given to set_next_tx_id
    MaxDeviceRestarts,
    CallbacksSend           \* whether error callbacks make new calls

ASSUME LinkAssumption ==
    /\ ChannelCap \in Nat \ {0} /\ TxQueueCap \in Nat \ {0}
    /\ FirstTxIds \in Seq(0 .. TxModulus - 1) /\ FirstTxIds # <<>>
    /\ MaxDeviceRestarts \in Nat /\ CallbacksSend \in BOOLEAN

VARIABLES
    h_next_tx_id, h_inflight_count, h_pending, h_outbound, h_seen_responses,
    h_seen_requests, h_cache, h_order, h_answers,
    h_tx_queue, h_handlers, h_phase, h_running, h_retries,

    d_next_tx_id, d_inflight_count, d_pending, d_outbound, d_seen_responses,
    d_seen_requests, d_cache, d_order, d_answers,
    d_tx_queue, d_handlers, d_phase, d_running, d_retries,

    jobs,                   \* requests the device application has not answered
    h2d, d2h,               \* frames in flight
    host_run,               \* how often the host has started
    device_run,             \* how often the device has restarted
    abandoned,              \* calls made before the host restarted (history)
    executed                \* <<call, device run>> -> executions (history)

host == <<h_next_tx_id, h_inflight_count, h_pending, h_outbound, h_seen_responses,
          h_seen_requests, h_cache, h_order, h_answers,
          h_tx_queue, h_handlers, h_phase, h_running, h_retries>>
device == <<d_next_tx_id, d_inflight_count, d_pending, d_outbound, d_seen_responses,
            d_seen_requests, d_cache, d_order, d_answers,
            d_tx_queue, d_handlers, d_phase, d_running, d_retries>>
app == <<jobs, executed>>
runs == <<host_run, device_run, abandoned>>
vars == <<host, device, app, h2d, d2h, runs>>

Host == INSTANCE ProtocolStack WITH
    m_next_tx_id <- h_next_tx_id, m_inflight_count <- h_inflight_count,
    m_pending_by_tx <- h_pending, m_outbound_queue <- h_outbound,
    m_seen_responses <- h_seen_responses, m_seen_requests <- h_seen_requests,
    m_completed_cache <- h_cache, m_completed_order <- h_order,
    answers <- h_answers, m_tx_queue <- h_tx_queue, m_handlers <- h_handlers,
    phase <- h_phase, running <- h_running, retries <- h_retries,
    HandlerCmds <- RequestCmds

Device == INSTANCE ProtocolStack WITH
    m_next_tx_id <- d_next_tx_id, m_inflight_count <- d_inflight_count,
    m_pending_by_tx <- d_pending, m_outbound_queue <- d_outbound,
    m_seen_responses <- d_seen_responses, m_seen_requests <- d_seen_requests,
    m_completed_cache <- d_cache, m_completed_order <- d_order,
    answers <- d_answers, m_tx_queue <- d_tx_queue, m_handlers <- d_handlers,
    phase <- d_phase, running <- d_running, retries <- d_retries,
    HandlerCmds <- RequestCmds

\* What the two stacks assume of the constants, and the ranges of command ids of
\* ArmCommand.hpp and ArmStatus.hpp: a reliable request is odd and has a tx_id, its
\* response is even, a status broadcast lies in the telemetry range.
ASSUME SessionConstants == Host!SessionAssumption
ASSUME CommandClasses ==
    /\ \A cmd \in RequestCmds :
          /\ Host!Route(cmd) = "request"
          /\ Host!is_reliable(cmd) /\ ~ Host!is_telemetry_cmd(cmd)
    /\ \A cmd \in ResponseCmds : Host!Route(cmd) = "response"
    /\ \A cmd \in TelemetryCmds : Host!is_telemetry_cmd(cmd)

DeviceRuns == 0 .. MaxDeviceRestarts

NoMap == [x \in {} |-> {}]
EmptyRing == [ids |-> [s \in 0 .. SeenIdRingSize - 1 |-> <<0, 0>>], write_idx |-> 0]
NoPacket == [cmd |-> 0, tx |-> 0, body |-> NoBody]

\* Fault: every run of the host numbers its calls alike.
FirstTxId_Same(run) == FirstTxIds[1]

FirstTxId(run) == FirstTxIds[run]

\* A stack just constructed, with its handlers registered.  The history h_answers outlives the host.
HostStart ==
    /\ h_next_tx_id = FirstTxId(host_run) /\ h_inflight_count = 0
    /\ h_pending = NoMap /\ h_outbound = <<>> /\ h_seen_responses = EmptyRing
    /\ h_seen_requests = EmptyRing /\ h_cache = NoMap /\ h_order = <<>>
    /\ h_tx_queue = <<>> /\ h_handlers = {}
    /\ h_phase = "rx" /\ h_running = NoPacket /\ h_retries = <<>>

DeviceStart ==
    /\ d_next_tx_id = 1 /\ d_inflight_count = 0
    /\ d_pending = NoMap /\ d_outbound = <<>> /\ d_seen_responses = EmptyRing
    /\ d_seen_requests = EmptyRing /\ d_cache = NoMap /\ d_order = <<>>
    /\ d_tx_queue = <<>> /\ d_handlers = RequestCmds
    /\ d_phase = "rx" /\ d_running = NoPacket /\ d_retries = <<>>
    /\ d_answers = NoMap /\ jobs = {}

Init ==
    /\ host_run = 1 /\ device_run = 0 /\ abandoned = {}
    /\ HostStart /\ h_answers = NoMap
    /\ DeviceStart
    /\ h2d = <<>> /\ d2h = <<>>
    /\ executed = [kr \in Callers \X DeviceRuns |-> 0]

-----------------------------------------------------------------------------
(***************************************************************************)
(* The host.                                                               *)
(***************************************************************************)
HostCall ==
    /\ h_phase = "errors" => CallbacksSend
    /\ \E k \in Callers, cmd \in RequestCmds, t \in Timeouts, r \in RetryLimits :
         Host!Send(k, cmd, t, r)
    /\ UNCHANGED <<device, app, h2d, d2h, runs>>

HostReceive ==
    /\ d2h # <<>>
    /\ Host!handle_packet_internal(Head(d2h))
    /\ d2h' = Tail(d2h)
    /\ UNCHANGED <<device, app, h2d, runs>>

HostSends ==
    /\ Len(h2d) < ChannelCap
    /\ Host!FrameSent
    /\ h2d' = Append(h2d, Head(h_tx_queue))
    /\ UNCHANGED <<device, app, d2h, runs>>

HostWorks ==
    /\ \/ Host!RxDrained \/ Host!handle_session_outbound \/ Host!PollSession
       \/ Host!ErrorCallbacksReturn \/ Host!RequeueRetry \/ Host!FrameKept
    /\ UNCHANGED <<device, app, h2d, d2h, runs>>

HostCycle == HostSends \/ HostWorks

HostTick == Host!ClockTick /\ UNCHANGED <<device, app, h2d, d2h, runs>>

(***************************************************************************)
(* The device.  Its application runs a request when its handler is called  *)
(* and answers then or in any later cycle, or never.                       *)
(***************************************************************************)
DeviceReceive ==
    /\ h2d # <<>>
    /\ LET p == Head(h2d)
       IN /\ Device!handle_packet_internal(p)
          /\ IF d_phase' = "handler"
             THEN /\ jobs' = jobs \cup {p}
                  /\ executed' = [executed EXCEPT ![<<p.body, device_run>>] = @ + 1]
             ELSE UNCHANGED app
    /\ h2d' = Tail(h2d)
    /\ UNCHANGED <<host, d2h, runs>>

DeviceAnswer ==
    /\ \E p \in jobs : /\ Device!send_response_and_cache(p.cmd, p.tx, p.body)
                       /\ jobs' = jobs \ {p}
    /\ UNCHANGED <<host, executed, h2d, d2h, runs>>

DeviceBroadcast ==
    /\ \E cmd \in TelemetryCmds : Device!broadcast(cmd)
    /\ UNCHANGED <<host, app, h2d, d2h, runs>>

DeviceSends ==
    /\ Len(d2h) < ChannelCap
    /\ Device!FrameSent
    /\ d2h' = Append(d2h, Head(d_tx_queue))
    /\ UNCHANGED <<host, app, h2d, runs>>

DeviceWorks ==
    /\ Device!HandlerReturns \/ Device!RxDrained \/ Device!FrameKept
    /\ UNCHANGED <<host, app, h2d, d2h, runs>>

DeviceStep ==
    DeviceReceive \/ DeviceAnswer \/ DeviceBroadcast \/ DeviceSends \/ DeviceWorks

-----------------------------------------------------------------------------
(***************************************************************************)
(* The environment: losses and restarts.  Frames in flight survive a       *)
(* restart of either end (they sit in drivers and endpoint buffers).       *)
(***************************************************************************)
Lose ==
    /\ \/ h2d # <<>> /\ h2d' = Tail(h2d) /\ UNCHANGED d2h
       \/ d2h # <<>> /\ d2h' = Tail(d2h) /\ UNCHANGED h2d
    /\ UNCHANGED <<host, device, app, runs>>

HostRestart ==
    /\ host_run < Len(FirstTxIds)
    /\ host_run' = host_run + 1
    /\ abandoned' = DOMAIN h_answers
    /\ h_next_tx_id' = FirstTxId(host_run + 1) /\ h_inflight_count' = 0
    /\ h_pending' = NoMap /\ h_outbound' = <<>> /\ h_seen_responses' = EmptyRing
    /\ h_seen_requests' = EmptyRing /\ h_cache' = NoMap /\ h_order' = <<>>
    /\ h_tx_queue' = <<>> /\ h_handlers' = {}
    /\ h_phase' = "rx" /\ h_running' = NoPacket /\ h_retries' = <<>>
    /\ UNCHANGED <<h_answers, device, app, h2d, d2h, device_run>>

DeviceRestart ==
    /\ device_run < MaxDeviceRestarts
    /\ device_run' = device_run + 1
    /\ d_next_tx_id' = 1 /\ d_inflight_count' = 0
    /\ d_pending' = NoMap /\ d_outbound' = <<>> /\ d_seen_responses' = EmptyRing
    /\ d_seen_requests' = EmptyRing /\ d_cache' = NoMap /\ d_order' = <<>>
    /\ d_tx_queue' = <<>> /\ d_handlers' = RequestCmds
    /\ d_phase' = "rx" /\ d_running' = NoPacket /\ d_retries' = <<>>
    /\ d_answers' = NoMap /\ jobs' = {}
    /\ UNCHANGED <<host, executed, h2d, d2h, host_run, abandoned>>

Next ==
    \/ HostCall \/ HostReceive \/ HostCycle \/ HostTick
    \/ DeviceStep
    \/ Lose \/ HostRestart \/ DeviceRestart

Spec == Init /\ [][Next]_vars

-----------------------------------------------------------------------------
(***************************************************************************)
(* Properties.                                                             *)
(***************************************************************************)
Issued == DOMAIN h_answers
PendingCallers == {h_pending[tx].caller : tx \in DOMAIN h_pending}

(* A request is executed at most once in one life of the device, however   *)
(* often the host retransmits it and whatever the dedup ring has forgotten *)
(* (ProtocolStack.hpp:476-507, IdRingBuffer.hpp:19-31).                    *)
AtMostOnce == \A k \in Callers, r \in DeviceRuns : executed[k, r] <= 1

(* A response callback of a call carries the answer to that call, and the  *)
(* device has executed it: retransmitted, late and cached responses never  *)
(* reach another call (ReliableSession.hpp:101-129, 148-160).              *)
AnswerMatches ==
    \A k \in Issued : h_answers[k] # <<>> /\ h_answers[k] # <<Timeout>>
        => h_answers[k] = <<k>> /\ \E r \in DeviceRuns : executed[k, r] > 0

(* An answered request stays answerable for as long as it is listed: a     *)
(* response leaves the cache only when its own entry of m_completed_order  *)
(* is the oldest.  A request executed and answered twice would break this, *)
(* its first entry evicting the second response (ReliableSession.hpp:      *)
(* 182-184, 337-345).                                                      *)
CacheMatchesOrder == \A i \in DOMAIN d_order : d_order[i] \in DOMAIN d_cache

(* No call is lost in silence: one that has had no callback is pending, so *)
(* an answer or a deadline will still end it.  on_response erases an entry *)
(* without a callback when the response has another command                *)
(* (ReliableSession.hpp:123-128); a device of this stack never sends one.  *)
NoSilentLoss ==
    \A k \in Issued \ abandoned : h_answers[k] = <<>> => k \in PendingCallers

(* Every reliable request that reaches the device is acknowledged, the     *)
(* queue full or not: once it is handled there is a frame for it, the ack  *)
(* or the cached response that displaced the ack (README.md:26,            *)
(* ProtocolStack.hpp:484-501).                                             *)
RequestAcked ==
    [][DeviceReceive
         => LET p == Head(h2d)
            IN p.cmd \in RequestCmds
                 => \E i \in DOMAIN d_tx_queue' :
                       /\ d_tx_queue'[i].cmd \in {Host!ACK_CMD} \cup ResponseCmds
                       /\ d_tx_queue'[i].tx = p.tx]_vars

(* The device takes a request for a duplicate only if it has executed that *)
(* call in its present life: a new call is never acknowledged and dropped  *)
(* on account of an older one that the ring or the cache still remembers   *)
(* (README.md:26, ReliableSession.hpp:141-160).                            *)
DuplicatesAreRepeats ==
    [][DeviceReceive
         => LET p == Head(h2d)
            IN p.cmd \in RequestCmds /\ Device!IsDuplicate(p.cmd, p.tx)
                 => executed[p.body, device_run] > 0]_vars

(* Every call is answered or times out, with a device that may be silent   *)
(* for ever and a link that may lose everything.                           *)
EventuallyAnswered ==
    \A k \in Callers : (k \in Issued /\ h_answers[k] = <<>>)
                         ~> (k \in Issued /\ h_answers[k] # <<>>)

(* The link implements the abstract call.                                  *)
Outcome(k) ==
    IF k \notin Issued THEN "idle"
    ELSE CASE h_answers[k] = <<>>        -> "issued"
           [] h_answers[k] = <<Timeout>> -> "timeout"
           [] h_answers[k] = <<k>>       -> "success"
           [] OTHER                    -> "wrong"

Call == INSTANCE ReliableCall WITH
    outcome <- [k \in Callers |-> Outcome(k)],
    executions <- [k \in Callers |-> executed[k, 0]]

(* Seen from the application the two endpoints and the lossy link between  *)
(* them are a remote call executed at most once with one outcome           *)
(* (module ReliableCall), as long as the device does not restart.          *)
ImplementsCall == Call!Spec
=============================================================================
