------------------------ MODULE ReliableLink_proofs ------------------------
(***************************************************************************)
(* The promises of the reliable link, for every set of calls, every number *)
(* of transaction ids, every ring, cache and queue, and every number of    *)
(* restarts.                                                               *)
(*                                                                         *)
(* A call lives on in many places: the pending entry, the retransmissions  *)
(* of poll, both transmit queues, both directions of the line, the jobs of *)
(* the device, its response cache.  What holds them together is which      *)
(* transaction id was given to which call.  The link does not record that, *)
(* so the inductive invariant says that there is such a registry R, from   *)
(* transaction ids to requests, that every one of these places agrees with.*)
(***************************************************************************)
EXTENDS ReliableLink, FiniteSetTheorems, TLAPS

HS == INSTANCE ReliableSession_proofs WITH
    m_next_tx_id <- h_next_tx_id, m_inflight_count <- h_inflight_count,
    m_pending_by_tx <- h_pending, m_outbound_queue <- h_outbound,
    m_seen_responses <- h_seen_responses, m_seen_requests <- h_seen_requests,
    m_completed_cache <- h_cache, m_completed_order <- h_order,
    answers <- h_answers

DS == INSTANCE ReliableSession_proofs WITH
    m_next_tx_id <- d_next_tx_id, m_inflight_count <- d_inflight_count,
    m_pending_by_tx <- d_pending, m_outbound_queue <- d_outbound,
    m_seen_responses <- d_seen_responses, m_seen_requests <- d_seen_requests,
    m_completed_cache <- d_cache, m_completed_order <- d_order,
    answers <- d_answers

-----------------------------------------------------------------------------
(***************************************************************************)
(* Hypotheses.                                                             *)
(***************************************************************************)

\* The first id a run may not use.
IdLimit(run) == IF run < Len(FirstTxIds) THEN FirstTxIds[run + 1] ELSE TxModulus - 1

\* A restarted host is given (set_next_tx_id) an id that no call before had, and
\* the ids suffice for every call: none is used twice and none is 0.
IdsNotReused ==
    /\ IsFiniteSet(Callers)
    /\ \A run \in DOMAIN FirstTxIds :
          FirstTxIds[run] > 0 /\ FirstTxIds[run] + Cardinality(Callers) <= IdLimit(run)

OneAtATime == WindowSize <= 1

\* No error callback runs while poll's pointers into the map are still to be read.
RetriesNotMoved == OneAtATime \/ ~ CallbacksSend

-----------------------------------------------------------------------------
(***************************************************************************)
(* The inductive invariant, given the registry R.                          *)
(***************************************************************************)
Executed(k) == \E r \in DeviceRuns : executed[<<k, r>>] > 0

Request(R, t) == [cmd |-> R[t].cmd, tx |-> t, body |-> R[t].body]
Response(R, t) == [cmd |-> ResponseOf[R[t].cmd], tx |-> t, body |-> R[t].body]

RequestFrames(R) == {Request(R, t) : t \in DOMAIN R}
ResponseFrames(R) == {Response(R, t) : t \in {s \in DOMAIN R : Executed(R[s].body)}}
AckFrames == {[cmd |-> Host!ACK_CMD, tx |-> t, body |-> NoBody] : t \in HS!TxIds}
StatusFrames == {[cmd |-> cmd, tx |-> 0, body |-> NoBody] : cmd \in TelemetryCmds}
DeviceFrames(R) == ResponseFrames(R) \cup AckFrames \cup StatusFrames

\* Every call has an id of its own, and there are ids left for those to come.
Registry(R) ==
    /\ R \in [DOMAIN R -> [cmd : RequestCmds, body : Issued]]
    /\ DOMAIN R \subseteq 1 .. h_next_tx_id - 1
    /\ \A s, t \in DOMAIN R : R[s].body = R[t].body => s = t
    /\ h_next_tx_id > 0
    /\ host_run \in 1 .. Len(FirstTxIds)
    /\ h_next_tx_id + Cardinality(Callers \ Issued) <= IdLimit(host_run)

\* The host holds and sends nothing but what was registered.
HostAgrees(R) ==
    /\ \A t \in DOMAIN h_pending :
          /\ t \in DOMAIN R
          /\ h_pending[t].request_cmd = R[t].cmd
          /\ h_pending[t].response_cmd = ResponseOf[R[t].cmd]
          /\ h_pending[t].caller = R[t].body
    /\ \A i \in DOMAIN h_outbound : h_outbound[i] \in DOMAIN R
    /\ h_retries \in Seq([cmd : RequestCmds, tx : DOMAIN R, body : Callers, valid : {TRUE}])
    /\ \A i \in DOMAIN h_retries :
          h_retries[i].cmd = R[h_retries[i].tx].cmd /\ h_retries[i].body = R[h_retries[i].tx].body
    /\ h_tx_queue \in Seq(RequestFrames(R))
    /\ h2d \in Seq(RequestFrames(R))
    /\ h_handlers = {}
    /\ h_phase \in {"rx", "outbound", "poll", "errors", "requeue", "tx"}
    /\ h_phase \notin {"errors", "requeue"} => h_retries = <<>>
    /\ h_phase = "requeue" => h_retries # <<>>
    /\ OneAtATime /\ h_phase = "errors" => h_retries = <<>>

\* The device answers nothing but what was registered and executed.
DeviceAgrees(R) ==
    /\ d_tx_queue \in Seq(DeviceFrames(R))
    /\ d2h \in Seq(DeviceFrames(R))
    /\ executed \in [Callers \X DeviceRuns -> Nat]
    /\ device_run \in DeviceRuns
    /\ \A k \in Callers, r \in DeviceRuns :
          executed[<<k, r>>] > 0 => r <= device_run /\ k \in Issued
    /\ jobs \subseteq RequestFrames(R)
    /\ \A p \in jobs : executed[<<p.body, device_run>>] > 0
    /\ \A key \in DOMAIN d_cache :
          [cmd |-> d_cache[key].response_cmd, tx |-> key[2], body |-> d_cache[key].body]
            \in ResponseFrames(R)
    /\ DOMAIN d_pending = {} /\ d_outbound = <<>>
    /\ d_handlers = RequestCmds
    /\ d_phase \in {"rx", "handler", "tx"}

\* What the calls have been told.
CallsAnswered ==
    /\ \A k \in Issued : /\ h_answers[k] \in {<<>>, <<Timeout>>, <<k>>}
                         /\ h_answers[k] = <<k>> => Executed(k)
    /\ abandoned \subseteq Issued
    /\ NoSilentLoss

LinkInv(R) ==
    /\ HS!SessionInv
    /\ DS!SessionInv
    /\ Registry(R)
    /\ HostAgrees(R)
    /\ DeviceAgrees(R)
    /\ CallsAnswered

-----------------------------------------------------------------------------
(***************************************************************************)
(* The operations of the two sessions are operations of ReliableSession.   *)
(***************************************************************************)

(* What the two sessions assume of their constants.                        *)
LEMMA Constants == HS!SessionAssumption /\ DS!SessionAssumption
BY SessionConstants DEF Host!SessionAssumption, HS!SessionAssumption, DS!SessionAssumption

(* Each session operation of the stacks is one of the module whose lemmas  *)
(* are used here: they differ only in the instance that names them.        *)
LEMMA HostSend ==
    ASSUME NEW k \in Callers, NEW cmd \in RequestCmds, NEW timeout \in Timeouts,
           NEW max_retries \in RetryLimits, Host!send(k, cmd, timeout, max_retries)
    PROVE  HS!send(k, cmd, timeout, max_retries)
BY DEF Host!send, HS!send, Host!register_pending, HS!register_pending, Host!Unused,
       HS!Unused, Host!Queued, HS!Queued, Host!AfterTxId, HS!AfterTxId, Host!Put, HS!Put,
       Host!NewPending, HS!NewPending, Host!device_vars, HS!device_vars

(* The same for the acknowledgement,                                       *)
LEMMA HostOnAck ==
    ASSUME NEW tx, Host!on_ack(tx)
    PROVE  HS!on_ack(tx)
BY DEF Host!on_ack, HS!on_ack, Host!InWindow, HS!InWindow, Host!device_vars, HS!device_vars

(* a response,                                                             *)
LEMMA HostOnResponse ==
    ASSUME NEW cmd, NEW tx, NEW body, Host!on_response(cmd, tx, body)
    PROVE  HS!on_response(cmd, tx, body)
BY DEF Host!on_response, HS!on_response, Host!DuplicateResponse, HS!DuplicateResponse,
       Host!StrayResponse, HS!StrayResponse, Host!MatchedResponse, HS!MatchedResponse,
       Host!CountWithout, HS!CountWithout, Host!Erase, HS!Erase,
       Host!Ring!Holds, HS!Ring!Holds, Host!Ring!Inserted, HS!Ring!Inserted,
       Host!Ring!Slots, HS!Ring!Slots,
       Host!compose_dedup_key, HS!compose_dedup_key, Host!session_vars, HS!session_vars,
       Host!host_vars, HS!host_vars, Host!device_vars, HS!device_vars

(* Each instance has a copy of the operators of FiniteSets.                *)
LEMMA SameCardinality ==
    ASSUME NEW S
    PROVE  HS!Cardinality(S) = Cardinality(S) /\ HS!Cardinality(S) = Host!Cardinality(S)
BY DEF HS!Cardinality, Host!Cardinality, Cardinality,
       HS!IsFiniteSet, Host!IsFiniteSet, IsFiniteSet

(* poll,                                                                   *)
LEMMA HostPoll == Host!poll => HS!poll
BY SameCardinality
   DEF Host!poll, HS!poll, Host!Expired, HS!Expired, Host!Retried, HS!Retried,
       Host!Due, HS!Due, Host!InWindow, HS!InWindow,
       Host!TimedOutCallers, HS!TimedOutCallers, Host!device_vars, HS!device_vars

(* the next id to send,                                                    *)
LEMMA HostTakeOutbound ==
    ASSUME Host!TakeOutbound
    PROVE  HS!TakeOutbound /\ Host!OutboundTx = HS!OutboundTx
BY DEF Host!TakeOutbound, HS!TakeOutbound, Host!HasOutbound, HS!HasOutbound,
       Host!WindowOpen, HS!WindowOpen, Host!window_size, HS!window_size, Host!Live, HS!Live,
       Host!FirstLive, HS!FirstLive, Host!OutboundTx, HS!OutboundTx,
       Host!device_vars, HS!device_vars

(* none to send,                                                           *)
LEMMA HostNoOutbound == Host!NoOutbound => HS!NoOutbound
BY DEF Host!NoOutbound, HS!NoOutbound, Host!HasOutbound, HS!HasOutbound,
       Host!WindowOpen, HS!WindowOpen, Host!window_size, HS!window_size, Host!Live, HS!Live,
       Host!device_vars, HS!device_vars

(* time,                                                                   *)
LEMMA HostClockTick == Host!Tick => HS!Tick
BY DEF Host!Tick, HS!Tick, Host!InWindow, HS!InWindow, Host!device_vars, HS!device_vars

(* a request on the device,                                                *)
LEMMA DeviceOnRequest ==
    ASSUME NEW cmd, NEW tx, Device!on_request(cmd, tx)
    PROVE  DS!on_request(cmd, tx)
BY DEF Device!on_request, DS!on_request, Device!Ring!Inserted, DS!Ring!Inserted,
       Device!Ring!Holds, DS!Ring!Holds, Device!Ring!Slots, DS!Ring!Slots,
       Device!compose_dedup_key, DS!compose_dedup_key, Device!host_vars, DS!host_vars

(* and its answer.                                                         *)
LEMMA DeviceCacheResponse ==
    ASSUME NEW cmd, NEW tx, NEW response_cmd, NEW body,
           Device!cache_response(cmd, tx, response_cmd, body)
    PROVE  DS!cache_response(cmd, tx, response_cmd, body)
BY DEF Device!cache_response, DS!cache_response, Device!Put, DS!Put, Device!Erase, DS!Erase,
       Device!Excess, DS!Excess, Device!compose_dedup_key, DS!compose_dedup_key,
       Device!host_vars, DS!host_vars

(* A request never displaces a request: the host's queue holds no telemetry. *)
LEMMA EnqueueRequest ==
    ASSUME NEW S, NEW q \in Seq(S), NEW frame \in S,
           \A f \in S : ~ Host!is_telemetry_cmd(f.cmd)
    PROVE  Host!enqueue_pending_frame(q, frame) \in {q, Append(q, frame)}
<1>1. Host!Telemetry(q) = {}
  BY DEF Host!Telemetry
<1> QED
  BY <1>1 DEF Host!enqueue_pending_frame, Host!CanEnqueuePending

(* Whatever an ack, a response or a status displaces, the queue holds what *)
(* it held and the new frame, and with priority the new frame is in it.    *)
LEMMA EnqueuePrebuilt ==
    ASSUME NEW S, NEW q \in Seq(S), NEW frame \in S, NEW priority \in BOOLEAN
    PROVE  LET queued == Device!enqueue_prebuilt_frame(q, frame, priority)
           IN /\ queued \in Seq(S)
              /\ priority => \E i \in DOMAIN queued : queued[i] = frame
<1> DEFINE first == CHOOSE i \in Device!Telemetry(q) : \A j \in Device!Telemetry(q) : i <= j
           room == IF ~ Device!IsFull(q) THEN q
                   ELSE IF Device!Telemetry(q) # {} THEN Device!drop_one_telemetry(q)
                   ELSE Device!Front(q)
<1>1. ASSUME Device!Telemetry(q) # {}
      PROVE  Device!drop_one_telemetry(q) \in Seq(S)
  <2>1. Device!Telemetry(q) \in SUBSET Nat
    BY DEF Device!Telemetry
  <2>2. first \in Device!Telemetry(q)
    BY <1>1, <2>1, HS!LeastOfNats, Constants
  <2>3. first \in 1 .. Len(q)
    BY <2>2 DEF Device!Telemetry
  <2>4. Device!drop_one_telemetry(q) = SubSeq(q, 1, first - 1) \o SubSeq(q, first + 1, Len(q))
    BY DEF Device!drop_one_telemetry, Device!RemoveAt
  <2> HIDE DEF first
  <2>5. SubSeq(q, 1, first - 1) \in Seq(S) /\ SubSeq(q, first + 1, Len(q)) \in Seq(S)
    BY <2>3
  <2> QED
    BY <2>4, <2>5
<1>2. Device!Front(q) \in Seq(S)
  BY DEF Device!Front
<1>3. room \in Seq(S)
  BY <1>1, <1>2
<1>4. Device!enqueue_prebuilt_frame(q, frame, priority) \in {q, Append(room, frame)}
  BY DEF Device!enqueue_prebuilt_frame
<1>5. priority => Device!enqueue_prebuilt_frame(q, frame, priority) = Append(room, frame)
  BY DEF Device!enqueue_prebuilt_frame, Device!CanEnqueuePrebuilt
<1> HIDE DEF room
<1>6. /\ Append(room, frame) \in Seq(S)
      /\ Len(room) + 1 \in DOMAIN Append(room, frame)
      /\ Append(room, frame)[Len(room) + 1] = frame
  BY <1>3
<1> QED
  BY <1>4, <1>5, <1>6

-----------------------------------------------------------------------------
(***************************************************************************)
(* What a step leaves alone.                                               *)
(***************************************************************************)

(* A sequence over a set is one over every larger set.                     *)
LEMMA SeqGrows ==
    ASSUME NEW A, NEW B, A \subseteq B, NEW q \in Seq(A)
    PROVE  q \in Seq(B)
<1>1. q \in [1 .. Len(q) -> B]
  OBVIOUS
<1> QED
  BY <1>1

(* What is left of a sequence when its head is taken.                      *)
LEMMA TailSeq ==
    ASSUME NEW S, NEW q \in Seq(S), q # <<>>
    PROVE  /\ Tail(q) \in Seq(S)
           /\ Head(q) \in S
           /\ DOMAIN Tail(q) = 1 .. Len(q) - 1
           /\ \A i \in DOMAIN Tail(q) : i + 1 \in DOMAIN q /\ Tail(q)[i] = q[i + 1]
OBVIOUS

(* Frames remain what they were when calls are registered and executed.    *)
ExecutedGrows == \A k \in Issued : Executed(k) => Executed(k)'
Extends(S, R) == DOMAIN R \subseteq DOMAIN S /\ \A t \in DOMAIN R : S[t] = R[t]

(* The frames of a registry stay frames of a larger one.                   *)
LEMMA FramesGrow ==
    ASSUME NEW R, NEW S, Registry(R), Extends(S, R), ExecutedGrows
    PROVE  /\ RequestFrames(R) \subseteq RequestFrames(S)
           /\ ResponseFrames(R) \subseteq ResponseFrames(S)'
           /\ DeviceFrames(R) \subseteq DeviceFrames(S)'
<1>1. RequestFrames(R) \subseteq RequestFrames(S)
  BY DEF RequestFrames, Request, Extends
<1>2. ResponseFrames(R) \subseteq ResponseFrames(S)'
  BY DEF Registry, ResponseFrames, Response, Extends, ExecutedGrows
<1>3. AckFrames' = AckFrames /\ StatusFrames' = StatusFrames
  BY DEF AckFrames, StatusFrames
<1> QED
  BY <1>1, <1>2, <1>3 DEF DeviceFrames

(* The invariant of a session holds as long as its variables keep their    *)
(* values: the host,                                                       *)
LEMMA HostSessionKept ==
    ASSUME HS!SessionInv, UNCHANGED <<h_next_tx_id, h_inflight_count, h_pending, h_outbound,
               h_seen_responses, h_seen_requests, h_cache, h_order, h_answers>>
    PROVE  HS!SessionInv'
BY HS!StepInv, Constants DEF HS!session_vars, HS!host_vars, HS!device_vars

(* and the device.                                                         *)
LEMMA DeviceSessionKept ==
    ASSUME DS!SessionInv, UNCHANGED <<d_next_tx_id, d_inflight_count, d_pending, d_outbound,
               d_seen_responses, d_seen_requests, d_cache, d_order, d_answers>>
    PROVE  DS!SessionInv'
BY DS!StepInv, Constants DEF DS!session_vars, DS!host_vars, DS!device_vars

(* A registry stays one while no call is made.                             *)
LEMMA RegistryKept ==
    ASSUME NEW R, Registry(R), UNCHANGED <<h_next_tx_id, host_run>>, Issued' = Issued
    PROVE  Registry(R)'
BY DEF Registry

(* The pending calls are the same calls, perhaps fewer.                    *)
LEMMA PendingKept ==
    ASSUME NEW R, HostAgrees(R), HS!CallsKept
    PROVE  \A t \in DOMAIN h_pending' :
              /\ t \in DOMAIN R
              /\ h_pending'[t].request_cmd = R[t].cmd
              /\ h_pending'[t].response_cmd = ResponseOf[R[t].cmd]
              /\ h_pending'[t].caller = R[t].body
BY DEF HostAgrees, HS!CallsKept, HS!SameCall

HostStackUnchanged == UNCHANGED <<h_tx_queue, h_handlers, h_phase, h_running, h_retries>>

(* The host agrees with it after a step that keeps or ends calls.          *)
LEMMA HostKept ==
    ASSUME NEW R, HostAgrees(R), HS!CallsKept, UNCHANGED h_outbound, HostStackUnchanged,
           h2d' = h2d \/ (h2d # <<>> /\ h2d' = Tail(h2d))
    PROVE  HostAgrees(R)'
<1>1. h2d' \in Seq(RequestFrames(R))
  BY TailSeq DEF HostAgrees
<1> QED
  BY <1>1, PendingKept DEF HostAgrees, HostStackUnchanged, RequestFrames, Request

(* So does the device when nothing is executed that was not before.        *)
LEMMA DeviceKept ==
    ASSUME NEW R, NEW S, Registry(R), Extends(S, R), DeviceAgrees(R), Issued \subseteq Issued',
           UNCHANGED <<d_tx_queue, executed, device_run, jobs, d_cache, d_pending,
                       d_outbound, d_handlers, d_phase>>,
           d2h' = d2h \/ (d2h # <<>> /\ d2h' = Tail(d2h))
    PROVE  DeviceAgrees(S)'
<1>1. ExecutedGrows
  BY DEF ExecutedGrows, Executed
<1>2. d2h' \in Seq(DeviceFrames(R))
  <2>1. d2h \in Seq(DeviceFrames(R))
    BY DEF DeviceAgrees
  <2> QED
    BY <2>1, TailSeq
<1>3. d2h' \in Seq(DeviceFrames(S)') /\ d_tx_queue' \in Seq(DeviceFrames(S)')
  BY <1>1, <1>2, FramesGrow, SeqGrows DEF DeviceAgrees
<1>4. RequestFrames(R) \subseteq RequestFrames(S) /\ ResponseFrames(R) \subseteq ResponseFrames(S)'
  BY <1>1, FramesGrow
<1>5. RequestFrames(S)' = RequestFrames(S)
  BY DEF RequestFrames, Request
<1> QED
  BY <1>3, <1>4, <1>5 DEF DeviceAgrees

(* And the calls keep what they have been answered.                        *)
LEMMA CallsAnsweredKept ==
    ASSUME CallsAnswered, ExecutedGrows, UNCHANGED <<h_answers, abandoned>>,
           DOMAIN h_pending' = DOMAIN h_pending,
           \A t \in DOMAIN h_pending : h_pending'[t].caller = h_pending[t].caller
    PROVE  CallsAnswered'
<1>1. PendingCallers' = PendingCallers
  BY DEF PendingCallers
<1>2. NoSilentLoss'
  BY <1>1 DEF CallsAnswered, NoSilentLoss, Issued
<1> QED
  BY <1>2 DEF CallsAnswered, ExecutedGrows, Issued

-----------------------------------------------------------------------------
(***************************************************************************)
(* The steps of the host.                                                  *)
(***************************************************************************)
HostSessionUnchanged ==
    UNCHANGED <<h_next_tx_id, h_inflight_count, h_pending, h_outbound,
                h_seen_responses, h_seen_requests, h_cache, h_order, h_answers>>

(* What a packet from the device may do to the host: nothing, restart a    *)
(* timeout, or deliver the response of a call that was executed.           *)
LEMMA TelemetryRange ==
    ASSUME NEW cmd, Host!is_telemetry_cmd(cmd)
    PROVE  Host!is_reliable(cmd) /\ Host!Route(cmd) # "ack"
BY DEF Host!is_telemetry_cmd, Host!is_reliable, Host!Route, Host!ACK_CMD, Host!is_request_cmd

(* A frame of the device is an ack or a response to a registered and       *)
(* executed call, so the host does one of three things with it.            *)
LEMMA HostReceives ==
    ASSUME NEW R, Registry(R), HostAgrees(R), DeviceAgrees(R),
           d2h # <<>>, Host!handle_packet_internal(Head(d2h))
    PROVE  /\ h_phase = "rx"
           /\ HostStackUnchanged
           /\ \/ HostSessionUnchanged
              \/ \E tx \in HS!TxIds :
                    /\ Head(d2h) = [cmd |-> Host!ACK_CMD, tx |-> tx, body |-> NoBody]
                    /\ HS!on_ack(tx)
              \/ \E t \in DOMAIN R : /\ Executed(R[t].body)
                                     /\ HS!on_response(ResponseOf[R[t].cmd], t, R[t].body)
<1> DEFINE p == Head(d2h)
<1>1. p \in DeviceFrames(R)
  <2>1. d2h \in Seq(DeviceFrames(R))
    BY DEF DeviceAgrees
  <2> QED
    BY <2>1, TailSeq
<1> HIDE DEF p
<1>2. Host!handle_packet_internal(p)
  BY DEF p
<1>3. CASE p \in AckFrames
  <2>1. /\ Host!Route(p.cmd) = "ack" /\ p.tx \in HS!TxIds
        /\ p = [cmd |-> Host!ACK_CMD, tx |-> p.tx, body |-> NoBody]
    BY <1>3 DEF AckFrames, Host!Route
  <2>2. h_phase = "rx" /\ Host!on_ack(p.tx) /\ HostStackUnchanged
    BY <1>2, <2>1 DEF Host!handle_packet_internal, Host!handle_ack_packet,
           Host!stack_vars, HostStackUnchanged
  <2> QED
    BY <2>1, <2>2, HostOnAck DEF p
<1>4. CASE p \in StatusFrames
  <2>1. p.tx = 0 /\ Host!is_telemetry_cmd(p.cmd)
    BY <1>4, CommandClasses DEF StatusFrames
  <2>2. Host!is_reliable(p.cmd) /\ Host!Route(p.cmd) # "ack"
    BY <2>1, TelemetryRange
  <2>3. h_handlers = {}
    BY DEF HostAgrees
  <2>4. ASSUME Host!handle_request_packet(p)
        PROVE  HostStackUnchanged /\ HostSessionUnchanged
    BY <2>1, <2>2, <2>3, <2>4
    DEF Host!handle_request_packet, Host!UnreliablePacket, Host!UntrackedPacket,
        Host!DuplicateRequest, Host!NewRequest, Host!RunHandler, Host!session_vars,
        Host!host_vars, Host!device_vars, HostStackUnchanged, HostSessionUnchanged
  <2>5. ASSUME Host!handle_response_packet(p)
        PROVE  HostStackUnchanged /\ HostSessionUnchanged
    BY <2>1, <2>5
    DEF Host!handle_response_packet, Host!Ignore, Host!vars, Host!stack_vars,
        Host!session_vars, Host!host_vars, Host!device_vars,
        HostStackUnchanged, HostSessionUnchanged
  <2> QED
    BY <1>2, <2>2, <2>4, <2>5 DEF Host!handle_packet_internal
<1>5. CASE p \in ResponseFrames(R)
  <2>1. PICK t \in DOMAIN R : p = Response(R, t) /\ Executed(R[t].body)
    BY <1>5 DEF ResponseFrames
  <2>2. t # 0 /\ R[t].cmd \in RequestCmds
    BY DEF Registry
  <2>3. /\ p.tx = t /\ p.body = R[t].body
        /\ p.cmd = ResponseOf[R[t].cmd] /\ p.cmd \in ResponseCmds
    BY <2>1, <2>2, Constants DEF Response, HS!SessionAssumption
  <2>4. Host!Route(p.cmd) = "response"
    BY <2>3, CommandClasses
  <2>5. h_phase = "rx" /\ Host!on_response(p.cmd, p.tx, p.body) /\ HostStackUnchanged
    BY <1>2, <2>2, <2>3, <2>4
    DEF Host!handle_packet_internal, Host!handle_response_packet,
        Host!stack_vars, HostStackUnchanged
  <2> QED
    BY <2>1, <2>3, <2>5, HostOnResponse
<1> QED
  BY <1>1, <1>3, <1>4, <1>5 DEF DeviceFrames

(* A step that registers nothing leaves a registry that extends itself.    *)
LEMMA ExtendsItself == ASSUME NEW R PROVE Extends(R, R)
BY DEF Extends

(* The host receives a frame.                                              *)
LEMMA HostReceiveStep ==
    ASSUME NEW R, LinkInv(R), HostReceive
    PROVE  LinkInv(R)'
<1> USE DEF LinkInv
<1>1. /\ d2h # <<>> /\ d2h' = Tail(d2h)
      /\ UNCHANGED <<device, app, h2d, runs>>
      /\ Host!handle_packet_internal(Head(d2h))
  BY DEF HostReceive
<1>2. HostStackUnchanged
  BY <1>1, HostReceives
<1>3. CASE HostSessionUnchanged
  <2>1. HS!CallsKept
    BY <1>3 DEF HS!CallsKept, HS!SameCall, HostSessionUnchanged
  <2>2. HostAgrees(R)'
    BY <1>1, <1>2, <1>3, <2>1, HostKept DEF HostSessionUnchanged
  <2>3. DeviceAgrees(R)' /\ DS!SessionInv'
    BY <1>1, <1>3, DeviceKept, ExtendsItself, DeviceSessionKept
    DEF HostSessionUnchanged, Issued, device, app, runs
  <2>4. Registry(R)' /\ HS!SessionInv'
    BY <1>1, <1>3, RegistryKept, HostSessionKept DEF HostSessionUnchanged, Issued, runs
  <2>5. CallsAnswered'
    BY <1>1, <1>3, CallsAnsweredKept
    DEF HostSessionUnchanged, ExtendsItself, ExecutedGrows, Executed, app, runs
  <2> QED
    BY <2>2, <2>3, <2>4, <2>5
<1>4. ASSUME NEW tx \in HS!TxIds, HS!on_ack(tx)
      PROVE  LinkInv(R)'
  <2>1. /\ HS!CallsKept /\ DOMAIN h_pending' = DOMAIN h_pending
        /\ UNCHANGED <<h_next_tx_id, h_outbound, h_answers>>
        /\ HS!SessionInv'
    BY <1>4, HS!OnAckKeepsCalls, HS!OnAckInv, Constants DEF HS!SessionInv, HS!on_ack
  <2>2. HostAgrees(R)'
    BY <1>1, <1>2, <2>1, HostKept
  <2>3. DeviceAgrees(R)' /\ DS!SessionInv'
    BY <1>1, <2>1, DeviceKept, ExtendsItself, DeviceSessionKept
    DEF Issued, device, app, runs
  <2>4. Registry(R)'
    BY <1>1, <2>1, RegistryKept DEF Issued, runs
  <2>5. CallsAnswered'
    BY <1>1, <2>1, CallsAnsweredKept
    DEF ExecutedGrows, Executed, app, runs, HS!CallsKept, HS!SameCall
  <2> QED
    BY <2>1, <2>2, <2>3, <2>4, <2>5
<1>5. ASSUME NEW t \in DOMAIN R, Executed(R[t].body),
             HS!on_response(ResponseOf[R[t].cmd], t, R[t].body)
      PROVE  LinkInv(R)'
  <2> DEFINE k == R[t].body
  <2>1. /\ t \in HS!TxIds /\ k \in Issued /\ k \in Callers
        /\ ResponseOf[R[t].cmd] \in ResponseCmds
    <3>1. R[t].cmd \in RequestCmds /\ k \in Issued /\ t \in 1 .. h_next_tx_id - 1
      BY DEF Registry
    <3>2. h_next_tx_id \in HS!TxIds /\ Issued \subseteq Callers
      BY DEF HS!SessionInv, HS!TypeOK, Issued
    <3> QED
      BY <3>1, <3>2, Constants DEF HS!SessionAssumption, HS!TxIds
  <2>2. HS!SessionInv'
    BY <1>5, <2>1, HS!OnResponseInv, Constants
  <2>3. /\ UNCHANGED <<h_next_tx_id, h_outbound>>
        /\ HS!CallsKept
        /\ \/ UNCHANGED <<h_answers, h_pending>>
           \/ /\ t \in DOMAIN h_pending
              /\ DOMAIN h_pending' = DOMAIN h_pending \ {t}
              /\ h_answers' = [h_answers EXCEPT ![k] = <<k>>]
    <3>1. t \in DOMAIN h_pending =>
             h_pending[t].response_cmd = ResponseOf[R[t].cmd] /\ h_pending[t].caller = k
      BY DEF HostAgrees
    <3> QED
      BY <1>5, <3>1, HS!ResponseEffect, Constants
  <2>4. HostAgrees(R)'
    BY <1>1, <1>2, <2>3, HostKept
  <2>5. Issued' = Issued
    BY <2>3 DEF Issued
  <2>6. DeviceAgrees(R)' /\ DS!SessionInv'
    BY <1>1, <2>5, DeviceKept, ExtendsItself, DeviceSessionKept DEF device, app, runs
  <2>7. Registry(R)'
    BY <1>1, <2>3, <2>5, RegistryKept DEF runs
  <2>8. ExecutedGrows /\ UNCHANGED abandoned
    BY <1>1 DEF ExecutedGrows, Executed, app, runs
  <2>9. CallsAnswered'
    <3>1. CASE UNCHANGED <<h_answers, h_pending>>
      BY <2>8, <3>1, CallsAnsweredKept
    <3>2. CASE /\ t \in DOMAIN h_pending
               /\ DOMAIN h_pending' = DOMAIN h_pending \ {t}
               /\ h_answers' = [h_answers EXCEPT ![k] = <<k>>]
      <4>1. /\ h_answers'[k] = <<k>>
            /\ \A j \in Issued : j # k => h_answers'[j] = h_answers[j]
        BY <2>1, <3>2 DEF Issued
      <4>2. h_pending[t].caller = k
        BY <3>2 DEF HostAgrees
      <4>3. ASSUME NEW j \in Issued \ abandoned, h_answers'[j] = <<>>
            PROVE  j \in PendingCallers'
        <5>1. j # k /\ h_answers[j] = <<>>
          BY <4>1, <4>3
        <5>2. PICK s \in DOMAIN h_pending : h_pending[s].caller = j
          BY <5>1 DEF CallsAnswered, NoSilentLoss, PendingCallers
        <5>3. s \in DOMAIN h_pending' /\ h_pending'[s].caller = j
          BY <2>3, <3>2, <4>2, <5>1, <5>2 DEF HS!CallsKept, HS!SameCall
        <5> QED
          BY <5>3 DEF PendingCallers
      <4>4. NoSilentLoss'
        BY <2>5, <2>8, <4>3 DEF NoSilentLoss
      <4>5. Executed(k)'
        BY <1>5, <2>1, <2>8 DEF ExecutedGrows
      <4> QED
        BY <2>5, <2>8, <4>1, <4>4, <4>5 DEF CallsAnswered, ExecutedGrows
    <3> QED
      BY <2>3, <3>1, <3>2
  <2> QED
    BY <2>2, <2>4, <2>6, <2>7, <2>9
<1> QED
  BY <1>1, <1>3, <1>4, <1>5, HostReceives

(* A step of the host that neither makes nor ends a call leaves the rest   *)
(* of the invariant as it was.                                             *)
LEMMA QuietHostStep ==
    ASSUME NEW R, LinkInv(R), UNCHANGED <<device, app, d2h, runs>>,
           UNCHANGED <<h_next_tx_id, h_answers>>,
           DOMAIN h_pending' = DOMAIN h_pending,
           \A t \in DOMAIN h_pending : h_pending'[t].caller = h_pending[t].caller,
           HS!SessionInv', HostAgrees(R)'
    PROVE  LinkInv(R)'
<1> USE DEF LinkInv
<1>1. DeviceAgrees(R)' /\ DS!SessionInv'
  BY DeviceKept, ExtendsItself, DeviceSessionKept DEF Issued, device, app, runs
<1>2. Registry(R)'
  BY RegistryKept DEF Issued, runs
<1>3. CallsAnswered'
  BY CallsAnsweredKept DEF ExecutedGrows, Executed, app, runs
<1> QED
  BY <1>1, <1>2, <1>3

(* Time passes on the host.                                                *)
LEMMA HostTickStep ==
    ASSUME NEW R, LinkInv(R), HostTick
    PROVE  LinkInv(R)'
<1>1. /\ HS!Tick /\ HostStackUnchanged
      /\ UNCHANGED <<device, app, h2d, d2h, runs>>
  BY HostClockTick DEF HostTick, Host!ClockTick, Host!stack_vars, HostStackUnchanged
<1>2. /\ HS!CallsKept /\ DOMAIN h_pending' = DOMAIN h_pending
      /\ HS!SessionInv'
      /\ UNCHANGED <<h_next_tx_id, h_outbound, h_answers>>
  BY <1>1, HS!TickKeepsCalls, HS!TickInv, Constants DEF LinkInv, HS!SessionInv, HS!Tick
<1>3. HostAgrees(R)'
  BY <1>1, <1>2, HostKept DEF LinkInv
<1> QED
  BY <1>1, <1>2, <1>3, QuietHostStep DEF HS!CallsKept, HS!SameCall

(* The host puts its first frame on the line.                              *)
LEMMA HostSendsStep ==
    ASSUME NEW R, LinkInv(R), HostSends
    PROVE  LinkInv(R)'
<1>1. /\ h_tx_queue # <<>> /\ h_phase = "tx" /\ h_phase' = "rx"
      /\ h_tx_queue' = Tail(h_tx_queue) /\ h2d' = Append(h2d, Head(h_tx_queue))
      /\ UNCHANGED <<device, app, d2h, runs, h_handlers, h_retries>>
      /\ HostSessionUnchanged
  BY DEF HostSends, Host!FrameSent, Host!session_vars, Host!host_vars, Host!device_vars,
         HostSessionUnchanged
<1>2. h_tx_queue' \in Seq(RequestFrames(R)) /\ h2d' \in Seq(RequestFrames(R))
  <2>1. h_tx_queue \in Seq(RequestFrames(R)) /\ h2d \in Seq(RequestFrames(R))
    BY DEF LinkInv, HostAgrees
  <2> QED
    BY <1>1, <2>1, TailSeq
<1>3. RequestFrames(R)' = RequestFrames(R)
  BY DEF RequestFrames, Request
<1>4. HostAgrees(R)'
  BY <1>1, <1>2, <1>3 DEF LinkInv, HostAgrees, HostSessionUnchanged
<1>5. HS!SessionInv'
  BY <1>1, HostSessionKept DEF LinkInv, HostSessionUnchanged
<1> QED
  BY <1>1, <1>4, <1>5, QuietHostStep DEF HostSessionUnchanged

(* The next waiting call goes into the transmit queue.                     *)
LEMMA PumpOutboundStep ==
    ASSUME NEW R, LinkInv(R), Host!PumpOutbound, UNCHANGED <<device, app, h2d, d2h, runs>>
    PROVE  LinkInv(R)'
<1> DEFINE tx == HS!OutboundTx
<1>1. /\ HS!TakeOutbound
      /\ h_phase = "outbound" /\ h_phase' \in {"outbound", "poll"}
      /\ h_tx_queue' = Host!enqueue_pending_frame(h_tx_queue, Host!RequestFrame(tx))
      /\ UNCHANGED <<h_handlers, h_retries>>
  BY HostTakeOutbound DEF Host!PumpOutbound
<1>2. /\ tx \in DOMAIN h_pending
      /\ DOMAIN h_pending' = DOMAIN h_pending
      /\ \A t \in DOMAIN h_pending : HS!SameCall(h_pending'[t], h_pending[t])
      /\ \A i \in DOMAIN h_outbound' : h_outbound'[i] \in {h_outbound[j] : j \in DOMAIN h_outbound}
      /\ UNCHANGED <<h_next_tx_id, h_answers>>
      /\ HS!SessionInv'
  BY <1>1, HS!TakeOutboundEffect, HS!TakeOutboundInv, Constants DEF LinkInv
<1> HIDE DEF tx
<1>3. Host!RequestFrame(tx) \in RequestFrames(R)
  BY <1>2 DEF LinkInv, HostAgrees, Host!RequestFrame, RequestFrames, Request
<1>4. h_tx_queue' \in Seq(RequestFrames(R))
  <2>1. \A f \in RequestFrames(R) : ~ Host!is_telemetry_cmd(f.cmd)
    BY CommandClasses DEF RequestFrames, Request, LinkInv, Registry
  <2>2. h_tx_queue \in Seq(RequestFrames(R))
    BY DEF LinkInv, HostAgrees
  <2>3. h_tx_queue' \in {h_tx_queue, Append(h_tx_queue, Host!RequestFrame(tx))}
    BY <1>1, <1>3, <2>1, <2>2, EnqueueRequest
  <2> QED
    BY <1>3, <2>2, <2>3
<1>5. RequestFrames(R)' = RequestFrames(R)
  BY DEF RequestFrames, Request
<1>6. HostAgrees(R)'
  BY <1>1, <1>2, <1>4, <1>5 DEF LinkInv, HostAgrees, HS!SameCall
<1> QED
  BY <1>2, <1>6, QuietHostStep DEF HS!SameCall

(* The empty sequence is the one of length 0.                              *)
LEMMA EmptySeq ==
    ASSUME NEW S, NEW q \in Seq(S)
    PROVE  q = <<>> <=> Len(q) = 0
OBVIOUS

(* A retransmission goes into the transmit queue, with the bytes of its    *)
(* call.                                                                   *)
LEMMA RequeueRetryStep ==
    ASSUME NEW R, LinkInv(R), Host!RequeueRetry, UNCHANGED <<device, app, h2d, d2h, runs>>
    PROVE  LinkInv(R)'
<1> DEFINE r == Head(h_retries)
           Entries == [cmd : RequestCmds, tx : DOMAIN R, body : Callers, valid : {TRUE}]
<1>1. h_phase = "requeue" /\ h_retries # <<>> /\ h_retries \in Seq(Entries)
  BY DEF Host!RequeueRetry, LinkInv, HostAgrees
<1>2. /\ r \in Entries
      /\ r.cmd = R[r.tx].cmd /\ r.body = R[r.tx].body
      /\ Tail(h_retries) \in Seq(Entries)
      /\ Len(Tail(h_retries)) = Len(h_retries) - 1
      /\ \A i \in DOMAIN Tail(h_retries) :
            i + 1 \in DOMAIN h_retries /\ Tail(h_retries)[i] = h_retries[i + 1]
  <2>1. 1 \in DOMAIN h_retries /\ r = h_retries[1]
    BY <1>1
  <2>2. r.cmd = R[r.tx].cmd /\ r.body = R[r.tx].body
    BY <2>1 DEF LinkInv, HostAgrees
  <2> HIDE DEF Entries
  <2> QED
    BY <1>1, <2>2, TailSeq
<1>3. /\ h_tx_queue' = Host!enqueue_pending_frame(
                         h_tx_queue, [cmd |-> r.cmd, tx |-> r.tx, body |-> r.body])
      /\ h_retries' = Tail(h_retries)
      /\ h_phase' = IF Len(h_retries) = 1 THEN "tx" ELSE "requeue"
      /\ UNCHANGED h_handlers
      /\ HostSessionUnchanged
  <2>1. r.valid = TRUE
    BY <1>2
  <2> QED
    BY <2>1 DEF Host!RequeueRetry, Host!session_vars, Host!host_vars, Host!device_vars,
                HostSessionUnchanged
<1> HIDE DEF r
<1>4. [cmd |-> r.cmd, tx |-> r.tx, body |-> r.body] \in RequestFrames(R)
  BY <1>2 DEF RequestFrames, Request
<1>5. h_tx_queue' \in Seq(RequestFrames(R))
  <2>1. \A f \in RequestFrames(R) : ~ Host!is_telemetry_cmd(f.cmd)
    BY CommandClasses DEF RequestFrames, Request, LinkInv, Registry
  <2>2. h_tx_queue \in Seq(RequestFrames(R))
    BY DEF LinkInv, HostAgrees
  <2>3. h_tx_queue' \in {h_tx_queue,
                         Append(h_tx_queue, [cmd |-> r.cmd, tx |-> r.tx, body |-> r.body])}
    BY <1>3, <1>4, <2>1, <2>2, EnqueueRequest
  <2> QED
    BY <1>4, <2>2, <2>3
<1>6. RequestFrames(R)' = RequestFrames(R)
  BY DEF RequestFrames, Request
<1>7. (h_phase' = "tx" => h_retries' = <<>>) /\ (h_phase' = "requeue" => h_retries' # <<>>)
  <2> HIDE DEF Entries
  <2>1. Len(h_retries) \in Nat /\ Len(h_retries) # 0
    BY <1>1
  <2>2. Len(h_retries) = 1 <=> Tail(h_retries) = <<>>
    <3>1. Tail(h_retries) = <<>> <=> Len(Tail(h_retries)) = 0
      BY <1>2, EmptySeq
    <3>2. Len(Tail(h_retries)) = Len(h_retries) - 1
      BY <1>2
    <3> QED
      BY <2>1, <3>1, <3>2
  <2> QED
    BY <1>3, <2>2
<1>8. \A i \in DOMAIN h_retries' :
         h_retries'[i].cmd = R[h_retries'[i].tx].cmd /\ h_retries'[i].body = R[h_retries'[i].tx].body
  BY <1>2, <1>3 DEF LinkInv, HostAgrees
<1>9. HostAgrees(R)'
  <2>1. h_phase' \in {"tx", "requeue"}
    BY <1>3
  <2> QED
    BY <1>2, <1>3, <1>5, <1>6, <1>7, <1>8, <2>1 DEF LinkInv, HostAgrees, HostSessionUnchanged
<1>10. HS!SessionInv'
  BY <1>3, HostSessionKept DEF LinkInv, HostSessionUnchanged
<1> QED
  BY <1>3, <1>9, <1>10, QuietHostStep DEF HostSessionUnchanged

(* A window of 1 holds at most one call.                                   *)
LEMMA WindowOfOne ==
    ASSUME HS!SessionInv, OneAtATime
    PROVE  \A s, t \in HS!InWindow : s = t
<1>1. Cardinality(HS!InWindow) <= 1
  BY SameCardinality, Constants
  DEF HS!SessionInv, HS!InflightExact, HS!CountWithinWindow, HS!window_size, OneAtATime,
      HS!SessionAssumption
<1>2. IsFiniteSet(HS!InWindow)
  <2>1. HS!InWindow \subseteq 0 .. TxModulus - 1
    BY DEF HS!SessionInv, HS!TypeOK, HS!InWindow, HS!TxIds
  <2>2. IsFiniteSet(0 .. TxModulus - 1)
    BY FS_Interval, Constants DEF HS!SessionAssumption
  <2> QED
    BY <2>1, <2>2, FS_Subset
<1> SUFFICES ASSUME NEW s \in HS!InWindow, NEW t \in HS!InWindow, s # t PROVE FALSE
  OBVIOUS
<1>3. IsFiniteSet({t}) /\ Cardinality({t}) = 1
  BY FS_Singleton
<1>4. Cardinality({s, t}) = 2
  <2>1. {s, t} = {t} \cup {s}
    OBVIOUS
  <2> QED
    BY <1>3, <2>1, FS_AddElement
<1>5. Cardinality({s, t}) <= Cardinality(HS!InWindow)
  BY <1>2, FS_Subset
<1> QED
  BY <1>1, <1>2, <1>4, <1>5, FS_CardinalityType

(* poll ends the expired calls and hands out the others that are due.      *)
LEMMA PollSessionStep ==
    ASSUME NEW R, LinkInv(R), Host!PollSession, UNCHANGED <<device, app, h2d, d2h, runs>>
    PROVE  LinkInv(R)'
<1> DEFINE Entries == [cmd : RequestCmds, tx : DOMAIN R, body : Callers, valid : {TRUE}]
<1>1. /\ HS!poll
      /\ UNCHANGED <<h_tx_queue, h_handlers>>
      /\ h_phase' = IF Host!Expired # {} THEN "errors"
                    ELSE IF Host!Retried # {} THEN "requeue" ELSE "tx"
  BY HostPoll DEF Host!PollSession
<1>2. PICK order \in Host!SetToSeqs(Host!Retried) :
         h_retries' = [i \in DOMAIN order |-> Host!RetransmitEntry(order[i])]
  BY DEF Host!PollSession
<1>3. /\ Host!Retried = HS!Retried /\ Host!Expired = HS!Expired
      /\ Host!Retried \subseteq HS!InWindow \ Host!Expired
      /\ Host!Expired \subseteq HS!InWindow
  BY DEF Host!Retried, HS!Retried, Host!Expired, HS!Expired, Host!Due, HS!Due,
         Host!InWindow, HS!InWindow
<1>4. /\ order \in [1 .. Host!Cardinality(Host!Retried) -> Host!Retried]
      /\ Host!Cardinality(Host!Retried) = Cardinality(Host!Retried)
  BY SameCardinality DEF Host!SetToSeqs
<1>5. IsFiniteSet(Host!Retried) /\ Cardinality(Host!Retried) \in Nat
  <2>1. Host!Retried \subseteq 0 .. TxModulus - 1
    BY <1>3 DEF LinkInv, HS!SessionInv, HS!TypeOK, HS!InWindow, HS!TxIds
  <2>2. IsFiniteSet(0 .. TxModulus - 1)
    BY FS_Interval, Constants DEF HS!SessionAssumption
  <2> QED
    BY <2>1, <2>2, FS_Subset, FS_CardinalityType
<1>6. \A tx \in Host!Retried :
         /\ tx \in DOMAIN h_pending /\ tx \in DOMAIN R
         /\ Host!RetransmitEntry(tx)
               = [cmd |-> R[tx].cmd, tx |-> tx, body |-> R[tx].body, valid |-> TRUE]
  BY <1>3 DEF HS!InWindow, LinkInv, HostAgrees, Host!RetransmitEntry
<1>7. \A tx \in DOMAIN R : R[tx].cmd \in RequestCmds /\ R[tx].body \in Callers
  BY DEF LinkInv, Registry, Issued, HS!SessionInv, HS!TypeOK
<1>8. /\ h_retries' \in Seq(Entries)
      /\ \A i \in DOMAIN h_retries' :
            /\ h_retries'[i].cmd = R[h_retries'[i].tx].cmd
            /\ h_retries'[i].body = R[h_retries'[i].tx].body
      /\ Host!Retried # {} => h_retries' # <<>>
      /\ Host!Retried = {} => h_retries' = <<>>
  <2> DEFINE n == Cardinality(Host!Retried)
  <2>1. n \in Nat /\ DOMAIN order = 1 .. n /\ \A i \in 1 .. n : order[i] \in Host!Retried
    BY <1>4, <1>5
  <2>2. Host!Retried # {} <=> n # 0
    BY <1>5, FS_EmptySet
  <2> HIDE DEF n
  <2>3. h_retries' = [i \in 1 .. n |-> Host!RetransmitEntry(order[i])]
    BY <1>2, <2>1
  <2>4. \A i \in 1 .. n : Host!RetransmitEntry(order[i]) \in Entries
    <3>1. ASSUME NEW tx \in Host!Retried
          PROVE  Host!RetransmitEntry(tx) \in Entries
      <4>1. tx \in DOMAIN R /\ R[tx].cmd \in RequestCmds /\ R[tx].body \in Callers
        BY <1>6, <1>7
      <4>2. Host!RetransmitEntry(tx)
              = [cmd |-> R[tx].cmd, tx |-> tx, body |-> R[tx].body, valid |-> TRUE]
        BY <1>6
      <4> QED
        BY <4>1, <4>2
    <3> QED
      BY <2>1, <3>1
  <2> HIDE DEF Entries
  <2>5. h_retries' \in Seq(Entries) /\ Len(h_retries') = n
    BY <2>1, <2>3, <2>4
  <2>6. \A i \in DOMAIN h_retries' :
            /\ h_retries'[i].cmd = R[h_retries'[i].tx].cmd
            /\ h_retries'[i].body = R[h_retries'[i].tx].body
    BY <1>6, <2>1, <2>3
  <2> QED
    BY <2>1, <2>2, <2>5, <2>6
<1>9. OneAtATime /\ Host!Expired # {} => Host!Retried = {}
  BY <1>3, WindowOfOne DEF LinkInv
<1>10. /\ HS!SessionInv' /\ HS!CallsKept
       /\ DOMAIN h_answers' = DOMAIN h_answers
       /\ \A k \in DOMAIN h_answers :
             h_answers'[k] = h_answers[k] \/ h_answers'[k] = <<Timeout>>
       /\ \A tx \in DOMAIN h_pending \ DOMAIN h_pending' :
             h_answers'[h_pending[tx].caller] = <<Timeout>>
       /\ UNCHANGED <<h_next_tx_id, h_outbound>>
  BY <1>1, HS!PollEffect, HS!PollInv, Constants DEF LinkInv
<1>11. RequestFrames(R)' = RequestFrames(R)
  BY DEF RequestFrames, Request
<1>12. HostAgrees(R)'
  <2>1. \A t \in DOMAIN h_pending' :
              /\ t \in DOMAIN R
              /\ h_pending'[t].request_cmd = R[t].cmd
              /\ h_pending'[t].response_cmd = ResponseOf[R[t].cmd]
              /\ h_pending'[t].caller = R[t].body
    BY <1>10, PendingKept DEF LinkInv
  <2>2. /\ h_phase' \in {"errors", "requeue", "tx"}
        /\ h_phase' = "tx" => h_retries' = <<>>
        /\ h_phase' = "requeue" => h_retries' # <<>>
        /\ OneAtATime /\ h_phase' = "errors" => h_retries' = <<>>
    BY <1>1, <1>8, <1>9
  <2> QED
    BY <1>1, <1>8, <1>10, <1>11, <2>1, <2>2 DEF LinkInv, HostAgrees
<1>13. DeviceAgrees(R)' /\ DS!SessionInv' /\ Registry(R)'
  BY <1>10, DeviceKept, ExtendsItself, DeviceSessionKept, RegistryKept
  DEF LinkInv, Issued, device, app, runs
<1>14. CallsAnswered'
  <2>1. ExecutedGrows /\ UNCHANGED abandoned /\ Issued' = Issued
    BY <1>10 DEF ExecutedGrows, Executed, app, runs, Issued
  <2>2. \A k \in Issued : /\ h_answers'[k] \in {<<>>, <<Timeout>>, <<k>>}
                          /\ h_answers'[k] = <<k>> => Executed(k)'
    <3> SUFFICES ASSUME NEW k \in Issued
                 PROVE  /\ h_answers'[k] \in {<<>>, <<Timeout>>, <<k>>}
                        /\ h_answers'[k] = <<k>> => Executed(k)'
      OBVIOUS
    <3>1. k # Timeout
      BY Constants DEF HS!SessionAssumption, LinkInv, HS!SessionInv, HS!TypeOK, Issued
    <3>2. <<Timeout>> # <<k>>
      BY <3>1
    <3> QED
      BY <1>10, <2>1, <3>2 DEF LinkInv, CallsAnswered, ExecutedGrows, Issued
  <2>3. ASSUME NEW k \in Issued \ abandoned, h_answers'[k] = <<>>
        PROVE  k \in PendingCallers'
    <3>1. h_answers[k] = <<>>
      BY <1>10, <2>3 DEF Issued
    <3>2. PICK s \in DOMAIN h_pending : h_pending[s].caller = k
      BY <3>1, <2>3 DEF LinkInv, CallsAnswered, NoSilentLoss, PendingCallers
    <3>3. s \in DOMAIN h_pending'
      BY <1>10, <2>3, <3>2
    <3>4. h_pending'[s].caller = k
      BY <1>10, <3>2, <3>3 DEF HS!CallsKept, HS!SameCall
    <3> QED
      BY <3>3, <3>4 DEF PendingCallers
  <2>4. NoSilentLoss'
    BY <2>1, <2>3 DEF NoSilentLoss
  <2> QED
    BY <2>1, <2>2, <2>4 DEF LinkInv, CallsAnswered
<1> QED
  BY <1>10, <1>12, <1>13, <1>14 DEF LinkInv

(* The steps of the cycle that only move the phase.                        *)
LEMMA HostPhaseStep ==
    ASSUME NEW R, LinkInv(R), UNCHANGED <<device, app, h2d, d2h, runs>>,
           Host!RxDrained \/ Host!ErrorCallbacksReturn \/ Host!FrameKept
    PROVE  LinkInv(R)'
<1>1. /\ HostSessionUnchanged
      /\ UNCHANGED <<h_tx_queue, h_handlers, h_retries>>
  BY DEF Host!RxDrained, Host!ErrorCallbacksReturn, Host!FrameKept, Host!session_vars,
         Host!host_vars, Host!device_vars, HostSessionUnchanged
<1>2. /\ h_phase' \in {"rx", "outbound", "requeue", "tx"}
      /\ h_phase' # "requeue" => h_retries = <<>>
      /\ h_phase' = "requeue" => h_retries # <<>>
  BY DEF Host!RxDrained, Host!ErrorCallbacksReturn, Host!FrameKept, LinkInv, HostAgrees
<1>3. RequestFrames(R)' = RequestFrames(R)
  BY DEF RequestFrames, Request
<1>4. HostAgrees(R)'
  BY <1>1, <1>2, <1>3 DEF LinkInv, HostAgrees, HostSessionUnchanged
<1>5. HS!SessionInv'
  BY <1>1, HostSessionKept DEF LinkInv, HostSessionUnchanged
<1> QED
  BY <1>1, <1>4, <1>5, QuietHostStep DEF HostSessionUnchanged

(* No call is left that fits the window.                                   *)
LEMMA OutboundDoneStep ==
    ASSUME NEW R, LinkInv(R), Host!OutboundDone, UNCHANGED <<device, app, h2d, d2h, runs>>
    PROVE  LinkInv(R)'
<1>1. /\ HS!NoOutbound
      /\ h_phase = "outbound" /\ h_phase' = "poll"
      /\ UNCHANGED <<h_tx_queue, h_handlers, h_retries>>
  BY HostNoOutbound DEF Host!OutboundDone
<1>2. HS!SessionInv'
  BY <1>1, HS!NextOutboundInv, Constants DEF LinkInv, HS!next_outbound
<1>3. /\ h_outbound' \in {<<>>, h_outbound}
      /\ UNCHANGED <<h_next_tx_id, h_pending, h_answers>>
  BY <1>1 DEF HS!NoOutbound
<1>4. RequestFrames(R)' = RequestFrames(R)
  BY DEF RequestFrames, Request
<1>5. HostAgrees(R)'
  BY <1>1, <1>3, <1>4 DEF LinkInv, HostAgrees
<1> QED
  BY <1>2, <1>3, <1>5, QuietHostStep

(* Every other step of the cycle of the host.                              *)
LEMMA HostWorksStep ==
    ASSUME NEW R, LinkInv(R), HostWorks
    PROVE  LinkInv(R)'
BY HostPhaseStep, PumpOutboundStep, OutboundDoneStep, PollSessionStep, RequeueRetryStep
DEF HostWorks, Host!handle_session_outbound

(* A new call enters the registry under the next transaction id.           *)
Registered(R, tx, cmd, k) ==
    [t \in DOMAIN R \cup {tx} |-> IF t = tx THEN [cmd |-> cmd, body |-> k] ELSE R[t]]

(* The ids of a host run end before the counter wraps.                     *)
LEMMA IdLimitBelowModulus ==
    ASSUME NEW run \in DOMAIN FirstTxIds
    PROVE  IdLimit(run) \in Nat /\ IdLimit(run) <= TxModulus - 1
BY LinkAssumption, Constants DEF IdLimit, HS!SessionAssumption

(* Below the modulus, the remainder is the number itself.                  *)
LEMMA SmallModulo ==
    ASSUME NEW a \in Nat, NEW m \in Nat, a < m
    PROVE  a % m = a
OBVIOUS

(* A new call is registered under an id no earlier one had.                *)
LEMMA HostCallStep ==
    ASSUME IdsNotReused, RetriesNotMoved, NEW R, LinkInv(R),
           NEW k \in Callers, NEW cmd \in RequestCmds,
           NEW timeout \in Timeouts, NEW max_retries \in RetryLimits,
           Host!Send(k, cmd, timeout, max_retries),
           h_phase = "errors" => CallbacksSend,
           UNCHANGED <<device, app, h2d, d2h, runs>>,
           NEW S, S = Registered(R, h_next_tx_id, cmd, k)
    PROVE  /\ LinkInv(S)' /\ Extends(S, R)
           /\ h_next_tx_id' = h_next_tx_id + 1 /\ UNCHANGED h_retries
<1> DEFINE n == h_next_tx_id
<1>1. /\ HS!send(k, cmd, timeout, max_retries)
      /\ h_retries' \in {h_retries, Host!Moved(h_retries)}
      /\ UNCHANGED <<h_tx_queue, h_handlers, h_phase>>
      /\ h_phase \in {"rx", "handler", "errors"}
  BY HostSend DEF Host!Send, Host!OnProtocolThread
<1>2. HS!SessionInv'
  BY <1>1, HS!SendInv, Constants DEF LinkInv
<1>3. /\ k \notin Issued
      /\ h_next_tx_id' = (n + 1) % TxModulus
      /\ h_pending' = HS!Put(h_pending, n, HS!NewPending(k, cmd, timeout, max_retries))
      /\ h_outbound' = Append(h_outbound, n)
      /\ h_answers' = HS!Put(h_answers, k, <<>>)
  BY <1>1 DEF HS!send, HS!register_pending, HS!AfterTxId, Issued
<1>4. /\ Issued' = Issued \cup {k}
      /\ h_answers'[k] = <<>>
      /\ \A j \in Issued : h_answers'[j] = h_answers[j]
      /\ Issued \subseteq Callers
  BY <1>3 DEF HS!Put, Issued, LinkInv, HS!SessionInv, HS!TypeOK
<1>5. n \in Nat /\ n > 0 /\ n \notin DOMAIN R /\ DOMAIN R \subseteq 1 .. n - 1
  BY DEF LinkInv, Registry, HS!SessionInv, HS!TypeOK, HS!TxIds
<1>6. /\ DOMAIN S = DOMAIN R \cup {n}
      /\ S[n] = [cmd |-> cmd, body |-> k]
      /\ \A t \in DOMAIN R : S[t] = R[t]
      /\ S = [t \in DOMAIN S |-> S[t]]
  BY <1>5 DEF Registered
<1>7. Extends(S, R)
  BY <1>6 DEF Extends
<1>8. /\ Cardinality(Callers \ Issued') = Cardinality(Callers \ Issued) - 1
      /\ Cardinality(Callers \ Issued) \in Nat /\ Cardinality(Callers \ Issued') \in Nat
  <2>1. IsFiniteSet(Callers \ Issued)
    BY FS_Subset DEF IdsNotReused
  <2>2. Callers \ Issued' = (Callers \ Issued) \ {k}
    BY <1>4
  <2>3. k \in Callers \ Issued
    BY <1>3
  <2> QED
    BY <2>1, <2>2, <2>3, FS_RemoveElement, FS_CardinalityType
<1>9. h_next_tx_id' = n + 1
  <2>1. n + Cardinality(Callers \ Issued) <= IdLimit(host_run) /\ host_run \in DOMAIN FirstTxIds
    BY LinkAssumption DEF LinkInv, Registry
  <2>2. n + 1 <= TxModulus - 1
    BY <1>5, <1>8, <2>1, IdLimitBelowModulus, Constants DEF HS!SessionAssumption
  <2> QED
    <3>1. TxModulus \in Nat /\ n + 1 \in Nat /\ n + 1 < TxModulus
      BY <1>5, <2>2, Constants DEF HS!SessionAssumption
    <3>2. (n + 1) % TxModulus = n + 1
      BY <3>1, SmallModulo
    <3> QED
      BY <1>3, <3>2
<1>10. Registry(S)'
  <2>1. \A t \in DOMAIN S : S[t] \in [cmd : RequestCmds, body : Issued']
    BY <1>4, <1>6 DEF LinkInv, Registry
  <2>2. \A s, t \in DOMAIN S : S[s].body = S[t].body => s = t
    BY <1>3, <1>6 DEF LinkInv, Registry
  <2>3. DOMAIN S \subseteq 1 .. h_next_tx_id' - 1
    BY <1>5, <1>6, <1>9
  <2>4. /\ host_run' \in 1 .. Len(FirstTxIds)
        /\ h_next_tx_id' + Cardinality(Callers \ Issued') <= IdLimit(host_run')
    <3>1. host_run' = host_run
      BY DEF runs
    <3>2. host_run \in DOMAIN FirstTxIds /\ n + Cardinality(Callers \ Issued) <= IdLimit(host_run)
      BY LinkAssumption DEF LinkInv, Registry
    <3>3. IdLimit(host_run) \in Nat
      BY <3>2, IdLimitBelowModulus
    <3> QED
      BY <1>5, <1>8, <1>9, <3>1, <3>2, <3>3 DEF LinkInv, Registry
  <2>5. S \in [DOMAIN S -> [cmd : RequestCmds, body : Issued']]
    BY <1>6, <2>1
  <2> QED
    BY <1>5, <1>9, <2>2, <2>3, <2>4, <2>5 DEF Registry
<1>11. ExecutedGrows
  BY DEF ExecutedGrows, Executed, app, runs
<1>12. h_retries = <<>> /\ h_retries' = <<>>
  <2>1. h_retries = <<>>
    BY <1>1 DEF LinkInv, HostAgrees, RetriesNotMoved
  <2>2. Host!Moved(<<>>) = <<>>
    BY DEF Host!Moved
  <2> QED
    BY <1>1, <2>1, <2>2
<1>13. HostAgrees(S)'
  <2>1. RequestFrames(R) \subseteq RequestFrames(S) /\ RequestFrames(S)' = RequestFrames(S)
    BY <1>7, <1>11, FramesGrow DEF LinkInv, RequestFrames, Request
  <2>2. h_tx_queue' \in Seq(RequestFrames(S)) /\ h2d' \in Seq(RequestFrames(S))
    BY <1>1, <2>1, SeqGrows DEF LinkInv, HostAgrees
  <2>3. \A t \in DOMAIN h_pending' :
          /\ t \in DOMAIN S
          /\ h_pending'[t].request_cmd = S[t].cmd
          /\ h_pending'[t].response_cmd = ResponseOf[S[t].cmd]
          /\ h_pending'[t].caller = S[t].body
    BY <1>3, <1>5, <1>6 DEF HS!Put, HS!NewPending, LinkInv, HostAgrees
  <2>4. \A i \in DOMAIN h_outbound' : h_outbound'[i] \in DOMAIN S
    <3>1. h_outbound \in Seq(HS!TxIds)
      BY DEF LinkInv, HS!SessionInv, HS!TypeOK
    <3> QED
      BY <1>3, <1>6, <3>1 DEF LinkInv, HostAgrees
  <2> QED
    BY <1>1, <1>12, <2>1, <2>2, <2>3, <2>4 DEF LinkInv, HostAgrees
<1>14. DeviceAgrees(S)' /\ DS!SessionInv'
  BY <1>4, <1>7, DeviceKept, DeviceSessionKept DEF LinkInv, device, app, runs
<1>15. CallsAnswered'
  <2>1. \A j \in PendingCallers : j \in PendingCallers'
    <3>1. \A t \in DOMAIN h_pending : t \in DOMAIN h_pending' /\ h_pending'[t] = h_pending[t]
      BY <1>3, <1>5 DEF HS!Put, LinkInv, HostAgrees
    <3> QED
      BY <3>1 DEF PendingCallers
  <2>2. k \in PendingCallers'
    BY <1>3 DEF HS!Put, HS!NewPending, PendingCallers
  <2>3. NoSilentLoss'
    BY <1>4, <2>1, <2>2 DEF NoSilentLoss, LinkInv, CallsAnswered, runs
  <2> QED
    BY <1>4, <1>11, <2>3 DEF LinkInv, CallsAnswered, ExecutedGrows, runs
<1> QED
  BY <1>2, <1>7, <1>9, <1>10, <1>12, <1>13, <1>14, <1>15 DEF LinkInv

-----------------------------------------------------------------------------
(***************************************************************************)
(* The steps of the device and of the line.                                *)
(***************************************************************************)

(* The host agrees with the registry after any step of the device or the   *)
(* line that takes its frames from those there were.                       *)
LEMMA HostUntouched ==
    ASSUME NEW R, LinkInv(R), UNCHANGED <<host, runs>>, ExecutedGrows,
           h2d' = h2d \/ (h2d # <<>> /\ h2d' = Tail(h2d))
    PROVE  HS!SessionInv' /\ Registry(R)' /\ HostAgrees(R)' /\ CallsAnswered'
<1>1. HostSessionUnchanged /\ HostStackUnchanged
  BY DEF host, HostSessionUnchanged, HostStackUnchanged
<1>2. HS!CallsKept
  BY <1>1 DEF HS!CallsKept, HS!SameCall, HostSessionUnchanged
<1>3. HS!SessionInv' /\ Registry(R)' /\ HostAgrees(R)'
  BY <1>1, <1>2, HostSessionKept, RegistryKept, HostKept
  DEF LinkInv, HostSessionUnchanged, Issued, runs
<1>4. CallsAnswered'
  BY <1>1, CallsAnsweredKept DEF LinkInv, HostSessionUnchanged, runs
<1> QED
  BY <1>3, <1>4

(* The line loses a frame.                                                 *)
LEMMA LoseStep ==
    ASSUME NEW R, LinkInv(R), Lose
    PROVE  LinkInv(R)'
<1>1. /\ UNCHANGED <<host, device, app, runs>>
      /\ h2d' = h2d \/ (h2d # <<>> /\ h2d' = Tail(h2d))
      /\ d2h' = d2h \/ (d2h # <<>> /\ d2h' = Tail(d2h))
  BY DEF Lose
<1>2. ExecutedGrows /\ Issued' = Issued
  BY <1>1 DEF ExecutedGrows, Executed, app, runs, host, Issued
<1>3. DeviceAgrees(R)' /\ DS!SessionInv'
  BY <1>1, <1>2, DeviceKept, ExtendsItself, DeviceSessionKept DEF LinkInv, device, app, runs
<1> QED
  BY <1>1, <1>2, <1>3, HostUntouched DEF LinkInv

(* Whether the request is new or a duplicate, a frame with its id enters   *)
(* the queue with priority; only a new one is executed.                    *)
LEMMA DeviceReceives ==
    ASSUME NEW R, LinkInv(R), DeviceReceive
    PROVE  \E t \in DOMAIN R :
              /\ h2d # <<>> /\ h2d' = Tail(h2d)
              /\ Head(h2d) = Request(R, t)
              /\ UNCHANGED <<host, d2h, runs, d_handlers>>
              /\ DS!on_request(R[t].cmd, t)
              /\ d_tx_queue' \in Seq(DeviceFrames(R))
              /\ \E i \in DOMAIN d_tx_queue' :
                    /\ d_tx_queue'[i].cmd \in {Host!ACK_CMD} \cup ResponseCmds
                    /\ d_tx_queue'[i].tx = t
              /\ \/ /\ Device!IsDuplicate(R[t].cmd, t)
                    /\ UNCHANGED <<d_phase, jobs, executed>>
                 \/ /\ ~ Device!IsDuplicate(R[t].cmd, t)
                    /\ d_phase' = "handler"
                    /\ jobs' = jobs \cup {Request(R, t)}
                    /\ executed' = [executed EXCEPT ![<<R[t].body, device_run>>] = @ + 1]
<1> DEFINE p == Head(h2d)
<1>1. /\ h2d # <<>> /\ h2d' = Tail(h2d)
      /\ Device!handle_packet_internal(p)
      /\ IF d_phase' = "handler"
         THEN /\ jobs' = jobs \cup {p}
              /\ executed' = [executed EXCEPT ![<<p.body, device_run>>] = @ + 1]
         ELSE UNCHANGED app
      /\ UNCHANGED <<host, d2h, runs>>
  BY DEF DeviceReceive
<1>2. p \in RequestFrames(R)
  <2>1. h2d \in Seq(RequestFrames(R))
    BY DEF LinkInv, HostAgrees
  <2> QED
    BY <1>1, <2>1, TailSeq
<1> HIDE DEF p
<1>3. PICK t \in DOMAIN R : p = Request(R, t)
  BY <1>2 DEF RequestFrames
<1>4. /\ p.cmd = R[t].cmd /\ p.tx = t /\ p.body = R[t].body
      /\ t # 0 /\ t \in HS!TxIds /\ R[t].cmd \in RequestCmds
  <2>1. t \in 1 .. h_next_tx_id - 1 /\ R[t].cmd \in RequestCmds
    BY DEF LinkInv, Registry
  <2>2. h_next_tx_id \in HS!TxIds
    BY DEF LinkInv, HS!SessionInv, HS!TypeOK
  <2> QED
    BY <1>3, <2>1, <2>2, Constants DEF Request, HS!TxIds, HS!SessionAssumption
<1>5. Host!Route(p.cmd) = "request" /\ Host!is_reliable(p.cmd)
  BY <1>4, CommandClasses
<1>6. Device!Route(p.cmd) = "request" /\ Device!is_reliable(p.cmd)
  BY <1>5 DEF Host!Route, Device!Route, Host!ACK_CMD, Device!ACK_CMD, Host!is_request_cmd,
         Device!is_request_cmd, Host!is_reliable, Device!is_reliable
<1>7. d_phase = "rx" /\ (Device!DuplicateRequest(p) \/ Device!NewRequest(p))
  BY <1>1, <1>4, <1>6
  DEF Device!handle_packet_internal, Device!handle_request_packet,
      Device!UnreliablePacket, Device!UntrackedPacket
<1>8. /\ d_tx_queue \in Seq(DeviceFrames(R))
      /\ d_handlers = RequestCmds
      /\ Device!AckFrame(p) \in DeviceFrames(R)
      /\ Device!AckFrame(p).cmd = Host!ACK_CMD /\ Device!AckFrame(p).tx = t
  BY <1>4 DEF LinkInv, DeviceAgrees, DeviceFrames, AckFrames, Device!AckFrame,
         Host!ACK_CMD, Device!ACK_CMD
<1> DEFINE acked == Device!enqueue_prebuilt_frame(d_tx_queue, Device!AckFrame(p), TRUE)
<1>9. /\ acked \in Seq(DeviceFrames(R))
      /\ \E i \in DOMAIN acked : acked[i] = Device!AckFrame(p)
  BY <1>8, EnqueuePrebuilt
<1>10. CASE Device!NewRequest(p)
  <2>1. /\ d_tx_queue' = acked
        /\ DS!on_request(R[t].cmd, t)
        /\ ~ Device!IsDuplicate(R[t].cmd, t)
        /\ d_phase' = "handler"
        /\ UNCHANGED d_handlers
    BY <1>4, <1>8, <1>10, DeviceOnRequest DEF Device!NewRequest, Device!RunHandler
  <2> HIDE DEF acked
  <2> QED
    BY <1>1, <1>3, <1>4, <1>8, <1>9, <2>1 DEF p
<1>11. CASE Device!DuplicateRequest(p)
  <2> DEFINE cached == d_cache[<<R[t].cmd, t>>]
             answer == [cmd |-> cached.response_cmd, tx |-> t, body |-> cached.body]
  <2>1. /\ d_tx_queue' = IF <<R[t].cmd, t>> \in DOMAIN d_cache
                         THEN Device!enqueue_prebuilt_frame(acked, answer, TRUE)
                         ELSE acked
        /\ DS!on_request(R[t].cmd, t)
        /\ Device!IsDuplicate(R[t].cmd, t)
        /\ UNCHANGED <<d_handlers, d_phase>>
    BY <1>4, <1>11, DeviceOnRequest
    DEF Device!DuplicateRequest, Device!HasCached, Device!compose_dedup_key
  <2>2. UNCHANGED <<jobs, executed>>
    BY <1>1, <1>7, <2>1 DEF app
  <2>3. ASSUME <<R[t].cmd, t>> \in DOMAIN d_cache
        PROVE  answer \in ResponseFrames(R) /\ answer.cmd \in ResponseCmds
    <3>1. answer \in ResponseFrames(R)
      BY <2>3 DEF LinkInv, DeviceAgrees
    <3>2. \A f \in ResponseFrames(R) : f.cmd \in ResponseCmds
      BY Constants DEF ResponseFrames, Response, LinkInv, Registry, HS!SessionAssumption
    <3> QED
      BY <3>1, <3>2
  <2> HIDE DEF acked
  <2>4. /\ d_tx_queue' \in Seq(DeviceFrames(R))
        /\ \E i \in DOMAIN d_tx_queue' :
              /\ d_tx_queue'[i].cmd \in {Host!ACK_CMD} \cup ResponseCmds
              /\ d_tx_queue'[i].tx = t
    <3>1. CASE <<R[t].cmd, t>> \in DOMAIN d_cache
      <4>1. answer \in DeviceFrames(R) /\ answer.tx = t /\ answer.cmd \in ResponseCmds
        BY <2>3, <3>1 DEF DeviceFrames
      <4> HIDE DEF answer
      <4> DEFINE both == Device!enqueue_prebuilt_frame(acked, answer, TRUE)
      <4>2. both \in Seq(DeviceFrames(R)) /\ \E i \in DOMAIN both : both[i] = answer
        BY <1>9, <4>1, EnqueuePrebuilt
      <4>3. d_tx_queue' = both
        BY <2>1, <3>1
      <4> QED
        BY <4>1, <4>2, <4>3
    <3>2. CASE <<R[t].cmd, t>> \notin DOMAIN d_cache
      BY <1>8, <1>9, <2>1, <3>2
    <3> QED
      BY <3>1, <3>2
  <2> QED
    BY <1>1, <1>3, <2>1, <2>2, <2>4 DEF p
<1> QED
  BY <1>7, <1>10, <1>11

(* The device receives a request: it executes it or answers a duplicate.   *)
LEMMA DeviceReceiveStep ==
    ASSUME NEW R, LinkInv(R), DeviceReceive
    PROVE  LinkInv(R)'
<1>1. PICK t \in DOMAIN R :
        /\ h2d # <<>> /\ h2d' = Tail(h2d)
        /\ UNCHANGED <<host, d2h, runs, d_handlers>>
        /\ DS!on_request(R[t].cmd, t)
        /\ d_tx_queue' \in Seq(DeviceFrames(R))
        /\ \/ /\ Device!IsDuplicate(R[t].cmd, t)
              /\ UNCHANGED <<d_phase, jobs, executed>>
           \/ /\ ~ Device!IsDuplicate(R[t].cmd, t)
              /\ d_phase' = "handler"
              /\ jobs' = jobs \cup {Request(R, t)}
              /\ executed' = [executed EXCEPT ![<<R[t].body, device_run>>] = @ + 1]
  BY DeviceReceives
<1> DEFINE k == R[t].body
<1>2. k \in Issued /\ k \in Callers /\ t \in HS!TxIds /\ R[t].cmd \in RequestCmds
  <2>1. t \in 1 .. h_next_tx_id - 1 /\ k \in Issued /\ R[t].cmd \in RequestCmds
    BY DEF LinkInv, Registry
  <2>2. h_next_tx_id \in HS!TxIds /\ Issued \subseteq Callers
    BY DEF LinkInv, HS!SessionInv, HS!TypeOK, Issued
  <2> QED
    BY <2>1, <2>2, Constants DEF HS!TxIds, HS!SessionAssumption
<1>3. DS!SessionInv'
  <2>1. t \in DS!TxIds
    BY <1>2 DEF HS!TxIds, DS!TxIds
  <2> QED
    BY <1>1, <1>2, <2>1, DS!OnRequestInv, Constants DEF LinkInv
<1>4. UNCHANGED <<d_pending, d_outbound, d_cache>>
  BY <1>1 DEF DS!on_request, DS!host_vars
<1>5. UNCHANGED <<device_run, host_run, Issued>>
  BY <1>1 DEF runs, host, Issued
<1>6. /\ executed \in [Callers \X DeviceRuns -> Nat]
      /\ device_run \in DeviceRuns
      /\ \A j \in Callers, r \in DeviceRuns : executed[<<j, r>>] > 0 => r <= device_run /\ j \in Issued
  BY DEF LinkInv, DeviceAgrees
<1>7. /\ executed' \in [Callers \X DeviceRuns -> Nat]
      /\ \A j \in Callers, r \in DeviceRuns : executed'[<<j, r>>] >= executed[<<j, r>>]
      /\ \A j \in Callers, r \in DeviceRuns :
            executed'[<<j, r>>] # executed[<<j, r>>] => j = k /\ r = device_run
      /\ d_phase' = "handler" /\ jobs' # jobs => executed'[<<k, device_run>>] > 0
  <2>1. CASE UNCHANGED <<jobs, executed>>
    BY <1>6, <2>1
  <2>2. CASE executed' = [executed EXCEPT ![<<k, device_run>>] = @ + 1]
    <3>1. <<k, device_run>> \in Callers \X DeviceRuns
      BY <1>2, <1>6
    <3>2. executed[<<k, device_run>>] \in Nat
      BY <1>6, <3>1
    <3>3. executed' \in [Callers \X DeviceRuns -> Nat]
      <4> DEFINE x == <<k, device_run>>
                 S == Callers \X DeviceRuns
      <4>1. executed' = [executed EXCEPT ![x] = executed[x] + 1]
        BY <2>2
      <4>2. x \in S /\ executed \in [S -> Nat] /\ executed[x] + 1 \in Nat
        BY <1>6, <3>1, <3>2
      <4> HIDE DEF x, S
      <4>3. executed' \in [S -> Nat]
        BY <4>1, <4>2
      <4> QED
        BY <4>3 DEF S
    <3>4. executed'[<<k, device_run>>] = executed[<<k, device_run>>] + 1
      BY <1>6, <2>2, <3>1
    <3>5. \A j \in Callers, r \in DeviceRuns :
            <<j, r>> # <<k, device_run>> => executed'[<<j, r>>] = executed[<<j, r>>]
      BY <1>6, <2>2
    <3>6. \A j \in Callers, r \in DeviceRuns : executed[<<j, r>>] \in Nat
      BY <1>6
    <3> QED
      BY <3>2, <3>3, <3>4, <3>5, <3>6
  <2> QED
    BY <1>1, <2>1, <2>2
<1>8. \A j \in Callers, r \in DeviceRuns : executed[<<j, r>>] \in Nat /\ executed'[<<j, r>>] \in Nat
  BY <1>6, <1>7
<1>9. ExecutedGrows
  <2> SUFFICES ASSUME NEW j \in Issued, Executed(j) PROVE Executed(j)'
    BY DEF ExecutedGrows
  <2>1. j \in Callers
    BY DEF LinkInv, HS!SessionInv, HS!TypeOK, Issued
  <2>2. PICK r \in DeviceRuns : executed[<<j, r>>] > 0
    BY DEF Executed
  <2>3. executed'[<<j, r>>] > 0
    BY <1>7, <1>8, <2>1, <2>2
  <2> QED
    BY <2>3 DEF Executed, DeviceRuns
<1>10. DeviceAgrees(R)'
  <2>1. /\ RequestFrames(R)' = RequestFrames(R)
        /\ ResponseFrames(R) \subseteq ResponseFrames(R)'
        /\ DeviceFrames(R) \subseteq DeviceFrames(R)'
    BY <1>9, FramesGrow, ExtendsItself DEF LinkInv, RequestFrames, Request
  <2>2. d_tx_queue' \in Seq(DeviceFrames(R)') /\ d2h' \in Seq(DeviceFrames(R)')
    <3>1. d2h \in Seq(DeviceFrames(R)) /\ d2h' = d2h
      BY <1>1 DEF LinkInv, DeviceAgrees
    <3> QED
      BY <1>1, <2>1, <3>1, SeqGrows
  <2>3. \A j \in Callers, r \in DeviceRuns : executed'[<<j, r>>] > 0 => r <= device_run /\ j \in Issued
    <3> SUFFICES ASSUME NEW j \in Callers, NEW r \in DeviceRuns, executed'[<<j, r>>] > 0
                 PROVE  r <= device_run /\ j \in Issued
      OBVIOUS
    <3>1. CASE executed'[<<j, r>>] = executed[<<j, r>>]
      BY <1>6, <3>1
    <3>2. CASE j = k /\ r = device_run
      BY <1>2, <1>6, <3>2, LinkAssumption DEF DeviceRuns
    <3> QED
      BY <1>7, <3>1, <3>2
  <2>4. jobs' \subseteq RequestFrames(R) /\ \A p \in jobs' : executed'[<<p.body, device_run>>] > 0
    <3>1. /\ jobs \subseteq RequestFrames(R)
          /\ \A p \in jobs : p.body \in Callers /\ executed[<<p.body, device_run>>] > 0
      <4>1. \A p \in RequestFrames(R) : p.body \in Callers
        BY DEF RequestFrames, Request, LinkInv, Registry, HS!SessionInv, HS!TypeOK, Issued
      <4> QED
        BY <4>1 DEF LinkInv, DeviceAgrees
    <3>2. \A p \in jobs : executed'[<<p.body, device_run>>] > 0
      BY <1>6, <1>7, <1>8, <3>1
    <3>3. Request(R, t) \in RequestFrames(R) /\ Request(R, t).body = k
      BY DEF RequestFrames, Request
    <3>4. jobs' = jobs \/ (jobs' = jobs \cup {Request(R, t)} /\ d_phase' = "handler")
      BY <1>1
    <3> QED
      BY <1>7, <3>1, <3>2, <3>3, <3>4
  <2>5. \A key \in DOMAIN d_cache' :
          [cmd |-> d_cache'[key].response_cmd, tx |-> key[2], body |-> d_cache'[key].body]
            \in ResponseFrames(R)'
    BY <1>4, <2>1 DEF LinkInv, DeviceAgrees
  <2>6. d_phase' \in {"rx", "handler", "tx"} /\ d_handlers' = RequestCmds
    BY <1>1 DEF LinkInv, DeviceAgrees
  <2> QED
    BY <1>4, <1>5, <1>6, <1>7, <2>1, <2>2, <2>3, <2>4, <2>5, <2>6 DEF LinkInv, DeviceAgrees, DeviceRuns
<1>11. UNCHANGED <<host, runs>>
  BY <1>1
<1> QED
  BY <1>1, <1>3, <1>9, <1>10, <1>11, HostUntouched DEF LinkInv

(* A step of the device that executes nothing.                             *)
LEMMA QuietDeviceStep ==
    ASSUME NEW R, LinkInv(R), UNCHANGED <<host, executed, h2d, runs>>,
           UNCHANGED <<d_handlers, d_pending, d_outbound>>,
           d_tx_queue' \in Seq(DeviceFrames(R)), d2h' \in Seq(DeviceFrames(R)),
           d_phase' \in {"rx", "handler", "tx"},
           jobs' \subseteq jobs,
           \A key \in DOMAIN d_cache' :
              [cmd |-> d_cache'[key].response_cmd, tx |-> key[2], body |-> d_cache'[key].body]
                \in ResponseFrames(R),
           DS!SessionInv'
    PROVE  LinkInv(R)'
<1>1. ExecutedGrows /\ Issued' = Issued /\ device_run' = device_run
  BY DEF ExecutedGrows, Executed, host, Issued, runs
<1>2. /\ RequestFrames(R)' = RequestFrames(R)
      /\ ResponseFrames(R) \subseteq ResponseFrames(R)'
      /\ DeviceFrames(R) \subseteq DeviceFrames(R)'
  BY <1>1, FramesGrow, ExtendsItself DEF LinkInv, RequestFrames, Request
<1>3. d_tx_queue' \in Seq(DeviceFrames(R)') /\ d2h' \in Seq(DeviceFrames(R)')
  BY <1>2, SeqGrows
<1>4. DeviceAgrees(R)'
  BY <1>1, <1>2, <1>3 DEF LinkInv, DeviceAgrees
<1> QED
  BY <1>1, <1>4, HostUntouched DEF LinkInv

(* The application of the device answers a request it was handed.          *)
LEMMA DeviceAnswerStep ==
    ASSUME NEW R, LinkInv(R), DeviceAnswer
    PROVE  LinkInv(R)'
<1>1. PICK p \in jobs : /\ Device!send_response_and_cache(p.cmd, p.tx, p.body)
                        /\ jobs' = jobs \ {p}
  BY DEF DeviceAnswer
<1>2. UNCHANGED <<host, executed, h2d, d2h, runs>>
  BY DEF DeviceAnswer
<1>3. PICK t \in DOMAIN R : p = Request(R, t)
  BY DEF LinkInv, DeviceAgrees, RequestFrames
<1>4. /\ p.cmd = R[t].cmd /\ p.tx = t /\ p.body = R[t].body
      /\ R[t].cmd \in RequestCmds /\ R[t].body \in Callers /\ t \in DS!TxIds
  <2>1. t \in 1 .. h_next_tx_id - 1 /\ R[t].body \in Issued /\ R[t].cmd \in RequestCmds
    BY DEF LinkInv, Registry
  <2>2. h_next_tx_id \in HS!TxIds /\ Issued \subseteq Callers
    BY DEF LinkInv, HS!SessionInv, HS!TypeOK, Issued
  <2> QED
    BY <1>3, <2>1, <2>2, Constants DEF Request, HS!TxIds, DS!TxIds, HS!SessionAssumption
<1>5. Response(R, t) \in ResponseFrames(R)
  <2>1. executed[<<R[t].body, device_run>>] > 0 /\ device_run \in DeviceRuns
    BY <1>4 DEF LinkInv, DeviceAgrees
  <2> QED
    BY <2>1 DEF ResponseFrames, Executed
<1>6. /\ DS!cache_response(R[t].cmd, t, ResponseOf[R[t].cmd], R[t].body)
      /\ d_tx_queue' = Device!enqueue_prebuilt_frame(d_tx_queue, Response(R, t), TRUE)
      /\ UNCHANGED <<d_handlers, d_phase>>
  BY <1>1, <1>4, DeviceCacheResponse DEF Device!send_response_and_cache, Response
<1>7. DS!SessionInv'
  BY <1>4, <1>6, DS!CacheResponseInv, Constants DEF LinkInv
<1>8. UNCHANGED <<d_pending, d_outbound>>
  BY <1>6 DEF DS!cache_response, DS!host_vars
<1>9. \A key \in DOMAIN d_cache' :
         \/ key \in DOMAIN d_cache /\ d_cache'[key] = d_cache[key]
         \/ /\ key = <<R[t].cmd, t>>
            /\ d_cache'[key] = [response_cmd |-> ResponseOf[R[t].cmd], body |-> R[t].body]
  BY <1>6 DEF DS!cache_response, DS!Erase, DS!Put, DS!compose_dedup_key
<1>10. \A key \in DOMAIN d_cache' :
         [cmd |-> d_cache'[key].response_cmd, tx |-> key[2], body |-> d_cache'[key].body]
           \in ResponseFrames(R)
  <2> SUFFICES ASSUME NEW key \in DOMAIN d_cache'
               PROVE  [cmd |-> d_cache'[key].response_cmd, tx |-> key[2],
                       body |-> d_cache'[key].body] \in ResponseFrames(R)
    OBVIOUS
  <2>1. CASE key \in DOMAIN d_cache /\ d_cache'[key] = d_cache[key]
    BY <2>1 DEF LinkInv, DeviceAgrees
  <2>2. CASE /\ key = <<R[t].cmd, t>>
             /\ d_cache'[key] = [response_cmd |-> ResponseOf[R[t].cmd], body |-> R[t].body]
    BY <1>5, <2>2 DEF Response
  <2> QED
    BY <1>9, <2>1, <2>2
<1>11. d_tx_queue' \in Seq(DeviceFrames(R)) /\ d2h' \in Seq(DeviceFrames(R))
  <2>1. d_tx_queue \in Seq(DeviceFrames(R)) /\ d2h \in Seq(DeviceFrames(R))
    BY DEF LinkInv, DeviceAgrees
  <2>2. Response(R, t) \in DeviceFrames(R)
    BY <1>5 DEF DeviceFrames
  <2> QED
    BY <1>2, <1>6, <2>1, <2>2, EnqueuePrebuilt
<1>12. d_phase' \in {"rx", "handler", "tx"}
  BY <1>6 DEF LinkInv, DeviceAgrees
<1> QED
  BY <1>1, <1>2, <1>6, <1>7, <1>8, <1>10, <1>11, <1>12, QuietDeviceStep

DeviceSessionUnchanged ==
    UNCHANGED <<d_next_tx_id, d_inflight_count, d_pending, d_outbound,
                d_seen_responses, d_seen_requests, d_cache, d_order, d_answers>>

(* The device queues a status frame.                                       *)
LEMMA DeviceBroadcastStep ==
    ASSUME NEW R, LinkInv(R), DeviceBroadcast
    PROVE  LinkInv(R)'
<1>1. PICK cmd \in TelemetryCmds : Device!broadcast(cmd)
  BY DEF DeviceBroadcast
<1>2. UNCHANGED <<host, app, h2d, d2h, runs>>
  BY DEF DeviceBroadcast
<1> DEFINE frame == [cmd |-> cmd, tx |-> 0, body |-> NoBody]
<1>3. /\ d_tx_queue' = Device!enqueue_prebuilt_frame(d_tx_queue, frame, FALSE)
      /\ DeviceSessionUnchanged
      /\ UNCHANGED <<d_handlers, d_phase>>
  BY <1>1 DEF Device!broadcast, Device!session_vars, Device!host_vars, Device!device_vars,
              DeviceSessionUnchanged
<1>4. frame \in DeviceFrames(R)
  BY DEF DeviceFrames, StatusFrames
<1> HIDE DEF frame
<1>5. d_tx_queue' \in Seq(DeviceFrames(R)) /\ d2h' \in Seq(DeviceFrames(R))
  <2>1. d_tx_queue \in Seq(DeviceFrames(R)) /\ d2h \in Seq(DeviceFrames(R))
    BY DEF LinkInv, DeviceAgrees
  <2> QED
    BY <1>2, <1>3, <1>4, <2>1, EnqueuePrebuilt
<1>6. DS!SessionInv'
  BY <1>3, DeviceSessionKept DEF LinkInv, DeviceSessionUnchanged
<1> QED
  BY <1>2, <1>3, <1>5, <1>6, QuietDeviceStep
  DEF LinkInv, DeviceAgrees, DeviceSessionUnchanged, app

(* The device puts its first frame on the line.                            *)
LEMMA DeviceSendsStep ==
    ASSUME NEW R, LinkInv(R), DeviceSends
    PROVE  LinkInv(R)'
<1>1. /\ d_tx_queue # <<>> /\ d_phase' = "rx"
      /\ d_tx_queue' = Tail(d_tx_queue) /\ d2h' = Append(d2h, Head(d_tx_queue))
      /\ UNCHANGED <<host, app, h2d, runs, d_handlers>>
      /\ DeviceSessionUnchanged
  BY DEF DeviceSends, Device!FrameSent, Device!session_vars, Device!host_vars,
         Device!device_vars, DeviceSessionUnchanged
<1>2. d_tx_queue' \in Seq(DeviceFrames(R)) /\ d2h' \in Seq(DeviceFrames(R))
  <2>1. d_tx_queue \in Seq(DeviceFrames(R)) /\ d2h \in Seq(DeviceFrames(R))
    BY DEF LinkInv, DeviceAgrees
  <2> QED
    BY <1>1, <2>1, TailSeq
<1>3. DS!SessionInv'
  BY <1>1, DeviceSessionKept DEF LinkInv, DeviceSessionUnchanged
<1> QED
  BY <1>1, <1>2, <1>3, QuietDeviceStep DEF LinkInv, DeviceAgrees, DeviceSessionUnchanged, app

(* Every other step of the device.                                         *)
LEMMA DeviceWorksStep ==
    ASSUME NEW R, LinkInv(R), DeviceWorks
    PROVE  LinkInv(R)'
<1>1. /\ DeviceSessionUnchanged
      /\ UNCHANGED <<host, app, h2d, d2h, runs, d_tx_queue, d_handlers>>
      /\ d_phase' \in {"rx", "tx"}
  BY DEF DeviceWorks, Device!HandlerReturns, Device!RxDrained, Device!FrameKept,
         Device!session_vars, Device!host_vars, Device!device_vars,
         DeviceSessionUnchanged, LinkInv, DeviceAgrees
<1>2. d_tx_queue' \in Seq(DeviceFrames(R)) /\ d2h' \in Seq(DeviceFrames(R))
  BY <1>1 DEF LinkInv, DeviceAgrees
<1>3. DS!SessionInv'
  BY <1>1, DeviceSessionKept DEF LinkInv, DeviceSessionUnchanged
<1> QED
  BY <1>1, <1>2, <1>3, QuietDeviceStep DEF LinkInv, DeviceAgrees, DeviceSessionUnchanged, app

-----------------------------------------------------------------------------
(***************************************************************************)
(* The starts.                                                             *)
(***************************************************************************)
\* A host whose stack is new; what earlier calls were told remains.
HostStarted ==
    /\ host_run \in 1 .. Len(FirstTxIds)
    /\ HostStart
    /\ DOMAIN h_answers \subseteq Callers
    /\ h_answers \in [DOMAIN h_answers -> Seq(Callers \cup {Timeout})]
    /\ \A k \in DOMAIN h_answers : Len(h_answers[k]) <= 1

(* The first host run has a first id.                                      *)
LEMMA FirstIds == /\ Len(FirstTxIds) \in Nat /\ 1 \in 1 .. Len(FirstTxIds)
                  /\ DOMAIN FirstTxIds = 1 .. Len(FirstTxIds)
                  /\ \A run \in 1 .. Len(FirstTxIds) : FirstTxIds[run] \in 0 .. TxModulus - 1
<1> DEFINE S == 0 .. TxModulus - 1
<1>1. FirstTxIds \in Seq(S) /\ FirstTxIds # <<>>
  BY LinkAssumption
<1> HIDE DEF S
<1>2. Len(FirstTxIds) \in Nat /\ Len(FirstTxIds) # 0
  BY <1>1, EmptySeq
<1>3. \A run \in 1 .. Len(FirstTxIds) : FirstTxIds[run] \in S
  BY <1>1
<1>4. DOMAIN FirstTxIds = 1 .. Len(FirstTxIds)
  BY <1>1
<1> QED
  BY <1>2, <1>3, <1>4 DEF S

(* The rings of a stack just constructed.                                  *)
LEMMA EmptyRings == /\ EmptyRing \in HS!Ring!Rings(ResponseCmds \X HS!TxIds)
                    /\ EmptyRing \in HS!Ring!Rings(RequestCmds \X HS!TxIds)
<1>1. EmptyRing = HS!Ring!Empty
  BY DEF EmptyRing, HS!Ring!Empty, HS!Ring!Slots, HS!NoKey
<1> QED
  BY <1>1, HS!EmptyRingType, Constants

(* A host just constructed satisfies the session invariant,                *)
LEMMA HostStartedInv == HostStarted => HS!SessionInv
<1> SUFFICES ASSUME HostStarted PROVE HS!SessionInv
  OBVIOUS
<1>1. h_next_tx_id \in HS!TxIds
  <2>1. FirstTxIds[host_run] \in 0 .. TxModulus - 1
    BY FirstIds DEF HostStarted
  <2> QED
    BY <2>1 DEF HostStarted, HostStart, FirstTxId, HS!TxIds
<1>2. HS!TypeOK
  BY <1>1, EmptyRings DEF HostStarted, HostStart, HS!TypeOK, NoMap
<1>3. HS!InWindow = {} /\ HS!InflightExact /\ HS!CountWithinWindow
  <2>1. HS!InWindow = {}
    BY DEF HostStarted, HostStart, NoMap, HS!InWindow
  <2>2. HS!Cardinality({}) = 0
    BY SameCardinality, FS_EmptySet
  <2> QED
    BY <2>1, <2>2, Constants
    DEF HostStarted, HostStart, HS!InflightExact, HS!CountWithinWindow, HS!window_size,
        HS!SessionAssumption
<1>4. HS!QueueExact /\ HS!OneCallback /\ HS!RetriesWithinLimit /\ HS!CacheBounded
  BY Constants
  DEF HostStarted, HostStart, NoMap, HS!QueueExact, HS!OneCallback, HS!RetriesWithinLimit,
      HS!CacheBounded, HS!SessionAssumption
<1> QED
  BY <1>2, <1>3, <1>4 DEF HS!SessionInv

(* also when it is constructed again;                                      *)
LEMMA HostRestartedInv == HostStarted' => HS!SessionInv'
BY HostStartedInv, PTL

DeviceStarted == IdsNotReused /\ DeviceStart

(* so does a device,                                                       *)
LEMMA DeviceStartedInv == DeviceStarted => DS!SessionInv
<1> SUFFICES ASSUME IdsNotReused, DeviceStart PROVE DS!SessionInv
  BY DEF DeviceStarted
<1>1. TxModulus \in Nat /\ 1 < TxModulus
  <2>1. 1 \in DOMAIN FirstTxIds /\ FirstTxIds[1] \in 0 .. TxModulus - 1
    BY FirstIds
  <2> QED
    BY <2>1, Constants DEF IdsNotReused, HS!SessionAssumption
<1>2. 1 % TxModulus = 1
  BY <1>1, SmallModulo
<1>3. EmptyRing = DS!Ring!Empty
  BY DEF EmptyRing, DS!Ring!Empty, DS!Ring!Slots, DS!NoKey
<1>4. DS!SessionInit
  BY <1>2, <1>3 DEF DeviceStart, DS!SessionInit, NoMap, DS!NoEntries
<1> QED
  BY <1>4, DS!InitSessionInv, Constants

(* also after a restart.                                                   *)
LEMMA DeviceRestartedInv == DeviceStarted' => DS!SessionInv'
BY DeviceStartedInv, PTL

(* The host restarts: what its earlier runs registered stays registered.   *)
LEMMA HostRestartStep ==
    ASSUME IdsNotReused, NEW R, LinkInv(R), HostRestart
    PROVE  LinkInv(R)'
<1> DEFINE n == h_next_tx_id
<1>1. /\ host_run < Len(FirstTxIds) /\ host_run' = host_run + 1
      /\ abandoned' = Issued
      /\ UNCHANGED <<h_answers, device, app, h2d, d2h, device_run>>
      /\ HostStart'
  BY DEF HostRestart, HostStart, Issued, FirstTxId
<1>2. host_run \in 1 .. Len(FirstTxIds) /\ Len(FirstTxIds) \in Nat
  BY LinkAssumption DEF LinkInv, Registry
<1>3. /\ DOMAIN h_answers \subseteq Callers
      /\ h_answers \in [DOMAIN h_answers -> Seq(Callers \cup {Timeout})]
      /\ \A k \in DOMAIN h_answers : Len(h_answers[k]) <= 1
  BY DEF LinkInv, HS!SessionInv, HS!TypeOK, HS!OneCallback
<1>4. HS!SessionInv'
  <2>1. HostStarted'
    BY <1>1, <1>2, <1>3 DEF HostStarted
  <2> QED
    BY <2>1, HostRestartedInv
<1>5. Issued' = Issued
  BY <1>1 DEF Issued
<1>6. Registry(R)'
  <2>1. /\ n + Cardinality(Callers \ Issued) <= FirstTxIds[host_run + 1]
        /\ h_next_tx_id' = FirstTxIds[host_run + 1]
        /\ n \in Nat
    BY <1>1, <1>2 DEF LinkInv, Registry, IdLimit, HostStart, FirstTxId,
         HS!SessionInv, HS!TypeOK, HS!TxIds
  <2>2. /\ IsFiniteSet(Callers) /\ IsFiniteSet(Callers \ Issued)
        /\ Cardinality(Callers \ Issued) <= Cardinality(Callers)
        /\ Cardinality(Callers \ Issued) \in Nat /\ Cardinality(Callers) \in Nat
    BY FS_Subset, FS_CardinalityType DEF IdsNotReused
  <2>3. host_run + 1 \in DOMAIN FirstTxIds
    BY <1>1, <1>2, LinkAssumption
  <2>4. FirstTxIds[host_run + 1] \in Nat
    BY <2>3, LinkAssumption, Constants DEF HS!SessionAssumption
  <2>5. /\ FirstTxIds[host_run + 1] > 0
        /\ FirstTxIds[host_run + 1] + Cardinality(Callers) <= IdLimit(host_run + 1)
    BY <2>3 DEF IdsNotReused
  <2>6. IdLimit(host_run + 1) \in Nat
    BY <2>3, IdLimitBelowModulus
  <2>7. h_next_tx_id' + Cardinality(Callers \ Issued) <= IdLimit(host_run')
    BY <1>1, <2>1, <2>2, <2>4, <2>5, <2>6
  <2>8. DOMAIN R \subseteq 1 .. h_next_tx_id' - 1
    BY <2>1, <2>2, <2>4 DEF LinkInv, Registry
  <2>9. host_run' \in 1 .. Len(FirstTxIds)
    BY <1>1, <1>2
  <2> QED
    BY <1>5, <2>1, <2>5, <2>7, <2>8, <2>9 DEF LinkInv, Registry
<1>7. HostAgrees(R)'
  <2>1. RequestFrames(R)' = RequestFrames(R)
    BY DEF RequestFrames, Request
  <2> QED
    BY <1>1, <2>1 DEF LinkInv, HostAgrees, HostStart, NoMap
<1>8. DeviceAgrees(R)' /\ DS!SessionInv'
  BY <1>1, <1>5, DeviceKept, ExtendsItself, DeviceSessionKept DEF LinkInv, device, app
<1>9. CallsAnswered'
  <2>1. \A k : Executed(k) => Executed(k)'
    BY <1>1 DEF Executed, app
  <2>2. NoSilentLoss'
    BY <1>1, <1>5 DEF NoSilentLoss
  <2> QED
    BY <1>1, <1>5, <2>1, <2>2 DEF LinkInv, CallsAnswered
<1> QED
  BY <1>4, <1>6, <1>7, <1>8, <1>9 DEF LinkInv

(* The device restarts and forgets what it has executed.                   *)
LEMMA DeviceRestartStep ==
    ASSUME IdsNotReused, NEW R, LinkInv(R), DeviceRestart
    PROVE  LinkInv(R)'
<1>1. /\ device_run < MaxDeviceRestarts /\ device_run' = device_run + 1
      /\ UNCHANGED <<host, executed, h2d, d2h, host_run, abandoned>>
      /\ DeviceStart'
  BY DEF DeviceRestart, DeviceStart
<1>2. DS!SessionInv'
  <2>1. DeviceStarted'
    BY <1>1 DEF DeviceStarted
  <2> QED
    BY <2>1, DeviceRestartedInv
<1>3. ExecutedGrows /\ Issued' = Issued
  BY <1>1 DEF ExecutedGrows, Executed, host, Issued
<1>4. /\ RequestFrames(R)' = RequestFrames(R)
      /\ DeviceFrames(R) \subseteq DeviceFrames(R)'
  BY <1>3, FramesGrow, ExtendsItself DEF LinkInv, RequestFrames, Request
<1>5. DeviceAgrees(R)'
  <2>1. d2h' \in Seq(DeviceFrames(R)')
    <3>1. d2h \in Seq(DeviceFrames(R)) /\ d2h' = d2h
      BY <1>1 DEF LinkInv, DeviceAgrees
    <3> QED
      BY <1>4, <3>1, SeqGrows
  <2>2. device_run \in Nat /\ device_run' \in DeviceRuns
    BY <1>1, LinkAssumption DEF LinkInv, DeviceAgrees, DeviceRuns
  <2>3. \A k \in Callers, r \in DeviceRuns :
           executed'[<<k, r>>] > 0 => r <= device_run' /\ k \in Issued'
    BY <1>1, <1>3, <2>2 DEF LinkInv, DeviceAgrees, DeviceRuns
  <2>4. /\ executed' \in [Callers \X DeviceRuns -> Nat]
        /\ d_tx_queue' = <<>> /\ jobs' = {} /\ DOMAIN d_cache' = {}
        /\ DOMAIN d_pending' = {} /\ d_outbound' = <<>>
        /\ d_handlers' = RequestCmds /\ d_phase' = "rx"
    BY <1>1 DEF DeviceStart, NoMap, LinkInv, DeviceAgrees
  <2> QED
    BY <2>1, <2>2, <2>3, <2>4 DEF DeviceAgrees, DeviceRuns
<1>6. HS!SessionInv' /\ Registry(R)' /\ HostAgrees(R)' /\ CallsAnswered'
  <2>1. HostSessionUnchanged /\ HostStackUnchanged
    BY <1>1 DEF host, HostSessionUnchanged, HostStackUnchanged
  <2>2. HS!CallsKept
    BY <2>1 DEF HS!CallsKept, HS!SameCall, HostSessionUnchanged
  <2>3. HS!SessionInv' /\ Registry(R)' /\ HostAgrees(R)'
    BY <1>1, <1>3, <2>1, <2>2, HostSessionKept, RegistryKept, HostKept
    DEF LinkInv, HostSessionUnchanged
  <2>4. CallsAnswered'
    BY <1>1, <1>3, <2>1, CallsAnsweredKept DEF LinkInv, HostSessionUnchanged
  <2> QED
    BY <2>3, <2>4
<1> QED
  BY <1>2, <1>5, <1>6 DEF LinkInv

(* The empty registry fits the initial states.                             *)
LEMMA InitStep ==
    ASSUME IdsNotReused, Init, NEW R, R = [t \in {} |-> {}]
    PROVE  LinkInv(R)
<1>1. /\ host_run = 1 /\ device_run = 0 /\ abandoned = {} /\ HostStart
      /\ DOMAIN h_answers = {} /\ DeviceStart /\ h2d = <<>> /\ d2h = <<>>
      /\ executed = [kr \in Callers \X DeviceRuns |-> 0]
      /\ h_answers = NoMap /\ DOMAIN R = {}
  BY DEF Init, NoMap
<1>2. Len(FirstTxIds) \in Nat /\ 1 \in 1 .. Len(FirstTxIds) /\ 1 \in DOMAIN FirstTxIds
  BY LinkAssumption
<1>3. HS!SessionInv
  <2>1. HostStarted
    BY <1>1, <1>2 DEF HostStarted
  <2> QED
    BY <2>1, HostStartedInv
<1>4. DS!SessionInv
  BY <1>1, DeviceStartedInv DEF DeviceStarted
<1>5. Registry(R)
  <2>1. Issued = {} /\ Callers \ Issued = Callers
    BY <1>1 DEF Issued
  <2>2. h_next_tx_id = FirstTxIds[1]
    BY <1>1 DEF HostStart, FirstTxId
  <2>3. FirstTxIds[1] > 0 /\ FirstTxIds[1] + Cardinality(Callers) <= IdLimit(1)
    BY <1>2 DEF IdsNotReused
  <2> QED
    BY <1>1, <1>2, <2>1, <2>2, <2>3 DEF Registry
<1>6. HostAgrees(R)
  BY <1>1 DEF HostAgrees, HostStart, NoMap
<1>7. DeviceAgrees(R)
  BY <1>1, LinkAssumption DEF DeviceAgrees, DeviceStart, NoMap, DeviceRuns
<1>8. CallsAnswered
  BY <1>1 DEF CallsAnswered, NoSilentLoss, Issued
<1> QED
  BY <1>3, <1>4, <1>5, <1>6, <1>7, <1>8 DEF LinkInv

-----------------------------------------------------------------------------
(***************************************************************************)
(* The invariant, and what it says.                                        *)
(***************************************************************************)
LinkInvariant == \E R : LinkInv(R)

(* A step that changes nothing.                                            *)
LEMMA StutterStep ==
    ASSUME NEW R, LinkInv(R), UNCHANGED vars
    PROVE  LinkInv(R)'
<1>1. /\ UNCHANGED <<host, executed, h2d, d2h, runs, jobs>> /\ DeviceSessionUnchanged
      /\ UNCHANGED <<d_tx_queue, d_handlers, d_phase, d_pending, d_outbound, d_cache>>
  BY DEF vars, app, device, DeviceSessionUnchanged
<1>2. /\ d_tx_queue \in Seq(DeviceFrames(R)) /\ d2h \in Seq(DeviceFrames(R))
      /\ d_phase \in {"rx", "handler", "tx"}
  BY DEF LinkInv, DeviceAgrees
<1>3. DS!SessionInv'
  BY <1>1, DeviceSessionKept DEF LinkInv, DeviceSessionUnchanged
<1>4. \A key \in DOMAIN d_cache' :
         [cmd |-> d_cache'[key].response_cmd, tx |-> key[2], body |-> d_cache'[key].body]
           \in ResponseFrames(R)
  BY <1>1 DEF LinkInv, DeviceAgrees
<1> QED
  BY <1>1, <1>2, <1>3, <1>4, QuietDeviceStep

(* Every step keeps the registry, a new call extends it.                   *)
LEMMA NextStep ==
    ASSUME IdsNotReused, RetriesNotMoved, NEW R, LinkInv(R), [Next]_vars
    PROVE  \E S : LinkInv(S)'
<1>1. CASE HostCall
  <2>1. PICK k \in Callers, cmd \in RequestCmds, t \in Timeouts, r \in RetryLimits :
           Host!Send(k, cmd, t, r)
    BY <1>1 DEF HostCall
  <2>2. /\ h_phase = "errors" => CallbacksSend
        /\ UNCHANGED <<device, app, h2d, d2h, runs>>
    BY <1>1 DEF HostCall
  <2> QED
    BY <2>1, <2>2, HostCallStep
<1>2. CASE HostReceive
  BY <1>2, HostReceiveStep
<1>3. CASE HostSends
  BY <1>3, HostSendsStep
<1>4. CASE HostWorks
  BY <1>4, HostWorksStep
<1>5. CASE HostTick
  BY <1>5, HostTickStep
<1>6. CASE DeviceReceive
  BY <1>6, DeviceReceiveStep
<1>7. CASE DeviceAnswer
  BY <1>7, DeviceAnswerStep
<1>8. CASE DeviceBroadcast
  BY <1>8, DeviceBroadcastStep
<1>9. CASE DeviceSends
  BY <1>9, DeviceSendsStep
<1>10. CASE DeviceWorks
  BY <1>10, DeviceWorksStep
<1>11. CASE Lose
  BY <1>11, LoseStep
<1>12. CASE HostRestart
  BY <1>12, HostRestartStep
<1>13. CASE DeviceRestart
  BY <1>13, DeviceRestartStep
<1>14. CASE UNCHANGED vars
  BY <1>14, StutterStep
<1> QED
  BY <1>1, <1>2, <1>3, <1>4, <1>5, <1>6, <1>7, <1>8, <1>9, <1>10, <1>11, <1>12, <1>13, <1>14
  DEF Next, HostCycle, DeviceStep

(* Whatever is lost, delayed, sent again and restarted, there is a         *)
(* registry of the calls every part of the link agrees with.               *)
THEOREM LinkInvariantHolds ==
    ASSUME IdsNotReused, RetriesNotMoved
    PROVE  Spec => []LinkInvariant
<1>1. Init => LinkInvariant
  BY InitStep DEF LinkInvariant
<1>2. LinkInvariant /\ [Next]_vars => LinkInvariant'
  BY NextStep DEF LinkInvariant
<1> QED
  BY <1>1, <1>2, PTL DEF Spec

(* No call gets the answer to another one, and an answered call has been   *)
(* executed (ReliableSession.hpp:101-129, 148-160).                        *)
THEOREM AnswersMatch ==
    ASSUME IdsNotReused, RetriesNotMoved
    PROVE  Spec => []AnswerMatches
<1>1. LinkInvariant => AnswerMatches
  BY DEF LinkInvariant, LinkInv, CallsAnswered, AnswerMatches, Executed
<1> QED
  BY <1>1, LinkInvariantHolds, PTL

(* A call that has not been told anything is pending, so its answer or its *)
(* deadline will still end it (ReliableSession.hpp:101-129, 238-263).      *)
THEOREM NoCallLost ==
    ASSUME IdsNotReused, RetriesNotMoved
    PROVE  Spec => []NoSilentLoss
<1>1. LinkInvariant => NoSilentLoss
  BY DEF LinkInvariant, LinkInv, CallsAnswered
<1> QED
  BY <1>1, LinkInvariantHolds, PTL

(* A request that reaches the device, new or repeated, the queue full or   *)
(* not, leaves its ack or its response in the transmit queue               *)
(* (ProtocolStack.hpp:484-501).                                            *)
THEOREM RequestsAcked ==
    ASSUME IdsNotReused, RetriesNotMoved
    PROVE  Spec => RequestAcked
<1> DEFINE Acked == DeviceReceive
             => LET p == Head(h2d)
                IN p.cmd \in RequestCmds
                     => \E i \in DOMAIN d_tx_queue' :
                           /\ d_tx_queue'[i].cmd \in {Host!ACK_CMD} \cup ResponseCmds
                           /\ d_tx_queue'[i].tx = p.tx
<1>1. LinkInvariant => Acked
  <2> SUFFICES ASSUME NEW R, LinkInv(R), DeviceReceive
               PROVE  \E i \in DOMAIN d_tx_queue' :
                         /\ d_tx_queue'[i].cmd \in {Host!ACK_CMD} \cup ResponseCmds
                         /\ d_tx_queue'[i].tx = Head(h2d).tx
    BY DEF LinkInvariant
  <2>1. PICK t \in DOMAIN R :
           /\ Head(h2d) = Request(R, t)
           /\ \E i \in DOMAIN d_tx_queue' :
                 /\ d_tx_queue'[i].cmd \in {Host!ACK_CMD} \cup ResponseCmds
                 /\ d_tx_queue'[i].tx = t
    BY DeviceReceives
  <2>2. Head(h2d).tx = t
    BY <2>1 DEF Request
  <2> QED
    BY <2>1, <2>2
<1>2. LinkInvariant => [Acked]_vars
  BY <1>1
<1> QED
  BY <1>2, LinkInvariantHolds, PTL DEF RequestAcked

-----------------------------------------------------------------------------
(***************************************************************************)
(* A request is executed at most once in one life of the device, for every *)
(* set of calls and however often it is sent again.  The ring that filters *)
(* the repetitions forgets, so this takes one of two conditions:           *)
(*                                                                         *)
(*   - a window of one request (the default of ReliableSession::Config):   *)
(*     requests reach the device in the order of their ids, so behind the  *)
(*     last one executed, L, come only repetitions of L and new calls, and *)
(*     a ring of one slot is enough;                                       *)
(*   - or as many slots as calls: the ring has forgotten nothing yet.      *)
(*                                                                         *)
(* From there the two endpoints, as long as the device does not restart,   *)
(* implement the abstract call of module ReliableCall.                     *)
(***************************************************************************)
CallsFitRing == Cardinality(Callers) <= SeenIdRingSize

RingSuffices == OneAtATime \/ CallsFitRing

-----------------------------------------------------------------------------
(***************************************************************************)
(* The order of the requests.                                              *)
(***************************************************************************)
Ids(q) == {q[i].tx : i \in DOMAIN q}
Waiting == {h_outbound[i] : i \in DOMAIN h_outbound}

InOrder(q) == \A i, j \in DOMAIN q : i <= j => q[i].tx <= q[j].tx
NotAfter(A, B) == \A a \in A, b \in B : a <= b
Before(A, B) == \A a \in A, b \in B : a < b

\* From the device backwards: the last id executed, the line, the transmit queue,
\* the window, the calls that wait for it.
Ordered(L) ==
    /\ InOrder(h2d) /\ InOrder(h_tx_queue)
    /\ \A i, j \in DOMAIN h_outbound : i < j => h_outbound[i] < h_outbound[j]
    /\ NotAfter({L}, Ids(h2d) \cup Ids(h_tx_queue) \cup HS!InWindow)
    /\ NotAfter(Ids(h2d), Ids(h_tx_queue))
    /\ NotAfter(Ids(h2d) \cup Ids(h_tx_queue), HS!InWindow)
    /\ Before({L} \cup Ids(h2d) \cup Ids(h_tx_queue) \cup HS!InWindow, Waiting)
    /\ Ids(h_retries) \subseteq HS!InWindow

(* Requests that leave disturb no order.                                   *)
LEMMA FewerRequests ==
    ASSUME NEW L, Ordered(L), InOrder(h2d'), InOrder(h_tx_queue'),
           Ids(h2d') \subseteq Ids(h2d), Ids(h_tx_queue') \subseteq Ids(h_tx_queue),
           HS!InWindow' \subseteq HS!InWindow, h_outbound' \in {<<>>, h_outbound},
           Ids(h_retries') \subseteq HS!InWindow'
    PROVE  Ordered(L)'
<1>1. Waiting' \subseteq Waiting
  BY DEF Waiting
<1>2. \A i, j \in DOMAIN h_outbound' : i < j => h_outbound'[i] < h_outbound'[j]
  BY DEF Ordered
<1> QED
  BY <1>1, <1>2 DEF Ordered, NotAfter, Before, InOrder, Ids

(* The first request of a sequence leaves it.                              *)
LEMMA FirstLeaves ==
    ASSUME NEW S, NEW q \in Seq(S), q # <<>>, InOrder(q)
    PROVE  /\ InOrder(Tail(q))
           /\ Ids(q) = Ids(Tail(q)) \cup {Head(q).tx}
           /\ \A t \in Ids(q) : Head(q).tx <= t
<1>1. /\ Len(q) \in Nat /\ Len(q) # 0 /\ DOMAIN q = 1 .. Len(q)
      /\ DOMAIN Tail(q) = 1 .. Len(q) - 1
      /\ \A i \in DOMAIN Tail(q) : Tail(q)[i] = q[i + 1]
      /\ Head(q) = q[1]
  <2>1. Len(q) \in Nat /\ DOMAIN q = 1 .. Len(q) /\ Head(q) = q[1]
    OBVIOUS
  <2>2. Len(q) # 0
    BY EmptySeq
  <2>3. /\ DOMAIN Tail(q) = 1 .. Len(q) - 1
        /\ \A i \in DOMAIN Tail(q) : Tail(q)[i] = q[i + 1]
    BY TailSeq
  <2> QED
    BY <2>1, <2>2, <2>3
<1>2. InOrder(Tail(q))
  BY <1>1 DEF InOrder
<1>3. Ids(q) = Ids(Tail(q)) \cup {Head(q).tx}
  <2>1. \A i \in DOMAIN q : i = 1 \/ (i - 1 \in DOMAIN Tail(q) /\ q[i] = Tail(q)[i - 1])
    BY <1>1
  <2>2. \A i \in DOMAIN Tail(q) : i + 1 \in DOMAIN q /\ q[i + 1] = Tail(q)[i]
    BY <1>1
  <2>3. Ids(q) \subseteq Ids(Tail(q)) \cup {Head(q).tx}
    BY <1>1, <2>1 DEF Ids
  <2>4. Ids(Tail(q)) \subseteq Ids(q)
    BY <2>2 DEF Ids
  <2>5. 1 \in DOMAIN q /\ Head(q).tx \in Ids(q)
    BY <1>1 DEF Ids
  <2> QED
    BY <2>3, <2>4, <2>5
<1>4. \A t \in Ids(q) : Head(q).tx <= t
  BY <1>1 DEF InOrder, Ids
<1> QED
  BY <1>2, <1>3, <1>4

(* A request no earlier than those of a sequence is put behind them.       *)
LEMMA LastArrives ==
    ASSUME NEW S, NEW q \in Seq(S), NEW f \in S, InOrder(q), f.tx \in Nat,
           \A t \in Ids(q) : t <= f.tx
    PROVE  /\ InOrder(Append(q, f))
           /\ Ids(Append(q, f)) = Ids(q) \cup {f.tx}
<1> DEFINE p == Append(q, f)
<1>1. /\ Len(q) \in Nat /\ DOMAIN q = 1 .. Len(q) /\ DOMAIN p = 1 .. Len(q) + 1
      /\ p[Len(q) + 1] = f
      /\ \A i \in 1 .. Len(q) : p[i] = q[i]
  OBVIOUS
<1> HIDE DEF p
<1>2. Ids(p) = Ids(q) \cup {f.tx}
  <2>1. \A i \in DOMAIN p : p[i].tx \in Ids(q) \cup {f.tx}
    <3>1. \A i \in DOMAIN p : i = Len(q) + 1 \/ i \in DOMAIN q
      BY <1>1
    <3> QED
      BY <1>1, <3>1 DEF Ids
  <2>2. Ids(q) \cup {f.tx} \subseteq Ids(p)
    <3>1. Len(q) + 1 \in DOMAIN p /\ DOMAIN q \subseteq DOMAIN p
      BY <1>1
    <3> QED
      BY <1>1, <3>1 DEF Ids
  <2> QED
    BY <2>1, <2>2 DEF Ids
<1>3. InOrder(p)
  <2> SUFFICES ASSUME NEW i \in DOMAIN p, NEW j \in DOMAIN p, i <= j
               PROVE  p[i].tx <= p[j].tx
    BY DEF InOrder
  <2>1. CASE j = Len(q) + 1 /\ i = Len(q) + 1
    BY <1>1, <2>1
  <2>2. CASE j = Len(q) + 1 /\ i \in DOMAIN q
    BY <1>1, <2>2 DEF Ids
  <2>3. CASE j \in DOMAIN q
    <3>1. i \in DOMAIN q
      BY <1>1, <2>3
    <3> QED
      BY <1>1, <2>3, <3>1 DEF InOrder
  <2> QED
    BY <1>1, <2>1, <2>2, <2>3
<1> QED
  BY <1>2, <1>3 DEF p

(* The ids of requests are those of the registry, and the next call gets a *)
(* later one than all of them.                                             *)
LEMMA RegisteredIds ==
    ASSUME NEW R, LinkInv(R)
    PROVE  /\ Ids(h2d) \cup Ids(h_tx_queue) \cup HS!InWindow \cup Waiting \subseteq DOMAIN R
           /\ \A t \in DOMAIN R : t \in Nat /\ t > 0 /\ t < h_next_tx_id
           /\ h_next_tx_id \in Nat
<1>1. h_next_tx_id \in Nat
  BY DEF LinkInv, HS!SessionInv, HS!TypeOK, HS!TxIds
<1>2. \A t \in DOMAIN R : t \in Nat /\ t > 0 /\ t < h_next_tx_id
  BY <1>1 DEF LinkInv, Registry
<1>3. Ids(h2d) \subseteq DOMAIN R /\ Ids(h_tx_queue) \subseteq DOMAIN R
  <2>1. \A f \in RequestFrames(R) : f.tx \in DOMAIN R
    BY DEF RequestFrames, Request
  <2>2. h2d \in Seq(RequestFrames(R)) /\ h_tx_queue \in Seq(RequestFrames(R))
    BY DEF LinkInv, HostAgrees
  <2> QED
    BY <2>1, <2>2 DEF Ids
<1>4. HS!InWindow \subseteq DOMAIN R /\ Waiting \subseteq DOMAIN R
  BY DEF LinkInv, HostAgrees, HS!InWindow, Waiting
<1> QED
  BY <1>1, <1>2, <1>3, <1>4

(* Calls that are kept or end leave the window.                            *)
LEMMA WindowShrinks ==
    ASSUME HS!CallsKept
    PROVE  HS!InWindow' \subseteq HS!InWindow
BY DEF HS!CallsKept, HS!InWindow

(* No retries, no ids.                                                     *)
LEMMA NoRetryIds == Ids(<<>>) = {}
BY DEF Ids

-----------------------------------------------------------------------------
(***************************************************************************)
(* The steps of the host.                                                  *)
(***************************************************************************)

(* A new call gets the highest id and goes to the end of the queue.        *)
LEMMA HostCallOrdered ==
    ASSUME RetriesNotMoved, NEW R, LinkInv(R), OneAtATime, NEW L, L \in {0} \cup DOMAIN R, Ordered(L),
           NEW k \in Callers, NEW cmd \in RequestCmds,
           NEW timeout \in Timeouts, NEW max_retries \in RetryLimits,
           Host!Send(k, cmd, timeout, max_retries), UNCHANGED h2d
    PROVE  Ordered(L)'
<1> DEFINE n == h_next_tx_id
<1>1. /\ HS!send(k, cmd, timeout, max_retries)
      /\ h_retries' \in {h_retries, Host!Moved(h_retries)}
      /\ UNCHANGED <<h_tx_queue, h_handlers, h_phase>>
      /\ h_phase \in {"rx", "handler", "errors"}
  BY HostSend DEF Host!Send, Host!OnProtocolThread
<1>2. /\ h_pending' = HS!Put(h_pending, n, HS!NewPending(k, cmd, timeout, max_retries))
      /\ h_outbound' = Append(h_outbound, n)
  BY <1>1 DEF HS!send, HS!register_pending
<1>3. h_retries = <<>> /\ h_retries' = <<>>
  <2>1. h_retries = <<>>
    BY <1>1 DEF LinkInv, HostAgrees
  <2>2. Host!Moved(<<>>) = <<>>
    BY DEF Host!Moved
  <2> QED
    BY <1>1, <2>1, <2>2
<1>4. HS!InWindow' = HS!InWindow
  <2>1. n \notin DOMAIN h_pending
    <3>1. n \notin DOMAIN R
      BY RegisteredIds
    <3>2. DOMAIN h_pending \subseteq DOMAIN R
      BY DEF LinkInv, HostAgrees
    <3> QED
      BY <3>1, <3>2
  <2> QED
    BY <1>2, <2>1 DEF HS!Put, HS!NewPending, HS!InWindow
<1>5. /\ Waiting' = Waiting \cup {n}
      /\ \A i, j \in DOMAIN h_outbound' : i < j => h_outbound'[i] < h_outbound'[j]
  <2>1. h_outbound \in Seq(HS!TxIds) /\ n \in HS!TxIds
    BY DEF LinkInv, HS!SessionInv, HS!TypeOK
  <2>2. \A i \in DOMAIN h_outbound : h_outbound[i] < n
    BY RegisteredIds DEF Waiting
  <2>3. /\ Len(h_outbound) \in Nat /\ DOMAIN h_outbound = 1 .. Len(h_outbound)
        /\ DOMAIN h_outbound' = 1 .. Len(h_outbound) + 1
        /\ h_outbound'[Len(h_outbound) + 1] = n
        /\ \A i \in 1 .. Len(h_outbound) : h_outbound'[i] = h_outbound[i]
    BY <1>2, <2>1
  <2>4. \A i \in DOMAIN h_outbound' : i = Len(h_outbound) + 1 \/ i \in DOMAIN h_outbound
    BY <2>3
  <2>5. Waiting' = Waiting \cup {n}
    <3>1. Len(h_outbound) + 1 \in DOMAIN h_outbound' /\ DOMAIN h_outbound \subseteq DOMAIN h_outbound'
      BY <2>3
    <3> QED
      BY <2>3, <2>4, <3>1 DEF Waiting
  <2>6. ASSUME NEW i \in DOMAIN h_outbound', NEW j \in DOMAIN h_outbound', i < j
        PROVE  h_outbound'[i] < h_outbound'[j]
    <3>1. i \in DOMAIN h_outbound /\ h_outbound'[i] = h_outbound[i]
      BY <2>3, <2>6
    <3>2. CASE j = Len(h_outbound) + 1
      BY <2>2, <2>3, <3>1, <3>2
    <3>3. CASE j \in DOMAIN h_outbound
      <4>1. h_outbound'[j] = h_outbound[j]
        BY <2>3, <3>3
      <4>2. h_outbound[i] < h_outbound[j]
        BY <2>6, <3>1, <3>3 DEF Ordered
      <4> QED
        BY <3>1, <4>1, <4>2
    <3> QED
      BY <2>4, <3>2, <3>3
  <2> QED
    BY <2>5, <2>6
<1>6. Before({L} \cup Ids(h2d) \cup Ids(h_tx_queue) \cup HS!InWindow, {n})
  <2>1. n \in Nat /\ n > 0
    BY RegisteredIds DEF LinkInv, Registry
  <2>2. \A a \in {L} \cup Ids(h2d) \cup Ids(h_tx_queue) \cup HS!InWindow :
           a = 0 \/ a \in DOMAIN R
    BY RegisteredIds
  <2>3. \A a \in DOMAIN R : a < n
    BY RegisteredIds
  <2> QED
    BY <2>1, <2>2, <2>3 DEF Before
<1> HIDE DEF n
<1>7. Before({L} \cup Ids(h2d) \cup Ids(h_tx_queue) \cup HS!InWindow, Waiting \cup {n})
  BY <1>6 DEF Before, Ordered
<1> QED
  BY <1>1, <1>3, <1>4, <1>5, <1>7, NoRetryIds DEF Ordered, Ids, InOrder

(* What the host receives only ends calls.                                 *)
LEMMA HostReceiveOrdered ==
    ASSUME NEW R, LinkInv(R), NEW L, Ordered(L), HostReceive
    PROVE  Ordered(L)'
<1>1. /\ d2h # <<>> /\ Host!handle_packet_internal(Head(d2h)) /\ UNCHANGED h2d
  BY DEF HostReceive
<1>2. /\ h_phase = "rx" /\ HostStackUnchanged
      /\ HS!CallsKept /\ UNCHANGED h_outbound
  <2>1. /\ h_phase = "rx"
        /\ HostStackUnchanged
        /\ \/ HostSessionUnchanged
           \/ \E tx \in HS!TxIds : HS!on_ack(tx)
           \/ \E t \in DOMAIN R : /\ Executed(R[t].body)
                                  /\ HS!on_response(ResponseOf[R[t].cmd], t, R[t].body)
    BY <1>1, HostReceives DEF LinkInv
  <2>2. CASE HostSessionUnchanged
    BY <2>1, <2>2 DEF HostSessionUnchanged, HS!CallsKept, HS!SameCall
  <2>3. CASE \E tx \in HS!TxIds : HS!on_ack(tx)
    BY <2>1, <2>3, HS!OnAckKeepsCalls, Constants DEF LinkInv, HS!SessionInv, HS!on_ack
  <2>4. CASE \E t \in DOMAIN R : HS!on_response(ResponseOf[R[t].cmd], t, R[t].body)
    BY <2>1, <2>4, HS!ResponseEffect, Constants DEF LinkInv
  <2> QED
    BY <2>1, <2>2, <2>3, <2>4
<1>3. h_retries' = <<>>
  BY <1>2 DEF HostStackUnchanged, LinkInv, HostAgrees
<1> QED
  BY <1>1, <1>2, <1>3, WindowShrinks, NoRetryIds, FewerRequests DEF HostStackUnchanged, Ordered

(* Time disturbs no order.                                                 *)
LEMMA HostTickOrdered ==
    ASSUME NEW R, LinkInv(R), NEW L, Ordered(L), HostTick
    PROVE  Ordered(L)'
<1>1. /\ HS!Tick /\ HostStackUnchanged /\ UNCHANGED h2d
  BY HostClockTick DEF HostTick, Host!ClockTick, Host!stack_vars, HostStackUnchanged
<1>2. /\ HS!CallsKept /\ DOMAIN h_pending' = DOMAIN h_pending /\ UNCHANGED h_outbound
  BY <1>1, HS!TickKeepsCalls, Constants DEF LinkInv, HS!SessionInv, HS!Tick
<1>3. HS!InWindow' = HS!InWindow
  BY <1>2 DEF HS!CallsKept, HS!InWindow
<1> QED
  BY <1>1, <1>2, <1>3, FewerRequests DEF HostStackUnchanged, Ordered

(* The first frame of the transmit queue goes behind the line.             *)
LEMMA HostSendsOrdered ==
    ASSUME NEW R, LinkInv(R), NEW L, Ordered(L), HostSends
    PROVE  Ordered(L)'
<1> DEFINE f == Head(h_tx_queue)
<1>1. /\ h_tx_queue # <<>> /\ h_phase = "tx"
      /\ h_tx_queue' = Tail(h_tx_queue) /\ h2d' = Append(h2d, f)
      /\ UNCHANGED h_retries /\ HostSessionUnchanged
  BY DEF HostSends, Host!FrameSent, Host!session_vars, Host!host_vars, Host!device_vars,
         HostSessionUnchanged
<1>2. /\ h_tx_queue \in Seq(RequestFrames(R)) /\ h2d \in Seq(RequestFrames(R))
      /\ f \in RequestFrames(R)
  <2>1. h_tx_queue \in Seq(RequestFrames(R)) /\ h2d \in Seq(RequestFrames(R))
    BY DEF LinkInv, HostAgrees
  <2> QED
    BY <1>1, <2>1, TailSeq
<1> HIDE DEF f
<1>3. /\ InOrder(h_tx_queue')
      /\ Ids(h_tx_queue) = Ids(h_tx_queue') \cup {f.tx}
      /\ \A t \in Ids(h_tx_queue) : f.tx <= t
  BY <1>1, <1>2, FirstLeaves DEF Ordered, f
<1>4. f.tx \in Nat
  BY <1>3, RegisteredIds
<1>5. /\ InOrder(h2d')
      /\ Ids(h2d') = Ids(h2d) \cup {f.tx}
  <2>1. \A t \in Ids(h2d) : t <= f.tx
    BY <1>3 DEF Ordered, NotAfter
  <2> QED
    BY <1>1, <1>2, <1>4, <2>1, LastArrives DEF Ordered
<1>6. HS!InWindow' = HS!InWindow /\ Waiting' = Waiting
  BY <1>1 DEF HostSessionUnchanged, HS!InWindow, Waiting
<1>7. /\ NotAfter({L}, Ids(h2d') \cup Ids(h_tx_queue') \cup HS!InWindow)
      /\ NotAfter(Ids(h2d'), Ids(h_tx_queue'))
      /\ NotAfter(Ids(h2d') \cup Ids(h_tx_queue'), HS!InWindow)
      /\ Before({L} \cup Ids(h2d') \cup Ids(h_tx_queue') \cup HS!InWindow, Waiting)
  BY <1>3, <1>5 DEF Ordered, NotAfter, Before
<1> QED
  BY <1>1, <1>3, <1>5, <1>6, <1>7 DEF Ordered, HostSessionUnchanged, NotAfter, Before, InOrder, Ids

(* A request for the open window is the only one in it; and it has waited  *)
(* behind all that were sent before it.                                    *)
LEMMA PumpOutboundOrdered ==
    ASSUME NEW R, LinkInv(R), OneAtATime, NEW L, L \in {0} \cup DOMAIN R, Ordered(L),
           Host!PumpOutbound, UNCHANGED h2d
    PROVE  Ordered(L)'
<1> DEFINE tx == HS!OutboundTx
           f == Host!RequestFrame(tx)
<1>1. /\ HS!TakeOutbound
      /\ h_phase = "outbound"
      /\ h_tx_queue' = Host!enqueue_pending_frame(h_tx_queue, f)
      /\ UNCHANGED h_retries
  BY HostTakeOutbound DEF Host!PumpOutbound
<1>2. /\ tx \in DOMAIN h_pending
      /\ HS!FirstLive \in 1 .. Len(h_outbound)
      /\ tx = h_outbound[HS!FirstLive]
      /\ HS!InWindow' = HS!InWindow \cup {tx}
      /\ Len(h_outbound') = Len(h_outbound) - HS!FirstLive
      /\ \A i \in DOMAIN h_outbound' :
            /\ HS!FirstLive + i \in DOMAIN h_outbound
            /\ h_outbound'[i] = h_outbound[HS!FirstLive + i]
      /\ HS!Cardinality(HS!InWindow) < HS!window_size
      /\ HS!SessionInv'
  BY <1>1, HS!TakeOutboundEffect, HS!TakeOutboundInv, Constants DEF LinkInv
<1>3. tx \in Waiting /\ tx \in Nat /\ tx \in DOMAIN R
  <2>1. h_outbound \in Seq(HS!TxIds)
    BY DEF LinkInv, HS!SessionInv, HS!TypeOK
  <2>2. tx \in Waiting
    BY <1>2, <2>1 DEF Waiting
  <2> QED
    BY <2>2, RegisteredIds
<1>4. HS!InWindow' = {tx}
  <2>1. IsFiniteSet(HS!InWindow)
    <3>1. HS!InWindow \subseteq 0 .. TxModulus - 1
      BY DEF LinkInv, HS!SessionInv, HS!TypeOK, HS!InWindow, HS!TxIds
    <3>2. IsFiniteSet(0 .. TxModulus - 1)
      BY FS_Interval, Constants DEF HS!SessionAssumption
    <3> QED
      BY <3>1, <3>2, FS_Subset
  <2>2. Cardinality(HS!InWindow) \in Nat /\ Cardinality(HS!InWindow) < 1
    <3>1. HS!window_size = 1
      BY Constants DEF HS!window_size, OneAtATime, HS!SessionAssumption
    <3> QED
      BY <1>2, <2>1, <3>1, SameCardinality, FS_CardinalityType
  <2>3. HS!InWindow = {}
    BY <2>1, <2>2, FS_EmptySet
  <2> QED
    BY <1>2, <2>3
<1>5. /\ Waiting' \subseteq Waiting
      /\ Before({tx}, Waiting')
      /\ \A i, j \in DOMAIN h_outbound' : i < j => h_outbound'[i] < h_outbound'[j]
  <2> DEFINE n == HS!FirstLive
  <2>1. h_outbound \in Seq(HS!TxIds) /\ h_outbound' \in Seq(HS!TxIds)
    BY <1>2 DEF LinkInv, HS!SessionInv, HS!TypeOK
  <2>2. /\ n \in DOMAIN h_outbound /\ n \in Nat /\ DOMAIN h_outbound' \subseteq Nat \ {0}
        /\ DOMAIN h_outbound \subseteq Nat
    BY <1>2, <2>1
  <2> HIDE DEF n
  <2>3. \A i \in DOMAIN h_outbound' : n + i \in DOMAIN h_outbound /\ h_outbound'[i] = h_outbound[n + i]
    BY <1>2 DEF n
  <2>4. tx = h_outbound[n]
    BY <1>2 DEF n
  <2>5. Waiting' \subseteq Waiting
    BY <2>3 DEF Waiting
  <2>6. Before({tx}, Waiting')
    <3>1. ASSUME NEW i \in DOMAIN h_outbound'
          PROVE  tx < h_outbound'[i]
      <4>1. n < n + i
        BY <2>2
      <4> QED
        BY <2>2, <2>3, <2>4, <4>1 DEF Ordered
    <3> QED
      BY <3>1 DEF Before, Waiting
  <2>7. ASSUME NEW i \in DOMAIN h_outbound', NEW j \in DOMAIN h_outbound', i < j
        PROVE  h_outbound'[i] < h_outbound'[j]
    <3>1. n + i < n + j
      BY <2>2, <2>7
    <3> QED
      BY <2>3, <3>1 DEF Ordered
  <2> QED
    BY <2>5, <2>6, <2>7
<1> HIDE DEF tx
<1>6. f \in RequestFrames(R) /\ f.tx = tx
  BY <1>2 DEF LinkInv, HostAgrees, Host!RequestFrame, RequestFrames, Request
<1>7. /\ InOrder(h_tx_queue')
      /\ Ids(h_tx_queue') \subseteq Ids(h_tx_queue) \cup {tx}
  <2>1. \A g \in RequestFrames(R) : ~ Host!is_telemetry_cmd(g.cmd)
    BY CommandClasses DEF RequestFrames, Request, LinkInv, Registry
  <2>2. h_tx_queue \in Seq(RequestFrames(R))
    BY DEF LinkInv, HostAgrees
  <2>3. h_tx_queue' \in {h_tx_queue, Append(h_tx_queue, f)}
    BY <1>1, <1>6, <2>1, <2>2, EnqueueRequest
  <2>4. \A t \in Ids(h_tx_queue) : t <= tx
    <3>1. \A t \in Ids(h_tx_queue) : t \in Nat /\ t < tx
      BY <1>3, RegisteredIds DEF Ordered, Before
    <3> QED
      BY <1>3, <3>1
  <2> HIDE DEF f
  <2>5. InOrder(Append(h_tx_queue, f)) /\ Ids(Append(h_tx_queue, f)) = Ids(h_tx_queue) \cup {tx}
    BY <1>3, <1>6, <2>2, <2>4, LastArrives DEF Ordered
  <2> QED
    BY <2>3, <2>5 DEF Ordered
<1>8. \A a \in {L} \cup Ids(h2d) \cup Ids(h_tx_queue) : a < tx /\ a <= tx
  <2>1. \A a \in {L} \cup Ids(h2d) \cup Ids(h_tx_queue) : a \in Nat /\ a < tx
    BY <1>3, RegisteredIds DEF Ordered, Before
  <2> QED
    BY <1>3, <2>1
<1>9. /\ NotAfter({L}, Ids(h2d) \cup Ids(h_tx_queue') \cup {tx})
      /\ NotAfter(Ids(h2d), Ids(h_tx_queue'))
      /\ NotAfter(Ids(h2d) \cup Ids(h_tx_queue'), {tx})
  <2>1. tx <= tx
    BY <1>3
  <2>2. NotAfter({L}, Ids(h2d) \cup Ids(h_tx_queue)) /\ NotAfter(Ids(h2d), Ids(h_tx_queue))
    BY DEF Ordered, NotAfter
  <2>3. \A a \in Ids(h2d) \cup Ids(h_tx_queue') : a <= tx
    BY <1>7, <1>8, <2>1
  <2> QED
    BY <1>7, <1>8, <2>2, <2>3 DEF NotAfter
<1>10. Before({L} \cup Ids(h2d) \cup Ids(h_tx_queue') \cup {tx}, Waiting')
  BY <1>3, <1>5, <1>7 DEF Ordered, Before
<1>11. Ids(h_retries') = {}
  BY <1>1, NoRetryIds DEF LinkInv, HostAgrees
<1> QED
  BY <1>4, <1>5, <1>7, <1>9, <1>10, <1>11 DEF Ordered

(* poll takes calls out of the window, and asks again for some that stay.  *)
LEMMA PollSessionOrdered ==
    ASSUME NEW R, LinkInv(R), NEW L, Ordered(L), Host!PollSession, UNCHANGED h2d
    PROVE  Ordered(L)'
<1>1. HS!poll /\ UNCHANGED h_tx_queue
  BY HostPoll DEF Host!PollSession
<1>2. PICK order \in Host!SetToSeqs(Host!Retried) :
         h_retries' = [i \in DOMAIN order |-> Host!RetransmitEntry(order[i])]
  BY DEF Host!PollSession
<1>3. /\ HS!CallsKept /\ UNCHANGED h_outbound
      /\ DOMAIN h_pending' = DOMAIN h_pending \ HS!Expired
  BY <1>1, HS!PollEffect, Constants DEF LinkInv
<1>4. Host!Retried \subseteq HS!InWindow'
  <2>1. Host!Retried \subseteq HS!InWindow \ HS!Expired
    BY DEF Host!Retried, Host!Expired, HS!Expired, Host!Due, HS!Due, Host!InWindow, HS!InWindow
  <2> QED
    BY <1>3, <2>1 DEF HS!InWindow, HS!CallsKept
<1>5. Ids(h_retries') \subseteq HS!InWindow'
  <2>1. order \in [1 .. Host!Cardinality(Host!Retried) -> Host!Retried]
    BY DEF Host!SetToSeqs
  <2>2. \A i \in DOMAIN order : order[i] \in Host!Retried
    BY <2>1
  <2>3. \A i \in DOMAIN h_retries' : i \in DOMAIN order /\ h_retries'[i].tx = order[i]
    BY <1>2 DEF Host!RetransmitEntry
  <2> QED
    BY <1>4, <2>2, <2>3 DEF Ids
<1> QED
  BY <1>1, <1>3, <1>5, WindowShrinks, FewerRequests DEF Ordered

(* A retransmission is of the request in the window, the last one sent.    *)
LEMMA RequeueRetryOrdered ==
    ASSUME NEW R, LinkInv(R), OneAtATime, NEW L, L \in {0} \cup DOMAIN R, Ordered(L),
           Host!RequeueRetry, UNCHANGED h2d
    PROVE  Ordered(L)'
<1> DEFINE r == Head(h_retries)
           f == [cmd |-> r.cmd, tx |-> r.tx, body |-> r.body]
           Entries == [cmd : RequestCmds, tx : DOMAIN R, body : Callers, valid : {TRUE}]
<1>1. h_phase = "requeue" /\ h_retries # <<>> /\ h_retries \in Seq(Entries)
  BY DEF Host!RequeueRetry, LinkInv, HostAgrees
<1>2. /\ r \in Entries
      /\ r.cmd = R[r.tx].cmd /\ r.body = R[r.tx].body
      /\ r.tx \in HS!InWindow
      /\ Ids(Tail(h_retries)) \subseteq Ids(h_retries)
  <2>1. 1 \in DOMAIN h_retries /\ r = h_retries[1]
    BY <1>1
  <2>2. r.cmd = R[r.tx].cmd /\ r.body = R[r.tx].body
    BY <2>1 DEF LinkInv, HostAgrees
  <2>3. r.tx \in Ids(h_retries)
    BY <2>1 DEF Ids
  <2> HIDE DEF Entries
  <2>4. /\ r \in Entries
        /\ \A i \in DOMAIN Tail(h_retries) :
              i + 1 \in DOMAIN h_retries /\ Tail(h_retries)[i] = h_retries[i + 1]
    BY <1>1, TailSeq
  <2> QED
    BY <2>2, <2>3, <2>4 DEF Ids, Ordered
<1>3. /\ h_tx_queue' = Host!enqueue_pending_frame(h_tx_queue, f)
      /\ h_retries' = Tail(h_retries)
      /\ UNCHANGED <<h_pending, h_outbound>>
  <2>1. r.valid = TRUE
    BY <1>2
  <2> QED
    BY <2>1 DEF Host!RequeueRetry, Host!session_vars, Host!host_vars
<1> HIDE DEF r
<1>4. f \in RequestFrames(R) /\ f.tx = r.tx /\ r.tx \in Nat
  BY <1>2, RegisteredIds DEF RequestFrames, Request
<1>5. /\ \A t \in {L} \cup Ids(h2d) \cup Ids(h_tx_queue) : t <= r.tx
      /\ HS!InWindow = {r.tx}
  BY <1>2, WindowOfOne DEF Ordered, NotAfter, LinkInv
<1>6. h_tx_queue \in Seq(RequestFrames(R))
  BY DEF LinkInv, HostAgrees
<1>7. h_tx_queue' \in {h_tx_queue, Append(h_tx_queue, f)}
  <2>1. \A g \in RequestFrames(R) : ~ Host!is_telemetry_cmd(g.cmd)
    BY CommandClasses DEF RequestFrames, Request, LinkInv, Registry
  <2> QED
    BY <1>3, <1>4, <1>6, <2>1, EnqueueRequest
<1> HIDE DEF f
<1>8. /\ InOrder(h_tx_queue')
      /\ Ids(h_tx_queue') \subseteq Ids(h_tx_queue) \cup {r.tx}
  <2>1. /\ InOrder(Append(h_tx_queue, f))
        /\ Ids(Append(h_tx_queue, f)) = Ids(h_tx_queue) \cup {r.tx}
    <3>1. f.tx \in Nat /\ \A t \in Ids(h_tx_queue) : t <= f.tx
      BY <1>4, <1>5
    <3>2. InOrder(h_tx_queue)
      BY DEF Ordered
    <3>3. InOrder(Append(h_tx_queue, f)) /\ Ids(Append(h_tx_queue, f)) = Ids(h_tx_queue) \cup {f.tx}
      BY <1>4, <1>6, <3>1, <3>2, LastArrives
    <3> QED
      BY <1>4, <3>3
  <2> QED
    BY <1>7, <2>1 DEF Ordered
<1>9. /\ NotAfter({L}, Ids(h2d) \cup Ids(h_tx_queue') \cup HS!InWindow)
      /\ NotAfter(Ids(h2d), Ids(h_tx_queue'))
      /\ NotAfter(Ids(h2d) \cup Ids(h_tx_queue'), HS!InWindow)
  <2>1. r.tx <= r.tx
    BY <1>4
  <2>2. \A t \in {L} \cup Ids(h2d) \cup Ids(h_tx_queue') : t <= r.tx
    BY <1>5, <1>8, <2>1
  <2>3. NotAfter({L}, Ids(h2d) \cup Ids(h_tx_queue)) /\ NotAfter(Ids(h2d), Ids(h_tx_queue))
    BY DEF Ordered, NotAfter
  <2> QED
    BY <1>5, <1>8, <2>2, <2>3 DEF NotAfter
<1>10. Before({L} \cup Ids(h2d) \cup Ids(h_tx_queue') \cup HS!InWindow, Waiting)
  BY <1>5, <1>8 DEF Ordered, Before
<1>11. HS!InWindow' = HS!InWindow /\ Waiting' = Waiting
  BY <1>3 DEF HS!InWindow, Waiting
<1>12. Ids(h_retries') \subseteq HS!InWindow
  BY <1>2, <1>3 DEF Ordered
<1> QED
  BY <1>3, <1>8, <1>9, <1>10, <1>11, <1>12 DEF Ordered

(* Every step of the cycle.                                                *)
LEMMA HostWorksOrdered ==
    ASSUME NEW R, LinkInv(R), OneAtATime, NEW L, L \in {0} \cup DOMAIN R, Ordered(L), HostWorks
    PROVE  Ordered(L)'
<1>1. UNCHANGED h2d
  BY DEF HostWorks
<1>2. CASE Host!RxDrained \/ Host!ErrorCallbacksReturn \/ Host!FrameKept
  <2>1. UNCHANGED <<h_tx_queue, h_pending, h_outbound, h_retries>>
    BY <1>2 DEF Host!RxDrained, Host!ErrorCallbacksReturn, Host!FrameKept, Host!session_vars,
                Host!host_vars
  <2>2. HS!InWindow' = HS!InWindow
    BY <2>1 DEF HS!InWindow
  <2> QED
    BY <1>1, <2>1, <2>2, FewerRequests DEF Ordered
<1>3. CASE Host!OutboundDone
  <2>1. /\ UNCHANGED <<h_tx_queue, h_pending, h_retries>>
        /\ h_outbound' \in {<<>>, h_outbound}
    BY <1>3, HostNoOutbound DEF Host!OutboundDone, HS!NoOutbound
  <2>2. HS!InWindow' = HS!InWindow
    BY <2>1 DEF HS!InWindow
  <2> QED
    BY <1>1, <2>1, <2>2, FewerRequests DEF Ordered
<1> QED
  BY <1>1, <1>2, <1>3, PumpOutboundOrdered, PollSessionOrdered, RequeueRetryOrdered
  DEF HostWorks, Host!handle_session_outbound

-----------------------------------------------------------------------------
(***************************************************************************)
(* The steps that take requests from the line.                             *)
(***************************************************************************)

(* A loss, and a request the device has seen before, take the first frame  *)
(* off the line.                                                           *)
LEMMA LineShrinksOrdered ==
    ASSUME NEW R, LinkInv(R), NEW L, Ordered(L), UNCHANGED host,
           h2d' = h2d \/ (h2d # <<>> /\ h2d' = Tail(h2d))
    PROVE  Ordered(L)'
<1>1. UNCHANGED <<h_tx_queue, h_pending, h_outbound, h_retries>>
  BY DEF host
<1>2. HS!InWindow' = HS!InWindow
  BY <1>1 DEF HS!InWindow
<1>3. InOrder(h2d') /\ Ids(h2d') \subseteq Ids(h2d)
  <2>1. h2d \in Seq(RequestFrames(R)) /\ InOrder(h2d)
    BY DEF LinkInv, HostAgrees, Ordered
  <2>2. ASSUME h2d # <<>>
        PROVE  InOrder(Tail(h2d)) /\ Ids(Tail(h2d)) \subseteq Ids(h2d)
    BY <2>1, <2>2, FirstLeaves
  <2>3. CASE h2d' = h2d
    BY <2>1, <2>3
  <2>4. CASE h2d # <<>> /\ h2d' = Tail(h2d)
    BY <2>2, <2>4
  <2> QED
    BY <2>3, <2>4
<1> QED
  BY <1>1, <1>2, <1>3, FewerRequests DEF Ordered

(* A host that starts again has sent nothing: what it sends will be new.   *)
LEMMA HostRestartOrdered ==
    ASSUME NEW R, LinkInv(R), NEW L, Ordered(L), HostRestart
    PROVE  Ordered(L)'
<1>1. /\ h_tx_queue' = <<>> /\ h_pending' = NoMap /\ h_outbound' = <<>> /\ h_retries' = <<>>
      /\ UNCHANGED h2d
  BY DEF HostRestart
<1>2. HS!InWindow' = {}
  BY <1>1 DEF HS!InWindow, NoMap
<1>3. InOrder(<<>>)
  BY DEF InOrder
<1> QED
  BY <1>1, <1>2, <1>3, NoRetryIds, FewerRequests DEF Ordered

(* A device that starts again knows no request, and all are numbered > 0.  *)
LEMMA DeviceRestartOrdered ==
    ASSUME NEW R, LinkInv(R), NEW L, Ordered(L), DeviceRestart
    PROVE  Ordered(0)'
<1>1. UNCHANGED <<host, h2d>>
  BY DEF DeviceRestart
<1>2. Ordered(L)'
  BY <1>1, LineShrinksOrdered
<1>3. Ids(h2d)' = Ids(h2d) /\ Ids(h_tx_queue)' = Ids(h_tx_queue)
      /\ HS!InWindow' = HS!InWindow /\ Waiting' = Waiting
  BY <1>1 DEF host, HS!InWindow, Waiting, Ids
<1>4. /\ NotAfter({0}, Ids(h2d) \cup Ids(h_tx_queue) \cup HS!InWindow)
      /\ Before({0}, Waiting)
  BY RegisteredIds DEF NotAfter, Before
<1> QED
  BY <1>2, <1>3, <1>4 DEF Ordered, NotAfter, Before

(* The request the device takes from the line is no later than the others. *)
LEMMA FirstIsNext ==
    ASSUME NEW R, LinkInv(R), NEW L, Ordered(L), UNCHANGED host,
           h2d # <<>>, h2d' = Tail(h2d), NEW t, t = Head(h2d).tx
    PROVE  Ordered(t)' /\ L <= t
<1>1. Ordered(L)'
  BY LineShrinksOrdered
<1>2. /\ Ids(h2d) = Ids(h2d') \cup {t}
      /\ \A s \in Ids(h2d) : t <= s
  <2>1. h2d \in Seq(RequestFrames(R))
    BY DEF LinkInv, HostAgrees
  <2> QED
    BY <2>1, FirstLeaves DEF Ordered
<1>3. h_tx_queue' = h_tx_queue /\ HS!InWindow' = HS!InWindow /\ Waiting' = Waiting
  BY DEF host, HS!InWindow, Waiting
<1>4. /\ NotAfter({t}, Ids(h2d') \cup Ids(h_tx_queue) \cup HS!InWindow)
      /\ Before({t}, Waiting)
      /\ L <= t
  BY <1>2 DEF Ordered, NotAfter, Before
<1>5. Ordered(t)'
  <2>1. NotAfter({t}, Ids(h2d') \cup Ids(h_tx_queue') \cup HS!InWindow')
    BY <1>3, <1>4
  <2>2. Before({t} \cup Ids(h2d') \cup Ids(h_tx_queue') \cup HS!InWindow', Waiting')
    <3>1. Before({L} \cup Ids(h2d') \cup Ids(h_tx_queue') \cup HS!InWindow', Waiting')
      BY <1>1 DEF Ordered
    <3> QED
      BY <1>3, <1>4, <3>1 DEF Before
  <2> QED
    BY <1>1, <2>1, <2>2 DEF Ordered
<1> QED
  BY <1>4, <1>5

-----------------------------------------------------------------------------
(***************************************************************************)
(* What the device remembers.                                              *)
(***************************************************************************)
Known(R, t) == DS!IsDuplicate(R[t].cmd, t)

\* The calls the device has executed in its present life.
ExecutedNow == {k \in Callers : executed[<<k, device_run>>] > 0}

\* The device is at L: nothing before it is still to come, and only L may come again.
DeviceAt(R, L) ==
    /\ L \in {0} \cup DOMAIN R
    /\ Ordered(L)
    /\ L # 0 => Known(R, L)
    /\ \A t \in DOMAIN R : R[t].body \in ExecutedNow => t <= L

\* The ring has filled from its first slot on, one slot for each call executed.
NothingForgotten(R) ==
    /\ \A t \in DOMAIN R : R[t].body \in ExecutedNow => Known(R, t)
    /\ \A s \in DS!Ring!Slots :
          Cardinality(ExecutedNow) <= s => d_seen_requests.ids[s] = DS!NoKey
    /\ Cardinality(ExecutedNow) < SeenIdRingSize
          => d_seen_requests.write_idx = Cardinality(ExecutedNow)

\* A cached response was sent once, so it is listed once, and its own entry is
\* the one that will evict it.
CacheAgrees(R) ==
    /\ DS!ListedOnce
    /\ DS!ListedIsCached
    /\ \A i \in DOMAIN d_order :
          \E t \in DOMAIN R : /\ d_order[i] = <<R[t].cmd, t>>
                              /\ R[t].body \in ExecutedNow
                              /\ Request(R, t) \notin jobs

OnceInv(R) ==
    /\ AtMostOnce
    /\ CacheAgrees(R)
    /\ OneAtATime => \E L : DeviceAt(R, L)
    /\ CallsFitRing => NothingForgotten(R)

(* Both instances mean the same by a duplicate.                            *)
LEMMA SameDuplicate ==
    ASSUME NEW cmd, NEW tx
    PROVE  Device!IsDuplicate(cmd, tx) <=> DS!IsDuplicate(cmd, tx)
BY DEF Device!IsDuplicate, DS!IsDuplicate, Device!Ring!Holds, DS!Ring!Holds,
       Device!Ring!Slots, DS!Ring!Slots, Device!compose_dedup_key, DS!compose_dedup_key

(* A request that is handled is known afterwards; a repetition changes     *)
(* nothing, a new request the slot at write_idx.                           *)
LEMMA RequestRemembered ==
    ASSUME DS!SessionInv, NEW cmd, NEW tx, DS!on_request(cmd, tx)
    PROVE  /\ DS!IsDuplicate(cmd, tx)'
           /\ DS!IsDuplicate(cmd, tx) => UNCHANGED d_seen_requests
           /\ ~ DS!IsDuplicate(cmd, tx) =>
                 /\ \A s \in DS!Ring!Slots : s # d_seen_requests.write_idx
                       => d_seen_requests'.ids[s] = d_seen_requests.ids[s]
                 /\ d_seen_requests'.write_idx
                       = (d_seen_requests.write_idx + 1) % SeenIdRingSize
           /\ UNCHANGED <<d_cache, d_order>>
<1> DEFINE key == DS!compose_dedup_key(cmd, tx)
           w == d_seen_requests.write_idx
<1>1. /\ d_seen_requests' = DS!Ring!Inserted(d_seen_requests, key)
      /\ UNCHANGED <<d_cache, d_order>>
  BY DEF DS!on_request
<1>2. /\ w \in DS!Ring!Slots
      /\ DOMAIN d_seen_requests.ids = DS!Ring!Slots
  BY DEF DS!SessionInv, DS!TypeOK, DS!Ring!Rings
<1>3. key' = key
  BY DEF DS!compose_dedup_key
<1> HIDE DEF key
<1>4. CASE DS!Ring!Holds(d_seen_requests, key)
  BY <1>1, <1>3, <1>4 DEF DS!Ring!Inserted, DS!IsDuplicate, key
<1>5. CASE ~ DS!Ring!Holds(d_seen_requests, key)
  <2>1. /\ d_seen_requests'.ids = [d_seen_requests.ids EXCEPT ![w] = key]
        /\ d_seen_requests'.write_idx = (w + 1) % SeenIdRingSize
    BY <1>1, <1>5 DEF DS!Ring!Inserted
  <2>2. d_seen_requests'.ids[w] = key
    BY <1>2, <2>1
  <2>3. DS!Ring!Holds(d_seen_requests', key)
    BY <1>2, <2>2 DEF DS!Ring!Holds
  <2>4. DS!IsDuplicate(cmd, tx)'
    BY <1>3, <2>3 DEF DS!IsDuplicate, key
  <2>5. ~ DS!IsDuplicate(cmd, tx)
    BY <1>5 DEF DS!IsDuplicate, key
  <2> QED
    BY <1>1, <1>2, <2>1, <2>4, <2>5
<1> QED
  BY <1>4, <1>5

(* What a step that executes, answers and forgets nothing keeps.           *)
LEMMA OnceKept ==
    ASSUME NEW R, LinkInv(R), NEW S, Extends(S, R),
           \A t \in DOMAIN S \ DOMAIN R : S[t].body \notin ExecutedNow,
           UNCHANGED <<executed, device_run, d_seen_requests, d_cache, d_order, jobs>>
    PROVE  /\ AtMostOnce => AtMostOnce'
           /\ CacheAgrees(R) => CacheAgrees(S)'
           /\ NothingForgotten(R) => NothingForgotten(S)'
           /\ \A L : DeviceAt(R, L) /\ Ordered(L)' => DeviceAt(S, L)'
<1>1. ExecutedNow' = ExecutedNow
  BY DEF ExecutedNow
<1>2. AtMostOnce => AtMostOnce'
  BY DEF AtMostOnce
<1>3. \A t \in DOMAIN R : /\ t \in DOMAIN S /\ S[t] = R[t]
                          /\ Known(S, t)' <=> Known(R, t)
                          /\ Request(S, t) = Request(R, t)
  BY DEF Extends, Known, DS!IsDuplicate, DS!compose_dedup_key, Request
<1>4. CacheAgrees(R) => CacheAgrees(S)'
  <2>1. DS!ListedOnce => DS!ListedOnce'
    BY DEF DS!ListedOnce
  <2>2. DS!ListedIsCached => DS!ListedIsCached'
    BY DEF DS!ListedIsCached
  <2>3. \A t \in DOMAIN R : Request(S, t)' = Request(R, t)
    BY <1>3 DEF Request
  <2> QED
    BY <1>1, <1>3, <2>1, <2>2, <2>3 DEF CacheAgrees
<1>5. \A t \in DOMAIN S : S[t].body \in ExecutedNow => t \in DOMAIN R
  OBVIOUS
<1>6. NothingForgotten(R) => NothingForgotten(S)'
  BY <1>1, <1>3, <1>5 DEF NothingForgotten
<1>7. \A L : DeviceAt(R, L) /\ Ordered(L)' => DeviceAt(S, L)'
  <2> SUFFICES ASSUME NEW L, DeviceAt(R, L), Ordered(L)'
               PROVE  DeviceAt(S, L)'
    OBVIOUS
  <2>1. L \in {0} \cup DOMAIN S /\ (L # 0 => Known(S, L)')
    BY <1>3 DEF DeviceAt
  <2>2. \A t \in DOMAIN S : S[t].body \in ExecutedNow' => t <= L
    BY <1>1, <1>3, <1>5 DEF DeviceAt
  <2> QED
    BY <2>1, <2>2 DEF DeviceAt
<1> QED
  BY <1>2, <1>4, <1>6, <1>7

(* A step that neither receives nor makes a request keeps the invariant if *)
(* it keeps the order.                                                     *)
LEMMA QuietOnce ==
    ASSUME NEW R, LinkInv(R), OnceInv(R),
           UNCHANGED <<executed, device_run, d_seen_requests, d_cache, d_order, jobs>>,
           \A L \in {0} \cup DOMAIN R : OneAtATime /\ Ordered(L) => Ordered(L)'
    PROVE  OnceInv(R)'
<1>1. /\ AtMostOnce => AtMostOnce'
      /\ CacheAgrees(R) => CacheAgrees(R)'
      /\ NothingForgotten(R) => NothingForgotten(R)'
      /\ \A L : DeviceAt(R, L) /\ Ordered(L)' => DeviceAt(R, L)'
  BY OnceKept, ExtendsItself
<1>2. ASSUME OneAtATime
      PROVE  \E L : DeviceAt(R, L)'
  <2>1. PICK L : DeviceAt(R, L)
    BY <1>2 DEF OnceInv
  <2>2. Ordered(L)'
    BY <1>2, <2>1 DEF DeviceAt
  <2> QED
    BY <1>1, <2>1, <2>2
<1> QED
  BY <1>1, <1>2 DEF OnceInv

(* A new call has been executed nowhere.                                   *)
LEMMA HostCallOnce ==
    ASSUME RetriesNotMoved, NEW R, LinkInv(R), OnceInv(R),
           NEW k \in Callers, NEW cmd \in RequestCmds,
           NEW timeout \in Timeouts, NEW max_retries \in RetryLimits,
           Host!Send(k, cmd, timeout, max_retries),
           UNCHANGED <<device, app, h2d, d2h, runs>>,
           NEW S, S = Registered(R, h_next_tx_id, cmd, k), Extends(S, R)
    PROVE  OnceInv(S)'
<1>1. UNCHANGED <<executed, device_run, d_seen_requests, d_cache, d_order, jobs>>
  BY DEF device, app, runs
<1>2. \A t \in DOMAIN S \ DOMAIN R : S[t].body \notin ExecutedNow
  <2>1. k \notin Issued
    BY HostSend DEF Host!Send, HS!send, Issued
  <2>2. k \notin ExecutedNow
    BY <2>1 DEF ExecutedNow, LinkInv, DeviceAgrees
  <2> QED
    BY <2>2 DEF Registered
<1>3. /\ AtMostOnce => AtMostOnce'
      /\ CacheAgrees(R) => CacheAgrees(S)'
      /\ NothingForgotten(R) => NothingForgotten(S)'
      /\ \A L : DeviceAt(R, L) /\ Ordered(L)' => DeviceAt(S, L)'
  BY <1>1, <1>2, OnceKept
<1>4. ASSUME OneAtATime
      PROVE  \E L : DeviceAt(S, L)'
  <2>1. PICK L : DeviceAt(R, L)
    BY <1>4 DEF OnceInv
  <2>2. Ordered(L)'
    BY <1>4, <2>1, HostCallOrdered DEF DeviceAt
  <2> QED
    BY <1>3, <2>1, <2>2
<1> QED
  BY <1>3, <1>4 DEF OnceInv

(* So do the steps of the host,                                            *)
LEMMA HostOnce ==
    ASSUME NEW R, LinkInv(R), OnceInv(R), HostReceive \/ HostCycle \/ HostTick
    PROVE  OnceInv(R)'
<1>1. UNCHANGED <<executed, device_run, d_seen_requests, d_cache, d_order, jobs>>
  BY DEF HostReceive, HostCycle, HostSends, HostWorks, HostTick, device, app, runs
<1>2. \A L \in {0} \cup DOMAIN R : OneAtATime /\ Ordered(L) => Ordered(L)'
  BY HostReceiveOrdered, HostSendsOrdered, HostWorksOrdered, HostTickOrdered DEF HostCycle
<1> QED
  BY <1>1, <1>2, QuietOnce

(* and its restart.                                                        *)
LEMMA HostRestartOnce ==
    ASSUME NEW R, LinkInv(R), OnceInv(R), HostRestart
    PROVE  OnceInv(R)'
<1>1. UNCHANGED <<executed, device_run, d_seen_requests, d_cache, d_order, jobs>>
  BY DEF HostRestart, device, app
<1>2. \A L \in {0} \cup DOMAIN R : OneAtATime /\ Ordered(L) => Ordered(L)'
  BY HostRestartOrdered
<1> QED
  BY <1>1, <1>2, QuietOnce

(* Neither a lost frame nor what the device sends is an execution.         *)
LEMMA LineOnce ==
    ASSUME NEW R, LinkInv(R), OnceInv(R),
           Lose \/ DeviceBroadcast \/ DeviceSends \/ DeviceWorks \/ UNCHANGED vars
    PROVE  OnceInv(R)'
<1>1. UNCHANGED <<executed, device_run, d_seen_requests, d_cache, d_order, jobs>>
  <2>1. CASE Lose \/ UNCHANGED vars
    BY <2>1 DEF Lose, vars, device, app, runs
  <2>2. CASE DeviceBroadcast \/ DeviceSends \/ DeviceWorks
    <3>1. UNCHANGED <<app, runs, Device!session_vars>>
      BY <2>2 DEF DeviceBroadcast, DeviceSends, DeviceWorks, Device!broadcast, Device!FrameSent,
         Device!HandlerReturns, Device!RxDrained, Device!FrameKept
    <3> QED
      BY <3>1 DEF app, runs, Device!session_vars, Device!device_vars
  <2> QED
    BY <2>1, <2>2
<1>2. UNCHANGED host /\ (h2d' = h2d \/ (h2d # <<>> /\ h2d' = Tail(h2d)))
  BY DEF Lose, DeviceBroadcast, DeviceSends, DeviceWorks, vars
<1>3. \A L \in {0} \cup DOMAIN R : OneAtATime /\ Ordered(L) => Ordered(L)'
  BY <1>2, LineShrinksOrdered
<1> QED
  BY <1>1, <1>3, QuietOnce

(* A device that starts again has executed nothing in its new life.        *)
LEMMA DeviceRestartOnce ==
    ASSUME IdsNotReused, NEW R, LinkInv(R), OnceInv(R), DeviceRestart
    PROVE  OnceInv(R)'
<1>1. /\ device_run' = device_run + 1 /\ device_run < MaxDeviceRestarts
      /\ UNCHANGED <<executed, h2d, host>>
      /\ d_seen_requests' = EmptyRing
      /\ d_cache' = NoMap /\ d_order' = <<>> /\ jobs' = {}
  BY DEF DeviceRestart
<1>2. ExecutedNow' = {}
  <2>1. device_run \in Nat /\ device_run + 1 \in DeviceRuns
    BY <1>1, LinkAssumption DEF LinkInv, DeviceAgrees, DeviceRuns
  <2>2. \A k \in Callers : ~ executed[<<k, device_run + 1>>] > 0
    BY <2>1 DEF LinkInv, DeviceAgrees
  <2> QED
    BY <1>1, <2>2 DEF ExecutedNow
<1>3. AtMostOnce'
  BY <1>1 DEF OnceInv, AtMostOnce
<1>4. CacheAgrees(R)'
  BY <1>1 DEF CacheAgrees, DS!ListedOnce, DS!ListedIsCached
<1>5. ASSUME OneAtATime
      PROVE  DeviceAt(R, 0)'
  <2>1. PICK L : DeviceAt(R, L)
    BY <1>5 DEF OnceInv
  <2>2. Ordered(0)'
    BY <2>1, DeviceRestartOrdered DEF DeviceAt
  <2> QED
    BY <1>2, <2>2 DEF DeviceAt
<1>6. NothingForgotten(R)'
  <2>1. Cardinality(ExecutedNow') = 0
    BY <1>2, FS_EmptySet
  <2> QED
    BY <1>1, <1>2, <2>1 DEF NothingForgotten, EmptyRing, DS!Ring!Slots, DS!NoKey
<1> QED
  BY <1>3, <1>4, <1>5, <1>6 DEF OnceInv

(* A request that has been executed is known when it comes again: it is    *)
(* the one the device is at, or the ring holds all that were executed.     *)
LEMMA RepetitionIsKnown ==
    ASSUME RingSuffices, NEW R, LinkInv(R), OnceInv(R), UNCHANGED host,
           NEW t \in DOMAIN R, h2d # <<>>, h2d' = Tail(h2d), Head(h2d) = Request(R, t),
           R[t].body \in ExecutedNow
    PROVE  Known(R, t)
<1>1. CASE OneAtATime
  <2>1. PICK L : DeviceAt(R, L)
    BY <1>1 DEF OnceInv
  <2>2. t = Head(h2d).tx
    BY DEF Request
  <2>3. L <= t
    BY <2>1, <2>2, FirstIsNext DEF DeviceAt
  <2>4. t <= L /\ (L # 0 => Known(R, L)) /\ L \in {0} \cup DOMAIN R
    BY <2>1 DEF DeviceAt
  <2>5. t \in Nat /\ t > 0 /\ L \in Nat
    BY <2>4, RegisteredIds
  <2>6. t = L /\ L # 0
    BY <2>3, <2>4, <2>5
  <2> QED
    BY <2>4, <2>6
<1>2. CASE CallsFitRing
  BY <1>2 DEF OnceInv, NothingForgotten
<1> QED
  BY <1>1, <1>2 DEF RingSuffices

(* The ring has a free slot for every call it has not seen.                *)
LEMMA FirstTimeNotForgotten ==
    ASSUME IdsNotReused, CallsFitRing, NEW R, LinkInv(R), NothingForgotten(R),
           NEW t \in DOMAIN R, R[t].body \in Callers \ ExecutedNow,
           ~ Known(R, t), DS!on_request(R[t].cmd, t),
           ExecutedNow' = ExecutedNow \cup {R[t].body}
    PROVE  NothingForgotten(R)'
<1> DEFINE c == Cardinality(ExecutedNow)
           ring == d_seen_requests
<1>1. /\ c \in Nat /\ c < SeenIdRingSize /\ SeenIdRingSize \in Nat
      /\ Cardinality(ExecutedNow') = c + 1
  <2>1. ExecutedNow \subseteq Callers /\ IsFiniteSet(Callers)
    BY DEF ExecutedNow, IdsNotReused
  <2>2. IsFiniteSet(ExecutedNow) /\ c \in Nat /\ Cardinality(Callers) \in Nat
    BY <2>1, FS_Subset, FS_CardinalityType
  <2>3. Cardinality(ExecutedNow') = c + 1
    BY <2>2, FS_AddElement
  <2>4. ExecutedNow' \subseteq Callers
    BY <2>1
  <2>5. c + 1 <= Cardinality(Callers)
    BY <2>1, <2>3, <2>4, FS_Subset
  <2> QED
    BY <2>2, <2>3, <2>5, Constants DEF CallsFitRing, DS!SessionAssumption
<1> HIDE DEF c
<1>2. ring.write_idx = c /\ \A s \in DS!Ring!Slots : c <= s => ring.ids[s] = DS!NoKey
  BY <1>1 DEF NothingForgotten, c
<1>3. /\ Known(R, t)'
      /\ \A s \in DS!Ring!Slots : s # c => ring'.ids[s] = ring.ids[s]
      /\ ring'.write_idx = (c + 1) % SeenIdRingSize
  BY <1>2, RequestRemembered DEF LinkInv, Known
<1>4. DS!Ring!Slots = 0 .. SeenIdRingSize - 1
  BY DEF DS!Ring!Slots
<1>5. ASSUME NEW s \in DOMAIN R, R[s].body \in ExecutedNow'
      PROVE  Known(R, s)'
  <2>1. CASE R[s].body = R[t].body
    <3>1. s = t
      BY <2>1 DEF LinkInv, Registry
    <3> QED
      BY <1>3, <3>1
  <2>2. CASE R[s].body \in ExecutedNow
    <3>1. PICK slot \in DS!Ring!Slots : ring.ids[slot] = <<R[s].cmd, s>>
      BY <2>2 DEF NothingForgotten, Known, DS!IsDuplicate, DS!Ring!Holds, DS!compose_dedup_key
    <3>2. <<R[s].cmd, s>> # DS!NoKey
      BY RegisteredIds DEF DS!NoKey
    <3>3. slot # c
      <4>1. c <= c
        BY <1>1
      <4> QED
        BY <1>2, <3>1, <3>2, <4>1
    <3>4. ring'.ids[slot] = <<R[s].cmd, s>>
      BY <1>3, <3>1, <3>3
    <3> QED
      BY <3>1, <3>4 DEF Known, DS!IsDuplicate, DS!Ring!Holds, DS!compose_dedup_key
  <2> QED
    BY <1>5, <2>1, <2>2
<1>6. ASSUME NEW s \in DS!Ring!Slots, c + 1 <= s
      PROVE  ring'.ids[s] = DS!NoKey
  <2>1. s # c /\ c <= s
    BY <1>1, <1>4, <1>6
  <2> QED
    BY <1>2, <1>3, <2>1
<1>7. c + 1 < SeenIdRingSize => ring'.write_idx = c + 1
  BY <1>1, <1>3, SmallModulo
<1> QED
  BY <1>1, <1>5, <1>6, <1>7 DEF NothingForgotten

(* The device receives a request: one it has executed is in its ring, so   *)
(* it is not executed again.                                               *)
LEMMA DeviceReceiveOnce ==
    ASSUME IdsNotReused, RingSuffices, NEW R, LinkInv(R), OnceInv(R), DeviceReceive
    PROVE  OnceInv(R)'
<1>1. PICK t \in DOMAIN R :
        /\ h2d # <<>> /\ h2d' = Tail(h2d)
        /\ Head(h2d) = Request(R, t)
        /\ UNCHANGED <<host, d2h, runs, d_handlers>>
        /\ DS!on_request(R[t].cmd, t)
        /\ \/ /\ Known(R, t)
              /\ UNCHANGED <<d_phase, jobs, executed>>
           \/ /\ ~ Known(R, t)
              /\ jobs' = jobs \cup {Request(R, t)}
              /\ executed' = [executed EXCEPT ![<<R[t].body, device_run>>] = @ + 1]
  BY DeviceReceives, SameDuplicate DEF Known
<1>2. /\ UNCHANGED <<d_cache, d_order, device_run>>
      /\ Known(R, t)'
      /\ Known(R, t) => UNCHANGED d_seen_requests
  BY <1>1, RequestRemembered DEF LinkInv, Known, runs
<1>3. CASE Known(R, t)
  <2>1. UNCHANGED <<executed, device_run, d_seen_requests, d_cache, d_order, jobs>>
    BY <1>1, <1>2, <1>3
  <2>2. \A L \in {0} \cup DOMAIN R : OneAtATime /\ Ordered(L) => Ordered(L)'
    BY <1>1, LineShrinksOrdered
  <2> QED
    BY <2>1, <2>2, QuietOnce
<1>4. CASE ~ Known(R, t)
  <2> DEFINE k == R[t].body
  <2>1. k \in Callers \ ExecutedNow
    <3>1. k \in Callers
      BY DEF LinkInv, Registry, Issued, HS!SessionInv, HS!TypeOK
    <3> QED
      BY <1>1, <1>4, <3>1, RepetitionIsKnown
  <2>2. /\ executed \in [Callers \X DeviceRuns -> Nat] /\ device_run \in DeviceRuns
        /\ <<k, device_run>> \in Callers \X DeviceRuns
        /\ executed[<<k, device_run>>] = 0
    <3>1. executed \in [Callers \X DeviceRuns -> Nat] /\ device_run \in DeviceRuns
      BY DEF LinkInv, DeviceAgrees
    <3>2. <<k, device_run>> \in Callers \X DeviceRuns /\ executed[<<k, device_run>>] \in Nat
      BY <2>1, <3>1
    <3>3. ~ executed[<<k, device_run>>] > 0
      BY <2>1 DEF ExecutedNow
    <3> QED
      BY <3>1, <3>2, <3>3
  <2>3. /\ executed'[<<k, device_run>>] = 1
        /\ \A j \in Callers, r \in DeviceRuns :
              <<j, r>> # <<k, device_run>> => executed'[<<j, r>>] = executed[<<j, r>>]
    BY <1>1, <1>4, <2>2
  <2>4. ExecutedNow' = ExecutedNow \cup {k}
    BY <1>2, <2>1, <2>2, <2>3 DEF ExecutedNow
  <2>5. AtMostOnce'
    <3>1. ASSUME NEW j \in Callers, NEW r \in DeviceRuns
          PROVE  executed'[<<j, r>>] <= 1
      <4>1. CASE <<j, r>> = <<k, device_run>>
        BY <2>3, <4>1
      <4>2. CASE <<j, r>> # <<k, device_run>>
        BY <2>3, <4>2 DEF OnceInv, AtMostOnce
      <4> QED
        BY <4>1, <4>2
    <3> QED
      BY <3>1 DEF AtMostOnce
  <2>6. CacheAgrees(R)'
    <3>1. DS!ListedOnce' /\ DS!ListedIsCached'
      BY <1>2 DEF OnceInv, CacheAgrees, DS!ListedOnce, DS!ListedIsCached
    <3>2. ASSUME NEW i \in DOMAIN d_order
          PROVE  \E s \in DOMAIN R : /\ d_order[i] = <<R[s].cmd, s>>
                                     /\ R[s].body \in ExecutedNow'
                                     /\ Request(R, s) \notin jobs'
      <4>1. PICK s \in DOMAIN R : /\ d_order[i] = <<R[s].cmd, s>>
                                  /\ R[s].body \in ExecutedNow
                                  /\ Request(R, s) \notin jobs
        BY DEF OnceInv, CacheAgrees
      <4>2. Request(R, s) # Request(R, t)
        BY <2>1, <4>1 DEF Request
      <4> QED
        BY <1>1, <1>4, <2>4, <4>1, <4>2
    <3>3. \A s \in DOMAIN R : Request(R, s)' = Request(R, s)
      BY DEF Request
    <3> QED
      BY <1>2, <3>1, <3>2, <3>3 DEF CacheAgrees
  <2>7. ASSUME OneAtATime
        PROVE  DeviceAt(R, t)'
    <3>1. PICK L : DeviceAt(R, L)
      BY <2>7 DEF OnceInv
    <3>2. t = Head(h2d).tx
      BY <1>1 DEF Request
    <3>3. Ordered(t)' /\ L <= t
      BY <1>1, <3>1, <3>2, FirstIsNext DEF DeviceAt
    <3>4. ASSUME NEW s \in DOMAIN R, R[s].body \in ExecutedNow'
          PROVE  s <= t
      <4>1. CASE R[s].body = k
        <5>1. s = t
          BY <4>1 DEF LinkInv, Registry
        <5> QED
          BY <5>1, RegisteredIds
      <4>2. CASE R[s].body \in ExecutedNow
        <5>1. s <= L /\ L \in {0} \cup DOMAIN R
          BY <3>1, <4>2 DEF DeviceAt
        <5> QED
          BY <3>3, <5>1, RegisteredIds
      <4> QED
        BY <2>4, <3>4, <4>1, <4>2
    <3> QED
      BY <1>2, <3>3, <3>4 DEF DeviceAt
  <2>8. CallsFitRing => NothingForgotten(R)'
    BY <1>1, <1>4, <2>1, <2>4, FirstTimeNotForgotten DEF OnceInv
  <2> QED
    BY <2>5, <2>6, <2>7, <2>8 DEF OnceInv
<1> QED
  BY <1>3, <1>4

(* A job is answered once, so its response is not cached yet.              *)
LEMMA DeviceAnswerOnce ==
    ASSUME NEW R, LinkInv(R), OnceInv(R), DeviceAnswer
    PROVE  OnceInv(R)'
<1>1. PICK p \in jobs : /\ Device!send_response_and_cache(p.cmd, p.tx, p.body)
                        /\ jobs' = jobs \ {p}
  BY DEF DeviceAnswer
<1>2. UNCHANGED <<host, executed, h2d, device_run>>
  BY DEF DeviceAnswer, runs
<1>3. PICK t \in DOMAIN R : p = Request(R, t)
  BY DEF LinkInv, DeviceAgrees, RequestFrames
<1>4. /\ p.cmd = R[t].cmd /\ p.tx = t /\ p.body = R[t].body
      /\ R[t].cmd \in RequestCmds /\ t \in DS!TxIds
  <2>1. t \in 1 .. h_next_tx_id - 1 /\ R[t].cmd \in RequestCmds
    BY DEF LinkInv, Registry
  <2>2. h_next_tx_id \in HS!TxIds
    BY DEF LinkInv, HS!SessionInv, HS!TypeOK
  <2> QED
    BY <1>3, <2>1, <2>2, Constants DEF Request, HS!TxIds, DS!TxIds, HS!SessionAssumption
<1>5. /\ DS!cache_response(R[t].cmd, t, ResponseOf[R[t].cmd], R[t].body)
      /\ UNCHANGED d_seen_requests
  <2>1. DS!cache_response(R[t].cmd, t, ResponseOf[R[t].cmd], R[t].body)
    BY <1>1, <1>4, DeviceCacheResponse DEF Device!send_response_and_cache
  <2> QED
    BY <2>1 DEF DS!cache_response
<1>6. R[t].body \in ExecutedNow /\ ExecutedNow' = ExecutedNow
  BY <1>2, <1>4 DEF LinkInv, DeviceAgrees, Registry, Issued, HS!SessionInv, HS!TypeOK, ExecutedNow
<1>7. \A i \in DOMAIN d_order : d_order[i] # <<R[t].cmd, t>>
  BY <1>3 DEF OnceInv, CacheAgrees
<1>8. /\ DS!ListedOnce' /\ DS!ListedIsCached'
      /\ \A i \in DOMAIN d_order' :
            d_order'[i] = <<R[t].cmd, t>> \/ \E j \in DOMAIN d_order : d_order'[i] = d_order[j]
  BY <1>4, <1>5, <1>7, DS!CacheResponseEffect, Constants DEF LinkInv, OnceInv, CacheAgrees
<1>9. CacheAgrees(R)'
  <2>1. \A s \in DOMAIN R : Request(R, s)' = Request(R, s)
    BY DEF Request
  <2>2. ASSUME NEW i \in DOMAIN d_order'
        PROVE  \E s \in DOMAIN R : /\ d_order'[i] = <<R[s].cmd, s>>
                                   /\ R[s].body \in ExecutedNow
                                   /\ Request(R, s) \notin jobs'
    <3>1. CASE d_order'[i] = <<R[t].cmd, t>>
      BY <1>1, <1>3, <1>6, <3>1
    <3>2. CASE \E j \in DOMAIN d_order : d_order'[i] = d_order[j]
      BY <1>1, <3>2 DEF OnceInv, CacheAgrees
    <3> QED
      BY <1>8, <3>1, <3>2
  <2> QED
    BY <1>6, <1>8, <2>1, <2>2 DEF CacheAgrees
<1>10. AtMostOnce'
  BY <1>2 DEF OnceInv, AtMostOnce
<1>11. \A s \in DOMAIN R : Known(R, s)' <=> Known(R, s)
  BY <1>5 DEF Known, DS!IsDuplicate, DS!compose_dedup_key
<1>12. \A L : DeviceAt(R, L) => DeviceAt(R, L)'
  <2> SUFFICES ASSUME NEW L, DeviceAt(R, L)
               PROVE  DeviceAt(R, L)'
    OBVIOUS
  <2>1. Ordered(L)'
    BY <1>2, LineShrinksOrdered DEF DeviceAt
  <2> QED
    BY <1>6, <1>11, <2>1 DEF DeviceAt
<1>13. NothingForgotten(R) => NothingForgotten(R)'
  BY <1>5, <1>6, <1>11 DEF NothingForgotten
<1> QED
  BY <1>9, <1>10, <1>12, <1>13 DEF OnceInv

(* Nothing has been executed at the start.                                 *)
LEMMA InitOnce ==
    ASSUME Init, NEW R, R = [t \in {} |-> {}]
    PROVE  OnceInv(R)
<1>1. /\ h2d = <<>> /\ h_tx_queue = <<>> /\ h_outbound = <<>> /\ h_retries = <<>>
      /\ h_pending = NoMap /\ device_run = 0 /\ jobs = {}
      /\ d_seen_requests = EmptyRing /\ d_order = <<>> /\ DOMAIN R = {}
      /\ executed = [kr \in Callers \X DeviceRuns |-> 0]
  BY DEF Init, HostStart, DeviceStart
<1>2. 0 \in DeviceRuns
  BY LinkAssumption DEF DeviceRuns
<1>3. ExecutedNow = {}
  BY <1>1, <1>2 DEF ExecutedNow
<1>4. AtMostOnce
  <2>1. \A k \in Callers, r \in DeviceRuns : executed[<<k, r>>] = 0
    BY <1>1
  <2>2. 0 <= 1
    OBVIOUS
  <2> QED
    BY <2>1, <2>2 DEF AtMostOnce
<1>5. CacheAgrees(R)
  BY <1>1 DEF CacheAgrees, DS!ListedOnce, DS!ListedIsCached
<1>6. Ordered(0)
  <2>1. HS!InWindow = {} /\ Waiting = {} /\ Ids(<<>>) = {} /\ InOrder(<<>>)
    BY <1>1 DEF HS!InWindow, Waiting, NoMap, Ids, InOrder
  <2> QED
    BY <1>1, <2>1 DEF Ordered, NotAfter, Before
<1>7. DeviceAt(R, 0)
  BY <1>1, <1>6 DEF DeviceAt
<1>8. NothingForgotten(R)
  <2>1. Cardinality(ExecutedNow) = 0
    BY <1>3, FS_EmptySet
  <2> QED
    BY <1>1, <2>1 DEF NothingForgotten, EmptyRing, DS!Ring!Slots, DS!NoKey
<1> QED
  BY <1>4, <1>5, <1>7, <1>8 DEF OnceInv

-----------------------------------------------------------------------------
(***************************************************************************)
(* The invariant, and what it says.                                        *)
(***************************************************************************)
OnceInvariant == \E R : LinkInv(R) /\ OnceInv(R)

(* Every step keeps the invariant.                                         *)
LEMMA NextOnce ==
    ASSUME IdsNotReused, RetriesNotMoved, RingSuffices,
           NEW R, LinkInv(R), OnceInv(R), [Next]_vars
    PROVE  \E S : LinkInv(S)' /\ OnceInv(S)'
<1>1. CASE HostCall
  <2>1. PICK k \in Callers, cmd \in RequestCmds, t \in Timeouts, r \in RetryLimits :
           Host!Send(k, cmd, t, r)
    BY <1>1 DEF HostCall
  <2>2. /\ h_phase = "errors" => CallbacksSend
        /\ UNCHANGED <<device, app, h2d, d2h, runs>>
    BY <1>1 DEF HostCall
  <2> QED
    BY <2>1, <2>2, HostCallStep, HostCallOnce
<1>2. CASE HostReceive \/ HostCycle \/ HostTick
  BY <1>2, HostOnce, HostReceiveStep, HostSendsStep, HostWorksStep, HostTickStep DEF HostCycle
<1>3. CASE DeviceReceive
  BY <1>3, DeviceReceiveStep, DeviceReceiveOnce
<1>4. CASE DeviceAnswer
  BY <1>4, DeviceAnswerStep, DeviceAnswerOnce
<1>5. CASE Lose \/ DeviceBroadcast \/ DeviceSends \/ DeviceWorks
  BY <1>5, LineOnce, LoseStep, DeviceBroadcastStep, DeviceSendsStep, DeviceWorksStep
<1>6. CASE HostRestart
  BY <1>6, HostRestartStep, HostRestartOnce
<1>7. CASE DeviceRestart
  BY <1>7, DeviceRestartStep, DeviceRestartOnce
<1>8. CASE UNCHANGED vars
  BY <1>8, LineOnce, StutterStep
<1> QED
  BY <1>1, <1>2, <1>3, <1>4, <1>5, <1>6, <1>7, <1>8 DEF Next, DeviceStep

(* Requests reach the device in order, or it has forgotten none; in either *)
(* case what it has executed it knows.                                     *)
THEOREM OnceInvariantHolds ==
    ASSUME IdsNotReused, RetriesNotMoved, RingSuffices
    PROVE  Spec => []OnceInvariant
<1>1. Init => OnceInvariant
  BY InitStep, InitOnce DEF OnceInvariant
<1>2. OnceInvariant /\ [Next]_vars => OnceInvariant'
  BY NextOnce DEF OnceInvariant
<1> QED
  BY <1>1, <1>2, PTL DEF Spec

(* A request is executed at most once in one life of the device, however   *)
(* often it is sent, lost, answered late or asked for again by a host that *)
(* has restarted (ProtocolStack.hpp:476-507, IdRingBuffer.hpp:19-31).      *)
THEOREM ExecutedAtMostOnce ==
    ASSUME IdsNotReused, RetriesNotMoved, RingSuffices
    PROVE  Spec => []AtMostOnce
<1>1. OnceInvariant => AtMostOnce
  BY DEF OnceInvariant, OnceInv
<1> QED
  BY <1>1, OnceInvariantHolds, PTL

(* A response stays cached for as long as it is listed: no other entry of  *)
(* m_completed_order evicts it (ReliableSession.hpp:182-184, 337-345).     *)
THEOREM ResponsesStayCached ==
    ASSUME IdsNotReused, RetriesNotMoved, RingSuffices
    PROVE  Spec => []CacheMatchesOrder
<1>1. OnceInvariant => CacheMatchesOrder
  BY DEF OnceInvariant, OnceInv, CacheAgrees, DS!ListedIsCached, CacheMatchesOrder
<1> QED
  BY <1>1, OnceInvariantHolds, PTL

-----------------------------------------------------------------------------
(***************************************************************************)
(* What the ring remembers has been executed, whatever it has forgotten.   *)
(* So no new call is taken for the repetition of an older one.             *)
(***************************************************************************)
RingAgrees(R) ==
    \A s \in DS!Ring!Slots :
       \/ d_seen_requests.ids[s] = DS!NoKey
       \/ \E t \in DOMAIN R : /\ d_seen_requests.ids[s] = <<R[t].cmd, t>>
                              /\ R[t].body \in ExecutedNow

(* Nothing is unlearnt by a step that leaves the ring alone.               *)
LEMMA RingKept ==
    ASSUME NEW R, NEW S, Extends(S, R), RingAgrees(R),
           UNCHANGED <<executed, device_run, d_seen_requests>>
    PROVE  RingAgrees(S)'
<1>1. ExecutedNow' = ExecutedNow
  BY DEF ExecutedNow
<1>2. DS!Ring!Slots' = DS!Ring!Slots /\ DS!NoKey' = DS!NoKey
  BY DEF DS!Ring!Slots, DS!NoKey
<1> QED
  BY <1>1, <1>2 DEF RingAgrees, Extends

(* A request enters the ring when it is executed.                          *)
LEMMA DeviceReceiveRing ==
    ASSUME NEW R, LinkInv(R), RingAgrees(R), DeviceReceive
    PROVE  RingAgrees(R)'
<1>1. PICK t \in DOMAIN R :
        /\ UNCHANGED runs
        /\ DS!on_request(R[t].cmd, t)
        /\ \/ /\ Known(R, t)
              /\ UNCHANGED executed
           \/ /\ ~ Known(R, t)
              /\ executed' = [executed EXCEPT ![<<R[t].body, device_run>>] = @ + 1]
  BY DeviceReceives, SameDuplicate DEF Known
<1> DEFINE key == <<R[t].cmd, t>>
           k == R[t].body
           w == d_seen_requests.write_idx
<1>2. /\ d_seen_requests' = DS!Ring!Inserted(d_seen_requests, key)
      /\ device_run' = device_run
      /\ DS!Ring!Slots' = DS!Ring!Slots /\ DS!NoKey' = DS!NoKey
  BY <1>1 DEF DS!on_request, DS!compose_dedup_key, runs, DS!Ring!Slots, DS!NoKey
<1>3. Known(R, t) <=> DS!Ring!Holds(d_seen_requests, key)
  BY DEF Known, DS!IsDuplicate, DS!compose_dedup_key
<1>4. CASE Known(R, t)
  <2>1. UNCHANGED <<executed, device_run, d_seen_requests>>
    BY <1>1, <1>2, <1>3, <1>4 DEF DS!Ring!Inserted
  <2> QED
    BY <2>1, RingKept, ExtendsItself
<1>5. CASE ~ Known(R, t)
  <2>1. /\ executed \in [Callers \X DeviceRuns -> Nat] /\ device_run \in DeviceRuns
        /\ k \in Callers
    BY DEF LinkInv, DeviceAgrees, Registry, Issued, HS!SessionInv, HS!TypeOK
  <2>2. executed' = [executed EXCEPT ![<<k, device_run>>] = @ + 1]
    BY <1>1, <1>5
  <2>3. ASSUME NEW j \in Callers, j = k \/ j \in ExecutedNow
        PROVE  j \in ExecutedNow'
    <3>1. executed[<<j, device_run>>] \in Nat /\ <<j, device_run>> \in Callers \X DeviceRuns
      BY <2>1
    <3>2. CASE j = k
      <4>1. executed'[<<j, device_run>>] = executed[<<j, device_run>>] + 1
        BY <2>1, <2>2, <3>1, <3>2
      <4> QED
        BY <1>2, <3>1, <4>1 DEF ExecutedNow
    <3>3. CASE j # k
      <4>1. executed'[<<j, device_run>>] = executed[<<j, device_run>>]
        BY <2>1, <2>2, <3>1, <3>3
      <4> QED
        BY <1>2, <2>3, <3>3, <4>1 DEF ExecutedNow
    <3> QED
      BY <3>2, <3>3
  <2>4. /\ d_seen_requests'.ids = [d_seen_requests.ids EXCEPT ![w] = key]
        /\ DOMAIN d_seen_requests.ids = DS!Ring!Slots
    BY <1>2, <1>3, <1>5 DEF DS!Ring!Inserted, LinkInv, DS!SessionInv, DS!TypeOK, DS!Ring!Rings
  <2>5. ASSUME NEW s \in DS!Ring!Slots
        PROVE  \/ d_seen_requests'.ids[s] = DS!NoKey
               \/ \E u \in DOMAIN R : /\ d_seen_requests'.ids[s] = <<R[u].cmd, u>>
                                      /\ R[u].body \in ExecutedNow'
    <3>1. CASE s = w
      BY <2>1, <2>3, <2>4, <3>1
    <3>2. CASE s # w
      <4>1. d_seen_requests'.ids[s] = d_seen_requests.ids[s]
        BY <2>4, <3>2
      <4>2. \A u \in DOMAIN R : R[u].body \in ExecutedNow => R[u].body \in ExecutedNow'
        BY <2>3 DEF ExecutedNow
      <4> QED
        BY <4>1, <4>2 DEF RingAgrees
    <3> QED
      BY <3>1, <3>2
  <2> QED
    BY <1>2, <2>5 DEF RingAgrees
<1> QED
  BY <1>4, <1>5

RingInvariant == \E R : LinkInv(R) /\ RingAgrees(R)

(* Every step keeps the ring in agreement with what was executed.          *)
LEMMA NextRing ==
    ASSUME IdsNotReused, RetriesNotMoved, NEW R, LinkInv(R), RingAgrees(R), [Next]_vars
    PROVE  \E S : LinkInv(S)' /\ RingAgrees(S)'
<1>1. CASE HostCall
  <2>1. PICK k \in Callers, cmd \in RequestCmds, t \in Timeouts, r \in RetryLimits :
           Host!Send(k, cmd, t, r)
    BY <1>1 DEF HostCall
  <2>2. /\ h_phase = "errors" => CallbacksSend
        /\ UNCHANGED <<device, app, h2d, d2h, runs>>
    BY <1>1 DEF HostCall
  <2>3. UNCHANGED <<executed, device_run, d_seen_requests>>
    BY <2>2 DEF device, app, runs
  <2>4. PICK S : LinkInv(S)' /\ Extends(S, R)
    BY <2>1, <2>2, HostCallStep
  <2>5. RingAgrees(S)'
    BY <2>3, <2>4, RingKept
  <2> QED
    BY <2>4, <2>5
<1>2. CASE DeviceReceive
  BY <1>2, DeviceReceiveStep, DeviceReceiveRing
<1>3. CASE DeviceRestart
  <2>1. d_seen_requests' = EmptyRing /\ DS!Ring!Slots' = DS!Ring!Slots /\ DS!NoKey' = DS!NoKey
    BY <1>3 DEF DeviceRestart, DS!Ring!Slots, DS!NoKey
  <2>2. RingAgrees(R)'
    BY <2>1 DEF RingAgrees, EmptyRing, DS!Ring!Slots, DS!NoKey
  <2> QED
    BY <1>3, <2>2, DeviceRestartStep
<1>4. CASE \/ HostReceive \/ HostCycle \/ HostTick \/ DeviceAnswer \/ DeviceBroadcast
           \/ DeviceSends \/ DeviceWorks \/ Lose \/ HostRestart \/ UNCHANGED vars
  <2>1. UNCHANGED <<executed, device_run, d_seen_requests>>
    <3>1. CASE HostReceive \/ HostCycle \/ HostTick \/ Lose \/ HostRestart \/ UNCHANGED vars
      BY <3>1 DEF HostReceive, HostCycle, HostSends, HostWorks, HostTick, Lose, HostRestart,
         vars, device, app, runs
    <3>2. CASE DeviceBroadcast \/ DeviceSends \/ DeviceWorks
      <4>1. UNCHANGED <<app, runs, Device!session_vars>>
        BY <3>2 DEF DeviceBroadcast, DeviceSends, DeviceWorks, Device!broadcast,
           Device!FrameSent, Device!HandlerReturns, Device!RxDrained, Device!FrameKept
      <4> QED
        BY <4>1 DEF app, runs, Device!session_vars, Device!device_vars
    <3>3. CASE DeviceAnswer
      BY <3>3 DEF DeviceAnswer, Device!send_response_and_cache, Device!cache_response, runs
    <3> QED
      BY <1>4, <3>1, <3>2, <3>3
  <2>2. RingAgrees(R)'
    BY <2>1, RingKept, ExtendsItself
  <2> QED
    BY <1>4, <2>2, HostReceiveStep, HostSendsStep, HostWorksStep, HostTickStep,
       DeviceAnswerStep, DeviceBroadcastStep, DeviceSendsStep, DeviceWorksStep,
       LoseStep, HostRestartStep, StutterStep DEF HostCycle
<1> QED
  BY <1>1, <1>2, <1>3, <1>4 DEF Next, DeviceStep

(* The device takes a request for a duplicate only if it has executed that *)
(* call in its present life, whatever either end has been through, as long *)
(* as a restarted host is given ids of its own (ReliableSession.hpp:       *)
(* 141-160).                                                               *)
THEOREM RepeatsOnly ==
    ASSUME IdsNotReused, RetriesNotMoved
    PROVE  Spec => DuplicatesAreRepeats
<1> DEFINE Repeats ==
             DeviceReceive
               => LET p == Head(h2d)
                  IN p.cmd \in RequestCmds /\ Device!IsDuplicate(p.cmd, p.tx)
                       => executed[p.body, device_run] > 0
<1>1. Init => RingInvariant
  <2> SUFFICES ASSUME Init PROVE RingInvariant
    OBVIOUS
  <2> DEFINE R == [t \in {} |-> {}]
  <2>1. LinkInv(R)
    BY InitStep
  <2>2. d_seen_requests = EmptyRing
    BY DEF Init, DeviceStart
  <2>3. RingAgrees(R)
    BY <2>2 DEF RingAgrees, EmptyRing, DS!Ring!Slots, DS!NoKey
  <2> HIDE DEF R
  <2> QED
    BY <2>1, <2>3 DEF RingInvariant
<1>2. RingInvariant /\ [Next]_vars => RingInvariant'
  BY NextRing DEF RingInvariant
<1>3. RingInvariant => Repeats
  <2> SUFFICES ASSUME NEW R, LinkInv(R), RingAgrees(R), DeviceReceive,
                      Device!IsDuplicate(Head(h2d).cmd, Head(h2d).tx)
               PROVE  executed[<<Head(h2d).body, device_run>>] > 0
    BY DEF RingInvariant
  <2>1. PICK t \in DOMAIN R : Head(h2d) = Request(R, t)
    BY DeviceReceives
  <2>2. /\ Head(h2d).cmd = R[t].cmd /\ Head(h2d).tx = t /\ Head(h2d).body = R[t].body
        /\ t \in 1 .. h_next_tx_id - 1
    BY <2>1 DEF Request, LinkInv, Registry
  <2>3. PICK s \in DS!Ring!Slots : d_seen_requests.ids[s] = <<R[t].cmd, t>>
    BY <2>2, SameDuplicate DEF DS!IsDuplicate, DS!Ring!Holds, DS!compose_dedup_key
  <2>4. d_seen_requests.ids[s] # DS!NoKey
    BY <2>2, <2>3 DEF DS!NoKey
  <2>5. PICK u \in DOMAIN R :
           d_seen_requests.ids[s] = <<R[u].cmd, u>> /\ R[u].body \in ExecutedNow
    BY <2>3, <2>4 DEF RingAgrees
  <2>6. u = t
    <3>1. <<R[u].cmd, u>> = <<R[t].cmd, t>>
      BY <2>3, <2>5
    <3> QED
      BY ONLY <3>1
  <2> QED
    BY <2>2, <2>5, <2>6 DEF ExecutedNow
<1>4. RingInvariant => [Repeats]_vars
  BY <1>3
<1> QED
  BY <1>1, <1>2, <1>4, PTL DEF Spec, DuplicatesAreRepeats

-----------------------------------------------------------------------------
(***************************************************************************)
(* The abstract call.                                                      *)
(***************************************************************************)
DeviceStays == MaxDeviceRestarts = 0

Outcomes == [k \in Callers |-> Outcome(k)]
Executions == [k \in Callers |-> executed[<<k, 0>>]]

(* The names of the outcomes are as different as the answers behind them.  *)
LEMMA OutcomeIs ==
    ASSUME CallsAnswered, NEW k \in Callers
    PROVE  /\ k \notin Issued => Outcome(k) = "idle"
           /\ k \in Issued /\ h_answers[k] = <<>> => Outcome(k) = "issued"
           /\ k \in Issued /\ h_answers[k] = <<Timeout>> => Outcome(k) = "timeout"
           /\ k \in Issued /\ h_answers[k] = <<k>> => Outcome(k) = "success"
<1>1. k # Timeout
  BY Constants DEF HS!SessionAssumption
<1>2. <<k>> # <<Timeout>> /\ <<k>> # <<>> /\ <<Timeout>> # <<>>
  BY <1>1
<1> QED
  BY <1>2 DEF Outcome

(* The outcome of a call whose answers a step leaves alone.                *)
LEMMA OutcomeKept ==
    ASSUME NEW k, k \in Issued' <=> k \in Issued,
           k \in Issued => h_answers'[k] = h_answers[k]
    PROVE  Outcome(k)' = Outcome(k)
BY DEF Outcome

(* The host makes a call: Issue.                                           *)
LEMMA CallStarts ==
    ASSUME NEW R, LinkInv(R), CallsAnswered', HostCall
    PROVE  Call!Next
<1>1. PICK k \in Callers, cmd \in RequestCmds, t \in Timeouts, r \in RetryLimits :
         Host!Send(k, cmd, t, r)
  BY DEF HostCall
<1>2. UNCHANGED executed
  BY DEF HostCall, app
<1>3. k \notin Issued /\ h_answers' = HS!Put(h_answers, k, <<>>)
  BY <1>1, HostSend DEF Host!Send, HS!send, HS!register_pending, Issued
<1>4. /\ Issued' = Issued \cup {k} /\ h_answers'[k] = <<>>
      /\ \A j \in Issued : h_answers'[j] = h_answers[j]
  BY <1>3 DEF HS!Put, Issued
<1>5. Outcome(k) = "idle" /\ Outcome(k)' = "issued"
  <2>1. Outcome(k) = "idle"
    BY <1>3 DEF Outcome
  <2>2. Outcome(k)' = "issued"
    BY <1>4 DEF Outcome
  <2> QED
    BY <2>1, <2>2
<1>6. \A j \in Callers \ {k} : Outcome(j)' = Outcome(j)
  BY <1>4, OutcomeKept
<1>7. Outcomes' = [Outcomes EXCEPT ![k] = "issued"]
  BY <1>5, <1>6 DEF Outcomes
<1> QED
  BY <1>2, <1>5, <1>7 DEF Call!Next, Call!Issue, Outcomes

(* The host receives a response: Succeed, or nothing the application sees. *)
LEMMA CallAnswered ==
    ASSUME DeviceStays, NEW R, LinkInv(R), OnceInv(R), CallsAnswered', HostReceive
    PROVE  Call!Next \/ UNCHANGED Call!vars
<1>1. /\ UNCHANGED executed /\ d2h # <<>> /\ Host!handle_packet_internal(Head(d2h))
  BY DEF HostReceive, app
<1>2. \/ UNCHANGED h_answers
      \/ \E t \in DOMAIN R : /\ Executed(R[t].body)
                             /\ HS!on_response(ResponseOf[R[t].cmd], t, R[t].body)
  BY <1>1, HostReceives DEF LinkInv, HostSessionUnchanged, HS!on_ack
<1>3. CASE UNCHANGED h_answers
  BY <1>1, <1>3 DEF Call!vars, Outcome, Issued
<1>4. ASSUME NEW t \in DOMAIN R, Executed(R[t].body), ~ UNCHANGED h_answers,
             HS!on_response(ResponseOf[R[t].cmd], t, R[t].body)
      PROVE  Call!Next
  <2> DEFINE k == R[t].body
  <2>1. k \in Issued /\ k \in Callers
    BY DEF LinkInv, Registry, HS!SessionInv, HS!TypeOK, Issued
  <2>2. /\ t \in DOMAIN h_pending
        /\ h_pending[t].caller = k
        /\ h_answers' = [h_answers EXCEPT ![k] = <<k>>]
    <3>1. HS!SessionInv
      BY DEF LinkInv
    <3>2. LET entry == h_pending[t]
          IN /\ t \in DOMAIN h_pending
             /\ entry.response_cmd = ResponseOf[R[t].cmd]
                  => h_answers' = [h_answers EXCEPT ![entry.caller] = <<k>>]
      BY <1>4, <3>1, HS!ResponseEffect, Constants
    <3>3. h_pending[t].response_cmd = ResponseOf[R[t].cmd] /\ h_pending[t].caller = k
      BY <3>2 DEF LinkInv, HostAgrees
    <3> QED
      BY <3>2, <3>3
  <2>3. h_answers[k] = <<>>
    BY <2>2 DEF LinkInv, HS!SessionInv, HS!OneCallback
  <2>4. /\ Issued' = Issued /\ h_answers'[k] = <<k>>
        /\ \A j \in Issued : j # k => h_answers'[j] = h_answers[j]
    BY <2>1, <2>2 DEF Issued
  <2>5. executed[<<k, 0>>] = 1
    <3>1. DeviceRuns = {0}
      BY DEF DeviceRuns, DeviceStays
    <3>2. executed[<<k, 0>>] > 0 /\ executed[<<k, 0>>] \in Nat
      BY <1>4, <2>1, <3>1 DEF Executed, LinkInv, DeviceAgrees
    <3>3. executed[<<k, 0>>] <= 1
      BY <2>1, <3>1 DEF OnceInv, AtMostOnce
    <3> HIDE DEF k
    <3> QED
      BY <3>2, <3>3
  <2>6. Outcome(k) = "issued" /\ Outcome(k)' = "success"
    <3>1. Outcome(k) = "issued"
      BY <2>1, <2>3, OutcomeIs DEF LinkInv
    <3>2. <<k>> # <<>> /\ <<k>> # <<Timeout>>
      BY <2>1, Constants DEF HS!SessionAssumption
    <3>3. Outcome(k)' = "success"
      BY <2>1, <2>4, <3>2 DEF Outcome
    <3> QED
      BY <3>1, <3>3
  <2>7. \A j \in Callers \ {k} : Outcome(j)' = Outcome(j)
    BY <2>4, OutcomeKept
  <2>8. Outcomes' = [Outcomes EXCEPT ![k] = "success"]
    BY <2>6, <2>7 DEF Outcomes
  <2> QED
    BY <1>1, <2>1, <2>5, <2>6, <2>8 DEF Call!Next, Call!Succeed, Outcomes
<1> QED
  BY <1>2, <1>3, <1>4

(* The host polls: GiveUp, of all the calls that expired at once.          *)
LEMMA CallTimesOut ==
    ASSUME NEW R, LinkInv(R), CallsAnswered', Host!PollSession, UNCHANGED executed
    PROVE  Call!Next
<1> DEFINE K == {k \in Issued : h_answers'[k] # h_answers[k]}
<1>1. /\ Issued' = Issued
      /\ \A k \in Issued : \/ h_answers'[k] = h_answers[k]
                           \/ h_answers[k] = <<>> /\ h_answers'[k] = <<Timeout>>
  BY HostPoll, HS!PollEffect, Constants DEF Host!PollSession, LinkInv, Issued
<1>2. Issued \subseteq Callers
  BY DEF LinkInv, HS!SessionInv, HS!TypeOK, Issued
<1>3. ASSUME NEW k \in K
      PROVE  Outcome(k) = "issued" /\ Outcome(k)' = "timeout"
  <2>1. k \in Callers /\ k \in Issued /\ h_answers[k] = <<>> /\ h_answers'[k] = <<Timeout>>
    BY <1>1, <1>2
  <2>2. Outcome(k) = "issued"
    BY <2>1 DEF Outcome
  <2>3. <<Timeout>> # <<>> /\ <<Timeout>> # <<k>>
    BY <2>1, Constants DEF HS!SessionAssumption
  <2>4. k \in Issued' /\ h_answers'[k] = <<Timeout>>
    BY <1>1, <2>1
  <2>5. Outcome(k)' = "timeout"
    BY <2>3, <2>4 DEF Outcome
  <2> QED
    BY <2>2, <2>5
<1>4. \A k \in Callers \ K : Outcome(k)' = Outcome(k)
  BY <1>1, OutcomeKept
<1>5. K \in SUBSET Callers
  BY <1>2
<1> HIDE DEF K
<1>6. Outcomes' = [k \in Callers |-> IF k \in K THEN "timeout" ELSE Outcomes[k]]
  BY <1>3, <1>4 DEF Outcomes
<1>7. \A k \in K : Outcomes[k] = "issued"
  BY <1>3, <1>5 DEF Outcomes
<1> QED
  BY <1>5, <1>6, <1>7 DEF Call!Next, Call!GiveUp, Outcomes

(* The device receives a request: Execute, or nothing the application      *)
(* sees.                                                                   *)
LEMMA CallExecuted ==
    ASSUME DeviceStays, RingSuffices, NEW R, LinkInv(R), OnceInv(R), DeviceReceive
    PROVE  Call!Next \/ UNCHANGED Call!vars
<1>1. PICK t \in DOMAIN R :
        /\ h2d # <<>> /\ h2d' = Tail(h2d)
        /\ Head(h2d) = Request(R, t)
        /\ UNCHANGED host
        /\ \/ UNCHANGED executed
           \/ /\ ~ Known(R, t)
              /\ executed' = [executed EXCEPT ![<<R[t].body, device_run>>] = @ + 1]
  BY DeviceReceives, SameDuplicate DEF Known
<1>2. Outcomes' = Outcomes
  BY <1>1 DEF Outcomes, Outcome, Issued, host
<1>3. CASE UNCHANGED executed
  BY <1>2, <1>3 DEF Call!vars, Outcomes
<1>4. CASE /\ ~ Known(R, t)
           /\ executed' = [executed EXCEPT ![<<R[t].body, device_run>>] = @ + 1]
  <2> DEFINE k == R[t].body
  <2>1. k \in Issued /\ k \in Callers
    BY DEF LinkInv, Registry, HS!SessionInv, HS!TypeOK, Issued
  <2>2. DeviceRuns = {0} /\ device_run = 0 /\ executed \in [Callers \X DeviceRuns -> Nat]
    BY DEF LinkInv, DeviceAgrees, DeviceRuns, DeviceStays
  <2>3. k \notin ExecutedNow
    BY <1>1, <1>4, RepetitionIsKnown
  <2>4. executed[<<k, 0>>] = 0
    <3>1. executed[<<k, 0>>] \in Nat /\ ~ executed[<<k, 0>>] > 0
      BY <2>1, <2>2, <2>3 DEF ExecutedNow
    <3> QED
      BY <3>1
  <2>5. /\ executed'[<<k, 0>>] = 1
        /\ \A j \in Callers : j # k => executed'[<<j, 0>>] = executed[<<j, 0>>]
    BY <1>4, <2>1, <2>2, <2>4
  <2>6. Executions' = [Executions EXCEPT ![k] = 1]
    BY <2>1, <2>5 DEF Executions
  <2>7. Outcome(k) # "idle"
    <3>1. h_answers[k] \in {<<>>, <<Timeout>>, <<k>>}
      BY <2>1 DEF LinkInv, CallsAnswered
    <3> QED
      BY <2>1, <3>1, OutcomeIs DEF LinkInv
  <2> QED
    BY <1>2, <2>1, <2>4, <2>6, <2>7 DEF Call!Next, Call!Execute, Outcomes, Executions
<1> QED
  BY <1>1, <1>3, <1>4

(* No other step is seen from outside.                                     *)
LEMMA CallUnseen ==
    ASSUME NEW R, LinkInv(R),
           \/ HostSends \/ (HostWorks /\ ~ Host!PollSession) \/ HostTick
           \/ DeviceAnswer \/ DeviceBroadcast \/ DeviceSends \/ DeviceWorks
           \/ Lose \/ HostRestart \/ DeviceRestart \/ UNCHANGED vars
    PROVE  UNCHANGED Call!vars
<1>1. UNCHANGED executed
  BY DEF HostSends, HostWorks, HostTick, DeviceAnswer, DeviceBroadcast, DeviceSends,
         DeviceWorks, Lose, HostRestart, DeviceRestart, vars, app
<1>2. UNCHANGED h_answers
  <2>1. CASE HostSends \/ (HostWorks /\ ~ Host!PollSession) \/ HostTick
    BY <2>1 DEF HostSends, HostWorks, HostTick, Host!FrameSent, Host!ClockTick, Host!Tick,
         Host!RxDrained, Host!handle_session_outbound, Host!PumpOutbound, Host!TakeOutbound,
         Host!OutboundDone, Host!NoOutbound, Host!ErrorCallbacksReturn, Host!RequeueRetry,
         Host!FrameKept, Host!session_vars, Host!host_vars
  <2>2. CASE \/ DeviceAnswer \/ DeviceBroadcast \/ DeviceSends \/ DeviceWorks
             \/ Lose \/ DeviceRestart \/ UNCHANGED vars
    BY <2>2 DEF DeviceAnswer, DeviceBroadcast, DeviceSends, DeviceWorks, Lose, DeviceRestart,
                vars, host
  <2>3. CASE HostRestart
    BY <2>3 DEF HostRestart
  <2> QED
    BY <2>1, <2>2, <2>3
<1> QED
  BY <1>1, <1>2 DEF Call!vars, Outcome, Issued

(* The application cannot tell the two endpoints, with their timeouts,     *)
(* retries and filters, from a call that is executed at most once and has  *)
(* one outcome, as long as the device does not restart.                    *)
THEOREM LinkImplementsCall ==
    ASSUME IdsNotReused, RetriesNotMoved, RingSuffices, DeviceStays
    PROVE  Spec => ImplementsCall
<1>1. Init => Call!Init
  <2> SUFFICES ASSUME Init PROVE Call!Init
    OBVIOUS
  <2>1. Issued = {}
    BY DEF Init, Issued, NoMap
  <2>2. \A k \in Callers : executed[<<k, 0>>] = 0
    BY LinkAssumption DEF Init, DeviceRuns
  <2>3. \A k \in Callers : Outcome(k) = "idle"
    BY <2>1 DEF Outcome
  <2> QED
    BY <2>2, <2>3 DEF Call!Init
<1>2. OnceInvariant /\ OnceInvariant' /\ [Next]_vars => [Call!Next]_(Call!vars)
  <2> SUFFICES ASSUME NEW R, LinkInv(R), OnceInv(R), CallsAnswered', [Next]_vars
               PROVE  Call!Next \/ UNCHANGED Call!vars
    BY DEF OnceInvariant, LinkInv
  <2>1. CASE HostCall
    BY <2>1, CallStarts
  <2>2. CASE HostReceive
    BY <2>2, CallAnswered
  <2>3. CASE HostWorks /\ Host!PollSession
    BY <2>3, CallTimesOut DEF HostWorks, app
  <2>4. CASE DeviceReceive
    BY <2>4, CallExecuted
  <2>5. CASE \/ HostSends \/ (HostWorks /\ ~ Host!PollSession) \/ HostTick
             \/ DeviceAnswer \/ DeviceBroadcast \/ DeviceSends \/ DeviceWorks
             \/ Lose \/ HostRestart \/ DeviceRestart \/ UNCHANGED vars
    BY <2>5, CallUnseen
  <2> QED
    BY <2>1, <2>2, <2>3, <2>4, <2>5 DEF Next, HostCycle, DeviceStep
<1> QED
  BY <1>1, <1>2, OnceInvariantHolds, PTL DEF Spec, ImplementsCall, Call!Spec
=============================================================================
