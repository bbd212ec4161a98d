--------------------------- MODULE ReliableSession --------------------------
(***************************************************************************)
(* include/ReliableSession.hpp: the acknowledged request/response session. *)
(* The host half registers calls, sends them through a window, retransmits *)
(* them on a timeout and matches the answers; the device half deduplicates *)
(* requests and caches responses.  One object holds both halves and is     *)
(* used by a single protocol thread, so each operation is one action.      *)
(*                                                                         *)
(* A call of the application is a member of Callers: it stands for the     *)
(* payload of the request (the bytes of PendingEntry) and for the two      *)
(* callbacks given with it.  answers[k] is the sequence of callbacks that  *)
(* call k has received: a response body, or Timeout for on_error.          *)
(*                                                                         *)
(* Time: `left` is deadline - Clock::now() in ticks, so that               *)
(* `now < deadline` is left > 0.  Only the deadlines of inflight entries   *)
(* are ever read, so only those run down.                                  *)
(***************************************************************************)
EXTENDS Integers, Sequences, FiniteSets

CONSTANTS
    Callers,                \* the calls the application may make
    Timeout,                \* SessionError::Timeout as delivered to on_error
    TxModulus,              \* 2^32: transaction ids are uint32_t
    Timeouts,               \* the timeouts a call may choose, in ticks
    RetryLimits,            \* the max_retries a call may choose (uint8_t)
    RequestCmds,            \* command ids of reliable requests
    ResponseCmds,           \* command ids of responses
    ResponseOf,             \* the ResponsePacket paired with a RequestPacket
    WindowSize,             \* Config::window_size
    DeviceCacheCapacity,    \* Config::device_cache_capacity
    SeenIdRingSize          \* capacity of the two dedup rings

TxIds == 0 .. TxModulus - 1
DedupKeys == (RequestCmds \cup ResponseCmds) \X TxIds
NoKey == <<0, 0>>           \* T{} of a DedupKey

\* (cmd << 32) | tx, a bijection on 16 and 32 bits.
compose_dedup_key(cmd, tx) == <<cmd, tx>>

ASSUME SessionAssumption ==
    /\ Timeout \notin Callers
    /\ TxModulus \in Nat \ {0}
    /\ Timeouts \subseteq Nat
    /\ RetryLimits \subseteq 0 .. 255
    /\ ResponseOf \in [RequestCmds -> ResponseCmds]
    /\ WindowSize \in Nat
    /\ DeviceCacheCapacity \in Nat
    /\ SeenIdRingSize \in Nat \ {0}

Ring == INSTANCE IdRingBuffer WITH Capacity <- SeenIdRingSize, Zero <- NoKey

\* The constructor replaces a window of 0 by 1.
window_size == IF WindowSize = 0 THEN 1 ELSE WindowSize

VARIABLES
    m_next_tx_id,           \* the id of the next call
    m_inflight_count,       \* entries counted as on the wire
    m_pending_by_tx,        \* the calls not answered yet, by transaction id
    m_outbound_queue,       \* ids waiting for a place in the window
    m_seen_responses,       \* responses already handled (host)
    m_seen_requests,        \* requests already handled (device)
    m_completed_cache,      \* request key -> cached response (device)
    m_completed_order,      \* cached keys in the order they were cached
    answers                 \* call made -> callbacks it has received

host_vars == <<m_next_tx_id, m_inflight_count, m_pending_by_tx,
               m_outbound_queue, m_seen_responses, answers>>
device_vars == <<m_seen_requests, m_completed_cache, m_completed_order>>
session_vars == <<host_vars, device_vars>>

PendingEntries ==
    [request_cmd : RequestCmds, response_cmd : ResponseCmds, caller : Callers,
     timeout : Timeouts, max_retries : RetryLimits, retry_count : 0 .. 255,
     inflight : BOOLEAN, left : Nat]

CompletedResponses == [response_cmd : ResponseCmds, body : Callers]

\* insert_or_assign and erase of ankerl::unordered_dense::map.
Put(map, key, value) ==
    [x \in DOMAIN map \cup {key} |-> IF x = key THEN value ELSE map[x]]
Erase(map, keys) == [x \in DOMAIN map \ keys |-> map[x]]
NoEntries == [x \in {} |-> {}]

SessionInit ==
    /\ m_next_tx_id = 1 % TxModulus
    /\ m_inflight_count = 0
    /\ m_pending_by_tx = NoEntries
    /\ m_outbound_queue = <<>>
    /\ m_seen_responses = Ring!Empty
    /\ m_seen_requests = Ring!Empty
    /\ m_completed_cache = NoEntries
    /\ m_completed_order = <<>>
    /\ answers = NoEntries

-----------------------------------------------------------------------------
(***************************************************************************)
(* Host side.                                                              *)
(***************************************************************************)
InWindow == {tx \in DOMAIN m_pending_by_tx : m_pending_by_tx[tx].inflight}

Queued == {m_outbound_queue[i] : i \in 1 .. Len(m_outbound_queue)}

\* Modelling assumption on the 2^32 ids: a call never gets the id of one that
\* is still pending or queued.  The code does not check it.
Unused(tx) == tx \notin DOMAIN m_pending_by_tx \cup Queued

NewPending(k, cmd, timeout, max_retries) ==
    [request_cmd |-> cmd, response_cmd |-> ResponseOf[cmd], caller |-> k,
     timeout |-> timeout, max_retries |-> max_retries, retry_count |-> 0,
     inflight |-> FALSE, left |-> timeout]

register_pending(tx, k, cmd, timeout, max_retries) ==
    /\ m_pending_by_tx' =
         Put(m_pending_by_tx, tx, NewPending(k, cmd, timeout, max_retries))
    /\ m_outbound_queue' = Append(m_outbound_queue, tx)
    /\ answers' = Put(answers, k, <<>>)

\* Fault: a wider counter.
AfterTxId_NoWrap(tx) == tx + 1

\* m_next_tx_id++ in next_tx_id: it wraps to 0, which set_next_tx_id avoids.
AfterTxId(tx) == (tx + 1) % TxModulus

\* ProtocolStack::send: next_tx_id() and register_pending() in one call.
send(k, cmd, timeout, max_retries) ==
    /\ k \notin DOMAIN answers
    /\ Unused(m_next_tx_id)
    /\ m_next_tx_id' = AfterTxId(m_next_tx_id)
    /\ register_pending(m_next_tx_id, k, cmd, timeout, max_retries)
    /\ UNCHANGED <<m_inflight_count, m_seen_responses, device_vars>>

set_next_tx_id(tx) ==
    /\ m_next_tx_id' = (IF tx = 0 THEN 1 % TxModulus ELSE tx)
    /\ UNCHANGED <<m_inflight_count, m_pending_by_tx, m_outbound_queue,
                   m_seen_responses, answers, device_vars>>

\* Fault: an acknowledged entry gets all its retries back.
on_ack_ResetsRetries(tx) ==
    /\ m_pending_by_tx' =
         IF tx \in InWindow
         THEN [m_pending_by_tx EXCEPT ![tx].left = m_pending_by_tx[tx].timeout,
                                      ![tx].retry_count = 0]
         ELSE m_pending_by_tx
    /\ UNCHANGED <<m_next_tx_id, m_inflight_count, m_outbound_queue,
                   m_seen_responses, answers, device_vars>>

on_ack(tx) ==
    /\ m_pending_by_tx' =
         IF tx \in InWindow
         THEN [m_pending_by_tx EXCEPT ![tx].left = m_pending_by_tx[tx].timeout]
         ELSE m_pending_by_tx
    /\ UNCHANGED <<m_next_tx_id, m_inflight_count, m_outbound_queue,
                   m_seen_responses, answers, device_vars>>

\* on_response.  The duplicate filter comes first: even a response that finds
\* no pending call is remembered.
DuplicateResponse(cmd, tx) ==
    /\ Ring!Holds(m_seen_responses, compose_dedup_key(cmd, tx))
    /\ UNCHANGED session_vars

StrayResponse(cmd, tx) ==
    /\ ~ Ring!Holds(m_seen_responses, compose_dedup_key(cmd, tx))
    /\ tx \notin DOMAIN m_pending_by_tx
    /\ m_seen_responses' = Ring!Inserted(m_seen_responses, compose_dedup_key(cmd, tx))
    /\ UNCHANGED <<m_next_tx_id, m_inflight_count, m_pending_by_tx,
                   m_outbound_queue, answers, device_vars>>

\* Fault: the window slot is not given back.
CountWithout_Leak(entry) == m_inflight_count

\* m_inflight_count once an entry is erased.
CountWithout(entry) ==
    IF entry.inflight /\ m_inflight_count > 0
    THEN m_inflight_count - 1
    ELSE m_inflight_count

\* The entry goes whatever the command of the response; the callback runs only
\* if that command is the one the call waits for.
MatchedResponse(cmd, tx, body) ==
    /\ ~ Ring!Holds(m_seen_responses, compose_dedup_key(cmd, tx))
    /\ tx \in DOMAIN m_pending_by_tx
    /\ m_seen_responses' = Ring!Inserted(m_seen_responses, compose_dedup_key(cmd, tx))
    /\ LET pending == m_pending_by_tx[tx]
       IN /\ m_inflight_count' = CountWithout(pending)
          /\ answers' = IF pending.response_cmd = cmd
                        THEN [answers EXCEPT ![pending.caller] = Append(@, body)]
                        ELSE answers
    /\ m_pending_by_tx' = Erase(m_pending_by_tx, {tx})
    /\ UNCHANGED <<m_next_tx_id, m_outbound_queue, device_vars>>

on_response(cmd, tx, body) ==
    \/ DuplicateResponse(cmd, tx)
    \/ StrayResponse(cmd, tx)
    \/ MatchedResponse(cmd, tx, body)

\* poll.  The error callbacks run after the loop and before poll returns.
Due == {tx \in InWindow : m_pending_by_tx[tx].left = 0}

\* Faults: one retry too many; no retry at all.
Expired_OffByOne ==
    {tx \in Due : m_pending_by_tx[tx].retry_count > m_pending_by_tx[tx].max_retries}
Expired_NoRetry == Due

Expired ==
    {tx \in Due : m_pending_by_tx[tx].retry_count >= m_pending_by_tx[tx].max_retries}
Retried == Due \ Expired

\* Faults: on_error at every timeout; on_error for one of several entries only.
TimedOutCallers_EveryTime == {m_pending_by_tx[tx].caller : tx \in Due}
TimedOutCallers_One ==
    IF Expired = {} THEN {}
    ELSE {m_pending_by_tx[CHOOSE tx \in Expired : TRUE].caller}

TimedOutCallers == {m_pending_by_tx[tx].caller : tx \in Expired}

\* Fault: a retransmission is not counted.
poll_NoCount ==
    /\ m_inflight_count' = m_inflight_count - Cardinality(Expired)
    /\ m_pending_by_tx' =
         [tx \in DOMAIN m_pending_by_tx \ Expired |->
            IF tx \in Retried
            THEN [m_pending_by_tx[tx] EXCEPT !.left = m_pending_by_tx[tx].timeout]
            ELSE m_pending_by_tx[tx]]
    /\ answers' = [k \in DOMAIN answers |->
                      IF k \in TimedOutCallers
                      THEN Append(answers[k], Timeout)
                      ELSE answers[k]]
    /\ UNCHANGED <<m_next_tx_id, m_outbound_queue, m_seen_responses, device_vars>>

poll ==
    /\ m_inflight_count' = IF Cardinality(Expired) <= m_inflight_count
                           THEN m_inflight_count - Cardinality(Expired)
                           ELSE 0
    /\ m_pending_by_tx' =
         [tx \in DOMAIN m_pending_by_tx \ Expired |->
            IF tx \in Retried
            THEN [m_pending_by_tx[tx] EXCEPT
                    !.retry_count = m_pending_by_tx[tx].retry_count + 1,
                    !.left = m_pending_by_tx[tx].timeout]
            ELSE m_pending_by_tx[tx]]
    /\ answers' = [k \in DOMAIN answers |->
                      IF k \in TimedOutCallers
                      THEN Append(answers[k], Timeout)
                      ELSE answers[k]]
    /\ UNCHANGED <<m_next_tx_id, m_outbound_queue, m_seen_responses, device_vars>>

\* next_outbound, with an entry to return and without one.  Ids that are no
\* longer pending are dropped on the way.
Live == {i \in 1 .. Len(m_outbound_queue) :
            m_outbound_queue[i] \in DOMAIN m_pending_by_tx}

\* Fault: the queue is served from the back, losing what was in front.
FirstLive_Last == CHOOSE i \in Live : \A j \in Live : i >= j

FirstLive == CHOOSE i \in Live : \A j \in Live : i <= j
OutboundTx == m_outbound_queue[FirstLive]

\* Fault: the window takes one entry too many.
WindowOpen_OffByOne == m_inflight_count <= window_size

WindowOpen == m_inflight_count < window_size
HasOutbound == WindowOpen /\ Live # {}

TakeOutbound ==
    /\ HasOutbound
    /\ m_outbound_queue' =
         SubSeq(m_outbound_queue, FirstLive + 1, Len(m_outbound_queue))
    /\ m_pending_by_tx' =
         [m_pending_by_tx EXCEPT
            ![OutboundTx].inflight = TRUE,
            ![OutboundTx].left = m_pending_by_tx[OutboundTx].timeout]
    /\ m_inflight_count' = m_inflight_count + 1
    /\ UNCHANGED <<m_next_tx_id, m_seen_responses, answers, device_vars>>

NoOutbound ==
    /\ ~ HasOutbound
    /\ m_outbound_queue' = IF WindowOpen THEN <<>> ELSE m_outbound_queue
    /\ UNCHANGED <<m_next_tx_id, m_inflight_count, m_pending_by_tx,
                   m_seen_responses, answers, device_vars>>

next_outbound == TakeOutbound \/ NoOutbound

\* One tick of Clock.
Tick ==
    /\ \E tx \in InWindow : m_pending_by_tx[tx].left > 0
    /\ m_pending_by_tx' =
         [tx \in DOMAIN m_pending_by_tx |->
            IF tx \in InWindow /\ m_pending_by_tx[tx].left > 0
            THEN [m_pending_by_tx[tx] EXCEPT !.left = m_pending_by_tx[tx].left - 1]
            ELSE m_pending_by_tx[tx]]
    /\ UNCHANGED <<m_next_tx_id, m_inflight_count, m_outbound_queue,
                   m_seen_responses, answers, device_vars>>

-----------------------------------------------------------------------------
(***************************************************************************)
(* Device side.  on_request answers "duplicate" for a key in the ring and  *)
(* hands out the cached response, if there still is one.                   *)
(***************************************************************************)
IsDuplicate(cmd, tx) == Ring!Holds(m_seen_requests, compose_dedup_key(cmd, tx))
HasCached(cmd, tx) == compose_dedup_key(cmd, tx) \in DOMAIN m_completed_cache

\* Fault: the request is looked up but not remembered.
on_request_Forgets(cmd, tx) ==
    UNCHANGED <<host_vars, device_vars>>

on_request(cmd, tx) ==
    /\ m_seen_requests' = Ring!Inserted(m_seen_requests, compose_dedup_key(cmd, tx))
    /\ UNCHANGED <<host_vars, m_completed_cache, m_completed_order>>

\* Fault: the order may outgrow the capacity by one.
Excess_OffByOne(order) ==
    IF Len(order) > DeviceCacheCapacity + 1
    THEN Len(order) - (DeviceCacheCapacity + 1)
    ELSE 0

\* How many entries shrink_device_cache removes.
Excess(order) ==
    IF Len(order) > DeviceCacheCapacity THEN Len(order) - DeviceCacheCapacity ELSE 0

\* cache_response and shrink_device_cache: while the order is too long its
\* head is removed together with the response of that key.
cache_response(cmd, tx, response_cmd, body) ==
    LET cache == Put(m_completed_cache, compose_dedup_key(cmd, tx),
                     [response_cmd |-> response_cmd, body |-> body])
        order == Append(m_completed_order, compose_dedup_key(cmd, tx))
    IN /\ m_completed_cache' = Erase(cache, {order[i] : i \in 1 .. Excess(order)})
       /\ m_completed_order' = SubSeq(order, Excess(order) + 1, Len(order))
       /\ UNCHANGED <<host_vars, m_seen_requests>>

reset_device_state ==
    /\ m_seen_requests' = Ring!Empty
    /\ m_seen_responses' = Ring!Empty
    /\ m_completed_cache' = NoEntries
    /\ m_completed_order' = <<>>
    /\ UNCHANGED <<m_next_tx_id, m_inflight_count, m_pending_by_tx,
                   m_outbound_queue, answers>>

-----------------------------------------------------------------------------
(***************************************************************************)
(* The session under every order of calls on it.                           *)
(***************************************************************************)
Calling ==
    \/ \E k \in Callers, cmd \in RequestCmds, timeout \in Timeouts,
          max_retries \in RetryLimits : send(k, cmd, timeout, max_retries)
    \/ \E tx \in TxIds : set_next_tx_id(tx)
    \/ \E tx \in TxIds : on_ack(tx)
    \/ poll
    \/ next_outbound
    \/ Tick

HostNext ==
    \/ Calling
    \/ \E cmd \in ResponseCmds, tx \in TxIds, body \in Callers :
          on_response(cmd, tx, body)

DeviceNext ==
    \/ \E cmd \in RequestCmds, tx \in TxIds : on_request(cmd, tx)
    \/ \E cmd \in RequestCmds, tx \in TxIds, body \in Callers :
          cache_response(cmd, tx, ResponseOf[cmd], body)
    \/ reset_device_state

Next == HostNext \/ DeviceNext

Spec == SessionInit /\ [][Next]_session_vars

-----------------------------------------------------------------------------
(* Every member keeps a value of its C++ type.                             *)
TypeOK ==
    /\ m_next_tx_id \in TxIds
    /\ m_inflight_count \in Nat
    /\ DOMAIN m_pending_by_tx \subseteq TxIds
    /\ m_pending_by_tx \in [DOMAIN m_pending_by_tx -> PendingEntries]
    /\ m_outbound_queue \in Seq(TxIds)
    /\ m_seen_responses \in Ring!Rings(ResponseCmds \X TxIds)
    /\ m_seen_requests \in Ring!Rings(RequestCmds \X TxIds)
    /\ DOMAIN m_completed_cache \subseteq RequestCmds \X TxIds
    /\ m_completed_cache \in [DOMAIN m_completed_cache -> CompletedResponses]
    /\ m_completed_order \in Seq(RequestCmds \X TxIds)
    /\ DOMAIN answers \subseteq Callers
    /\ answers \in [DOMAIN answers -> Seq(Callers \cup {Timeout})]

(* m_inflight_count, which the code steps up in next_outbound and down in  *)
(* on_response and poll under `> 0` guards, is the number of inflight      *)
(* entries: no window slot leaks and none is freed twice.                  *)
InflightExact == m_inflight_count = Cardinality(InWindow)

(* No more than window_size requests are on the wire.                      *)
WindowBound == Cardinality(InWindow) <= window_size

(* m_outbound_queue holds the waiting calls and no others, each once: a    *)
(* call that waits can still be reached by next_outbound and cannot hang   *)
(* without a deadline, and no inflight call is counted and sent twice.     *)
QueueExact ==
    /\ \A i, j \in 1 .. Len(m_outbound_queue) :
          m_outbound_queue[i] = m_outbound_queue[j] => i = j
    /\ \A tx \in DOMAIN m_pending_by_tx : tx \in Queued <=> tx \notin InWindow

(* A call gets at most one callback, and one that is still pending has had *)
(* none, nor does any other pending entry hold its callbacks: no response  *)
(* after a Timeout, no Timeout after a response, no second response, over  *)
(* every order of answers, polls and id reuse.                             *)
OneCallback ==
    /\ \A k \in DOMAIN answers : Len(answers[k]) <= 1
    /\ \A tx \in DOMAIN m_pending_by_tx :
          /\ m_pending_by_tx[tx].caller \in DOMAIN answers
          /\ answers[m_pending_by_tx[tx].caller] = <<>>
    /\ \A s, t \in DOMAIN m_pending_by_tx :
          m_pending_by_tx[s].caller = m_pending_by_tx[t].caller => s = t

(* The retransmissions of a call stay within its max_retries, and one      *)
(* that waits for the window has used none.                                *)
RetriesWithinLimit ==
    \A tx \in DOMAIN m_pending_by_tx :
        /\ m_pending_by_tx[tx].retry_count <= m_pending_by_tx[tx].max_retries
        /\ tx \notin InWindow => m_pending_by_tx[tx].retry_count = 0

(* The cache never outgrows Config::device_cache_capacity, because every   *)
(* cached key is on the eviction list (shrink_device_cache frees only      *)
(* what m_completed_order names).                                          *)
CacheBounded ==
    /\ Len(m_completed_order) <= DeviceCacheCapacity
    /\ \A key \in DOMAIN m_completed_cache :
          \E i \in 1 .. Len(m_completed_order) : m_completed_order[i] = key

(* A Timeout reaches a call only when its last retransmission has run out  *)
(* of time: until then neither poll nor an acknowledgement ends it.        *)
NoEarlyTimeout ==
    [][\A tx \in DOMAIN m_pending_by_tx :
         LET entry == m_pending_by_tx[tx]
         IN entry.caller \in DOMAIN answers /\ answers'[entry.caller] = <<Timeout>>
              => entry.inflight /\ entry.left = 0
                 /\ entry.retry_count = entry.max_retries]_session_vars
=============================================================================
