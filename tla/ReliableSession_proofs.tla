----------------------- MODULE ReliableSession_proofs -----------------------
(***************************************************************************)
(* The invariants of module ReliableSession, for every set of calls, every *)
(* number of transaction ids, every window, retry limit and capacity.      *)
(*                                                                         *)
(* The inductive invariant is the conjunction of the invariants TLC        *)
(* checks, with the window stated of the counter the code compares.        *)
(***************************************************************************)
EXTENDS ReliableSession, FiniteSetTheorems, WellFoundedInduction, TLAPS

CountWithinWindow == m_inflight_count <= window_size

SessionInv ==
    /\ TypeOK
    /\ InflightExact
    /\ CountWithinWindow
    /\ QueueExact
    /\ OneCallback
    /\ RetriesWithinLimit
    /\ CacheBounded

-----------------------------------------------------------------------------
(* There are finitely many transaction ids, so the pending calls can be    *)
(* counted.                                                                *)
LEMMA InWindowFinite ==
    ASSUME TypeOK
    PROVE  /\ InWindow \subseteq TxIds
           /\ IsFiniteSet(InWindow)
           /\ Cardinality(InWindow) \in Nat
<1>1. IsFiniteSet(TxIds)
  BY SessionAssumption, FS_Interval DEF TxIds
<1>2. InWindow \subseteq TxIds
  BY DEF InWindow, TypeOK
<1> QED
  BY <1>1, <1>2, FS_Subset, FS_CardinalityType

(* Stepping the counter keeps it a transaction id.                         *)
LEMMA AfterTxIdType ==
    ASSUME NEW tx \in TxIds
    PROVE  AfterTxId(tx) \in TxIds
BY SessionAssumption DEF AfterTxId, TxIds

(* An insertion keeps a ring a ring over the same ids.                     *)
LEMMA InsertedType ==
    ASSUME NEW Ids, NEW ring \in Ring!Rings(Ids), NEW id \in Ids
    PROVE  Ring!Inserted(ring, id) \in Ring!Rings(Ids)
<1>1. (ring.write_idx + 1) % SeenIdRingSize \in Ring!Slots
  BY SessionAssumption DEF Ring!Slots, Ring!Rings
<1> QED
  BY <1>1 DEF Ring!Inserted, Ring!Rings

(* A fresh ring is a ring over any ids.                                    *)
LEMMA EmptyRingType ==
    ASSUME NEW Ids
    PROVE  Ring!Empty \in Ring!Rings(Ids)
BY SessionAssumption DEF Ring!Empty, Ring!Rings, Ring!Slots

(* A key of a command and a transaction id.                                *)
LEMMA KeyType ==
    ASSUME NEW Cmds, NEW cmd \in Cmds, NEW tx \in TxIds
    PROVE  compose_dedup_key(cmd, tx) \in Cmds \X TxIds
BY DEF compose_dedup_key

(* The fields of an entry that the operations compute with.                *)
LEMMA EntryFields ==
    ASSUME NEW entry \in PendingEntries
    PROVE  /\ entry.retry_count \in Nat
           /\ entry.max_retries \in Nat /\ entry.max_retries <= 255
           /\ entry.timeout \in Nat /\ entry.left \in Nat
           /\ entry.caller \in Callers
           /\ entry.inflight \in BOOLEAN
<1>1. entry.max_retries \in 0 .. 255 /\ entry.timeout \in Nat
  BY SessionAssumption DEF PendingEntries
<1> QED
  BY <1>1 DEF PendingEntries

(* A session just constructed.                                             *)
LEMMA InitSessionInv == SessionInit => SessionInv
<1> SUFFICES ASSUME SessionInit PROVE SessionInv
  OBVIOUS
<1>1. m_next_tx_id \in TxIds
  BY SessionAssumption DEF SessionInit, TxIds
<1>2. TypeOK
  BY <1>1, EmptyRingType DEF SessionInit, TypeOK, NoEntries
<1>3. InWindow = {} /\ InflightExact /\ CountWithinWindow
  BY FS_EmptySet, SessionAssumption
  DEF SessionInit, InWindow, InflightExact, CountWithinWindow, window_size, NoEntries
<1>4. QueueExact /\ OneCallback /\ RetriesWithinLimit /\ CacheBounded
  BY SessionAssumption
  DEF SessionInit, QueueExact, OneCallback, RetriesWithinLimit, CacheBounded, NoEntries
<1> QED
  BY <1>2, <1>3, <1>4 DEF SessionInv

-----------------------------------------------------------------------------
(***************************************************************************)
(* One lemma per operation of the session.                                 *)
(***************************************************************************)

(* A new call joins the map and the queue; its callbacks have not run.     *)
LEMMA SendInv ==
    ASSUME SessionInv,
           NEW k \in Callers, NEW cmd \in RequestCmds,
           NEW timeout \in Timeouts, NEW max_retries \in RetryLimits,
           send(k, cmd, timeout, max_retries)
    PROVE  SessionInv'
<1> DEFINE tx == m_next_tx_id
           new == NewPending(k, cmd, timeout, max_retries)
<1> USE DEF SessionInv
<1>1. tx \in TxIds /\ tx \notin DOMAIN m_pending_by_tx /\ tx \notin Queued
  BY DEF send, Unused, TypeOK
<1>2. /\ m_pending_by_tx' = Put(m_pending_by_tx, tx, new)
      /\ m_outbound_queue' = Append(m_outbound_queue, tx)
      /\ answers' = Put(answers, k, <<>>)
      /\ k \notin DOMAIN answers
      /\ UNCHANGED <<m_inflight_count, m_seen_responses, device_vars>>
  BY DEF send, register_pending
<1>3. /\ DOMAIN m_pending_by_tx' = DOMAIN m_pending_by_tx \cup {tx}
      /\ m_pending_by_tx'[tx] = new
      /\ \A t \in DOMAIN m_pending_by_tx : m_pending_by_tx'[t] = m_pending_by_tx[t]
  BY <1>1, <1>2 DEF Put
<1>4. new \in PendingEntries /\ ~ new.inflight
  BY SessionAssumption DEF NewPending, PendingEntries
<1>5. m_outbound_queue \in Seq(TxIds)
  BY DEF TypeOK
<1>6. TypeOK'
  <2>1. m_next_tx_id' \in TxIds
    BY <1>1, AfterTxIdType DEF send
  <2>2. m_pending_by_tx' \in [DOMAIN m_pending_by_tx' -> PendingEntries]
    BY <1>1, <1>2, <1>4 DEF TypeOK, Put
  <2>3. /\ DOMAIN answers' \subseteq Callers
        /\ answers' \in [DOMAIN answers' -> Seq(Callers \cup {Timeout})]
    BY <1>2 DEF TypeOK, Put
  <2> QED
    BY <1>1, <1>2, <1>3, <2>1, <2>2, <2>3 DEF TypeOK, device_vars
<1>7. InWindow' = InWindow
  BY <1>1, <1>3, <1>4 DEF InWindow
<1>8. InflightExact' /\ CountWithinWindow'
  BY <1>2, <1>7 DEF InflightExact, CountWithinWindow
<1>9. QueueExact'
  <2>1. /\ Len(m_outbound_queue') = Len(m_outbound_queue) + 1
        /\ m_outbound_queue'[Len(m_outbound_queue) + 1] = tx
        /\ \A i \in 1 .. Len(m_outbound_queue) :
              m_outbound_queue'[i] = m_outbound_queue[i]
    BY <1>2, <1>5
  <2>2. \A i \in 1 .. Len(m_outbound_queue) : m_outbound_queue[i] # tx
    BY <1>1 DEF Queued
  <2>3. Queued' = Queued \cup {tx}
    BY <1>5, <2>1 DEF Queued
  <2>4. \A i, j \in 1 .. Len(m_outbound_queue') :
          m_outbound_queue'[i] = m_outbound_queue'[j] => i = j
    BY <1>5, <2>1, <2>2 DEF QueueExact
  <2> QED
    BY <1>1, <1>3, <1>4, <1>7, <2>3, <2>4 DEF QueueExact, InWindow
<1>10. OneCallback'
  <2>1. /\ DOMAIN answers' = DOMAIN answers \cup {k}
        /\ answers'[k] = <<>>
        /\ \A c \in DOMAIN answers : answers'[c] = answers[c]
    BY <1>2 DEF Put
  <2>2. new.caller = k
    BY DEF NewPending
  <2>3. \A c \in DOMAIN answers' : Len(answers'[c]) <= 1
    BY <2>1 DEF OneCallback
  <2> QED
    BY <1>1, <1>2, <1>3, <2>1, <2>2, <2>3 DEF OneCallback
<1>11. RetriesWithinLimit'
  BY <1>1, <1>3, <1>7, SessionAssumption DEF RetriesWithinLimit, NewPending
<1>12. CacheBounded'
  BY <1>2 DEF CacheBounded, device_vars
<1> QED
  BY <1>6, <1>8, <1>9, <1>10, <1>11, <1>12

(* Choosing the next id touches nothing else.                              *)
LEMMA SetNextTxIdInv ==
    ASSUME SessionInv, NEW tx \in TxIds, set_next_tx_id(tx)
    PROVE  SessionInv'
<1>1. 1 % TxModulus \in TxIds
  BY SessionAssumption DEF TxIds
<1> QED
  BY <1>1 DEF SessionInv, set_next_tx_id, device_vars, TypeOK, InflightExact,
         CountWithinWindow, QueueExact, OneCallback, RetriesWithinLimit,
         CacheBounded, InWindow, Queued

(* A step that changes nothing but deadlines: an acknowledgement or a tick. *)
DeadlineStep ==
    /\ DOMAIN m_pending_by_tx' = DOMAIN m_pending_by_tx
    /\ m_pending_by_tx' \in [DOMAIN m_pending_by_tx -> PendingEntries]
    /\ \A tx \in DOMAIN m_pending_by_tx :
          LET old == m_pending_by_tx[tx]
              new == m_pending_by_tx'[tx]
          IN /\ new.caller = old.caller
             /\ new.inflight = old.inflight
             /\ new.retry_count = old.retry_count
             /\ new.max_retries = old.max_retries
    /\ UNCHANGED <<m_next_tx_id, m_inflight_count, m_outbound_queue,
                   m_seen_responses, answers, device_vars>>

(* A step that only moves deadlines keeps the invariant.                   *)
LEMMA DeadlineStepInv ==
    ASSUME SessionInv, DeadlineStep
    PROVE  SessionInv'
<1> USE DEF SessionInv, DeadlineStep, device_vars
<1>1. TypeOK'
  BY DEF TypeOK
<1>2. InWindow' = InWindow
  BY DEF InWindow
<1>3. InflightExact' /\ CountWithinWindow'
  BY <1>2 DEF InflightExact, CountWithinWindow
<1>4. QueueExact'
  BY <1>2 DEF QueueExact, Queued
<1>5. OneCallback'
  BY DEF OneCallback
<1>6. RetriesWithinLimit'
  BY <1>2 DEF RetriesWithinLimit
<1>7. CacheBounded'
  BY DEF CacheBounded
<1> QED
  BY <1>1, <1>3, <1>4, <1>5, <1>6, <1>7

(* An acknowledgement moves the deadline of one inflight call.             *)
LEMMA OnAckInv ==
    ASSUME SessionInv, NEW tx \in TxIds, on_ack(tx)
    PROVE  SessionInv'
<1>1. CASE tx \in InWindow
  <2>1. tx \in DOMAIN m_pending_by_tx /\ m_pending_by_tx[tx] \in PendingEntries
    BY <1>1 DEF InWindow, SessionInv, TypeOK
  <2>2. m_pending_by_tx[tx].timeout \in Nat
    BY <2>1, SessionAssumption DEF PendingEntries
  <2>3. m_pending_by_tx' =
          [m_pending_by_tx EXCEPT
             ![tx] = [m_pending_by_tx[tx] EXCEPT !.left = m_pending_by_tx[tx].timeout]]
    BY <1>1, <2>1 DEF on_ack
  <2>4. [m_pending_by_tx[tx] EXCEPT !.left = m_pending_by_tx[tx].timeout]
          \in PendingEntries
    BY <2>1, <2>2 DEF PendingEntries
  <2>5. m_pending_by_tx' \in [DOMAIN m_pending_by_tx -> PendingEntries]
    BY <2>3, <2>4 DEF SessionInv, TypeOK
  <2>6. \A t \in DOMAIN m_pending_by_tx :
          /\ m_pending_by_tx'[t].caller = m_pending_by_tx[t].caller
          /\ m_pending_by_tx'[t].inflight = m_pending_by_tx[t].inflight
          /\ m_pending_by_tx'[t].retry_count = m_pending_by_tx[t].retry_count
          /\ m_pending_by_tx'[t].max_retries = m_pending_by_tx[t].max_retries
    BY <2>1, <2>3 DEF PendingEntries
  <2>7. DeadlineStep
    BY <2>3, <2>5, <2>6 DEF DeadlineStep, on_ack
  <2> QED
    BY <2>7, DeadlineStepInv
<1>2. CASE tx \notin InWindow
  BY <1>2, DeadlineStepInv DEF on_ack, DeadlineStep, SessionInv, TypeOK
<1> QED
  BY <1>1, <1>2

(* Time moves the deadlines of all of them.                                *)
LEMMA TickInv ==
    ASSUME SessionInv, Tick
    PROVE  SessionInv'
<1> DEFINE Elapsed(entry) == [entry EXCEPT !.left = entry.left - 1]
<1>1. \A tx \in DOMAIN m_pending_by_tx : m_pending_by_tx[tx] \in PendingEntries
  BY DEF SessionInv, TypeOK
<1>2. \A entry \in PendingEntries :
        /\ entry.left > 0 => Elapsed(entry) \in PendingEntries
        /\ Elapsed(entry).caller = entry.caller
        /\ Elapsed(entry).inflight = entry.inflight
        /\ Elapsed(entry).retry_count = entry.retry_count
        /\ Elapsed(entry).max_retries = entry.max_retries
  BY DEF PendingEntries
<1>3. m_pending_by_tx' =
        [tx \in DOMAIN m_pending_by_tx |->
           IF tx \in InWindow /\ m_pending_by_tx[tx].left > 0
           THEN Elapsed(m_pending_by_tx[tx])
           ELSE m_pending_by_tx[tx]]
  BY DEF Tick
<1> HIDE DEF Elapsed
<1>4. DeadlineStep
  BY <1>1, <1>2, <1>3 DEF DeadlineStep, Tick
<1> QED
  BY <1>4, DeadlineStepInv

(* An erased entry gives its window slot back exactly once, and at most    *)
(* one callback is handed over with it.                                    *)
LEMMA MatchedResponseInv ==
    ASSUME SessionInv, NEW cmd \in ResponseCmds, NEW tx \in TxIds,
           NEW body \in Callers, MatchedResponse(cmd, tx, body)
    PROVE  SessionInv'
<1> DEFINE entry == m_pending_by_tx[tx]
<1> USE DEF SessionInv
<1>1. /\ tx \in DOMAIN m_pending_by_tx
      /\ m_pending_by_tx' = Erase(m_pending_by_tx, {tx})
      /\ m_inflight_count' = CountWithout(entry)
      /\ m_seen_responses' =
           Ring!Inserted(m_seen_responses, compose_dedup_key(cmd, tx))
      /\ UNCHANGED <<m_next_tx_id, m_outbound_queue, device_vars>>
  BY DEF MatchedResponse
<1>2. entry \in PendingEntries /\ entry.inflight \in BOOLEAN /\ entry.caller \in Callers
  BY <1>1 DEF TypeOK, PendingEntries
<1>3. /\ DOMAIN m_pending_by_tx' = DOMAIN m_pending_by_tx \ {tx}
      /\ \A t \in DOMAIN m_pending_by_tx' : m_pending_by_tx'[t] = m_pending_by_tx[t]
  BY <1>1 DEF Erase
<1>4. InWindow' = InWindow \ {tx}
  BY <1>3 DEF InWindow
<1>5. m_inflight_count \in Nat /\ m_inflight_count = Cardinality(InWindow)
  BY DEF TypeOK, InflightExact
<1>6. IsFiniteSet(InWindow)
  BY InWindowFinite
<1>7. InflightExact' /\ CountWithinWindow' /\ m_inflight_count' \in Nat
  <2>1. CASE entry.inflight
    <3>1. tx \in InWindow
      BY <1>1, <2>1 DEF InWindow
    <3>2. Cardinality(InWindow') = Cardinality(InWindow) - 1
      BY <1>4, <1>6, <3>1, FS_RemoveElement
    <3>3. Cardinality(InWindow) > 0
      BY <1>5, <1>6, <3>1, FS_EmptySet
    <3>4. m_inflight_count' = m_inflight_count - 1
      BY <1>1, <1>5, <2>1, <3>3 DEF CountWithout
    <3> QED
      BY <1>5, <3>2, <3>3, <3>4, SessionAssumption
      DEF InflightExact, CountWithinWindow, window_size
  <2>2. CASE ~ entry.inflight
    <3>1. InWindow' = InWindow
      BY <1>4, <2>2 DEF InWindow
    <3> QED
      BY <1>1, <1>5, <2>2, <3>1 DEF CountWithout, InflightExact, CountWithinWindow
  <2> QED
    BY <1>2, <2>1, <2>2
<1>8. entry.caller \in DOMAIN answers /\ answers[entry.caller] = <<>>
  BY <1>1 DEF OneCallback
<1>9. /\ DOMAIN answers' = DOMAIN answers
      /\ \A k \in DOMAIN answers : k # entry.caller => answers'[k] = answers[k]
      /\ answers'[entry.caller] \in {<<>>, <<body>>}
      /\ answers' \in [DOMAIN answers -> Seq(Callers \cup {Timeout})]
  <2>1. CASE entry.response_cmd = cmd
    <3>1. answers' = [answers EXCEPT ![entry.caller] = <<body>>]
      BY <1>8, <2>1 DEF MatchedResponse
    <3>2. <<body>> \in Seq(Callers \cup {Timeout})
      OBVIOUS
    <3> QED
      BY <1>8, <3>1, <3>2 DEF TypeOK
  <2>2. CASE entry.response_cmd # cmd
    BY <1>8, <2>2 DEF MatchedResponse, TypeOK
  <2> QED
    BY <2>1, <2>2
<1>10. TypeOK'
  <2>1. compose_dedup_key(cmd, tx) \in ResponseCmds \X TxIds
    BY KeyType
  <2>2. m_seen_responses' \in Ring!Rings(ResponseCmds \X TxIds)
    BY <1>1, <2>1, InsertedType DEF TypeOK
  <2>3. m_pending_by_tx' \in [DOMAIN m_pending_by_tx' -> PendingEntries]
    BY <1>1 DEF Erase, TypeOK
  <2> QED
    BY <1>1, <1>3, <1>7, <1>9, <2>2, <2>3 DEF TypeOK, device_vars
<1>11. QueueExact'
  BY <1>1, <1>3, <1>4 DEF QueueExact, Queued
<1>12. OneCallback'
  <2>1. \A k \in DOMAIN answers' : Len(answers'[k]) <= 1
    <3>1. Len(<<>>) <= 1 /\ Len(<<body>>) <= 1
      OBVIOUS
    <3> QED
      BY <1>9, <3>1 DEF OneCallback
  <2>2. \A t \in DOMAIN m_pending_by_tx' : m_pending_by_tx[t].caller # entry.caller
    BY <1>1, <1>3 DEF OneCallback
  <2>3. \A t \in DOMAIN m_pending_by_tx' :
          /\ m_pending_by_tx'[t].caller \in DOMAIN answers'
          /\ answers'[m_pending_by_tx'[t].caller] = <<>>
    BY <1>3, <1>9, <2>2 DEF OneCallback
  <2> QED
    BY <1>3, <2>1, <2>3 DEF OneCallback
<1>13. RetriesWithinLimit'
  BY <1>3, <1>4 DEF RetriesWithinLimit
<1>14. CacheBounded'
  BY <1>1 DEF CacheBounded, device_vars
<1> QED
  BY <1>7, <1>10, <1>11, <1>12, <1>13, <1>14

(* Every response, the duplicates and strays among them.                   *)
LEMMA OnResponseInv ==
    ASSUME SessionInv, NEW cmd \in ResponseCmds, NEW tx \in TxIds,
           NEW body \in Callers, on_response(cmd, tx, body)
    PROVE  SessionInv'
<1>1. CASE DuplicateResponse(cmd, tx)
  BY <1>1 DEF DuplicateResponse, session_vars, host_vars, device_vars, SessionInv,
         TypeOK, InflightExact, CountWithinWindow, QueueExact, OneCallback,
         RetriesWithinLimit, CacheBounded, InWindow, Queued
<1>2. CASE StrayResponse(cmd, tx)
  <2>1. compose_dedup_key(cmd, tx) \in ResponseCmds \X TxIds
    BY KeyType
  <2>2. m_seen_responses' \in Ring!Rings(ResponseCmds \X TxIds)
    BY <1>2, <2>1, InsertedType DEF SessionInv, TypeOK, StrayResponse
  <2> QED
    BY <1>2, <2>2 DEF StrayResponse, device_vars, SessionInv, TypeOK, InflightExact,
           CountWithinWindow, QueueExact, OneCallback, RetriesWithinLimit,
           CacheBounded, InWindow, Queued
<1>3. CASE MatchedResponse(cmd, tx, body)
  BY <1>3, MatchedResponseInv
<1> QED
  BY <1>1, <1>2, <1>3 DEF on_response

(* poll erases what has expired, tells each of those calls once, and       *)
(* charges every other due entry one retry.                                *)
LEMMA PollInv ==
    ASSUME SessionInv, poll
    PROVE  SessionInv'
<1> DEFINE Retry(entry) == [entry EXCEPT !.retry_count = entry.retry_count + 1,
                                         !.left = entry.timeout]
<1> USE DEF SessionInv
<1>1. Expired \subseteq InWindow /\ Retried \subseteq InWindow \ Expired
  BY DEF Expired, Retried, Due
<1>2. InWindow \subseteq DOMAIN m_pending_by_tx
  BY DEF InWindow
<1>3. m_pending_by_tx' =
        [tx \in DOMAIN m_pending_by_tx \ Expired |->
           IF tx \in Retried THEN Retry(m_pending_by_tx[tx]) ELSE m_pending_by_tx[tx]]
  BY DEF poll
<1>4. \A tx \in DOMAIN m_pending_by_tx : m_pending_by_tx[tx] \in PendingEntries
  BY DEF TypeOK
<1>5. \A tx \in Retried :
        m_pending_by_tx[tx].retry_count < m_pending_by_tx[tx].max_retries
  BY <1>1, <1>2, <1>4, EntryFields DEF Retried, Expired
<1>6. ASSUME NEW entry \in PendingEntries
      PROVE  /\ entry.retry_count < entry.max_retries => Retry(entry) \in PendingEntries
             /\ Retry(entry).caller = entry.caller
             /\ Retry(entry).inflight = entry.inflight
             /\ Retry(entry).retry_count = entry.retry_count + 1
             /\ Retry(entry).max_retries = entry.max_retries
  <2>1. entry.retry_count < entry.max_retries => entry.retry_count + 1 \in 0 .. 255
    BY EntryFields
  <2>2. entry.timeout \in Nat
    BY EntryFields
  <2> QED
    BY <2>1, <2>2 DEF PendingEntries
<1> HIDE DEF Retry
<1>7. /\ DOMAIN m_pending_by_tx' = DOMAIN m_pending_by_tx \ Expired
      /\ m_pending_by_tx' \in [DOMAIN m_pending_by_tx' -> PendingEntries]
  BY <1>1, <1>2, <1>3, <1>4, <1>5, <1>6
<1>8. \A tx \in DOMAIN m_pending_by_tx' :
        /\ m_pending_by_tx'[tx].caller = m_pending_by_tx[tx].caller
        /\ m_pending_by_tx'[tx].inflight = m_pending_by_tx[tx].inflight
        /\ m_pending_by_tx'[tx].max_retries = m_pending_by_tx[tx].max_retries
  BY <1>3, <1>4, <1>6
<1>9. InWindow' = InWindow \ Expired
  BY <1>7, <1>8 DEF InWindow
<1>10. InflightExact' /\ CountWithinWindow' /\ m_inflight_count' \in Nat
  <2>1. IsFiniteSet(InWindow) /\ IsFiniteSet(Expired)
    BY <1>1, InWindowFinite, FS_Subset
  <2>2. /\ Cardinality(InWindow \ Expired)
             = Cardinality(InWindow) - Cardinality(InWindow \cap Expired)
        /\ Cardinality(Expired) <= Cardinality(InWindow)
        /\ Cardinality(Expired) \in Nat /\ Cardinality(InWindow) \in Nat
    BY <1>1, <2>1, FS_Difference, FS_Subset, FS_CardinalityType
  <2>3. InWindow \cap Expired = Expired
    BY <1>1
  <2>4. m_inflight_count = Cardinality(InWindow)
    BY DEF InflightExact
  <2>5. m_inflight_count' = m_inflight_count - Cardinality(Expired)
    BY <2>2, <2>4 DEF poll
  <2>6. m_inflight_count' = Cardinality(InWindow') /\ m_inflight_count' \in Nat
    BY <1>9, <2>2, <2>3, <2>4, <2>5
  <2>7. m_inflight_count' <= window_size
    BY <2>2, <2>4, <2>5, SessionAssumption DEF CountWithinWindow, window_size
  <2> QED
    BY <2>6, <2>7 DEF InflightExact, CountWithinWindow, window_size
<1>11. UNCHANGED <<m_next_tx_id, m_outbound_queue, m_seen_responses, device_vars>>
  BY DEF poll
<1>12. /\ DOMAIN answers' = DOMAIN answers
       /\ \A k \in DOMAIN answers :
             answers'[k] = IF k \in TimedOutCallers
                           THEN Append(answers[k], Timeout)
                           ELSE answers[k]
  BY DEF poll
<1>13. \A k \in TimedOutCallers : k \in DOMAIN answers /\ answers[k] = <<>>
  BY <1>1, <1>2 DEF TimedOutCallers, OneCallback
<1>14. Append(<<>>, Timeout) = <<Timeout>>
  OBVIOUS
<1>15. TypeOK'
  <2>1. answers' \in [DOMAIN answers -> Seq(Callers \cup {Timeout})]
    <3>1. answers' = [k \in DOMAIN answers |-> answers'[k]]
      BY DEF poll
    <3>2. \A k \in DOMAIN answers : answers'[k] \in Seq(Callers \cup {Timeout})
      <4> SUFFICES ASSUME NEW k \in DOMAIN answers
                   PROVE  answers'[k] \in Seq(Callers \cup {Timeout})
        OBVIOUS
      <4>1. answers[k] \in Seq(Callers \cup {Timeout})
        BY DEF TypeOK
      <4>2. Append(answers[k], Timeout) \in Seq(Callers \cup {Timeout})
        BY <4>1
      <4> QED
        BY <1>12, <4>1, <4>2
    <3> QED
      BY <3>1, <3>2
  <2> QED
    BY <1>7, <1>10, <1>11, <1>12, <2>1 DEF TypeOK, device_vars
<1>16. QueueExact'
  BY <1>7, <1>9, <1>11 DEF QueueExact, Queued
<1>17. OneCallback'
  <2>1. \A k \in DOMAIN answers' : Len(answers'[k]) <= 1
    <3>1. Len(<<Timeout>>) <= 1
      OBVIOUS
    <3> QED
      BY <1>12, <1>13, <1>14, <3>1 DEF OneCallback
  <2>2. \A tx \in DOMAIN m_pending_by_tx' : m_pending_by_tx[tx].caller \notin TimedOutCallers
    BY <1>1, <1>2, <1>7 DEF TimedOutCallers, OneCallback
  <2> QED
    BY <1>7, <1>8, <1>12, <2>1, <2>2 DEF OneCallback
<1>18. RetriesWithinLimit'
  <2> SUFFICES ASSUME NEW tx \in DOMAIN m_pending_by_tx'
               PROVE  /\ m_pending_by_tx'[tx].retry_count <= m_pending_by_tx'[tx].max_retries
                      /\ tx \notin InWindow' => m_pending_by_tx'[tx].retry_count = 0
    BY DEF RetriesWithinLimit
  <2>1. tx \in DOMAIN m_pending_by_tx /\ tx \notin Expired
    BY <1>7
  <2>2. /\ m_pending_by_tx[tx].retry_count \in Nat
        /\ m_pending_by_tx[tx].max_retries \in Nat
    BY <1>4, <2>1, EntryFields
  <2>3. CASE tx \in Retried
    BY <1>1, <1>3, <1>4, <1>5, <1>6, <1>9, <2>1, <2>2, <2>3
  <2>4. CASE tx \notin Retried
    BY <1>3, <1>9, <2>1, <2>4 DEF RetriesWithinLimit
  <2> QED
    BY <2>3, <2>4
<1>19. CacheBounded'
  BY <1>11 DEF CacheBounded, device_vars
<1> QED
  BY <1>10, <1>15, <1>16, <1>17, <1>18, <1>19

(* A nonempty set of natural numbers has a least member.                   *)
LEMMA LeastOfNats ==
    ASSUME NEW S \in SUBSET Nat, S # {}
    PROVE  \E i \in S : \A j \in S : i <= j
<1> DEFINE Less == OpToRel(<, Nat)
<1>1. PICK i \in S : \A j \in S : <<j, i>> \notin Less
  <2> HIDE DEF Less
  <2> QED
    BY NatLessThanWellFounded, WFMin DEF Less
<1>2. \A j \in S : ~ (j < i)
  BY <1>1 DEF OpToRel
<1> QED
  BY <1>2

(* The first queued id that is still pending, and what stands before it.   *)
LEMMA FirstLiveIsLeast ==
    ASSUME TypeOK, Live # {}
    PROVE  /\ FirstLive \in 1 .. Len(m_outbound_queue)
           /\ OutboundTx \in DOMAIN m_pending_by_tx
           /\ \A i \in 1 .. Len(m_outbound_queue) :
                 m_outbound_queue[i] \in DOMAIN m_pending_by_tx => FirstLive <= i
<1>1. Live \in SUBSET Nat
  BY DEF Live
<1>2. FirstLive \in Live /\ \A i \in Live : FirstLive <= i
  BY <1>1, LeastOfNats DEF FirstLive
<1> QED
  BY <1>2 DEF OutboundTx, Live

(* The window takes the first live call; only dead ids are dropped.        *)
LEMMA TakeOutboundInv ==
    ASSUME SessionInv, TakeOutbound
    PROVE  SessionInv'
<1> DEFINE n == FirstLive
           tx == OutboundTx
           sent == [m_pending_by_tx[tx] EXCEPT !.inflight = TRUE,
                                               !.left = m_pending_by_tx[tx].timeout]
           rest == SubSeq(m_outbound_queue, n + 1, Len(m_outbound_queue))
<1> USE DEF SessionInv
<1>1. /\ n \in 1 .. Len(m_outbound_queue)
      /\ tx \in DOMAIN m_pending_by_tx
      /\ tx = m_outbound_queue[n]
      /\ \A i \in 1 .. Len(m_outbound_queue) :
            m_outbound_queue[i] \in DOMAIN m_pending_by_tx => n <= i
  BY FirstLiveIsLeast DEF TakeOutbound, HasOutbound, OutboundTx
<1>2. m_outbound_queue \in Seq(TxIds) /\ Len(m_outbound_queue) \in Nat
  BY DEF TypeOK
<1>3. tx \in TxIds /\ m_pending_by_tx[tx] \in PendingEntries
  BY <1>1 DEF TypeOK
<1>4. /\ sent \in PendingEntries
      /\ sent.inflight
      /\ sent.caller = m_pending_by_tx[tx].caller
      /\ sent.retry_count = m_pending_by_tx[tx].retry_count
      /\ sent.max_retries = m_pending_by_tx[tx].max_retries
  <2>1. m_pending_by_tx[tx].timeout \in Nat
    BY <1>3, EntryFields
  <2> QED
    BY <1>3, <2>1 DEF PendingEntries
<1>5. /\ m_outbound_queue' = rest
      /\ m_inflight_count' = m_inflight_count + 1
      /\ m_inflight_count < window_size
      /\ UNCHANGED <<m_next_tx_id, m_seen_responses, answers, device_vars>>
  BY DEF TakeOutbound, HasOutbound, WindowOpen
<1>6. m_pending_by_tx' = [m_pending_by_tx EXCEPT ![tx] = sent]
  BY <1>1 DEF TakeOutbound
<1> HIDE DEF sent, tx
<1>7. /\ DOMAIN m_pending_by_tx' = DOMAIN m_pending_by_tx
      /\ m_pending_by_tx'[tx] = sent
      /\ \A t \in DOMAIN m_pending_by_tx :
            t # tx => m_pending_by_tx'[t] = m_pending_by_tx[t]
  BY <1>1, <1>6
<1>8. /\ rest \in Seq(TxIds)
      /\ Len(rest) = Len(m_outbound_queue) - n
      /\ \A i \in 1 .. Len(rest) : rest[i] = m_outbound_queue[n + i]
  BY <1>1, <1>2
<1> HIDE DEF rest, n
<1>9. InWindow' = InWindow \cup {tx}
  BY <1>1, <1>4, <1>7 DEF InWindow
<1>10. tx \notin InWindow
  BY <1>1 DEF QueueExact, Queued
<1>11. InflightExact' /\ CountWithinWindow' /\ m_inflight_count' \in Nat
  <2>1. Cardinality(InWindow') = Cardinality(InWindow) + 1
    BY <1>9, <1>10, InWindowFinite, FS_AddElement
  <2>2. m_inflight_count \in Nat /\ m_inflight_count = Cardinality(InWindow)
    BY DEF TypeOK, InflightExact
  <2> QED
    BY <1>5, <2>1, <2>2, SessionAssumption
    DEF InflightExact, CountWithinWindow, window_size
<1>12. TypeOK'
  <2>1. m_pending_by_tx' \in [DOMAIN m_pending_by_tx' -> PendingEntries]
    BY <1>4, <1>6 DEF TypeOK
  <2> QED
    BY <1>5, <1>7, <1>8, <1>11, <2>1 DEF TypeOK, device_vars
<1>13. QueueExact'
  <2>1. \A i, j \in 1 .. Len(rest) : rest[i] = rest[j] => i = j
    <3> SUFFICES ASSUME NEW i \in 1 .. Len(rest), NEW j \in 1 .. Len(rest),
                        rest[i] = rest[j]
                 PROVE  i = j
      OBVIOUS
    <3>0. n \in Nat /\ Len(rest) = Len(m_outbound_queue) - n
      BY <1>1, <1>8
    <3>1. n + i \in 1 .. Len(m_outbound_queue) /\ n + j \in 1 .. Len(m_outbound_queue)
      BY <1>2, <3>0
    <3>2. n + i = n + j
      BY <1>8, <3>1 DEF QueueExact
    <3> QED
      BY <1>1, <3>2
  <2>2. ASSUME NEW t \in DOMAIN m_pending_by_tx
        PROVE  (\E i \in 1 .. Len(rest) : rest[i] = t) <=> (t \in Queued /\ t # tx)
    <3>1. ASSUME NEW i \in 1 .. Len(rest), rest[i] = t
          PROVE  t \in Queued /\ t # tx
      <4>1. n + i \in 1 .. Len(m_outbound_queue) /\ n + i # n
        BY <1>1, <1>2, <1>8
      <4>2. m_outbound_queue[n + i] = t
        BY <1>8, <3>1
      <4> QED
        BY <1>1, <4>1, <4>2 DEF QueueExact, Queued
    <3>2. ASSUME t \in Queued, t # tx
          PROVE  \E i \in 1 .. Len(rest) : rest[i] = t
      <4>1. PICK i \in 1 .. Len(m_outbound_queue) : m_outbound_queue[i] = t
        BY <3>2 DEF Queued
      <4>2. n < i
        BY <1>1, <3>2, <4>1
      <4>3. i - n \in 1 .. Len(rest) /\ n + (i - n) = i
        BY <1>1, <1>2, <1>8, <4>2
      <4> QED
        BY <1>8, <4>1, <4>3
    <3> QED
      BY <3>1, <3>2
  <2>3. \A t \in DOMAIN m_pending_by_tx : t \in Queued' <=> t \in Queued /\ t # tx
    <3>1. Queued' = {rest[i] : i \in 1 .. Len(rest)}
      BY <1>5 DEF Queued
    <3> QED
      BY <2>2, <3>1
  <2> QED
    BY <1>5, <1>7, <1>9, <2>1, <2>3 DEF QueueExact
<1>14. OneCallback'
  <2>1. \A t \in DOMAIN m_pending_by_tx' :
          m_pending_by_tx'[t].caller = m_pending_by_tx[t].caller
    BY <1>4, <1>7
  <2> QED
    BY <1>5, <1>7, <2>1 DEF OneCallback
<1>15. RetriesWithinLimit'
  BY <1>1, <1>4, <1>7, <1>9, <1>10 DEF RetriesWithinLimit
<1>16. CacheBounded'
  BY <1>5 DEF CacheBounded, device_vars
<1> QED
  BY <1>11, <1>12, <1>13, <1>14, <1>15, <1>16

(* next_outbound with and without an id to hand out.                       *)
LEMMA NextOutboundInv ==
    ASSUME SessionInv, next_outbound
    PROVE  SessionInv'
<1>1. CASE TakeOutbound
  BY <1>1, TakeOutboundInv
<1>2. CASE NoOutbound /\ WindowOpen
  <2> USE DEF SessionInv
  <2>1. /\ m_outbound_queue' = <<>>
        /\ Live = {}
        /\ UNCHANGED <<m_next_tx_id, m_inflight_count, m_pending_by_tx,
                       m_seen_responses, answers, device_vars>>
    BY <1>2 DEF NoOutbound, HasOutbound
  <2>2. \A tx \in DOMAIN m_pending_by_tx : tx \notin Queued /\ tx \in InWindow
    BY <2>1 DEF Live, Queued, QueueExact
  <2>3. Queued' = {} /\ InWindow' = InWindow
    BY <2>1 DEF Queued, InWindow
  <2>4. QueueExact'
    BY <2>1, <2>2, <2>3 DEF QueueExact
  <2> QED
    BY <2>1, <2>3, <2>4 DEF TypeOK, InflightExact, CountWithinWindow, OneCallback,
           RetriesWithinLimit, CacheBounded, device_vars
<1>3. CASE NoOutbound /\ ~ WindowOpen
  BY <1>3 DEF NoOutbound, device_vars, SessionInv, TypeOK, InflightExact,
         CountWithinWindow, QueueExact, OneCallback, RetriesWithinLimit,
         CacheBounded, InWindow, Queued
<1> QED
  BY <1>1, <1>2, <1>3 DEF next_outbound

(* Remembering a request touches the device's ring only.                   *)
LEMMA OnRequestInv ==
    ASSUME SessionInv, NEW cmd \in RequestCmds, NEW tx \in TxIds,
           on_request(cmd, tx)
    PROVE  SessionInv'
<1> USE DEF SessionInv
<1>1. m_seen_requests' \in Ring!Rings(RequestCmds \X TxIds)
  <2>1. compose_dedup_key(cmd, tx) \in RequestCmds \X TxIds
    BY KeyType
  <2> QED
    BY <2>1, InsertedType DEF on_request, TypeOK
<1>2. UNCHANGED <<host_vars, m_completed_cache, m_completed_order>>
  BY DEF on_request
<1>3. TypeOK' /\ CacheBounded'
  BY <1>1, <1>2 DEF TypeOK, CacheBounded, host_vars
<1>4. InWindow' = InWindow /\ Queued' = Queued
  BY <1>2 DEF InWindow, Queued, host_vars
<1> QED
  BY <1>2, <1>3, <1>4 DEF InflightExact, CountWithinWindow, QueueExact,
         OneCallback, RetriesWithinLimit, host_vars

(* What shrink_device_cache evicts is exactly what it drops from the order, *)
(* so every key still cached is still on the order.                        *)
LEMMA CacheResponseInv ==
    ASSUME SessionInv, NEW cmd \in RequestCmds, NEW tx \in TxIds,
           NEW body \in Callers,
           cache_response(cmd, tx, ResponseOf[cmd], body)
    PROVE  SessionInv'
<1> DEFINE key == compose_dedup_key(cmd, tx)
           response == [response_cmd |-> ResponseOf[cmd], body |-> body]
           cache == Put(m_completed_cache, key, response)
           order == Append(m_completed_order, key)
           n == Excess(order)
           rest == SubSeq(order, n + 1, Len(order))
<1> USE DEF SessionInv
<1>1. key \in RequestCmds \X TxIds
  BY KeyType
<1>2. response \in CompletedResponses
  BY SessionAssumption DEF CompletedResponses
<1>3. /\ DOMAIN cache = DOMAIN m_completed_cache \cup {key}
      /\ DOMAIN cache \subseteq RequestCmds \X TxIds
      /\ cache \in [DOMAIN cache -> CompletedResponses]
  BY <1>1, <1>2 DEF Put, TypeOK
<1>4. /\ m_completed_order \in Seq(RequestCmds \X TxIds)
      /\ order \in Seq(RequestCmds \X TxIds)
      /\ Len(order) = Len(m_completed_order) + 1
      /\ order[Len(order)] = key
      /\ \A i \in 1 .. Len(m_completed_order) : order[i] = m_completed_order[i]
  BY <1>1 DEF TypeOK
<1>5. /\ m_completed_cache' = Erase(cache, {order[i] : i \in 1 .. n})
      /\ m_completed_order' = rest
      /\ UNCHANGED <<host_vars, m_seen_requests>>
  BY DEF cache_response
<1> HIDE DEF key, response, cache, order
<1>6. /\ n \in 0 .. Len(order)
      /\ Len(order) - n <= DeviceCacheCapacity
  BY <1>4, SessionAssumption DEF Excess
<1> HIDE DEF n
<1>7. /\ rest \in Seq(RequestCmds \X TxIds)
      /\ Len(rest) = Len(order) - n
      /\ \A i \in 1 .. Len(rest) : rest[i] = order[n + i]
  BY <1>4, <1>6
<1> HIDE DEF rest
<1>8. /\ DOMAIN m_completed_cache' = DOMAIN cache \ {order[i] : i \in 1 .. n}
      /\ m_completed_cache' \in [DOMAIN m_completed_cache' -> CompletedResponses]
  BY <1>3, <1>5 DEF Erase
<1>9. TypeOK'
  BY <1>3, <1>5, <1>7, <1>8 DEF TypeOK, host_vars
<1>10. CacheBounded'
  <2>1. ASSUME NEW k \in DOMAIN m_completed_cache'
        PROVE  \E i \in 1 .. Len(rest) : rest[i] = k
    <3>1. PICK i \in 1 .. Len(order) : order[i] = k
      BY <1>3, <1>4, <1>8 DEF CacheBounded
    <3>2. i \notin 1 .. n
      BY <1>8, <3>1
    <3>3. i - n \in 1 .. Len(rest) /\ n + (i - n) = i
      BY <1>4, <1>6, <1>7, <3>1, <3>2
    <3> QED
      BY <1>7, <3>1, <3>3
  <2> QED
    BY <1>5, <1>6, <1>7, <2>1 DEF CacheBounded
<1>11. InWindow' = InWindow /\ Queued' = Queued
  BY <1>5 DEF InWindow, Queued, host_vars
<1> QED
  BY <1>5, <1>9, <1>10, <1>11 DEF InflightExact, CountWithinWindow, QueueExact,
         OneCallback, RetriesWithinLimit, host_vars

(* A reset forgets answers and requests, never a pending call.             *)
LEMMA ResetInv ==
    ASSUME SessionInv, reset_device_state
    PROVE  SessionInv'
<1> USE DEF SessionInv
<1>1. UNCHANGED <<m_next_tx_id, m_inflight_count, m_pending_by_tx,
                  m_outbound_queue, answers>>
  BY DEF reset_device_state
<1>2. TypeOK' /\ CacheBounded'
  BY EmptyRingType, SessionAssumption
  DEF reset_device_state, TypeOK, CacheBounded, NoEntries
<1>3. InWindow' = InWindow /\ Queued' = Queued
  BY <1>1 DEF InWindow, Queued
<1> QED
  BY <1>1, <1>2, <1>3 DEF InflightExact, CountWithinWindow, QueueExact,
         OneCallback, RetriesWithinLimit

(* Every operation, and every stuttering step, keeps the invariant.        *)
LEMMA StepInv == SessionInv /\ [Next]_session_vars => SessionInv'
<1> SUFFICES ASSUME SessionInv, [Next]_session_vars PROVE SessionInv'
  OBVIOUS
<1>1. ASSUME NEW k \in Callers, NEW cmd \in RequestCmds, NEW timeout \in Timeouts,
             NEW max_retries \in RetryLimits, send(k, cmd, timeout, max_retries)
      PROVE  SessionInv'
  BY <1>1, SendInv
<1>2. ASSUME NEW tx \in TxIds, set_next_tx_id(tx) PROVE SessionInv'
  BY <1>2, SetNextTxIdInv
<1>3. ASSUME NEW tx \in TxIds, on_ack(tx) PROVE SessionInv'
  BY <1>3, OnAckInv
<1>4. ASSUME NEW cmd \in ResponseCmds, NEW tx \in TxIds, NEW body \in Callers,
             on_response(cmd, tx, body)
      PROVE  SessionInv'
  BY <1>4, OnResponseInv
<1>5. CASE poll
  BY <1>5, PollInv
<1>6. CASE next_outbound
  BY <1>6, NextOutboundInv
<1>7. CASE Tick
  BY <1>7, TickInv
<1>8. ASSUME NEW cmd \in RequestCmds, NEW tx \in TxIds, on_request(cmd, tx)
      PROVE  SessionInv'
  BY <1>8, OnRequestInv
<1>9. ASSUME NEW cmd \in RequestCmds, NEW tx \in TxIds, NEW body \in Callers,
             cache_response(cmd, tx, ResponseOf[cmd], body)
      PROVE  SessionInv'
  BY <1>9, CacheResponseInv
<1>10. CASE reset_device_state
  BY <1>10, ResetInv
<1>11. CASE UNCHANGED session_vars
  BY <1>11 DEF session_vars, host_vars, device_vars, SessionInv, TypeOK,
         InflightExact, CountWithinWindow, QueueExact, OneCallback,
         RetriesWithinLimit, CacheBounded, InWindow, Queued
<1> QED
  BY <1>1, <1>2, <1>3, <1>4, <1>5, <1>6, <1>7, <1>8, <1>9, <1>10, <1>11
  DEF Next, HostNext, Calling, DeviceNext

-----------------------------------------------------------------------------
(***************************************************************************)
(* The theorems.                                                           *)
(***************************************************************************)

(* The inductive invariant holds of the session in every order of calls.   *)
THEOREM SessionInvariance == Spec => []SessionInv
<1>1. SessionInit => SessionInv
  BY InitSessionInv
<1>2. SessionInv /\ [Next]_session_vars => SessionInv'
  BY StepInv
<1> QED
  BY <1>1, <1>2, PTL DEF Spec

(* Every member of ReliableSession keeps a value of its C++ type.          *)
THEOREM TypeCorrect == Spec => []TypeOK
<1>1. SessionInv => TypeOK
  BY DEF SessionInv
<1> QED
  BY <1>1, SessionInvariance, PTL

(* m_inflight_count is the number of entries on the wire: on_response and  *)
(* poll give back each slot next_outbound took, exactly once.              *)
THEOREM InflightCountExact == Spec => []InflightExact
<1>1. SessionInv => InflightExact
  BY DEF SessionInv
<1> QED
  BY <1>1, SessionInvariance, PTL

(* next_outbound never lets more than Config::window_size requests onto    *)
(* the wire.                                                               *)
THEOREM WindowRespected == Spec => []WindowBound
<1>1. SessionInv => WindowBound
  BY DEF SessionInv, InflightExact, CountWithinWindow, WindowBound
<1> QED
  BY <1>1, SessionInvariance, PTL

(* m_outbound_queue holds exactly the calls that wait for the window, each *)
(* once: none is stranded without a deadline, none is sent twice.          *)
THEOREM QueueHoldsTheWaiting == Spec => []QueueExact
<1>1. SessionInv => QueueExact
  BY DEF SessionInv
<1> QED
  BY <1>1, SessionInvariance, PTL

(* on_response and poll between them give a call at most one callback.     *)
THEOREM AtMostOneCallback == Spec => []OneCallback
<1>1. SessionInv => OneCallback
  BY DEF SessionInv
<1> QED
  BY <1>1, SessionInvariance, PTL

(* poll retransmits a call at most max_retries times.                      *)
THEOREM RetriesBounded == Spec => []RetriesWithinLimit
<1>1. SessionInv => RetriesWithinLimit
  BY DEF SessionInv
<1> QED
  BY <1>1, SessionInvariance, PTL

(* shrink_device_cache keeps the response cache within its capacity.       *)
THEOREM DeviceCacheBounded == Spec => []CacheBounded
<1>1. SessionInv => CacheBounded
  BY DEF SessionInv
<1> QED
  BY <1>1, SessionInvariance, PTL

(* An on_error(Timeout) comes from poll, of an entry whose last            *)
(* retransmission has expired; neither an acknowledgement nor a response   *)
(* nor a reset can produce one.                                            *)
THEOREM TimeoutIsNeverEarly == Spec => NoEarlyTimeout
<1> DEFINE Early(tx) ==
        LET entry == m_pending_by_tx[tx]
        IN entry.caller \in DOMAIN answers /\ answers'[entry.caller] = <<Timeout>>
             => entry.inflight /\ entry.left = 0
                /\ entry.retry_count = entry.max_retries
<1>1. SessionInv /\ [Next]_session_vars
        => [\A tx \in DOMAIN m_pending_by_tx : Early(tx)]_session_vars
  <2> SUFFICES ASSUME SessionInv, Next, NEW tx \in DOMAIN m_pending_by_tx,
                      m_pending_by_tx[tx].caller \in DOMAIN answers,
                      answers'[m_pending_by_tx[tx].caller] = <<Timeout>>
               PROVE  /\ m_pending_by_tx[tx].inflight
                      /\ m_pending_by_tx[tx].left = 0
                      /\ m_pending_by_tx[tx].retry_count = m_pending_by_tx[tx].max_retries
    OBVIOUS
  <2> DEFINE k == m_pending_by_tx[tx].caller
  <2>1. /\ answers[k] = <<>>
        /\ k \in Callers
        /\ \A t \in DOMAIN m_pending_by_tx : m_pending_by_tx[t].caller = k => t = tx
    BY EntryFields DEF SessionInv, OneCallback, TypeOK
  <2>2. Timeout \notin Callers /\ <<Timeout>> # <<>>
    BY SessionAssumption
  <2>3. answers' # answers
    BY <2>1, <2>2
  <2>4. ASSUME NEW c \in Callers, NEW cmd \in RequestCmds, NEW timeout \in Timeouts,
               NEW max_retries \in RetryLimits, send(c, cmd, timeout, max_retries)
        PROVE  FALSE
    BY <2>1, <2>2, <2>4 DEF send, register_pending, Put
  <2>5. ASSUME NEW cmd \in ResponseCmds, NEW t \in TxIds, NEW body \in Callers,
               on_response(cmd, t, body)
        PROVE  FALSE
    <3>1. answers'[k] = answers[k] \/ answers'[k] = Append(answers[k], body)
      BY <2>3, <2>5 DEF on_response, DuplicateResponse, StrayResponse, MatchedResponse,
             session_vars, host_vars, SessionInv, TypeOK
    <3>2. Append(<<>>, body) = <<body>> /\ <<body>> # <<Timeout>>
      BY <2>2
    <3> QED
      BY <2>1, <2>2, <3>1, <3>2
  <2>6. CASE poll
    <3>1. k \in TimedOutCallers
      BY <2>1, <2>2, <2>6 DEF poll
    <3>2. tx \in Expired
      BY <2>1, <3>1 DEF TimedOutCallers, Expired, Due, InWindow
    <3>3. m_pending_by_tx[tx] \in PendingEntries
      BY DEF SessionInv, TypeOK
    <3>4. m_pending_by_tx[tx].retry_count <= m_pending_by_tx[tx].max_retries
      BY DEF SessionInv, RetriesWithinLimit
    <3> QED
      BY <3>2, <3>3, <3>4, EntryFields DEF Expired, Due, InWindow
  <2> QED
    BY <2>3, <2>4, <2>5, <2>6
    DEF Next, HostNext, Calling, DeviceNext, set_next_tx_id, on_ack, next_outbound,
        TakeOutbound, NoOutbound, Tick, on_request, cache_response,
        reset_device_state, host_vars
<1> QED
  BY <1>1, SessionInvariance, PTL DEF Spec, NoEarlyTimeout

-----------------------------------------------------------------------------
(***************************************************************************)
(* What an operation does to the calls, for the modules built on the       *)
(* session: which pending entries go, what they had heard, what is kept of *)
(* those that stay.                                                        *)
(***************************************************************************)
SameCall(new, old) ==
    /\ new.request_cmd = old.request_cmd
    /\ new.response_cmd = old.response_cmd
    /\ new.caller = old.caller

CallsKept ==
    /\ DOMAIN m_pending_by_tx' \subseteq DOMAIN m_pending_by_tx
    /\ \A tx \in DOMAIN m_pending_by_tx' :
          /\ SameCall(m_pending_by_tx'[tx], m_pending_by_tx[tx])
          /\ m_pending_by_tx'[tx].inflight = m_pending_by_tx[tx].inflight

(* New deadlines and retry counts do not make an entry another call's.     *)
LEMMA SameCallFields ==
    ASSUME NEW entry \in PendingEntries, NEW left, NEW retry_count
    PROVE  LET later == [entry EXCEPT !.left = left]
               again == [entry EXCEPT !.retry_count = retry_count, !.left = left]
           IN /\ SameCall(later, entry) /\ later.inflight = entry.inflight
              /\ SameCall(again, entry) /\ again.inflight = entry.inflight
BY DEF PendingEntries, SameCall

(* An acknowledgement changes no call but for its deadline.                *)
LEMMA OnAckKeepsCalls ==
    ASSUME TypeOK, NEW tx, on_ack(tx)
    PROVE  CallsKept /\ DOMAIN m_pending_by_tx' = DOMAIN m_pending_by_tx
<1>1. CASE tx \in InWindow
  <2>1. tx \in DOMAIN m_pending_by_tx
    BY <1>1 DEF InWindow
  <2>2. m_pending_by_tx' =
          [m_pending_by_tx EXCEPT
             ![tx] = [m_pending_by_tx[tx] EXCEPT !.left = m_pending_by_tx[tx].timeout]]
    BY <1>1, <2>1 DEF on_ack
  <2>3. \A t \in DOMAIN m_pending_by_tx : m_pending_by_tx[t] \in PendingEntries
    BY DEF TypeOK
  <2>4. SameCall(m_pending_by_tx'[tx], m_pending_by_tx[tx])
          /\ m_pending_by_tx'[tx].inflight = m_pending_by_tx[tx].inflight
    BY <2>1, <2>2, <2>3, SameCallFields
  <2>5. \A t \in DOMAIN m_pending_by_tx : t # tx => m_pending_by_tx'[t] = m_pending_by_tx[t]
    BY <2>2
  <2>6. DOMAIN m_pending_by_tx' = DOMAIN m_pending_by_tx
    BY <2>2
  <2> QED
    BY <2>4, <2>5, <2>6 DEF CallsKept, SameCall
<1>2. CASE tx \notin InWindow
  BY <1>2 DEF on_ack, CallsKept, SameCall
<1> QED
  BY <1>1, <1>2

(* Nor does time.                                                          *)
LEMMA TickKeepsCalls ==
    ASSUME TypeOK, Tick
    PROVE  CallsKept /\ DOMAIN m_pending_by_tx' = DOMAIN m_pending_by_tx
<1> DEFINE Elapsed(tx) == [m_pending_by_tx[tx] EXCEPT !.left = m_pending_by_tx[tx].left - 1]
<1>1. \A tx \in DOMAIN m_pending_by_tx :
        /\ SameCall(Elapsed(tx), m_pending_by_tx[tx])
        /\ Elapsed(tx).inflight = m_pending_by_tx[tx].inflight
  BY SameCallFields DEF TypeOK
<1>2. m_pending_by_tx' =
        [tx \in DOMAIN m_pending_by_tx |->
           IF tx \in InWindow /\ m_pending_by_tx[tx].left > 0
           THEN Elapsed(tx) ELSE m_pending_by_tx[tx]]
  BY DEF Tick
<1> HIDE DEF Elapsed
<1> QED
  BY <1>1, <1>2 DEF CallsKept, SameCall

(* A call leaves poll with a Timeout or stays pending.                     *)
LEMMA PollEffect ==
    ASSUME SessionInv, poll
    PROVE  /\ CallsKept
           /\ DOMAIN answers' = DOMAIN answers
           /\ \A k \in DOMAIN answers :
                 \/ answers'[k] = answers[k]
                 \/ answers[k] = <<>> /\ answers'[k] = <<Timeout>>
           /\ \A tx \in DOMAIN m_pending_by_tx \ DOMAIN m_pending_by_tx' :
                 answers'[m_pending_by_tx[tx].caller] = <<Timeout>>
           /\ DOMAIN m_pending_by_tx' = DOMAIN m_pending_by_tx \ Expired
           /\ UNCHANGED <<m_next_tx_id, m_outbound_queue, m_seen_responses, device_vars>>
<1> DEFINE Retry(tx) ==
        [m_pending_by_tx[tx] EXCEPT !.retry_count = m_pending_by_tx[tx].retry_count + 1,
                                    !.left = m_pending_by_tx[tx].timeout]
<1>1. \A tx \in DOMAIN m_pending_by_tx :
        /\ SameCall(Retry(tx), m_pending_by_tx[tx])
        /\ Retry(tx).inflight = m_pending_by_tx[tx].inflight
  BY SameCallFields DEF SessionInv, TypeOK
<1>2. m_pending_by_tx' =
        [tx \in DOMAIN m_pending_by_tx \ Expired |->
           IF tx \in Retried THEN Retry(tx) ELSE m_pending_by_tx[tx]]
  BY DEF poll
<1> HIDE DEF Retry
<1>3. CallsKept /\ DOMAIN m_pending_by_tx' = DOMAIN m_pending_by_tx \ Expired
  BY <1>1, <1>2 DEF CallsKept, SameCall
<1>4. Expired \subseteq DOMAIN m_pending_by_tx
  BY DEF Expired, Due, InWindow
<1>5. \A k \in TimedOutCallers : k \in DOMAIN answers /\ answers[k] = <<>>
  BY <1>4 DEF TimedOutCallers, SessionInv, OneCallback
<1>6. /\ DOMAIN answers' = DOMAIN answers
      /\ \A k \in DOMAIN answers :
            answers'[k] = IF k \in TimedOutCallers
                          THEN Append(answers[k], Timeout) ELSE answers[k]
  BY DEF poll
<1>7. Append(<<>>, Timeout) = <<Timeout>>
  OBVIOUS
<1>8. \A tx \in Expired : m_pending_by_tx[tx].caller \in TimedOutCallers
  BY DEF TimedOutCallers
<1> QED
  BY <1>3, <1>4, <1>5, <1>6, <1>7, <1>8 DEF poll

(* A response ends at most its own call, and hands it its body.            *)
LEMMA ResponseEffect ==
    ASSUME SessionInv, NEW cmd, NEW tx, NEW body, on_response(cmd, tx, body)
    PROVE  /\ UNCHANGED <<m_next_tx_id, m_outbound_queue, device_vars>>
           /\ CallsKept
           /\ \/ UNCHANGED <<answers, m_pending_by_tx>>
              \/ LET entry == m_pending_by_tx[tx]
                 IN /\ tx \in DOMAIN m_pending_by_tx
                    /\ DOMAIN m_pending_by_tx' = DOMAIN m_pending_by_tx \ {tx}
                    /\ entry.caller \in DOMAIN answers
                    /\ entry.response_cmd = cmd
                         => answers' = [answers EXCEPT ![entry.caller] = <<body>>]
                    /\ entry.response_cmd # cmd => answers' = answers
<1>1. CASE DuplicateResponse(cmd, tx) \/ StrayResponse(cmd, tx)
  BY <1>1 DEF DuplicateResponse, StrayResponse, session_vars, host_vars, device_vars,
              CallsKept, SameCall
<1>2. CASE MatchedResponse(cmd, tx, body)
  <2>1. /\ tx \in DOMAIN m_pending_by_tx
        /\ m_pending_by_tx' = Erase(m_pending_by_tx, {tx})
        /\ UNCHANGED <<m_next_tx_id, m_outbound_queue, device_vars>>
    BY <1>2 DEF MatchedResponse
  <2>2. /\ m_pending_by_tx[tx].caller \in DOMAIN answers
        /\ answers[m_pending_by_tx[tx].caller] = <<>>
    BY <2>1 DEF SessionInv, OneCallback
  <2>3. Append(<<>>, body) = <<body>>
    OBVIOUS
  <2>4. /\ m_pending_by_tx[tx].response_cmd = cmd
             => answers' = [answers EXCEPT ![m_pending_by_tx[tx].caller] = <<body>>]
        /\ m_pending_by_tx[tx].response_cmd # cmd => answers' = answers
    BY <1>2, <2>2, <2>3 DEF MatchedResponse
  <2>5. CallsKept /\ DOMAIN m_pending_by_tx' = DOMAIN m_pending_by_tx \ {tx}
    BY <2>1 DEF Erase, CallsKept, SameCall
  <2> QED
    BY <2>1, <2>2, <2>4, <2>5
<1> QED
  BY <1>1, <1>2 DEF on_response

(* The id that next_outbound returns waited in front of those that still   *)
(* wait, and was not in the window.                                        *)
LEMMA TakeOutboundEffect ==
    ASSUME SessionInv, TakeOutbound
    PROVE  /\ OutboundTx \in DOMAIN m_pending_by_tx \ InWindow
           /\ FirstLive \in 1 .. Len(m_outbound_queue)
           /\ OutboundTx = m_outbound_queue[FirstLive]
           /\ DOMAIN m_pending_by_tx' = DOMAIN m_pending_by_tx
           /\ \A tx \in DOMAIN m_pending_by_tx :
                 SameCall(m_pending_by_tx'[tx], m_pending_by_tx[tx])
           /\ InWindow' = InWindow \cup {OutboundTx}
           /\ Len(m_outbound_queue') = Len(m_outbound_queue) - FirstLive
           /\ \A i \in DOMAIN m_outbound_queue' :
                 /\ FirstLive + i \in DOMAIN m_outbound_queue
                 /\ m_outbound_queue'[i] = m_outbound_queue[FirstLive + i]
           /\ Cardinality(InWindow) < window_size
           /\ UNCHANGED <<m_next_tx_id, answers, device_vars>>
<1> DEFINE n == FirstLive
           tx == OutboundTx
           sent == [m_pending_by_tx[tx] EXCEPT !.inflight = TRUE,
                                               !.left = m_pending_by_tx[tx].timeout]
<1>1. /\ n \in 1 .. Len(m_outbound_queue)
      /\ tx \in DOMAIN m_pending_by_tx
      /\ tx = m_outbound_queue[n]
  BY FirstLiveIsLeast DEF TakeOutbound, HasOutbound, OutboundTx, SessionInv
<1>2. tx \notin InWindow
  BY <1>1 DEF SessionInv, QueueExact, Queued
<1>3. m_pending_by_tx[tx] \in PendingEntries /\ m_outbound_queue \in Seq(TxIds)
  BY <1>1 DEF SessionInv, TypeOK
<1>4. SameCall(sent, m_pending_by_tx[tx]) /\ sent.inflight
  BY <1>3 DEF PendingEntries, SameCall
<1>5. m_pending_by_tx' = [m_pending_by_tx EXCEPT ![tx] = sent]
  BY <1>1 DEF TakeOutbound
<1>6. m_outbound_queue' = SubSeq(m_outbound_queue, n + 1, Len(m_outbound_queue))
  BY DEF TakeOutbound
<1>7. Cardinality(InWindow) < window_size
  BY DEF TakeOutbound, HasOutbound, WindowOpen, SessionInv, InflightExact
<1> HIDE DEF n, tx, sent
<1>8. /\ DOMAIN m_pending_by_tx' = DOMAIN m_pending_by_tx
      /\ m_pending_by_tx'[tx] = sent
      /\ \A t \in DOMAIN m_pending_by_tx :
            t # tx => m_pending_by_tx'[t] = m_pending_by_tx[t]
  BY <1>1, <1>5
<1>9. InWindow' = InWindow \cup {tx}
  BY <1>1, <1>4, <1>8 DEF InWindow
<1>10. /\ Len(m_outbound_queue') = Len(m_outbound_queue) - n
       /\ \A i \in DOMAIN m_outbound_queue' :
             /\ n + i \in DOMAIN m_outbound_queue
             /\ m_outbound_queue'[i] = m_outbound_queue[n + i]
  BY <1>1, <1>3, <1>6
<1>11. \A t \in DOMAIN m_pending_by_tx : SameCall(m_pending_by_tx'[t], m_pending_by_tx[t])
  BY <1>4, <1>8 DEF SameCall
<1> QED
  BY <1>1, <1>2, <1>7, <1>8, <1>9, <1>10, <1>11 DEF n, tx, TakeOutbound

(* A response cached under a key of its own: shrink_device_cache evicts    *)
(* with each key the response of that key and no other's.                  *)
ListedOnce == \A i, j \in DOMAIN m_completed_order :
                 m_completed_order[i] = m_completed_order[j] => i = j
ListedIsCached == \A i \in DOMAIN m_completed_order :
                     m_completed_order[i] \in DOMAIN m_completed_cache

(* Caching the response of a key not listed yet keeps the list free of     *)
(* duplicates and every listed key cached.                                 *)
LEMMA CacheResponseEffect ==
    ASSUME SessionInv, ListedOnce, ListedIsCached,
           NEW cmd \in RequestCmds, NEW tx \in TxIds, NEW response_cmd, NEW body,
           cache_response(cmd, tx, response_cmd, body),
           \A i \in DOMAIN m_completed_order : m_completed_order[i] # <<cmd, tx>>
    PROVE  /\ ListedOnce'
           /\ ListedIsCached'
           /\ \A i \in DOMAIN m_completed_order' :
                 \/ m_completed_order'[i] = <<cmd, tx>>
                 \/ \E j \in DOMAIN m_completed_order :
                       m_completed_order'[i] = m_completed_order[j]
<1> DEFINE key == <<cmd, tx>>
           cache == Put(m_completed_cache, key, [response_cmd |-> response_cmd, body |-> body])
           order == Append(m_completed_order, key)
           n == Excess(order)
           rest == SubSeq(order, n + 1, Len(order))
<1>1. key \in RequestCmds \X TxIds
  OBVIOUS
<1>2. DOMAIN cache = DOMAIN m_completed_cache \cup {key}
  BY DEF Put
<1>3. /\ m_completed_order \in Seq(RequestCmds \X TxIds)
      /\ order \in Seq(RequestCmds \X TxIds)
      /\ Len(m_completed_order) \in Nat
      /\ DOMAIN m_completed_order = 1 .. Len(m_completed_order)
      /\ Len(order) = Len(m_completed_order) + 1
      /\ order[Len(order)] = key
      /\ \A i \in 1 .. Len(m_completed_order) : order[i] = m_completed_order[i]
  BY <1>1 DEF SessionInv, TypeOK
<1>4. /\ m_completed_cache' = Erase(cache, {order[i] : i \in 1 .. n})
      /\ m_completed_order' = rest
  BY DEF cache_response, compose_dedup_key
<1>5. \A i \in 1 .. Len(order) : i = Len(order) \/ i \in DOMAIN m_completed_order
  BY <1>3
<1>6. \A i, j \in 1 .. Len(order) : order[i] = order[j] => i = j
  BY <1>3, <1>5 DEF ListedOnce
<1>7. \A i \in 1 .. Len(order) : order[i] \in DOMAIN cache
  BY <1>2, <1>3, <1>5 DEF ListedIsCached
<1> HIDE DEF key, cache, order
<1>8. n \in 0 .. Len(order)
  BY <1>3, SessionAssumption DEF Excess
<1> HIDE DEF n
<1>9. /\ DOMAIN rest = 1 .. Len(order) - n
      /\ \A i \in DOMAIN rest : n + i \in 1 .. Len(order) /\ n + i > n /\ rest[i] = order[n + i]
  BY <1>3, <1>8
<1> HIDE DEF rest
<1>10. ListedOnce'
  <2> SUFFICES ASSUME NEW i \in DOMAIN rest, NEW j \in DOMAIN rest, rest[i] = rest[j]
               PROVE  i = j
    BY <1>4 DEF ListedOnce
  <2>1. n + i = n + j
    BY <1>6, <1>9
  <2> QED
    BY <1>3, <1>8, <1>9, <2>1
<1>11. ListedIsCached'
  <2> SUFFICES ASSUME NEW i \in DOMAIN rest
               PROVE  rest[i] \in DOMAIN m_completed_cache'
    BY <1>4 DEF ListedIsCached
  <2>1. rest[i] \in DOMAIN cache
    BY <1>7, <1>9
  <2>2. \A j \in 1 .. n : order[j] # rest[i]
    <3>1. 1 .. n \subseteq 1 .. Len(order)
      BY <1>3, <1>8
    <3>2. \A j \in 1 .. n : j # n + i
      BY <1>3, <1>8, <1>9
    <3> QED
      BY <1>6, <1>9, <3>1, <3>2
  <2> QED
    BY <1>4, <2>1, <2>2 DEF Erase
<1>12. \A i \in DOMAIN rest :
          rest[i] = key \/ \E j \in DOMAIN m_completed_order : rest[i] = m_completed_order[j]
  BY <1>3, <1>5, <1>9
<1> QED
  BY <1>4, <1>10, <1>11, <1>12 DEF key
=============================================================================
