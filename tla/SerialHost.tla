----------------------------- MODULE SerialHost -----------------------------
(***************************************************************************)
(* The host of module ReliableLink as the example programs run it: a loop  *)
(* of run_one_cycle and sleep_for, counted, that a program leaves when its *)
(* call's callback has set `done` or when the count is used up.  Time      *)
(* passes while the program sleeps (and may pass while it works); the      *)
(* device, at the other end of a lossy link, does what it likes.           *)
(***************************************************************************)
EXTENDS ReliableLink, FiniteSetsExt

CONSTANT SleepTicks     \* ticks in one sleep of the loop (10 ms)

ASSUME SleepAssumption == SleepTicks \in Nat \ {0}

VARIABLES
    main,       \* what the main thread does: "cycle" or "sleep"
    turns       \* call -> turns of the loop since the call was made, counted
                \* to one past LoopLimit

host_vars == <<vars, main, turns>>

SerialInit == Init /\ main = "cycle" /\ turns = [k \in Callers |-> 0]

\* The step of the cycle that ends it sends the thread to sleep.
MainWorks ==
    /\ main = "cycle"
    /\ HostCycle
    /\ main' = IF h_phase = "tx" THEN "sleep" ELSE "cycle"
    /\ UNCHANGED turns

MainCalls == main = "cycle" /\ (HostCall \/ HostReceive) /\ UNCHANGED <<main, turns>>

\* Turns of the loop that one timeout takes (a timeout of 0 takes one, since the
\* session is polled once a turn), and those a call takes at most: an ack to each
\* transmission restarts its timeout once, and the call behind this one in the
\* window is sent in the turn after this one's end.
WaitTurns == (Max(Timeouts \cup {1}) + SleepTicks - 1) \div SleepTicks
CallTurns == 2 * (Max(RetryLimits) + 1) * WaitTurns + 1
LoopLimit == Cardinality(Callers) * CallTurns

Open(k) == k \in Issued /\ h_answers[k] = <<>>

Slept(left) == IF left > SleepTicks THEN left - SleepTicks ELSE 0

\* sleep_for returns and the loop starts its next turn.
MainWakes ==
    /\ main = "sleep"
    /\ main' = "cycle"
    /\ h_pending' = [tx \in DOMAIN h_pending |->
                       IF h_pending[tx].inflight
                       THEN [h_pending[tx] EXCEPT !.left = Slept(@)]
                       ELSE h_pending[tx]]
    /\ turns' = [k \in Callers |->
                    IF Open(k) THEN Min({turns[k], LoopLimit}) + 1 ELSE 0]
    /\ UNCHANGED <<h_next_tx_id, h_inflight_count, h_outbound, h_seen_responses,
                   h_seen_requests, h_cache, h_order, h_answers, h_tx_queue,
                   h_handlers, h_phase, h_running, h_retries>>
    /\ UNCHANGED <<device, app, h2d, d2h, runs>>

Elsewhere == (HostTick \/ DeviceStep \/ Lose) /\ UNCHANGED <<main, turns>>

SerialNext == MainCalls \/ MainWorks \/ MainWakes \/ Elsewhere

\* The main thread keeps its loop going; that is all that is assumed.
SerialSpec ==
    /\ SerialInit /\ [][SerialNext]_host_vars
    /\ WF_host_vars(MainWorks) /\ WF_host_vars(MainWakes)

-----------------------------------------------------------------------------
(* A call is over within a number of turns that window, timeouts and       *)
(* retries determine, whatever device and link do: a loop that counts as   *)
(* far never gives up on a pending call, whose late callback would set the *)
(* `done` of the next (send_serial.cpp:89-95, test_arm.cpp:124-137).       *)
LoopOutlastsCall ==
    \A k \in Callers : Open(k) => turns[k] <= LoopLimit
=============================================================================
