----------------------------- MODULE ReliableCall ---------------------------
(***************************************************************************)
(* What the reliable layer promises the application: a remote call that is *)
(* executed at most once and ends with exactly one outcome.  Success means *)
(* the device executed this call; a timeout says nothing, and the call may *)
(* still be executed afterwards.                                           *)
(***************************************************************************)
EXTENDS Integers

CONSTANT Callers

VARIABLES
    outcome,        \* caller -> "idle", "issued", "success" or "timeout"
    executions      \* caller -> how often the device ran its request

vars == <<outcome, executions>>

Init ==
    /\ outcome = [k \in Callers |-> "idle"]
    /\ executions = [k \in Callers |-> 0]

Issue(k) ==
    /\ outcome[k] = "idle"
    /\ outcome' = [outcome EXCEPT ![k] = "issued"]
    /\ UNCHANGED executions

Execute(k) ==
    /\ outcome[k] # "idle" /\ executions[k] = 0
    /\ executions' = [executions EXCEPT ![k] = 1]
    /\ UNCHANGED outcome

Succeed(k) ==
    /\ outcome[k] = "issued" /\ executions[k] = 1
    /\ outcome' = [outcome EXCEPT ![k] = "success"]
    /\ UNCHANGED executions

\* Calls that share the window may time out together.
GiveUp(K) ==
    /\ \A k \in K : outcome[k] = "issued"
    /\ outcome' = [k \in Callers |-> IF k \in K THEN "timeout" ELSE outcome[k]]
    /\ UNCHANGED executions

Next ==
    \/ \E k \in Callers : Issue(k) \/ Execute(k) \/ Succeed(k)
    \/ \E K \in SUBSET Callers : GiveUp(K)

Spec == Init /\ [][Next]_vars
=============================================================================
