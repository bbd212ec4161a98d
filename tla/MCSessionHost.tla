---------------------------- MODULE MCSessionHost ---------------------------
(***************************************************************************)
(* The host half of one session under every order of calls, answers, ticks *)
(* and polls, including forged, late and mismatched responses.             *)
(***************************************************************************)
EXTENDS ReliableSession, TLC

VARIABLE verdict    \* history: the last response and whether it had no effect

\* The response of a command has the next id.
ResponseIds == [cmd \in RequestCmds |-> cmd + 1]

Seen == INSTANCE DedupRing
          WITH Capacity <- SeenIdRingSize, Zero <- NoKey,
               Ids <- ResponseCmds \X TxIds, ring <- m_seen_responses

JudgedResponse(cmd, tx, body) ==
    /\ on_response(cmd, tx, body)
    /\ verdict' = [id |-> compose_dedup_key(cmd, tx),
                   seen |-> session_vars' = session_vars]

CallStep == Calling /\ UNCHANGED verdict

ResponseStep ==
    \E cmd \in ResponseCmds, tx \in TxIds, body \in Callers :
        JudgedResponse(cmd, tx, body)

ResetStep == reset_device_state /\ verdict' = Seen!NoCall

HostInit == SessionInit /\ verdict = Seen!NoCall
HostSpec ==
    HostInit /\ [][CallStep \/ ResponseStep \/ ResetStep]_<<session_vars, verdict>>

Symmetry == Permutations(Callers)

(* Within a session the ring of responses is a sliding window: of all      *)
(* responses that arrive, matched, stray, late or forged, exactly those    *)
(* whose key is one of the last SeenIdRingSize new ones are without        *)
(* effect, and reset_device_state alone empties it                         *)
(* (ReliableSession.hpp:101-129, 302-308; IdRingBuffer.hpp:19-37).         *)
ImplementsWindow == Seen!ImplementsWindow
=============================================================================
