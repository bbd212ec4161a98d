---------------------------- MODULE MCReliableLink --------------------------
(***************************************************************************)
(* The link on small instances: command ids of include/ArmCommand.hpp and  *)
(* ArmStatus.hpp, and the first transaction ids of the runs of the host.   *)
(***************************************************************************)
EXTENDS ReliableLink, TLC

SetZero == 24839            \* 0x6107 SetZeroRequestPacket
SetZeroResponse == 24840    \* 0x6108 SetZeroResponsePacket
Responses == [cmd \in {SetZero} |-> SetZeroResponse]

OneRun == <<1>>             \* the constructor's first id
SameIds == <<1, 1>>         \* a restarted host constructs its stack again
FreshIds == <<1, 3>>        \* ... and gives set_next_tx_id an unused id

Symmetry == Permutations(Callers)
=============================================================================
