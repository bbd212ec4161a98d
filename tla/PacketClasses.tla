---------------------------- MODULE PacketClasses ---------------------------
(***************************************************************************)
(* How ProtocolStack tells packets apart by their command id alone.        *)
(***************************************************************************)
EXTENDS Integers

ACK_CMD == 28656                                        \* 0x6FF0
is_telemetry_cmd(cmd) == cmd \in 24576 .. 24831         \* 0x6000 .. 0x60FF
is_reliable(cmd) == cmd < 25344                         \* 0x6300

\* Fault: the real-time range has no clause of its own.
is_request_cmd_ParityOnly(cmd) == cmd % 2 = 1

is_request_cmd(cmd) == cmd % 2 = 1 \/ cmd \in 25344 .. 25599 \* 0x6300 .. 0x63FF

\* handle_packet_internal: the function that gets the packet.
Route(cmd) ==
    IF cmd = ACK_CMD THEN "ack" ELSE IF is_request_cmd(cmd) THEN "request" ELSE "response"
=============================================================================
