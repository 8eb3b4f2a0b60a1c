------------------------------- MODULE MCMac -------------------------------
(***************************************************************************)
(* Model-checking instance of Mac for node 1, the synchronisation node,   *)
(* with the build's thresholds and retransmission limits, the criticality *)
(* table {LOW, LOW, HIGH}, two-entry priority levels (MaxCValue 2 so that *)
(* the PCQ header's size check holds) and a four-row slot table.          *)
(***************************************************************************)
EXTENDS Mac

MCCriticalities == [p \in 0 .. 2 |-> IF p = 2 THEN HIGH ELSE LOW]
MCSlotTable == [s \in 0 .. 3 |-> CASE s = 1 -> "TRANSMIT"
                                   [] s = 3 -> "TRANSMIT"
                                   [] s = 2 -> "LISTEN"
                                   [] OTHER -> "IDLE"]

Pkt(prio, crit, src, dst, c, seq) ==
  [uid |-> 0, priority |-> prio, criticality |-> crit, source |-> src,
   destination |-> dst, c_value |-> c, sequence_number |-> seq, rtx |-> 0]

\* Node 1's App_Tick packet (HIGH, priority 2, c_value 3), a LOW burst as
\* node 0's App_Tick makes, and a packet whose criticality does not match
\* its priority's.
MCAppPackets == {Pkt(2, HIGH, 1, 0, 3, 0), Pkt(0, LOW, 1, 2, 2, 0), Pkt(2, LOW, 1, 0, 1, 0)}

\* A LOW packet node 0 routes through this node, and one addressed to it.
MCRadioPackets == {Pkt(0, LOW, 0, 2, 2, 7), Pkt(2, HIGH, 0, 1, 3, 4)}

=============================================================================
