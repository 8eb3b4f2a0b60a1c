-------------------------------- MODULE Mac --------------------------------
(***************************************************************************)
(* One AirTight node: the MAC state machine of airtight_mac.c driven by    *)
(* the slotter tick of airtight_slotter.c and by the integration layer of  *)
(* airtight.c (transmit handler, transmit-status handler, receive          *)
(* handler, application sends).                                            *)
(*                                                                         *)
(* State.  mac mirrors Airtight_MACState: criticality_mode, fault_active,  *)
(* acknowledge_fails, the PCQ (queue) and whether the fault alarm is set. *)
(* The alarm compares the raw local clock with start + FAULT_LENGTH slots  *)
(* of milliseconds, while slots follow the synchronised clock, so relative *)
(* to slots the alarm may fire at any poll once it is set (its arithmetic  *)
(* is modelled in Time.tla).  slot is the slotter's table index (main's `slot`, 0xff at       *)
(* start).  radio is the XBee's transmit pipeline: one entry per frame     *)
(* handed to xbee_frame_write whose transmit status has not yet been       *)
(* reported, in transmission order; each entry is the packet_id_table      *)
(* record (the sent copy and the notification flag).                       *)
(*                                                                         *)
(* Abstracted data.  Times (inject, send), enqueue/hop slots, burst index, *)
(* failed_ack_status and hop source/destination are metadata no branch of  *)
(* the MAC reads; the send and receive histories are diagnostic only and   *)
(* are modelled in History.tla; the slot counters current_slot,            *)
(* previous_slot and local_slot only feed metadata and synchronisation     *)
(* (Sync.tla).  Every packet copy placed in the queue carries a ghost uid  *)
(* so that properties can follow it.                                       *)
(***************************************************************************)
EXTENDS Naturals, Sequences, SequencesExt

CONSTANTS
  NodeId, SyncNodeId,                 \* AT_CONF_NODE_ID, AT_CONF_SYNC_NODE_ID
  NumPriorities, QueueSize, Criticalities, RejectWhenFull, NoPacket,
  CriticalityChangeThreshold,         \* AT_CONF_CRITICALITY_CHANGE_THRESHOLD
  MaxNodeAckFails,                    \* AT_CONF_MAX_NODE_ACK_FAILS
  MaxCValue,                          \* AT_CONF_MAX_C_VALUE
  RetransmissionLimitLow,             \* AT_CONF_RETRANSMISSION_LIMIT_LOW
  RetransmissionLimitHigh,            \* AT_CONF_RETRANSMISSION_LIMIT_HIGH
  ClearLowPacketsOnHigh,              \* AT_CONF_CLEAR_LOW_PACKETS_ON_HIGH
  DiscardLowWhileHigh,                \* AT_CONF_DISCARD_LOW_WHILE_HIGH
  FaultWindowWired,                   \* whether a slot runs the fault window test
  SlotTableRows,                      \* AT_CONF_SLOT_TABLE_ROWS
  SlotTable,                          \* this node's row: index -> action
  SyncSlotIndex,                      \* AT_CONF_SYNC_SLOT_INDEX
  AppPackets,                         \* packets the application passes to Send
  RadioPackets,                       \* packets the radio can deliver
  MaxSends, MaxReceives,              \* bounds on application and radio input
  MaxInFlight                         \* frames awaiting a transmit status

Q == INSTANCE PCQ WITH Packets <- {}, pcq <- NoPacket

HIGH == "HIGH"
LOW == "LOW"

ASSUME /\ QueueSize >= MaxCValue     \* the #error in the PCQ header
       /\ CriticalityChangeThreshold <= MaxNodeAckFails
       /\ SlotTable \in [0 .. SlotTableRows - 1 -> {"IDLE", "LISTEN", "TRANSMIT"}]
       /\ FaultWindowWired \in BOOLEAN

MaxUid == MaxSends * MaxCValue + MaxReceives
Uids == 0 .. MaxUid - 1

VARIABLES mac, slot, radio, sends, receives, next_uid

vars == <<mac, slot, radio, sends, receives, next_uid>>

ValidPriority(p) == p \in Q!Priorities

-----------------------------------------------------------------------------
(* Helpers of airtight_mac.c; each maps a MAC state to a MAC state.        *)

\* An escalation test that waits for one failure more than the threshold.
Airtight_CheckShouldGoHighAbove(m) ==
  m.criticality_mode # HIGH /\ m.acknowledge_fails > CriticalityChangeThreshold

Airtight_CheckShouldGoHigh(m) ==
  m.criticality_mode # HIGH /\ m.acknowledge_fails >= CriticalityChangeThreshold

\* Going HIGH without clearing the LOW levels.
Airtight_GoHighKeepLow(m) == [m EXCEPT !.criticality_mode = HIGH]

Airtight_GoHigh(m) ==
  [m EXCEPT !.criticality_mode = HIGH,
            !.queue = IF ClearLowPacketsOnHigh THEN Q!PCQ_ClearCriticality(@, LOW) ELSE @]

Airtight_CheckShouldDequeuePacket(pkt) ==
  IF pkt.criticality = HIGH THEN pkt.rtx >= RetransmissionLimitHigh
                            ELSE pkt.rtx >= RetransmissionLimitLow

\* Airtight_TriggerFault: arms the clear alarm only on a rising edge.
Airtight_TriggerFault(m) ==
  IF m.fault_active THEN m
  ELSE [m EXCEPT !.fault_active = TRUE,
                 !.fault_alarm_set = TRUE]

Airtight_RegisterFailedAck(m) ==
  [m EXCEPT !.acknowledge_fails = IF @ + 1 > MaxNodeAckFails THEN MaxNodeAckFails ELSE @ + 1]

Airtight_GoLow(m) == [m EXCEPT !.criticality_mode = LOW, !.acknowledge_fails = 0]

\* Airtight_Enqueue: priority admission, fresh retransmit count, PCQ insert.
Airtight_Enqueue(m, pkt) ==
  IF ValidPriority(pkt.priority)
  THEN [m EXCEPT !.queue = Q!PCQ_Enqueue(@, [pkt EXCEPT !.rtx = 0])]
  ELSE m

(***************************************************************************)
(* Integration_TransmitHandler and Integration_NotificationHandler: the   *)
(* frame written to the radio, recorded in packet_id_table under its frame *)
(* id with the sent copy of the packet and the notification flag.         *)
(***************************************************************************)
Integration_TransmitHandler(pkt) == [packet |-> pkt, notification |-> FALSE]
Integration_NotificationHandler == [packet |-> NoPacket, notification |-> TRUE]

(***************************************************************************)
(* Airtight_HandleTransmitSlot.  In HIGH mode it asks for a HIGH packet;   *)
(* Airtight_PCQ_HeadCriticality reports "not found" whatever the queue    *)
(* holds, so the node goes LOW (clearing the failure count) and takes the *)
(* head of any criticality.  The result is the new MAC state and the      *)
(* frames handed to the transmit handler (none or one).                   *)
(***************************************************************************)
Airtight_HandleTransmitSlot(m) ==
  LET high_found == m.criticality_mode = HIGH /\ Q!PCQ_HeadCriticalityFound(m.queue, HIGH)
      m1 == IF m.criticality_mode = HIGH /\ ~high_found THEN Airtight_GoLow(m) ELSE m
      any == m1.criticality_mode # HIGH \/ ~high_found
      has_packet == IF any THEN Q!PCQ_HasHead(m1.queue) ELSE high_found
      forward_packet == IF any THEN Q!PCQ_Head(m1.queue)
                        ELSE Q!PCQ_HeadCriticality(m1.queue, HIGH)
  IN [mac |-> m1,
      out |-> IF has_packet
              THEN <<Integration_TransmitHandler(forward_packet)>>
              ELSE <<>>]

\* Airtight_HandleBroadcastSync: the notification goes to the handler.
Airtight_HandleBroadcastSync == <<Integration_NotificationHandler>>

(***************************************************************************)
(* Airtight_DoSlot for table index s.  The fault window test of           *)
(* Airtight_CheckForFaultTrigger is a periodic function of the slot count;*)
(* whether s falls in the window is an input (in_window).                 *)
(***************************************************************************)
Airtight_DoSlot(m, s, in_window) ==
  LET m0 == IF FaultWindowWired /\ in_window THEN Airtight_TriggerFault(m) ELSE m
      sync == IF s = SyncSlotIndex /\ NodeId = SyncNodeId THEN Airtight_HandleBroadcastSync ELSE <<>>
      tx == IF s # SyncSlotIndex /\ SlotTable[s] = "TRANSMIT"
            THEN Airtight_HandleTransmitSlot(m0)
            ELSE [mac |-> m0, out |-> <<>>]
  IN [mac |-> tx.mac, out |-> sync \o tx.out]

(***************************************************************************)
(* Airtight_Send: admission (priority range, criticality of the level),   *)
(* c_value clamp, LOW-while-HIGH discard, then c copies with consecutive  *)
(* 8-bit sequence numbers, each through Airtight_Enqueue.                 *)
(***************************************************************************)
BurstCopy(pkt, i, uid0) ==
  [pkt EXCEPT !.sequence_number = (pkt.sequence_number + i) % 256, !.uid = uid0 + i]

Airtight_Send(m, pkt, uid0) ==
  LET c == IF pkt.c_value > MaxCValue THEN MaxCValue ELSE pkt.c_value
      admitted == /\ ValidPriority(pkt.priority)
                  /\ pkt.criticality = Criticalities[pkt.priority]
                  /\ ~(DiscardLowWhileHigh /\ m.criticality_mode = HIGH /\ pkt.criticality = LOW)
      copies == [i \in 1 .. c |-> BurstCopy(pkt, i - 1, uid0)]
  IN IF admitted THEN [mac |-> FoldLeft(Airtight_Enqueue, m, copies), used |-> c]
                 ELSE [mac |-> m, used |-> 0]

\* HeadPriorityCriticalityP(...)->meta.local_retransmit_count++
IncrementHeadRetransmit(q, p, crit) ==
  IF Q!PCQ_HeadPriorityCriticalityP(q, p, crit)
  THEN [q EXCEPT !.buf[p][q.heads[p]].rtx = @ + 1]
  ELSE q

(***************************************************************************)
(* Airtight_RegisterSendComplete for the sent copy pkt.  The success path *)
(* records the send (history) and dequeues the head of the packet's       *)
(* priority; the failure path counts the failure, may go HIGH, then       *)
(* either drops the head of the packet's priority (retransmit limit       *)
(* reached by the sent copy) or bumps that head's retransmit count.       *)
(***************************************************************************)
Airtight_RegisterSendComplete(m, pkt, was_acked) ==
  LET p == pkt.priority
      c == pkt.criticality
      valid == ValidPriority(p)
      m1 == Airtight_RegisterFailedAck(m)
      m2 == IF Airtight_CheckShouldGoHigh(m1) THEN Airtight_GoHigh(m1) ELSE m1
  IN IF was_acked /\ ~m.fault_active
     THEN [m EXCEPT !.queue = IF valid THEN Q!PCQ_DequeuePriorityCriticality(@, p, c) ELSE @]
     ELSE IF Airtight_CheckShouldDequeuePacket(pkt)
          THEN [m2 EXCEPT !.queue = IF valid THEN Q!PCQ_DequeuePriorityCriticality(@, p, c) ELSE @]
          ELSE [m2 EXCEPT !.queue = IF valid THEN IncrementHeadRetransmit(@, p, c) ELSE @]

(***************************************************************************)
(* Airtight_HandleReceive: a packet for another node is forwarded through *)
(* Airtight_Enqueue unless a fault is active; a packet for this node is   *)
(* recorded in the receive history and handed to the application.         *)
(***************************************************************************)
Airtight_HandleReceive(m, pkt, uid) ==
  IF pkt.destination # NodeId /\ ~m.fault_active
  THEN Airtight_Enqueue(m, [pkt EXCEPT !.uid = uid])
  ELSE m

-----------------------------------------------------------------------------
(* Actions.                                                                *)

Init ==
  /\ mac = [criticality_mode |-> LOW, fault_active |-> FALSE, acknowledge_fails |-> 0,
            queue |-> Q!PCQ_Init, fault_alarm_set |-> FALSE]
  /\ slot = 255
  /\ radio = <<>>
  /\ sends = 0
  /\ receives = 0
  /\ next_uid = 0

\* App_Tick passing a packet to Airtight_Send.
AppSend ==
  /\ sends < MaxSends
  /\ \E pkt \in AppPackets :
       LET r == Airtight_Send(mac, pkt, next_uid) IN
       /\ mac' = r.mac
       /\ next_uid' = next_uid + r.used
  /\ sends' = sends + 1
  /\ UNCHANGED <<slot, radio, receives>>

(***************************************************************************)
(* Airtight_Slotter_SingleThreadedSlotterTick.  First the fault alarm is  *)
(* polled; if it fires (fired, possible only while it is set) the fault is *)
(* cleared and the alarm unset.  Then, if a slot length has elapsed, the  *)
(* table index advances (8-bit increment, reset at the row count) and the *)
(* MAC does the slot.  A transmission needs room in the radio pipeline    *)
(* (MaxInFlight).  A poll in which no slot elapses is AlarmTick when the  *)
(* alarm fires and a stuttering step otherwise.                           *)
(***************************************************************************)
CheckFaultAlarm(m, fired) ==
  IF m.fault_alarm_set /\ fired
  THEN [m EXCEPT !.fault_active = FALSE, !.fault_alarm_set = FALSE]
  ELSE m

NextSlot(s) == IF (s + 1) % 256 >= SlotTableRows THEN 0 ELSE (s + 1) % 256

SlotterTick ==
  \E fired, in_window \in BOOLEAN :
    LET s == NextSlot(slot)
        r == Airtight_DoSlot(CheckFaultAlarm(mac, fired), s, in_window)
    IN /\ Len(radio) + Len(r.out) <= MaxInFlight
       /\ slot' = s
       /\ mac' = r.mac
       /\ radio' = radio \o r.out
       /\ UNCHANGED <<sends, receives, next_uid>>

AlarmTick ==
  /\ mac.fault_alarm_set
  /\ mac' = CheckFaultAlarm(mac, TRUE)
  /\ UNCHANGED <<slot, radio, sends, receives, next_uid>>

(***************************************************************************)
(* Integration_TransmitStatusHandler for the oldest outstanding frame.    *)
(* Status 0x00 (acked) and 0x01 (no ack) complete a data frame; a         *)
(* notification's status is ignored; any other status (CCA failure,      *)
(* purged) is dropped without informing the MAC.                          *)
(***************************************************************************)
TransmitStatus(status) ==
  /\ radio # <<>>
  /\ LET e == Head(radio) IN
     mac' = IF status \in {"ACK", "NOACK"} /\ ~e.notification
            THEN Airtight_RegisterSendComplete(mac, e.packet, status = "ACK")
            ELSE mac
  /\ radio' = Tail(radio)
  /\ UNCHANGED <<slot, sends, receives, next_uid>>

\* Integration_ReceiveHandler passing a full-length packet to the MAC.
RadioReceive ==
  /\ receives < MaxReceives
  /\ \E pkt \in RadioPackets :
       /\ mac' = Airtight_HandleReceive(mac, pkt, next_uid)
       /\ next_uid' = next_uid + 1
  /\ receives' = receives + 1
  /\ UNCHANGED <<slot, radio, sends>>

\* A status that reaches Airtight_RegisterSendComplete.
CountedStatus ==
  /\ radio # <<>> /\ ~Head(radio).notification
  /\ TransmitStatus("ACK") \/ TransmitStatus("NOACK")

Next ==
  \/ AppSend
  \/ SlotterTick
  \/ AlarmTick
  \/ TransmitStatus("ACK") \/ TransmitStatus("NOACK") \/ TransmitStatus("OTHER")
  \/ RadioReceive

Spec == Init /\ [][Next]_vars

-----------------------------------------------------------------------------
(* Views and properties.                                                   *)

QueuedPackets == UNION {Range(Q!Contents(mac.queue, p)) : p \in Q!Priorities}
Queued(u) == \E pkt \in QueuedPackets : pkt.uid = u

\* Airtight_PacketDataInner's fields the MAC reads, all u8, and the u8
\* local_retransmit_count of Airtight_PacketMeta (rtx); uid is a ghost.
Packet == [uid : Uids \cup {0}, priority : 0 .. 255, criticality : {HIGH, LOW, "OTHER"},
           source : 0 .. 255, destination : 0 .. 255, c_value : 0 .. 255,
           sequence_number : 0 .. 255, rtx : 0 .. 255]

TypeOK ==
  /\ mac.criticality_mode \in {HIGH, LOW}
  /\ mac.fault_active \in BOOLEAN
  /\ mac.fault_alarm_set \in BOOLEAN
  /\ mac.acknowledge_fails \in 0 .. MaxNodeAckFails
  /\ mac.queue.sizes \in [Q!Priorities -> 0 .. QueueSize]
  /\ QueuedPackets \subseteq Packet
  /\ slot \in {255} \cup 0 .. SlotTableRows - 1
  /\ radio \in Seq([packet : Packet \cup {NoPacket}, notification : BOOLEAN])
  /\ next_uid \in 0 .. MaxUid

(***************************************************************************)
(* Criticality escalation (RegisterSendComplete failure path, GoHigh, and *)
(* GoLow in HandleTransmitSlot): the node is in HIGH mode exactly when    *)
(* its accumulated acknowledgement failures have reached the threshold.   *)
(* So T failures in LOW mode always escalate, and leaving HIGH always     *)
(* forgets the failures that caused it.                                   *)
(***************************************************************************)
ModeMatchesAckFails ==
  (mac.criticality_mode = HIGH) <=> (mac.acknowledge_fails >= CriticalityChangeThreshold)

(***************************************************************************)
(* While the node is in HIGH mode, no LOW-criticality packet that this    *)
(* node originated is queued: GoHigh empties the LOW levels and Send      *)
(* admits a packet only at a level of its own criticality and refuses LOW *)
(* packets while HIGH.                                                    *)
(***************************************************************************)
NoLocalLowWhileHigh ==
  mac.criticality_mode = HIGH =>
    \A pkt \in QueuedPackets : pkt.criticality = LOW => pkt.source # NodeId

(***************************************************************************)
(* Forwarding (HandleReceive -> Airtight_Enqueue) obeys the same           *)
(* criticality rules as local traffic, as the protocol description says:  *)
(* while the node is HIGH, no LOW-criticality packet is queued, whoever   *)
(* originated it.                                                          *)
(***************************************************************************)
NoLowQueuedWhileHigh ==
  mac.criticality_mode = HIGH => \A pkt \in QueuedPackets : pkt.criticality # LOW

(***************************************************************************)
(* HandleTransmitSlot demotes the node from HIGH to LOW only when no      *)
(* HIGH-criticality packet is left to send.                               *)
(***************************************************************************)
DemoteOnlyWithoutHighPackets ==
  [][mac.criticality_mode = HIGH /\ mac'.criticality_mode = LOW
       => Q!PCQ_SizeCriticality(mac.queue, HIGH) = 0]_vars

(***************************************************************************)
(* A transmit status removes from the queue only the packet copy that the *)
(* reported frame carried (RegisterSendComplete dequeues "the" packet),   *)
(* apart from the LOW packets that going HIGH clears.                     *)
(***************************************************************************)
StatusStep == radio # <<>> /\ radio' = Tail(radio)
Removed == {pkt \in QueuedPackets : ~Queued(pkt.uid)'}
WentHigh == mac.criticality_mode = LOW /\ mac'.criticality_mode = HIGH

=============================================================================
