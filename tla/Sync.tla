-------------------------------- MODULE Sync --------------------------------
(***************************************************************************)
(* Slot synchronisation between nodes: the slot counters of               *)
(* Airtight_DoSlot, the sync node's broadcast in Airtight_HandleBroadcast- *)
(* Sync, and Airtight_HandleNotificationReceive -> Airtight_SynchroniseNow *)
(* on the other nodes, with main's slot-table index and the slotter's     *)
(* elapsed-slot test on each node.                                        *)
(*                                                                         *)
(* Per node n:                                                             *)
(*   row[n]      main's `slot` (at_u8_t, 0xff at start), the table index  *)
(*   cur[n]      mac_state.current_slot  (at_u8_t)                         *)
(*   prev[n]     mac_state.previous_slot (at_u8_t)                         *)
(*   local[n]    mac_state.local_slot    (at_u16_t)                        *)
(*   now[n]      the synchronised time, in whole slot lengths             *)
(*   counter[n]  main's `counter` (slot lengths already served)           *)
(* u8 and u16 are SlotBits and LocalBits wide.  Time is counted in slot   *)
(* lengths: the phase within a slot, the monotonic inflation and the wrap *)
(* of at_time_t are the subject of Time.tla and are left out here.        *)
(*                                                                         *)
(* The transmit-slot branch of DoSlot, which neither reads nor writes the *)
(* slot counters except to copy local_slot into packet metadata, is       *)
(* modelled in Mac.tla.                                                    *)
(*                                                                         *)
(* Ghosts: served[n] counts the slots node n has run since it last        *)
(* synchronised, and synced the nodes that have synchronised at all.      *)
(***************************************************************************)
EXTENDS Naturals, Sequences

CONSTANTS
  Nodes,           \* node ids
  SyncNodeId,      \* AT_CONF_SYNC_NODE_ID
  SlotBits,        \* width of at_u8_t (8 in the build)
  LocalBits,       \* width of at_u16_t (16 in the build)
  SlotTableRows,   \* AT_CONF_SLOT_TABLE_ROWS
  SyncSlotIndex,   \* AT_CONF_SYNC_SLOT_INDEX
  MaxSlots,        \* slot lengths of real time explored (a state constraint)
  AppPeriod        \* App_Tick's send period per node in slots (0: never sends)

SlotMod == 2 ^ SlotBits
LocalMod == 2 ^ LocalBits

ASSUME /\ SyncNodeId \in Nodes
       /\ SlotTableRows \in 1 .. SlotMod - 1 /\ SyncSlotIndex \in 0 .. SlotTableRows - 1
       /\ SlotBits <= LocalBits /\ MaxSlots \in Nat
       /\ AppPeriod \in [Nodes -> Nat]

Receivers == Nodes \ {SyncNodeId}

VARIABLES row, cur, prev, local, now, counter, running, radio,
          served, synced,
          last_slot, slot_counter, ticked, app_sent, ran

\* App_Tick's statics, whether it has run since the last slot, and ghosts.
app == <<last_slot, slot_counter, ticked, app_sent, ran>>

vars == <<row, cur, prev, local, now, counter, running, radio, served, synced, app>>

(***************************************************************************)
(* A notification on the air: sync_slot is the 16-bit field, sync_time the *)
(* time; to is the set of running receivers that have neither heard nor   *)
(* missed it yet (a broadcast is heard, or lost, by each XBee on its own). *)
(***************************************************************************)
Notifications == [sync_slot : 0 .. LocalMod - 1, sync_time : Nat, to : SUBSET Receivers]

\* The air after receiver n has heard or missed the broadcast at its head.
Delivered(air, n) ==
  IF Head(air).to = {n} THEN Tail(air)
  ELSE <<[Head(air) EXCEPT !.to = @ \ {n}]>> \o Tail(air)

(***************************************************************************)
(* Airtight_InitialiseMACState: current_slot = 0xff, previous_slot = 0xfe,*)
(* local_slot = 0; Airtight_Time_Init starts the synchronised time at 0;  *)
(* main starts slot at 0xff and counter at 0.  Only the sync node is      *)
(* running at first; the others are started later ("Press enter").        *)
(***************************************************************************)
Init ==
  /\ row = [n \in Nodes |-> SlotMod - 1]
  /\ cur = [n \in Nodes |-> SlotMod - 1]
  /\ prev = [n \in Nodes |-> SlotMod - 2]
  /\ local = [n \in Nodes |-> 0]
  /\ now = [n \in Nodes |-> 0]
  /\ counter = [n \in Nodes |-> 0]
  /\ running = {SyncNodeId}
  /\ radio = <<>>
  /\ served = [n \in Nodes |-> 0]
  /\ synced = {}
  /\ last_slot = [n \in Nodes |-> 0]
  /\ slot_counter = [n \in Nodes |-> 0]
  /\ ticked = [n \in Nodes |-> FALSE]
  /\ app_sent = [n \in Nodes |-> 0]
  /\ ran = [n \in Nodes |-> 0]

\* The slotter's index step: (*slot)++ on a u8, back to 0 at the table end.
NextRow(s) == IF (s + 1) % SlotMod >= SlotTableRows THEN 0 ELSE (s + 1) % SlotMod

\* A DoSlot that stores the index in current_slot and then compares it
\* with current_slot, so it never counts.
LocalSlotStep_StoreFirst(c, p, s) == LET stored == s IN stored # s

\* The local_slot increment test of Airtight_DoSlot: previous_slot != slot.
LocalSlotStep(c, p, s) == p # s

(***************************************************************************)
(* Airtight_Slotter_SingleThreadedSlotterTick on node n, when a slot      *)
(* length has elapsed: the index advances and Airtight_DoSlot runs:       *)
(* current_slot takes the index, local_slot counts up if previous_slot    *)
(* differs from it, previous_slot takes the old current_slot, and in the  *)
(* sync slot the sync node broadcasts its local_slot and time             *)
(* (Airtight_HandleBroadcastSync -> Integration_NotificationHandler).     *)
(***************************************************************************)
Slot(n) ==
  /\ n \in running /\ ticked[n]
  /\ now[n] > counter[n]
  /\ LET s  == NextRow(row[n])
         ls == IF LocalSlotStep(cur[n], prev[n], s) THEN (local[n] + 1) % LocalMod
               ELSE local[n]
     IN /\ row' = [row EXCEPT ![n] = s]
        /\ cur' = [cur EXCEPT ![n] = s]
        /\ local' = [local EXCEPT ![n] = ls]
        /\ prev' = [prev EXCEPT ![n] = cur[n]]
        /\ counter' = [counter EXCEPT ![n] = now[n]]
        \* a broadcast no running receiver can hear leaves nothing on the air
        /\ radio' = IF s = SyncSlotIndex /\ n = SyncNodeId /\ running \cap Receivers # {}
                    THEN Append(radio, [sync_slot |-> ls, sync_time |-> now[n],
                                        to |-> running \cap Receivers])
                    ELSE radio
        /\ served' = [served EXCEPT ![n] = @ + 1]
        /\ ran' = [ran EXCEPT ![n] = @ + 1]
        /\ ticked' = [ticked EXCEPT ![n] = FALSE]
  /\ UNCHANGED <<now, running, synced, last_slot, slot_counter, app_sent>>

\* A SynchroniseNow that adds slot_difference without the u8 wrap.
Airtight_SynchroniseNowUnwrapped(n, sync_slot, sync_time) ==
  LET slot8 == sync_slot % SlotMod
      diff  == slot8 - local[n]
  IN /\ local' = [local EXCEPT ![n] = slot8]
     /\ cur' = [cur EXCEPT ![n] = @ + diff]
     /\ prev' = [prev EXCEPT ![n] = @ + diff]
     /\ now' = [now EXCEPT ![n] = sync_time]

(***************************************************************************)
(* Airtight_SynchroniseNow(mac_state, sync_slot, sync_time): the at_u8_t  *)
(* parameter keeps the low SlotBits of the 16-bit field; slot_difference  *)
(* (an at_i16_t; its wrap does not change the u8 sums below) shifts       *)
(* current_slot and previous_slot; local_slot takes the truncated value;  *)
(* SetSynchronisationPoint sets the synchronised time to sync_time        *)
(* (AT_CONF_SYNC_TIME_OFFSET, defined nowhere, taken as 0).               *)
(***************************************************************************)
Airtight_SynchroniseNow(n, sync_slot, sync_time) ==
  LET slot8 == sync_slot % SlotMod
      diff  == slot8 - local[n]
  IN /\ local' = [local EXCEPT ![n] = slot8]
     /\ cur' = [cur EXCEPT ![n] = (@ + diff) % SlotMod]
     /\ prev' = [prev EXCEPT ![n] = (@ + diff) % SlotMod]
     /\ now' = [now EXCEPT ![n] = sync_time]

(***************************************************************************)
(* Integration_ReceiveHandler on node n for the broadcast at the head of  *)
(* the air: an 8-byte frame is a notification, and                        *)
(* Airtight_HandleNotificationReceive synchronises unless n is the sync   *)
(* node.  A node that is not running yet does not hear it.                *)
(***************************************************************************)
Receive(n) ==
  /\ radio # <<>>
  /\ n \in running \cap Head(radio).to
  /\ Airtight_SynchroniseNow(n, Head(radio).sync_slot, Head(radio).sync_time)
  /\ radio' = Delivered(radio, n)
  /\ served' = [served EXCEPT ![n] = 0]
  /\ synced' = synced \cup {n}
  /\ UNCHANGED <<row, counter, running, app>>

\* A broadcast is not acknowledged: receiver n's XBee may miss it.
Lose(n) ==
  /\ radio # <<>>
  /\ n \in Head(radio).to
  /\ radio' = Delivered(radio, n)
  /\ UNCHANGED <<row, cur, prev, local, now, counter, running, served, synced, app>>

\* main() on a receiver, after "Press enter": Airtight_InitialiseMACState.
Start(n) ==
  /\ n \in Receivers \ running
  /\ running' = running \cup {n}
  /\ UNCHANGED <<row, cur, prev, local, now, counter, radio, served, synced, app>>

(***************************************************************************)
(* A slot length of real time passes on every running node's clock.  A    *)
(* node polls every millisecond and a frame takes milliseconds, so before *)
(* the next slot boundary each node has run its due slot and the air is   *)
(* clear.                                                                  *)
(***************************************************************************)
Elapse ==
  /\ radio = <<>>
  /\ \A n \in running : counter[n] >= now[n]
  /\ now' = [n \in Nodes |-> IF n \in running THEN now[n] + 1 ELSE now[n]]
  /\ UNCHANGED <<row, cur, prev, local, counter, running, radio, served, synced, app>>

\* An App_Tick that sends whenever the count is a multiple of the period.
AppTickSendsUnincremented(inc, sc, period) == period # 0 /\ sc % period = 0

\* App_Tick's send test: slot_counter % period == 0 && incremented.
AppTickSends(inc, sc, period) == period # 0 /\ sc % period = 0 /\ inc

(***************************************************************************)
(* App_Tick(slot) at the top of every iteration of main's loop on node n, *)
(* with main's slot index: a change of index since the last call counts   *)
(* in the u8 slot_counter, and every AppPeriod[n]-th count the node       *)
(* passes a packet to Airtight_Send (whose queueing is Mac.tla's subject).*)
(***************************************************************************)
AppTick(n) ==
  /\ n \in running
  /\ LET inc == row[n] # last_slot[n]
         sc  == IF inc THEN (slot_counter[n] + 1) % SlotMod ELSE slot_counter[n]
     IN /\ last_slot' = [last_slot EXCEPT ![n] = row[n]]
        /\ slot_counter' = [slot_counter EXCEPT ![n] = sc]
        /\ app_sent' = [app_sent EXCEPT ![n] =
                           IF AppTickSends(inc, sc, AppPeriod[n]) THEN @ + 1 ELSE @]
  /\ ticked' = [ticked EXCEPT ![n] = TRUE]
  /\ UNCHANGED <<row, cur, prev, local, now, counter, running, radio, served, synced, ran>>

Next ==
  \/ Elapse
  \/ \E n \in Nodes : Slot(n) \/ Receive(n) \/ Lose(n) \/ Start(n) \/ AppTick(n)

Spec == Init /\ [][Next]_vars

\* The part of the endless run that is explored: MaxSlots slot lengths.
WithinBound == now[SyncNodeId] <= MaxSlots

TypeOK ==
  /\ row \in [Nodes -> 0 .. SlotMod - 1]
  /\ cur \in [Nodes -> 0 .. SlotMod - 1]
  /\ prev \in [Nodes -> 0 .. SlotMod - 1]
  /\ local \in [Nodes -> 0 .. LocalMod - 1]
  /\ now \in [Nodes -> Nat] /\ counter \in [Nodes -> Nat]
  /\ running \subseteq Nodes /\ synced \subseteq Receivers
  /\ radio \in Seq(Notifications)
  /\ last_slot \in [Nodes -> 0 .. SlotMod - 1] /\ slot_counter \in [Nodes -> 0 .. SlotMod - 1]

(***************************************************************************)
(* A node that has not synchronised counts every slot it runs in          *)
(* local_slot ("keeps incrementing"), modulo the u16: Airtight_DoSlot's   *)
(* previous_slot test never misses one, from the 0xff/0xfe start values   *)
(* on and across the wrap of the u8 index.                                 *)
(***************************************************************************)
LocalSlotCounts ==
  \A n \in Nodes \ synced : local[n] = served[n] % LocalMod

(***************************************************************************)
(* App_Tick sends once per AppPeriod slots, across synchronisations and   *)
(* the wrap of its u8 counter: once it has seen the index of the latest  *)
(* slot, a node has sent (slots run + 1) \div AppPeriod packets (the 0xff *)
(* start index counts as one change), and never more however often the   *)
(* loop calls it within a slot.                                          *)
(***************************************************************************)
AppTickPeriodic ==
  \A n \in running : AppPeriod[n] # 0 =>
    app_sent[n] = (ran[n] + IF ticked[n] THEN 1 ELSE 0) \div AppPeriod[n]

(***************************************************************************)
(* After synchronisation the nodes run the same slot-table row: once a    *)
(* synchronised node and the sync node have both served every elapsed     *)
(* slot, their table indices agree.                                        *)
(***************************************************************************)
RowsAligned ==
  \A n \in synced :
    counter[n] = now[n] /\ counter[SyncNodeId] = now[SyncNodeId]
      => row[n] = row[SyncNodeId]

=============================================================================
