-------------------------------- MODULE Time --------------------------------
(***************************************************************************)
(* The clocks of airtight_time.c as the slotter loop drives them.         *)
(*                                                                         *)
(* clock is Airtight_Time_ClockMS, the raw local millisecond count, and   *)
(* last the static of Airtight_Time_GetLocalMonotonicTime.  Both are      *)
(* at_time_t (uint32_t); here they are Width bits wide so that the        *)
(* wrap-around is reached.  time is Airtight_Time (base_local, offset);   *)
(* alarm is the fault alarm (start, at, set).  counter is the slotter's   *)
(* count of slot lengths of synchronised time already served.             *)
(*                                                                         *)
(* One Poll is one iteration of Airtight_Slotter_SingleThreadedSlotterTick*)
(* followed by Airtight_Time_1ms, which returns once the raw clock has    *)
(* moved on, by one millisecond or, after a slow iteration, by up to      *)
(* MaxSkip.  Between polls the MAC reads the synchronised time to stamp   *)
(* packets (Stamp) and a notification may set the synchronisation point.  *)
(*                                                                         *)
(* since and delay are ghost variables: the true milliseconds elapsed     *)
(* since the alarm was set (saturating at delay) and the requested delay. *)
(***************************************************************************)
EXTENDS Integers

CONSTANTS
  Width,             \* bits of at_time_t (32 in the build)
  SlotLength,        \* AT_CONF_SLOT_LENGTH_MS
  FaultAlarmDelay,   \* AT_CONF_SLOT_LENGTH_MS * AT_CONF_FAULT_LENGTH_SLOTS
  MaxSkip,           \* longest raw-clock step between two polls
  MaxStampsPerPoll,  \* synchronised-time reads by the MAC within one millisecond
  SyncTimes          \* reference times carried by synchronisation notifications

Mod == 2 ^ Width
Times == 0 .. Mod - 1

ASSUME /\ Width \in Nat \ {0} /\ SlotLength \in 1 .. Mod - 1
       /\ FaultAlarmDelay \in 1 .. Mod - 1 /\ MaxSkip \in 1 .. Mod - 1
       /\ SyncTimes \subseteq Times

\* Unsigned arithmetic of at_time_t.
U(x) == x % Mod

VARIABLES clock, last, time, alarm, counter, stamps, since, delay

vars == <<clock, last, time, alarm, counter, stamps, since, delay>>

\* A monotonic read whose increment is done in a wider type and never wraps.
Airtight_Time_GetLocalMonotonicTimeNoWrap(clk, lst) == IF clk <= lst THEN lst + 1 ELSE clk

\* Airtight_Time_GetLocalMonotonicTime(): its result, which is also the new last.
Airtight_Time_GetLocalMonotonicTime(clk, lst) == IF clk <= lst THEN U(lst + 1) ELSE clk

Airtight_Time_GetSynchronisedTime(mono, t) == U(mono + t.offset - t.base_local)

\* Airtight_Time_SetSynchronisationPoint: the offset is taken from the raw clock.
Airtight_Time_SetSynchronisationPoint(t, clk, sync_time) ==
  LET current == U(clk + t.offset - t.base_local)
  IN [t EXCEPT !.offset = U(@ + sync_time - current)]

Airtight_Time_SetAlarm(clk, in) == [start |-> clk, at |-> U(clk + in), set |-> TRUE]

\* An alarm check that trusts now >= at without the wrap-around test.
AlarmDueNoWrapTest(a, now) == now >= a.at

\* The fire condition of Airtight_Time_CheckAlarm.
AlarmDue(a, now) == now >= a.at /\ (a.at > a.start \/ now < a.start)

Airtight_Time_CheckAlarm(a, now) ==
  IF a.set /\ AlarmDue(a, now) THEN [a EXCEPT !.set = FALSE] ELSE a

\* Airtight_InitialiseMACState -> Airtight_Time_Init and Airtight_Time_InitAlarm,
\* at program start (clock() near 0); the alarm's fields are zeroed globals.
Init ==
  /\ clock = 0
  /\ last = Airtight_Time_GetLocalMonotonicTime(0, 0)
  /\ time = [base_local |-> Airtight_Time_GetLocalMonotonicTime(0, 0), offset |-> 0]
  /\ alarm = [start |-> 0, at |-> 0, set |-> FALSE]
  /\ counter = 0
  /\ stamps = 0
  /\ since = 0
  /\ delay = 0

(***************************************************************************)
(* Poll: check the alarm against the raw clock; read the synchronised     *)
(* time (one monotonic read); if it has passed counter slot lengths run   *)
(* the slot, in which the fault window may trigger the fault and set the  *)
(* alarm; then wait until the raw clock moves by d.                       *)
(***************************************************************************)
Poll ==
  \E d \in 1 .. MaxSkip, trigger \in BOOLEAN :
    LET a1     == Airtight_Time_CheckAlarm(alarm, clock)
        mono   == Airtight_Time_GetLocalMonotonicTime(clock, last)
        now    == Airtight_Time_GetSynchronisedTime(mono, time)
        doslot == now \div SlotLength > counter
        arm    == doslot /\ trigger /\ ~a1.set
        a2     == IF arm THEN Airtight_Time_SetAlarm(clock, FaultAlarmDelay) ELSE a1
    IN /\ last' = mono
       /\ counter' = IF doslot THEN now \div SlotLength ELSE counter
       /\ alarm' = a2
       /\ clock' = U(clock + d)
       /\ stamps' = 0
       /\ delay' = IF arm THEN FaultAlarmDelay ELSE delay
       /\ since' = IF ~a2.set THEN 0
                   ELSE IF arm THEN d
                   ELSE IF since + d > delay THEN delay ELSE since + d
       /\ UNCHANGED time

\* A read of the synchronised time by Send, Enqueue or a transmit slot.
Stamp ==
  /\ stamps < MaxStampsPerPoll
  /\ last' = Airtight_Time_GetLocalMonotonicTime(clock, last)
  /\ stamps' = stamps + 1
  /\ UNCHANGED <<clock, time, alarm, counter, since, delay>>

\* Airtight_SynchroniseNow on a synchronisation notification.
Synchronise(sync_time) ==
  /\ time' = Airtight_Time_SetSynchronisationPoint(time, clock, sync_time)
  /\ UNCHANGED <<clock, last, alarm, counter, stamps, since, delay>>

Next == Poll \/ Stamp \/ \E s \in SyncTimes : Synchronise(s)

\* The loop never stops polling.
Spec == Init /\ [][Next]_vars /\ WF_vars(Poll)

TypeOK ==
  /\ clock \in Times /\ last \in Times
  /\ time \in [base_local : Times, offset : Times]
  /\ alarm \in [start : Times, at : Times, set : BOOLEAN]
  /\ counter \in 0 .. (Mod - 1) \div SlotLength
  /\ since \in 0 .. delay

(***************************************************************************)
(* Airtight_Time_CheckAlarm never fires early: when a poll disarms the    *)
(* fault alarm, at least the requested delay has really elapsed since     *)
(* SetAlarm, however the raw clock wrapped in between.                    *)
(***************************************************************************)
AlarmNeverEarly ==
  [][clock' # clock /\ alarm.set /\ AlarmDue(alarm, clock) => since >= delay]_vars

(***************************************************************************)
(* "SetAlarm(d) followed by polling after >= d time units returns true":  *)
(* a poll made once the delay has elapsed fires the alarm.                *)
(***************************************************************************)
AlarmFiresWhenDue ==
  [][clock' # clock /\ alarm.set /\ since >= delay => AlarmDue(alarm, clock)]_vars

(***************************************************************************)
(* The slotter keeps running slots: infinitely often a poll finds that a  *)
(* further slot length of synchronised time has passed.                   *)
(***************************************************************************)
SlotsKeepRunning == []<><<counter' # counter>>_vars

(***************************************************************************)
(* SetSynchronisationPoint "recomputes the offset so that the next        *)
(* GetSynchronizedTime() call reflects the supplied reference value": a   *)
(* read taken right after Airtight_SynchroniseNow returns the reference,  *)
(* give or take the one unit by which a monotonic read may step past the  *)
(* previous one.                                                           *)
(***************************************************************************)
NextRead(t) ==
  Airtight_Time_GetSynchronisedTime(Airtight_Time_GetLocalMonotonicTime(clock, last), t)

SyncReadsReference ==
  [][\A s \in SyncTimes : Synchronise(s) => U(NextRead(time') - s) <= 1]_vars

=============================================================================
