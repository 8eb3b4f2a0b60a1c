------------------------------ MODULE History ------------------------------
(***************************************************************************)
(* The fixed-length event history of airtight_history.c: an array         *)
(* queue[0..HistorySize-1], a head index and a size.  The MAC keeps two   *)
(* (sent and received records) and only pushes; Pop and Get are the       *)
(* module's diagnostic API.                                               *)
(*                                                                         *)
(* log is a ghost variable: the records the history stands for, most      *)
(* recently pushed first and at most HistorySize of them (the meaning the *)
(* header gives index 0, "nearest", and ageing out by overwrite).         *)
(***************************************************************************)
EXTENDS Naturals, Sequences

CONSTANTS
  HistorySize,   \* AT_CONF_HISTORY_SIZE
  Records,       \* record values pushed (flow id and sequence abstracted)
  NoRecord       \* content of an entry never written (zeroed static storage)

ASSUME HistorySize \in Nat \ {0} /\ NoRecord \notin Records

Indices == 0 .. HistorySize - 1

VARIABLES history, log

vars == <<history, log>>

\* Airtight_History_Init; the array itself is the zeroed global MAC state.
Init ==
  /\ history = [head |-> 0, size |-> 0, queue |-> [i \in Indices |-> NoRecord]]
  /\ log = <<>>

(***************************************************************************)
(* Airtight_History_Push: while not full only the size grows (the head    *)
(* stays where it is); once full the head advances, wrapping at the end.  *)
(* The record is then written at the (new) head.                          *)
(***************************************************************************)
Airtight_History_Push(h, r) ==
  LET h1 == IF h.size < HistorySize THEN [h EXCEPT !.size = @ + 1]
            ELSE [h EXCEPT !.head = IF @ = HistorySize - 1 THEN 0 ELSE @ + 1]
  IN [h1 EXCEPT !.queue[h1.head] = r]

\* Airtight_History_Pop: returns queue[head], then moves the head back.
Airtight_History_Pop(h) ==
  [h EXCEPT !.size = @ - 1, !.head = IF @ = 0 THEN HistorySize - 1 ELSE @ - 1]

\* Airtight_History_Get: the record at (index + head) % SIZE if index < size,
\* as a one-element set; the empty set is the false return.
Airtight_History_Get(h, index) ==
  IF index >= h.size THEN {} ELSE {h.queue[(index + h.head) % HistorySize]}

Push ==
  \E r \in Records :
    /\ history' = Airtight_History_Push(history, r)
    /\ log' = SubSeq(<<r>> \o log, 1, IF Len(log) < HistorySize THEN Len(log) + 1
                                                                ELSE HistorySize)

Pop ==
  /\ history.size > 0
  /\ history' = Airtight_History_Pop(history)
  /\ log' = Tail(log)

Next == Push \/ Pop

Spec == Init /\ [][Next]_vars

TypeOK ==
  /\ history.head \in Indices
  /\ history.size \in 0 .. HistorySize
  /\ history.queue \in [Indices -> Records \cup {NoRecord}]
  /\ log \in Seq(Records)

(***************************************************************************)
(* Get reads the history as a most-recent-first ring: Get(i) succeeds     *)
(* exactly for the i records still held, and returns the i-th most        *)
(* recently pushed of them, across pushes, pops and overwrites.  The MAC  *)
(* pushes its send and receive records with Push and they are read back   *)
(* with Get.                                                               *)
(***************************************************************************)
GetFollowsLog ==
  \A i \in Indices :
    Airtight_History_Get(history, i) = IF i < Len(log) THEN {log[i + 1]} ELSE {}

=============================================================================
