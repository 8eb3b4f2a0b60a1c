-------------------------------- MODULE PCQ --------------------------------
(***************************************************************************)
(* The priority-criticality queue of airtight_priority_critical_queue.c.  *)
(*                                                                         *)
(* One circular buffer per priority level: buf[p][0..QueueSize-1], a head  *)
(* index heads[p] and an occupancy sizes[p].  Each level carries a fixed   *)
(* criticality, Criticalities[p] (the _CRITICALITIES table copied in by    *)
(* Airtight_PCQ_Init and never changed afterwards).                        *)
(*                                                                         *)
(* The operators below are pure: each takes a queue value and returns the  *)
(* new queue value (or a result), so that the MAC module can call them the *)
(* way airtight_mac.c calls the C functions.  The module also has a        *)
(* standalone specification, one action per mutating function, used to    *)
(* show that the ring buffers implement per-priority FIFO sequences        *)
(* (PCQSpec).                                                              *)
(***************************************************************************)
EXTENDS Naturals, Sequences, FiniteSetsExt

CONSTANTS
  NumPriorities,   \* PRIORITY_CRITICAL_QUEUE_PRIORITIES
  QueueSize,       \* PRIORITY_CRITICAL_QUEUE_SIZE
  Criticalities,   \* AT_CONF_CRITICALITIES: priority -> criticality
  RejectWhenFull,  \* REJECT_WHEN_BUFFER_FULL (the build uses 0, i.e. FALSE)
  NoPacket,        \* content of a buffer slot never written
  Packets          \* packets offered to the standalone specification

Priorities == 0 .. NumPriorities - 1
Slots == 0 .. QueueSize - 1

ASSUME /\ NumPriorities \in Nat \ {0}
       /\ QueueSize \in Nat \ {0}
       /\ Criticalities \in [Priorities -> {"HIGH", "LOW"}]
       /\ RejectWhenFull \in BOOLEAN

\* MOD_SIZE, INC_INDEX, INC_COUNT and DEC_COUNT of the C file.
IncIndex(x) == (x + 1) % QueueSize
\* A count increment that forgets the saturation at the buffer size.
IncCountUnbounded(x) == x + 1
IncCount(x) == IF x = QueueSize THEN QueueSize ELSE x + 1
DecCount(x) == IF x = 0 THEN 0 ELSE x - 1

(***************************************************************************)
(* Airtight_PCQ_Init.                                                      *)
(***************************************************************************)
PCQ_Init ==
  [buf   |-> [p \in Priorities |-> [i \in Slots |-> NoPacket]],
   heads |-> [p \in Priorities |-> 0],
   sizes |-> [p \in Priorities |-> 0]]

\* The levels a scan "for (i = 0; i < PRIORITIES; i++)" stops at, lowest first.
NonEmpty(q) == {p \in Priorities : q.sizes[p] > 0}
NonEmptyAt(q, crit) == {p \in NonEmpty(q) : Criticalities[p] = crit}
Lowest(S) == CHOOSE p \in S : \A o \in S : p <= o

HeadOf(q, p) == q.buf[p][q.heads[p]]

(***************************************************************************)
(* Read-only queries.  Airtight_PCQ_Head returns the head of the lowest    *)
(* non-empty priority.  Airtight_PCQ_HeadCriticality and                   *)
(* Airtight_PCQ_HeadPriority copy a packet out (in HeadCriticality the    *)
(* last matching level wins the copy) but return false on every path, so *)
(* the "found" result they give is FALSE whatever the queue holds.  The   *)
(* *P variants return a pointer: whether it is non-NULL, and the packet   *)
(* it points at.                                                           *)
(***************************************************************************)
PCQ_HasHead(q) == NonEmpty(q) # {}
PCQ_Head(q) == HeadOf(q, Lowest(NonEmpty(q)))
PCQ_HeadCriticalityFound(q, crit) == FALSE
PCQ_HeadCriticality(q, crit) ==
  HeadOf(q, CHOOSE p \in NonEmptyAt(q, crit) : \A o \in NonEmptyAt(q, crit) : p >= o)
PCQ_HeadPriorityCriticalityP(q, p, crit) ==
  q.sizes[p] > 0 /\ Criticalities[p] = crit

\* Airtight_PCQ_HeadPriority copies the head of level p but returns false.
PCQ_HeadPriorityFound(q, p) == FALSE
\* Airtight_PCQ_HeadPriorityCriticality: found, and then the head of level p.
PCQ_HeadPriorityCriticalityFound(q, p, crit) ==
  q.sizes[p] > 0 /\ Criticalities[p] = crit
\* Airtight_PCQ_HeadPriorityP: non-NULL when level p is non-empty.
PCQ_HeadPriorityP(q, p) == q.sizes[p] > 0
\* Airtight_PCQ_HeadCriticalityP: the head of the first matching level.
PCQ_HeadCriticalityP(q, crit) == HeadOf(q, Lowest(NonEmptyAt(q, crit)))

\* The Size* functions: the occupancies of the levels they select, summed.
SumSizes(q, S) == MapThenSumSet(LAMBDA p : q.sizes[p], S)
PCQ_Size(q) == SumSizes(q, Priorities)
PCQ_SizePriority(q, p) == q.sizes[p]
PCQ_SizeCriticality(q, crit) ==
  SumSizes(q, {p \in Priorities : Criticalities[p] = crit})
PCQ_SizePriorityCriticality(q, p, crit) ==
  IF Criticalities[p] = crit THEN q.sizes[p] ELSE 0

(***************************************************************************)
(* Airtight_PCQ_Enqueue: write at (head + size) % SIZE; on a full level    *)
(* either reject or advance the head past the oldest entry (which the      *)
(* write then overwrites).  The insertion index is computed before the     *)
(* head moves.                                                             *)
(***************************************************************************)
\* An Enqueue that advances the head of a full level before taking the
\* insertion index from it.
PCQ_EnqueueAfterAdvance(q, pkt) ==
  LET p    == pkt.priority
      full == q.sizes[p] = QueueSize
      q1   == IF full THEN [q EXCEPT !.heads[p] = IncIndex(@)] ELSE q
      ins  == (q1.heads[p] + q1.sizes[p]) % QueueSize
  IN IF full /\ RejectWhenFull THEN q
     ELSE [q1 EXCEPT !.buf[p][ins] = pkt, !.sizes[p] = IncCount(@)]

PCQ_Enqueue(q, pkt) ==
  LET p   == pkt.priority
      ins == (q.heads[p] + q.sizes[p]) % QueueSize
      full == q.sizes[p] = QueueSize
  IN IF full /\ RejectWhenFull
     THEN q
     ELSE [q EXCEPT !.buf[p][ins] = pkt,
                    !.heads[p]    = IF full THEN IncIndex(@) ELSE @,
                    !.sizes[p]    = IncCount(@)]

\* Removing the head of level p: the common tail of every Dequeue variant.
PopLevel(q, p) ==
  [q EXCEPT !.sizes[p] = DecCount(@), !.heads[p] = IncIndex(@)]

\* Airtight_PCQ_Dequeue
PCQ_Dequeue(q) ==
  IF NonEmpty(q) = {} THEN q ELSE PopLevel(q, Lowest(NonEmpty(q)))

\* Airtight_PCQ_DequeuePriority
PCQ_DequeuePriority(q, p) ==
  IF q.sizes[p] > 0 THEN PopLevel(q, p) ELSE q

\* Airtight_PCQ_DequeueCriticality
PCQ_DequeueCriticality(q, crit) ==
  IF NonEmptyAt(q, crit) = {} THEN q ELSE PopLevel(q, Lowest(NonEmptyAt(q, crit)))

\* Airtight_PCQ_DequeuePriorityCriticality
PCQ_DequeuePriorityCriticality(q, p, crit) ==
  IF q.sizes[p] > 0 /\ Criticalities[p] = crit THEN PopLevel(q, p) ELSE q

\* Airtight_PCQ_Clear*: occupancy is reset, heads are left where they are.
PCQ_Clear(q) == [q EXCEPT !.sizes = [p \in Priorities |-> 0]]
PCQ_ClearPriority(q, p) == [q EXCEPT !.sizes[p] = 0]
PCQ_ClearCriticality(q, crit) ==
  [q EXCEPT !.sizes = [p \in Priorities |->
                         IF Criticalities[p] = crit THEN 0 ELSE @[p]]]
PCQ_ClearPriorityCriticality(q, p, crit) ==
  IF Criticalities[p] = crit THEN [q EXCEPT !.sizes[p] = 0] ELSE q

\* The entries of level p, oldest first: what the ring buffer stands for.
Contents(q, p) ==
  [i \in 1 .. q.sizes[p] |-> q.buf[p][(q.heads[p] + i - 1) % QueueSize]]

-----------------------------------------------------------------------------
(***************************************************************************)
(* Standalone specification: any sequence of calls to the mutating         *)
(* functions, with packets from Packets.                                   *)
(***************************************************************************)
VARIABLE pcq

Crits == {"HIGH", "LOW"}

Init == pcq = PCQ_Init

Enqueue == \E pkt \in Packets : pcq' = PCQ_Enqueue(pcq, pkt)
Dequeue == pcq' = PCQ_Dequeue(pcq)
DequeuePriority == \E p \in Priorities : pcq' = PCQ_DequeuePriority(pcq, p)
DequeueCriticality == \E c \in Crits : pcq' = PCQ_DequeueCriticality(pcq, c)
DequeuePriorityCriticality ==
  \E p \in Priorities, c \in Crits : pcq' = PCQ_DequeuePriorityCriticality(pcq, p, c)
Clear == pcq' = PCQ_Clear(pcq)
ClearPriority == \E p \in Priorities : pcq' = PCQ_ClearPriority(pcq, p)
ClearCriticality == \E c \in Crits : pcq' = PCQ_ClearCriticality(pcq, c)
ClearPriorityCriticality ==
  \E p \in Priorities, c \in Crits : pcq' = PCQ_ClearPriorityCriticality(pcq, p, c)

Next ==
  \/ Enqueue
  \/ Dequeue \/ DequeuePriority \/ DequeueCriticality \/ DequeuePriorityCriticality
  \/ Clear \/ ClearPriority \/ ClearCriticality \/ ClearPriorityCriticality

Spec == Init /\ [][Next]_pcq

TypeOK ==
  /\ pcq.heads \in [Priorities -> Slots]
  /\ pcq.sizes \in [Priorities -> 0 .. QueueSize]
  /\ pcq.buf \in [Priorities -> [Slots -> Packets \cup {NoPacket}]]

=============================================================================
