------------------------------ MODULE PCQSpec ------------------------------
(***************************************************************************)
(* What the priority-criticality queue promises, without ring buffers:    *)
(* one bounded FIFO sequence per priority level.  Scans across levels     *)
(* take the lowest-numbered priority that qualifies; a full level either   *)
(* rejects a new packet or drops its oldest one, by one global policy.    *)
(***************************************************************************)
EXTENDS Naturals, Sequences

CONSTANTS NumPriorities, QueueSize, Criticalities, RejectWhenFull, Packets

VARIABLE queues

Priorities == 0 .. NumPriorities - 1
Crits == {"HIGH", "LOW"}

Qualifying(crit) ==
  {p \in Priorities : queues[p] # <<>> /\ (crit = "ANY" \/ Criticalities[p] = crit)}
First(S) == CHOOSE p \in S : \A o \in S : p <= o

\* The packet a head query returns; only meaningful when a level qualifies.
HeadAt(crit) == Head(queues[First(Qualifying(crit))])

Init == queues = [p \in Priorities |-> <<>>]

Enqueue ==
  \E pkt \in Packets :
    LET p == pkt.priority IN
    \/ /\ Len(queues[p]) < QueueSize
       /\ queues' = [queues EXCEPT ![p] = Append(@, pkt)]
    \/ /\ Len(queues[p]) = QueueSize
       /\ IF RejectWhenFull
          THEN UNCHANGED queues
          ELSE queues' = [queues EXCEPT ![p] = Append(Tail(@), pkt)]

\* Remove the oldest entry of the first qualifying level, if any.
DequeueFrom(S) ==
  IF S = {} THEN UNCHANGED queues
  ELSE queues' = [queues EXCEPT ![First(S)] = Tail(@)]

Dequeue == DequeueFrom(Qualifying("ANY"))
DequeuePriority == \E p \in Priorities : DequeueFrom(Qualifying("ANY") \cap {p})
DequeueCriticality == \E c \in Crits : DequeueFrom(Qualifying(c))
DequeuePriorityCriticality ==
  \E p \in Priorities, c \in Crits : DequeueFrom(Qualifying(c) \cap {p})

\* Empty every level of a given set.
ClearLevels(S) == queues' = [p \in Priorities |-> IF p \in S THEN <<>> ELSE queues[p]]

Clear == ClearLevels(Priorities)
ClearPriority == \E p \in Priorities : ClearLevels({p})
ClearCriticality == \E c \in Crits : ClearLevels({p \in Priorities : Criticalities[p] = c})
ClearPriorityCriticality ==
  \E p \in Priorities, c \in Crits : ClearLevels({p} \cap {o \in Priorities : Criticalities[o] = c})

Next ==
  \/ Enqueue
  \/ Dequeue \/ DequeuePriority \/ DequeueCriticality \/ DequeuePriorityCriticality
  \/ Clear \/ ClearPriority \/ ClearCriticality \/ ClearPriorityCriticality

Spec == Init /\ [][Next]_queues

=============================================================================
