------------------------------- MODULE MCPCQ -------------------------------
(***************************************************************************)
(* Model-checking instance of PCQ: three priorities with the build's      *)
(* criticality table {LOW, LOW, HIGH}, two slots per level so that heads   *)
(* wrap and full levels overwrite, and two distinct packets per priority. *)
(***************************************************************************)
EXTENDS PCQ

MCCriticalities == [p \in 0 .. 2 |-> IF p = 2 THEN "HIGH" ELSE "LOW"]
MCPackets == [priority : 0 .. 2, id : {1, 2}]

\* The ring buffers read as sequences, oldest first.
Abs == INSTANCE PCQSpec WITH queues <- [p \in Priorities |-> Contents(pcq, p)]

(***************************************************************************)
(* Every sequence of Enqueue/Dequeue*/Clear* calls on the ring buffers is  *)
(* a behaviour of the per-priority FIFO specification: head/size index     *)
(* arithmetic, the evict-oldest overwrite and the criticality filters of  *)
(* the scans all agree with PCQSpec.                                       *)
(***************************************************************************)
PCQRefinement == Abs!Spec

=============================================================================
