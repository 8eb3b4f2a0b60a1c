------------------------------- MODULE MCSync -------------------------------
(***************************************************************************)
(* Model-checking instance of Sync: n1 is the sync node, n2 and n3       *)
(* receivers.  App_Tick's periods are those of the build's two sending   *)
(* nodes (32 and 16 slots) scaled with the u8 counter: each divides the   *)
(* counter's range, as 32 and 16 divide 256.                              *)
(***************************************************************************)
EXTENDS Sync, TLC

MCAppPeriod == [n \in Nodes |-> IF n = SyncNodeId THEN 4 ELSE 2]

\* The receivers are interchangeable: same period, same start state.
ReceiverSymmetry == Permutations(Receivers)

=============================================================================
