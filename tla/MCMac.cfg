CONSTANTS
  NodeId = 1
  SyncNodeId = 1
  NumPriorities = 3
  QueueSize = 2
  Criticalities <- MCCriticalities
  RejectWhenFull = FALSE
  NoPacket = NoPacket
  CriticalityChangeThreshold = 2
  MaxNodeAckFails = 5
  MaxCValue = 2
  RetransmissionLimitLow = 2
  RetransmissionLimitHigh = 4
  ClearLowPacketsOnHigh = TRUE
  DiscardLowWhileHigh = TRUE
  FaultWindowWired = TRUE
  SlotTableRows = 4
  SlotTable <- MCSlotTable
  SyncSlotIndex = 0
  AppPackets <- MCAppPackets
  RadioPackets <- MCRadioPackets
  MaxSends = 2
  MaxReceives = 1
  MaxInFlight = 2

SPECIFICATION Spec
INVARIANT TypeOK
INVARIANT ModeMatchesAckFails
INVARIANT NoLocalLowWhileHigh
