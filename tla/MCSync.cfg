\* Three nodes, 3-bit slot index and 4-bit local_slot: the u16 count wraps.
CONSTANTS
  Nodes = {n1, n2, n3}
  SyncNodeId = n1
  SlotBits = 3
  LocalBits = 4
  SlotTableRows = 4
  SyncSlotIndex = 0
  AppPeriod <- MCAppPeriod
  MaxSlots = 20
SPECIFICATION Spec
SYMMETRY ReceiverSymmetry
CONSTRAINT WithinBound
INVARIANT TypeOK
INVARIANT LocalSlotCounts
INVARIANT AppTickPeriodic
