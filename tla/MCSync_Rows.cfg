\* Rows of a synchronised receiver against the sync node.
CONSTANTS
  Nodes = {n1, n2, n3}
  SyncNodeId = n1
  SlotBits = 3
  LocalBits = 4
  SlotTableRows = 4
  SyncSlotIndex = 0
  AppPeriod <- MCAppPeriod
  MaxSlots = 7
SPECIFICATION Spec
CONSTRAINT WithinBound
INVARIANT RowsAligned
