CONSTANTS
  Width = 4
  SlotLength = 5
  FaultAlarmDelay = 5
  MaxSkip = 2
  MaxStampsPerPoll = 2
  SyncTimes = {2, 11}

SPECIFICATION Spec
PROPERTY SyncReadsReference
