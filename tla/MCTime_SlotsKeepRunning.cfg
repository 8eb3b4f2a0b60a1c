CONSTANTS
  Width = 4
  SlotLength = 5
  FaultAlarmDelay = 5
  MaxSkip = 2
  MaxStampsPerPoll = 2
  SyncTimes = {}

SPECIFICATION Spec
PROPERTY SlotsKeepRunning
