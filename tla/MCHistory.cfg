CONSTANTS
  HistorySize = 3
  Records = {r1, r2, r3}
  NoRecord = NoRecord

SPECIFICATION Spec
INVARIANT GetFollowsLog
