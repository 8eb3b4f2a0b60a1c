CONSTANTS
  NumPriorities = 3
  QueueSize = 2
  Criticalities <- MCCriticalities
  RejectWhenFull = FALSE
  NoPacket = NoPacket
  Packets <- MCPackets

SPECIFICATION Spec
INVARIANT TypeOK
PROPERTY PCQRefinement
