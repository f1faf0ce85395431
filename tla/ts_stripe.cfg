SPECIFICATION Spec
CONSTANTS
  Mult = 2
  Elems = 3
  PacketSize = 2
  Loops = {"recv", "splice", "multi"}
  Sendings <- MCSendings
  Endings = {"close", "error", "stall"}
  Faults = {"setup", "accept", "create"}
INVARIANT TypeOK
INVARIANT FullBuffersInOrder
INVARIANT AllIsStored
PROPERTY WritesHeldBuffer
PROPERTY SessionEnds
CHECK_DEADLOCK FALSE
