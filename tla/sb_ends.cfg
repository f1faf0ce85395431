SPECIFICATION Spec
CONSTANTS
  Buffers = {b1, b2}
  Disks = {d1}
  NFiles = 2
  BufSize = 4
  Limit = 4
  BLOCK_ALIGN = 2
  LastSizes = {3}
  Backends = {"aio", "def"}
  Faults = {"open", "mkdir", "write", "event", "short"}
  ULONG = 16
  INT = 12
  None = None
INVARIANTS TypeOK
PROPERTIES HandedOverIsFinished ThreadsEnd
CHECK_DEADLOCK FALSE
