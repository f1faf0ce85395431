SPECIFICATION Spec
CONSTANTS
  Buffers = {b1, b2}
  Disks = {d1, d2}
  NFiles = 2
  BufSize = 8
  Limit = 4
  BLOCK_ALIGN = 2
  LastSizes = {7}
  Backends = {"aio"}
  Faults = {"open", "mkdir", "write", "event", "short", "spurious"}
  ULONG = 32
  INT = 24
  None = None
INVARIANTS WriterAlone WrittenWhole RecerAccounted
PROPERTIES StoresFiles
CHECK_DEADLOCK FALSE
