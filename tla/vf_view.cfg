CONSTANTS
  a = a
  b = b
  c = c
  Names = {a, b, c}
  Recorded = {a, b}
  Hash <- MCHash
  MaxFiles = 3
  Disks = {0, 1}
  FileNos = {0, 1}
  MaxQueued = 2
  MaxStored = 2
  InitialSize = 1
  PacketSize = 2
  FilePackets = 2
  MbPackets = 2
  SizeT = 1024
SPECIFICATION Spec
INVARIANT ReadGivesTheRange
SYMMETRY NameSymmetry
CHECK_DEADLOCK FALSE
