SPECIFICATION Spec
CONSTANTS
  N = 3
  Seqs = {0, 1, 2, 3, 4, 5, 6}
  NoSeq = NoSeq
  Empty = Empty
  Filler = Filler
  WRONGSIZELIMITBEFOREEXIT = 0
  WAIT_START_ON_METADATA = TRUE
INVARIANT TypeOK
INVARIANT PositionFollowsSequence
INVARIANT CountsPackets
INVARIANT AssertNeedsRepeat
INVARIANT AllFilesHandedOver
INVARIANT HandedOverOnce
PROPERTY StaysInPlace
PROPERTY WindowIsKept
CHECK_DEADLOCK FALSE
