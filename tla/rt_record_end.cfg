SPECIFICATION Spec
CONSTANTS
  a1 = a1 a2 = a2 b1 = b1 b2 = b2 m = m x1 = x1 x2 = x2
  sa = sa sb = sb sx = sx
  Threads = {a1, b1, x1, x2, m}
  Entities = {e1, e2}
  Sessions = {sa, sb, sx}
  Seqs = {1}
  SessionOf <- SessionOfThread
  Does <- RecordingEnds
  QuitIfStopped = TRUE
  MaxHeld = 2
  MaxTicket = 5
  Nobody = Nobody
  NoKey = NoKey
INVARIANT NeverLoadedFromFree
INVARIANT NothingOwnedAfterBlock
INVARIANT SleepersLearnOfLoss
CHECK_DEADLOCK FALSE
