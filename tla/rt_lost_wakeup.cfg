SPECIFICATION Spec
CONSTANTS
  a1 = a1 a2 = a2 b1 = b1 b2 = b2 m = m x1 = x1 x2 = x2
  sa = sa sb = sb sx = sx
  Threads = {a1, b1, b2, x1, m}
  Entities = {e1}
  Sessions = {sa, sb, sx}
  Seqs = {1}
  SessionOf <- SessionOfThread
  Does <- Recording
  QuitIfStopped = TRUE
  MaxHeld = 1
  MaxTicket = 5
  Nobody = Nobody
  NoKey = NoKey
INVARIANT NoLostWakeup
CHECK_DEADLOCK FALSE
