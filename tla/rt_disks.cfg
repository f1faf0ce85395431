SPECIFICATION Spec
CONSTANTS
  a1 = a1 a2 = a2 b1 = b1 b2 = b2 m = m x1 = x1 x2 = x2
  sa = sa sb = sb sx = sx
  Threads = {a1, a2, b1}
  Entities = {e1, e2}
  Sessions = {sa, sb, sx}
  Seqs = {1}
  SessionOf <- SessionOfThread
  Does <- DisksShared
  QuitIfStopped = FALSE
  MaxHeld = 1
  MaxTicket = 3
  Nobody = Nobody
  NoKey = NoKey
INVARIANT TypeOK
INVARIANT OneOwner
INVARIANT BusyIffOwned
INVARIANT NoLostWakeup
PROPERTY ImplementsPool
CHECK_DEADLOCK FALSE
