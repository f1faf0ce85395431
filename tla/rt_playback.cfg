SPECIFICATION FairSpec
CONSTANTS
  a1 = a1 a2 = a2 b1 = b1 b2 = b2 m = m x1 = x1 x2 = x2
  sa = sa sb = sb sx = sx
  Threads = {a1, a2, b1, x1, m}
  Entities = {e1}
  Sessions = {sa, sb, sx}
  Seqs = {1, 2}
  SessionOf <- SessionOfThread
  Does <- Playback
  QuitIfStopped = TRUE
  MaxHeld = 1
  MaxTicket = 5
  Nobody = Nobody
  NoKey = NoKey
INVARIANT GrantedIsAwake
INVARIANT WaitersHaveOwner
PROPERTY GetLoadedDelivers
PROPERTY WaitEnds
CHECK_DEADLOCK FALSE
