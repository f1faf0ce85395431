SPECIFICATION Spec
CONSTANTS
  Meg = 2
  Gig = 16
  BlockAlign = 4
  RingAlign = 2
  Drives = 2
  CommandLines <- MCCommandLines
  Files <- MCFiles
  Entries <- MCEntries
  MaxSessions = 1
INVARIANT CommandLineOverrides
CHECK_DEADLOCK FALSE
