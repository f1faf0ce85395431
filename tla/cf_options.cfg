SPECIFICATION Spec
CONSTANTS
  Meg = 2
  Gig = 16
  BlockAlign = 4
  RingAlign = 2
  Drives = 2
  CommandLines <- MCCommandLines
  Files <- MCFiles
  Entries <- MCEntries
  MaxSessions = 3
INVARIANT PrivateStrings
INVARIANT PlaybackMatchesRecording
INVARIANT BuffersFit
CHECK_DEADLOCK FALSE
