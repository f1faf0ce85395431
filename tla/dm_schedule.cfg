SPECIFICATION Spec
CONSTANTS
  Requests = {"r1", "r2", "r3"}
  Request <- MCRequest
  Broken = {"r1"}
  MaxQueued = 2
  MaxLives = 2
  MaxEdits = 1
INVARIANT ScheduleInStep
INVARIANT EntryOutlivesSession
INVARIANT IndexMatchesSessions
PROPERTY RequestsSettle
CHECK_DEADLOCK FALSE
