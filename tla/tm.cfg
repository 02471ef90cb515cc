SPECIFICATION Spec
CONSTANTS
  Mon = {m}
  Abs = {a}
  Ms = 2
  Period = 3
  Durations = {0,2}
  Deadlines = {1,2}
  NoNumber = NoNumber
  MaxTime = 7
  MaxUtc = 4
  Builds <- Readings
INVARIANTS TypeOK ElapsedIsTrue
PROPERTIES WaitIsEnough ImplementsCountdown
CHECK_DEADLOCK FALSE
