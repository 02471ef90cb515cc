SPECIFICATION FairSpec
CONSTANTS
  MaxEvents = 3
  Sockets = {}
  Intervals = {1}
  Waits = {1}
  NoCall = NoCall
  OnTime = OnTime
  MaxDepth = 2
  Uses <- NoUses
INVARIANTS TypeOK LockedWhileCalled StartedIsListed NeverOversleeps
PROPERTIES ImplementsAlarms DueIsCalled InterruptEnds
CHECK_DEADLOCK FALSE
