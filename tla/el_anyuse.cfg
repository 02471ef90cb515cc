SPECIFICATION Spec
CONSTANTS
  MaxEvents = 1
  Sockets = {s1,s2}
  Intervals = {1}
  Waits = {1}
  NoCall = NoCall
  OnTime = OnTime
  MaxDepth = 2
  Uses <- Everything
INVARIANTS NotInItself
CHECK_DEADLOCK FALSE
