SPECIFICATION Spec
CONSTANTS
  s1 = s1
  s2 = s2
  POLLIN = POLLIN
  POLLOUT = POLLOUT
  NoSocket = NoSocket
  Sockets <- OneSocket
  Fds <- OneFd
  Condition <- In
  EventMasks <- InMask
  InitLen = 0
  GrowBy = 2
  MaxItems = 2
  MaxDepth = 2
  Uses <- Everything
INVARIANT InBounds
PROPERTY KeepsAligned
CHECK_DEADLOCK FALSE

