SPECIFICATION FairSpec
CONSTANTS
  s1 = s1
  s2 = s2
  POLLIN = POLLIN
  POLLOUT = POLLOUT
  NoSocket = NoSocket
  Sockets <- TwoSockets
  Fds <- OneFd
  Condition <- InOut
  EventMasks <- InOutMasks
  InitLen = 1
  GrowBy = 2
  MaxItems = 2
  MaxDepth = 1
  Uses <- Simple
INVARIANTS TypeOK ExactDue GotOwnEvents
PROPERTIES RemoveOnlyNamed ImplementsReactor ReadyIsServed
