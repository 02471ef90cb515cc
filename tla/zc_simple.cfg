SPECIFICATION FairSpec
CONSTANTS
  Contexts = {c1}
  Sockets = {s1, s2, s3}
  NoContext = NoContext
  MaxDepth = 4
  Uses <- Nested
INVARIANTS TypeOK TermFindsNothingOpen CountIsOpenSockets RefsReleased
PROPERTIES FailsOnlyNested ImplementsLifecycle DestroyEnds
CHECK_DEADLOCK FALSE
