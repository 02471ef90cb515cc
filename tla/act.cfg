SPECIFICATION FairSpec
CONSTANTS
  Actors = {a1, a2}
  MaxQueue = 1
INVARIANTS TypeOK UsesLiveContext
PROPERTIES WaitsEnd ChildrenEnd
CHECK_DEADLOCK FALSE
