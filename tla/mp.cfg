SPECIFICATION FairSpec
CONSTANTS
  MaxParts = 3
  MaxIn = 4
  MaxOut = 3
  Hwm = 1
INVARIANTS TypeOK SentAsMeant HandsOver FlagIsTrue AssertionsHold
PROPERTIES BegunEnds
CHECK_DEADLOCK FALSE
