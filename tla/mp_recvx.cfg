SPECIFICATION Spec
CONSTANTS
  MaxParts = 2
  MaxIn = 2
  MaxOut = 0
  Hwm = 1
PROPERTIES RecvxAnswers
CHECK_DEADLOCK FALSE
