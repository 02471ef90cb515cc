SPECIFICATION Spec
CONSTANTS
  Msgs = {m1, m2}
  Strings <- TwoStrings
  Small = 1
  MaxLen = 2
  Hwm = 1
  MaxParts = 2
  Undefined = Undefined
  NoBuffer = NoBuffer
  NoValue = NoValue
  Uses <- Private
SYMMETRY AnyMessages
INVARIANTS InBounds
PROPERTIES ImplementsValues
CHECK_DEADLOCK FALSE
