SPECIFICATION Spec
CONSTANTS
  Capacity = 3
  MaxPush = 7
INVARIANT ReturnsInOrder
