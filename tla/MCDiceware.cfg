CONSTANTS
  WordCount = 5
  Unit = 5
  MinBlocks = 1
  MaxBlocks = 3
  MaxShift = 2
  ShiftRange = 8
  Counter = 32
  Memory = {0, 1, 31}
  MaxWords = 7
  Values <- MCValues
SPECIFICATION Spec
INVARIANTS SameWords EvenChoice
PROPERTIES WalksEnd
CHECK_DEADLOCK FALSE
