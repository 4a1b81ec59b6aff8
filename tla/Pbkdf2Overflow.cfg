CONSTANTS
  HashLen = 3
  IntMax = 7
  Pieces = {1}
  Iterations = {5, 10}
  MaxIn = 1
  MaxOut = 1
SPECIFICATION Spec
INVARIANTS IteratedAsAsked
CHECK_DEADLOCK FALSE
