CONSTANTS
  LimbBits = 8
  Hash <- MCHash
SPECIFICATION Spec
INVARIANTS AllWordsComeBack
CHECK_DEADLOCK FALSE
