CONSTANTS
  Width = 8
  Pol <- MCPol
  LimbBits = 2
  Sizes = {2, 3}
  Extras = {0, 1}
  Values <- MCValues
  Counts <- MCCounts
SPECIFICATION MCSpec
INVARIANTS
  MulIsFieldProduct InverseIsInverse
  ShiftsAreExact FieldsAreExact DivisionIsExact ConversionInverts
  TransformIsStandard ConstantsAreRoots
  DetectsThreeErrors LineRoundTrip CodecsInvert WordsReadBack
CHECK_DEADLOCK FALSE
