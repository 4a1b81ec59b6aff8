CONSTANTS
  MaxShares = 3
  nl = nl
  ns = ns
  good = good
  bad = bad
  Lines <- MCLines
  NoLine <- nl
  NoSecret <- ns
  Interpolate <- MCInterpolate
  DigestOK <- MCDigestOK
  Decrypt <- MCDecrypt
SPECIFICATION Spec
INVARIANTS TypeOK CountersExact NoAssertFails GroupThresholdMet
PROPERTIES NeverOverwritten Answers ImplementsCombine
