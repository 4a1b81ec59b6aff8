CONSTANTS
  HashLen = 3
  IntMax = 7
  Pieces = {0, 1, 2, 3, 4, 7}
  Iterations = {1, 2, 7}
  MaxIn = 2
  MaxOut = 8
  BlockSize = 4
  HmacPieces = {0, 1, 2, 3, 4, 5, 6}
  MaxKey = 11
  MaxText = 5
  HalfBits = {0}
  Elements <- MCElements
  NULL = NULL
  Keys <- MCKeys
  KeyOf <- MCKey
  NoBuckets = 2
  Bucket <- MCBucket
SPECIFICATION MCSpec
INVARIANTS DigestOfMessage MacIsHmac OutputIsDerivedKey DecryptInvertsEncrypt ListsSound VisitsEachOnce
PROPERTIES ImplementsTable
CHECK_DEADLOCK FALSE
