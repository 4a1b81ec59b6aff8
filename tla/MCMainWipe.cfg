CONSTANTS
  MaxShares = 2
  nan = nan
  Numbers <- MCNumbers
  NaN <- nan
  Codecs <- MCCodecs
  Languages <- MCLanguages
  Default <- MCDefault
  Implemented <- MCImplemented
  UserCodecs <- MCUserCodecs
  UserLanguages <- MCUserLanguages
  Characters <- MCCharacters
  Signals <- MCSignals
  SeedSize = 2
  LineSize = 3
SPECIFICATION Spec
INVARIANTS WipedAfterSignal
CHECK_DEADLOCK FALSE
