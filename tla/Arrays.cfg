SPECIFICATION Spec
CONSTANTS
  NULL = NULL
  s = s
  Strs <- MCStrs
  StrRank <- MCStrRank
  NSortBucket = 2
  PadMax = 4
  Keys <- MCKeys
  Vals <- MCVals
  Literals <- MCLiterals
  MaxLen = 3
  MaxNext = 3
INVARIANTS TypeOK LoopUnsetsAll CutsExact PartsWhole SortsRight
PROPERTY KeysUnique
