SPECIFICATION Spec
CONSTANTS
  ZeroKey = ZeroKey
  ZeroValue = ZeroValue
  Keys = {k1, k2, k3}
  Values = {v1, v2}
  Fits = 15
  Requested = 2
  Timeouts = {0, 1, 2}
  MaxTime = 4
INVARIANTS
  TypeOK
  SizeCoversOccupied
  RoomBehindSizeCheck
  UniqueKeys
  SizeIsLiveCount
PROPERTIES
  DictionarySpec
  FullOfExpiredIsForever
