SPECIFICATION CacheSpec
CONSTANTS
  k1 = k1
  c1 = c1
  c2 = c2
  f1 = f1
  Keys = {k1}
  Calls = {c1, c2}
  Callbacks = {f1}
  CanFail = {k1}
  CanHang = {k1}
  Lifetimes <- MCLifetimes
  MaxTime = 1
  MaxVersion = 1
  MaxSession = 1
  MaxQueue = 2
  NoItem = NoItem
  NoData = NoData
SYMMETRY CallSymmetry
INVARIANTS
  CacheTypeOK
  NoItemFromEarlierSession
  RegisteredHearsDisk
PROPERTIES
  MemoryGoesBackOnlyWhenOvertaken
CHECK_DEADLOCK FALSE
