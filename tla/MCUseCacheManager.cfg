SPECIFICATION Spec
CONSTANTS
  k1 = k1
  k2 = k2
  h1 = h1
  h2 = h2
  h3 = h3
  c1 = c1
  c2 = c2
  c3 = c3
  Keys = {k1}
  Calls = {c1, c2}
  Hooks = {h1, h2}
  KeyOf <- OneKeyOf
  Life <- OneLife
  Lifetimes <- MCLifetimes
  Callbacks = {}
  CanFail = {k1}
  CanHang = {}
  MaxTime = 2
  MaxVersion = 1
  MaxSession = 0
  MaxQueue = 0
  NoItem = NoItem
  NoData = NoData
CHECK_DEADLOCK FALSE
SYMMETRY Symmetry
INVARIANTS
  HookTypeOK
  OneLoadPerHook
  SpinnersTellTheTruth
  AnswerNotOlderThanShown
  LoadsCanEnd
PROPERTIES
  CachedOnlyWhileYoung
