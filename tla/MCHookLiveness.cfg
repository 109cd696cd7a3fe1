SPECIFICATION FairSpec
CONSTANTS
  k1 = k1
  k2 = k2
  h1 = h1
  h2 = h2
  h3 = h3
  c1 = c1
  c2 = c2
  c3 = c3
  Keys = {k1}
  Calls = {c1, c2}
  Hooks = {h1, h2}
  KeyOf <- OneKeyOf
  Life <- OneLife
  Lifetimes <- MCLifetimes
  Callbacks = {}
  CanFail = {k1}
  CanHang = {}
  MaxTime = 0
  MaxVersion = 0
  MaxSession = 1
  MaxQueue = 0
  NoItem = NoItem
  NoData = NoData
CHECK_DEADLOCK FALSE
PROPERTIES
  EveryLoadEnds
  ImplementsView
