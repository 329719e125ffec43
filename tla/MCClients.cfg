SPECIFICATION FairSpec
CONSTANTS
  app = app
  HelmApp = HelmApp
  Names = {app}
  Types = {HelmApp}
  TypeOf <- MCTypeOf
  Callers = {u1, u2}
  Waiters = {w}
  Channels = {c1, c2}
  Missing = Missing
  NoObject = NoObject
  NoChannel = NoChannel
  NoWait = NoWait
  MaxEvents = 4
INVARIANTS
  TypeOK
  IncrementsCount
  FakeAgrees
  CacheIsAPastState
PROPERTIES
  CacheCatchesUp
  WaitEnds
CHECK_DEADLOCK FALSE
