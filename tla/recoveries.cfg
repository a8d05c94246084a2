SPECIFICATION RecoveriesSpec
CONSTANTS
  s1 = s1  x1 = x1  x2 = x2
  Reader = {r1}
  Package = {k1}
  Article = {a1}
  Draft = {}
  MaxPurchases = 1
  Session = {s1}
  NoSession = NoSession
  Tab = {t1}
  Worker <- Two
  Admin = {}
  Kinds <- LiveKinds
  NoMetadata <- Disputes
  MaxEdits = 1
  MaxFaults = 1
  Attempt <- Two
  LowestLimit = 1
  UsualLimit = 2
  HighestLimit = 2
  Window = 2
  CacheTime = 1
  MaxOutages = 1
PROPERTIES
  EventsAreRecorded
  PaidIsSettled
  LockEnds
CHECK_DEADLOCK FALSE
