SPECIFICATION Spec
CONSTANTS
  r1 = r1  k1 = k1  a1 = a1  a2 = a2  s1 = s1  s2 = s2
  t1 = t1  t2 = t2  w1 = w1  w2 = w2  d1 = d1
  Reader = {r1}
  Package = {k1}
  Article = {a1}
  Draft = {}
  MaxPurchases = 1
  Session = {s1}
  NoSession = NoSession
  Tab = {t1}
  Worker = {w1, w2}
  Admin = {}
  Kinds <- HookKinds
  NoMetadata <- Disputes
  MaxEdits = 0
  MaxFaults = 1
SYMMETRY RequestSymmetry
INVARIANTS
  ItemsOnlyWhilePaid
PROPERTIES
  StatusOnlyAdvances
CHECK_DEADLOCK FALSE
