SPECIFICATION Spec
CONSTANTS
  r1 = r1  k1 = k1  a1 = a1  a2 = a2  s1 = s1  s2 = s2
  t1 = t1  t2 = t2  w1 = w1  w2 = w2  d1 = d1
  Reader = {r1}
  Package = {k1}
  Article = {a1, a2}
  Draft = {a2}
  MaxPurchases = 2
  Session = {s1}
  NoSession = NoSession
  Tab = {t1}
  Worker = {w1}
  Admin = {d1}
  Kinds <- AdminKinds
  NoMetadata <- Disputes
  MaxEdits = 1
  MaxFaults = 1
SYMMETRY RequestSymmetry
INVARIANTS
  GiftsAreBeyondStripe
PROPERTIES
  ImplementsEntitlement
CHECK_DEADLOCK FALSE
