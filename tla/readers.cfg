SPECIFICATION Spec
CONSTANTS
  r1 = r1  s1 = s1  s2 = s2  w1 = w1  t1 = t1
  h1 = h1  p1 = p1  p2 = p2  l1 = l1  l2 = l2  q1 = q1  q2 = q2
  politica = politica  parlamento = parlamento
  Reader = {r1}
  Sub = {s1, s2}
  NoSub = NoSub
  ByHand = {s2}
  Buyer = {}
  GiftEnd = {1}
  Worker = {w1}
  Task = {t1}
  MaxTime = 1
  MaxVersions = 2
  MaxGrants = 1
  Holder = {h1}
  Password = {p1, p2}
  NoPassword = NoPassword
  Link = {l1, l2}
  Request = {q1, q2}
  Provider = {"GOOGLE"}
  Strict = {}
  Duration = {"DIAS_15"}
  Term = 1
  LinkLife = 0
  MaxClock = 1
  MaxVersion = 2
  MaxSessions = 1
  Follower = {1, 2}
  Story = {a1}
  Category = {politica, parlamento}
  Filed <- FiledDeep
  Cadence = {"IMEDIATO"}
  Delivery = {}
  FANOUT_BATCH = 1
  MAX_ATTEMPTS = 2
  MaxChanges = 2
  MaxCount = 1
SYMMETRY ReadersSymmetry
INVARIANTS
  ReadsOnlyWhatIsBacked
  OldPasswordOpensNothing
  ResetWithdrawsOthers
  SuspensionStrandsSessions
  
CHECK_DEADLOCK FALSE
