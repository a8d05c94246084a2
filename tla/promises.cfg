SPECIFICATION PromisesSpec
CONSTANTS
  a1 = a1  a2 = a2  fb = fb  t1 = t1  t2 = t2
  politica = politica  d1 = d1  d2 = d2
  Article = {a1, a2}
  Network = {fb}
  Target <- NotA2
  Tick = {t1, t2}
  MaxAttempts = 2
  MaxEdits = 0
  MaxLost = 1
  MaxDeaths = 0
  Follower = {1}
  Story = {a1}
  Category = {politica}
  Filed <- FiledFlat
  Cadence = {"IMEDIATO"}
  Delivery = {d1, d2}
  FANOUT_BATCH = 1
  MAX_ATTEMPTS = 2
  MaxChanges = 1
  MaxCount = 2
  w1 = w1  w2 = w2
  File = {f1}
  Page = {article}
  Banner = {}
  Pacote = {}
  Worker = {w1, w2}
INVARIANTS
  RepeatsHaveAReason
PROPERTIES
  PostsAreDecided
  LiveIsQueued
  NotesAreDecided
  LiveBecomesPublic
CHECK_DEADLOCK FALSE
