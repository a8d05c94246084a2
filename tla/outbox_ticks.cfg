SPECIFICATION Spec
CONSTANTS
  a1 = a1  a2 = a2  fb = fb  ig = ig  t1 = t1  t2 = t2
  Article = {a1}
  Network = {fb, ig}
  Target <- Everywhere
  Tick = {t1, t2}
  MaxAttempts = 2
  MaxEdits = 1
  MaxLost = 1
  MaxDeaths = 1
SYMMETRY TickSymmetry
INVARIANTS
  OneCaller
  CopiesAreExplained
PROPERTIES
  CancelledStaysOut
  FinalIsFinal
CHECK_DEADLOCK FALSE
