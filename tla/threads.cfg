SPECIFICATION ThreadsSpec
CONSTANTS
  k1 = k1  k2 = k2  k3 = k3  x1 = x1  x2 = x2  ra = ra
  Cat <- Three
  Top = Top
  MAX_DEPTH = 1
  Editor <- Two
  Comment <- Three
  Reader = {ra}
  Status = {"PENDENTE", "APROVADO", "REJEITADO", "ELIMINADO"}
  Request <- Two
  MaxRewrites = 1
  MaxRequests = 4
SYMMETRY ThreadsSymmetry
INVARIANTS
  DepthIsItsPath
  NothingHangs
  ShownAsApproved
  CountIsRight
  ThreadsHaveTwoLevels
PROPERTIES
  ErasedWasRemoved
CHECK_DEADLOCK FALSE
