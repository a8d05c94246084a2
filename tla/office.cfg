SPECIFICATION OfficeSpec
CONSTANTS
  root = root  m1 = m1  m2 = m2  x1 = x1  x2 = x2
  f1 = f1  article = article  slot = slot  pacote = pacote
  File = {f1}
  Page = {article, slot, pacote}
  Banner = {slot}
  Pacote = {pacote}
  Worker <- Two
  Member <- Everybody
  Founder = root
  Role = {"SUPER_ADMIN", "EDITOR_CHEFE"}
  Staffed = {"EDITOR_CHEFE"}
  Call <- Two
  MatrixRole = {"EDITOR_CHEFE"}
  Offered <- Lists
  MaxPassword = 2
  MaxTokens = 1
  MaxWrites = 2
SYMMETRY OfficeSymmetry
INVARIANTS
  RowsHaveBytes
  PublicWasOffered
  TokenMatchesPassword
  DecisionsLast
PROPERTIES
  RankShields
CHECK_DEADLOCK FALSE
