SPECIFICATION Spec
CONSTANTS
  Handlers = {h1, h2}
  Browsers = {b1, b2}
  States = {s1, s2}
  SessionIds = {x1, x2}
  SigningKeys = {1, 2}
  Ttl = 3
  Refresh = 2
  LoginLife = 2
  SessionLife = 2
  TokenLife = 2
  Requests = 3
  MaxTime = 4
  Nothing = Nothing
  Clients = {c1, c2, c3}
  DataKeySet = {k1, k2, k3}
  NoKey = NoKey
CONSTRAINT MCExplored
SYMMETRY MCSymmetry
CHECK_DEADLOCK FALSE
INVARIANTS
  LoginStatesUsedOnce
  AcceptedKeysAreFresh
  GoodTokensRefusedBriefly
  ArtifactsOpen
