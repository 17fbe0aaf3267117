\* Client and delegate share a signing secret.
SPECIFICATION Spec
CONSTANTS
  p1 = p1
  p2 = p2
  u1 = u1
  u2 = u2
  k1 = k1
  NoConn = NoConn
  NoSecret = NoSecret
  Callers = {p1, p2}
  Urls = {u1}
  NetworkFails = FALSE
  MaxTime = 1
  MaxOps = 4
  TtlSecs = 1
  TtlBits = 8
  ClientPrefs <- FramesFirst
  ClientDomain <- Alpha
  ClientSecret = k1
  ServerDomain <- AllAlpha
  ServerModes <- BothModes
  ServerSecret <- Signed
  Operations = {"invoke", "close", "close_all"}
  ContractChoices <- NoContracts
INVARIANTS
  ClosedSessionsEnd
