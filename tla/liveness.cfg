\* Every operation returns, also when connections fail; the signing secret is
\* shared, so SESSION_CLOSE is refused.
SPECIFICATION FairSpec
CONSTANTS
  p1 = p1
  p2 = p2
  u1 = u1
  u2 = u2
  k1 = k1
  NoConn = NoConn
  NoSecret = NoSecret
  Callers = {p1, p2}
  Urls = {u1}
  NetworkFails = TRUE
  MaxTime = 1
  MaxOps = 2
  TtlSecs = 1
  TtlBits = 8
  ClientPrefs <- FramesFirst
  ClientDomain <- Alpha
  ClientSecret = k1
  ServerDomain <- AllAlpha
  ServerModes <- BothModes
  ServerSecret <- Signed
  Operations = {"invoke", "stream", "status", "cancel", "close", "close_all"}
  ContractChoices <- NoContracts
PROPERTIES
  OperationsReturn
  StreamsEnd
