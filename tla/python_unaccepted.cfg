\* A Python client and a Python delegate that trust each other and have different secrets.
SPECIFICATION Spec
CONSTANTS
  p1 = p1
  p2 = p2
  u1 = u1
  u2 = u2
  u3 = u3
  k1 = k1
  k2 = k2
  NoConn = NoConn
  NoSecret = NoSecret
  Callers = {p1, p2}
  Urls = {u1}
  RustUrls = {}
  NetworkFails = TRUE
  MaxTime = 1
  MaxOps = 3
  PyTtl = 1
  PyPrefs <- GraphFirst
  PyCodecs <- GraphCodec
  PyDomain <- AlphaGamma
  EnforceTrust = TRUE
  PySecret = k1
  DelegateDomain <- Domains
  DeclaredModes <- RichModes
  DelegateCodecs <- NoCodecs
  DelegateSecret <- OtherSecret
  HooksRaise = TRUE
  ServerDomain <- Domains
  ServerModes <- RichModes
  ServerSecret <- SharedSecret
INVARIANTS
  EverySessionAccepted
