\* Two coroutines over three Python delegates with the client's secret: trusting each
\* other; not trusted by the client; trusted by it, but not trusting it.  Connections fail
\* and hooks raise.
SPECIFICATION Spec
CONSTANTS
  p1 = p1
  p2 = p2
  u1 = u1
  u2 = u2
  u3 = u3
  k1 = k1
  k2 = k2
  NoConn = NoConn
  NoSecret = NoSecret
  Callers = {p1, p2}
  Urls = {u1, u2, u3}
  RustUrls = {}
  NetworkFails = TRUE
  MaxTime = 1
  MaxOps = 3
  PyTtl = 1
  PyPrefs <- GraphFirst
  PyCodecs <- GraphCodec
  PyDomain <- AlphaGamma
  EnforceTrust = TRUE
  PySecret = k1
  DelegateDomain <- Domains
  DeclaredModes <- RichModes
  DelegateCodecs <- NoCodecs
  DelegateSecret <- SharedSecret
  HooksRaise = TRUE
  ServerDomain <- Domains
  ServerModes <- RichModes
  ServerSecret <- SharedSecret
SYMMETRY TaskSymmetry
INVARIANTS
  TypeOK
  SessionAccepted
  ModeSpoken
  AnsweredTasksCounted
  AnsweredTasksRan
  MutualTrust
