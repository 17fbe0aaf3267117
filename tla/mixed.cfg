\* A Rust client over three Python delegates, one of which does not trust it and one
\* of which has another secret; connections fail and hooks raise.
SPECIFICATION Spec
CONSTANTS
  p1 = p1
  p2 = p2
  u1 = u1
  u2 = u2
  u3 = u3
  k1 = k1
  k2 = k2
  NoConn = NoConn
  NoSecret = NoSecret
  Callers = {p1, p2}
  Urls = {u1, u2, u3}
  NetworkFails = TRUE
  MaxTime = 1
  MaxOps = 3
  TtlSecs = 1
  TtlBits = 8
  ClientPrefs <- FramesFirst
  ClientDomain <- Alpha
  ClientSecret = k1
  Operations = {"invoke", "status", "cancel", "close"}
  ContractChoices <- NoContracts
  DelegateDomain <- SecondIsForeign
  DeclaredModes <- FrameModes
  DelegateCodecs <- NoCodecs
  DelegateSecret <- ThirdHasOther
  HooksRaise = TRUE
SYMMETRY TaskSymmetry
INVARIANTS
  TypeOK
  CachedSessionStarted
  HooksPaired
  HandlesRan
  RejectedRunNothing
  SdksSignAlike
  MixedInv
PROPERTIES
  ImplementsLifecycle
