\* Status queries about tasks that handle_task finished.
SPECIFICATION Spec
CONSTANTS
  p1 = p1
  p2 = p2
  u1 = u1
  u2 = u2
  u3 = u3
  k1 = k1
  k2 = k2
  NoConn = NoConn
  NoSecret = NoSecret
  Callers = {p1, p2}
  Urls = {u1}
  NetworkFails = FALSE
  MaxTime = 1
  MaxOps = 4
  TtlSecs = 1
  TtlBits = 8
  ClientPrefs <- FramesFirst
  ClientDomain <- Alpha
  ClientSecret = k1
  Operations = {"invoke", "status", "cancel"}
  ContractChoices <- NoContracts
  DelegateDomain <- SecondIsForeign
  DeclaredModes <- FrameModes
  DelegateCodecs <- NoCodecs
  DelegateSecret <- ThirdHasOther
  HooksRaise = FALSE
INVARIANTS
  FailureIsTheTasks
