\* Two tasks invoke, poll, cancel and close over two delegates, the second of a foreign
\* domain that does not trust the client; tasks with and without a deadline;
\* connections hold.
SPECIFICATION Spec
CONSTANTS
  p1 = p1
  p2 = p2
  u1 = u1
  u2 = u2
  k1 = k1
  NoConn = NoConn
  NoSecret = NoSecret
  Callers = {p1, p2}
  Urls = {u1, u2}
  NetworkFails = FALSE
  MaxTime = 1
  MaxOps = 4
  TtlSecs = 1
  TtlBits = 8
  ClientPrefs <- FramesFirst
  ClientDomain <- Alpha
  ClientSecret = NoSecret
  ServerDomain <- SecondIsForeign
  ServerModes <- BothModes
  ServerSecret <- Unsigned
  Operations = {"invoke", "status", "cancel", "close", "close_all"}
  ContractChoices <- WithDeadline
SYMMETRY TaskSymmetry
INVARIANTS
  TypeOK
  CachedSessionLive
  HandlePollable
  ResultInSessionMode
  ClosedSessionsEnd
  OnlyTrustingDelegates
  PollFailsOnlyIfCancelled
  ContractReported
  BreachIsFinal
PROPERTIES
  ImplementsLifecycle
