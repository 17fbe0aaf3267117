\* Every list of up to four preferences against every set of supported modes.
SPECIFICATION Spec
CONSTANT MaxPrefs = 4
INVARIANTS
  AgreedIsBest
  RenegotiationStable
  FallbackDescends
  SdksAgree
CHECK_DEADLOCK FALSE
