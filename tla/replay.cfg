\* Guards of capacity 0 to 3 over a window of one second, for three seconds.
SPECIFICATION Spec
CONSTANTS
  k1 = k1
  k2 = k2
  k3 = k3
  k4 = k4
  NoKey = NoKey
  Unreadable = Unreadable
  Messages <- Traffic
  Capacities = {0, 1, 2, 3}
  WindowSecs = 1
  MaxTime = 6
  MaxPassed = 6
INVARIANTS
  TypeOK
  RustRemembersLatest
  RustReplaysFar
  PyReplaysFar
