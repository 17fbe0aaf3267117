------------------------------ MODULE ReplayGuard -----------------------------
(***************************************************************************)
(* The replay guards of the two SDKs (replay.rs, replay.py), fed the same  *)
(* messages.  Each refuses a message whose timestamp is outside a window,  *)
(* and one whose key (message_id and nonce) is in a bounded memory of the  *)
(* keys it has passed.  check() has exclusive access to the guard, in Rust *)
(* by &mut self, in Python because it awaits nothing, so it is one step.   *)
(* Neither engine calls its guard yet.                                     *)
(***************************************************************************)
EXTENDS Integers, Sequences, Functions

CONSTANTS
  Messages,     \* [key, stamp], a key per message
  NoKey,        \* the key of a message without a nonce
  Unreadable,   \* a stamp the guard cannot parse
  Capacities,   \* the capacities a guard may be created with
  WindowSecs,
  MaxTime,      \* bound: the clock stops here
  MaxPassed     \* bound: keys passed by either guard

ASSUME CapacitiesAreNats == Capacities \subseteq Nat
ASSUME WindowIsNat == WindowSecs \in Nat

VARIABLES
  capacity,     \* of both guards
  clock,        \* the time of day in half seconds
  rustSeen,     \* keys in the LruCache, oldest first
  pySeen,       \* keys in the OrderedDict, oldest first
  rustPassed,   \* history: the keys passed, in order
  pyPassed

replayVars == <<capacity, clock, rustSeen, pySeen, rustPassed, pyPassed>>

Init ==
  /\ capacity \in Capacities
  /\ clock = 0
  /\ rustSeen = <<>> /\ pySeen = <<>>
  /\ rustPassed = <<>> /\ pyPassed = <<>>

Newest(seq, n) == SubSeq(seq, Len(seq) - n + 1, Len(seq))

AtMost(seq, n) == IF Len(seq) <= n THEN seq ELSE Newest(seq, n)

Age(stamp) == IF clock < stamp THEN stamp - clock ELSE clock - stamp

-------------------------------------------------------------------------------
(* replay.rs: the age in whole seconds, and at least one entry *)

RustStale(m) == m.stamp # Unreadable /\ Age(m.stamp) \div 2 > WindowSecs

RustCapacity == IF capacity = 0 THEN 1 ELSE capacity

RustPasses(m) == ~RustStale(m) /\ m.key \notin Range(rustSeen)

(* Slips: room is made before the duplicate is looked for, as in replay.py; *)
(* put() in the place of contains(), so a duplicate is promoted.            *)
RustSeenRoomFirst(m) ==
  IF RustStale(m) \/ m.key = NoKey THEN rustSeen
  ELSE IF m.key \in Range(rustSeen) THEN AtMost(rustSeen, RustCapacity - 1)
  ELSE AtMost(Append(rustSeen, m.key), RustCapacity)

RustSeenPromoting(m) ==
  IF RustStale(m) \/ m.key = NoKey THEN rustSeen
  ELSE AtMost(Append(SelectSeq(rustSeen, LAMBDA key : key # m.key), m.key), RustCapacity)

RustSeenAfter(m) ==
  IF RustPasses(m) /\ m.key # NoKey
    THEN AtMost(Append(rustSeen, m.key), RustCapacity)
    ELSE rustSeen

-------------------------------------------------------------------------------
(* replay.py: the exact age; the memory makes room before it is searched *)

PyStale(m) == m.stamp # Unreadable /\ Age(m.stamp) > 2 * WindowSecs

(* Slips: `>` for `>=`; popitem() without last=False. *)
EvictedOneTooFew == AtMost(pySeen, capacity)

EvictedNewest == IF Len(pySeen) >= capacity THEN SubSeq(pySeen, 1, capacity - 1) ELSE pySeen

Evicted == AtMost(pySeen, capacity - 1)

(* popitem() on an empty memory raises: a guard of capacity 0 never returns *)
(* for a message with a nonce.                                               *)
PyRaises(m) == m.key # NoKey /\ capacity = 0

PyPasses(m) == ~PyStale(m) /\ ~PyRaises(m) /\ (m.key = NoKey \/ m.key \notin Range(Evicted))

PySeenAfter(m) ==
  IF PyStale(m) \/ m.key = NoKey \/ PyRaises(m) THEN pySeen
  ELSE IF m.key \in Range(Evicted) THEN Evicted
  ELSE Append(Evicted, m.key)

-------------------------------------------------------------------------------

Recorded(passed, m, passes) == IF passes /\ m.key # NoKey THEN Append(passed, m.key) ELSE passed

Check(m) ==
  /\ Len(rustPassed) < MaxPassed /\ Len(pyPassed) < MaxPassed
  /\ rustSeen' = RustSeenAfter(m)
  /\ pySeen' = PySeenAfter(m)
  /\ rustPassed' = Recorded(rustPassed, m, RustPasses(m))
  /\ pyPassed' = Recorded(pyPassed, m, PyPasses(m))
  /\ UNCHANGED <<capacity, clock>>

Tick ==
  /\ clock < MaxTime
  /\ clock' = clock + 1
  /\ UNCHANGED <<capacity, rustSeen, pySeen, rustPassed, pyPassed>>

(* The bounds are reached. *)
Finished ==
  /\ Len(rustPassed) = MaxPassed \/ Len(pyPassed) = MaxPassed
  /\ clock = MaxTime
  /\ UNCHANGED replayVars

Next == (\E m \in Messages : Check(m)) \/ Tick \/ Finished

Spec == Init /\ [][Next]_replayVars

-------------------------------------------------------------------------------

Keys == {m.key : m \in Messages} \ {NoKey}

(* The memories hold keys of messages and keep to their capacity. *)
TypeOK ==
  /\ capacity \in Capacities
  /\ clock \in Nat
  /\ rustSeen \in Seq(Keys) /\ Len(rustSeen) <= RustCapacity
  /\ pySeen \in Seq(Keys) /\ Len(pySeen) <= capacity
  /\ rustPassed \in Seq(Keys) /\ pyPassed \in Seq(Keys)

(* The memory of the Rust guard is exactly the latest keys it has passed, as *)
(* many as its capacity: nothing else evicts or refreshes an entry, a       *)
(* refused duplicate least of all.                                          *)
RustRemembersLatest == rustSeen = AtMost(rustPassed, RustCapacity)

(* A message passes the Rust guard again only after as many others as it    *)
(* has room for, whatever is replayed, refused or out of date in between.   *)
RustReplaysFar ==
  \A i, j \in DOMAIN rustPassed :
    i < j /\ rustPassed[i] = rustPassed[j] => j - i > RustCapacity

(* It passes the Python guard again one message sooner, since its own entry *)
(* may be the one evicted to make room for it; with room for one, at once.  *)
PyReplaysFar ==
  \A i, j \in DOMAIN pyPassed :
    i < j /\ pyPassed[i] = pyPassed[j] => j - i >= capacity

===============================================================================
