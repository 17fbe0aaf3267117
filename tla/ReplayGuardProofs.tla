--------------------------- MODULE ReplayGuardProofs --------------------------
(***************************************************************************)
(* How far apart a guard lets two copies of a message pass, for every set  *)
(* of messages, every capacity and every window.                           *)
(***************************************************************************)
EXTENDS ReplayGuard, SequenceTheorems, TLAPS

-------------------------------------------------------------------------------
(* The newest keys of a sequence *)

LEMMA AtMostFields ==
  ASSUME NEW S, NEW seq \in Seq(S), NEW n \in Nat
  PROVE  /\ AtMost(seq, n) \in Seq(S)
         /\ Len(AtMost(seq, n)) = IF Len(seq) <= n THEN Len(seq) ELSE n
         /\ \A i \in 1..Len(AtMost(seq, n)) :
              AtMost(seq, n)[i] = seq[Len(seq) - Len(AtMost(seq, n)) + i]
<1>1. CASE Len(seq) <= n
  BY <1>1 DEF AtMost
<1>2. CASE Len(seq) > n
  <2>1. AtMost(seq, n) = SubSeq(seq, Len(seq) - n + 1, Len(seq))
    BY <1>2 DEF AtMost, Newest
  <2>2. \A i \in (Len(seq) - n + 1)..Len(seq) : seq[i] \in S
    BY <1>2
  <2>3. /\ SubSeq(seq, Len(seq) - n + 1, Len(seq)) \in Seq(S)
        /\ Len(SubSeq(seq, Len(seq) - n + 1, Len(seq))) = n
        /\ \A i \in 1..n :
             SubSeq(seq, Len(seq) - n + 1, Len(seq))[i] = seq[Len(seq) - n + i]
    BY <1>2, <2>2, SubSeqProperties
  <2>4. QED
    BY <1>2, <2>1, <2>3
<1>3. QED
  BY <1>1, <1>2

LEMMA AppendFields ==
  ASSUME NEW S, NEW seq \in Seq(S), NEW e \in S
  PROVE  /\ Append(seq, e) \in Seq(S)
         /\ Len(Append(seq, e)) = Len(seq) + 1
         /\ \A i \in 1..Len(seq) : Append(seq, e)[i] = seq[i]
         /\ Append(seq, e)[Len(seq) + 1] = e
BY AppendProperties

(* `recent` is the end of `seq`, and at least the newest n of it. *)
EndOf(recent, seq, n) ==
  /\ Len(recent) <= Len(seq)
  /\ Len(recent) >= n \/ Len(recent) = Len(seq)
  /\ \A i \in 1..Len(recent) : recent[i] = seq[Len(seq) - Len(recent) + i]

(* A key that is not among them was not passed for n messages. *)
LEMMA AbsentIsFar ==
  ASSUME NEW S, NEW recent \in Seq(S), NEW seq \in Seq(S), NEW n \in Nat,
         EndOf(recent, seq, n), NEW key, key \notin Range(recent),
         NEW i \in 1..Len(seq), seq[i] = key
  PROVE  Len(seq) + 1 - i > n
<1>1. SUFFICES ASSUME Len(seq) + 1 - i <= n PROVE FALSE
  OBVIOUS
<1>2. i - (Len(seq) - Len(recent)) \in 1..Len(recent)
  BY <1>1 DEF EndOf
<1>3. recent[i - (Len(seq) - Len(recent))] = key
  BY <1>2 DEF EndOf
<1>4. QED
  BY <1>2, <1>3 DEF Range

(* To drop the oldest keys, and to pass another, keeps an end an end. *)
LEMMA AtMostIsEnd ==
  ASSUME NEW S, NEW recent \in Seq(S), NEW seq \in Seq(S), NEW n \in Nat, NEW m \in Nat,
         n <= m, EndOf(recent, seq, n)
  PROVE  EndOf(AtMost(recent, m), seq, n)
<1> DEFINE newest == AtMost(recent, m)
<1>1. /\ newest \in Seq(S) /\ Len(newest) = IF Len(recent) <= m THEN Len(recent) ELSE m
      /\ \A i \in 1..Len(newest) : newest[i] = recent[Len(recent) - Len(newest) + i]
  BY AtMostFields
<1> HIDE DEF newest
<1>0. Len(recent) \in Nat /\ Len(seq) \in Nat /\ Len(newest) \in Nat
  BY <1>1, LenProperties
<1>2. \A i \in 1..Len(newest) : newest[i] = seq[Len(seq) - Len(newest) + i]
  <2>1. TAKE i \in 1..Len(newest)
  <2>2. Len(recent) - Len(newest) + i \in 1..Len(recent)
    BY <1>1
  <2>3. recent[Len(recent) - Len(newest) + i]
          = seq[Len(seq) - Len(recent) + (Len(recent) - Len(newest) + i)]
    BY <2>2 DEF EndOf
  <2>4. Len(seq) - Len(recent) + (Len(recent) - Len(newest) + i) = Len(seq) - Len(newest) + i
    BY <1>0, <1>1
  <2>5. QED
    BY <1>1, <2>3, <2>4
<1>3. Len(newest) <= Len(seq) /\ (Len(newest) >= n \/ Len(newest) = Len(seq))
  BY <1>0, <1>1 DEF EndOf
<1>4. EndOf(newest, seq, n)
  BY <1>2, <1>3 DEF EndOf
<1>5. QED
  BY <1>4 DEF newest

LEMMA AppendIsEnd ==
  ASSUME NEW S, NEW recent \in Seq(S), NEW seq \in Seq(S), NEW e \in S,
         NEW n \in Nat, EndOf(recent, seq, n)
  PROVE  EndOf(Append(recent, e), Append(seq, e), n + 1)
<1> DEFINE longer == Append(recent, e)
           all == Append(seq, e)
<1>1. /\ Len(longer) = Len(recent) + 1 /\ Len(all) = Len(seq) + 1
      /\ \A i \in 1..Len(recent) : longer[i] = recent[i]
      /\ longer[Len(recent) + 1] = e
      /\ \A i \in 1..Len(seq) : all[i] = seq[i]
      /\ all[Len(seq) + 1] = e
  BY AppendFields
<1> HIDE DEF longer, all
<1>2. ASSUME NEW i \in 1..Len(longer) PROVE longer[i] = all[Len(all) - Len(longer) + i]
  <2>1. CASE i = Len(recent) + 1
    BY <1>1, <2>1
  <2>2. CASE i \in 1..Len(recent)
    <3>1. Len(seq) - Len(recent) + i \in 1..Len(seq)
      BY <2>2 DEF EndOf
    <3>2. QED
      BY <1>1, <2>2, <3>1 DEF EndOf
  <2>3. QED
    BY <1>1, <1>2, <2>1, <2>2
<1>3. /\ Len(longer) <= Len(all)
      /\ Len(longer) >= n + 1 \/ Len(longer) = Len(all)
  <2>1. Len(recent) \in Nat /\ Len(seq) \in Nat
    BY LenProperties
  <2>2. QED
    BY <1>1, <2>1 DEF EndOf
<1>4. EndOf(longer, all, n + 1)
  BY <1>2, <1>3 DEF EndOf
<1>5. QED
  BY <1>4 DEF longer, all

LEMMA EndOfFewer ==
  ASSUME NEW S, NEW recent \in Seq(S), NEW seq \in Seq(S), NEW n \in Nat,
         EndOf(recent, seq, n + 1)
  PROVE  EndOf(recent, seq, n)
<1>1. Len(recent) \in Nat /\ Len(seq) \in Nat
  BY LenProperties
<1>2. QED
  BY <1>1 DEF EndOf

(* An end of at most n, and all of it if there is no more, is AtMost(seq, n). *)
LEMMA EndIsAtMost ==
  ASSUME NEW S, NEW recent \in Seq(S), NEW seq \in Seq(S), NEW n \in Nat,
         EndOf(recent, seq, n), Len(recent) <= n
  PROVE  recent = AtMost(seq, n)
<1>1. /\ AtMost(seq, n) \in Seq(S) /\ Len(AtMost(seq, n)) = Len(recent)
      /\ \A i \in 1..Len(recent) : AtMost(seq, n)[i] = seq[Len(seq) - Len(recent) + i]
  BY AtMostFields DEF EndOf
<1>2. \A i \in 1..Len(recent) : recent[i] = AtMost(seq, n)[i]
  BY <1>1 DEF EndOf
<1>3. QED
  BY <1>1, <1>2, SeqEqual

-------------------------------------------------------------------------------
(* The two memories *)

(* Copies in a history of passed keys are further apart than n. *)
CopiesApart(passed, n) ==
  \A i, j \in DOMAIN passed : i < j /\ passed[i] = passed[j] => j - i > n

LEMMA PassedApart ==
  ASSUME NEW S, NEW passed \in Seq(S), NEW e \in S, NEW n \in Nat, CopiesApart(passed, n),
         \A i \in 1..Len(passed) : passed[i] = e => Len(passed) + 1 - i > n
  PROVE  CopiesApart(Append(passed, e), n)
<1> DEFINE more == Append(passed, e)
<1>1. /\ more \in Seq(S)
      /\ Len(more) = Len(passed) + 1 /\ more[Len(passed) + 1] = e
      /\ \A i \in 1..Len(passed) : more[i] = passed[i]
  BY AppendFields
<1> HIDE DEF more
<1>2. SUFFICES ASSUME NEW i \in 1..Len(more), NEW j \in 1..Len(more), i < j, more[i] = more[j]
               PROVE  j - i > n
  BY <1>1 DEF CopiesApart, more
<1>3. CASE j = Len(passed) + 1
  BY <1>1, <1>2, <1>3
<1>4. CASE j # Len(passed) + 1
  <2>1. i \in 1..Len(passed) /\ j \in 1..Len(passed)
    BY <1>1, <1>2, <1>4
  <2>2. QED
    BY <1>1, <1>2, <2>1 DEF CopiesApart
<1>5. QED
  BY <1>3, <1>4

(* The Rust guard keeps as many of the latest keys as it has room for, the *)
(* Python guard that many or one less: it has made room before it looked.  *)
GuardInv ==
  /\ TypeOK
  /\ EndOf(rustSeen, rustPassed, RustCapacity)
  /\ EndOf(pySeen, pyPassed, IF capacity = 0 THEN 0 ELSE capacity - 1)
  /\ CopiesApart(rustPassed, RustCapacity)
  /\ CopiesApart(pyPassed, IF capacity = 0 THEN 0 ELSE capacity - 1)

LEMMA Capacity ==
  ASSUME TypeOK
  PROVE  capacity \in Nat /\ RustCapacity \in Nat \ {0}
BY CapacitiesAreNats DEF TypeOK, RustCapacity

LEMMA RustCheck ==
  ASSUME GuardInv, NEW m \in Messages, Check(m)
  PROVE  /\ rustSeen' \in Seq(Keys) /\ Len(rustSeen') <= RustCapacity
         /\ rustPassed' \in Seq(Keys)
         /\ EndOf(rustSeen', rustPassed', RustCapacity)
         /\ CopiesApart(rustPassed', RustCapacity)
<1> DEFINE n == RustCapacity
<1>0. n \in Nat \ {0} /\ rustSeen \in Seq(Keys) /\ rustPassed \in Seq(Keys)
  BY Capacity DEF GuardInv, TypeOK
<1> HIDE DEF n
<1>1. CASE ~(RustPasses(m) /\ m.key # NoKey)
  BY <1>1 DEF Check, RustSeenAfter, Recorded, GuardInv, TypeOK
<1>2. CASE RustPasses(m) /\ m.key # NoKey
  <2>1. /\ m.key \in Keys /\ m.key \notin Range(rustSeen)
        /\ rustSeen' = AtMost(Append(rustSeen, m.key), n)
        /\ rustPassed' = Append(rustPassed, m.key)
    BY <1>2 DEF Check, RustSeenAfter, Recorded, RustPasses, Keys, n
  <2>2. Append(rustSeen, m.key) \in Seq(Keys) /\ Append(rustPassed, m.key) \in Seq(Keys)
    BY <1>0, <2>1, AppendFields
  <2>3. EndOf(rustSeen, rustPassed, n)
    BY DEF GuardInv, n
  <2>4. EndOf(Append(rustSeen, m.key), Append(rustPassed, m.key), n + 1)
    BY <1>0, <2>1, <2>3, AppendIsEnd
  <2>5. EndOf(Append(rustSeen, m.key), Append(rustPassed, m.key), n)
    BY <1>0, <2>2, <2>4, EndOfFewer
  <2> DEFINE longer == Append(rustSeen, m.key)
             all == Append(rustPassed, m.key)
  <2>a. /\ longer \in Seq(Keys) /\ all \in Seq(Keys) /\ EndOf(longer, all, n)
        /\ rustSeen' = AtMost(longer, n) /\ rustPassed' = all
    BY <2>1, <2>2, <2>5
  <2> HIDE DEF longer, all
  <2>6. EndOf(rustSeen', rustPassed', n)
    BY <1>0, <2>a, AtMostIsEnd
  <2>7. rustSeen' \in Seq(Keys) /\ Len(rustSeen') <= n
    <3>1. AtMost(longer, n) \in Seq(Keys) /\ Len(longer) \in Nat
          /\ Len(AtMost(longer, n)) = IF Len(longer) <= n THEN Len(longer) ELSE n
      BY <1>0, <2>a, AtMostFields, LenProperties
    <3>2. QED
      BY <1>0, <2>a, <3>1
  <2>8. \A i \in 1..Len(rustPassed) :
          rustPassed[i] = m.key => Len(rustPassed) + 1 - i > n
    BY <1>0, <2>1, <2>3, AbsentIsFar
  <2>9. CopiesApart(rustPassed', n)
    BY <1>0, <2>1, <2>8, PassedApart DEF GuardInv, n
  <2>10. QED
    BY <2>1, <2>2, <2>6, <2>7, <2>9 DEF n
<1>3. QED
  BY <1>1, <1>2

LEMMA PyCheck ==
  ASSUME GuardInv, NEW m \in Messages, Check(m)
  PROVE  LET n == IF capacity = 0 THEN 0 ELSE capacity - 1
         IN  /\ pySeen' \in Seq(Keys) /\ Len(pySeen') <= capacity
             /\ pyPassed' \in Seq(Keys)
             /\ EndOf(pySeen', pyPassed', n)
             /\ CopiesApart(pyPassed', n)
<1> DEFINE n == IF capacity = 0 THEN 0 ELSE capacity - 1
<1>0. /\ capacity \in Nat /\ pySeen \in Seq(Keys) /\ pyPassed \in Seq(Keys)
      /\ Len(pySeen) <= capacity
      /\ EndOf(pySeen, pyPassed, n) /\ CopiesApart(pyPassed, n)
      /\ n \in Nat /\ (capacity # 0 => capacity = n + 1)
  <2>1. /\ capacity \in Nat /\ pySeen \in Seq(Keys) /\ pyPassed \in Seq(Keys)
        /\ Len(pySeen) <= capacity
    BY Capacity DEF GuardInv, TypeOK
  <2>2. EndOf(pySeen, pyPassed, n) /\ CopiesApart(pyPassed, n)
    BY DEF GuardInv
  <2>3. n \in Nat /\ (capacity # 0 => capacity = n + 1)
    BY <2>1
  <2>4. QED
    BY <2>1, <2>2, <2>3
<1>1. CASE PyStale(m) \/ m.key = NoKey \/ PyRaises(m)
  BY <1>0, <1>1 DEF Check, PySeenAfter, PyPasses, Recorded
<1>2. CASE ~(PyStale(m) \/ m.key = NoKey \/ PyRaises(m))
  <2>1. capacity # 0 /\ m.key \in Keys /\ Evicted = AtMost(pySeen, n)
    BY <1>0, <1>2 DEF PyRaises, Evicted, Keys
  <2> HIDE DEF n
  <2>2. Evicted \in Seq(Keys) /\ Len(Evicted) <= n /\ EndOf(Evicted, pyPassed, n)
    BY <1>0, <2>1, AtMostFields, AtMostIsEnd
  <2>3. CASE m.key \in Range(Evicted)
    BY <1>0, <1>2, <2>1, <2>2, <2>3 DEF Check, PySeenAfter, PyPasses, Recorded, n
  <2>4. CASE m.key \notin Range(Evicted)
    <3>1. pySeen' = Append(Evicted, m.key) /\ pyPassed' = Append(pyPassed, m.key)
      BY <1>2, <2>4 DEF Check, PySeenAfter, PyPasses, Recorded
    <3>2. /\ pySeen' \in Seq(Keys) /\ pyPassed' \in Seq(Keys)
          /\ Len(pySeen') = Len(Evicted) + 1
      BY <1>0, <2>1, <2>2, <3>1, AppendFields
    <3>3. EndOf(pySeen', pyPassed', n + 1)
      BY <1>0, <2>1, <2>2, <3>1, AppendIsEnd
    <3>4. \A i \in 1..Len(pyPassed) : pyPassed[i] = m.key => Len(pyPassed) + 1 - i > n
      BY <1>0, <2>2, <2>4, AbsentIsFar
    <3>5. CopiesApart(pyPassed', n)
      BY <1>0, <2>1, <3>1, <3>4, PassedApart
    <3>6. EndOf(pySeen', pyPassed', n)
      BY <1>0, <3>2, <3>3, EndOfFewer
    <3>7. QED
      BY <1>0, <2>1, <2>2, <3>2, <3>5, <3>6 DEF n
  <2>5. QED
    BY <2>3, <2>4
<1>3. QED
  BY <1>1, <1>2

LEMMA InitGuard == Init => GuardInv
<1> SUFFICES ASSUME Init PROVE GuardInv
  OBVIOUS
<1>1. TypeOK
  BY CapacitiesAreNats DEF Init, TypeOK, RustCapacity
<1>2. QED
  BY <1>1 DEF Init, GuardInv, EndOf, CopiesApart

LEMMA NextGuard == GuardInv /\ [Next]_replayVars => GuardInv'
<1> SUFFICES ASSUME GuardInv, [Next]_replayVars PROVE GuardInv'
  OBVIOUS
<1>1. ASSUME NEW m \in Messages, Check(m) PROVE GuardInv'
  <2>1. UNCHANGED <<capacity, clock>> /\ RustCapacity' = RustCapacity
    BY <1>1 DEF Check, RustCapacity
  <2>2. TypeOK'
    BY <1>1, <2>1, RustCheck, PyCheck DEF GuardInv, TypeOK
  <2>3. QED
    BY <1>1, <2>1, <2>2, RustCheck, PyCheck DEF GuardInv
<1>2. CASE Tick
  BY <1>2 DEF Tick, GuardInv, TypeOK, RustCapacity
<1>3. CASE Finished \/ UNCHANGED replayVars
  BY <1>3 DEF Finished, replayVars, GuardInv, TypeOK, RustCapacity
<1>4. QED
  BY <1>1, <1>2, <1>3 DEF Next

LEMMA GuardInvariant == Spec => []GuardInv
BY InitGuard, NextGuard, PTL DEF Spec

-------------------------------------------------------------------------------

(* Neither memory grows beyond its capacity, nor holds anything but keys of *)
(* messages it has been shown.                                              *)
THEOREM MemoriesBounded == Spec => []TypeOK
<1>1. GuardInv => TypeOK
  BY DEF GuardInv
<1>2. QED
  BY <1>1, GuardInvariant, PTL

(* The Rust guard remembers exactly the latest keys it has passed: a       *)
(* refused duplicate is not refreshed and evicts nothing.                  *)
THEOREM RustMemoryIsLatest == Spec => []RustRemembersLatest
<1>1. GuardInv => RustRemembersLatest
  BY Capacity, EndIsAtMost DEF GuardInv, TypeOK, RustRemembersLatest
<1>2. QED
  BY <1>1, GuardInvariant, PTL

(* Between two passes of one message the Rust guard passes as many others  *)
(* as it has room for.                                                     *)
THEOREM RustReplaysAreFar == Spec => []RustReplaysFar
<1>1. GuardInv => RustReplaysFar
  BY DEF GuardInv, CopiesApart, RustReplaysFar
<1>2. QED
  BY <1>1, GuardInvariant, PTL

(* The Python guard passes a message again one message sooner. *)
THEOREM PyReplaysAreFar == Spec => []PyReplaysFar
<1>1. GuardInv => PyReplaysFar
  BY Capacity DEF GuardInv, TypeOK, CopiesApart, PyReplaysFar
<1>2. QED
  BY <1>1, GuardInvariant, PTL

===============================================================================
