---------------------------- MODULE LdpTypesProofs ----------------------------
(***************************************************************************)
(* Facts about payload mode negotiation for every preference list.         *)
(***************************************************************************)
EXTENDS LdpTypes, SequenceTheorems, WellFoundedInduction, TLAPS

(* The order of the natural numbers as a relation. *)
Below == {p \in Nat \X Nat : p[1] < p[2]}

LEMMA BelowWellFounded == IsWellFoundedOn(Below, Nat)
BY NatLessThanWellFounded DEF Below, OpToRel

(* A non-empty set of naturals has a least element, which First picks. *)
LEMMA FirstIsLeast ==
  ASSUME NEW S \in SUBSET Nat, S # {}
  PROVE  First(S) \in S /\ \A j \in S : First(S) <= j
<1>1. PICK i \in S : \A j \in S : ~ (<<j, i>> \in Below)
  BY WFMin, BelowWellFounded
<1>2. \A j \in S : i <= j
  <2>1. TAKE j \in S
  <2>2. ~ (j < i)
    BY <1>1 DEF Below
  <2>3. QED
    BY <2>2
<1>3. QED
  BY <1>2 DEF First

LEMMA FirstIs ==
  ASSUME NEW S \in SUBSET Nat, NEW i \in S, \A j \in S : i <= j
  PROVE  First(S) = i
<1>1. First(S) \in S /\ First(S) <= i
  BY FirstIsLeast
<1>2. i <= First(S) /\ i \in Nat /\ First(S) \in Nat
  BY <1>1
<1>3. QED
  BY <1>1, <1>2

(* The agreed mode is text, or one that both ends can use. *)
LEMMA AgreedIsUsable ==
  ASSUME NEW prefs \in Seq(PayloadMode), NEW remote
  PROVE  /\ AgreedMode(prefs, remote) \in PayloadMode
         /\ \/ AgreedMode(prefs, remote) = "text"
            \/ /\ IsImplemented(AgreedMode(prefs, remote))
               /\ AgreedMode(prefs, remote) \in remote
<1> DEFINE common == CommonModes(prefs, remote)
<1>1. common \in SUBSET Nat /\ common \subseteq DOMAIN prefs
  BY DEF CommonModes
<1>2. CASE common = {}
  BY <1>2 DEF AgreedMode, PayloadMode
<1>3. CASE common # {}
  <2>1. First(common) \in common
    BY <1>1, <1>3, FirstIsLeast
  <2>2. AgreedMode(prefs, remote) = prefs[First(common)]
    BY <1>3 DEF AgreedMode
  <2>3. /\ IsImplemented(prefs[First(common)])
        /\ prefs[First(common)] \in remote
        /\ First(common) \in DOMAIN prefs
    BY <2>1 DEF CommonModes
  <2>4. prefs[First(common)] \in PayloadMode
    BY <2>3
  <2>5. QED
    BY <2>2, <2>3, <2>4
<1>4. QED
  BY <1>2, <1>3

(* Negotiating again from <<m, "text">>, as the responder does with the     *)
(* initiator's choice m, gives m: for text because text is also the         *)
(* fallback, for a common mode because it is the first of the list.         *)
LEMMA RenegotiationKeeps ==
  ASSUME NEW m \in PayloadMode, NEW remote,
         m = "text" \/ (IsImplemented(m) /\ m \in remote)
  PROVE  AgreedMode(<<m, "text">>, remote) = m
<1> DEFINE pair == <<m, "text">>
           common == CommonModes(pair, remote)
<1>1. common \in SUBSET Nat /\ common \subseteq {1, 2} /\ pair[1] = m /\ pair[2] = "text"
  BY DEF CommonModes
<1>2. CASE m = "text"
  <2>1. CASE common = {}
    BY <1>2, <2>1 DEF AgreedMode
  <2>2. CASE common # {}
    <3>1. First(common) \in {1, 2}
      BY <1>1, <2>2, FirstIsLeast
    <3>2. pair[First(common)] = "text"
      BY <1>1, <1>2, <3>1
    <3>3. QED
      BY <1>2, <2>2, <3>2 DEF AgreedMode
  <2>3. QED
    BY <2>1, <2>2
<1>3. CASE m # "text"
  <2>1. 1 \in common
    BY <1>3 DEF CommonModes
  <2>2. First(common) = 1
    <3>1. First(common) \in {1, 2} /\ First(common) <= 1
      BY <1>1, <2>1, FirstIsLeast
    <3>2. QED
      BY <3>1
  <2>3. QED
    BY <1>1, <2>1, <2>2 DEF AgreedMode
<1>4. QED
  BY <1>2, <1>3

-------------------------------------------------------------------------------
(* Filtering a list *)

(* Induction up to a bound, over the set of numbers a property holds for. *)
LEMMA UpTo ==
  ASSUME NEW n \in Nat, NEW Good, 0 \in Good,
         \A i \in 0..(n - 1) : i \in Good => i + 1 \in Good
  PROVE  0..n \subseteq Good
<1> DEFINE Bad == (0..n) \ Good
<1>1. SUFFICES ASSUME Bad # {} PROVE FALSE
  OBVIOUS
<1>2. PICK i \in Bad : \A j \in Bad : ~ (<<j, i>> \in Below)
  <2>1. Bad \in SUBSET Nat
    OBVIOUS
  <2>2. QED
    BY <1>1, <2>1, WFMin, BelowWellFounded
<1>3. i # 0
  OBVIOUS
<1>4. i - 1 \in 0..(n - 1) /\ i - 1 \notin Good
  BY <1>3
<1>5. i - 1 \in Bad
  BY <1>4
<1>6. <<i - 1, i>> \in Below
  BY <1>4 DEF Below
<1>7. QED
  BY <1>2, <1>5, <1>6

(* kept is the function its recursive definition describes. *)
LEMMA KeptDefined ==
  ASSUME NEW seq, Len(seq) \in Nat, NEW S
  PROVE  \E kept :
           /\ kept = [i \in 0..Len(seq) |->
                       IF i = 0 THEN <<>>
                       ELSE IF seq[i] \in S THEN Append(kept[i - 1], seq[i]) ELSE kept[i - 1]]
           /\ Filtered(seq, S) = kept[Len(seq)]
<1> DEFINE Step(f, i) ==
       IF i = 0 THEN <<>>
       ELSE IF seq[i] \in S THEN Append(f[i - 1], seq[i]) ELSE f[i - 1]
           Good == {n \in 0..Len(seq) : \E f : f = [i \in 0..n |-> Step(f, i)]}
<1>1. 0 \in Good
  <2> DEFINE f == [i \in 0..0 |-> <<>>]
  <2>1. \A i \in 0..0 : Step(f, i) = <<>>
    OBVIOUS
  <2> HIDE DEF Step
  <2>2. f = [i \in 0..0 |-> Step(f, i)]
    BY <2>1
  <2>3. 0 \in 0..Len(seq)
    OBVIOUS
  <2>4. QED
    BY <2>2, <2>3
<1>2. ASSUME NEW n \in 0..(Len(seq) - 1), n \in Good PROVE n + 1 \in Good
  <2>1. PICK f : f = [i \in 0..n |-> Step(f, i)]
    BY <1>2
  <2> DEFINE g == [i \in 0..(n + 1) |-> IF i \in 0..n THEN f[i] ELSE Step(f, i)]
  <2>2. ASSUME NEW i \in 0..(n + 1) PROVE g[i] = Step(g, i)
    <3>1. CASE i = 0
      BY <2>1, <3>1
    <3>2. CASE i # 0
      <4>1. i - 1 \in 0..n
        BY <3>2
      <4>2. g[i - 1] = f[i - 1]
        BY <4>1
      <4>3. Step(g, i) = Step(f, i)
        BY <3>2, <4>2
      <4> HIDE DEF Step
      <4>4. g[i] = Step(f, i)
        BY <2>1
      <4>5. QED
        BY <4>3, <4>4
    <3>3. QED
      BY <3>1, <3>2
  <2> HIDE DEF Step
  <2>3. g = [i \in 0..(n + 1) |-> g[i]]
    OBVIOUS
  <2> HIDE DEF g
  <2>4. g = [i \in 0..(n + 1) |-> Step(g, i)]
    BY <2>2, <2>3
  <2>5. QED
    BY <2>4
<1> HIDE DEF Good
<1>3. Len(seq) \in Good
  <2>1. \A n \in 0..(Len(seq) - 1) : n \in Good => n + 1 \in Good
    BY <1>2
  <2>2. 0..Len(seq) \subseteq Good
    BY <1>1, <2>1, UpTo
  <2>3. QED
    BY <2>2
<1>4. \E f : f = [i \in 0..Len(seq) |-> Step(f, i)]
  BY <1>3 DEF Good
<1>5. QED
  BY <1>4 DEF Filtered

(* What is kept are elements of the sequence, and of the set. *)
LEMMA FilteredMembers ==
  ASSUME NEW A, NEW seq \in Seq(A), NEW S
  PROVE  Filtered(seq, S) \in Seq(A \cap S)
<1>1. Len(seq) \in Nat /\ \A i \in 1..Len(seq) : seq[i] \in A
  BY LenProperties
<1>2. PICK kept :
        /\ kept = [i \in 0..Len(seq) |->
                    IF i = 0 THEN <<>>
                    ELSE IF seq[i] \in S THEN Append(kept[i - 1], seq[i]) ELSE kept[i - 1]]
        /\ Filtered(seq, S) = kept[Len(seq)]
  BY <1>1, KeptDefined
<1> DEFINE Good == {i \in 0..Len(seq) : kept[i] \in Seq(A \cap S)}
<1>3. 0 \in Good
  <2>1. kept[0] = <<>>
    BY <1>1, <1>2
  <2>2. <<>> \in Seq(A \cap S)
    OBVIOUS
  <2>3. kept[0] \in Seq(A \cap S)
    BY <2>1, <2>2
  <2>4. 0 \in 0..Len(seq)
    BY <1>1
  <2>5. QED
    BY <2>3, <2>4
<1>4. ASSUME NEW i \in 0..(Len(seq) - 1), i \in Good PROVE i + 1 \in Good
  <2>1. /\ i + 1 \in 1..Len(seq) /\ i + 1 \in 0..Len(seq) /\ i + 1 # 0 /\ (i + 1) - 1 = i
    BY <1>1
  <2>2. kept[i + 1] = IF seq[i + 1] \in S THEN Append(kept[i], seq[i + 1]) ELSE kept[i]
    BY <1>2, <2>1
  <2>3. kept[i] \in Seq(A \cap S) /\ seq[i + 1] \in A
    BY <1>1, <1>4, <2>1
  <2>4. kept[i + 1] \in Seq(A \cap S)
    BY <2>2, <2>3, AppendProperties
  <2>5. QED
    BY <2>1, <2>4
<1> HIDE DEF Good
<1>5. Len(seq) \in Good
  <2>1. \A i \in 0..(Len(seq) - 1) : i \in Good => i + 1 \in Good
    BY <1>4
  <2>2. 0..Len(seq) \subseteq Good
    BY <1>1, <1>3, <2>1, UpTo
  <2>3. QED
    BY <1>1, <2>2
<1>6. QED
  BY <1>2, <1>5 DEF Good

(* The positions, up to n, of the modes in R. *)
Wanted(seq, n, R) == {i \in 1..n : seq[i] \in R}

Best(seq, n, R) == IF Wanted(seq, n, R) = {} THEN "text" ELSE seq[First(Wanted(seq, n, R))]

LEMMA BestIsAgreed ==
  ASSUME NEW seq, Len(seq) \in Nat, DOMAIN seq = 1..Len(seq), NEW R
  PROVE  AgreedModePy(seq, R) = Best(seq, Len(seq), R)
BY DEF AgreedModePy, Best, Wanted

(* One more position changes the first wanted one only if there was none. *)
LEMMA BestOfOneMore ==
  ASSUME NEW A, NEW seq \in Seq(A), NEW n \in Nat, NEW R
  PROVE  /\ Wanted(seq, n + 1, R) = {} <=> Wanted(seq, n, R) = {} /\ seq[n + 1] \notin R
         /\ Best(seq, n + 1, R) =
              IF Wanted(seq, n, R) = {} /\ seq[n + 1] \in R THEN seq[n + 1] ELSE Best(seq, n, R)
<1> DEFINE old == Wanted(seq, n, R)
           new == Wanted(seq, n + 1, R)
<1>1. /\ old \subseteq 1..n /\ old \subseteq Nat /\ new \subseteq Nat
      /\ new = old \cup (IF seq[n + 1] \in R THEN {n + 1} ELSE {})
  BY DEF Wanted
<1>2. new = {} <=> old = {} /\ seq[n + 1] \notin R
  BY <1>1
<1>3. CASE old = {} /\ seq[n + 1] \in R
  <2>1. new = {n + 1}
    BY <1>1, <1>3
  <2>2. First(new) = n + 1
    BY <2>1, FirstIs
  <2>3. QED
    BY <1>2, <1>3, <2>1, <2>2 DEF Best
<1>4. CASE old = {} /\ seq[n + 1] \notin R
  BY <1>2, <1>4 DEF Best
<1>5. CASE old # {}
  <2>1. First(old) \in old /\ \A j \in old : First(old) <= j
    BY <1>1, <1>5, FirstIsLeast
  <2>2. First(old) \in new /\ First(old) \in Nat /\ First(old) <= n
    BY <1>1, <2>1
  <2>3. \A j \in new : First(old) <= j
    BY <1>1, <2>1, <2>2
  <2>4. First(new) = First(old)
    BY <1>1, <2>2, <2>3, FirstIs
  <2>5. new # {}
    BY <2>2
  <2>6. QED
    BY <1>2, <1>5, <2>4, <2>5 DEF Best
<1>6. QED
  BY <1>3, <1>4, <1>5

(* Only the first n positions matter. *)
LEMMA BestOfPrefix ==
  ASSUME NEW seq, NEW other, NEW n \in Nat, NEW R, \A i \in 1..n : seq[i] = other[i]
  PROVE  Wanted(seq, n, R) = Wanted(other, n, R) /\ Best(seq, n, R) = Best(other, n, R)
<1> DEFINE w == Wanted(seq, n, R)
<1>1. w = Wanted(other, n, R) /\ w \subseteq 1..n /\ w \subseteq Nat
  BY DEF Wanted
<1>2. w # {} => First(w) \in 1..n
  BY <1>1, FirstIsLeast
<1>3. QED
  BY <1>1, <1>2 DEF Best

(* To filter by S and then to agree within R is to agree within both. *)
LEMMA FilteredAgrees ==
  ASSUME NEW A, NEW seq \in Seq(A), NEW S, NEW R
  PROVE  AgreedModePy(Filtered(seq, S), R) = AgreedModePy(seq, R \cap S)
<1> DEFINE T == R \cap S
<1> HIDE DEF T
<1>1. Len(seq) \in Nat /\ DOMAIN seq = 1..Len(seq) /\ \A i \in 1..Len(seq) : seq[i] \in A
  BY LenProperties
<1>2. PICK kept :
        /\ kept = [i \in 0..Len(seq) |->
                    IF i = 0 THEN <<>>
                    ELSE IF seq[i] \in S THEN Append(kept[i - 1], seq[i]) ELSE kept[i - 1]]
        /\ Filtered(seq, S) = kept[Len(seq)]
  BY <1>1, KeptDefined
<1> DEFINE Same(k, i) ==
             /\ k \in Seq(A)
             /\ Wanted(k, Len(k), R) = {} <=> Wanted(seq, i, T) = {}
             /\ Best(k, Len(k), R) = Best(seq, i, T)
           Good == {i \in 0..Len(seq) : Same(kept[i], i)}
<1>3. 0 \in Good
  <2>1. kept[0] = <<>> /\ 0 \in 0..Len(seq)
    BY <1>1, <1>2
  <2>2. Same(<<>>, 0)
    BY DEF Wanted, Best
  <2> HIDE DEF Same
  <2>3. QED
    BY <2>1, <2>2
<1>4. ASSUME NEW i \in 0..(Len(seq) - 1), i \in Good PROVE i + 1 \in Good
  <2>1. /\ i \in Nat /\ i + 1 \in 1..Len(seq) /\ i + 1 \in 0..Len(seq)
        /\ i + 1 # 0 /\ (i + 1) - 1 = i
    BY <1>1
  <2> DEFINE e == seq[i + 1]
             k == kept[i]
             n == Len(k)
  <2>2. kept[i + 1] = IF e \in S THEN Append(k, e) ELSE k
    BY <1>2, <2>1
  <2>3. Same(k, i) /\ e \in A /\ n \in Nat
    BY <1>1, <1>4, <2>1, LenProperties
  <2>4. /\ Wanted(seq, i + 1, T) = {} <=> Wanted(seq, i, T) = {} /\ e \notin T
        /\ Best(seq, i + 1, T) =
             IF Wanted(seq, i, T) = {} /\ e \in T THEN e ELSE Best(seq, i, T)
    BY <2>1, BestOfOneMore
  <2>5. CASE e \notin S
    <3>1. e \notin T
      BY <2>5 DEF T
    <3>2. Same(k, i + 1)
      BY <2>3, <2>4, <3>1
    <3> HIDE DEF Same, e, k
    <3>3. QED
      BY <2>1, <2>2, <2>5, <3>2 DEF k
  <2>6. CASE e \in S
    <3> DEFINE more == Append(k, e)
    <3>1. /\ more \in Seq(A) /\ Len(more) = n + 1 /\ more[n + 1] = e
          /\ \A j \in 1..n : more[j] = k[j]
      BY <2>3, AppendProperties
    <3> HIDE DEF more, k, e, n
    <3>2. Wanted(more, n, R) = Wanted(k, n, R) /\ Best(more, n, R) = Best(k, n, R)
      BY <2>3, <3>1, BestOfPrefix
    <3>3. /\ Wanted(more, n + 1, R) = {} <=> Wanted(more, n, R) = {} /\ e \notin R
          /\ Best(more, n + 1, R) =
               IF Wanted(more, n, R) = {} /\ e \in R THEN e ELSE Best(more, n, R)
      BY <2>3, <3>1, BestOfOneMore
    <3>4. e \in T <=> e \in R
      BY <2>6 DEF T
    <3>5. /\ Wanted(k, n, R) = {} <=> Wanted(seq, i, T) = {}
          /\ Best(k, n, R) = Best(seq, i, T)
      BY <2>3 DEF n
    <3>6. Same(more, i + 1)
      BY <2>4, <3>1, <3>2, <3>3, <3>4, <3>5
    <3> HIDE DEF Same
    <3>7. kept[i + 1] = more
      BY <2>2, <2>6 DEF more
    <3>8. QED
      BY <2>1, <3>6, <3>7
  <2>7. QED
    BY <2>5, <2>6
<1> HIDE DEF Good
<1>5. Len(seq) \in Good
  <2>1. \A i \in 0..(Len(seq) - 1) : i \in Good => i + 1 \in Good
    BY <1>4
  <2>2. 0..Len(seq) \subseteq Good
    BY <1>1, <1>3, <2>1, UpTo
  <2>3. QED
    BY <1>1, <2>2
<1>6. Same(Filtered(seq, S), Len(seq))
  BY <1>2, <1>5 DEF Good
<1>7. AgreedModePy(seq, T) = Best(seq, Len(seq), T)
  BY <1>1, BestIsAgreed
<1>8. AgreedModePy(Filtered(seq, S), R)
        = Best(Filtered(seq, S), Len(Filtered(seq, S)), R)
  BY <1>6, BestIsAgreed, LenProperties
<1>9. QED
  BY <1>6, <1>7, <1>8 DEF T

===============================================================================
