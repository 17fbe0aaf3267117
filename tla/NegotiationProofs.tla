--------------------------- MODULE NegotiationProofs --------------------------
(***************************************************************************)
(* Both ends of a session agree on its payload mode, whatever the          *)
(* initiator prefers and whatever the responder supports.                  *)
(***************************************************************************)
EXTENDS Negotiation, LdpTypesProofs

ListsOK == prefs \in Seq(PayloadMode) /\ remote \in SUBSET PayloadMode

LEMMA ListsAlwaysOK == Spec => []ListsOK
<1>1. Init => ListsOK
  BY DEF Init, ListsOK
<1>2. ListsOK /\ [Next]_negotiationVars => ListsOK'
  BY DEF ListsOK, Next, Prefer, Support, negotiationVars
<1>3. QED
  BY <1>1, <1>2, PTL DEF Spec

(* The responder's second negotiation never changes the mode the initiator *)
(* chose, so client and server hold the same mode for a session.            *)
THEOREM BothEndsAgree == Spec => []RenegotiationStable
<1>1. ListsOK => RenegotiationStable
  BY AgreedIsUsable, RenegotiationKeeps DEF ListsOK, RenegotiationStable
<1>2. QED
  BY <1>1, ListsAlwaysOK, PTL

(* The agreed mode is the first of the initiator's preferences that both    *)
(* ends can use, and text only if there is none or it comes first.          *)
THEOREM BestModeAgreed == Spec => []AgreedIsBest
<1>1. ListsOK => AgreedIsBest
  <2> SUFFICES ASSUME ListsOK PROVE AgreedIsBest
    OBVIOUS
  <2> DEFINE wanted == {i \in DOMAIN prefs : prefs[i] \in Usable}
  <2>1. wanted = CommonModes(prefs, remote) /\ wanted \subseteq 1..Len(prefs)
        /\ DOMAIN prefs = 1..Len(prefs) /\ Len(prefs) \in Nat
    BY DEF ListsOK, CommonModes, Usable
  <2>2. CASE wanted = {}
    BY <2>1, <2>2 DEF AgreedIsBest, AgreedMode
  <2>3. CASE wanted # {}
    <3>1. First(wanted) \in wanted /\ \A j \in wanted : First(wanted) <= j
      <4>1. wanted \in SUBSET Nat
        BY <2>1
      <4> HIDE DEF wanted
      <4>2. QED
        BY <4>1, <2>3, FirstIsLeast
    <3>2. AgreedMode(prefs, remote) = prefs[First(wanted)]
      BY <2>1, <2>3 DEF AgreedMode
    <3>3. ASSUME NEW j \in 1..(First(wanted) - 1) PROVE prefs[j] \notin Usable
      <4>1. j \in 1..Len(prefs) /\ ~(First(wanted) <= j)
        BY <2>1, <3>1
      <4>2. j \notin wanted
        BY <3>1, <4>1
      <4>3. QED
        BY <2>1, <4>1, <4>2
    <3>4. QED
      BY <3>1, <3>2, <3>3 DEF AgreedIsBest
  <2>4. QED
    BY <2>2, <2>3
<1>2. QED
  BY <1>1, ListsAlwaysOK, PTL

(* Whatever the lists, every mode of the fallback chain is usable by both   *)
(* ends and simpler than those before it.                                   *)
THEOREM FallbackSimplifies == Spec => []FallbackDescends
<1>1. ListsOK => FallbackDescends
  <2> SUFFICES ASSUME ListsOK PROVE FallbackDescends
    OBVIOUS
  <2> DEFINE agreed == AgreedMode(prefs, remote)
             below == {mode \in remote : /\ IsImplemented(mode) /\ mode # agreed
                                         /\ ModeNumber[mode] < ModeNumber[agreed]}
             chain == FallbackChain(prefs, remote)
             path == <<agreed>> \o chain
  <2>1. agreed \in PayloadMode /\ (agreed = "text" \/ IsImplemented(agreed))
    BY AgreedIsUsable DEF ListsOK
  <2>2. chain \in Seq(PayloadMode \cap below)
    BY FilteredMembers DEF ListsOK, FallbackChain
  <2>3. /\ Len(chain) \in Nat /\ DOMAIN chain = 1..Len(chain)
        /\ \A i \in DOMAIN chain : chain[i] \in below
    BY <2>2, LenProperties
  <2>4. \A mode \in below : mode \in Usable /\ mode = "text" /\ ModeNumber[mode] < ModeNumber[agreed]
    BY <2>1 DEF Usable, IsImplemented, ModeNumber, PayloadMode
  <2>5. path[1] = agreed /\ \A i \in 1..Len(chain) : path[i + 1] = chain[i]
    BY <2>1, <2>2, <2>3
  <2> HIDE DEF chain, below, agreed, path
  <2>6. ASSUME NEW i \in 1..Len(chain) PROVE ModeNumber[path[i + 1]] <= ModeNumber[path[i]]
    <3>1. path[i + 1] = "text" /\ ModeNumber["text"] = 0
      BY <2>3, <2>4, <2>5 DEF ModeNumber
    <3>2. path[i] \in PayloadMode
      <4>1. CASE i = 1
        BY <2>1, <2>5, <4>1
      <4>2. CASE i # 1
        <5>1. i - 1 \in 1..Len(chain) /\ (i - 1) + 1 = i
          BY <2>3, <4>2
        <5>2. path[i] = "text"
          BY <2>3, <2>4, <2>5, <5>1
        <5>3. QED
          BY <5>2 DEF PayloadMode
      <4>3. QED
        BY <4>1, <4>2
    <3>3. \A mode \in PayloadMode : ModeNumber[mode] \in Nat
      BY DEF ModeNumber, PayloadMode
    <3>4. QED
      BY <3>1, <3>2, <3>3
  <2>7. QED
    BY <2>3, <2>4, <2>5, <2>6 DEF FallbackDescends, chain, path, agreed
<1>2. QED
  BY <1>1, ListsAlwaysOK, PTL

(* The two SDKs negotiate the same mode of the same lists, although one     *)
(* leaves out of its advertisement what the other skips when it compares.   *)
THEOREM NegotiationsAgree == Spec => []SdksAgree
<1>1. ListsOK => SdksAgree
  <2> SUFFICES ASSUME ListsOK PROVE SdksAgree
    OBVIOUS
  <2> DEFINE known == remote \cap Codecs({})
             both == known \cap Codecs({})
  <2>1. AgreedModePy(AdvertisedPrefs(prefs, {}), known) = AgreedModePy(prefs, both)
    BY FilteredAgrees DEF ListsOK, AdvertisedPrefs
  <2>2. {i \in DOMAIN prefs : prefs[i] \in both} = CommonModes(prefs, remote)
    BY DEF Codecs, CommonModes, IsImplemented
  <2>3. AgreedModePy(prefs, both) = AgreedMode(prefs, remote)
    BY <2>2 DEF AgreedModePy, AgreedMode
  <2>4. QED
    BY <2>1, <2>3 DEF SdksAgree
<1>2. QED
  BY <1>1, ListsAlwaysOK, PTL

===============================================================================
