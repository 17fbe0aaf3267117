----------------------------- MODULE Negotiation ------------------------------
(***************************************************************************)
(* negotiate_payload_mode (src/src/types/payload.rs, and payload.py of the *)
(* Python SDK) over every preference list and every set of supported       *)
(* modes: the initiator's list and the responder's set are built up one    *)
(* mode at a time, and in every state reached the algorithm is compared    *)
(* with what negotiation should mean.                                      *)
(***************************************************************************)
EXTENDS LdpTypes

CONSTANT MaxPrefs   \* bound: length of the initiator's list

VARIABLES prefs, remote

negotiationVars == <<prefs, remote>>

Init == prefs = <<>> /\ remote = {}

Prefer(mode) ==
  /\ Len(prefs) < MaxPrefs
  /\ prefs' = Append(prefs, mode)
  /\ UNCHANGED remote

Support(mode) ==
  /\ mode \notin remote
  /\ remote' = remote \cup {mode}
  /\ UNCHANGED prefs

Next == \E mode \in PayloadMode : Prefer(mode) \/ Support(mode)

Spec == Init /\ [][Next]_negotiationVars

-------------------------------------------------------------------------------

Usable == {mode \in remote : IsImplemented(mode)}

(* The agreed mode is the reference definition's: one usable by both that   *)
(* no usable mode precedes in the initiator's list, and text only when the  *)
(* two have nothing usable in common or text comes first.                   *)
AgreedIsBest ==
  LET agreed == AgreedMode(prefs, remote)
      wanted == {i \in DOMAIN prefs : prefs[i] \in Usable}
  IN  \/ wanted = {} /\ agreed = "text"
      \/ \E i \in wanted : prefs[i] = agreed /\ \A j \in 1..(i - 1) : prefs[j] \notin Usable

(* The responder negotiates a second time, from <<proposed mode, text>>:   *)
(* both ends settle on the same mode.                                       *)
RenegotiationStable ==
  LET agreed == AgreedMode(prefs, remote)
  IN  AgreedMode(<<agreed, "text">>, remote) = agreed

(* Falling back along the chain only ever leads to modes both ends can use *)
(* and, from the agreed mode on, never back up.                             *)
FallbackDescends ==
  LET chain == FallbackChain(prefs, remote)
      path == <<AgreedMode(prefs, remote)>> \o chain
  IN  /\ \A i \in DOMAIN chain : chain[i] \in Usable
      /\ \A i \in DOMAIN chain : ModeNumber[chain[i]] < ModeNumber[path[1]]
      /\ \A i \in 1..Len(chain) : ModeNumber[path[i + 1]] <= ModeNumber[path[i]]

(* A Python client whose process has no codec registered and a Python       *)
(* delegate without one, each advertising what it can speak, agree on the    *)
(* mode the Rust negotiation of the same two lists gives.                    *)
SdksAgree ==
  AgreedModePy(AdvertisedPrefs(prefs, {}), remote \cap Codecs({})) = AgreedMode(prefs, remote)

===============================================================================
