------------------------------- MODULE LdpTypes -------------------------------
(***************************************************************************)
(* The pure parts of src/src/types that the protocol engine calls: payload *)
(* mode negotiation (payload.rs), trust domains (trust.rs) and the expiry  *)
(* test of a session (session.rs).  No state.                              *)
(***************************************************************************)
EXTENDS Integers, Sequences

-------------------------------------------------------------------------------
(* payload.rs *)

PayloadMode == {"text", "semantic_frame", "embedding_hints", "semantic_graph"}

ModeNumber ==
  [text |-> 0, semantic_frame |-> 1, embedding_hints |-> 2, semantic_graph |-> 3]

IsImplemented(mode) == mode \in {"text", "semantic_frame"}

(* The positions of the initiator's preferences that the responder can use *)
(* too.  negotiate_payload_mode asks of the responder's list only whether  *)
(* it contains a mode, so that list is a set here.                         *)
CommonModes(prefs, remote) ==
  {i \in DOMAIN prefs : IsImplemented(prefs[i]) /\ prefs[i] \in remote}

First(S) == CHOOSE i \in S : \A j \in S : i <= j

(* Plausible slips in the negotiation, used by the mutation checks. *)
AgreedOfUnimplemented(prefs, remote) ==
  LET common == {i \in DOMAIN prefs : prefs[i] \in remote}
  IN  IF common = {} THEN "text" ELSE prefs[First(common)]

AgreedOfLast(prefs, remote) ==
  LET common == CommonModes(prefs, remote)
  IN  IF common = {} THEN "text" ELSE prefs[CHOOSE i \in common : \A j \in common : j <= i]

AgreedMode(prefs, remote) ==
  LET common == CommonModes(prefs, remote)
  IN  IF common = {} THEN "text" ELSE prefs[First(common)]

(* filter: the elements of seq that are in S, in order.  SelectSeq, but as a *)
(* function, which facts can be proved of.                                  *)
Filtered(seq, S) ==
  LET kept[i \in 0..Len(seq)] ==
        IF i = 0 THEN <<>>
        ELSE IF seq[i] \in S THEN Append(kept[i - 1], seq[i]) ELSE kept[i - 1]
  IN  kept[Len(seq)]

FallbackOfAllCommon(prefs, remote) ==
  Filtered(prefs, {mode \in remote : IsImplemented(mode)})

FallbackChain(prefs, remote) ==
  LET agreed == AgreedMode(prefs, remote)
  IN  Filtered(prefs, {mode \in remote :
                         /\ IsImplemented(mode)
                         /\ mode # agreed
                         /\ ModeNumber[mode] < ModeNumber[agreed]})

-------------------------------------------------------------------------------
(* payload.py: the same negotiation in the Python SDK.  It trusts what each *)
(* party declares; that a party declares only what it can speak is seen to  *)
(* where a list is advertised.                                              *)

(* is_implemented: `registered` is what register_payload_mode has added. *)
Codecs(registered) == {"text", "semantic_frame"} \cup registered

AdvertisedPrefs(prefs, registered) == Filtered(prefs, Codecs(registered))

AgreedModePy(prefs, remote) ==
  LET common == {i \in DOMAIN prefs : prefs[i] \in remote}
  IN  IF common = {} THEN "text" ELSE prefs[First(common)]

-------------------------------------------------------------------------------
(* trust.rs: a domain is [name, allow_cross_domain, trusted_peers], the *)
(* peers a set because only membership is asked.                        *)

Trusts(domain, peer) ==
  \/ domain.name = peer
  \/ domain.allow_cross_domain /\ peer \in domain.trusted_peers

-------------------------------------------------------------------------------
(* session.rs *)

(* `ttl_secs as i64`: an unsigned integer of `bits` bits read as a signed one. *)
AsSigned(n, bits) == IF n < 2^(bits - 1) THEN n ELSE n - 2^bits

(* is_active for a session in state Active, the only state the code ever    *)
(* gives a session; the clock counts whole seconds, as num_seconds does.    *)
NotExpired(lastUsed, ttlSecs, bits, clock) == clock - lastUsed < AsSigned(ttlSecs, bits)

===============================================================================
