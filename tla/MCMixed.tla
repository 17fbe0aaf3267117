-------------------------------- MODULE MCMixed -------------------------------
(***************************************************************************)
(* Values for the constants of MixedSystem: tasks of one Rust client over  *)
(* Python delegates, the second of which does not trust its domain, while  *)
(* the third does, and has another secret.                                 *)
(***************************************************************************)
EXTENDS MixedInvariant, TLC

CONSTANTS p1, p2, u1, u2, u3, k1, k2

(* Tasks differ in nothing but their name. *)
TaskSymmetry == Permutations(Callers)

Alpha == [name |-> "alpha", allow_cross_domain |-> FALSE, trusted_peers |-> {}]
Gamma == [name |-> "gamma", allow_cross_domain |-> TRUE, trusted_peers |-> {"beta"}]
SecondIsForeign == [u \in Urls |-> IF u = u2 THEN Gamma ELSE Alpha]
FramesFirst == <<"semantic_frame", "text">>
FrameModes == [u \in Urls |-> {"semantic_frame", "text"}]
NoCodecs == [u \in Urls |-> {}]
ThirdHasOther == [u \in Urls |-> IF u = u3 THEN k2 ELSE k1]
NoContracts == {NoContract}

===============================================================================
