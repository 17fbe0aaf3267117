------------------------------ MODULE MCLdpSystem -----------------------------
(***************************************************************************)
(* Values for the constants of LdpSystem: two or one client tasks, one or  *)
(* two delegates.                                                          *)
(***************************************************************************)
EXTENDS TaskInvariant, TLC

CONSTANTS p1, p2, u1, u2, k1

(* Tasks differ in nothing but their name. *)
TaskSymmetry == Permutations(Callers)

MCDomain(name, peers) ==
  [name |-> name, allow_cross_domain |-> peers # {}, trusted_peers |-> peers]

FramesFirst == <<"semantic_graph", "semantic_frame", "text">>

Alpha == MCDomain("alpha", {})
AllAlpha == [u \in Urls |-> Alpha]
SecondIsForeign == [u \in Urls |-> IF u = u2 THEN MCDomain("beta", {"gamma"}) ELSE Alpha]
BothModes == [u \in Urls |-> {"semantic_frame", "text"}]
Unsigned == [u \in Urls |-> NoSecret]
Signed == [u \in Urls |-> k1]

NoContracts == {NoContract}
WithDeadline == [id : {1}, deadline : {0}, policy : {"fail_closed", "fail_open"}]

===============================================================================
