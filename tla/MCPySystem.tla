------------------------------ MODULE MCPySystem ------------------------------
(***************************************************************************)
(* Values for the constants of PySystem: two coroutines and three          *)
(* delegates.  u1 and the client trust each other; u2 trusts the client     *)
(* and is not trusted by it; u3 is trusted by the client, a peer of its     *)
(* domain, and does not trust it.                                           *)
(***************************************************************************)
EXTENDS PyInvariant, TLC

CONSTANTS p1, p2, u1, u2, u3, k1, k2

(* Coroutines differ in nothing but their name. *)
TaskSymmetry == Permutations(Callers)

MCDomain(name, peers) ==
  [name |-> name, allow_cross_domain |-> peers # {}, trusted_peers |-> peers]

GraphFirst == <<"semantic_graph", "semantic_frame", "text">>
Alpha == MCDomain("alpha", {})
AlphaGamma == MCDomain("alpha", {"gamma"})
GraphCodec == {"semantic_graph"}

Domains ==
  [u \in Urls |-> IF u = u2 THEN MCDomain("beta", {"alpha"})
                 ELSE IF u = u3 THEN MCDomain("gamma", {"beta"})
                 ELSE Alpha]
RichModes == [u \in Urls |-> {"semantic_graph", "semantic_frame", "text"}]
NoCodecs == [u \in Urls |-> {}]
SharedSecret == [u \in Urls |-> k1]
OtherSecret == [u \in Urls |-> k2]

===============================================================================
