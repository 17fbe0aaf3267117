----------------------------- MODULE MCReplayGuard ----------------------------
(***************************************************************************)
(* Four messages with a nonce, one of them stamped later and one with a    *)
(* timestamp that cannot be read, and a message without a nonce.           *)
(***************************************************************************)
EXTENDS ReplayGuard

CONSTANTS k1, k2, k3, k4

Traffic ==
  {[key |-> k1, stamp |-> 1], [key |-> k2, stamp |-> 1], [key |-> k3, stamp |-> 4],
   [key |-> k4, stamp |-> Unreadable], [key |-> NoKey, stamp |-> 1]}

===============================================================================
