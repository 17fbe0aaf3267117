--------------------------- MODULE SessionLifecycle ---------------------------
(***************************************************************************)
(* What the session protocol promises, without messages: a session is      *)
(* opened once at a delegate, may become the client's current session      *)
(* while it is open, and is ended only when it is not the current one,     *)
(* for good.                                                               *)
(***************************************************************************)
CONSTANTS Urls, Id, NoId

VARIABLES
  live,       \* live[u]: sessions open at u
  ended,      \* ended[u]: sessions u has closed
  current     \* current[u]: the session the client uses for u, or NoId

lifecycleVars == <<live, ended, current>>

Init ==
  /\ live = [u \in Urls |-> {}]
  /\ ended = [u \in Urls |-> {}]
  /\ current = [u \in Urls |-> NoId]

(* An identifier opens one session, at one delegate. *)
Open(u, id) ==
  /\ \A v \in Urls : id \notin live[v] \cup ended[v]
  /\ live' = [live EXCEPT ![u] = @ \cup {id}]
  /\ UNCHANGED <<ended, current>>

Adopt(u, id) ==
  /\ id \in live[u]
  /\ current' = [current EXCEPT ![u] = id]
  /\ UNCHANGED <<live, ended>>

Retire(u) ==
  /\ current' = [current EXCEPT ![u] = NoId]
  /\ UNCHANGED <<live, ended>>

End(u, id) ==
  /\ id \in live[u] \ {current[u]}
  /\ live' = [live EXCEPT ![u] = @ \ {id}]
  /\ ended' = [ended EXCEPT ![u] = @ \cup {id}]
  /\ UNCHANGED current

Next ==
  \E u \in Urls :
    \/ Retire(u)
    \/ \E id \in Id : Open(u, id) \/ Adopt(u, id) \/ End(u, id)

Spec == Init /\ [][Next]_lifecycleVars

===============================================================================
