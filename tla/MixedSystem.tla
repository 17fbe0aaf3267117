------------------------------ MODULE MixedSystem -----------------------------
(***************************************************************************)
(* A Rust client process, whose tasks (Callers) share an LdpAdapter, and   *)
(* one LdpDelegate of the Python SDK per URL.  The two implement the same  *)
(* protocol apart: the client's manifest and proposal, its status queries  *)
(* and its unsigned SESSION_CLOSE meet handlers that were written without  *)
(* them in mind.                                                           *)
(***************************************************************************)
EXTENDS LdpAdapter, PyDelegate, Signing, Functions

localVars == <<cache, pc, frame, ops, closed, adapterVars>>
mixedVars == <<transportVars, now, lastId, delegateVars, localVars>>

Init == TransportInit /\ DelegateInit /\ ManagerInit /\ AdapterInit

DelegateStep(conn) == ServePy(conn) /\ UNCHANGED <<localVars, now>>

StartStep(p) == CallerStarts(p) /\ UNCHANGED <<delegateVars, now>>

CallerStep(p) == CallerContinues(p) /\ UNCHANGED <<delegateVars, now>>

NetworkStep(p) == ConnectionFails(p) /\ UNCHANGED <<delegateVars, localVars, lastId, now>>

ClockStep == Tick /\ UNCHANGED <<delegateVars, localVars, lastId>>

(* Every operation has returned and the bound allows no other. *)
Finished ==
  /\ ops = MaxOps
  /\ \A p \in Callers : pc[p] = "idle"
  /\ UNCHANGED mixedVars

Next ==
  \/ \E conn \in Callers \cup {NoConn} : DelegateStep(conn)
  \/ \E p \in Callers : StartStep(p) \/ CallerStep(p) \/ NetworkStep(p)
  \/ ClockStep
  \/ Finished

Spec == Init /\ [][Next]_mixedVars

-------------------------------------------------------------------------------
(* Types *)

Reply ==
  [type : {"none", "error", "capability_manifest", "session_reject", "session_close",
           "task_result", "task_failed", "task_update"}]
    \cup
  [type : {"session_accept"}, session_id : Id, negotiated_mode : PayloadMode]

Exchange == [conn : Callers \cup {NoConn}, to : Urls, stage : {"posted"}, msg : Message]

(* Every variable of the Rust client and of the Python delegates holds what *)
(* its struct or class says, and every message in transit is one the two    *)
(* SDKs build.                                                              *)
TypeOK ==
  /\ requests \in SUBSET Exchange
  /\ replies \in [Callers -> Reply]
  /\ now \in Nat
  /\ started \in [Urls -> SUBSET [session_id : Id, payload_mode : PayloadMode]]
  /\ stopped \in [Urls -> Seq(Id)]
  /\ ran \in [Urls -> SUBSET [task_id : Id, raised : BOOLEAN]]
  /\ ManagerTypeOK
  /\ AdapterTypeOK

-------------------------------------------------------------------------------
(* Properties *)

Started(u) == {t.session_id : t \in started[u]}

(* The session a Rust client has cached is one the Python delegate's        *)
(* on_session_start was told of, under the identifier the delegate drew and *)
(* in the very mode the client negotiated by itself, and not one that       *)
(* on_session_end was told of.                                              *)
CachedSessionStarted ==
  \A u \in Urls : Cached(u) =>
    /\ [session_id |-> cache[u].session_id, payload_mode |-> cache[u].payload_mode]
         \in started[u]
    /\ cache[u].session_id \notin Range(stopped[u])

(* The hooks of a delegate come in pairs: on_session_end is called only for *)
(* a session on_session_start was called for, and once at most, so that a   *)
(* subclass may release in one what it acquired in the other.               *)
HooksPaired ==
  \A u \in Urls : Range(stopped[u]) \subseteq Started(u) /\ IsInjective(stopped[u])

(* A handle invoke() hands out stands for a task handle_task was called for *)
(* at that delegate, whether it raised or not: the client takes any         *)
(* envelope for an acceptance of the task, and a Python delegate answers    *)
(* errors, too, with an envelope.                                           *)
HandlesRan ==
  \A h \in handles : h.task_id \in {t.task_id : t \in ran[h.url]}

(* A Python delegate that does not trust the client's domain never calls    *)
(* handle_task for it, and the client has no session there: SESSION_REJECT  *)
(* is the only guard, since TASK_SUBMIT is run whatever session it names.   *)
RejectedRunNothing ==
  \A u \in Urls :
    ~Trusts(DelegateDomain[u], ClientDomain.name) => ran[u] = {} /\ ~Cached(u)

InTransit ==
  {r.msg.type : r \in requests} \cup ({replies[p].type : p \in Callers} \ {"none", "error"})

(* Client and delegate compute the same signing input for every message     *)
(* they exchange, whatever fields it leaves empty: a message is not refused *)
(* for having been signed by the other SDK.                                 *)
SdksSignAlike == InTransit \subseteq SignedAlike

(* A poll reports a task as failed only when handle_task raised for it.     *)
FailureIsTheTasks ==
  ~NetworkFails =>
    \A i \in DOMAIN outcomes : outcomes[i].result = "failed" =>
      \E u \in Urls : [task_id |-> outcomes[i].task_id, raised |-> TRUE] \in ran[u]

-------------------------------------------------------------------------------
(* Refinement: what the hooks of the delegates see and what the client has  *)
(* cached goes through the life cycle of SessionLifecycle.                  *)

Lifecycle ==
  INSTANCE SessionLifecycle WITH
    Id <- 1..(3 * MaxOps),
    live <- [u \in Urls |-> Started(u) \ Range(stopped[u])],
    ended <- [u \in Urls |-> Range(stopped[u])],
    current <- [u \in Urls |-> cache[u].session_id]

ImplementsLifecycle == Lifecycle!Spec

===============================================================================
