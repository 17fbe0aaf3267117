---------------------------- MODULE MixedInvariant ----------------------------
(***************************************************************************)
(* Why a Rust client and Python delegates get along: the inductive         *)
(* invariant behind CachedSessionStarted, HooksPaired, HandlesRan and      *)
(* RejectedRunNothing, part by part.                                       *)
(***************************************************************************)
EXTENDS MixedSystem, FiniteSets

(* The await a caller is suspended at while a message of this type is out. *)
AwaitOf ==
  [hello |-> "hello", session_propose |-> "propose", task_submit |-> "submit",
   task_update |-> "polled", task_cancel |-> "cancel", session_close |-> "close"]

Proposals == {r \in requests : r.msg.type = "session_propose"}
Closes == {r \in requests : r.msg.type = "session_close"}
Submissions == {r \in requests : r.msg.type = "task_submit"}

(* A connected request is the one its caller waits for, still unanswered;  *)
(* whatever asks a delegate for something is signed; and no poll brings a  *)
(* result, which a Python delegate gives only to TASK_SUBMIT.              *)
WireInv ==
  /\ \A r \in requests : r.conn # NoConn =>
       /\ pc[r.conn] = AwaitOf[r.msg.type]
       /\ frame[r.conn].url = r.to
       /\ replies[r.conn] = NoReply
       /\ r.msg.type = "task_submit" => r.msg.task_id = frame[r.conn].task
  /\ \A q, r \in requests : q.conn = r.conn /\ q.conn # NoConn => q = r
  /\ \A r \in requests : r.msg.type # "session_close" => r.msg.signature = ClientSecret
  /\ \A p \in Callers : pc[p] = "polled" => ~Answered(p, "task_result")

-------------------------------------------------------------------------------
(* Sessions *)

(* The session is known to u's hooks as open, in the mode both ends fall to. *)
OpenAt(u, id) ==
  /\ [session_id |-> id, payload_mode |-> "text"] \in started[u]
  /\ id \notin Range(stopped[u])

(* p has been granted a session that is not cached yet. *)
Granted(p) ==
  \/ pc[p] = "propose" /\ Answered(p, "session_accept")
  \/ pc[p] = "caching"

Grant(p) == IF pc[p] = "caching" THEN frame[p].session.session_id ELSE replies[p].session_id

(* A delegate draws an identifier for one session. *)
SessionsDrawn ==
  /\ \A u \in Urls : \A t \in started[u] :
       t.session_id \in 1..lastId /\ t.payload_mode = "text"
  /\ \A u, v \in Urls : u # v => Started(u) \cap Started(v) = {}

(* The client speaks text wherever its handshake gets it. *)
TextNegotiated ==
  \A p \in Callers : pc[p] \in {"propose", "caching"} =>
    frame[p].session.payload_mode = "text"

(* An open session is granted to one caller, cached for its URL, or named  *)
(* by one SESSION_CLOSE on its way.                                         *)
OnePlaceEach ==
  /\ \A p \in Callers : Granted(p) =>
       /\ OpenAt(frame[p].url, Grant(p))
       /\ \A q \in Callers : Granted(q) /\ Grant(q) = Grant(p) => q = p
       /\ \A u \in Urls : cache[u].session_id # Grant(p)
  /\ \A r \in Closes :
       /\ OpenAt(r.to, r.msg.session_id)
       /\ \A q \in Closes : q.msg.session_id = r.msg.session_id => q = r
       /\ \A u \in Urls : cache[u].session_id # r.msg.session_id
       /\ \A p \in Callers : Granted(p) => Grant(p) # r.msg.session_id

HookInv ==
  /\ SessionsDrawn
  /\ TextNegotiated
  /\ OnePlaceEach
  /\ CachedSessionStarted
  /\ HooksPaired

-------------------------------------------------------------------------------
(* Tasks *)

(* u trusts the client's domain and does not refuse its signature. *)
Welcome(u) ==
  /\ Trusts(DelegateDomain[u], ClientDomain.name)
  /\ DelegateSecret[u] # NoSecret => ClientSecret \in {NoSecret, DelegateSecret[u]}

(* Sessions are started, and tasks sent and run, only where both hold. *)
WelcomeInv ==
  /\ \A u \in Urls : started[u] # {} \/ ran[u] # {} => Welcome(u)
  /\ \A p \in Callers : pc[p] \in {"established", "submit"} => Welcome(frame[p].url)
  /\ \A r \in Submissions : Welcome(r.to)

RanIds(u) == {t.task_id : t \in ran[u]}

(* p's submission has come back Ok. *)
Accepted(p) ==
  \/ pc[p] = "submitted"
  \/ pc[p] = "submit" /\ ~Answered(p, "none") /\ ~Answered(p, "error")

(* An accepted task was run where its caller submitted it. *)
RanInv ==
  /\ \A p \in Callers : Accepted(p) => frame[p].task \in RanIds(frame[p].url)
  /\ HandlesRan

-------------------------------------------------------------------------------
(* The callers that will draw a session's identifier, and a task's, if *)
(* their operations go well.                                           *)
Greeting == {p \in Callers : pc[p] = "hello"}
Submitting == {p \in Callers : pc[p] \in {"hello", "propose", "caching", "established"}}

(* An operation draws three identifiers at most: the one it proposes, the *)
(* one the delegate draws instead, and the task's.                        *)
DrawInv ==
  /\ IsFiniteSet(Greeting) /\ IsFiniteSet(Submitting) /\ IsFiniteSet(Proposals)
  /\ ops <= MaxOps
  /\ lastId + 2 * Cardinality(Greeting) + Cardinality(Proposals) + Cardinality(Submitting)
       <= 3 * ops

(* Every session a delegate has been told of has one place at a time, and  *)
(* every accepted task was run by a delegate that welcomes the client.     *)
MixedInv == WireInv /\ HookInv /\ WelcomeInv /\ RanInv /\ DrawInv

===============================================================================
