------------------------------ MODULE PyInvariant -----------------------------
(***************************************************************************)
(* Why what the Python client holds is true: the inductive invariant       *)
(* behind the properties of PySystem, part by part.                        *)
(***************************************************************************)
EXTENDS PySystem

(* The await a coroutine is suspended at while a message of this type is   *)
(* out.                                                                    *)
AwaitOf ==
  [hello |-> "hello", session_propose |-> "propose", get_identity |-> "discover",
   task_submit |-> "submit"]

(* A connected request is the one its coroutine waits for, unanswered.     *)
RequestsAwaited ==
  \A r \in requests : r.conn # NoConn =>
    /\ pc[r.conn] = AwaitOf[r.msg.type]
    /\ frame[r.conn].url = r.to
    /\ replies[r.conn] = NoReply

OneRequestEach ==
  \A q, r \in requests : q.conn = r.conn /\ q.conn # NoConn => q = r

(* Only the Rust server's submissions have a second half.                  *)
ExecutedAreSubmissions ==
  \A r \in requests : r.stage = "executed" => r.msg.type = "task_submit" /\ r.to \in RustUrls

(* A connected request carries its coroutine's locals.                     *)
LocalsSent ==
  \A r \in requests : r.conn # NoConn =>
    /\ r.msg.type \in {"session_propose", "task_submit"} =>
         r.msg.session_id = frame[r.conn].session_id
    /\ r.msg.type = "task_submit" => r.msg.task_id = frame[r.conn].task

WireInv == RequestsAwaited /\ OneRequestEach /\ ExecutedAreSubmissions /\ LocalsSent

-------------------------------------------------------------------------------
(* Identifiers *)

Proposals == {r \in requests : r.msg.type = "session_propose"}

HeldIds == {s.session_id : s \in held}

(* p is about to hold the session Pending(p), unless its handshake fails.  *)
Awaits(p) == pc[p] \in {"propose", "discover"} /\ ~Got(p, "error")

Pending(p) == IF pc[p] = "propose" THEN AcceptedId(p) ELSE frame[p].session_id

IdsDrawn ==
  /\ HeldIds \subseteq 1..lastId
  /\ \A u \in Urls : SessionIds(u) \subseteq 1..lastId
  /\ \A p \in Callers : Awaits(p) => Pending(p) \in 1..lastId
  /\ \A r \in Proposals : r.msg.session_id \in 1..lastId

(* A session identifier belongs to one handshake, then to one session.     *)
OneOwner ==
  /\ \A p, q \in Callers : Awaits(p) /\ Awaits(q) /\ Pending(p) = Pending(q) => p = q
  /\ \A p \in Callers : Awaits(p) => Pending(p) \notin HeldIds
  /\ \A s, t \in held : s.session_id = t.session_id => s = t

(* A proposal names a session nobody has opened.                           *)
ProposalsFresh ==
  \A r \in Proposals :
    /\ \A u \in Urls : r.msg.session_id \notin SessionIds(u)
    /\ \A q \in Proposals : q.msg.session_id = r.msg.session_id => q = r

OneSessionEach ==
  \A u \in Urls : \A s, t \in sessions[u] : s.session_id = t.session_id => s = t

(* What is current for a URL is a session with its delegate.               *)
CurrentHeld ==
  \A u \in Urls : current[u] # NoId =>
    \E s \in held : s.session_id = current[u] /\ s.url = u

IdentityInv == IdsDrawn /\ OneOwner /\ ProposalsFresh /\ OneSessionEach /\ CurrentHeld

-------------------------------------------------------------------------------
(* What the delegates know *)

(* The modes both ends can work in.  A Rust server negotiates from another *)
(* field and is asked for no codec.                                        *)
Spoken(u, mode) ==
  u \notin RustUrls => mode \in Codecs(PyCodecs) \cap Codecs(DelegateCodecs[u])

(* What SESSION_PROPOSE is answered with. *)
ProposalsAnswered ==
  \A p \in Callers : pc[p] = "propose" =>
    LET u == frame[p].url
    IN  /\ replies[p].type \in
             {"none", "error", "session_reject", "session_accept"} \cup
             (IF Verified(u) THEN {} ELSE {"task_failed"})
        /\ Got(p, "session_accept") =>
             /\ KnownAt(u, replies[p].session_id, replies[p].negotiated_mode)
             /\ u \notin RustUrls => replies[p].negotiated_mode \in Codecs(DelegateCodecs[u])
             /\ Trusts(DomainOf(u), PyDomain.name)

(* What SESSION_ACCEPT said of the session p is about to hold. *)
DiscoverersAccepted ==
  \A p \in Callers : pc[p] = "discover" =>
    LET u == frame[p].url
    IN  /\ replies[p].type \in {"none", "error", "identity"}
        /\ Got(p, "identity") => replies[p].trust_domain = DomainOf(u).name
        /\ Verified(u) => /\ KnownAt(u, frame[p].session_id, frame[p].payload_mode)
                          /\ Trusts(DomainOf(u), PyDomain.name)
        /\ Spoken(u, frame[p].payload_mode)

HandshakeInv == ProposalsAnswered /\ DiscoverersAccepted

(* What MutualTrust says of a delegate that has to do with the client.     *)
Befriended(u) ==
  /\ EnforceTrust => Trusts(PyDomain, DomainOf(u).name)
  /\ Verified(u) => Trusts(DomainOf(u), PyDomain.name)

SessionsHeld ==
  \A s \in held :
    /\ Verified(s.url) => KnownAt(s.url, s.session_id, s.payload_mode)
    /\ Spoken(s.url, s.payload_mode)
    /\ Befriended(s.url)

(* A task is submitted in a session the client holds.                      *)
SubmittersHold ==
  \A p \in Callers : pc[p] = "submit" =>
    \E s \in held : s.session_id = frame[p].session_id /\ s.url = frame[p].url

TasksBefriended ==
  /\ \A r \in requests : r.msg.type = "task_submit" => Befriended(r.to)
  /\ \A u \in Urls : ran[u] # {} \/ tasks[u] # {} => Befriended(u)

HoldingInv == SessionsHeld /\ SubmittersHold /\ TasksBefriended /\ ResultInSessionMode

-------------------------------------------------------------------------------
(* Counting *)

AnsweredIn(id) == {a \in answered : a.session_id = id}

AnsweredTasks == {a.task_id : a \in answered}

(* A task is answered once, in a session that is held.                     *)
TasksOnce ==
  /\ \A p, q \in Callers :
       pc[p] = "submit" /\ pc[q] = "submit" /\ frame[p].task = frame[q].task => p = q
  /\ \A p \in Callers : pc[p] = "submit" =>
       frame[p].task <= lastId /\ frame[p].task \notin AnsweredTasks
  /\ \A a \in answered : a.task_id <= lastId /\ a.session_id \in HeldIds

CountInv == IsFiniteSet(answered) /\ TasksOnce /\ AnsweredTasksCounted

(* A delegate answers a submission only after it has run the task.         *)
SubmissionsRan ==
  /\ \A r \in requests : r.stage = "executed" => r.msg.task_id \in RanAt(r.to)
  /\ \A p \in Callers :
       pc[p] = "submit" /\ ~Got(p, "none") /\ ~Got(p, "error") /\ Verified(frame[p].url) =>
         frame[p].task \in RanAt(frame[p].url)

RanInv == SubmissionsRan /\ AnsweredTasksRan

(* What a coroutine holds, its delegate has said. *)
PyInv == WireInv /\ IdentityInv /\ HandshakeInv /\ HoldingInv /\ CountInv /\ RanInv

===============================================================================
