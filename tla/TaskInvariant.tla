----------------------------- MODULE TaskInvariant ----------------------------
(***************************************************************************)
(* Why sessions and tasks are used rightly: the inductive invariants       *)
(* behind OnlyTrustingDelegates, ResultInSessionMode, ClosedSessionsEnd,   *)
(* HandlePollable, PollFailsOnlyIfCancelled, ContractReported and          *)
(* BreachIsFinal, part by part.                                            *)
(***************************************************************************)
EXTENDS SessionInvariant

Trusting(u) == Trusts(ServerDomain[u], ClientDomain.name)

(* A delegate that trusts nobody of the client's domain never gets as far  *)
(* as accepting a session, nor as running a task.                          *)
TrustInv ==
  /\ OnlyTrustingDelegates
  /\ \A p \in Callers :
       \/ pc[p] \in {"caching", "established", "submit", "submitted"}
       \/ pc[p] = "propose" /\ Answered(p, "session_accept")
       => Trusting(frame[p].url)
  /\ \A r \in requests : r.msg.type = "task_submit" => Trusting(r.to)

-------------------------------------------------------------------------------

(* A task is submitted in a session its delegate has open in the client's  *)
(* mode or has ended since, and a delegate has one session per identifier. *)
ModeInv ==
  /\ \A u \in Urls : \A s, t \in sessions[u] : s.session_id = t.session_id => s = t
  /\ \A p \in Callers : pc[p] \in {"established", "submit"} =>
       \/ OpenAt(frame[p].url, frame[p].session)
       \/ frame[p].session.session_id \in ended[frame[p].url]
  /\ \A r \in requests : r.msg.type = "task_submit" /\ r.conn # NoConn =>
       r.msg.session_id = frame[r.conn].session.session_id
  /\ ResultInSessionMode

-------------------------------------------------------------------------------

(* No handshake is under way for the session `id`, nor will one be. *)
Disowned(id) == id <= lastId /\ \A p \in Callers : Holds(p) => Held(p) # id

(* With connections that do not fail, a SESSION_CLOSE that was answered has *)
(* ended its session, if the delegate asks for no signature.                *)
CloseInv ==
  /\ \A p \in Callers : pc[p] = "close" =>
       /\ Disowned(Held(p))
       /\ ~NetworkFails /\ ~Answered(p, "none") /\ ServerSecret[frame[p].url] = NoSecret
            => Held(p) \notin SessionIds(frame[p].url)
  /\ \A c \in closed :
       /\ Disowned(c.session_id)
       /\ ~NetworkFails /\ ServerSecret[c.url] = NoSecret
            => c.session_id \notin SessionIds(c.url)
  /\ \A r \in requests :
       /\ ~NetworkFails => r.conn # NoConn
       /\ r.msg.type = "session_close" /\ r.conn # NoConn =>
            Held(r.conn) = r.msg.session_id

-------------------------------------------------------------------------------

(* The callers that will draw a session identifier, and a task identifier, *)
(* if their operations go well.                                            *)
Proposing == {p \in Callers : pc[p] = "hello"}
Submitting == {p \in Callers : pc[p] \in {"hello", "propose", "caching", "established"}}

(* An operation draws two identifiers at most, and none of them is NoId. *)
DrawInv ==
  /\ IsFiniteSet(Submitting) /\ IsFiniteSet(Proposing)
  /\ ops <= MaxOps
  /\ lastId + Cardinality(Proposing) + Cardinality(Submitting) <= 2 * ops
  /\ \A r \in Proposals : r.msg.session_id # NoId

-------------------------------------------------------------------------------
(* Tasks *)

Submits(p) == pc[p] \in {"submit", "submitted"}

(* p's submission has come back Ok. *)
Accepted(p) ==
  \/ pc[p] = "submitted"
  \/ pc[p] = "submit" /\ ~Answered(p, "none") /\ ~Answered(p, "error")

(* What an admitted client of u has: the secret u asks for, if any. *)
SameSecret(u) == ServerSecret[u] # NoSecret => ClientSecret = ServerSecret[u]

(* A task `id` was run at u, and is kept there until it is cancelled. *)
Ran(u, id) == SameSecret(u) /\ id \in TaskIds(u) \cup cancelled

(* An operation keeps its name while it runs. *)
OperationsNamed ==
  /\ \A p \in Callers :
       pc[p] \in {"hello", "propose", "caching", "established", "submit", "submitted"}
         => frame[p].op \in {"invoke", "stream"}
  /\ \A h \in handles : h.op \in {"invoke", "stream"}

TaskIdsDrawn ==
  /\ \A p \in Callers : Submits(p) => frame[p].task <= lastId
  /\ \A h \in handles : h.task_id <= lastId
  /\ \A c \in contracts : c.task_id <= lastId

(* A task identifier is that of one submission or of one handle. *)
OneTaskEach ==
  /\ \A p, q \in Callers : Submits(p) /\ Submits(q) /\ frame[p].task = frame[q].task => p = q
  /\ \A p \in Callers, h \in handles : Submits(p) => h.task_id # frame[p].task
  /\ \A g, h \in handles : g.task_id = h.task_id => g = h

(* The adapter remembers the contract of an accepted task, and no other. *)
Kept(id, contract) ==
  /\ contract # NoContract => [task_id |-> id, contract |-> contract] \in contracts
  /\ \A c \in contracts : c.task_id = id => c.contract = contract

ContractsKept ==
  /\ \A h \in handles : Kept(h.task_id, h.contract)
  /\ \A p \in Callers : pc[p] = "submitted" => Kept(frame[p].task, frame[p].contract)
  /\ \A p \in Callers, c \in contracts : pc[p] = "submit" => c.task_id # frame[p].task

(* The handle that p polls: as its stream, or as an invoke's status. *)
PollOf(p, h) ==
  /\ h.task_id = frame[p].task
  /\ h.url = frame[p].url
  /\ \/ frame[p].op = "status" /\ h.op = "invoke"
     \/ frame[p].op = "stream" /\ h.op = "stream" /\ h.contract = frame[p].contract

PollsHandle ==
  \A p \in Callers : pc[p] \in {"polling", "polled"} => \E h \in handles : PollOf(p, h)

(* A request about a task is about its caller's task, or about a handle. *)
TaskRequests ==
  \A r \in requests :
    /\ r.msg.type # "session_close" => r.msg.signature = ClientSecret
    /\ r.msg.type \in {"task_submit", "task_update"} /\ r.conn # NoConn =>
         r.msg.task_id = frame[r.conn].task
    /\ r.msg.type \in {"task_update", "task_cancel"} =>
         \E h \in handles : h.task_id = r.msg.task_id /\ h.url = r.to
    /\ r.msg.type = "task_cancel" => r.msg.task_id \in cancelled

(* From its first half step on, a submitted task can be found. *)
TasksFound ==
  /\ \A r \in requests : r.stage = "executed" => Ran(r.to, r.msg.task_id)
  /\ \A p \in Callers : Accepted(p) => Ran(frame[p].url, frame[p].task)
  /\ \A h \in handles : Ran(h.url, h.task_id)
  /\ \A u \in Urls : \A t \in tasks[u] : t.state = "completed"

PollsAnswered ==
  ~NetworkFails =>
    \A p \in Callers :
      pc[p] = "polled" /\ (Answered(p, "error") \/ Answered(p, "task_failed"))
        => frame[p].task \in cancelled

(* What a caller was told of a task follows from the task's contract. *)
OutcomeOf(o, h) ==
  /\ o.task_id = h.task_id
  /\ InBreach(o) => Violated(h.contract)
  /\ o.result = "violated" => h.contract.policy = "fail_closed"
  /\ o.satisfied = "no" => h.op = "invoke"
  /\ h.op = "invoke" /\ h.contract # NoContract /\ o.result \in {"completed", "violated"}
       => o.satisfied # "unset"

OutcomesExplained ==
  \A i \in DOMAIN outcomes : \E h \in handles : OutcomeOf(outcomes[i], h)

TaskInv ==
  /\ OperationsNamed
  /\ TaskIdsDrawn
  /\ OneTaskEach
  /\ ContractsKept
  /\ PollsHandle
  /\ TaskRequests
  /\ TasksFound
  /\ PollsAnswered
  /\ OutcomesExplained
  /\ PollFailsOnlyIfCancelled
  /\ BreachIsFinal

(* Every session has one place at a time, and every task one owner. *)
SystemInv == SessionInv /\ TrustInv /\ ModeInv /\ CloseInv /\ DrawInv /\ TaskInv

===============================================================================
