------------------------------- MODULE LdpSystem ------------------------------
(***************************************************************************)
(* One client process, whose tasks (Callers) share an LdpAdapter, and one  *)
(* LdpServer per URL, over HTTP.                                           *)
(***************************************************************************)
EXTENDS LdpServer, LdpAdapter, FiniteSets

clientVars == <<managerVars, adapterVars>>
vars == <<transportVars, now, serverVars, clientVars>>

Init == TransportInit /\ ServerInit /\ ManagerInit /\ AdapterInit

ServerStep(conn) == Serve(conn) /\ UNCHANGED clientVars

CallerStep(p) == CallerContinues(p) /\ UNCHANGED <<serverVars, now>>

StartStep(p) == CallerStarts(p) /\ UNCHANGED <<serverVars, now>>

NetworkStep(p) == ConnectionFails(p) /\ UNCHANGED <<serverVars, clientVars, now>>

ClockStep == Tick /\ UNCHANGED <<serverVars, clientVars>>

(* Every operation has returned and the bound allows no other. *)
Finished ==
  /\ ops = MaxOps
  /\ \A p \in Callers : pc[p] = "idle"
  /\ UNCHANGED vars

Next ==
  \/ \E conn \in Callers \cup {NoConn} : ServerStep(conn)
  \/ \E p \in Callers : StartStep(p) \/ CallerStep(p) \/ NetworkStep(p)
  \/ ClockStep
  \/ Finished

Spec == Init /\ [][Next]_vars

(* The runtime keeps polling every task that can go on, and a server that *)
(* has a request works on it.  Nobody has to start an operation, and      *)
(* connections do not have to fail.                                       *)
Fairness == \A p \in Callers : WF_vars(CallerStep(p)) /\ WF_vars(ServerStep(p))

FairSpec == Spec /\ Fairness

-------------------------------------------------------------------------------
(* Types *)

ServerSession == [session_id : Id, payload_mode : PayloadMode, ttl_secs : Nat, last_used : Nat]
Task == [task_id : Id, state : TaskRecordState]

Reply ==
  [type : {"none", "error", "session_reject", "session_close"}]
    \cup
  [type : {"capability_manifest"}, modes : SUBSET PayloadMode]
    \cup
  [type : {"session_accept"}, session_id : Id, negotiated_mode : PayloadMode]
    \cup
  [type : {"task_result"}, task_id : Id, payload_mode : PayloadMode, mode_used : PayloadMode]
    \cup
  [type : {"task_failed"}, task_id : Id]
    \cup
  [type : {"task_update"}, task_id : Id, state : TaskRecordState]

Exchange == [conn : Callers \cup {NoConn}, to : Urls, stage : {"posted", "executed"},
             msg : Message]

TransportTypeOK ==
  /\ requests \in SUBSET Exchange
  /\ replies \in [Callers -> Reply]

ServerTypeOK ==
  /\ sessions \in [Urls -> SUBSET ServerSession]
  /\ tasks \in [Urls -> SUBSET Task]
  /\ ended \in [Urls -> SUBSET Id]

(* Every variable of the client and of the servers holds what its struct in *)
(* src/src says, and every message in transit is one the code builds.       *)
TypeOK ==
  /\ TransportTypeOK
  /\ now \in Nat
  /\ ServerTypeOK
  /\ ManagerTypeOK
  /\ AdapterTypeOK

(* What TypeOK needs to be inductive: only a submitted task is handled in *)
(* two steps, so the second step finds the message it expects.             *)
ExecutedAreSubmissions ==
  \A r \in requests : r.stage = "executed" => r.msg.type = "task_submit"

-------------------------------------------------------------------------------
(* Safety *)

(* A session in the client's cache is open at its delegate, in the mode the *)
(* client believes: a close leaves the cache before SESSION_CLOSE leaves    *)
(* the process, an accepted session is cached only by the task that         *)
(* proposed it, and the two negotiations agree.  No interleaving of         *)
(* handshakes, closes and late requests may break this.                     *)
CachedSessionLive ==
  \A u \in Urls : Cached(u) =>
    \E s \in sessions[u] : /\ s.session_id = cache[u].session_id
                           /\ s.payload_mode = cache[u].payload_mode

(* A session a delegate has closed is never open there again: no            *)
(* SESSION_PROPOSE that is handled after its caller gave up, while the      *)
(* client has handshaken anew and closed, brings it back.                   *)
EndedStaysEnded == \A u \in Urls : ended[u] \cap SessionIds(u) = {}

(* A task whose submission invoke() reported as accepted can be polled at  *)
(* the delegate until somebody cancels it, whatever happens to the session. *)
HandlePollable ==
  \A h \in handles : h.task_id \in TaskIds(h.url) \cup cancelled

(* handle_task_submit reads the session after it has let go of the tasks   *)
(* lock.  Still, the result comes in the mode the client negotiated, unless *)
(* the session was closed in the meantime.                                  *)
ResultInSessionMode ==
  \A p \in Callers :
    pc[p] = "submit" /\ Answered(p, "task_result") =>
      \/ replies[p].payload_mode = frame[p].session.payload_mode
      \/ frame[p].session.session_id \in ended[frame[p].url]

(* With connections that do not fail, a session close() has returned for   *)
(* is not open at the delegate any more.                                    *)
ClosedSessionsEnd ==
  ~NetworkFails => \A c \in closed : c.session_id \notin SessionIds(c.url)

(* LdpSession::task_count is the number of tasks submitted in the session. *)
TaskCountExact ==
  \A u \in Urls : Cached(u) =>
    cache[u].task_count =
      Cardinality({h \in handles : h.session_id = cache[u].session_id})

(* Only a delegate that trusts the client's domain ever runs its tasks: the *)
(* SESSION_REJECT of any other ends the handshake and caches nothing.       *)
OnlyTrustingDelegates ==
  \A u \in Urls : Cached(u) \/ tasks[u] # {} => Trusts(ServerDomain[u], ClientDomain.name)

(* With connections that do not fail, a poll fails only for a task that    *)
(* somebody has asked to cancel.                                            *)
PollFailsOnlyIfCancelled ==
  ~NetworkFails =>
    \A i \in DOMAIN outcomes :
      outcomes[i].result = "failed" => outcomes[i].task_id \in cancelled

InBreach(outcome) == outcome.result = "violated" \/ outcome.satisfied = "no"

(* The verdict on a contract may turn into a breach, never back: once a    *)
(* caller was told that a task breached its contract (a fail_closed task    *)
(* reported as failed for it, a fail_open one as not satisfied), nobody is  *)
(* told later that it completed within its contract, although every poll    *)
(* compares the deadline with a clock of its own.                           *)
BreachIsFinal ==
  \A i, j \in DOMAIN outcomes :
    /\ i < j
    /\ outcomes[i].task_id = outcomes[j].task_id
    /\ InBreach(outcomes[i])
    /\ outcomes[j].result = "completed"
    => outcomes[j].satisfied = "no"

(* status() tells the caller of a task with a contract whether the         *)
(* contract was satisfied, whoever polls and whenever: invoke() has stored  *)
(* it for the others before its handle is out.                              *)
ContractReported ==
  \A i \in DOMAIN outcomes, h \in handles :
    (/\ outcomes[i].task_id = h.task_id
     /\ h.op = "invoke" /\ h.contract # NoContract
     /\ outcomes[i].result \in {"completed", "violated"})
      => outcomes[i].satisfied # "unset"

-------------------------------------------------------------------------------
(* Liveness *)

(* No operation hangs: an invoke, poll, cancel or close that has started   *)
(* returns to its caller, also when a connection fails under it.            *)
OperationsReturn == \A p \in Callers : pc[p] # "idle" ~> pc[p] = "idle"

(* A stream whose task was submitted ends with a terminal event for it. *)
StreamsEnd ==
  \A id \in 1..(2 * MaxOps) :
    (\E h \in handles : h.task_id = id /\ h.op = "stream")
      ~> (\E i \in DOMAIN outcomes : outcomes[i].task_id = id)

-------------------------------------------------------------------------------
(* Refinement: the sessions of client and servers go through the life      *)
(* cycle of SessionLifecycle.                                               *)

Lifecycle ==
  INSTANCE SessionLifecycle WITH
    Id <- 1..(2 * MaxOps),
    live <- [u \in Urls |-> SessionIds(u)],
    current <- [u \in Urls |-> cache[u].session_id]

ImplementsLifecycle == Lifecycle!Spec

===============================================================================
