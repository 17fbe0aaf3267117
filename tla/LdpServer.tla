------------------------------ MODULE LdpServer -------------------------------
(***************************************************************************)
(* LdpServer (src/src/server.rs), one per URL.  The maps `sessions` and    *)
(* `tasks` are sets of records here, at most one per key.  A handler that  *)
(* takes one lock is one step.  handle_task_submit takes two, so it is two *)
(* steps with a gap in which other handlers run.                           *)
(***************************************************************************)
EXTENDS LdpTypes, LdpTransport

CONSTANTS
  ServerDomain,   \* ServerDomain[u]: identity.trust_domain
  ServerModes,    \* ServerModes[u]: identity.supported_payload_modes
  ServerSecret    \* ServerSecret[u]: signing_secret, or NoSecret

ASSUME ServerModesAreModes == ServerModes \in [Urls -> SUBSET PayloadMode]

VARIABLES
  sessions,       \* sessions[u]: [session_id, payload_mode, ttl_secs, last_used]
  tasks,          \* tasks[u]: [task_id, state]
  ended           \* history: ended[u], the sessions a SESSION_CLOSE removed

serverVars == <<sessions, tasks, ended>>

TaskRecordState == {"submitted", "working", "completed", "failed"}

SessionIds(u) == {s.session_id : s \in sessions[u]}
TaskIds(u) == {t.task_id : t \in tasks[u]}
WithoutSession(u, id) == {s \in sessions[u] : s.session_id # id}
WithoutTask(u, id) == {t \in tasks[u] : t.task_id # id}

ServerInit ==
  /\ sessions = [u \in Urls |-> {}]
  /\ tasks = [u \in Urls |-> {}]
  /\ ended = [u \in Urls |-> {}]

-------------------------------------------------------------------------------
(* handle_message: the signature check comes before the dispatch.  An HMAC *)
(* verifies exactly when both sides hold the same secret.                  *)

Admitted(u, msg) ==
  ServerSecret[u] # NoSecret =>
    IF msg.signature # NoSecret THEN msg.signature = ServerSecret[u]
                                ELSE msg.type = "hello"

Takes(r, type) ==
  /\ r.stage = "posted"
  /\ r.msg.type = type
  /\ Admitted(r.to, r.msg)

HandledTypes ==
  {"hello", "session_propose", "task_submit", "task_update", "task_cancel",
   "session_close"}

(* Bad or missing signature, or a message only clients receive. *)
Refuse(r) ==
  /\ r.stage = "posted"
  /\ ~Admitted(r.to, r.msg) \/ r.msg.type \notin HandledTypes
  /\ Answer(r, Failure)
  /\ UNCHANGED serverVars

HandleHello(r) ==
  /\ Takes(r, "hello")
  /\ Answer(r, [type |-> "capability_manifest", modes |-> ServerModes[r.to]])
  /\ UNCHANGED serverVars

-------------------------------------------------------------------------------
(* Sessions *)

RejectSession(r) ==
  /\ Takes(r, "session_propose")
  /\ ~Trusts(ServerDomain[r.to], r.msg.trust_domain)
  /\ Answer(r, [type |-> "session_reject"])
  /\ UNCHANGED serverVars

(* "payload_mode" of the proposed configuration; a proposal of the Python *)
(* SDK has no such field.                                                  *)
RequestedMode(msg) ==
  IF "payload_mode" \in DOMAIN msg THEN msg.payload_mode ELSE "semantic_frame"

ServerNegotiates(u, requested) == AgreedMode(<<requested, "text">>, ServerModes[u])

(* A slip: the reply is sent, the session is not stored. *)
AcceptSessionUnstored(r) ==
  /\ Takes(r, "session_propose")
  /\ Trusts(ServerDomain[r.to], r.msg.trust_domain)
  /\ LET mode == ServerNegotiates(r.to, RequestedMode(r.msg))
     IN  Answer(r, [type |-> "session_accept", session_id |-> r.msg.session_id,
                    negotiated_mode |-> mode])
  /\ UNCHANGED serverVars

(* A slip: the proposer's trust domain is not looked at. *)
AcceptSessionUnchecked(r) ==
  /\ Takes(r, "session_propose")
  /\ LET mode == ServerNegotiates(r.to, RequestedMode(r.msg))
         session == [session_id |-> r.msg.session_id, payload_mode |-> mode,
                     ttl_secs |-> r.msg.ttl_secs, last_used |-> now]
     IN  /\ sessions' = [sessions EXCEPT ![r.to] = @ \cup {session}]
         /\ Answer(r, [type |-> "session_accept", session_id |-> r.msg.session_id,
                       negotiated_mode |-> mode])
  /\ UNCHANGED <<tasks, ended>>

AcceptSession(r) ==
  /\ Takes(r, "session_propose")
  /\ Trusts(ServerDomain[r.to], r.msg.trust_domain)
  /\ LET mode == ServerNegotiates(r.to, RequestedMode(r.msg))
         session == [session_id |-> r.msg.session_id, payload_mode |-> mode,
                     ttl_secs |-> r.msg.ttl_secs, last_used |-> now]
     IN  /\ sessions' = [sessions EXCEPT
                           ![r.to] = WithoutSession(r.to, r.msg.session_id) \cup {session}]
         /\ Answer(r, [type |-> "session_accept", session_id |-> r.msg.session_id,
                       negotiated_mode |-> mode])
  /\ UNCHANGED <<tasks, ended>>

(* A slip: a close is acknowledged and the session kept. *)
CloseSessionKept(r) ==
  /\ Takes(r, "session_close")
  /\ ended' = [ended EXCEPT ![r.to] = @ \cup (SessionIds(r.to) \cap {r.msg.session_id})]
  /\ Answer(r, [type |-> "session_close"])
  /\ UNCHANGED <<sessions, tasks>>

HandleSessionClose(r) ==
  /\ Takes(r, "session_close")
  /\ sessions' = [sessions EXCEPT ![r.to] = WithoutSession(r.to, r.msg.session_id)]
  /\ ended' = [ended EXCEPT ![r.to] = @ \cup (SessionIds(r.to) \cap {r.msg.session_id})]
  /\ Answer(r, [type |-> "session_close"])
  /\ UNCHANGED tasks

-------------------------------------------------------------------------------
(* Tasks *)

(* A slip: the result is returned and never recorded. *)
RunTaskUnrecorded(r) ==
  /\ Takes(r, "task_submit")
  /\ Advance(r, "executed")
  /\ UNCHANGED serverVars

(* Run the handler, then store the record under the tasks lock.  The *)
(* session is not looked at.                                          *)
RunTask(r) ==
  /\ Takes(r, "task_submit")
  /\ LET record == [task_id |-> r.msg.task_id, state |-> "completed"]
     IN  tasks' = [tasks EXCEPT ![r.to] = WithoutTask(r.to, r.msg.task_id) \cup {record}]
  /\ Advance(r, "executed")
  /\ UNCHANGED <<sessions, ended>>

(* A slip: the session's mode is never looked up. *)
SessionModeText(u, id) == "text"

SessionMode(u, id) ==
  IF id \in SessionIds(u)
    THEN (CHOOSE s \in sessions[u] : s.session_id = id).payload_mode
    ELSE "text"

(* Provenance::new fills payload_mode_used; no handler overwrites it. *)
ProvenanceModeUsed == "semantic_frame"

(* Later, under the sessions lock: the mode the result is sent in. *)
ReturnResult(r) ==
  /\ r.stage = "executed"
  /\ Answer(r, [type |-> "task_result", task_id |-> r.msg.task_id,
                payload_mode |-> SessionMode(r.to, r.msg.session_id),
                mode_used |-> ProvenanceModeUsed])
  /\ UNCHANGED serverVars

StatusReply(task) ==
  IF task.state = "completed"
    THEN [type |-> "task_result", task_id |-> task.task_id, payload_mode |-> "text",
          mode_used |-> ProvenanceModeUsed]
  ELSE IF task.state = "failed" THEN [type |-> "task_failed", task_id |-> task.task_id]
  ELSE [type |-> "task_update", task_id |-> task.task_id, state |-> task.state]

HandleTaskStatusQuery(r) ==
  /\ Takes(r, "task_update")
  /\ Answer(r, IF r.msg.task_id \in TaskIds(r.to)
                 THEN StatusReply(CHOOSE t \in tasks[r.to] : t.task_id = r.msg.task_id)
                 ELSE Failure)
  /\ UNCHANGED serverVars

(* A slip: cancelling one task drops them all. *)
CancelEveryTask(r) ==
  /\ Takes(r, "task_cancel")
  /\ tasks' = [tasks EXCEPT ![r.to] = {}]
  /\ Answer(r, [type |-> "task_failed", task_id |-> r.msg.task_id])
  /\ UNCHANGED <<sessions, ended>>

HandleTaskCancel(r) ==
  /\ Takes(r, "task_cancel")
  /\ tasks' = [tasks EXCEPT ![r.to] = WithoutTask(r.to, r.msg.task_id)]
  /\ Answer(r, [type |-> "task_failed", task_id |-> r.msg.task_id])
  /\ UNCHANGED <<sessions, ended>>

-------------------------------------------------------------------------------

(* GET /ldp/identity: it takes no lock and asks for no signature.  The Rust *)
(* client never fetches it during a handshake; the Python client does.       *)
HandleIdentityRequest(r) ==
  /\ r.msg.type = "get_identity"
  /\ Answer(r, [type |-> "identity", trust_domain |-> ServerDomain[r.to].name])
  /\ UNCHANGED serverVars

HandleMessage(r) ==
  \/ Refuse(r)
  \/ HandleHello(r)
  \/ RejectSession(r)
  \/ AcceptSession(r)
  \/ HandleSessionClose(r)
  \/ RunTask(r)
  \/ ReturnResult(r)
  \/ HandleTaskStatusQuery(r)
  \/ HandleTaskCancel(r)

(* The requests of one connection are served; NoConn stands for all *)
(* detached ones.                                                   *)
Serve(conn) == \E r \in requests : r.conn = conn /\ HandleMessage(r) /\ UNCHANGED now

===============================================================================
