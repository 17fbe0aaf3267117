---------------------------- MODULE LdpSystemProofs ---------------------------
(***************************************************************************)
(* Theorems about one client process and its delegates, for every number   *)
(* of tasks and delegates, every configuration and every bound: types, and *)
(* the sessions the client has cached.                                     *)
(***************************************************************************)
EXTENDS SessionInvariant, LdpAdapterProofs

USE UrlsNonEmpty, NoConnIsNotACaller, ServerModesAreModes, TtlIsUnsigned, PrefsAreModes,
    MaxOpsIsNat, ContractChoicesAreContracts

-------------------------------------------------------------------------------
(* Types of the building blocks *)

LEMMA PostType ==
  ASSUME TransportTypeOK, NEW p \in Callers, NEW u \in Urls, NEW msg \in Message,
         Post(p, u, msg)
  PROVE  TransportTypeOK'
BY DEF TransportTypeOK, Post, Request, Exchange, NoReply, Reply

LEMMA ConsumeType ==
  ASSUME TransportTypeOK, NEW p \in Callers, Consume(p)
  PROVE  TransportTypeOK'
BY DEF TransportTypeOK, Consume, NoReply, Reply

LEMMA AnswerType ==
  ASSUME TransportTypeOK, NEW r \in requests, NEW reply \in Reply, Answer(r, reply)
  PROVE  TransportTypeOK'
BY DEF TransportTypeOK, Answer, Exchange

LEMMA AdvanceType ==
  ASSUME TransportTypeOK, NEW r \in requests, Advance(r, "executed")
  PROVE  TransportTypeOK'
BY DEF TransportTypeOK, Advance, Exchange

(* What a reply of a known type carries. *)
LEMMA ReplyFields ==
  ASSUME NEW x \in Reply
  PROVE  /\ x.type = "capability_manifest" => x.modes \in SUBSET PayloadMode
         /\ x.type = "session_accept" => x.session_id \in Id
         /\ x.type = "task_result" => x.mode_used \in PayloadMode
BY DEF Reply

(* What a request of a known type carries. *)
LEMMA MessageFields ==
  ASSUME NEW m \in Message
  PROVE  /\ m.type \in HandledTypes
         /\ m.type = "session_propose" =>
              m.session_id \in Id /\ m.payload_mode \in PayloadMode /\ m.ttl_secs \in Nat
         /\ m.type = "task_submit" => m.session_id \in Id /\ m.task_id \in Id
         /\ m.type \in {"task_update", "task_cancel"} => m.task_id \in Id
         /\ m.type = "session_close" => m.session_id \in Id
BY DEF Message, HandledTypes

(* A proposal of the Rust client names the mode it has negotiated. *)
LEMMA RequestedModeKnown ==
  ASSUME NEW m \in Message, m.type = "session_propose"
  PROVE  RequestedMode(m) = m.payload_mode
BY DEF Message, RequestedMode

LEMMA SessionModeType ==
  ASSUME ServerTypeOK, NEW u \in Urls, NEW id
  PROVE  SessionMode(u, id) \in PayloadMode
<1>1. CASE id \in SessionIds(u)
  <2>1. PICK s \in sessions[u] : s.session_id = id
    BY <1>1 DEF SessionIds
  <2>2. (CHOOSE t \in sessions[u] : t.session_id = id) \in ServerSession
    BY <2>1 DEF ServerTypeOK
  <2>3. QED
    BY <1>1, <2>2 DEF SessionMode, ServerSession
<1>2. CASE id \notin SessionIds(u)
  BY <1>2 DEF SessionMode, PayloadMode
<1>3. QED
  BY <1>1, <1>2

LEMMA StatusReplyType ==
  ASSUME NEW t \in Task
  PROVE  StatusReply(t) \in Reply
<1>1. t.task_id \in Id /\ t.state \in TaskRecordState
  BY DEF Task
<1>2. CASE t.state = "completed"
  BY <1>1, <1>2 DEF StatusReply, Reply, PayloadMode, ProvenanceModeUsed
<1>3. CASE t.state = "failed"
  BY <1>1, <1>3 DEF StatusReply, Reply
<1>4. CASE t.state \notin {"completed", "failed"}
  BY <1>1, <1>4 DEF StatusReply, Reply
<1>5. QED
  BY <1>2, <1>3, <1>4

-------------------------------------------------------------------------------
(* Types of the server's steps *)

LEMMA HandleMessageType ==
  ASSUME TransportTypeOK, ServerTypeOK, now \in Nat, ExecutedAreSubmissions,
         NEW r \in requests, HandleMessage(r)
  PROVE  TransportTypeOK' /\ ServerTypeOK'
<1>0. r.to \in Urls /\ r.msg \in Message
  BY DEF TransportTypeOK, Exchange
<1>1. CASE Refuse(r)
  <2>1. Failure \in Reply
    BY DEF Failure, Reply
  <2>2. QED
    BY <1>1, <2>1, AnswerType DEF Refuse, ServerTypeOK, serverVars
<1>2. CASE HandleHello(r)
  <2>1. [type |-> "capability_manifest", modes |-> ServerModes[r.to]] \in Reply
    BY <1>0 DEF Reply
  <2>2. QED
    BY <1>2, <2>1, AnswerType DEF HandleHello, ServerTypeOK, serverVars
<1>3. CASE RejectSession(r)
  <2>1. [type |-> "session_reject"] \in Reply
    BY DEF Reply
  <2>2. QED
    BY <1>3, <2>1, AnswerType DEF RejectSession, ServerTypeOK, serverVars
<1>4. CASE AcceptSession(r)
  <2> DEFINE mode == ServerNegotiates(r.to, RequestedMode(r.msg))
             session == [session_id |-> r.msg.session_id, payload_mode |-> mode,
                         ttl_secs |-> r.msg.ttl_secs, last_used |-> now]
             reply == [type |-> "session_accept", session_id |-> r.msg.session_id,
                       negotiated_mode |-> mode]
  <2>1. /\ r.msg.session_id \in Id
        /\ RequestedMode(r.msg) \in PayloadMode
        /\ r.msg.ttl_secs \in Nat
    BY <1>0, <1>4, MessageFields, RequestedModeKnown DEF AcceptSession, Takes
  <2>2. <<RequestedMode(r.msg), "text">> \in Seq(PayloadMode)
    BY <2>1 DEF PayloadMode
  <2>3. mode \in PayloadMode
    BY <2>2, NegotiatedType DEF ServerNegotiates
  <2>4. session \in ServerSession /\ reply \in Reply
    BY <2>1, <2>3 DEF ServerSession, Reply
  <2>5. Answer(r, reply) /\ UNCHANGED <<tasks, ended>>
        /\ sessions' = [sessions EXCEPT
                          ![r.to] = WithoutSession(r.to, r.msg.session_id) \cup {session}]
    BY <1>4 DEF AcceptSession
  <2>6. ServerTypeOK'
    BY <1>0, <2>4, <2>5 DEF ServerTypeOK, WithoutSession
  <2>7. QED
    BY <2>4, <2>5, <2>6, AnswerType
<1>5. CASE HandleSessionClose(r)
  <2>1. [type |-> "session_close"] \in Reply
    BY DEF Reply
  <2>2. r.msg.session_id \in Id
    BY <1>0, <1>5, MessageFields DEF HandleSessionClose, Takes
  <2>3. ServerTypeOK'
    BY <1>0, <1>5, <2>2 DEF HandleSessionClose, ServerTypeOK, WithoutSession
  <2>4. QED
    BY <1>5, <2>1, <2>3, AnswerType DEF HandleSessionClose
<1>6. CASE RunTask(r)
  <2>1. r.msg.task_id \in Id
    BY <1>0, <1>6, MessageFields DEF RunTask, Takes
  <2>2. ServerTypeOK'
    BY <1>0, <1>6, <2>1 DEF RunTask, ServerTypeOK, WithoutTask, Task, TaskRecordState
  <2>3. QED
    BY <1>6, <2>2, AdvanceType DEF RunTask
<1>7. CASE ReturnResult(r)
  <2> DEFINE reply == [type |-> "task_result", task_id |-> r.msg.task_id,
                       payload_mode |-> SessionMode(r.to, r.msg.session_id),
                       mode_used |-> ProvenanceModeUsed]
  <2>1. r.msg.type = "task_submit"
    BY <1>7 DEF ReturnResult, ExecutedAreSubmissions
  <2>2. r.msg.task_id \in Id
    BY <1>0, <2>1, MessageFields
  <2>3. SessionMode(r.to, r.msg.session_id) \in PayloadMode
    BY <1>0, SessionModeType
  <2>4. reply \in Reply
    BY <2>2, <2>3 DEF Reply, ProvenanceModeUsed, PayloadMode
  <2>5. QED
    BY <1>7, <2>4, AnswerType DEF ReturnResult, ServerTypeOK, serverVars
<1>8. CASE HandleTaskStatusQuery(r)
  <2> DEFINE reply == IF r.msg.task_id \in TaskIds(r.to)
                        THEN StatusReply(CHOOSE t \in tasks[r.to] : t.task_id = r.msg.task_id)
                        ELSE Failure
  <2>1. ASSUME r.msg.task_id \in TaskIds(r.to) PROVE reply \in Reply
    <3> DEFINE chosen == CHOOSE t \in tasks[r.to] : t.task_id = r.msg.task_id
    <3>1. \E t \in tasks[r.to] : t.task_id = r.msg.task_id
      BY <2>1 DEF TaskIds
    <3>2. chosen \in Task
      BY <1>0, <3>1 DEF ServerTypeOK
    <3> HIDE DEF chosen
    <3>3. StatusReply(chosen) \in Reply
      BY <3>2, StatusReplyType
    <3>4. QED
      BY <2>1, <3>3 DEF chosen
  <2>2. ASSUME r.msg.task_id \notin TaskIds(r.to) PROVE reply \in Reply
    BY <2>2 DEF Failure, Reply
  <2>3. reply \in Reply
    BY <2>1, <2>2
  <2>4. QED
    BY <1>8, <2>3, AnswerType DEF HandleTaskStatusQuery, ServerTypeOK, serverVars
<1>9. CASE HandleTaskCancel(r)
  <2>1. r.msg.task_id \in Id
    BY <1>0, <1>9, MessageFields DEF HandleTaskCancel, Takes
  <2>2. [type |-> "task_failed", task_id |-> r.msg.task_id] \in Reply
    BY <2>1 DEF Reply
  <2>3. ServerTypeOK'
    BY <1>0, <1>9 DEF HandleTaskCancel, ServerTypeOK, WithoutTask
  <2>4. QED
    BY <1>9, <2>2, <2>3, AnswerType DEF HandleTaskCancel
<1>10. QED
  BY <1>1, <1>2, <1>3, <1>4, <1>5, <1>6, <1>7, <1>8, <1>9 DEF HandleMessage

-------------------------------------------------------------------------------
(* The type invariant *)

LEMMA ClientSendsType ==
  ASSUME TransportTypeOK, NEW p \in Callers, ClientSends(p)
  PROVE  TransportTypeOK'
BY PostType, ConsumeType DEF ClientSends, TransportTypeOK, transportVars

LEMMA RepliesUsable ==
  ASSUME TransportTypeOK, NEW p \in Callers
  PROVE  ReplyUsable(p)
BY ReplyFields DEF TransportTypeOK, ReplyUsable, Answered

LEMMA ConnectionFailsType ==
  ASSUME TransportTypeOK, NEW p \in Callers, ConnectionFails(p)
  PROVE  TransportTypeOK'
<1>1. Failure \in Reply
  BY DEF Failure, Reply
<1>2. replies' \in [Callers -> Reply]
  BY <1>1 DEF ConnectionFails, TransportTypeOK
<1>3. requests' \in SUBSET Exchange
  BY DEF ConnectionFails, TransportTypeOK, Exchange
<1>4. QED
  BY <1>2, <1>3 DEF TransportTypeOK

LEMMA UnchangedTypes ==
  ASSUME TypeOK, UNCHANGED <<transportVars, serverVars, clientVars>>
  PROVE  TransportTypeOK' /\ ServerTypeOK' /\ ManagerTypeOK' /\ AdapterTypeOK'
<1>1. TransportTypeOK'
  BY DEF TypeOK, TransportTypeOK, transportVars
<1>2. ServerTypeOK'
  BY DEF TypeOK, ServerTypeOK, serverVars
<1>3. ManagerTypeOK' /\ AdapterTypeOK'
  BY DEF TypeOK, ManagerTypeOK, AdapterTypeOK, clientVars, managerVars, adapterVars
<1>4. QED
  BY <1>1, <1>2, <1>3

(* Only RunTask moves a request to its second stage. *)
LEMMA PostSubmissions ==
  ASSUME ExecutedAreSubmissions, NEW p, NEW u, NEW msg, Post(p, u, msg)
  PROVE  ExecutedAreSubmissions'
BY DEF ExecutedAreSubmissions, Post, Request

LEMMA SubmissionsStep ==
  ASSUME TypeOK, ExecutedAreSubmissions, [Next]_vars
  PROVE  ExecutedAreSubmissions'
<1>0. \A r \in requests : r = [conn |-> r.conn, to |-> r.to, stage |-> r.stage, msg |-> r.msg]
  BY DEF TypeOK, TransportTypeOK, Exchange
<1>1. ASSUME NEW conn \in Callers \cup {NoConn}, ServerStep(conn)
      PROVE  ExecutedAreSubmissions'
  <2>1. PICK r \in requests : HandleMessage(r)
    BY <1>1 DEF ServerStep, Serve
  <2>2. CASE RunTask(r)
    BY <1>0, <2>2 DEF RunTask, Takes, Advance, ExecutedAreSubmissions
  <2>3. CASE ~RunTask(r)
    <3>1. requests' = requests \ {r}
      BY <2>1, <2>3
      DEF HandleMessage, Refuse, HandleHello, RejectSession, AcceptSession,
          HandleSessionClose, ReturnResult, HandleTaskStatusQuery, HandleTaskCancel, Answer
    <3>2. QED
      BY <3>1 DEF ExecutedAreSubmissions
  <2>4. QED
    BY <2>2, <2>3
<1>2. ASSUME NEW p \in Callers, ClientSends(p)
      PROVE  ExecutedAreSubmissions'
  BY <1>2, PostSubmissions DEF ClientSends, Consume, transportVars, ExecutedAreSubmissions
<1>3. ASSUME NEW p \in Callers, StartStep(p) \/ CallerStep(p)
      PROVE  ExecutedAreSubmissions'
  BY <1>2, <1>3, CallerStartsType, CallerContinuesType, RepliesUsable
     DEF StartStep, CallerStep, TypeOK
<1>4. ASSUME NEW p \in Callers, NetworkStep(p)
      PROVE  ExecutedAreSubmissions'
  <2>1. \/ requests' \subseteq requests
        \/ \E r \in requests : requests' = (requests \ {r}) \cup {[r EXCEPT !.conn = NoConn]}
    BY <1>4 DEF NetworkStep, ConnectionFails
  <2>2. \A r \in requests :
          /\ [r EXCEPT !.conn = NoConn].stage = r.stage
          /\ [r EXCEPT !.conn = NoConn].msg = r.msg
    BY <1>0
  <2>3. CASE requests' \subseteq requests
    BY <2>3 DEF ExecutedAreSubmissions
  <2>4. CASE ~(requests' \subseteq requests)
    <3>1. PICK r \in requests : requests' = (requests \ {r}) \cup {[r EXCEPT !.conn = NoConn]}
      BY <2>1, <2>4
    <3>2. QED
      BY <2>2, <3>1 DEF ExecutedAreSubmissions
  <2>5. QED
    BY <2>3, <2>4
<1>5. CASE ClockStep \/ Finished \/ UNCHANGED vars
  BY <1>5 DEF ClockStep, Tick, Finished, vars, transportVars, ExecutedAreSubmissions
<1>6. QED
  BY <1>1, <1>2, <1>3, <1>4, <1>5 DEF Next

TypeInv == TypeOK /\ ExecutedAreSubmissions

LEMMA InitType == Init => TypeInv
<1> SUFFICES ASSUME Init PROVE TypeInv
  OBVIOUS
<1>1. TransportTypeOK /\ now \in Nat /\ ExecutedAreSubmissions
  BY DEF Init, TransportInit, TransportTypeOK, ExecutedAreSubmissions, NoReply, Reply
<1>2. ServerTypeOK
  BY DEF Init, ServerInit, ServerTypeOK
<1>3. ManagerTypeOK
  BY BlankType, SomeUrlType DEF Init, ManagerInit, ManagerTypeOK, Label, NoId, Id
<1>4. AdapterTypeOK
  BY DEF Init, AdapterInit, AdapterTypeOK
<1>5. QED
  BY <1>1, <1>2, <1>3, <1>4 DEF TypeInv, TypeOK

LEMMA NextType == TypeInv /\ [Next]_vars => TypeInv'
<1> SUFFICES ASSUME TypeInv, [Next]_vars PROVE TypeInv'
  OBVIOUS
<1> USE DEF TypeOK, TypeInv
<1>1. ASSUME NEW conn \in Callers \cup {NoConn}, ServerStep(conn)
      PROVE  TypeOK'
  <2>1. PICK r \in requests : HandleMessage(r)
    BY <1>1 DEF ServerStep, Serve
  <2>2. TransportTypeOK' /\ ServerTypeOK'
    BY <2>1, HandleMessageType
  <2>3. UNCHANGED <<clientVars, now>>
    BY <1>1 DEF ServerStep, Serve
  <2>4. ManagerTypeOK' /\ AdapterTypeOK'
    BY <2>3 DEF clientVars, managerVars, adapterVars, ManagerTypeOK, AdapterTypeOK
  <2>5. QED
    BY <2>2, <2>3, <2>4
<1>2. ASSUME NEW p \in Callers, StartStep(p)
      PROVE  TypeOK'
  BY <1>2, CallerStartsType, ClientSendsType DEF StartStep, ServerTypeOK, serverVars
<1>3. ASSUME NEW p \in Callers, CallerStep(p)
      PROVE  TypeOK'
  BY <1>3, CallerContinuesType, ClientSendsType, RepliesUsable DEF CallerStep, ServerTypeOK, serverVars
<1>4. ASSUME NEW p \in Callers, NetworkStep(p)
      PROVE  TypeOK'
  BY <1>4, ConnectionFailsType
  DEF NetworkStep, ServerTypeOK, serverVars, clientVars, managerVars, adapterVars,
      ManagerTypeOK, AdapterTypeOK
<1>5. ASSUME ClockStep PROVE TypeOK'
  <2>1. now' \in Nat
    BY <1>5 DEF ClockStep, Tick
  <2>2. UNCHANGED <<transportVars, serverVars, clientVars>>
    BY <1>5 DEF ClockStep, Tick
  <2>3. QED
    BY <2>1, <2>2, UnchangedTypes
<1>6. ASSUME Finished \/ UNCHANGED vars PROVE TypeOK'
  <2>1. UNCHANGED <<transportVars, serverVars, clientVars, now>>
    BY <1>6 DEF Finished, vars
  <2>2. QED
    BY <2>1, UnchangedTypes
<1>7. ExecutedAreSubmissions'
  BY SubmissionsStep
<1>8. QED
  BY <1>1, <1>2, <1>3, <1>4, <1>5, <1>6, <1>7 DEF Next

LEMMA TypesAlwaysOK == Spec => []TypeInv
BY InitType, NextType, PTL DEF Spec

(* Every message built, every entry cached, every record stored and every  *)
(* local of a suspended operation has the type its struct declares, for    *)
(* every number of tasks and delegates.                                     *)
THEOREM TypeCorrect == Spec => []TypeOK
<1>1. TypeInv => TypeOK
  BY DEF TypeInv
<1>2. QED
  BY <1>1, TypesAlwaysOK, PTL

-------------------------------------------------------------------------------
(* SessionInv is inductive, so a cached session is open at its delegate in *)
(* every behaviour.  The steps of the system disturb it in few ways, and   *)
(* there is one lemma for each way: a request is answered or replaced, a   *)
(* caller moves or posts, and the steps of a session's life.               *)

(* p has no request out that would answer it. *)
Quiet(p) == \A r \in requests : r.conn # p

OthersKeep(p) ==
  \A q \in Callers \ {p} : pc'[q] = pc[q] /\ frame'[q] = frame[q] /\ replies'[q] = replies[q]

CacheKeeps ==
  \A u \in Urls : /\ cache'[u].session_id = cache[u].session_id
                  /\ cache'[u].payload_mode = cache[u].payload_mode

LEMMA Quieted ==
  ASSUME TypeOK, SessionInv, NEW p \in Callers,
         \/ pc[p] \in {"idle", "caching", "established", "submitted", "polling", "closing"}
         \/ replies[p] # NoReply
  PROVE  Quiet(p)
<1> SUFFICES ASSUME NEW r \in requests, r.conn = p PROVE FALSE
  BY DEF Quiet
<1>1. pc[p] = AwaitOf[r.msg.type] /\ replies[p] = NoReply
  BY DEF SessionInv, RequestsAwaited
<1>2. r.msg.type \in HandledTypes
  BY MessageFields DEF TypeOK, TransportTypeOK, Exchange
<1>3. AwaitOf[r.msg.type] \in {"hello", "propose", "submit", "polled", "cancel", "close"}
  BY <1>2 DEF AwaitOf, HandledTypes
<1>4. QED
  BY <1>1, <1>3

(* The numbers the invariant compares. *)
LEMMA IdTypes ==
  ASSUME TypeOK
  PROVE  /\ lastId \in Nat
         /\ \A u \in Urls : cache[u].session_id \in Nat
         /\ \A u \in Urls : \A id \in SessionIds(u) \cup ended[u] : id \in Nat
         /\ \A p \in Callers : Held(p) \in Nat
         /\ \A r \in Proposals \cup Closes : r.msg.session_id \in Nat
<1>1. lastId \in Nat /\ \A u \in Urls : cache[u].session_id \in Nat
  BY DEF TypeOK, ManagerTypeOK, Session, Id
<1>2. \A u \in Urls : \A id \in SessionIds(u) \cup ended[u] : id \in Nat
  BY DEF TypeOK, ServerTypeOK, ServerSession, SessionIds, Id
<1>3. \A p \in Callers : Held(p) \in Nat
  BY FrameFields DEF TypeOK, Held, Id
<1>4. \A r \in Proposals \cup Closes : r.msg.session_id \in Nat
  BY MessageFields DEF TypeOK, TransportTypeOK, Exchange, Proposals, Closes, Id
<1>5. QED
  BY <1>1, <1>2, <1>3, <1>4

-------------------------------------------------------------------------------
(* A caller moves on, away from any handshake. *)
LEMMA MoveKeeps ==
  ASSUME TypeOK, SessionInv, NEW p \in Callers, Quiet(p), OthersKeep(p), CacheKeeps,
         UNCHANGED <<requests, sessions, ended>>, lastId' \in Nat, lastId <= lastId',
         pc'[p] \notin {"hello", "propose", "caching"}
  PROVE  SessionInv'
<1> USE DEF SessionInv, OthersKeep, CacheKeeps
<1>1. RequestsAwaited' /\ OneRequestEach'
  BY DEF RequestsAwaited, OneRequestEach, Quiet, TypeOK, TransportTypeOK, Exchange
<1>2. \A q \in Callers : Holds(q)' => q # p /\ Holds(q) /\ Held(q)' = Held(q)
  BY DEF Holds, Held
<1>3. IdsDrawn'
  <2>1. /\ \A u \in Urls : SessionIds(u)' = SessionIds(u)
        /\ Proposals' = Proposals /\ Closes' = Closes
    BY DEF SessionIds, Proposals, Closes
  <2>2. \A u \in Urls : /\ cache'[u].session_id <= lastId'
                        /\ \A id \in SessionIds(u)' \cup ended'[u] : id <= lastId'
    BY <2>1, IdTypes DEF IdsDrawn
  <2>3. \A q \in Callers : Holds(q)' => Held(q)' \in 1..lastId'
    BY <1>2, IdTypes DEF IdsDrawn
  <2>4. \A r \in (Proposals \cup Closes)' : r.msg.session_id <= lastId'
    BY <2>1, IdTypes DEF IdsDrawn
  <2>5. QED
    BY <2>2, <2>3, <2>4 DEF IdsDrawn
<1>4. ManifestTrue'
  BY DEF ManifestTrue, Answered
<1>5. ProposalsFresh'
  BY DEF ProposalsFresh, Proposals, SessionIds, UsableAt, Quiet, Held, TypeOK,
         TransportTypeOK, Exchange
<1>6. OneOwner'
  BY <1>2 DEF OneOwner, Cached
<1>7. ClosesUnowned'
  BY <1>2 DEF ClosesUnowned, Closes
<1>8. HandshakeLive'
  BY DEF HandshakeLive, Answered, OpenAt, Held
<1>9. CachedSessionLive' /\ EndedStaysEnded'
  BY DEF CachedSessionLive, Cached, EndedStaysEnded, SessionIds
<1>10. QED
  BY <1>1, <1>3, <1>4, <1>5, <1>6, <1>7, <1>8, <1>9

(* A caller posts a message that is about no session's beginning or end. *)
LEMMA PostKeeps ==
  ASSUME TypeOK, SessionInv, NEW p \in Callers, Quiet(p), OthersKeep(p), CacheKeeps,
         NEW u, NEW msg, Post(p, u, msg),
         msg.type \notin {"session_propose", "session_close"},
         UNCHANGED <<sessions, ended>>, lastId' \in Nat, lastId <= lastId',
         pc'[p] = AwaitOf[msg.type], frame'[p].url = u,
         pc'[p] \notin {"propose", "caching"}
  PROVE  SessionInv'
<1> USE DEF SessionInv, OthersKeep, CacheKeeps
<1> DEFINE new == Request(p, u, msg)
<1>0. /\ requests' = requests \cup {new}
      /\ new.conn = p /\ new.to = u /\ new.msg = msg
      /\ replies'[p] = NoReply
  BY DEF Post, Request, TypeOK, TransportTypeOK
<1> HIDE DEF new
<1>1. RequestsAwaited' /\ OneRequestEach'
  BY <1>0 DEF RequestsAwaited, OneRequestEach, Quiet, TypeOK, TransportTypeOK, Exchange
<1>2. \A q \in Callers : Holds(q)' => q # p /\ Holds(q) /\ Held(q)' = Held(q)
  BY DEF Holds, Held
<1>3. /\ \A v \in Urls : SessionIds(v)' = SessionIds(v)
      /\ Proposals' = Proposals /\ Closes' = Closes
  BY <1>0 DEF SessionIds, Proposals, Closes
<1>4. IdsDrawn'
  <2>1. \A v \in Urls : /\ cache'[v].session_id <= lastId'
                        /\ \A id \in SessionIds(v)' \cup ended'[v] : id <= lastId'
    BY <1>3, IdTypes DEF IdsDrawn
  <2>2. \A q \in Callers : Holds(q)' => Held(q)' \in 1..lastId'
    BY <1>2, IdTypes DEF IdsDrawn
  <2>3. \A r \in (Proposals \cup Closes)' : r.msg.session_id <= lastId'
    BY <1>3, IdTypes DEF IdsDrawn
  <2>4. QED
    BY <2>1, <2>2, <2>3 DEF IdsDrawn
<1>5. ManifestTrue'
  BY <1>0 DEF ManifestTrue, Answered, NoReply
<1>6. ProposalsFresh'
  <2>1. \A r \in Proposals : r.conn # p /\ r.conn \in Callers \cup {NoConn}
    BY DEF Proposals, Quiet, TypeOK, TransportTypeOK, Exchange
  <2>2. QED
    BY <1>3, <2>1 DEF ProposalsFresh, UsableAt, Held
<1>7. OneOwner'
  BY <1>2 DEF OneOwner, Cached
<1>8. ClosesUnowned'
  BY <1>2, <1>3 DEF ClosesUnowned
<1>9. HandshakeLive'
  BY DEF HandshakeLive, Answered, OpenAt, Held
<1>10. CachedSessionLive' /\ EndedStaysEnded'
  BY DEF CachedSessionLive, Cached, EndedStaysEnded, SessionIds
<1>11. QED
  BY <1>1, <1>4, <1>5, <1>6, <1>7, <1>8, <1>9, <1>10

(* The client's variables stay the same, or change in their bookkeeping only. *)
ClientKeeps == UNCHANGED <<cache, pc, frame, lastId>>

(* A request is answered, without an effect on sessions. *)
LEMMA AnswerKeeps ==
  ASSUME TypeOK, SessionInv, NEW r \in requests, NEW reply, Answer(r, reply),
         reply # NoReply, reply.type # "session_accept",
         reply.type = "capability_manifest" => reply.modes = ServerModes[r.to],
         UNCHANGED <<sessions, ended>>, ClientKeeps
  PROVE  SessionInv'
<1> USE DEF SessionInv, ClientKeeps
<1>1. /\ requests' = requests \ {r}
      /\ \A p \in Callers : p # r.conn => replies'[p] = replies[p]
      /\ r.conn \in Callers => replies'[r.conn] = reply
  BY DEF Answer, TypeOK, TransportTypeOK
<1>2. RequestsAwaited' /\ OneRequestEach'
  BY <1>1 DEF RequestsAwaited, OneRequestEach, TypeOK, TransportTypeOK, Exchange
<1>3. /\ \A u \in Urls : SessionIds(u)' = SessionIds(u)
      /\ Proposals' \subseteq Proposals /\ Closes' \subseteq Closes
  BY <1>1 DEF SessionIds, Proposals, Closes
<1>4. \A p \in Callers : Holds(p)' = Holds(p) /\ Held(p)' = Held(p)
  BY DEF Holds, Held
<1>5. IdsDrawn'
  BY <1>3, <1>4 DEF IdsDrawn
<1>6. ManifestTrue'
  BY <1>1 DEF ManifestTrue, Answered, RequestsAwaited
<1>7. ProposalsFresh'
  BY <1>3 DEF ProposalsFresh, UsableAt, Held
<1>8. OneOwner'
  BY <1>4 DEF OneOwner, Cached
<1>9. ClosesUnowned'
  BY <1>3, <1>4 DEF ClosesUnowned
<1>10. HandshakeLive'
  BY <1>1 DEF HandshakeLive, Answered, OpenAt, Held
<1>11. CachedSessionLive' /\ EndedStaysEnded'
  BY <1>3 DEF CachedSessionLive, Cached, EndedStaysEnded
<1>12. QED
  BY <1>2, <1>5, <1>6, <1>7, <1>8, <1>9, <1>10, <1>11

(* A request stays, in another stage or with its connection gone. *)
LEMMA ReplaceKeeps ==
  ASSUME TypeOK, SessionInv, NEW r \in requests, NEW new,
         requests' = (requests \ {r}) \cup {new},
         new.msg = r.msg, new.to = r.to, new.conn \in {r.conn, NoConn},
         \/ UNCHANGED replies
         \/ /\ new.conn = NoConn /\ r.conn \in Callers
            /\ replies' = [replies EXCEPT ![r.conn] = Failure],
         UNCHANGED <<sessions, ended>>, ClientKeeps
  PROVE  SessionInv'
<1> USE DEF SessionInv, ClientKeeps
<1>1. \A p \in Callers : \/ replies'[p] = replies[p]
                         \/ p = r.conn /\ new.conn = NoConn /\ replies'[p] = Failure
  BY DEF TypeOK, TransportTypeOK
<1>2. RequestsAwaited'
  BY <1>1 DEF RequestsAwaited, OneRequestEach, TypeOK, TransportTypeOK, Exchange
<1>3. OneRequestEach'
  BY DEF OneRequestEach
<1>4. /\ \A u \in Urls : SessionIds(u)' = SessionIds(u)
      /\ Proposals' \subseteq (Proposals \ {r}) \cup {new}
      /\ Closes' \subseteq (Closes \ {r}) \cup {new}
      /\ new \in Proposals' => r \in Proposals
      /\ new \in Closes' => r \in Closes
  BY DEF SessionIds, Proposals, Closes
<1>5. \A p \in Callers : Holds(p)' = Holds(p) /\ Held(p)' = Held(p)
  BY DEF Holds, Held
<1>6. IdsDrawn'
  BY <1>4, <1>5 DEF IdsDrawn
<1>7. ManifestTrue'
  BY <1>1 DEF ManifestTrue, Answered, Failure
<1>8. ProposalsFresh'
  <2>1. \A q \in Proposals' :
          /\ UsableAt(q.to, q.msg.payload_mode)
          /\ \A u \in Urls : q.msg.session_id \notin SessionIds(u) \cup ended[u]
          /\ q.conn # NoConn =>
               /\ Held(q.conn) = q.msg.session_id
               /\ frame[q.conn].session.payload_mode = q.msg.payload_mode
    BY <1>4 DEF ProposalsFresh
  <2>2. \A q, s \in Proposals' : q.msg.session_id = s.msg.session_id => q = s
    BY <1>4 DEF ProposalsFresh
  <2>3. QED
    BY <1>4, <2>1, <2>2 DEF ProposalsFresh, UsableAt, Held
<1>9. OneOwner'
  BY <1>5 DEF OneOwner, Cached
<1>10. ClosesUnowned'
  BY <1>4, <1>5 DEF ClosesUnowned
<1>11. HandshakeLive'
  BY <1>1 DEF HandshakeLive, Answered, OpenAt, Held, Failure
<1>12. CachedSessionLive' /\ EndedStaysEnded'
  BY <1>4 DEF CachedSessionLive, Cached, EndedStaysEnded
<1>13. QED
  BY <1>2, <1>3, <1>6, <1>7, <1>8, <1>9, <1>10, <1>11, <1>12

LEMMA ConnectionFailsKeeps ==
  ASSUME TypeOK, SessionInv, NEW p \in Callers, NetworkStep(p)
  PROVE  SessionInv'
<1>0. /\ UNCHANGED <<sessions, ended>>
      /\ ClientKeeps
      /\ replies' = [replies EXCEPT ![p] = Failure]
  BY DEF NetworkStep, ConnectionFails, serverVars, clientVars, managerVars, ClientKeeps
<1>1. ASSUME NEW r \in requests, r.conn = p, requests' = requests \ {r}
      PROVE  SessionInv'
  <2>1. Answer(r, Failure)
    BY <1>0, <1>1 DEF Answer
  <2>2. Failure # NoReply /\ Failure.type \notin {"session_accept", "capability_manifest"}
    BY DEF Failure, NoReply
  <2>3. QED
    BY <1>0, <2>1, <2>2, AnswerKeeps
<1>2. ASSUME NEW r \in requests, r.conn = p,
             requests' = (requests \ {r}) \cup {[r EXCEPT !.conn = NoConn]}
      PROVE  SessionInv'
  <2> DEFINE new == [r EXCEPT !.conn = NoConn]
  <2>1. new.msg = r.msg /\ new.to = r.to /\ new.conn = NoConn
    BY DEF TypeOK, TransportTypeOK, Exchange
  <2>2. requests' = (requests \ {r}) \cup {new}
    BY <1>2
  <2> HIDE DEF new
  <2>3. QED
    BY <1>0, <1>2, <2>1, <2>2, ReplaceKeeps
<1>3. ASSUME UNCHANGED requests, replies[p] # NoReply
      PROVE  SessionInv'
  <2> USE DEF SessionInv, ClientKeeps
  <2>1. Quiet(p)
    BY <1>3, Quieted
  <2>2. \A q \in Callers : \/ replies'[q] = replies[q]
                           \/ q = p /\ replies'[q] = Failure
    BY <1>0 DEF TypeOK, TransportTypeOK
  <2>3. RequestsAwaited' /\ OneRequestEach'
    BY <1>0, <1>3, <2>1, <2>2
    DEF RequestsAwaited, OneRequestEach, Quiet, TypeOK, TransportTypeOK, Exchange
  <2>4. IdsDrawn' /\ ProposalsFresh' /\ OneOwner' /\ ClosesUnowned'
    BY <1>0, <1>3
    DEF IdsDrawn, ProposalsFresh, OneOwner, ClosesUnowned, SessionIds, Proposals, Closes,
        Holds, Held, UsableAt, Cached
  <2>5. ManifestTrue' /\ HandshakeLive'
    BY <1>0, <2>2 DEF ManifestTrue, HandshakeLive, Answered, Failure, OpenAt, Held
  <2>6. CachedSessionLive' /\ EndedStaysEnded'
    BY <1>0 DEF CachedSessionLive, Cached, EndedStaysEnded, SessionIds
  <2>7. QED
    BY <2>3, <2>4, <2>5, <2>6
<1>4. QED
  BY <1>1, <1>2, <1>3 DEF NetworkStep, ConnectionFails

-------------------------------------------------------------------------------
(* The life of a session *)

(* Identifier drawn, SESSION_PROPOSE posted. *)
LEMMA ReceiveManifestKeeps ==
  ASSUME TypeOK, SessionInv, NEW p \in Callers, ReceiveManifest(p),
         UNCHANGED <<sessions, ended>>
  PROVE  SessionInv'
<1> USE DEF SessionInv
<1> DEFINE id == lastId + 1
           url == frame[p].url
           mode == ClientNegotiates(ManifestModes(replies[p]))
           msg == [type |-> "session_propose", session_id |-> id, payload_mode |-> mode,
                   ttl_secs |-> TtlSecs, trust_domain |-> ClientDomain.name,
                   signature |-> ClientSecret]
           new == Request(p, url, msg)
<1>1. Quiet(p)
  BY Quieted DEF ReceiveManifest, Answered, NoReply
<1>2. UsableAt(url, mode)
  <2>1. ManifestModes(replies[p]) \in {ServerModes[url], {"text"}}
    BY DEF ReceiveManifest, ManifestTrue, ManifestModes
  <2>2. QED
    BY <2>1, PrefsAreModes, AgreedIsUsable DEF ClientNegotiates, UsableAt
<1>3. /\ new.conn = p /\ new.to = url /\ new.msg.type = "session_propose"
      /\ new.msg.session_id = id /\ new.msg.payload_mode = mode
      /\ requests' = requests \cup {new}
      /\ lastId' = id
      /\ UNCHANGED cache
  BY DEF ReceiveManifest, Post, Request
<1>4. /\ pc'[p] = "propose"
      /\ frame'[p].url = url
      /\ frame'[p].session.session_id = id
      /\ frame'[p].session.payload_mode = mode
      /\ replies'[p] = NoReply
      /\ OthersKeep(p)
  <2>1. /\ pc' = [pc EXCEPT ![p] = "propose"]
        /\ frame' = [frame EXCEPT ![p] = [frame[p] EXCEPT !.session.session_id = id,
                                                         !.session.payload_mode = mode]]
        /\ replies' = [replies EXCEPT ![p] = NoReply]
    BY DEF ReceiveManifest, Goto, Post
  <2>2. /\ pc \in [Callers -> Label] /\ frame \in [Callers -> Frame]
        /\ replies \in [Callers -> Reply] /\ frame[p].session \in Session
    BY FrameFields DEF TypeOK, TransportTypeOK, ManagerTypeOK
  <2> HIDE DEF id, mode
  <2>3. QED
    BY <2>1, <2>2 DEF OthersKeep, Frame, Session
<1>5. id \in Nat /\ id > lastId
  BY IdTypes
<1> HIDE DEF id, mode, msg, new
<1>6. RequestsAwaited' /\ OneRequestEach'
  BY <1>1, <1>3, <1>4
  DEF RequestsAwaited, OneRequestEach, Quiet, OthersKeep, TypeOK, TransportTypeOK, Exchange,
      AwaitOf
<1>7. /\ \A v \in Urls : SessionIds(v)' = SessionIds(v)
      /\ Proposals' = Proposals \cup {new} /\ Closes' = Closes
  BY <1>3 DEF SessionIds, Proposals, Closes
<1>8. /\ \A q \in Callers \ {p} : Holds(q)' = Holds(q) /\ Held(q)' = Held(q)
      /\ Holds(p)' /\ Held(p)' = id
  BY <1>4 DEF Holds, Held, OthersKeep
<1>9. IdsDrawn'
  <2>1. \A v \in Urls : /\ cache'[v].session_id <= lastId'
                        /\ \A i \in SessionIds(v)' \cup ended'[v] : i <= lastId'
    BY <1>3, <1>5, <1>7, IdTypes DEF IdsDrawn
  <2>2. \A q \in Callers : Holds(q)' => Held(q)' \in 1..lastId'
    BY <1>3, <1>5, <1>8, IdTypes DEF IdsDrawn
  <2>3. \A r \in (Proposals \cup Closes)' : r.msg.session_id <= lastId'
    BY <1>3, <1>5, <1>7, IdTypes DEF IdsDrawn
  <2>4. QED
    BY <2>1, <2>2, <2>3 DEF IdsDrawn
<1>10. ManifestTrue'
  BY <1>4 DEF ManifestTrue, Answered, OthersKeep
<1>11. ProposalsFresh'
  <2>1. \A r \in Proposals : r.msg.session_id # id /\ r.conn # p
                             /\ r.conn \in Callers \cup {NoConn}
    BY <1>1, <1>5, IdTypes
    DEF IdsDrawn, Quiet, Proposals, TypeOK, TransportTypeOK, Exchange
  <2>2. \A v \in Urls : id \notin SessionIds(v) \cup ended[v]
    BY <1>5, IdTypes DEF IdsDrawn
  <2>3. \A r \in Proposals' : UsableAt(r.to, r.msg.payload_mode)
    BY <1>2, <1>3, <1>7 DEF ProposalsFresh
  <2>4. \A r \in Proposals' : \A v \in Urls :
          r.msg.session_id \notin SessionIds(v)' \cup ended'[v]
    BY <1>3, <1>7, <2>2 DEF ProposalsFresh
  <2>5. \A r \in Proposals' : r.conn # NoConn =>
          /\ Held(r.conn)' = r.msg.session_id
          /\ frame'[r.conn].session.payload_mode = r.msg.payload_mode
    BY <1>3, <1>4, <1>7, <1>8, <2>1 DEF ProposalsFresh, OthersKeep
  <2>6. \A q, r \in Proposals' : q.msg.session_id = r.msg.session_id => q = r
    BY <1>3, <1>7, <2>1 DEF ProposalsFresh
  <2>7. QED
    BY <2>3, <2>4, <2>5, <2>6 DEF ProposalsFresh, UsableAt
<1>12. OneOwner'
  <2>1. /\ \A u \in Urls : cache[u].session_id # id
        /\ \A q \in Callers : Holds(q) => Held(q) # id
    BY <1>5, IdTypes DEF IdsDrawn
  <2>2. QED
    BY <1>3, <1>8, <2>1 DEF OneOwner, Cached
<1>13. ClosesUnowned'
  <2>1. \A r \in Closes : r.msg.session_id # id
    BY <1>5, IdTypes DEF IdsDrawn
  <2>2. QED
    BY <1>3, <1>7, <1>8, <2>1 DEF ClosesUnowned
<1>14. HandshakeLive'
  BY <1>4 DEF HandshakeLive, Answered, OpenAt, Held, OthersKeep, NoReply
<1>15. CachedSessionLive' /\ EndedStaysEnded'
  BY <1>3, <1>7 DEF CachedSessionLive, Cached, EndedStaysEnded
<1>16. QED
  BY <1>6, <1>9, <1>10, <1>11, <1>12, <1>13, <1>14, <1>15

(* The delegate opens the proposed session, in the mode proposed. *)
LEMMA AcceptSessionKeeps ==
  ASSUME TypeOK, SessionInv, NEW r \in requests, AcceptSession(r), ClientKeeps
  PROVE  SessionInv'
<1> USE DEF SessionInv, ClientKeeps
<1> DEFINE id == r.msg.session_id
           mode == ServerNegotiates(r.to, RequestedMode(r.msg))
           session == [session_id |-> id, payload_mode |-> mode,
                       ttl_secs |-> r.msg.ttl_secs, last_used |-> now]
           reply == [type |-> "session_accept", session_id |-> id, negotiated_mode |-> mode]
<1>1. r \in Proposals /\ r.to \in Urls /\ r.conn \in Callers \cup {NoConn}
  BY DEF AcceptSession, Takes, Proposals, TypeOK, TransportTypeOK, Exchange
<1>2. mode = r.msg.payload_mode
  <2>1. r.msg.payload_mode \in PayloadMode /\ RequestedMode(r.msg) = r.msg.payload_mode
    BY <1>1, MessageFields, RequestedModeKnown
       DEF Proposals, TypeOK, TransportTypeOK, Exchange
  <2>2. UsableAt(r.to, r.msg.payload_mode)
    BY <1>1 DEF ProposalsFresh
  <2>3. QED
    BY <2>1, <2>2, RenegotiationKeeps DEF ServerNegotiates, UsableAt
<1>3. /\ requests' = requests \ {r}
      /\ \A p \in Callers : p # r.conn => replies'[p] = replies[p]
      /\ r.conn \in Callers => replies'[r.conn] = reply
      /\ UNCHANGED ended
      /\ \A u \in Urls : u # r.to => sessions'[u] = sessions[u]
      /\ sessions'[r.to] = WithoutSession(r.to, id) \cup {session}
  BY <1>1 DEF AcceptSession, Answer, TypeOK, TransportTypeOK, ServerTypeOK
<1>4. /\ session.session_id = id /\ session.payload_mode = mode
      /\ reply.type = "session_accept" /\ reply.session_id = id
  OBVIOUS
<1> HIDE DEF mode, session, reply
<1>5. /\ \A u \in Urls : SessionIds(u)' \subseteq SessionIds(u) \cup {id}
      /\ \A u \in Urls : id \notin SessionIds(u) \cup ended[u]
  <2>1. SessionIds(r.to)' \subseteq SessionIds(r.to) \cup {id}
    BY <1>3, <1>4 DEF SessionIds, WithoutSession
  <2>2. \A u \in Urls : u # r.to => SessionIds(u)' = SessionIds(u)
    BY <1>3 DEF SessionIds
  <2>3. QED
    BY <1>1, <2>1, <2>2 DEF ProposalsFresh
<1>6. \A u \in Urls : \A s \in sessions[u] : s \in sessions'[u]
  BY <1>3, <1>5 DEF WithoutSession, SessionIds
<1>7. \A p \in Callers : Holds(p)' = Holds(p) /\ Held(p)' = Held(p)
  BY DEF Holds, Held
<1>8. Proposals' = Proposals \ {r} /\ Closes' \subseteq Closes
  BY <1>3 DEF Proposals, Closes
<1>9. RequestsAwaited' /\ OneRequestEach'
  BY <1>3 DEF RequestsAwaited, OneRequestEach, TypeOK, TransportTypeOK, Exchange
<1>10. IdsDrawn'
  BY <1>1, <1>3, <1>5, <1>7, <1>8 DEF IdsDrawn
<1>11. ManifestTrue'
  BY <1>3, <1>4 DEF ManifestTrue, Answered
<1>12. ProposalsFresh'
  <2>1. \A q \in Proposals' : q.msg.session_id # id
    BY <1>1, <1>8 DEF ProposalsFresh
  <2>2. QED
    BY <1>3, <1>5, <1>8, <2>1 DEF ProposalsFresh, UsableAt, Held
<1>13. OneOwner' /\ ClosesUnowned'
  BY <1>7, <1>8 DEF OneOwner, ClosesUnowned, Cached
<1>14. HandshakeLive'
  <2>1. ASSUME NEW p \in Callers, p = r.conn
        PROVE  /\ replies'[p].session_id = Held(p)' /\ OpenAt(frame[p].url, frame[p].session)'
               /\ pc[p] # "caching"
    <3>1. Held(p) = id /\ frame[p].session.payload_mode = r.msg.payload_mode
      BY <1>1, <2>1 DEF ProposalsFresh
    <3>2. frame[p].url = r.to /\ pc[p] = "propose"
      BY <1>1, <2>1 DEF RequestsAwaited, Proposals, AwaitOf
    <3>3. session \in sessions'[r.to]
      BY <1>3
    <3>4. QED
      BY <1>2, <1>3, <1>4, <2>1, <3>1, <3>2, <3>3 DEF OpenAt, Held
  <2>2. ASSUME NEW p \in Callers, p # r.conn, OpenAt(frame[p].url, frame[p].session)
        PROVE  OpenAt(frame[p].url, frame[p].session)'
    BY <1>6, <2>2, FrameFields DEF OpenAt, TypeOK
  <2>3. QED
    BY <1>3, <1>7, <2>1, <2>2 DEF HandshakeLive, Answered
<1>15. CachedSessionLive'
  BY <1>6 DEF CachedSessionLive, Cached
<1>16. EndedStaysEnded'
  BY <1>3, <1>5 DEF EndedStaysEnded
<1>17. QED
  BY <1>9, <1>10, <1>11, <1>12, <1>13, <1>14, <1>15, <1>16

(* The proposer takes the session over from the reply. *)
LEMMA ReceiveAcceptKeeps ==
  ASSUME TypeOK, SessionInv, NEW p \in Callers, ReceiveAccept(p),
         UNCHANGED <<sessions, ended>>
  PROVE  SessionInv'
<1> USE DEF SessionInv
<1>1. Quiet(p)
  BY Quieted DEF ReceiveAccept, Answered, NoReply
<1>2. /\ UNCHANGED <<requests, cache, lastId>>
      /\ Held(p)' = Held(p) /\ OpenAt(frame[p].url, frame[p].session)
      /\ frame'[p].url = frame[p].url
      /\ frame'[p].session.payload_mode = frame[p].session.payload_mode
      /\ pc[p] = "propose" /\ pc'[p] = "caching"
      /\ OthersKeep(p)
  <2> DEFINE session == [session_id |-> replies[p].session_id,
                         payload_mode |-> frame[p].session.payload_mode,
                         last_used |-> now, task_count |-> 0]
  <2>1. /\ frame' = [frame EXCEPT ![p] = [frame[p] EXCEPT !.session = session]]
        /\ pc' = [pc EXCEPT ![p] = "caching"]
        /\ replies' = [replies EXCEPT ![p] = NoReply]
        /\ UNCHANGED <<requests, cache, lastId>>
        /\ pc[p] = "propose"
    BY FrameFields DEF ReceiveAccept, Goto, Consume, TypeOK, Frame
  <2>2. replies[p].session_id = Held(p) /\ OpenAt(frame[p].url, frame[p].session)
    BY DEF ReceiveAccept, HandshakeLive
  <2>3. /\ pc \in [Callers -> Label] /\ frame \in [Callers -> Frame]
        /\ replies \in [Callers -> Reply]
    BY DEF TypeOK, TransportTypeOK, ManagerTypeOK
  <2>4. frame'[p] = [frame[p] EXCEPT !.session = session]
    BY <2>1, <2>3
  <2>5. frame'[p].session = session /\ frame'[p].url = frame[p].url
    BY <2>3, <2>4 DEF Frame
  <2>6. QED
    BY <2>1, <2>2, <2>3, <2>5 DEF OthersKeep, Held
<1>3. \A q \in Callers : Holds(q)' = Holds(q) /\ Held(q)' = Held(q)
  BY <1>2 DEF Holds, Held, OthersKeep
<1>4. RequestsAwaited' /\ OneRequestEach'
  BY <1>1, <1>2
  DEF RequestsAwaited, OneRequestEach, Quiet, OthersKeep, TypeOK, TransportTypeOK, Exchange
<1>5. /\ \A v \in Urls : SessionIds(v)' = SessionIds(v)
      /\ Proposals' = Proposals /\ Closes' = Closes
  BY <1>2 DEF SessionIds, Proposals, Closes
<1>6. IdsDrawn' /\ OneOwner' /\ ClosesUnowned'
  BY <1>2, <1>3, <1>5 DEF IdsDrawn, OneOwner, ClosesUnowned, Cached
<1>7. ManifestTrue'
  BY <1>2 DEF ManifestTrue, Answered, OthersKeep
<1>8. ProposalsFresh'
  BY <1>1, <1>2, <1>3, <1>5
  DEF ProposalsFresh, UsableAt, Quiet, OthersKeep, Proposals, TypeOK, TransportTypeOK, Exchange
<1>9. HandshakeLive'
  BY <1>2 DEF HandshakeLive, Answered, OpenAt, Held, OthersKeep
<1>10. CachedSessionLive' /\ EndedStaysEnded'
  BY <1>2, <1>5 DEF CachedSessionLive, Cached, EndedStaysEnded
<1>11. QED
  BY <1>4, <1>6, <1>7, <1>8, <1>9, <1>10

(* The session moves from its handshake to the cache. *)
LEMMA CacheSessionKeeps ==
  ASSUME TypeOK, SessionInv, NEW p \in Callers, CacheSession(p),
         UNCHANGED <<sessions, ended>>
  PROVE  SessionInv'
<1> USE DEF SessionInv
<1> DEFINE url == frame[p].url
<1>0. url \in Urls
  BY FrameFields DEF TypeOK
<1>1. Quiet(p)
  BY Quieted DEF CacheSession
<1>2. /\ UNCHANGED <<requests, replies, lastId>>
      /\ frame'[p] = frame[p] /\ pc[p] = "caching" /\ pc'[p] = "established"
      /\ OthersKeep(p)
      /\ cache'[url] = frame[p].session
      /\ \A u \in Urls : u # url => cache'[u] = cache[u]
  BY <1>0 DEF CacheSession, Goto, OthersKeep, transportVars, TypeOK, ManagerTypeOK
<1>3. Holds(p) /\ \A q \in Callers : Holds(q)' => q # p /\ Holds(q) /\ Held(q)' = Held(q)
  BY <1>2 DEF Holds, Held, OthersKeep
<1>4. RequestsAwaited' /\ OneRequestEach'
  BY <1>1, <1>2
  DEF RequestsAwaited, OneRequestEach, Quiet, OthersKeep, TypeOK, TransportTypeOK, Exchange
<1>5. /\ \A v \in Urls : SessionIds(v)' = SessionIds(v)
      /\ Proposals' = Proposals /\ Closes' = Closes
  BY <1>2 DEF SessionIds, Proposals, Closes
<1>6. cache'[url].session_id = Held(p)
  BY <1>2 DEF Held
<1>7. IdsDrawn'
  <2>1. Held(p) <= lastId
    BY <1>3, IdTypes DEF IdsDrawn
  <2>2. \A u \in Urls : cache'[u].session_id <= lastId
    BY <1>2, <1>6, <2>1 DEF IdsDrawn
  <2>3. QED
    BY <1>2, <1>3, <1>5, <2>2 DEF IdsDrawn
<1>8. ManifestTrue'
  BY <1>2 DEF ManifestTrue, Answered, OthersKeep
<1>9. ProposalsFresh'
  <2>1. \A r \in Proposals : r.conn # p /\ r.conn \in Callers \cup {NoConn}
    BY <1>1 DEF Proposals, Quiet, TypeOK, TransportTypeOK, Exchange
  <2>2. QED
    BY <1>2, <1>5, <2>1 DEF ProposalsFresh, UsableAt, OthersKeep, Held
<1>10. OneOwner'
  BY <1>0, <1>2, <1>3, <1>6 DEF OneOwner, Cached
<1>11. ClosesUnowned'
  BY <1>2, <1>3, <1>5, <1>6 DEF ClosesUnowned
<1>12. HandshakeLive'
  BY <1>2 DEF HandshakeLive, Answered, OpenAt, Held, OthersKeep
<1>13. CachedSessionLive'
  <2>1. OpenAt(url, frame[p].session)
    BY <1>2 DEF HandshakeLive
  <2>2. QED
    BY <1>2, <2>1 DEF CachedSessionLive, Cached, OpenAt
<1>14. EndedStaysEnded'
  BY <1>5 DEF EndedStaysEnded
<1>15. QED
  BY <1>4, <1>7, <1>8, <1>9, <1>10, <1>11, <1>12, <1>13, <1>14

(* The session leaves the cache before SESSION_CLOSE is posted. *)
LEMMA RemoveAndSendCloseKeeps ==
  ASSUME TypeOK, SessionInv, NEW p \in Callers, pc[p] \in {"idle", "closing"},
         NEW u \in Urls, NEW rest, RemoveAndSendClose(p, u, rest),
         UNCHANGED <<sessions, ended>>
  PROVE  SessionInv'
<1> USE DEF SessionInv
<1> DEFINE id == cache[u].session_id
           msg == [type |-> "session_close", session_id |-> id, signature |-> NoSecret]
           new == Request(p, u, msg)
<1>1. Quiet(p)
  BY Quieted
<1>2. /\ id # NoId /\ UNCHANGED lastId
      /\ new.conn = p /\ new.to = u /\ new.msg.type = "session_close"
      /\ new.msg.session_id = id
      /\ requests' = requests \cup {new}
  BY DEF RemoveAndSendClose, Cached, Post, Request
<1>3. /\ pc'[p] = "close" /\ frame'[p].url = u /\ replies'[p] = NoReply
      /\ OthersKeep(p)
  <2>1. /\ pc' = [pc EXCEPT ![p] = "close"]
        /\ frame' = [frame EXCEPT ![p] =
                       [frame[p] EXCEPT !.op = "close", !.url = u, !.session = cache[u],
                                        !.closing = rest]]
        /\ replies' = [replies EXCEPT ![p] = NoReply]
    BY DEF RemoveAndSendClose, Goto, Post
  <2>2. /\ pc \in [Callers -> Label] /\ frame \in [Callers -> Frame]
        /\ replies \in [Callers -> Reply]
    BY DEF TypeOK, TransportTypeOK, ManagerTypeOK
  <2>3. QED
    BY <2>1, <2>2 DEF OthersKeep, Frame
<1>4. /\ cache'[u].session_id = NoId
      /\ \A v \in Urls : v # u => cache'[v] = cache[v]
  BY DEF RemoveAndSendClose, TypeOK, ManagerTypeOK, NoSession
<1> HIDE DEF msg, new
<1>5. RequestsAwaited' /\ OneRequestEach'
  BY <1>1, <1>2, <1>3
  DEF RequestsAwaited, OneRequestEach, Quiet, OthersKeep, TypeOK, TransportTypeOK, Exchange,
      AwaitOf
<1>6. /\ \A v \in Urls : SessionIds(v)' = SessionIds(v)
      /\ Proposals' = Proposals /\ Closes' = Closes \cup {new}
  BY <1>2 DEF SessionIds, Proposals, Closes
<1>7. \A q \in Callers : Holds(q)' => q # p /\ Holds(q) /\ Held(q)' = Held(q)
  BY <1>3 DEF Holds, Held, OthersKeep
<1>8. IdsDrawn'
  <2>1. \A v \in Urls : cache'[v].session_id <= lastId
    BY <1>4, IdTypes DEF IdsDrawn, NoId
  <2>2. \A r \in (Proposals \cup Closes)' : r.msg.session_id <= lastId
    BY <1>2, <1>6 DEF IdsDrawn
  <2>3. QED
    BY <1>2, <1>6, <1>7, <2>1, <2>2 DEF IdsDrawn
<1>9. ManifestTrue'
  BY <1>3 DEF ManifestTrue, Answered, OthersKeep
<1>10. ProposalsFresh'
  <2>1. \A r \in Proposals : r.conn # p /\ r.conn \in Callers \cup {NoConn}
    BY <1>1 DEF Proposals, Quiet, TypeOK, TransportTypeOK, Exchange
  <2>2. QED
    BY <1>3, <1>6, <2>1 DEF ProposalsFresh, UsableAt, OthersKeep, Held
<1>11. OneOwner'
  <2>1. \A q \in Callers : Holds(q) => Held(q) # NoId
    BY DEF IdsDrawn, NoId
  <2>2. \A q \in Callers : Holds(q)' => \A v \in Urls : cache'[v].session_id # Held(q)'
    BY <1>4, <1>7, <2>1 DEF OneOwner
  <2>3. \A v, w \in Urls :
          v # w /\ Cached(v)' => cache'[v].session_id # cache'[w].session_id
    BY <1>4 DEF OneOwner, Cached
  <2>4. QED
    BY <1>7, <2>2, <2>3 DEF OneOwner
<1>12. ClosesUnowned'
  <2>1. /\ \A v \in Urls : cache'[v].session_id # id
        /\ \A q \in Callers : Holds(q) => Held(q) # id
    BY <1>2, <1>4 DEF OneOwner, Cached
  <2>2. \A r \in Closes : \A v \in Urls : cache'[v].session_id # r.msg.session_id
    BY <1>4 DEF ClosesUnowned
  <2>3. QED
    BY <1>2, <1>6, <1>7, <2>1, <2>2 DEF ClosesUnowned
<1>13. HandshakeLive'
  BY <1>3 DEF HandshakeLive, Answered, OpenAt, Held, OthersKeep
<1>14. CachedSessionLive'
  BY <1>4 DEF CachedSessionLive, Cached
<1>15. EndedStaysEnded'
  BY <1>6 DEF EndedStaysEnded
<1>16. QED
  BY <1>5, <1>8, <1>9, <1>10, <1>11, <1>12, <1>13, <1>14, <1>15

(* The delegate ends a session nobody owns any more. *)
LEMMA HandleSessionCloseKeeps ==
  ASSUME TypeOK, SessionInv, NEW r \in requests, HandleSessionClose(r), ClientKeeps
  PROVE  SessionInv'
<1> USE DEF SessionInv, ClientKeeps
<1> DEFINE id == r.msg.session_id
<1>1. r \in Closes /\ r.to \in Urls
  BY DEF HandleSessionClose, Takes, Closes, TypeOK, TransportTypeOK, Exchange
<1>2. /\ requests' = requests \ {r}
      /\ \A p \in Callers : p # r.conn => replies'[p] = replies[p]
      /\ r.conn \in Callers => replies'[r.conn].type = "session_close"
      /\ \A u \in Urls : u # r.to => sessions'[u] = sessions[u] /\ ended'[u] = ended[u]
      /\ sessions'[r.to] = WithoutSession(r.to, id)
      /\ ended'[r.to] = ended[r.to] \cup (SessionIds(r.to) \cap {id})
  BY <1>1 DEF HandleSessionClose, Answer, TypeOK, TransportTypeOK, ServerTypeOK
<1>3. /\ \A u \in Urls : SessionIds(u)' \subseteq SessionIds(u)
      /\ \A u \in Urls : (SessionIds(u) \cup ended[u])' \subseteq SessionIds(u) \cup ended[u]
      /\ id \notin SessionIds(r.to)'
  <2>1. SessionIds(r.to)' \subseteq SessionIds(r.to) \ {id}
    BY <1>2 DEF SessionIds, WithoutSession
  <2>2. \A u \in Urls : u # r.to => SessionIds(u)' = SessionIds(u)
    BY <1>2 DEF SessionIds
  <2>3. QED
    BY <1>2, <2>1, <2>2
<1>4. \A u \in Urls : \A s \in sessions[u] : s.session_id # id => s \in sessions'[u]
  BY <1>2 DEF WithoutSession
<1>5. \A p \in Callers : Holds(p)' = Holds(p) /\ Held(p)' = Held(p)
  BY DEF Holds, Held
<1>6. Proposals' \subseteq Proposals /\ Closes' \subseteq Closes
  BY <1>2 DEF Proposals, Closes
<1>7. RequestsAwaited' /\ OneRequestEach'
  BY <1>2 DEF RequestsAwaited, OneRequestEach, TypeOK, TransportTypeOK, Exchange
<1>8. IdsDrawn'
  BY <1>3, <1>5, <1>6 DEF IdsDrawn
<1>9. ManifestTrue'
  BY <1>2 DEF ManifestTrue, Answered
<1>10. ProposalsFresh'
  BY <1>3, <1>6 DEF ProposalsFresh, UsableAt, Held
<1>11. OneOwner' /\ ClosesUnowned'
  BY <1>5, <1>6 DEF OneOwner, ClosesUnowned, Cached
<1>12. HandshakeLive'
  <2>1. ASSUME NEW p \in Callers, Holds(p), OpenAt(frame[p].url, frame[p].session)
        PROVE  OpenAt(frame[p].url, frame[p].session)'
    <3>1. frame[p].session.session_id # id /\ frame[p].url \in Urls
      BY <1>1, <2>1, FrameFields DEF ClosesUnowned, Held, TypeOK
    <3>2. QED
      BY <1>4, <2>1, <3>1 DEF OpenAt
  <2>2. QED
    BY <1>2, <1>5, <2>1 DEF HandshakeLive, Answered, Holds
<1>13. CachedSessionLive'
  BY <1>1, <1>4 DEF CachedSessionLive, Cached, ClosesUnowned
<1>14. EndedStaysEnded'
  BY <1>1, <1>2, <1>3 DEF EndedStaysEnded
<1>15. QED
  BY <1>7, <1>8, <1>9, <1>10, <1>11, <1>12, <1>13, <1>14

-------------------------------------------------------------------------------
(* Every step *)

LEMMA ServerStepKeeps ==
  ASSUME TypeOK, SessionInv, NEW conn \in Callers \cup {NoConn}, ServerStep(conn)
  PROVE  SessionInv'
<1>1. PICK r \in requests : HandleMessage(r)
  BY DEF ServerStep, Serve
<1>2. ClientKeeps
  BY DEF ServerStep, clientVars, managerVars, ClientKeeps
<1>3. r.to \in Urls
  BY DEF TypeOK, TransportTypeOK, Exchange
<1>4. ASSUME NEW reply, Answer(r, reply), UNCHANGED <<sessions, ended>>,
             reply.type \notin {"none", "session_accept", "capability_manifest"}
      PROVE  SessionInv'
  BY <1>2, <1>4, AnswerKeeps DEF NoReply
<1>5. CASE Refuse(r)
  BY <1>4, <1>5 DEF Refuse, Failure, serverVars
<1>6. CASE HandleHello(r)
  <2> DEFINE reply == [type |-> "capability_manifest", modes |-> ServerModes[r.to]]
  <2>1. /\ Answer(r, reply) /\ UNCHANGED <<sessions, ended>>
        /\ reply # NoReply /\ reply.type = "capability_manifest"
        /\ reply.modes = ServerModes[r.to]
    BY <1>6 DEF HandleHello, serverVars, NoReply
  <2> HIDE DEF reply
  <2>2. QED
    BY <1>2, <2>1, AnswerKeeps
<1>7. CASE RejectSession(r)
  BY <1>4, <1>7 DEF RejectSession, serverVars
<1>8. CASE AcceptSession(r)
  BY <1>2, <1>8, AcceptSessionKeeps
<1>9. CASE HandleSessionClose(r)
  BY <1>2, <1>9, HandleSessionCloseKeeps
<1>10. CASE RunTask(r)
  <2> DEFINE new == [r EXCEPT !.stage = "executed"]
  <2>1. /\ requests' = (requests \ {r}) \cup {new}
        /\ UNCHANGED replies /\ UNCHANGED <<sessions, ended>>
    BY <1>10 DEF RunTask, Advance
  <2>2. new.msg = r.msg /\ new.to = r.to /\ new.conn = r.conn
    BY DEF TypeOK, TransportTypeOK, Exchange
  <2> HIDE DEF new
  <2>3. QED
    BY <1>2, <2>1, <2>2, ReplaceKeeps
<1>11. CASE ReturnResult(r)
  BY <1>4, <1>11 DEF ReturnResult, serverVars
<1>12. CASE HandleTaskStatusQuery(r)
  <2>1. PICK reply : /\ Answer(r, reply)
                     /\ reply.type \in {"error", "task_result", "task_failed", "task_update"}
    BY <1>12 DEF HandleTaskStatusQuery, Failure, StatusReply
  <2>2. QED
    BY <1>4, <1>12, <2>1 DEF HandleTaskStatusQuery, serverVars
<1>13. CASE HandleTaskCancel(r)
  BY <1>4, <1>13 DEF HandleTaskCancel
<1>14. QED
  BY <1>1, <1>5, <1>6, <1>7, <1>8, <1>9, <1>10, <1>11, <1>12, <1>13 DEF HandleMessage

(* What Goto does to the callers. *)
LEMMA GotoEffect ==
  ASSUME TypeOK, NEW p \in Callers, NEW label, NEW locals, Goto(p, label, locals),
         \/ UNCHANGED replies
         \/ replies' = [replies EXCEPT ![p] = NoReply]
  PROVE  pc'[p] = label /\ frame'[p] = locals /\ OthersKeep(p)
BY DEF TypeOK, TransportTypeOK, ManagerTypeOK, Goto, OthersKeep

(* p goes on to a label outside a handshake, or returns, and posts nothing. *)
LEMMA MoveStep ==
  ASSUME TypeOK, SessionInv, NEW p \in Callers, Quiet(p), CacheKeeps,
         NEW label, label \notin {"hello", "propose", "caching"},
         NEW locals, Goto(p, label, locals),
         UNCHANGED replies \/ replies' = [replies EXCEPT ![p] = NoReply],
         UNCHANGED <<requests, sessions, ended, lastId>>
  PROVE  SessionInv'
<1>1. lastId' \in Nat /\ lastId <= lastId'
  BY IdTypes
<1>2. pc'[p] \notin {"hello", "propose", "caching"} /\ OthersKeep(p)
  BY GotoEffect
<1>3. QED
  BY <1>1, <1>2, MoveKeeps

LEMMA TouchedKeeps ==
  ASSUME TypeOK, NEW u \in Urls, cache' = Touched(u)
  PROVE  CacheKeeps
BY DEF TypeOK, ManagerTypeOK, Session, Touched, CacheKeeps

LEMMA StartStepKeeps ==
  ASSUME TypeOK, SessionInv, NEW p \in Callers, StartStep(p)
  PROVE  SessionInv'
<1>0. /\ UNCHANGED <<sessions, ended>> /\ CallerStarts(p)
  BY DEF StartStep, serverVars
<1>1. pc[p] = "idle"
  BY <1>0 DEF CallerStarts, InvokeCached, InvokeNew, PollStatus, CancelTask, Close, CloseAll,
              Start, Begin
<1>2. Quiet(p)
  BY <1>1, Quieted
<1>3. lastId \in Nat
  BY IdTypes
<1>4. CASE InvokeCached(p)
  <2>1. PICK op \in {"invoke", "stream"}, u \in Urls, c \in ContractChoices :
          ReuseSession(p, u, Call(op, u, c))
    BY <1>4 DEF InvokeCached
  <2>2. QED
    BY <1>0, <1>2, <2>1, MoveStep DEF ReuseSession, CacheKeeps, transportVars
<1>5. CASE InvokeNew(p)
  <2>1. PICK op \in {"invoke", "stream"}, u \in Urls, c \in ContractChoices :
          SendHello(p, u, Call(op, u, c))
    BY <1>5 DEF InvokeNew
  <2> DEFINE msg == [type |-> "hello", signature |-> ClientSecret]
             locals == Call(op, u, c)
  <2>2. /\ Post(p, u, msg) /\ Goto(p, "hello", locals) /\ UNCHANGED <<cache, lastId>>
        /\ replies' = [replies EXCEPT ![p] = NoReply]
    BY <2>1 DEF SendHello, Post
  <2>3. locals.url = u
    BY DEF Call, Blank
  <2>4. msg.type = "hello" /\ AwaitOf["hello"] = "hello"
    BY DEF AwaitOf
  <2> HIDE DEF msg, locals
  <2>5. pc'[p] = "hello" /\ frame'[p].url = u /\ OthersKeep(p)
    BY <2>2, <2>3, GotoEffect
  <2>6. CacheKeeps /\ lastId' \in Nat /\ lastId <= lastId'
    BY <1>3, <2>2 DEF CacheKeeps
  <2>7. QED
    BY <1>0, <1>2, <2>2, <2>4, <2>5, <2>6, PostKeeps
<1>6. CASE PollStatus(p)
  <2>1. PICK h \in handles :
          /\ Post(p, h.url, StatusQuery(h.task_id))
          /\ Goto(p, "polled", [Blank(h.url) EXCEPT !.op = "status", !.task = h.task_id])
    BY <1>6 DEF PollStatus
  <2> DEFINE msg == StatusQuery(h.task_id)
             locals == [Blank(h.url) EXCEPT !.op = "status", !.task = h.task_id]
  <2>2. /\ Post(p, h.url, msg) /\ Goto(p, "polled", locals) /\ UNCHANGED <<cache, lastId>>
        /\ replies' = [replies EXCEPT ![p] = NoReply]
    BY <1>6, <2>1 DEF PollStatus, Post
  <2>3. locals.url = h.url
    BY DEF Blank
  <2>4. msg.type = "task_update" /\ AwaitOf["task_update"] = "polled"
    BY DEF AwaitOf, StatusQuery
  <2> HIDE DEF msg, locals
  <2>5. pc'[p] = "polled" /\ frame'[p].url = h.url /\ OthersKeep(p)
    BY <2>2, <2>3, GotoEffect
  <2>6. CacheKeeps /\ lastId' \in Nat /\ lastId <= lastId'
    BY <1>3, <2>2 DEF CacheKeeps
  <2>7. QED
    BY <1>0, <1>2, <2>2, <2>4, <2>5, <2>6, PostKeeps
<1>7. CASE CancelTask(p)
  <2>1. PICK h \in handles :
          /\ Post(p, h.url, [type |-> "task_cancel", task_id |-> h.task_id,
                             signature |-> ClientSecret])
          /\ Goto(p, "cancel", [Blank(h.url) EXCEPT !.op = "cancel", !.task = h.task_id])
    BY <1>7 DEF CancelTask
  <2> DEFINE msg == [type |-> "task_cancel", task_id |-> h.task_id, signature |-> ClientSecret]
             locals == [Blank(h.url) EXCEPT !.op = "cancel", !.task = h.task_id]
  <2>2. /\ Post(p, h.url, msg) /\ Goto(p, "cancel", locals) /\ UNCHANGED <<cache, lastId>>
        /\ replies' = [replies EXCEPT ![p] = NoReply]
    BY <1>7, <2>1 DEF CancelTask, Post
  <2>3. locals.url = h.url
    BY DEF Blank
  <2>4. msg.type = "task_cancel" /\ AwaitOf["task_cancel"] = "cancel"
    BY DEF AwaitOf
  <2> HIDE DEF msg, locals
  <2>5. pc'[p] = "cancel" /\ frame'[p].url = h.url /\ OthersKeep(p)
    BY <2>2, <2>3, GotoEffect
  <2>6. CacheKeeps /\ lastId' \in Nat /\ lastId <= lastId'
    BY <1>3, <2>2 DEF CacheKeeps
  <2>7. QED
    BY <1>0, <1>2, <2>2, <2>4, <2>5, <2>6, PostKeeps
<1>8. CASE \E u \in Urls : Close(p, u)
  <2>1. PICK u \in Urls : RemoveAndSendClose(p, u, {})
    BY <1>8 DEF Close
  <2>2. QED
    BY <1>0, <1>1, <2>1, RemoveAndSendCloseKeeps
<1>9. CASE CloseAll(p)
  <2>1. QED
    BY <1>0, <1>2, <1>9, MoveStep DEF CloseAll, CacheKeeps, transportVars
<1>10. QED
  BY <1>0, <1>4, <1>5, <1>6, <1>7, <1>8, <1>9 DEF CallerStarts

LEMMA CallerStepKeeps ==
  ASSUME TypeOK, SessionInv, NEW p \in Callers, CallerStep(p)
  PROVE  SessionInv'
<1>0. UNCHANGED <<sessions, ended>> /\ CallerContinues(p)
  BY DEF CallerStep, serverVars
<1>1. lastId \in Nat
  BY IdTypes
<1>2. ASSUME NEW label, label \notin {"hello", "propose", "caching"}, NEW locals,
             Goto(p, label, locals), Consume(p), ~Answered(p, "none"),
             UNCHANGED <<cache, lastId>>
      PROVE  SessionInv'
  <2>1. Quiet(p)
    BY <1>2, Quieted DEF Answered, NoReply
  <2>2. /\ UNCHANGED <<requests, sessions, ended, lastId>>
        /\ replies' = [replies EXCEPT ![p] = NoReply]
        /\ CacheKeeps
    BY <1>0, <1>2 DEF Consume, CacheKeeps
  <2>3. QED
    BY <1>2, <2>1, <2>2, MoveStep
<1>3. CASE SubmitTask(p)
  <2> DEFINE id == lastId + 1
             msg == [type |-> "task_submit", session_id |-> frame[p].session.session_id,
                     task_id |-> id, signature |-> ClientSecret]
             locals == [frame[p] EXCEPT !.task = id]
  <2>1. /\ Post(p, frame[p].url, msg) /\ Goto(p, "submit", locals)
        /\ lastId' = id /\ UNCHANGED cache
        /\ replies' = [replies EXCEPT ![p] = NoReply]
    BY <1>3 DEF SubmitTask, Post
  <2>2. Quiet(p)
    BY <1>3, Quieted DEF SubmitTask
  <2>3. locals.url = frame[p].url
    BY FrameFields DEF TypeOK, Frame
  <2>4. msg.type = "task_submit" /\ AwaitOf["task_submit"] = "submit"
    BY DEF AwaitOf
  <2>5. CacheKeeps /\ lastId' \in Nat /\ lastId <= lastId'
    BY <1>1, <2>1 DEF CacheKeeps
  <2> HIDE DEF msg, locals, id
  <2>6. pc'[p] = "submit" /\ frame'[p].url = frame[p].url /\ OthersKeep(p)
    BY <2>1, <2>3, GotoEffect
  <2>7. QED
    BY <1>0, <2>1, <2>2, <2>4, <2>5, <2>6, PostKeeps
<1>4. CASE SubmitReturns(p)
  BY <1>2, <1>4 DEF SubmitReturns
<1>5. CASE SubmitFails(p)
  BY <1>2, <1>5 DEF SubmitFails, Return, Answered
<1>6. CASE TouchSession(p)
  <2>1. Quiet(p)
    BY <1>6, Quieted DEF TouchSession
  <2>2. CacheKeeps
    BY <1>6, TouchedKeeps, FrameFields DEF TouchSession, TypeOK
  <2>3. UNCHANGED <<requests, replies, sessions, ended, lastId>>
    BY <1>0, <1>6 DEF TouchSession, transportVars
  <2>4. Goto(p, "polling", frame[p]) \/ Goto(p, "idle", Blank(SomeUrl))
    BY <1>6 DEF TouchSession, Return
  <2>5. QED
    BY <2>1, <2>2, <2>3, <2>4, MoveStep
<1>7. CASE PollStream(p)
  <2> DEFINE msg == StatusQuery(frame[p].task)
  <2>1. /\ Post(p, frame[p].url, msg) /\ Goto(p, "polled", frame[p])
        /\ UNCHANGED <<cache, lastId>>
        /\ replies' = [replies EXCEPT ![p] = NoReply]
    BY <1>7 DEF PollStream, Post
  <2>2. Quiet(p)
    BY <1>7, Quieted DEF PollStream
  <2>3. msg.type = "task_update" /\ AwaitOf["task_update"] = "polled"
    BY DEF AwaitOf, StatusQuery
  <2>4. CacheKeeps /\ lastId' \in Nat /\ lastId <= lastId'
    BY <1>1, <2>1 DEF CacheKeeps
  <2> HIDE DEF msg
  <2>5. pc'[p] = "polled" /\ frame'[p].url = frame[p].url /\ OthersKeep(p)
    BY <2>1, GotoEffect
  <2>6. QED
    BY <1>0, <2>1, <2>2, <2>3, <2>4, <2>5, PostKeeps
<1>8. CASE PollReturns(p)
  <2>1. Goto(p, "polling", frame[p]) \/ Goto(p, "idle", Blank(SomeUrl))
    BY <1>8 DEF PollReturns, Return
  <2>2. QED
    BY <1>2, <1>8, <2>1 DEF PollReturns
<1>9. CASE CancelReturns(p)
  BY <1>2, <1>9 DEF CancelReturns, Return
<1>10. CASE ReceiveManifest(p)
  BY <1>0, <1>10, ReceiveManifestKeeps
<1>11. CASE ReceiveAccept(p)
  BY <1>0, <1>11, ReceiveAcceptKeeps
<1>12. CASE HandshakeFails(p)
  BY <1>2, <1>12 DEF HandshakeFails, Return
<1>13. CASE CacheSession(p)
  BY <1>0, <1>13, CacheSessionKeeps
<1>14. CASE CloseNext(p)
  <2>1. PICK u \in frame[p].closing : RemoveAndSendClose(p, u, frame[p].closing \ {u})
    BY <1>14 DEF CloseNext
  <2>2. u \in Urls
    BY <2>1, FrameFields DEF TypeOK
  <2>3. QED
    BY <1>0, <1>14, <2>1, <2>2, RemoveAndSendCloseKeeps DEF CloseNext
<1>15. CASE CloseSkips(p)
  <2>1. Quiet(p)
    BY <1>15, Quieted DEF CloseSkips
  <2>2. PICK u \in frame[p].closing :
          Goto(p, "closing", [frame[p] EXCEPT !.closing = @ \ {u}])
    BY <1>15 DEF CloseSkips
  <2>3. UNCHANGED <<requests, replies, sessions, ended, lastId>> /\ CacheKeeps
    BY <1>0, <1>15 DEF CloseSkips, transportVars, CacheKeeps
  <2>4. QED
    BY <2>1, <2>2, <2>3, MoveStep
<1>16. CASE CloseAllReturns(p)
  <2>1. Quiet(p)
    BY <1>16, Quieted DEF CloseAllReturns
  <2>2. UNCHANGED <<requests, replies, sessions, ended, lastId>> /\ CacheKeeps
    BY <1>0, <1>16 DEF CloseAllReturns, transportVars, CacheKeeps
  <2>3. QED
    BY <1>16, <2>1, <2>2, MoveStep DEF CloseAllReturns, Return
<1>17. CASE CloseReturns(p)
  <2> DEFINE locals == [Blank(SomeUrl) EXCEPT !.op = "close", !.closing = frame[p].closing]
  <2>1. Goto(p, "closing", locals) \/ Goto(p, "idle", Blank(SomeUrl))
    BY <1>17 DEF CloseReturns, Return
  <2> HIDE DEF locals
  <2>2. QED
    BY <1>2, <1>17, <2>1 DEF CloseReturns
<1>18. QED
  BY <1>0, <1>3, <1>4, <1>5, <1>6, <1>7, <1>8, <1>9, <1>10, <1>11, <1>12, <1>13, <1>14,
     <1>15, <1>16, <1>17
  DEF CallerContinues, ManagerStep

-------------------------------------------------------------------------------
(* The theorems *)

LEMMA InitSession == Init => SessionInv
<1> SUFFICES ASSUME Init PROVE SessionInv
  OBVIOUS
<1>1. /\ requests = {} /\ lastId = 0
      /\ \A p \in Callers : pc[p] = "idle" /\ replies[p] = NoReply
      /\ \A u \in Urls : cache[u] = NoSession /\ sessions[u] = {} /\ ended[u] = {}
  BY DEF Init, TransportInit, ServerInit, ManagerInit, NoId
<1>2. RequestsAwaited /\ OneRequestEach /\ ProposalsFresh /\ ClosesUnowned
  BY <1>1 DEF RequestsAwaited, OneRequestEach, ProposalsFresh, Proposals, ClosesUnowned, Closes
<1>3. IdsDrawn /\ OneOwner
  BY <1>1
  DEF IdsDrawn, OneOwner, Proposals, Closes, Holds, Cached, NoSession, NoId, SessionIds
<1>4. ManifestTrue /\ HandshakeLive
  BY <1>1 DEF ManifestTrue, HandshakeLive
<1>5. CachedSessionLive /\ EndedStaysEnded
  BY <1>1 DEF CachedSessionLive, EndedStaysEnded, Cached, NoSession
<1>6. QED
  BY <1>2, <1>3, <1>4, <1>5 DEF SessionInv

LEMMA IdleKeeps ==
  ASSUME SessionInv,
         UNCHANGED <<requests, replies, sessions, ended, cache, pc, frame, lastId>>
  PROVE  SessionInv'
<1>1. RequestsAwaited' /\ OneRequestEach' /\ ManifestTrue' /\ EndedStaysEnded'
  BY DEF SessionInv, RequestsAwaited, OneRequestEach, ManifestTrue, Answered, EndedStaysEnded,
         SessionIds
<1>2. IdsDrawn' /\ ProposalsFresh' /\ OneOwner' /\ ClosesUnowned'
  BY DEF SessionInv, IdsDrawn, ProposalsFresh, OneOwner, ClosesUnowned, Proposals, Closes,
         Holds, Held, UsableAt, Cached, SessionIds
<1>3. HandshakeLive' /\ CachedSessionLive'
  BY DEF SessionInv, HandshakeLive, CachedSessionLive, Answered, OpenAt, Held, Cached
<1>4. QED
  BY <1>1, <1>2, <1>3 DEF SessionInv

LEMMA NextSession == TypeOK /\ SessionInv /\ [Next]_vars => SessionInv'
<1> SUFFICES ASSUME TypeOK, SessionInv, [Next]_vars PROVE SessionInv'
  OBVIOUS
<1>1. CASE ClockStep
  BY <1>1, IdleKeeps
  DEF ClockStep, Tick, transportVars, serverVars, clientVars, managerVars
<1>2. CASE Finished \/ UNCHANGED vars
  BY <1>2, IdleKeeps
  DEF Finished, vars, transportVars, serverVars, clientVars, managerVars
<1>3. QED
  BY <1>1, <1>2, ServerStepKeeps, StartStepKeeps, CallerStepKeeps, ConnectionFailsKeeps DEF Next

(* Every session identifier has one place at a time: on its way in, in one *)
(* cache entry, or on its way out.                                          *)
THEOREM SessionInvariant == Spec => []SessionInv
<1>1. Spec => []TypeOK
  BY TypeCorrect
<1>2. QED
  BY <1>1, InitSession, NextSession, PTL DEF Spec

(* Whatever tasks interleave, whatever messages are lost or late: a session *)
(* the client would reuse is open at its delegate, in the mode the client   *)
(* believes.                                                                 *)
THEOREM CachedSessionsAreLive == Spec => []CachedSessionLive
<1>1. SessionInv => CachedSessionLive
  BY DEF SessionInv
<1>2. QED
  BY <1>1, SessionInvariant, PTL

(* No late proposal opens a session again that its delegate has closed. *)
THEOREM EndedSessionsStayEnded == Spec => []EndedStaysEnded
<1>1. SessionInv => EndedStaysEnded
  BY DEF SessionInv
<1>2. QED
  BY <1>1, SessionInvariant, PTL

===============================================================================
