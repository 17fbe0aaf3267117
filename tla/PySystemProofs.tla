---------------------------- MODULE PySystemProofs ----------------------------
(***************************************************************************)
(* Theorems about the Python client and the delegates of both SDKs, for    *)
(* every number of coroutines and delegates, every choice of domains,      *)
(* codecs and secrets, with hooks that raise and connections that fail.    *)
(***************************************************************************)
EXTENDS PyInvariant, LdpTypesProofs, FiniteSetTheorems

USE UrlsNonEmpty, NoConnIsNotACaller, ServerModesAreModes, DeclaredModesAreModes,
    DelegateCodecsAreModes, PyPrefsAreModes, PyCodecsAreModes, PyTtlIsNat, MaxOpsIsNat

-------------------------------------------------------------------------------
(* What TypeOK says, variable by variable *)

WireTypeOK == requests \in SUBSET Exchange /\ replies \in [Callers -> Reply]

ClientTypeOK ==
  /\ held \in SUBSET SessionObject
  /\ current \in [Urls -> Nat]
  /\ pc \in [Callers -> Label]
  /\ frame \in [Callers -> Frame]
  /\ ops \in Nat
  /\ answered \in SUBSET [task_id : Nat, session_id : Nat]

RustTypeOK ==
  /\ sessions \in [Urls -> SUBSET ServerSession]
  /\ tasks \in [Urls -> SUBSET [task_id : Nat, state : TaskRecordState]]
  /\ ended \in [Urls -> SUBSET Nat]

DelegateTypeOK ==
  /\ started \in [Urls -> SUBSET [session_id : Nat, payload_mode : PayloadMode]]
  /\ stopped \in [Urls -> Seq(Nat)]
  /\ ran \in [Urls -> SUBSET [task_id : Nat, raised : BOOLEAN]]

LEMMA TypeParts ==
  TypeOK <=> /\ WireTypeOK /\ ClientTypeOK /\ RustTypeOK /\ DelegateTypeOK
             /\ now \in Nat /\ lastId \in Nat
BY DEF TypeOK, WireTypeOK, ClientTypeOK, RustTypeOK, DelegateTypeOK

LEMMA BlankType == Blank \in Frame
BY DEF Blank, Frame, SomeUrl, NoId, PayloadMode

(* The list the client advertises: modes it has a codec for. *)
LEMMA AdvertisedType == Advertised \in Seq(PayloadMode \cap Codecs(PyCodecs))
BY FilteredMembers DEF Advertised, AdvertisedPrefs

LEMMA AgreedPyType ==
  ASSUME NEW A, NEW prefs \in Seq(A), NEW remote
  PROVE  \/ AgreedModePy(prefs, remote) = "text"
         \/ AgreedModePy(prefs, remote) \in remote \cap A
<1> DEFINE common == {i \in DOMAIN prefs : prefs[i] \in remote}
<1>1. common \in SUBSET Nat
  OBVIOUS
<1>2. CASE common = {}
  BY <1>2 DEF AgreedModePy
<1>3. CASE common # {}
  <2>1. First(common) \in common
    BY <1>1, <1>3, FirstIsLeast
  <2>2. AgreedModePy(prefs, remote) = prefs[First(common)]
    BY <1>3 DEF AgreedModePy
  <2>3. QED
    BY <2>1, <2>2
<1>4. QED
  BY <1>2, <1>3

(* What a message of each type carries. *)
LEMMA MessageFields ==
  ASSUME NEW m \in Message
  PROVE  /\ m.type \in {"hello", "get_identity", "session_propose", "task_submit"}
         /\ m.type = "get_identity" => m.signature = NoSecret
         /\ m.type # "get_identity" => m.signature = PySecret
         /\ m.type = "session_propose" =>
              /\ m.session_id \in Nat /\ m.preferred_payload_modes = Advertised
              /\ m.ttl_secs = PyTtl /\ m.trust_domain = PyDomain.name
              /\ "preferred_payload_modes" \in DOMAIN m
              /\ "payload_mode" \notin DOMAIN m
         /\ m.type = "task_submit" => m.session_id \in Nat /\ m.task_id \in Nat
BY DEF Message

(* What a reply of each type carries. *)
LEMMA ReplyFields ==
  ASSUME NEW x \in Reply
  PROVE  /\ x.type = "session_accept" => x.session_id \in Nat /\ x.negotiated_mode \in PayloadMode
         /\ x.type = "task_result" /\ "payload_mode" \in DOMAIN x => x.payload_mode \in PayloadMode
BY DEF Reply

LEMMA RequestFields ==
  ASSUME WireTypeOK, NEW r \in requests
  PROVE  /\ r.conn \in Callers \cup {NoConn} /\ r.to \in Urls /\ r.msg \in Message
         /\ r.stage \in {"posted", "executed"}
         /\ r = [conn |-> r.conn, to |-> r.to, stage |-> r.stage, msg |-> r.msg]
BY DEF WireTypeOK, Exchange

-------------------------------------------------------------------------------
(* Types of the steps *)

LEMMA PostType ==
  ASSUME WireTypeOK, NEW p \in Callers, NEW u \in Urls, NEW msg \in Message, Post(p, u, msg)
  PROVE  WireTypeOK'
BY DEF WireTypeOK, Post, Request, Exchange, NoReply, Reply

LEMMA ConsumeType ==
  ASSUME WireTypeOK, NEW p \in Callers, Consume(p)
  PROVE  WireTypeOK'
BY DEF WireTypeOK, Consume, NoReply, Reply

LEMMA AnswerType ==
  ASSUME WireTypeOK, NEW r \in requests, NEW reply \in Reply, Answer(r, reply)
  PROVE  WireTypeOK'
BY DEF WireTypeOK, Answer, Exchange

LEMMA AdvanceType ==
  ASSUME WireTypeOK, NEW r \in requests, Advance(r, "executed")
  PROVE  WireTypeOK'
BY DEF WireTypeOK, Advance, Exchange

LEMMA FailType ==
  ASSUME WireTypeOK, NEW p \in Callers, ConnectionFails(p)
  PROVE  WireTypeOK'
BY DEF WireTypeOK, ConnectionFails, Exchange, NoReply, Failure, Reply

LEMMA SuspendType ==
  ASSUME ClientTypeOK, NEW p \in Callers, NEW label \in Label, NEW locals \in Frame,
         Suspend(p, label, locals)
  PROVE  pc' \in [Callers -> Label] /\ frame' \in [Callers -> Frame]
BY DEF ClientTypeOK, Suspend

LEMMA LeaveType ==
  ASSUME ClientTypeOK, NEW p \in Callers, Leave(p)
  PROVE  pc' \in [Callers -> Label] /\ frame' \in [Callers -> Frame]
BY BlankType, SuspendType DEF Leave, Label

-------------------------------------------------------------------------------
(* What a delegate of either SDK does with a request: it answers and keeps  *)
(* nothing; it opens a session; or it runs a task.                          *)

QuietReply(r, reply) ==
  /\ r.msg.type = "session_propose" =>
       reply.type \in {"error", "session_reject"} \cup
                     (IF Verified(r.to) THEN {} ELSE {"task_failed"})
  /\ r.msg.type = "get_identity" =>
       reply.type = "identity" /\ reply.trust_domain = DomainOf(r.to).name
  /\ r.msg.type = "task_submit" =>
       reply.type = "error" \/ ~Verified(r.to) \/ r.stage = "executed"
  /\ reply.type = "task_result" /\ "payload_mode" \in DOMAIN reply =>
       r.to \in RustUrls /\ reply.payload_mode = SessionMode(r.to, r.msg.session_id)

Replies(r) ==
  /\ UNCHANGED <<serverVars, delegateVars, lastId>>
  /\ \E reply \in Reply : QuietReply(r, reply) /\ Answer(r, reply)

OpensRust(r, id, mode) ==
  /\ r.to \in RustUrls
  /\ id = r.msg.session_id
  /\ UNCHANGED <<tasks, delegateVars, lastId>>
  /\ \E s \in ServerSession :
       /\ s.session_id = id /\ s.payload_mode = mode
       /\ sessions' = [sessions EXCEPT ![r.to] = WithoutSession(r.to, id) \cup {s}]

OpensPy(r, id, mode) ==
  /\ r.to \notin RustUrls
  /\ id = lastId + 1 /\ lastId' = id
  /\ UNCHANGED <<serverVars, ran>>
  /\ mode \in Codecs(DelegateCodecs[r.to])
  /\ started' = [started EXCEPT ![r.to] = @ \cup {[session_id |-> id, payload_mode |-> mode]}]

Opens(r) ==
  /\ r.msg.type = "session_propose"
  /\ Trusts(DomainOf(r.to), PyDomain.name)
  /\ \E id \in Nat, mode \in PayloadMode :
       /\ OpensRust(r, id, mode) \/ OpensPy(r, id, mode)
       /\ \/ Answer(r, [type |-> "session_accept", session_id |-> id, negotiated_mode |-> mode])
          \/ Answer(r, Failure)

Runs(r) ==
  /\ r.msg.type = "task_submit"
  /\ UNCHANGED <<sessions, started, lastId>>
  /\ \A u \in Urls \ {r.to} : ran'[u] = ran[u] /\ tasks'[u] = tasks[u]
  /\ RanAt(r.to)' = RanAt(r.to) \cup {r.msg.task_id}
  /\ \/ r.to \in RustUrls /\ Advance(r, "executed")
     \/ \E reply \in Reply : reply.type # "identity" /\ "payload_mode" \notin DOMAIN reply
                             /\ Answer(r, reply)

Serves(r) == Replies(r) \/ Opens(r) \/ Runs(r)

LEMMA SessionModeType ==
  ASSUME RustTypeOK, NEW u \in Urls, NEW id
  PROVE  SessionMode(u, id) \in PayloadMode
<1>1. CASE id \in SessionIds(u)
  <2>1. PICK s \in sessions[u] : s.session_id = id
    BY <1>1 DEF SessionIds
  <2>2. (CHOOSE t \in sessions[u] : t.session_id = id) \in ServerSession
    BY <2>1 DEF RustTypeOK
  <2>3. QED
    BY <1>1, <2>2 DEF SessionMode, ServerSession
<1>2. CASE id \notin SessionIds(u)
  BY <1>2 DEF SessionMode, PayloadMode
<1>3. QED
  BY <1>1, <1>2

LEMMA FailureType == Failure \in Reply /\ Failure.type = "error" /\ "payload_mode" \notin DOMAIN Failure
BY DEF Failure, Reply

(* What the Rust server does with the messages a Python client sends. *)
RustServes(r) == IF r.msg.type = "get_identity" THEN HandleIdentityRequest(r) ELSE HandleMessage(r)

LEMMA RustServed ==
  ASSUME WireTypeOK, RustTypeOK, now \in Nat, ExecutedAreSubmissions,
         NEW r \in requests, r.to \in RustUrls, RustServes(r), UNCHANGED <<delegateVars, lastId>>
  PROVE  Serves(r) /\ WireTypeOK' /\ RustTypeOK'
<1>0. /\ r.to \in Urls /\ r.msg \in Message
      /\ r.msg.type \in {"hello", "get_identity", "session_propose", "task_submit"}
  BY RequestFields, MessageFields
<1>a. ASSUME NEW reply \in Reply, QuietReply(r, reply), Answer(r, reply), UNCHANGED serverVars
      PROVE  Serves(r) /\ WireTypeOK' /\ RustTypeOK'
  <2>1. Replies(r)
    BY <1>a DEF Replies
  <2>2. RustTypeOK'
    BY <1>a DEF serverVars, RustTypeOK
  <2>3. QED
    BY <1>a, <2>1, <2>2, AnswerType DEF Serves
<1>1. CASE Refuse(r) /\ r.msg.type # "get_identity"
  <2>1. QuietReply(r, Failure)
    BY <1>1, FailureType DEF QuietReply
  <2>2. QED
    BY <1>1, <1>a, <2>1, FailureType DEF Refuse
<1>2. CASE HandleHello(r)
  <2> DEFINE reply == [type |-> "capability_manifest", modes |-> ServerModes[r.to]]
  <2>1. reply \in Reply
    BY <1>0 DEF Reply
  <2>2. QuietReply(r, reply)
    BY <1>2 DEF QuietReply, HandleHello, Takes
  <2>3. QED
    BY <1>2, <1>a, <2>1, <2>2 DEF HandleHello
<1>3. CASE RejectSession(r)
  <2> DEFINE reply == [type |-> "session_reject"]
  <2>1. reply \in Reply
    BY DEF Reply
  <2>2. QuietReply(r, reply)
    BY <1>3 DEF QuietReply, RejectSession, Takes
  <2>3. QED
    BY <1>3, <1>a, <2>1, <2>2 DEF RejectSession
<1>4. CASE HandleIdentityRequest(r)
  <2> DEFINE reply == [type |-> "identity", trust_domain |-> ServerDomain[r.to].name]
  <2>1. DomainOf(r.to) = ServerDomain[r.to]
    BY DEF DomainOf
  <2>2. reply \in Reply
    BY <1>0, <2>1 DEF Reply
  <2>3. QuietReply(r, reply)
    BY <1>4, <2>1 DEF QuietReply, HandleIdentityRequest
  <2>4. QED
    BY <1>4, <1>a, <2>2, <2>3 DEF HandleIdentityRequest
<1>5. CASE AcceptSession(r)
  <2> DEFINE id == r.msg.session_id
             mode == ServerNegotiates(r.to, RequestedMode(r.msg))
             session == [session_id |-> id, payload_mode |-> mode, ttl_secs |-> r.msg.ttl_secs,
                         last_used |-> now]
             reply == [type |-> "session_accept", session_id |-> id, negotiated_mode |-> mode]
  <2>1. /\ r.msg.type = "session_propose" /\ Trusts(ServerDomain[r.to], r.msg.trust_domain)
        /\ sessions' = [sessions EXCEPT ![r.to] = WithoutSession(r.to, id) \cup {session}]
        /\ Answer(r, reply) /\ UNCHANGED <<tasks, ended>>
    BY <1>5 DEF AcceptSession, Takes
  <2>2. id \in Nat /\ r.msg.ttl_secs = PyTtl /\ r.msg.trust_domain = PyDomain.name
        /\ "payload_mode" \notin DOMAIN r.msg
    BY <1>0, <2>1, MessageFields
  <2>3. mode \in PayloadMode
    <3>1. RequestedMode(r.msg) = "semantic_frame"
      BY <2>2 DEF RequestedMode
    <3>2. <<"semantic_frame", "text">> \in Seq(PayloadMode)
      BY DEF PayloadMode
    <3>3. QED
      BY <3>1, <3>2, AgreedIsUsable DEF ServerNegotiates
  <2> HIDE DEF mode, id
  <2>4. session \in ServerSession /\ reply \in Reply
    BY <2>2, <2>3 DEF ServerSession, Reply
  <2>5. OpensRust(r, id, mode)
    BY <2>1, <2>4 DEF OpensRust, id
  <2>6. Opens(r)
    BY <2>1, <2>2, <2>3, <2>5 DEF Opens, DomainOf
  <2>7. RustTypeOK'
    BY <1>0, <2>1, <2>4 DEF RustTypeOK, WithoutSession
  <2>8. QED
    BY <2>1, <2>4, <2>6, <2>7, AnswerType DEF Serves
<1>6. CASE RunTask(r)
  <2> DEFINE record == [task_id |-> r.msg.task_id, state |-> "completed"]
  <2>1. /\ r.msg.type = "task_submit" /\ Advance(r, "executed") /\ UNCHANGED <<sessions, ended>>
        /\ tasks' = [tasks EXCEPT ![r.to] = WithoutTask(r.to, r.msg.task_id) \cup {record}]
    BY <1>6 DEF RunTask, Takes
  <2>2. record \in [task_id : Nat, state : TaskRecordState]
    BY <1>0, <2>1, MessageFields DEF TaskRecordState
  <2>3. RustTypeOK'
    BY <1>0, <2>1, <2>2 DEF RustTypeOK, WithoutTask
  <2>a. RanAt(r.to)' = RanAt(r.to) \cup {r.msg.task_id}
    <3>1. tasks'[r.to] = WithoutTask(r.to, r.msg.task_id) \cup {record}
      BY <1>0, <2>1 DEF RustTypeOK
    <3>2. record.task_id = r.msg.task_id
      OBVIOUS
    <3> HIDE DEF record
    <3>3. QED
      BY <3>1, <3>2 DEF RanAt, TaskIds, WithoutTask
  <2>4. Runs(r)
    BY <2>1, <2>a DEF Runs, delegateVars, RustTypeOK
  <2>5. QED
    BY <2>1, <2>3, <2>4, AdvanceType DEF Serves
<1>7. CASE ReturnResult(r)
  <2> DEFINE reply == [type |-> "task_result", task_id |-> r.msg.task_id,
                       payload_mode |-> SessionMode(r.to, r.msg.session_id),
                       mode_used |-> ProvenanceModeUsed]
  <2>1. r.msg.type = "task_submit" /\ r.msg.task_id \in Nat
    BY <1>0, <1>7, MessageFields DEF ReturnResult, ExecutedAreSubmissions
  <2>2. reply \in Reply
    BY <1>0, <2>1, SessionModeType DEF Reply, ProvenanceModeUsed, PayloadMode
  <2>3. QuietReply(r, reply)
    BY <1>7, <2>1 DEF QuietReply, ReturnResult
  <2>4. QED
    BY <1>7, <1>a, <2>2, <2>3 DEF ReturnResult
<1>8. QED
  BY <1>0, <1>1, <1>2, <1>3, <1>4, <1>5, <1>6, <1>7
     DEF RustServes, HandleMessage, HandleSessionClose, HandleTaskStatusQuery, HandleTaskCancel, Takes

(* What the Python delegate does with them. *)
LEMMA DelegateServed ==
  ASSUME WireTypeOK, DelegateTypeOK, RustTypeOK, lastId \in Nat,
         NEW r \in requests, r.to \notin RustUrls, RouteMessage(r), UNCHANGED serverVars
  PROVE  Serves(r) /\ WireTypeOK' /\ DelegateTypeOK' /\ lastId' \in Nat
<1>0. /\ r.to \in Urls /\ r.msg \in Message
      /\ r.msg.type \in {"hello", "get_identity", "session_propose", "task_submit"}
      /\ r.msg.type = "get_identity" => r.msg.signature = NoSecret
      /\ r.msg.type # "get_identity" => r.msg.signature = PySecret
  BY RequestFields, MessageFields
<1>a. ASSUME NEW reply \in Reply, QuietReply(r, reply), Answer(r, reply),
             UNCHANGED <<delegateVars, lastId>>
      PROVE  Serves(r) /\ WireTypeOK' /\ DelegateTypeOK' /\ lastId' \in Nat
  <2>1. Replies(r)
    BY <1>a DEF Replies
  <2>2. DelegateTypeOK'
    BY <1>a DEF delegateVars, DelegateTypeOK
  <2>3. QED
    BY <1>a, <2>1, <2>2, AnswerType DEF Serves
<1>1. CASE RefuseSignature(r)
  <2> DEFINE reply == [type |-> "task_failed"]
  <2>1. reply \in Reply
    BY DEF Reply
  <2>2. r.msg.type # "get_identity" /\ ~Verified(r.to)
    BY <1>0, <1>1 DEF RefuseSignature, BadSignature, Verified
  <2>3. QuietReply(r, reply)
    BY <2>2 DEF QuietReply
  <2>4. QED
    BY <1>1, <1>a, <2>1, <2>3 DEF RefuseSignature
<1>2. CASE ServeIdentity(r)
  <2> DEFINE reply == [type |-> "identity", trust_domain |-> DelegateDomain[r.to].name]
  <2>1. DomainOf(r.to) = DelegateDomain[r.to]
    BY DEF DomainOf
  <2>2. reply \in Reply
    BY <1>0, <2>1 DEF Reply
  <2>3. QuietReply(r, reply)
    BY <1>2, <2>1 DEF QuietReply, ServeIdentity, Routed
  <2>4. QED
    BY <1>2, <1>a, <2>2, <2>3 DEF ServeIdentity
<1>3. CASE AnswerHello(r)
  <2> DEFINE reply == [type |-> "capability_manifest"]
  <2>1. reply \in Reply
    BY DEF Reply
  <2>2. QuietReply(r, reply)
    BY <1>3 DEF QuietReply, AnswerHello, Routed
  <2>3. QED
    BY <1>3, <1>a, <2>1, <2>2 DEF AnswerHello
<1>4. CASE RejectProposal(r)
  <2> DEFINE reply == [type |-> "session_reject"]
  <2>1. reply \in Reply
    BY DEF Reply
  <2>2. QuietReply(r, reply)
    BY <1>4 DEF QuietReply, RejectProposal, Routed
  <2>3. QED
    BY <1>4, <1>a, <2>1, <2>2 DEF RejectProposal
<1>5. CASE AcceptProposal(r)
  <2> DEFINE id == lastId + 1
             mode == AgreedModePy(ProposedModes(r.msg), Offered(r.to))
             session == [session_id |-> id, payload_mode |-> mode]
             reply == [type |-> "session_accept", session_id |-> id, negotiated_mode |-> mode]
  <2>1. /\ r.msg.type = "session_propose" /\ Trusts(DelegateDomain[r.to], r.msg.trust_domain)
        /\ lastId' = id /\ UNCHANGED <<stopped, ran>>
        /\ started' = [started EXCEPT ![r.to] = @ \cup {session}]
        /\ Answer(r, reply) \/ Answer(r, Failure)
    BY <1>5 DEF AcceptProposal, Routed, Draw, NewId
  <2>2. /\ r.msg.preferred_payload_modes = Advertised /\ r.msg.trust_domain = PyDomain.name
        /\ "preferred_payload_modes" \in DOMAIN r.msg
    BY <1>0, <2>1, MessageFields
  <2>3. mode \in PayloadMode /\ mode \in Codecs(DelegateCodecs[r.to])
    <3>1. mode = AgreedModePy(Advertised, Offered(r.to))
      BY <2>2 DEF ProposedModes
    <3>2. mode = "text" \/ mode \in Offered(r.to)
      BY <3>1, AgreedPyType, AdvertisedType
    <3>3. QED
      BY <1>0, <3>2 DEF Offered, Codecs, PayloadMode
  <2> HIDE DEF mode
  <2>4. id \in Nat /\ reply \in Reply /\ session \in [session_id : Nat, payload_mode : PayloadMode]
    BY <2>3 DEF Reply
  <2>5. OpensPy(r, id, mode)
    BY <2>1, <2>3 DEF OpensPy
  <2>6. Opens(r)
    BY <2>1, <2>2, <2>3, <2>4, <2>5 DEF Opens, DomainOf
  <2>7. DelegateTypeOK'
    BY <1>0, <2>1, <2>4 DEF DelegateTypeOK
  <2>8. QED
    BY <2>1, <2>4, <2>6, <2>7, AnswerType, FailureType DEF Serves
<1>6. CASE RunTaskPy(r)
  <2>1. PICK raised \in BOOLEAN :
          /\ ran' = [ran EXCEPT ![r.to] = @ \cup {[task_id |-> r.msg.task_id, raised |-> raised]}]
          /\ Answer(r, [type |-> IF raised THEN "task_failed" ELSE "task_result"])
    BY <1>6 DEF RunTaskPy
  <2> DEFINE reply == [type |-> IF raised THEN "task_failed" ELSE "task_result"]
  <2>2. r.msg.type = "task_submit" /\ UNCHANGED <<started, stopped, lastId>>
    BY <1>6 DEF RunTaskPy, Routed
  <2>3. reply \in Reply /\ reply.type # "identity" /\ "payload_mode" \notin DOMAIN reply
    BY DEF Reply
  <2>a. RanAt(r.to)' = RanAt(r.to) \cup {r.msg.task_id}
    <3> DEFINE run == [task_id |-> r.msg.task_id, raised |-> raised]
    <3>1. ran'[r.to] = ran[r.to] \cup {run} /\ run.task_id = r.msg.task_id
      BY <1>0, <2>1 DEF DelegateTypeOK
    <3> HIDE DEF run
    <3>2. QED
      BY <3>1 DEF RanAt
  <2>4. Runs(r)
    BY <2>1, <2>2, <2>3, <2>a DEF Runs, serverVars, DelegateTypeOK
  <2>5. DelegateTypeOK'
    BY <1>0, <2>1, <2>2, MessageFields DEF DelegateTypeOK
  <2>6. QED
    BY <2>1, <2>2, <2>3, <2>4, <2>5, AnswerType DEF Serves
<1>7. QED
  BY <1>0, <1>1, <1>2, <1>3, <1>4, <1>5, <1>6
     DEF RouteMessage, AnswerCancel, EndSession, AnswerUnknown, RoutedTypes, Routed

-------------------------------------------------------------------------------
(* Types of the client's steps *)

LEMMA FrameFields ==
  ASSUME NEW locals \in Frame
  PROVE  /\ locals.url \in Urls /\ locals.session_id \in Nat /\ locals.task \in Nat
         /\ \A id \in Nat : [locals EXCEPT !.session_id = id] \in Frame
         /\ \A id \in Nat, mode \in PayloadMode :
              [locals EXCEPT !.session_id = id, !.payload_mode = mode] \in Frame
         /\ \A id \in Nat, task \in Nat :
              [locals EXCEPT !.session_id = id, !.task = task] \in Frame
BY DEF Frame

LEMMA BlankFields ==
  ASSUME NEW op \in {"submit", "submit_in", "establish"}, NEW u \in Urls
  PROVE  /\ [Blank EXCEPT !.op = op, !.url = u] \in Frame
         /\ [Blank EXCEPT !.op = op, !.url = u].url = u
         /\ [Blank EXCEPT !.op = op, !.url = u].op = op
BY DEF Blank, Frame, NoId, PayloadMode

LEMMA PostTaskType ==
  ASSUME WireTypeOK, ClientTypeOK, lastId \in Nat, NEW p \in Callers, NEW u \in Urls,
         NEW id \in Nat, NEW locals \in Frame, PostTask(p, u, id, locals)
  PROVE  /\ WireTypeOK' /\ lastId' \in Nat
         /\ pc' \in [Callers -> Label] /\ frame' \in [Callers -> Frame]
<1> DEFINE msg == [type |-> "task_submit", task_id |-> NewId, session_id |-> id,
                   signature |-> PySecret]
<1>1. msg \in Message /\ lastId' \in Nat /\ NewId \in Nat
  BY DEF PostTask, Draw, NewId, Message
<1>2. WireTypeOK'
  BY <1>1, PostType DEF PostTask
<1>3. [locals EXCEPT !.session_id = id, !.task = NewId] \in Frame /\ "submit" \in Label
  BY <1>1, FrameFields DEF Label
<1>4. QED
  BY <1>1, <1>2, <1>3, SuspendType DEF PostTask

LEMMA AcceptedType ==
  ASSUME WireTypeOK, ClientTypeOK, NEW p \in Callers
  PROVE  AcceptedId(p) \in Nat /\ AcceptedMode(p) \in PayloadMode
<1>1. replies[p] \in Reply /\ frame[p] \in Frame
  BY DEF WireTypeOK, ClientTypeOK
<1>2. QED
  BY <1>1, ReplyFields, FrameFields DEF AcceptedId, AcceptedMode, Got, PayloadMode

ClientTypesKept == WireTypeOK' /\ ClientTypeOK' /\ lastId' \in Nat

LEMMA StartsType ==
  ASSUME TypeOK, NEW p \in Callers, CoroutineStarts(p)
  PROVE  ClientTypesKept
<1>0. WireTypeOK /\ ClientTypeOK /\ lastId \in Nat
  BY TypeParts
<1>a. ASSUME NEW u \in Urls, NEW id \in Nat, NEW op \in {"submit", "submit_in"},
             PostTask(p, u, id, [Blank EXCEPT !.op = op, !.url = u]),
             Enter(p), UNCHANGED <<held, current, answered>>
      PROVE  ClientTypesKept
  <2>1. [Blank EXCEPT !.op = op, !.url = u] \in Frame
    BY BlankFields
  <2>2. WireTypeOK' /\ lastId' \in Nat /\ pc' \in [Callers -> Label] /\ frame' \in [Callers -> Frame]
    BY <1>0, <1>a, <2>1, PostTaskType
  <2>3. ops' \in Nat
    BY <1>0, <1>a DEF Enter, ClientTypeOK
  <2>4. QED
    BY <1>0, <1>a, <2>2, <2>3 DEF ClientTypesKept, ClientTypeOK
<1>b. ASSUME NEW u \in Urls, NEW op \in {"submit", "establish"}, PostHello(p, op, u)
      PROVE  ClientTypesKept
  <2>1. [Blank EXCEPT !.op = op, !.url = u] \in Frame /\ "hello" \in Label
    BY BlankFields DEF Label
  <2>2. pc' \in [Callers -> Label] /\ frame' \in [Callers -> Frame]
    BY <1>0, <1>b, <2>1, SuspendType DEF PostHello
  <2>3. [type |-> "hello", signature |-> PySecret] \in Message
    BY DEF Message
  <2>4. WireTypeOK'
    BY <1>0, <1>b, <2>3, PostType DEF PostHello
  <2>5. ops' \in Nat
    BY <1>0, <1>b DEF PostHello, Enter, ClientTypeOK
  <2>6. QED
    BY <1>0, <1>b, <2>2, <2>4, <2>5 DEF PostHello, ClientTypesKept, ClientTypeOK
<1>c. \A s \in held : s.session_id \in Nat /\ s.url \in Urls
  BY <1>0 DEF ClientTypeOK, SessionObject
<1>1. CASE SubmitInCached(p)
  BY <1>1, <1>a, <1>c DEF SubmitInCached
<1>2. CASE SubmitInGiven(p)
  BY <1>2, <1>a, <1>c DEF SubmitInGiven
<1>3. CASE SubmitInNew(p) \/ Establish(p)
  BY <1>3, <1>b DEF SubmitInNew, Establish
<1>4. QED
  BY <1>1, <1>2, <1>3 DEF CoroutineStarts

LEMMA ContinuesType ==
  ASSUME TypeOK, NEW p \in Callers, CoroutineContinues(p)
  PROVE  ClientTypesKept
<1>0. WireTypeOK /\ ClientTypeOK /\ lastId \in Nat /\ now \in Nat
  BY TypeParts
<1>1. frame[p] \in Frame /\ frame[p].url \in Urls /\ frame[p].session_id \in Nat /\ frame[p].task \in Nat
  BY <1>0, FrameFields DEF ClientTypeOK
<1>2. CASE PostProposal(p)
  <2> DEFINE msg == [type |-> "session_propose", session_id |-> NewId,
                     preferred_payload_modes |-> Advertised, ttl_secs |-> PyTtl,
                     trust_domain |-> PyDomain.name, signature |-> PySecret]
  <2>1. NewId \in Nat /\ lastId' \in Nat
    BY <1>0, <1>2 DEF PostProposal, Draw, NewId
  <2>2. msg \in Message
    BY <2>1 DEF Message
  <2>3. WireTypeOK'
    BY <1>0, <1>1, <1>2, <2>2, PostType DEF PostProposal
  <2>4. [frame[p] EXCEPT !.session_id = NewId] \in Frame /\ "propose" \in Label
    BY <1>1, <2>1, FrameFields DEF Label
  <2>5. pc' \in [Callers -> Label] /\ frame' \in [Callers -> Frame]
    BY <1>0, <1>2, <2>4, SuspendType DEF PostProposal
  <2>6. QED
    BY <1>0, <1>2, <2>1, <2>3, <2>5 DEF PostProposal, ClientTypesKept, ClientTypeOK
<1>3. CASE FetchIdentity(p)
  <2>1. [type |-> "get_identity", signature |-> NoSecret] \in Message
    BY DEF Message
  <2>2. WireTypeOK'
    BY <1>0, <1>1, <1>3, <2>1, PostType DEF FetchIdentity
  <2>3. AcceptedId(p) \in Nat /\ AcceptedMode(p) \in PayloadMode
    BY <1>0, AcceptedType
  <2>4. /\ [frame[p] EXCEPT !.session_id = AcceptedId(p), !.payload_mode = AcceptedMode(p)] \in Frame
        /\ "discover" \in Label
    BY <1>1, <2>3, FrameFields DEF Label
  <2>5. pc' \in [Callers -> Label] /\ frame' \in [Callers -> Frame]
    BY <1>0, <1>3, <2>4, SuspendType DEF FetchIdentity
  <2>6. QED
    BY <1>0, <1>3, <2>2, <2>5 DEF FetchIdentity, ClientTypesKept, ClientTypeOK
<1>4. CASE KeepSession(p)
  <2> DEFINE id == frame[p].session_id
             u == frame[p].url
             session == [session_id |-> id, url |-> u, payload_mode |-> frame[p].payload_mode,
                         last_used |-> now, task_count |-> 0]
  <2>1. /\ held' = held \cup {session} /\ current' = [current EXCEPT ![u] = id]
        /\ UNCHANGED <<ops, answered>>
        /\ \/ PostTask(p, u, id, frame[p])
           \/ Leave(p) /\ Consume(p) /\ UNCHANGED lastId
    BY <1>4 DEF KeepSession
  <2>2. session \in SessionObject
    BY <1>0, <1>1 DEF SessionObject, Frame
  <2>3. /\ WireTypeOK' /\ lastId' \in Nat
        /\ pc' \in [Callers -> Label] /\ frame' \in [Callers -> Frame]
    BY <1>0, <1>1, <2>1, PostTaskType, LeaveType, ConsumeType
  <2> HIDE DEF session
  <2>4. held' \in SUBSET SessionObject
    BY <1>0, <2>1, <2>2 DEF ClientTypeOK
  <2>5. current' \in [Urls -> Nat]
    BY <1>0, <1>1, <2>1 DEF ClientTypeOK
  <2>6. QED
    BY <1>0, <2>1, <2>3, <2>4, <2>5 DEF ClientTypesKept, ClientTypeOK
<1>5. CASE HandshakeRaises(p) \/ SubmitRaises(p)
  <2>1. Leave(p) /\ Consume(p) /\ UNCHANGED <<held, current, ops, answered, lastId>>
    BY <1>5 DEF HandshakeRaises, SubmitRaises
  <2>2. QED
    BY <1>0, <2>1, LeaveType, ConsumeType DEF ClientTypesKept, ClientTypeOK
<1>6. CASE ReceiveResult(p)
  <2>1. /\ Leave(p) /\ Consume(p) /\ UNCHANGED <<current, ops, lastId>>
        /\ held' = {IF s.session_id = CountedIn(p) THEN Counted(s) ELSE s : s \in held}
        /\ answered' = answered \cup {[task_id |-> frame[p].task, session_id |-> frame[p].session_id]}
    BY <1>6 DEF ReceiveResult
  <2>2. ASSUME NEW s \in held PROVE Counted(s) \in SessionObject /\ s \in SessionObject
    <3>1. s \in SessionObject
      BY <1>0 DEF ClientTypeOK
    <3>2. Counted(s) = [s EXCEPT !.last_used = now, !.task_count = s.task_count + 1]
      BY DEF Counted
    <3>3. s.task_count + 1 \in Nat
      BY <3>1 DEF SessionObject
    <3>4. QED
      BY <1>0, <3>1, <3>2, <3>3 DEF SessionObject
  <2>3. held' \in SUBSET SessionObject
    BY <2>1, <2>2
  <2>4. answered' \in SUBSET [task_id : Nat, session_id : Nat]
    BY <1>0, <1>1, <2>1 DEF ClientTypeOK
  <2>5. QED
    BY <1>0, <2>1, <2>3, <2>4, LeaveType, ConsumeType DEF ClientTypesKept, ClientTypeOK
<1>7. QED
  BY <1>2, <1>3, <1>4, <1>5, <1>6 DEF CoroutineContinues

-------------------------------------------------------------------------------
(* The steps, sorted by who takes them *)

DelegateServes ==
  /\ UNCHANGED <<clientVars, now>>
  /\ \E r \in requests : Serves(r)

CoroutineRuns(p) ==
  /\ UNCHANGED <<serverVars, delegateVars, now>>
  /\ CoroutineStarts(p) \/ CoroutineContinues(p)

ClockOrNothing == UNCHANGED <<transportVars, lastId, serverVars, delegateVars, clientVars>>

LEMMA StepForms ==
  ASSUME TypeOK, ExecutedAreSubmissions, [Next]_pyVars
  PROVE  /\ \/ DelegateServes
            \/ \E p \in Callers : CoroutineRuns(p) \/ NetworkStep(p)
            \/ ClockOrNothing
         /\ TypeOK'
<1>0. /\ WireTypeOK /\ ClientTypeOK /\ RustTypeOK /\ DelegateTypeOK
      /\ now \in Nat /\ lastId \in Nat
  BY TypeParts
<1>a. UNCHANGED clientVars => ClientTypeOK'
  BY <1>0 DEF clientVars, ClientTypeOK
<1>b. UNCHANGED serverVars => RustTypeOK'
  BY <1>0 DEF serverVars, RustTypeOK
<1>c. UNCHANGED delegateVars => DelegateTypeOK'
  BY <1>0 DEF delegateVars, DelegateTypeOK
<1>d. UNCHANGED transportVars => WireTypeOK'
  BY <1>0 DEF transportVars, WireTypeOK
<1>e. TypeOK' <=> /\ WireTypeOK' /\ ClientTypeOK' /\ RustTypeOK' /\ DelegateTypeOK'
                  /\ now' \in Nat /\ lastId' \in Nat
  BY DEF TypeOK, WireTypeOK, ClientTypeOK, RustTypeOK, DelegateTypeOK
<1>1. ASSUME NEW conn, RustStep(conn) PROVE DelegateServes /\ TypeOK'
  <2>1. PICK r \in requests : r.to \in RustUrls /\ RustServes(r)
    BY <1>1 DEF RustStep, RustServes
  <2>2. UNCHANGED <<delegateVars, clientVars, lastId, now>>
    BY <1>1 DEF RustStep
  <2>3. Serves(r) /\ WireTypeOK' /\ RustTypeOK'
    BY <1>0, <2>1, <2>2, RustServed
  <2>4. DelegateServes
    BY <2>2, <2>3 DEF DelegateServes
  <2>5. QED
    BY <1>0, <1>a, <1>c, <1>e, <2>2, <2>3, <2>4
<1>2. ASSUME NEW conn, DelegateStep(conn) PROVE DelegateServes /\ TypeOK'
  <2>1. PICK r \in requests : r.to \notin RustUrls /\ RouteMessage(r)
    BY <1>2 DEF DelegateStep
  <2>2. UNCHANGED <<serverVars, clientVars, now>>
    BY <1>2 DEF DelegateStep
  <2>3. Serves(r) /\ WireTypeOK' /\ DelegateTypeOK' /\ lastId' \in Nat
    BY <1>0, <2>1, <2>2, DelegateServed
  <2>4. DelegateServes
    BY <2>2, <2>3 DEF DelegateServes
  <2>5. QED
    BY <1>0, <1>a, <1>b, <1>e, <2>2, <2>3, <2>4
<1>3. ASSUME NEW p \in Callers, StartStep(p) \/ CoroutineStep(p)
      PROVE  CoroutineRuns(p) /\ TypeOK'
  <2>1. CoroutineRuns(p)
    BY <1>3 DEF StartStep, CoroutineStep, CoroutineRuns
  <2>2. ClientTypesKept
    BY <1>3, StartsType, ContinuesType DEF StartStep, CoroutineStep
  <2>3. QED
    BY <1>0, <1>b, <1>c, <1>e, <2>1, <2>2 DEF CoroutineRuns, ClientTypesKept
<1>4. ASSUME NEW p \in Callers, NetworkStep(p) PROVE TypeOK'
  <2>1. ConnectionFails(p) /\ UNCHANGED <<serverVars, delegateVars, clientVars, lastId, now>>
    BY <1>4 DEF NetworkStep
  <2>2. WireTypeOK'
    BY <1>0, <2>1, FailType
  <2>3. QED
    BY <1>0, <1>a, <1>b, <1>c, <1>e, <2>1, <2>2
<1>5. CASE ClockStep \/ Finished \/ UNCHANGED pyVars
  <2>1. ClockOrNothing /\ now' \in Nat
    BY <1>0, <1>5 DEF ClockStep, Tick, Finished, pyVars, ClockOrNothing
  <2>2. QED
    BY <1>0, <1>a, <1>b, <1>c, <1>d, <1>e, <2>1 DEF ClockOrNothing
<1>6. QED
  BY <1>1, <1>2, <1>3, <1>4, <1>5 DEF Next

LEMMA InitType == Init => TypeOK
<1> SUFFICES ASSUME Init PROVE TypeOK
  OBVIOUS
<1>1. WireTypeOK
  BY DEF Init, TransportInit, WireTypeOK, NoReply, Reply
<1>2. ClientTypeOK
  BY BlankType DEF Init, ClientInit, ClientTypeOK, Label, NoId
<1>3. RustTypeOK /\ DelegateTypeOK
  BY DEF Init, ServerInit, DelegateInit, RustTypeOK, DelegateTypeOK
<1>4. QED
  BY <1>1, <1>2, <1>3, TypeParts DEF Init, TransportInit, UuidsInit, NoId

-------------------------------------------------------------------------------
(* Requests and their coroutines *)

NoneOut(p) == \A r \in requests : r.conn # p

(* p posts msg and awaits the reply under `label`. *)
Sends(p, u, msg, label, locals) ==
  /\ Post(p, u, msg) /\ Suspend(p, label, locals)
  /\ u \in Urls /\ msg \in Message /\ locals \in Frame
  /\ label = AwaitOf[msg.type] /\ locals.url = u
  /\ msg.type \in {"session_propose", "task_submit"} => msg.session_id = locals.session_id
  /\ msg.type = "task_submit" => msg.task_id = locals.task

Rests(p) == Leave(p) /\ Consume(p)

LEMMA SuspendFields ==
  ASSUME ClientTypeOK, NEW p \in Callers, NEW label, NEW locals, Suspend(p, label, locals)
  PROVE  /\ pc'[p] = label /\ frame'[p] = locals
         /\ \A q \in Callers \ {p} : pc'[q] = pc[q] /\ frame'[q] = frame[q]
BY DEF ClientTypeOK, Suspend

LEMMA PostFields ==
  ASSUME WireTypeOK, NEW p \in Callers, NEW u, NEW msg, Post(p, u, msg)
  PROVE  /\ requests' = requests \cup {Request(p, u, msg)}
         /\ Request(p, u, msg).conn = p /\ Request(p, u, msg).to = u
         /\ Request(p, u, msg).msg = msg /\ Request(p, u, msg).stage = "posted"
         /\ replies'[p] = NoReply /\ NoReply.type = "none"
         /\ \A q \in Callers \ {p} : replies'[q] = replies[q]
BY DEF WireTypeOK, Post, Request, NoReply

LEMMA RestFields ==
  ASSUME WireTypeOK, ClientTypeOK, NEW p \in Callers, Rests(p)
  PROVE  /\ UNCHANGED requests
         /\ replies'[p] = NoReply /\ pc'[p] = "idle"
         /\ \A q \in Callers \ {p} : /\ replies'[q] = replies[q]
                                    /\ pc'[q] = pc[q] /\ frame'[q] = frame[q]
BY SuspendFields DEF WireTypeOK, Rests, Leave, Consume

LEMMA AnswerFields ==
  ASSUME WireTypeOK, NEW r \in requests, NEW reply, Answer(r, reply)
  PROVE  /\ requests' = requests \ {r}
         /\ \A q \in Callers : replies'[q] = IF q = r.conn THEN reply ELSE replies[q]
BY DEF WireTypeOK, Answer, Exchange

LEMMA AdvanceFields ==
  ASSUME WireTypeOK, NEW r \in requests, Advance(r, "executed")
  PROVE  /\ UNCHANGED replies
         /\ \E q : /\ requests' = (requests \ {r}) \cup {q}
                  /\ q.conn = r.conn /\ q.to = r.to /\ q.msg = r.msg /\ q.stage = "executed"
<1> DEFINE q == [r EXCEPT !.stage = "executed"]
<1>1. q.conn = r.conn /\ q.to = r.to /\ q.msg = r.msg /\ q.stage = "executed"
  BY DEF WireTypeOK, Exchange
<1>2. UNCHANGED replies /\ requests' = (requests \ {r}) \cup {q}
  BY DEF Advance
<1> HIDE DEF q
<1>3. QED
  BY <1>1, <1>2

(* p's reply becomes an error; a request of p's is gone, or detached. *)
LEMMA FailFields ==
  ASSUME WireTypeOK, NEW p \in Callers, ConnectionFails(p)
  PROVE  /\ replies'[p] = Failure /\ Failure.type = "error"
         /\ \A q \in Callers \ {p} : replies'[q] = replies[q]
         /\ \/ \E r \in requests : r.conn = p /\ requests' = requests \ {r}
            \/ \E r \in requests : \E q :
                 /\ r.conn = p /\ requests' = (requests \ {r}) \cup {q}
                 /\ q.conn = NoConn /\ q.to = r.to /\ q.msg = r.msg /\ q.stage = r.stage
            \/ UNCHANGED requests /\ replies[p].type \notin {"none", "error"}
<1>1. /\ replies'[p] = Failure /\ Failure.type = "error"
      /\ \A q \in Callers \ {p} : replies'[q] = replies[q]
  BY DEF WireTypeOK, ConnectionFails, Failure
<1>2. CASE \E r \in requests :
             /\ r.conn = p
             /\ \/ r.stage = "posted" /\ requests' = requests \ {r}
                \/ requests' = (requests \ {r}) \cup {[r EXCEPT !.conn = NoConn]}
  <2>1. PICK r \in requests :
             /\ r.conn = p
             /\ \/ requests' = requests \ {r}
                \/ requests' = (requests \ {r}) \cup {[r EXCEPT !.conn = NoConn]}
    BY <1>2
  <2> DEFINE q == [r EXCEPT !.conn = NoConn]
  <2>2. q.conn = NoConn /\ q.to = r.to /\ q.msg = r.msg /\ q.stage = r.stage
    BY DEF WireTypeOK, Exchange
  <2> HIDE DEF q
  <2>3. requests' = requests \ {r} \/ requests' = (requests \ {r}) \cup {q}
    BY <2>1 DEF q
  <2>4. QED
    BY <1>1, <2>1, <2>2, <2>3
<1>3. CASE replies[p] \notin {NoReply, Failure} /\ UNCHANGED requests
  <2>1. replies[p] \in Reply
    BY DEF WireTypeOK
  <2>2. replies[p].type \notin {"none", "error"}
    BY <1>3, <2>1 DEF Reply, NoReply, Failure
  <2>3. QED
    BY <1>1, <1>3, <2>2
<1>4. QED
  BY <1>2, <1>3 DEF ConnectionFails

LEMMA AwaitOfMessage ==
  ASSUME NEW m \in Message
  PROVE  /\ AwaitOf[m.type] \in {"hello", "propose", "discover", "submit"}
         /\ m.type = "hello" <=> AwaitOf[m.type] = "hello"
         /\ m.type = "session_propose" <=> AwaitOf[m.type] = "propose"
         /\ m.type = "get_identity" <=> AwaitOf[m.type] = "discover"
         /\ m.type = "task_submit" <=> AwaitOf[m.type] = "submit"
<1>1. m.type \in {"hello", "get_identity", "session_propose", "task_submit"}
  BY MessageFields
<1>2. QED
  BY <1>1 DEF AwaitOf

LEMMA NothingOut ==
  ASSUME TypeOK, WireInv, NEW p \in Callers, pc[p] = "idle" \/ replies[p].type # "none"
  PROVE  NoneOut(p)
<1> SUFFICES ASSUME NEW r \in requests, r.conn = p PROVE FALSE
  BY DEF NoneOut
<1>1. pc[p] = AwaitOf[r.msg.type] /\ replies[p] = NoReply
  BY DEF WireInv, RequestsAwaited
<1>2. r.msg \in Message
  BY TypeParts, RequestFields
<1>3. QED
  BY <1>1, <1>2, AwaitOfMessage DEF NoReply

(* Every step of a coroutine ends in a request, or in rest. *)
LEMMA PostTaskSends ==
  ASSUME lastId \in Nat, NEW p \in Callers, NEW u \in Urls, NEW id \in Nat,
         NEW locals \in Frame, locals.url = u, PostTask(p, u, id, locals)
  PROVE  \E msg, after :
           /\ Sends(p, u, msg, "submit", after) /\ msg.type = "task_submit"
           /\ after.session_id = id /\ after.task = NewId /\ after.op = locals.op
<1> DEFINE msg == [type |-> "task_submit", task_id |-> NewId, session_id |-> id,
                   signature |-> PySecret]
           after == [locals EXCEPT !.session_id = id, !.task = NewId]
<1>1. NewId \in Nat
  BY DEF NewId
<1>2. msg \in Message
  BY <1>1 DEF Message
<1>3. after \in Frame
  BY <1>1, FrameFields
<1>4. after.url = u /\ after.session_id = id /\ after.task = NewId /\ after.op = locals.op
  BY DEF Frame
<1>5. Post(p, u, msg) /\ Suspend(p, "submit", after)
  BY DEF PostTask
<1>6. "submit" = AwaitOf[msg.type]
  BY DEF AwaitOf
<1>7. msg.session_id = after.session_id /\ msg.task_id = after.task /\ msg.type = "task_submit"
  BY <1>4
<1> HIDE DEF msg, after
<1>8. Sends(p, u, msg, "submit", after)
  BY <1>2, <1>3, <1>4, <1>5, <1>6, <1>7 DEF Sends
<1>9. QED
  BY <1>4, <1>7, <1>8

LEMMA PostHelloSends ==
  ASSUME NEW p \in Callers, NEW u \in Urls, NEW op \in {"submit", "establish"},
         PostHello(p, op, u)
  PROVE  \E msg, locals : Sends(p, u, msg, "hello", locals) /\ msg.type = "hello"
<1> DEFINE msg == [type |-> "hello", signature |-> PySecret]
           locals == [Blank EXCEPT !.op = op, !.url = u]
<1>1. msg \in Message /\ msg.type = "hello" /\ "hello" = AwaitOf[msg.type]
  BY DEF Message, AwaitOf
<1>2. locals \in Frame /\ locals.url = u
  BY BlankFields
<1>3. Post(p, u, msg) /\ Suspend(p, "hello", locals)
  BY DEF PostHello
<1> HIDE DEF msg, locals
<1>4. QED
  BY <1>1, <1>2, <1>3 DEF Sends

LEMMA PostProposalSends ==
  ASSUME TypeOK, NEW p \in Callers, PostProposal(p)
  PROVE  \E msg : /\ Sends(p, frame[p].url, msg, "propose", [frame[p] EXCEPT !.session_id = NewId])
                 /\ msg.type = "session_propose" /\ msg.session_id = NewId
<1> DEFINE msg == [type |-> "session_propose", session_id |-> NewId,
                   preferred_payload_modes |-> Advertised, ttl_secs |-> PyTtl,
                   trust_domain |-> PyDomain.name, signature |-> PySecret]
           locals == [frame[p] EXCEPT !.session_id = NewId]
<1>1. NewId \in Nat
  BY DEF NewId, TypeOK
<1>2. msg \in Message /\ msg.type = "session_propose" /\ "propose" = AwaitOf[msg.type]
  BY <1>1 DEF Message, AwaitOf
<1>3. frame[p] \in Frame
  BY DEF TypeOK
<1>4. locals \in Frame /\ locals.url = frame[p].url /\ locals.session_id = NewId /\ frame[p].url \in Urls
  BY <1>1, <1>3, FrameFields DEF Frame
<1>5. Post(p, frame[p].url, msg) /\ Suspend(p, "propose", locals)
  BY DEF PostProposal
<1>6. msg.session_id = NewId
  OBVIOUS
<1> HIDE DEF msg, locals
<1>7. QED
  BY <1>2, <1>4, <1>5, <1>6 DEF Sends, locals

LEMMA FetchIdentitySends ==
  ASSUME TypeOK, NEW p \in Callers, FetchIdentity(p)
  PROVE  \E msg : /\ Sends(p, frame[p].url, msg, "discover",
                          [frame[p] EXCEPT !.session_id = AcceptedId(p),
                                           !.payload_mode = AcceptedMode(p)])
                 /\ msg.type = "get_identity"
<1> DEFINE msg == [type |-> "get_identity", signature |-> NoSecret]
           locals == [frame[p] EXCEPT !.session_id = AcceptedId(p),
                                      !.payload_mode = AcceptedMode(p)]
<1>1. msg \in Message /\ msg.type = "get_identity" /\ "discover" = AwaitOf[msg.type]
  BY DEF Message, AwaitOf
<1>2. frame[p] \in Frame /\ AcceptedId(p) \in Nat /\ AcceptedMode(p) \in PayloadMode
  BY TypeParts, AcceptedType DEF ClientTypeOK
<1>3. locals \in Frame /\ locals.url = frame[p].url /\ frame[p].url \in Urls
  BY <1>2, FrameFields DEF Frame
<1>4. Post(p, frame[p].url, msg) /\ Suspend(p, "discover", locals)
  BY DEF FetchIdentity
<1> HIDE DEF msg, locals
<1>5. QED
  BY <1>1, <1>3, <1>4 DEF Sends, locals

LEMMA KeepSessionSends ==
  ASSUME TypeOK, NEW p \in Callers, KeepSession(p)
  PROVE  \/ \E msg, after :
              /\ Sends(p, frame[p].url, msg, "submit", after) /\ msg.type = "task_submit"
              /\ after.session_id = frame[p].session_id /\ after.task = NewId
              /\ after.op = frame[p].op /\ lastId' = NewId
         \/ Rests(p) /\ lastId' = lastId
<1>1. CASE PostTask(p, frame[p].url, frame[p].session_id, frame[p])
  <2>1. frame[p] \in Frame /\ lastId \in Nat
    BY DEF TypeOK
  <2>2. frame[p].url \in Urls /\ frame[p].session_id \in Nat
    BY <2>1 DEF Frame
  <2>3. lastId' = NewId
    BY <1>1 DEF PostTask, Draw
  <2>4. QED
    BY <1>1, <2>1, <2>2, <2>3, PostTaskSends
<1>2. CASE Rests(p) /\ lastId' = lastId
  BY <1>2
<1>3. QED
  BY <1>1, <1>2 DEF KeepSession, Rests

(* Every other step of a coroutine. *)
LEMMA StepSends ==
  ASSUME TypeOK, WireInv, NEW p \in Callers, CoroutineRuns(p)
  PROVE  /\ NoneOut(p)
         /\ \/ \E u, msg, label, locals : Sends(p, u, msg, label, locals)
            \/ Rests(p)
<1>0. lastId \in Nat /\ \A s \in held : s.session_id \in Nat /\ s.url \in Urls
  BY DEF TypeOK, SessionObject
<1>1. CASE SubmitInCached(p) \/ SubmitInGiven(p)
  <2>1. PICK u \in Urls, id \in Nat, op \in {"submit", "submit_in"} :
           PostTask(p, u, id, [Blank EXCEPT !.op = op, !.url = u]) /\ pc[p] = "idle"
    BY <1>0, <1>1 DEF SubmitInCached, SubmitInGiven, Enter
  <2>2. \E u2, msg, label, locals : Sends(p, u2, msg, label, locals)
    <3> DEFINE locals == [Blank EXCEPT !.op = op, !.url = u]
    <3>1. locals \in Frame /\ locals.url = u
      BY BlankFields
    <3>2. PostTask(p, u, id, locals)
      BY <2>1
    <3> HIDE DEF locals
    <3>3. QED
      BY <1>0, <3>1, <3>2, PostTaskSends
  <2>3. QED
    BY <2>1, <2>2, NothingOut
<1>2. CASE SubmitInNew(p) \/ Establish(p)
  <2>1. PICK u \in Urls, op \in {"submit", "establish"} : PostHello(p, op, u)
    BY <1>2 DEF SubmitInNew, Establish
  <2>2. pc[p] = "idle"
    BY <2>1 DEF PostHello, Enter
  <2>3. QED
    BY <2>1, <2>2, PostHelloSends, NothingOut
<1>3. CASE CoroutineContinues(p)
  <2>1. replies[p].type # "none"
    BY <1>3 DEF CoroutineContinues, PostProposal, FetchIdentity, KeepSession, HandshakeRaises,
                ReceiveResult, SubmitRaises, Replied, Got
  <2>2. (\E u, msg, label, locals : Sends(p, u, msg, label, locals)) \/ Rests(p)
    BY <1>3, PostProposalSends, FetchIdentitySends, KeepSessionSends
       DEF CoroutineContinues, HandshakeRaises, ReceiveResult, SubmitRaises, Rests
  <2>3. QED
    BY <2>1, <2>2, NothingOut
<1>4. QED
  BY <1>1, <1>2, <1>3 DEF CoroutineRuns, CoroutineStarts

LEMMA NextWire ==
  ASSUME TypeOK, WireInv, [Next]_pyVars
  PROVE  WireInv'
<1>0. /\ WireTypeOK /\ ClientTypeOK
      /\ RequestsAwaited /\ OneRequestEach /\ ExecutedAreSubmissions /\ LocalsSent
  BY TypeParts DEF WireInv
<1>1. ASSUME NEW p \in Callers, CoroutineRuns(p) PROVE WireInv'
  <2>1. NoneOut(p)
    BY <1>1, StepSends
  <2>2. CASE \E u, msg, label, locals : Sends(p, u, msg, label, locals)
    <3>1. PICK u, msg, label, locals : Sends(p, u, msg, label, locals)
      BY <2>2
    <3>2. /\ pc'[p] = label /\ frame'[p] = locals /\ replies'[p] = NoReply
          /\ \A q \in Callers \ {p} :
               replies'[q] = replies[q] /\ pc'[q] = pc[q] /\ frame'[q] = frame[q]
      BY <1>0, <3>1, SuspendFields, PostFields DEF Sends
    <3> DEFINE q == Request(p, u, msg)
    <3>3. requests' = requests \cup {q} /\ q.conn = p /\ q.to = u /\ q.msg = msg /\ q.stage = "posted"
      BY <1>0, <3>1, PostFields DEF Sends
    <3> HIDE DEF q
    <3>4. \A r \in requests : r.conn # p /\ (r.conn # NoConn => r.conn \in Callers \ {p})
      BY <1>0, <2>1, RequestFields DEF NoneOut
    <3>5. RequestsAwaited'
      BY <1>0, <3>1, <3>2, <3>3, <3>4 DEF RequestsAwaited, Sends
    <3>6. OneRequestEach'
      BY <1>0, <3>3, <3>4 DEF OneRequestEach
    <3>7. ExecutedAreSubmissions'
      BY <1>0, <3>3 DEF ExecutedAreSubmissions
    <3>8. LocalsSent'
      BY <1>0, <3>1, <3>2, <3>3, <3>4 DEF LocalsSent, Sends
    <3>9. QED
      BY <3>5, <3>6, <3>7, <3>8 DEF WireInv
  <2>3. CASE Rests(p)
    <3>1. /\ UNCHANGED requests
          /\ \A q \in Callers \ {p} :
               replies'[q] = replies[q] /\ pc'[q] = pc[q] /\ frame'[q] = frame[q]
      BY <1>0, <2>3, RestFields
    <3>2. \A r \in requests : r.conn # NoConn => r.conn \in Callers \ {p}
      BY <1>0, <2>1, RequestFields DEF NoneOut
    <3>3. QED
      BY <1>0, <3>1, <3>2
         DEF WireInv, RequestsAwaited, OneRequestEach, ExecutedAreSubmissions, LocalsSent
  <2>4. QED
    BY <1>1, <2>2, <2>3, StepSends
<1>2. ASSUME NEW p \in Callers, NetworkStep(p) PROVE WireInv'
  <2>1. UNCHANGED <<pc, frame>> /\ ConnectionFails(p)
    BY <1>2 DEF NetworkStep, clientVars
  <2>2. \A q \in Callers \ {p} : replies'[q] = replies[q]
    BY <1>0, <2>1, FailFields
  <2>3. CASE \E r \in requests : r.conn = p /\ requests' = requests \ {r}
    <3>1. PICK r \in requests : r.conn = p /\ requests' = requests \ {r}
      BY <2>3
    <3>2. \A q \in requests' : q.conn # p /\ (q.conn # NoConn => q.conn \in Callers \ {p})
      BY <1>0, <3>1, RequestFields DEF OneRequestEach
    <3>3. QED
      BY <1>0, <2>1, <2>2, <3>1, <3>2
         DEF WireInv, RequestsAwaited, OneRequestEach, ExecutedAreSubmissions, LocalsSent
  <2>4. CASE \E r \in requests : \E q :
               /\ r.conn = p /\ requests' = (requests \ {r}) \cup {q}
               /\ q.conn = NoConn /\ q.to = r.to /\ q.msg = r.msg /\ q.stage = r.stage
    <3>a. PICK r \in requests : \E q :
               /\ r.conn = p /\ requests' = (requests \ {r}) \cup {q}
               /\ q.conn = NoConn /\ q.to = r.to /\ q.msg = r.msg /\ q.stage = r.stage
      BY <2>4
    <3>1. PICK q :
               /\ r.conn = p /\ requests' = (requests \ {r}) \cup {q}
               /\ q.conn = NoConn /\ q.to = r.to /\ q.msg = r.msg /\ q.stage = r.stage
      BY <3>a
    <3>2. \A t \in requests' : t.conn # NoConn => t \in requests /\ t.conn \in Callers \ {p}
      BY <1>0, <3>1, RequestFields DEF OneRequestEach
    <3>3. QED
      BY <1>0, <2>1, <2>2, <3>1, <3>2
         DEF WireInv, RequestsAwaited, OneRequestEach, ExecutedAreSubmissions, LocalsSent
  <2>5. CASE UNCHANGED requests /\ replies[p].type \notin {"none", "error"}
    <3>1. \A r \in requests : r.conn # p
      BY <2>5, NothingOut DEF NoneOut
    <3>2. \A q \in requests : q.conn # NoConn => q.conn \in Callers \ {p}
      BY <1>0, <3>1, RequestFields
    <3>3. QED
      BY <1>0, <2>1, <2>2, <2>5, <3>2
         DEF WireInv, RequestsAwaited, OneRequestEach, ExecutedAreSubmissions, LocalsSent
  <2>6. QED
    BY <1>0, <2>1, <2>3, <2>4, <2>5, FailFields
<1>3. ASSUME DelegateServes PROVE WireInv'
  <2>1. PICK r \in requests : Serves(r)
    BY <1>3 DEF DelegateServes
  <2>2. UNCHANGED <<pc, frame>>
    BY <1>3 DEF DelegateServes, clientVars
  <2>3. CASE \E reply : Answer(r, reply)
    <3>1. PICK reply : Answer(r, reply)
      BY <2>3
    <3>2. /\ requests' = requests \ {r}
          /\ \A q \in Callers : replies'[q] = IF q = r.conn THEN reply ELSE replies[q]
      BY <1>0, <3>1, AnswerFields
    <3>3. \A q \in requests' : q.conn # NoConn => q.conn # r.conn /\ q.conn \in Callers
      BY <1>0, <3>2, RequestFields DEF OneRequestEach
    <3>4. QED
      BY <1>0, <2>2, <3>2, <3>3
         DEF WireInv, RequestsAwaited, OneRequestEach, ExecutedAreSubmissions, LocalsSent
  <2>4. CASE r.msg.type = "task_submit" /\ r.to \in RustUrls /\ Advance(r, "executed")
    <3>1. PICK q : /\ requests' = (requests \ {r}) \cup {q} /\ UNCHANGED replies
                   /\ q.conn = r.conn /\ q.to = r.to /\ q.msg = r.msg /\ q.stage = "executed"
      BY <1>0, <2>4, AdvanceFields
    <3>2. QED
      BY <1>0, <2>2, <2>4, <3>1
         DEF WireInv, RequestsAwaited, OneRequestEach, ExecutedAreSubmissions, LocalsSent
  <2>5. QED
    BY <2>1, <2>3, <2>4 DEF Serves, Replies, Opens, Runs
<1>4. CASE ClockOrNothing
  BY <1>0, <1>4 DEF ClockOrNothing, transportVars, clientVars, WireInv, RequestsAwaited,
                    OneRequestEach, ExecutedAreSubmissions, LocalsSent
<1>5. QED
  BY <1>0, <1>1, <1>2, <1>3, <1>4, StepForms

-------------------------------------------------------------------------------
(* What the steps of a coroutine p do, field by field *)

Others(p) ==
  \A q \in Callers \ {p} : replies'[q] = replies[q] /\ pc'[q] = pc[q] /\ frame'[q] = frame[q]

Posted(p, type, u) ==
  /\ replies'[p].type = "none"
  /\ \E r : /\ requests' = requests \cup {r}
            /\ r.msg.type = type /\ r.to = u /\ r.stage = "posted"

TaskSent(p, id, u) ==
  /\ Posted(p, "task_submit", u)
  /\ pc'[p] = "submit" /\ lastId' = NewId
  /\ frame'[p].session_id = id /\ frame'[p].url = u /\ frame'[p].task = NewId

Quits(p) == pc'[p] = "idle" /\ replies'[p].type = "none" /\ UNCHANGED requests

SubmittedIn(p, s) ==
  /\ pc[p] = "idle" /\ TaskSent(p, s.session_id, s.url)
  /\ UNCHANGED <<held, current, answered>>

Greeted(p) ==
  /\ \E u \in Urls : Posted(p, "hello", u)
  /\ pc'[p] = "hello" /\ UNCHANGED <<held, current, answered, lastId>>

Proposed(p) ==
  /\ pc[p] = "hello" /\ pc'[p] = "propose"
  /\ replies'[p].type = "none" /\ lastId' = NewId
  /\ frame'[p].session_id = NewId /\ frame'[p].url = frame[p].url
  /\ \E r : /\ requests' = requests \cup {r}
            /\ r.msg.type = "session_propose" /\ r.msg.session_id = NewId
            /\ r.stage = "posted"
  /\ UNCHANGED <<held, current, answered>>

AskedIdentity(p) ==
  /\ pc[p] = "propose" /\ pc'[p] = "discover"
  /\ Replied(p) /\ Acceptable(p)
  /\ Posted(p, "get_identity", frame[p].url)
  /\ frame'[p].session_id = AcceptedId(p) /\ frame'[p].payload_mode = AcceptedMode(p)
  /\ frame'[p].url = frame[p].url
  /\ UNCHANGED <<held, current, answered, lastId>>

NewSession(p) ==
  [session_id |-> frame[p].session_id, url |-> frame[p].url,
   payload_mode |-> frame[p].payload_mode, last_used |-> now, task_count |-> 0]

Kept(p) ==
  /\ pc[p] = "discover" /\ Replied(p) /\ Acceptable(p)
  /\ held' = held \cup {NewSession(p)}
  /\ current' = [current EXCEPT ![frame[p].url] = frame[p].session_id]
  /\ \/ TaskSent(p, frame[p].session_id, frame[p].url)
     \/ Quits(p) /\ UNCHANGED lastId
  /\ UNCHANGED answered

Raised(p) == Quits(p) /\ UNCHANGED <<held, current, answered, lastId>>

Received(p) ==
  /\ pc[p] = "submit" /\ Replied(p) /\ ~Got(p, "error") /\ Quits(p)
  /\ held' = {IF s.session_id = frame[p].session_id THEN Counted(s) ELSE s : s \in held}
  /\ answered' = answered \cup {[task_id |-> frame[p].task, session_id |-> frame[p].session_id]}
  /\ UNCHANGED <<current, lastId>>

LEMMA SendsFields ==
  ASSUME TypeOK, NEW p \in Callers, NEW u, NEW msg, NEW label, NEW locals,
         Sends(p, u, msg, label, locals)
  PROVE  /\ Others(p) /\ replies'[p].type = "none"
         /\ pc'[p] = label /\ frame'[p] = locals /\ locals.url = u
         /\ \E r : /\ requests' = requests \cup {r}
                  /\ r.msg = msg /\ r.to = u /\ r.stage = "posted"
<1>1. WireTypeOK /\ ClientTypeOK
  BY TypeParts
<1>2. Post(p, u, msg) /\ Suspend(p, label, locals) /\ u \in Urls /\ msg \in Message /\ locals.url = u
  BY DEF Sends
<1> DEFINE r == Request(p, u, msg)
<1>3. requests' = requests \cup {r} /\ r.msg = msg /\ r.to = u /\ r.stage = "posted"
  BY <1>1, <1>2, PostFields
<1> HIDE DEF r
<1>4. QED
  BY <1>1, <1>2, <1>3, SuspendFields, PostFields DEF Others

(* The session SubmitInCached finds under a URL is with the delegate there. *)
LEMMA CachedIsAtUrl ==
  ASSUME TypeOK, IdentityInv, NEW u \in Urls, NEW s \in held, s.session_id = current[u]
  PROVE  s.url = u
<1>1. s.session_id \in HeldIds
  BY DEF HeldIds
<1>2. current[u] # NoId
  BY <1>1 DEF IdentityInv, IdsDrawn, NoId, TypeOK
<1>3. PICK t \in held : t.session_id = current[u] /\ t.url = u
  BY <1>2 DEF IdentityInv, CurrentHeld
<1>4. QED
  BY <1>3 DEF IdentityInv, OneOwner

LEMMA TaskIsSent ==
  ASSUME TypeOK, NEW p \in Callers, NEW u \in Urls, NEW id \in Nat,
         NEW locals \in Frame, locals.url = u, PostTask(p, u, id, locals)
  PROVE  Others(p) /\ TaskSent(p, id, u)
<1>1. lastId \in Nat /\ lastId' = NewId
  BY DEF TypeOK, PostTask, Draw
<1>2. PICK msg, after :
        /\ Sends(p, u, msg, "submit", after) /\ msg.type = "task_submit"
        /\ after.session_id = id /\ after.task = NewId
  BY <1>1, PostTaskSends
<1>3. QED
  BY <1>1, <1>2, SendsFields DEF TaskSent, Posted

LEMMA CoroutineForms ==
  ASSUME TypeOK, IdentityInv, NEW p \in Callers, CoroutineRuns(p)
  PROVE  /\ Others(p)
         /\ \/ \E s \in held : SubmittedIn(p, s)
            \/ Greeted(p) \/ Proposed(p) \/ AskedIdentity(p) \/ Kept(p) \/ Raised(p) \/ Received(p)
<1>0. /\ WireTypeOK /\ ClientTypeOK /\ lastId \in Nat
      /\ \A s \in held : s.session_id \in Nat /\ s.url \in Urls
  BY TypeParts DEF TypeOK, SessionObject
<1>f. frame[p] \in Frame /\ frame[p].url \in Urls /\ frame[p].session_id \in Nat
  BY <1>0, FrameFields DEF ClientTypeOK
<1>q. ASSUME Leave(p), Consume(p) PROVE Others(p) /\ Quits(p)
  BY <1>0, <1>q, RestFields DEF Rests, Others, Quits, NoReply
<1>1. CASE SubmitInCached(p) \/ SubmitInGiven(p)
  <2>1. PICK s \in held, op \in {"submit", "submit_in"} :
           PostTask(p, s.url, s.session_id, [Blank EXCEPT !.op = op, !.url = s.url]) /\ pc[p] = "idle"
    BY <1>1, CachedIsAtUrl DEF SubmitInCached, SubmitInGiven, Enter
  <2>2. UNCHANGED <<held, current, answered>>
    BY <1>1 DEF SubmitInCached, SubmitInGiven
  <2>3. PICK u \in Urls, id \in Nat : u = s.url /\ id = s.session_id
    BY <1>0
  <2> DEFINE locals == [Blank EXCEPT !.op = op, !.url = u]
  <2>4. locals \in Frame /\ locals.url = u
    BY BlankFields
  <2>5. PostTask(p, u, id, locals)
    BY <2>1, <2>3
  <2> HIDE DEF locals
  <2>6. Others(p) /\ TaskSent(p, id, u)
    BY <2>4, <2>5, TaskIsSent
  <2>7. QED
    BY <2>1, <2>2, <2>3, <2>6 DEF SubmittedIn
<1>2. CASE SubmitInNew(p) \/ Establish(p)
  <2>1. PICK u \in Urls, op \in {"submit", "establish"} : PostHello(p, op, u)
    BY <1>2 DEF SubmitInNew, Establish
  <2>2. PICK msg, locals : Sends(p, u, msg, "hello", locals) /\ msg.type = "hello"
    BY <2>1, PostHelloSends
  <2>3. UNCHANGED <<held, current, answered, lastId>>
    BY <2>1 DEF PostHello
  <2>4. QED
    BY <2>2, <2>3, SendsFields DEF Greeted, Posted
<1>3. CASE PostProposal(p)
  <2> DEFINE locals == [frame[p] EXCEPT !.session_id = NewId]
  <2>1. PICK msg : /\ Sends(p, frame[p].url, msg, "propose", locals)
                   /\ msg.type = "session_propose" /\ msg.session_id = NewId
    BY <1>3, PostProposalSends
  <2>2. locals.session_id = NewId
    BY <1>f DEF Frame
  <2> HIDE DEF locals
  <2>3. pc[p] = "hello" /\ lastId' = NewId /\ UNCHANGED <<held, current, answered>>
    BY <1>3 DEF PostProposal, Draw
  <2>4. QED
    BY <2>1, <2>2, <2>3, SendsFields DEF Proposed
<1>4. CASE FetchIdentity(p)
  <2> DEFINE locals == [frame[p] EXCEPT !.session_id = AcceptedId(p),
                                        !.payload_mode = AcceptedMode(p)]
  <2>1. PICK msg : /\ Sends(p, frame[p].url, msg, "discover", locals)
                   /\ msg.type = "get_identity"
    BY <1>4, FetchIdentitySends
  <2>2. locals.session_id = AcceptedId(p) /\ locals.payload_mode = AcceptedMode(p)
    BY <1>f DEF Frame
  <2> HIDE DEF locals
  <2>3. /\ pc[p] = "propose" /\ Replied(p) /\ Acceptable(p)
        /\ UNCHANGED <<held, current, answered, lastId>>
    BY <1>4 DEF FetchIdentity
  <2>4. QED
    BY <2>1, <2>2, <2>3, SendsFields DEF AskedIdentity, Posted
<1>5. CASE KeepSession(p)
  <2>1. /\ pc[p] = "discover" /\ Replied(p) /\ Acceptable(p)
        /\ held' = held \cup {NewSession(p)}
        /\ current' = [current EXCEPT ![frame[p].url] = frame[p].session_id]
        /\ UNCHANGED answered
        /\ \/ PostTask(p, frame[p].url, frame[p].session_id, frame[p])
           \/ Leave(p) /\ Consume(p) /\ UNCHANGED lastId
    BY <1>5 DEF KeepSession, NewSession
  <2>2. \/ Others(p) /\ TaskSent(p, frame[p].session_id, frame[p].url)
        \/ Others(p) /\ Quits(p) /\ UNCHANGED lastId
    BY <1>f, <1>q, <2>1, TaskIsSent
  <2>3. QED
    BY <2>1, <2>2 DEF Kept
<1>6. CASE HandshakeRaises(p) \/ SubmitRaises(p)
  BY <1>6, <1>q DEF HandshakeRaises, SubmitRaises, Raised
<1>7. CASE ReceiveResult(p)
  BY <1>7, <1>q DEF ReceiveResult, Received, CountedIn
<1>8. QED
  BY <1>1, <1>2, <1>3, <1>4, <1>5, <1>6, <1>7
     DEF CoroutineRuns, CoroutineStarts, CoroutineContinues

(* Counting a task leaves a session what it was. *)
LEMMA CountedFields ==
  ASSUME NEW s \in SessionObject
  PROVE  /\ Counted(s).session_id = s.session_id /\ Counted(s).url = s.url
         /\ Counted(s).payload_mode = s.payload_mode
         /\ Counted(s).task_count = s.task_count + 1 /\ Counted(s).last_used = now
BY DEF Counted, SessionObject

LEMMA ReceivedHeld ==
  ASSUME TypeOK, NEW p \in Callers, Received(p)
  PROVE  /\ \A s \in held' : \E t \in held : /\ t.session_id = s.session_id /\ t.url = s.url
                                            /\ t.payload_mode = s.payload_mode
                                            /\ s = IF t.session_id = frame[p].session_id
                                                     THEN Counted(t) ELSE t
         /\ \A t \in held : \E s \in held' : /\ s.session_id = t.session_id /\ s.url = t.url
                                            /\ s.payload_mode = t.payload_mode
<1>1. \A s \in held : s \in SessionObject
  BY DEF TypeOK
<1>2. \A s \in held : /\ Counted(s).session_id = s.session_id /\ Counted(s).url = s.url
                      /\ Counted(s).payload_mode = s.payload_mode
  BY <1>1, CountedFields
<1>3. held' = {IF s.session_id = frame[p].session_id THEN Counted(s) ELSE s : s \in held}
  BY DEF Received
<1>4. QED
  BY <1>2, <1>3

-------------------------------------------------------------------------------
(* Identifiers *)

SameHeld ==
  /\ \A s \in held' : \E t \in held : t.session_id = s.session_id /\ t.url = s.url
  /\ \A t \in held : \E s \in held' : s.session_id = t.session_id /\ s.url = t.url
  /\ \A s, t \in held' : s.session_id = t.session_id => s = t

(* The proposals out are those of before, or fewer. *)
NoNewProposal ==
  /\ \A r \in requests' : r.msg.type = "session_propose" =>
       \E q \in Proposals : q.msg = r.msg
  /\ \A q, r \in requests' :
       /\ q.msg.type = "session_propose" /\ r.msg.type = "session_propose"
       /\ q.msg.session_id = r.msg.session_id
       => q = r

(* A step that opens no session and makes nobody await another one. *)
LEMMA IdentityKept ==
  ASSUME TypeOK, IdentityInv, lastId' \in Nat, lastId' >= lastId,
         UNCHANGED <<sessions, current>>, SameHeld, NoNewProposal,
         \A p \in Callers : Awaits(p)' => Awaits(p) /\ Pending(p)' = Pending(p)
  PROVE  IdentityInv'
<1>1. lastId \in Nat /\ 1..lastId \subseteq 1..lastId'
  BY DEF TypeOK
<1>2. HeldIds' = HeldIds
  BY DEF HeldIds, SameHeld
<1>3. \A u \in Urls : SessionIds(u)' = SessionIds(u)
  BY DEF SessionIds
<1>4. /\ \A r \in Proposals' : \E q \in Proposals : q.msg = r.msg
      /\ \A q, r \in Proposals' : q.msg.session_id = r.msg.session_id => q = r
  BY DEF Proposals, NoNewProposal
<1>5. IdsDrawn'
  BY <1>1, <1>2, <1>3, <1>4 DEF IdentityInv, IdsDrawn
<1>6. OneOwner'
  BY <1>2 DEF IdentityInv, OneOwner, SameHeld
<1>7. ProposalsFresh'
  BY <1>3, <1>4 DEF IdentityInv, ProposalsFresh
<1>8. OneSessionEach' /\ CurrentHeld'
  BY DEF IdentityInv, OneSessionEach, CurrentHeld, SameHeld
<1>9. QED
  BY <1>5, <1>6, <1>7, <1>8 DEF IdentityInv

LEMMA HeldUnchanged ==
  ASSUME IdentityInv, UNCHANGED held
  PROVE  SameHeld
BY DEF IdentityInv, OneOwner, SameHeld

LEMMA FewerProposals ==
  ASSUME IdentityInv,
         \A r \in requests' : r.msg.type = "session_propose" => r \in requests
  PROVE  NoNewProposal
BY DEF IdentityInv, ProposalsFresh, NoNewProposal, Proposals

(* What a coroutine awaits is in its own locals and reply. *)
LEMMA AwaitsFields ==
  ASSUME NEW p
  PROVE  /\ Awaits(p) <=> pc[p] \in {"propose", "discover"} /\ replies[p].type # "error"
         /\ Awaits(p)' <=> pc'[p] \in {"propose", "discover"} /\ replies'[p].type # "error"
         /\ Pending(p) = IF pc[p] = "propose" /\ replies[p].type = "session_accept"
                           THEN replies[p].session_id ELSE frame[p].session_id
         /\ Pending(p)' = IF pc'[p] = "propose" /\ replies'[p].type = "session_accept"
                            THEN replies'[p].session_id ELSE frame'[p].session_id
BY DEF Awaits, Pending, AcceptedId, Got

LEMMA IdentityOfCoroutine ==
  ASSUME TypeOK, WireInv, IdentityInv, NEW p \in Callers, CoroutineRuns(p), TypeOK'
  PROVE  IdentityInv'
<1>0. /\ Others(p) /\ UNCHANGED <<sessions, now>>
      /\ lastId \in Nat /\ lastId' \in Nat
  BY CoroutineForms DEF CoroutineRuns, serverVars, TypeOK
<1>o. \A q \in Callers \ {p} : (Awaits(q)' <=> Awaits(q)) /\ Pending(q)' = Pending(q)
  BY <1>0, AwaitsFields DEF Others
<1>n. ASSUME NEW type, NEW u, Posted(p, type, u), type # "session_propose"
      PROVE  NoNewProposal
  BY <1>n, FewerProposals DEF Posted
<1>q. ASSUME Quits(p) PROVE NoNewProposal /\ ~Awaits(p)'
  BY <1>q, FewerProposals, AwaitsFields DEF Quits
<1>1. ASSUME NEW s \in held, SubmittedIn(p, s) PROVE IdentityInv'
  <2>1. NoNewProposal /\ SameHeld /\ UNCHANGED current /\ lastId' >= lastId
    BY <1>0, <1>1, <1>n, HeldUnchanged DEF SubmittedIn, TaskSent, NewId
  <2>2. ~Awaits(p)'
    BY <1>1, AwaitsFields DEF SubmittedIn, TaskSent
  <2>3. QED
    BY <1>0, <1>o, <2>1, <2>2, IdentityKept
<1>2. CASE Greeted(p)
  <2>1. NoNewProposal /\ SameHeld /\ UNCHANGED current /\ lastId' >= lastId
    BY <1>0, <1>2, <1>n, HeldUnchanged DEF Greeted
  <2>2. ~Awaits(p)'
    BY <1>2, AwaitsFields DEF Greeted
  <2>3. QED
    BY <1>0, <1>o, <2>1, <2>2, IdentityKept
<1>3. CASE Proposed(p)
  <2>1. PICK r : /\ requests' = requests \cup {r}
                 /\ r.msg.type = "session_propose" /\ r.msg.session_id = NewId
    BY <1>3 DEF Proposed
  <2>2. /\ Awaits(p)' /\ Pending(p)' = NewId /\ lastId' = NewId /\ ~Awaits(p)
        /\ UNCHANGED <<held, current>>
    BY <1>3, AwaitsFields DEF Proposed
  <2>3. NewId = lastId + 1 /\ \A i \in 1..lastId : i \in 1..NewId /\ i # NewId
    BY <1>0 DEF NewId
  <2>4. HeldIds' = HeldIds /\ \A u \in Urls : SessionIds(u)' = SessionIds(u)
    BY <1>0, <2>2 DEF HeldIds, SessionIds
  <2>5. Proposals' = Proposals \cup {r}
    BY <2>1 DEF Proposals
  <2>6. IdsDrawn'
    BY <1>0, <1>o, <2>1, <2>2, <2>3, <2>4, <2>5 DEF IdentityInv, IdsDrawn
  <2>7. OneOwner'
    BY <1>0, <1>o, <2>2, <2>3, <2>4 DEF IdentityInv, IdsDrawn, OneOwner
  <2>8. ProposalsFresh'
    BY <1>0, <2>1, <2>3, <2>4, <2>5 DEF IdentityInv, IdsDrawn, ProposalsFresh
  <2>9. OneSessionEach' /\ CurrentHeld'
    BY <1>0, <2>2 DEF IdentityInv, OneSessionEach, CurrentHeld
  <2>10. QED
    BY <2>6, <2>7, <2>8, <2>9 DEF IdentityInv
<1>4. CASE AskedIdentity(p)
  <2>1. NoNewProposal /\ SameHeld /\ UNCHANGED current /\ lastId' >= lastId
    BY <1>0, <1>4, <1>n, HeldUnchanged DEF AskedIdentity
  <2>2. Awaits(p) /\ Pending(p)' = Pending(p)
    BY <1>4, AwaitsFields DEF AskedIdentity, Acceptable, AcceptedId, Got
  <2>3. QED
    BY <1>0, <1>o, <2>1, <2>2, IdentityKept
<1>5. CASE Kept(p)
  <2> DEFINE id == frame[p].session_id
             u == frame[p].url
             s == NewSession(p)
  <2>1. /\ held' = held \cup {s} /\ s.session_id = id /\ s.url = u
        /\ current' = [current EXCEPT ![u] = id]
        /\ ~Awaits(p)' /\ NoNewProposal /\ lastId' >= lastId
    BY <1>0, <1>5, <1>n, <1>q, AwaitsFields DEF Kept, NewSession, TaskSent, NewId
  <2>2. Awaits(p) /\ Pending(p) = id /\ u \in Urls
    BY <1>5, AwaitsFields DEF Kept, Acceptable, Got, TypeOK, Frame
  <2> HIDE DEF s
  <2>3. HeldIds' = HeldIds \cup {id}
    BY <2>1 DEF HeldIds
  <2>4. \A v \in Urls : SessionIds(v)' = SessionIds(v)
    BY <1>0 DEF SessionIds
  <2> HIDE DEF id, u
  <2>5. \A i \in 1..lastId : i \in 1..lastId'
    BY <1>0, <2>1
  <2>6. id \in 1..lastId /\ id \notin HeldIds
    BY <2>2 DEF IdentityInv, IdsDrawn, OneOwner
  <2>7. \A q \in Callers : Awaits(q)' => /\ Awaits(q) /\ Pending(q)' = Pending(q)
                                         /\ Pending(q) # id
    BY <1>o, <2>1, <2>2 DEF IdentityInv, OneOwner
  <2>8. /\ \A r \in Proposals' : \E q \in Proposals : q.msg = r.msg
        /\ \A q, r \in Proposals' : q.msg.session_id = r.msg.session_id => q = r
    BY <2>1 DEF Proposals, NoNewProposal
  <2>9. IdsDrawn'
    BY <2>3, <2>4, <2>5, <2>6, <2>7, <2>8 DEF IdentityInv, IdsDrawn
  <2>10. OneOwner'
    BY <2>1, <2>3, <2>6, <2>7 DEF IdentityInv, OneOwner, HeldIds
  <2>11. ProposalsFresh'
    BY <2>4, <2>8 DEF IdentityInv, ProposalsFresh
  <2>12. OneSessionEach'
    BY <1>0 DEF IdentityInv, OneSessionEach
  <2>13. CurrentHeld'
    <3> SUFFICES ASSUME NEW v \in Urls, current'[v] # NoId
                 PROVE  \E t \in held' : t.session_id = current'[v] /\ t.url = v
      BY DEF CurrentHeld
    <3>1. CASE v = u
      BY <2>1, <2>2, <3>1 DEF TypeOK
    <3>2. CASE v # u
      BY <2>1, <3>2 DEF TypeOK, IdentityInv, CurrentHeld
    <3>3. QED
      BY <3>1, <3>2
  <2>14. QED
    BY <2>9, <2>10, <2>11, <2>12, <2>13 DEF IdentityInv
<1>6. CASE Raised(p)
  <2>1. NoNewProposal /\ SameHeld /\ UNCHANGED current /\ lastId' >= lastId /\ ~Awaits(p)'
    BY <1>0, <1>6, <1>q, HeldUnchanged DEF Raised
  <2>2. QED
    BY <1>0, <1>o, <2>1, IdentityKept
<1>7. CASE Received(p)
  <2>1. NoNewProposal /\ UNCHANGED current /\ lastId' >= lastId /\ ~Awaits(p)'
    BY <1>0, <1>7, <1>q DEF Received
  <2>2. SameHeld
    <3>1. \A s, t \in held' : s.session_id = t.session_id => s = t
      BY <1>7, ReceivedHeld DEF IdentityInv, OneOwner
    <3>2. QED
      BY <1>7, <3>1, ReceivedHeld DEF SameHeld
  <2>3. QED
    BY <1>0, <1>o, <2>1, <2>2, IdentityKept
<1>8. QED
  BY <1>1, <1>2, <1>3, <1>4, <1>5, <1>6, <1>7, CoroutineForms

LEMMA IdentityOfNetwork ==
  ASSUME TypeOK, IdentityInv, NEW p \in Callers, NetworkStep(p)
  PROVE  IdentityInv'
<1>1. /\ ConnectionFails(p) /\ UNCHANGED <<sessions, held, current, pc, frame, lastId>>
      /\ WireTypeOK /\ lastId \in Nat
  BY TypeParts DEF NetworkStep, serverVars, clientVars
<1>2. /\ replies'[p].type = "error"
      /\ \A q \in Callers \ {p} : replies'[q] = replies[q]
  BY <1>1, FailFields
<1>3. \A q \in Callers : Awaits(q)' => Awaits(q) /\ Pending(q)' = Pending(q)
  BY <1>1, <1>2, AwaitsFields
<1>4. ASSUME \E r \in requests : requests' = requests \ {r}
      PROVE  NoNewProposal
  BY <1>4, FewerProposals
<1>5. ASSUME \E r \in requests : \E q : requests' = (requests \ {r}) \cup {q} /\ q.msg = r.msg
      PROVE  NoNewProposal
  <2>a. PICK r \in requests : \E q : requests' = (requests \ {r}) \cup {q} /\ q.msg = r.msg
    BY <1>5
  <2>1. PICK q : requests' = (requests \ {r}) \cup {q} /\ q.msg = r.msg
    BY <2>a
  <2>2. QED
    BY <2>1 DEF IdentityInv, ProposalsFresh, NoNewProposal, Proposals
<1>6. ASSUME UNCHANGED requests PROVE NoNewProposal
  BY <1>6, FewerProposals
<1>7. NoNewProposal
  <2>1. \/ \E r \in requests : requests' = requests \ {r}
        \/ \E r \in requests : \E q : requests' = (requests \ {r}) \cup {q} /\ q.msg = r.msg
        \/ UNCHANGED requests
    BY <1>1, FailFields
  <2>2. QED
    BY <1>4, <1>5, <1>6, <2>1
<1>8. QED
  BY <1>1, <1>3, <1>7, HeldUnchanged, IdentityKept

(* Who gets the reply to r is its coroutine, which waits for it. *)
LEMMA AnsweredAwaits ==
  ASSUME TypeOK, WireInv, NEW r \in requests, NEW reply, Answer(r, reply), NEW p \in Callers
  PROVE  /\ requests' = requests \ {r}
         /\ p # r.conn => replies'[p] = replies[p]
         /\ p = r.conn => /\ replies'[p] = reply /\ replies[p].type = "none"
                          /\ pc[p] = AwaitOf[r.msg.type] /\ frame[p].url = r.to
                          /\ r.msg.type \in {"session_propose", "task_submit"} =>
                               frame[p].session_id = r.msg.session_id
                          /\ r.msg.type = "task_submit" => frame[p].task = r.msg.task_id
<1>1. WireTypeOK
  BY TypeParts
<1>2. p = r.conn => r.conn # NoConn
  OBVIOUS
<1>3. QED
  BY <1>1, <1>2, AnswerFields DEF WireInv, RequestsAwaited, LocalsSent, NoReply

LEMMA RequestIs ==
  ASSUME TypeOK, NEW r \in requests
  PROVE  r.msg \in Message /\ r.to \in Urls
BY TypeParts, RequestFields

LEMMA IdentityOfDelegate ==
  ASSUME TypeOK, WireInv, IdentityInv, DelegateServes, TypeOK'
  PROVE  IdentityInv'
<1>0. UNCHANGED <<held, current, pc, frame>> /\ lastId \in Nat /\ lastId' \in Nat /\ SameHeld
  BY HeldUnchanged DEF DelegateServes, clientVars, TypeOK
<1>1. PICK r \in requests : Serves(r)
  BY DEF DelegateServes
<1>r. r.msg \in Message /\ r.to \in Urls
  BY RequestIs
<1>2. ASSUME NEW reply, Answer(r, reply)
      PROVE  /\ NoNewProposal
             /\ (r.msg.type = "session_propose" => reply.type # "session_accept") =>
                  \A p \in Callers : Awaits(p)' => Awaits(p) /\ Pending(p)' = Pending(p)
  <2>1. \A p \in Callers :
          /\ requests' = requests \ {r}
          /\ p # r.conn => replies'[p] = replies[p]
          /\ p = r.conn => /\ replies'[p] = reply /\ replies[p].type = "none"
                           /\ pc[p] = AwaitOf[r.msg.type]
    BY <1>2, AnsweredAwaits
  <2>2. requests' = requests \ {r}
    BY <1>2 DEF Answer
  <2>3. pc[r.conn] = "propose" /\ pc[r.conn] = AwaitOf[r.msg.type] => r.msg.type = "session_propose"
    BY <1>r, AwaitOfMessage
  <2>4. QED
    BY <1>0, <2>1, <2>2, <2>3, AwaitsFields, FewerProposals
<1>3. CASE Replies(r)
  <2>1. PICK reply \in Reply : QuietReply(r, reply) /\ Answer(r, reply)
    BY <1>3 DEF Replies
  <2>2. UNCHANGED <<sessions, lastId>>
    BY <1>3 DEF Replies, serverVars
  <2>3. r.msg.type = "session_propose" => reply.type # "session_accept"
    BY <2>1 DEF QuietReply
  <2>4. QED
    BY <1>0, <1>2, <2>1, <2>2, <2>3, IdentityKept
<1>4. CASE Runs(r)
  <2>1. r.msg.type = "task_submit" /\ UNCHANGED <<sessions, lastId>>
    BY <1>4 DEF Runs
  <2>2. CASE \E reply : Answer(r, reply)
    BY <1>0, <1>2, <2>1, <2>2, IdentityKept
  <2>3. CASE Advance(r, "executed")
    <3>1. PICK q : requests' = (requests \ {r}) \cup {q} /\ UNCHANGED replies /\ q.msg = r.msg
      BY <2>3, TypeParts, AdvanceFields
    <3>2. NoNewProposal
      BY <2>1, <3>1, FewerProposals
    <3>3. QED
      BY <1>0, <2>1, <3>1, <3>2, AwaitsFields, IdentityKept
  <2>4. QED
    BY <1>4, <2>2, <2>3 DEF Runs
<1>5. CASE Opens(r)
  <2>1. PICK id \in Nat, mode \in PayloadMode :
          /\ OpensRust(r, id, mode) \/ OpensPy(r, id, mode)
          /\ \/ Answer(r, [type |-> "session_accept", session_id |-> id, negotiated_mode |-> mode])
             \/ Answer(r, Failure)
    BY <1>5 DEF Opens
  <2>2. r.msg.type = "session_propose" /\ r \in Proposals
    BY <1>5 DEF Opens, Proposals
  <2>3. PICK reply : /\ Answer(r, reply)
                     /\ \/ reply.type = "session_accept" /\ reply.session_id = id
                        \/ reply.type = "error"
    BY <2>1 DEF Failure
  <2>4. NoNewProposal
    BY <1>2, <2>3
  <2>a. \A p \in Callers :
          /\ requests' = requests \ {r}
          /\ p # r.conn => replies'[p] = replies[p]
          /\ p = r.conn => /\ replies'[p] = reply /\ replies[p].type = "none"
                           /\ pc[p] = "propose" /\ frame[p].session_id = r.msg.session_id
    BY <1>r, <2>2, <2>3, AnsweredAwaits, AwaitOfMessage
  <2>b. requests' = requests \ {r}
    BY <2>3 DEF Answer
  <2>c. \A p \in Callers : Awaits(p)' =>
          /\ Awaits(p)
          /\ p # r.conn => Pending(p)' = Pending(p)
          /\ p = r.conn => Pending(p)' = id /\ Pending(p) = r.msg.session_id
    BY <1>0, <2>3, <2>a, AwaitsFields
  <2>5. CASE OpensRust(r, id, mode)
    <3>1. PICK s : /\ s.session_id = id
                   /\ sessions' = [sessions EXCEPT ![r.to] = WithoutSession(r.to, id) \cup {s}]
      BY <2>5 DEF OpensRust
    <3>2. id = r.msg.session_id /\ UNCHANGED lastId
      BY <2>5 DEF OpensRust
    <3>3. id \in 1..lastId /\ \A u \in Urls : id \notin SessionIds(u)
      BY <2>2, <3>2 DEF IdentityInv, IdsDrawn, ProposalsFresh
    <3>4. /\ sessions'[r.to] = sessions[r.to] \cup {s}
          /\ \A u \in Urls \ {r.to} : sessions'[u] = sessions[u]
      BY <1>r, <3>1, <3>3 DEF WithoutSession, SessionIds, TypeOK
    <3>5. \A u \in Urls : SessionIds(u)' \subseteq SessionIds(u) \cup {id}
      BY <3>1, <3>4 DEF SessionIds
    <3>6. \A p \in Callers : Awaits(p)' => Awaits(p) /\ Pending(p)' = Pending(p)
      BY <2>c, <3>2
    <3>7. HeldIds' = HeldIds
      BY <1>0 DEF HeldIds
    <3>8. Proposals' = Proposals \ {r}
      BY <2>b DEF Proposals
    <3>9. IdsDrawn'
      BY <3>2, <3>3, <3>5, <3>6, <3>7, <3>8 DEF IdentityInv, IdsDrawn
    <3>10. OneOwner'
      BY <1>0, <3>6, <3>7 DEF IdentityInv, OneOwner
    <3>11. ProposalsFresh'
      BY <2>2, <3>2, <3>5, <3>8 DEF IdentityInv, ProposalsFresh
    <3>12. OneSessionEach'
      BY <1>r, <3>1, <3>3, <3>4 DEF IdentityInv, OneSessionEach, SessionIds
    <3>13. CurrentHeld'
      BY <1>0 DEF IdentityInv, CurrentHeld
    <3>14. QED
      BY <3>9, <3>10, <3>11, <3>12, <3>13 DEF IdentityInv
  <2>6. CASE OpensPy(r, id, mode)
    <3>1. UNCHANGED sessions /\ id = lastId + 1 /\ lastId' = id
      BY <2>6 DEF OpensPy, serverVars
    <3>2. \A i \in 1..lastId : i \in 1..lastId' /\ i # id
      BY <1>0, <3>1
    <3>3. HeldIds' = HeldIds /\ \A u \in Urls : SessionIds(u)' = SessionIds(u)
      BY <1>0, <3>1 DEF HeldIds, SessionIds
    <3>4. Proposals' = Proposals \ {r}
      BY <2>b DEF Proposals
    <3>5. id \in 1..lastId'
      BY <1>0, <3>1
    <3>6. IdsDrawn'
      BY <2>c, <3>2, <3>3, <3>4, <3>5 DEF IdentityInv, IdsDrawn
    <3>7. OneOwner'
      <4>1. ASSUME NEW p \in Callers, Awaits(p)'
            PROVE  /\ Awaits(p) /\ Pending(p) \in 1..lastId /\ Pending(p) \notin HeldIds
                   /\ \/ p # r.conn /\ Pending(p)' = Pending(p)
                      \/ p = r.conn /\ Pending(p)' = id
        BY <2>c, <4>1 DEF IdentityInv, IdsDrawn, OneOwner
      <4>2. id \notin HeldIds
        BY <3>2 DEF IdentityInv, IdsDrawn
      <4>3. \A p, q \in Callers : Awaits(p)' /\ Awaits(q)' /\ Pending(p)' = Pending(q)' => p = q
        BY <3>2, <4>1 DEF IdentityInv, OneOwner
      <4>4. \A p \in Callers : Awaits(p)' => Pending(p)' \notin HeldIds'
        BY <3>3, <4>1, <4>2
      <4>5. \A s, t \in held' : s.session_id = t.session_id => s = t
        BY <1>0 DEF IdentityInv, OneOwner
      <4>6. QED
        BY <4>3, <4>4, <4>5 DEF OneOwner
    <3>8. ProposalsFresh'
      BY <3>3, <3>4 DEF IdentityInv, ProposalsFresh
    <3>9. OneSessionEach' /\ CurrentHeld'
      BY <1>0, <3>1 DEF IdentityInv, OneSessionEach, CurrentHeld
    <3>10. QED
      BY <3>6, <3>7, <3>8, <3>9 DEF IdentityInv
  <2>7. QED
    BY <2>1, <2>5, <2>6
<1>6. QED
  BY <1>1, <1>3, <1>4, <1>5 DEF Serves

LEMMA NextIdentity ==
  ASSUME TypeOK, WireInv, IdentityInv, [Next]_pyVars
  PROVE  IdentityInv'
<1>1. TypeOK' /\ (\/ DelegateServes
                  \/ \E p \in Callers : CoroutineRuns(p) \/ NetworkStep(p)
                  \/ ClockOrNothing)
  BY StepForms DEF WireInv
<1>2. CASE ClockOrNothing
  <2>1. /\ UNCHANGED <<requests, replies, lastId, sessions, held, current, pc, frame>>
        /\ lastId \in Nat
    BY <1>2 DEF ClockOrNothing, transportVars, serverVars, clientVars, TypeOK
  <2>2. NoNewProposal /\ SameHeld
    BY <2>1, FewerProposals, HeldUnchanged
  <2>3. QED
    BY <2>1, <2>2, AwaitsFields, IdentityKept
<1>3. QED
  BY <1>1, <1>2, IdentityOfCoroutine, IdentityOfNetwork, IdentityOfDelegate

-------------------------------------------------------------------------------
(* Handshakes *)

(* The Rust server forgets no session while nobody closes one, and what a   *)
(* hook was told is not untold.                                             *)
LEMMA OpenedGrow ==
  ASSUME TypeOK, IdentityInv, NEW r \in requests, Serves(r), NEW u \in Urls
  PROVE  sessions[u] \subseteq sessions'[u] /\ started[u] \subseteq started'[u]
<1>1. CASE Replies(r) \/ Runs(r)
  BY <1>1 DEF Replies, Runs, serverVars, delegateVars
<1>2. CASE Opens(r)
  <2>1. PICK id, mode : OpensRust(r, id, mode) \/ OpensPy(r, id, mode)
    BY <1>2 DEF Opens
  <2>2. r \in Proposals
    BY <1>2 DEF Opens, Proposals
  <2>3. CASE OpensRust(r, id, mode)
    <3>1. id \notin SessionIds(r.to) /\ r.to \in Urls
      BY <2>2, <2>3, RequestIs DEF OpensRust, IdentityInv, ProposalsFresh
    <3>2. WithoutSession(r.to, id) = sessions[r.to]
      BY <3>1 DEF WithoutSession, SessionIds
    <3>3. QED
      BY <2>3, <3>1, <3>2 DEF OpensRust, TypeOK, delegateVars
  <2>4. CASE OpensPy(r, id, mode)
    BY <2>4, RequestIs DEF OpensPy, TypeOK, serverVars
  <2>5. QED
    BY <2>1, <2>3, <2>4
<1>3. QED
  BY <1>1, <1>2 DEF Serves

LEMMA KnownKept ==
  ASSUME TypeOK, WireInv, IdentityInv, [Next]_pyVars, NEW u \in Urls, NEW id, NEW mode,
         KnownAt(u, id, mode)
  PROVE  KnownAt(u, id, mode)'
<1>1. sessions[u] \subseteq sessions'[u] /\ started[u] \subseteq started'[u]
  <2>1. CASE DelegateServes
    BY <2>1, OpenedGrow DEF DelegateServes
  <2>2. CASE UNCHANGED <<serverVars, delegateVars>>
    BY <2>2 DEF serverVars, delegateVars
  <2>3. QED
    BY <2>1, <2>2, StepForms DEF WireInv, CoroutineRuns, NetworkStep, ClockOrNothing
<1>2. QED
  BY <1>1 DEF KnownAt

(* What opening a session leaves at the delegate. *)
LEMMA OpenedIsKnown ==
  ASSUME TypeOK, NEW r \in requests, NEW id, NEW mode,
         OpensRust(r, id, mode) \/ OpensPy(r, id, mode)
  PROVE  /\ KnownAt(r.to, id, mode)'
         /\ r.to \notin RustUrls => mode \in Codecs(DelegateCodecs[r.to])
<1>0. r.to \in Urls
  BY RequestIs
<1>1. CASE OpensRust(r, id, mode)
  BY <1>0, <1>1 DEF OpensRust, KnownAt, TypeOK
<1>2. CASE OpensPy(r, id, mode)
  <2> DEFINE t == [session_id |-> id, payload_mode |-> mode]
  <2>1. t.session_id = id /\ t.payload_mode = mode
    OBVIOUS
  <2>2. t \in started'[r.to]
    BY <1>0, <1>2 DEF OpensPy, TypeOK
  <2> HIDE DEF t
  <2>3. QED
    BY <1>2, <2>1, <2>2 DEF OpensPy, KnownAt
<1>3. QED
  BY <1>1, <1>2

(* The mode of a reply the client accepts is one it has a codec for. *)
LEMMA SpeakableIsSpoken ==
  ASSUME NEW mode, Speakable(mode)
  PROVE  mode \in Codecs(PyCodecs)
<1>1. CASE mode = "text"
  BY <1>1 DEF Codecs
<1>2. CASE \E i \in DOMAIN Advertised : Advertised[i] = mode
  BY <1>2, AdvertisedType
<1>3. QED
  BY <1>1, <1>2 DEF Speakable

ProposerAnswered(p) ==
  LET u == frame[p].url
  IN  /\ replies[p].type \in
           {"none", "error", "session_reject", "session_accept"} \cup
           (IF Verified(u) THEN {} ELSE {"task_failed"})
      /\ Got(p, "session_accept") =>
           /\ KnownAt(u, replies[p].session_id, replies[p].negotiated_mode)
           /\ u \notin RustUrls => replies[p].negotiated_mode \in Codecs(DelegateCodecs[u])
           /\ Trusts(DomainOf(u), PyDomain.name)

DiscovererAccepted(p) ==
  LET u == frame[p].url
  IN  /\ replies[p].type \in {"none", "error", "identity"}
      /\ Got(p, "identity") => replies[p].trust_domain = DomainOf(u).name
      /\ Verified(u) => /\ KnownAt(u, frame[p].session_id, frame[p].payload_mode)
                        /\ Trusts(DomainOf(u), PyDomain.name)
      /\ Spoken(u, frame[p].payload_mode)

LEMMA HandshakeParts ==
  /\ HandshakeInv <=> \A p \in Callers : /\ pc[p] = "propose" => ProposerAnswered(p)
                                         /\ pc[p] = "discover" => DiscovererAccepted(p)
  /\ HandshakeInv' <=> \A p \in Callers : /\ pc'[p] = "propose" => ProposerAnswered(p)'
                                          /\ pc'[p] = "discover" => DiscovererAccepted(p)'
BY DEF HandshakeInv, ProposalsAnswered, DiscoverersAccepted, ProposerAnswered, DiscovererAccepted

(* A coroutine the step does not touch. *)
LEMMA HandshakeOfOther ==
  ASSUME TypeOK, WireInv, IdentityInv, HandshakeInv, [Next]_pyVars, NEW p \in Callers,
         pc'[p] = pc[p], frame'[p] = frame[p],
         replies'[p] = replies[p] \/ replies'[p].type = "error"
  PROVE  /\ pc'[p] = "propose" => ProposerAnswered(p)'
         /\ pc'[p] = "discover" => DiscovererAccepted(p)'
<1>0. PICK u \in Urls : u = frame[p].url
  BY DEF TypeOK, Frame
<1>1. \A id, mode : KnownAt(u, id, mode) => KnownAt(u, id, mode)'
  BY <1>0, KnownKept
<1>2. pc[p] = "propose" => ProposerAnswered(p)
  BY HandshakeParts
<1>3. pc[p] = "discover" => DiscovererAccepted(p)
  BY HandshakeParts
<1>4. ASSUME pc'[p] = "propose" PROVE ProposerAnswered(p)'
  <2>1. frame'[p].url = u
    BY <1>0
  <2>2. CASE replies'[p] = replies[p]
    <3>1. /\ replies[p].type \in
               {"none", "error", "session_reject", "session_accept"} \cup
               (IF Verified(u) THEN {} ELSE {"task_failed"})
          /\ replies[p].type = "session_accept" =>
               /\ KnownAt(u, replies[p].session_id, replies[p].negotiated_mode)
               /\ u \notin RustUrls => replies[p].negotiated_mode \in Codecs(DelegateCodecs[u])
               /\ Trusts(DomainOf(u), PyDomain.name)
      BY <1>0, <1>2, <1>4 DEF ProposerAnswered, Got
    <3>2. replies[p].type = "session_accept" =>
            KnownAt(u, replies[p].session_id, replies[p].negotiated_mode)'
      <4>1. PICK x : x = replies[p]
        OBVIOUS
      <4>2. replies[p].type = "session_accept" => KnownAt(u, x.session_id, x.negotiated_mode)'
        BY <1>1, <3>1, <4>1
      <4>3. QED
        BY <2>2, <4>1, <4>2 DEF KnownAt
    <3>3. replies'[p].type = "session_accept" =>
            KnownAt(frame[p].url, replies[p].session_id, replies[p].negotiated_mode)'
      BY <2>1, <2>2, <3>2 DEF KnownAt
    <3>4. QED
      BY <2>1, <2>2, <3>1, <3>3 DEF ProposerAnswered, Got, Verified
  <2>3. CASE replies'[p].type = "error"
    BY <2>3 DEF ProposerAnswered, Got
  <2>4. QED
    BY <2>2, <2>3
<1>5. ASSUME pc'[p] = "discover" PROVE DiscovererAccepted(p)'
  <2>1. PICK id, mode : id = frame[p].session_id /\ mode = frame[p].payload_mode
    OBVIOUS
  <2>2. /\ replies[p].type \in {"none", "error", "identity"}
        /\ replies[p].type = "identity" => replies[p].trust_domain = DomainOf(u).name
        /\ Verified(u) => KnownAt(u, id, mode) /\ Trusts(DomainOf(u), PyDomain.name)
        /\ Spoken(u, mode)
    BY <1>0, <1>3, <1>5, <2>1 DEF DiscovererAccepted, Got
  <2>3. Verified(u) => KnownAt(u, id, mode)'
    BY <1>1, <2>2
  <2>4. frame'[p].url = u /\ frame'[p].session_id = id /\ frame'[p].payload_mode = mode
    BY <1>0, <2>1
  <2>5. Verified(u) => KnownAt(frame[p].url, frame[p].session_id, frame[p].payload_mode)'
    BY <2>3, <2>4 DEF KnownAt
  <2>6. QED
    BY <2>2, <2>4, <2>5 DEF DiscovererAccepted, Got, Verified, Spoken
<1>6. QED
  BY <1>4, <1>5

HandshakeAt(p) ==
  /\ pc[p] = "propose" => ProposerAnswered(p)
  /\ pc[p] = "discover" => DiscovererAccepted(p)

(* Who goes from its accept to the identity card takes what it accepted    *)
(* along.                                                                  *)
LEMMA AcceptIsKept ==
  ASSUME TypeOK, WireInv, IdentityInv, HandshakeInv, [Next]_pyVars, NEW p \in Callers,
         AskedIdentity(p)
  PROVE  DiscovererAccepted(p)'
<1>1. PICK u \in Urls : u = frame[p].url
  BY DEF TypeOK, Frame
<1>2. PICK id, mode : id = AcceptedId(p) /\ mode = AcceptedMode(p)
  OBVIOUS
<1>3. ProposerAnswered(p) /\ Replied(p) /\ Acceptable(p) /\ pc[p] = "propose"
  BY HandshakeParts DEF AskedIdentity
<1>4. /\ frame'[p].url = u /\ frame'[p].session_id = id /\ frame'[p].payload_mode = mode
      /\ replies'[p].type = "none"
  BY <1>1, <1>2 DEF AskedIdentity, Posted
<1>5. mode \in Codecs(PyCodecs)
  BY <1>2, <1>3, SpeakableIsSpoken DEF Acceptable
<1>6. u \notin RustUrls => mode \in Codecs(DelegateCodecs[u])
  <2>1. CASE Got(p, "session_accept")
    BY <1>1, <1>2, <1>3, <2>1 DEF ProposerAnswered, AcceptedMode
  <2>2. CASE ~Got(p, "session_accept")
    BY <1>2, <2>2 DEF AcceptedMode, Codecs
  <2>3. QED
    BY <2>1, <2>2
<1>7. Verified(u) => KnownAt(u, id, mode) /\ Trusts(DomainOf(u), PyDomain.name)
  <2> SUFFICES ASSUME Verified(u) PROVE KnownAt(u, id, mode) /\ Trusts(DomainOf(u), PyDomain.name)
    OBVIOUS
  <2>1. Got(p, "session_accept")
    BY <1>1, <1>3 DEF ProposerAnswered, Acceptable, Replied, Got
  <2>2. QED
    BY <1>1, <1>2, <1>3, <2>1 DEF ProposerAnswered, AcceptedId, AcceptedMode
<1>8. Verified(u) => KnownAt(u, id, mode)'
  BY <1>7, KnownKept
<1>9. Verified(u) => KnownAt(frame[p].url, frame[p].session_id, frame[p].payload_mode)'
  BY <1>4, <1>8 DEF KnownAt
<1>10. Spoken(u, mode)
  BY <1>5, <1>6 DEF Spoken
<1>11. QED
  BY <1>4, <1>7, <1>9, <1>10 DEF DiscovererAccepted, Got, Verified, Spoken

(* Who gets an answer during the handshake. *)
LEMMA HandshakeIsAnswered ==
  ASSUME TypeOK, WireInv, IdentityInv, HandshakeInv, [Next]_pyVars, NEW r \in requests,
         Serves(r), UNCHANGED <<pc, frame>>, NEW p \in Callers, p = r.conn,
         pc[p] \in {"propose", "discover"}
  PROVE  HandshakeAt(p)'
<1>1. PICK u \in Urls : u = r.to
  BY RequestIs
<1>2. r.msg \in Message /\ r.msg.type \in {"hello", "get_identity", "session_propose", "task_submit"}
  BY RequestIs, MessageFields
<1>3. pc[p] = AwaitOf[r.msg.type] /\ frame[p].url = u /\ frame'[p].url = u /\ pc'[p] = pc[p]
  BY <1>1, NoConnIsNotACaller DEF WireInv, RequestsAwaited
<1>4. /\ pc[p] = "propose" <=> r.msg.type = "session_propose"
      /\ pc[p] = "discover" <=> r.msg.type = "get_identity"
  BY <1>2, <1>3, AwaitOfMessage
<1>5. CASE Replies(r)
  <2>1. PICK reply \in Reply : QuietReply(r, reply) /\ Answer(r, reply)
    BY <1>5 DEF Replies
  <2>2. replies'[p] = reply
    BY <2>1, AnsweredAwaits
  <2>3. CASE pc[p] = "propose"
    <3>1. reply.type \in {"error", "session_reject"} \cup (IF Verified(u) THEN {} ELSE {"task_failed"})
      BY <1>1, <1>4, <2>1, <2>3 DEF QuietReply
    <3>2. QED
      BY <1>3, <2>2, <2>3, <3>1 DEF HandshakeAt, ProposerAnswered, Got, Verified
  <2>4. CASE pc[p] = "discover"
    <3>1. reply.type = "identity" /\ reply.trust_domain = DomainOf(u).name
      BY <1>1, <1>4, <2>1, <2>4 DEF QuietReply
    <3>2. PICK id, mode : id = frame[p].session_id /\ mode = frame[p].payload_mode
      OBVIOUS
    <3>3. /\ Verified(u) => KnownAt(u, id, mode) /\ Trusts(DomainOf(u), PyDomain.name)
          /\ Spoken(u, mode)
      BY <1>3, <2>4, <3>2, HandshakeParts DEF DiscovererAccepted
    <3>4. Verified(u) => KnownAt(u, id, mode)'
      BY <3>3, KnownKept
    <3>5. frame'[p].session_id = id /\ frame'[p].payload_mode = mode
      BY <3>2
    <3>6. Verified(u) => KnownAt(frame[p].url, frame[p].session_id, frame[p].payload_mode)'
      BY <1>3, <3>4, <3>5 DEF KnownAt
    <3>7. QED
      BY <1>3, <2>2, <2>4, <3>1, <3>3, <3>5, <3>6
         DEF HandshakeAt, DiscovererAccepted, Got, Verified, Spoken, DomainOf
  <2>5. QED
    BY <2>3, <2>4
<1>6. CASE Opens(r)
  <2>1. PICK id \in Nat, mode \in PayloadMode :
          /\ OpensRust(r, id, mode) \/ OpensPy(r, id, mode)
          /\ \/ Answer(r, [type |-> "session_accept", session_id |-> id, negotiated_mode |-> mode])
             \/ Answer(r, Failure)
    BY <1>6 DEF Opens
  <2>2. /\ r.msg.type = "session_propose" /\ pc'[p] = "propose"
        /\ Trusts(DomainOf(u), PyDomain.name)
    BY <1>1, <1>3, <1>4, <1>6 DEF Opens
  <2>3. PICK reply : /\ Answer(r, reply)
                     /\ \/ reply.type = "session_accept" /\ reply.session_id = id
                           /\ reply.negotiated_mode = mode
                        \/ reply.type = "error"
    BY <2>1 DEF Failure
  <2>4. replies'[p] = reply
    BY <2>3, AnsweredAwaits
  <2>5. KnownAt(u, id, mode)' /\ (u \notin RustUrls => mode \in Codecs(DelegateCodecs[u]))
    BY <1>1, <2>1, OpenedIsKnown
  <2>6. reply.type = "session_accept" =>
          KnownAt(frame[p].url, replies[p].session_id, replies[p].negotiated_mode)'
    BY <1>3, <2>3, <2>4, <2>5 DEF KnownAt
  <2>7. ProposerAnswered(p)'
    BY <1>3, <2>2, <2>3, <2>4, <2>5, <2>6 DEF ProposerAnswered, Got, DomainOf
  <2>8. QED
    BY <2>2, <2>7 DEF HandshakeAt
<1>7. CASE Runs(r)
  BY <1>4, <1>7 DEF Runs
<1>8. QED
  BY <1>5, <1>6, <1>7 DEF Serves

LEMMA NextHandshake ==
  ASSUME TypeOK, WireInv, IdentityInv, HandshakeInv, [Next]_pyVars
  PROVE  HandshakeInv'
<1> SUFFICES ASSUME NEW p \in Callers PROVE HandshakeAt(p)'
  BY HandshakeParts DEF HandshakeAt
<1>0. (pc'[p] = "propose" => ProposerAnswered(p)') /\ (pc'[p] = "discover" => DiscovererAccepted(p)')
      => HandshakeAt(p)'
  BY DEF HandshakeAt
<1>1. ASSUME NEW q \in Callers, CoroutineRuns(q) PROVE HandshakeAt(p)'
  <2>1. /\ Others(q)
        /\ \/ \E s \in held : SubmittedIn(q, s)
           \/ Greeted(q) \/ Proposed(q) \/ AskedIdentity(q) \/ Kept(q) \/ Raised(q) \/ Received(q)
    BY <1>1, CoroutineForms
  <2>2. CASE p # q
    BY <1>0, <2>1, <2>2, HandshakeOfOther DEF Others
  <2>3. CASE p = q /\ AskedIdentity(p)
    <3>1. pc'[p] = "discover"
      BY <2>3 DEF AskedIdentity
    <3>2. QED
      BY <1>0, <2>3, <3>1, AcceptIsKept
  <2>4. CASE p = q /\ Proposed(p)
    <3>1. pc'[p] = "propose" /\ replies'[p].type = "none"
      BY <2>4 DEF Proposed
    <3>2. QED
      BY <1>0, <3>1 DEF ProposerAnswered, Got
  <2>5. CASE p = q /\ ~AskedIdentity(p) /\ ~Proposed(p)
    <3>1. pc'[p] \in {"idle", "hello", "submit"}
      BY <2>1, <2>5 DEF SubmittedIn, TaskSent, Greeted, Kept, Raised, Received, Quits
    <3>2. QED
      BY <1>0, <3>1
  <2>6. QED
    BY <2>2, <2>3, <2>4, <2>5
<1>2. ASSUME NEW q \in Callers, NetworkStep(q) PROVE HandshakeAt(p)'
  <2>1. UNCHANGED <<pc, frame>> /\ ConnectionFails(q) /\ WireTypeOK
    BY <1>2, TypeParts DEF NetworkStep, clientVars
  <2>2. replies'[p] = replies[p] \/ replies'[p].type = "error"
    BY <2>1, FailFields
  <2>3. QED
    BY <1>0, <2>1, <2>2, HandshakeOfOther
<1>3. CASE DelegateServes
  <2>1. PICK r \in requests : Serves(r)
    BY <1>3 DEF DelegateServes
  <2>2. UNCHANGED <<pc, frame>>
    BY <1>3 DEF DelegateServes, clientVars
  <2>3. CASE p = r.conn /\ pc[p] \in {"propose", "discover"}
    BY <2>1, <2>2, <2>3, HandshakeIsAnswered
  <2>4. CASE pc[p] \notin {"propose", "discover"}
    BY <1>0, <2>2, <2>4
  <2>5. CASE p # r.conn
    <3>1. CASE \E reply : Answer(r, reply)
      BY <1>0, <2>2, <2>5, <3>1, AnsweredAwaits, HandshakeOfOther
    <3>2. CASE UNCHANGED replies
      BY <1>0, <2>2, <3>2, HandshakeOfOther
    <3>3. QED
      BY <2>1, <3>1, <3>2 DEF Serves, Replies, Opens, Runs, Advance
  <2>6. QED
    BY <2>3, <2>4, <2>5
<1>4. CASE ClockOrNothing
  BY <1>0, <1>4, HandshakeOfOther DEF ClockOrNothing, transportVars, clientVars
<1>5. QED
  BY <1>1, <1>2, <1>3, <1>4, StepForms DEF WireInv

-------------------------------------------------------------------------------
(* What is held *)

SameSession(s, t) ==
  s.session_id = t.session_id /\ s.url = t.url /\ s.payload_mode = t.payload_mode

LEMMA HeldStep ==
  ASSUME TypeOK, WireInv, IdentityInv, [Next]_pyVars
  PROVE  /\ \A s \in held' : \/ \E t \in held : SameSession(s, t)
                             \/ \E p \in Callers : Kept(p) /\ s = NewSession(p)
         /\ \A t \in held : \E s \in held' : SameSession(s, t)
<1>1. CASE UNCHANGED held
  BY <1>1 DEF SameSession
<1>2. ASSUME NEW p \in Callers, Kept(p) PROVE held' = held \cup {NewSession(p)}
  BY <1>2 DEF Kept
<1>3. ASSUME NEW p \in Callers, Received(p)
      PROVE  /\ \A s \in held' : \E t \in held : SameSession(s, t)
             /\ \A t \in held : \E s \in held' : SameSession(s, t)
  BY <1>3, ReceivedHeld DEF SameSession
<1>4. ASSUME NEW p \in Callers, CoroutineRuns(p)
      PROVE  UNCHANGED held \/ Kept(p) \/ Received(p)
  BY <1>4, CoroutineForms DEF SubmittedIn, Greeted, Proposed, AskedIdentity, Raised
<1>5. UNCHANGED held \/ \E p \in Callers : Kept(p) \/ Received(p)
  BY <1>4, StepForms DEF WireInv, DelegateServes, NetworkStep, ClockOrNothing, clientVars
<1>6. ASSUME NEW p \in Callers, Kept(p)
      PROVE  /\ \A s \in held' : \/ \E t \in held : SameSession(s, t)
                                 \/ \E q \in Callers : Kept(q) /\ s = NewSession(q)
             /\ \A t \in held : \E s \in held' : SameSession(s, t)
  BY <1>2, <1>6 DEF SameSession
<1>7. QED
  BY <1>1, <1>3, <1>5, <1>6

(* Befriending does not depend on the state. *)
BefriendedTo(u, id, mode) ==
  (Verified(u) => KnownAt(u, id, mode)) /\ Spoken(u, mode) /\ Befriended(u)

LEMMA KeptIsBefriended ==
  ASSUME TypeOK, WireInv, IdentityInv, HandshakeInv, NEW p \in Callers, Kept(p)
  PROVE  BefriendedTo(frame[p].url, frame[p].session_id, frame[p].payload_mode)
<1>1. DiscovererAccepted(p) /\ pc[p] = "discover" /\ Replied(p) /\ Acceptable(p)
  BY HandshakeParts DEF Kept
<1>2. Got(p, "identity")
  BY <1>1 DEF DiscovererAccepted, Replied, Acceptable, Got
<1>3. EnforceTrust => Trusts(PyDomain, DomainOf(frame[p].url).name)
  BY <1>1, <1>2 DEF DiscovererAccepted, Acceptable, Trusted
<1>4. QED
  BY <1>1, <1>3 DEF DiscovererAccepted, BefriendedTo, Befriended

LEMMA NextSessionsHeld ==
  ASSUME TypeOK, WireInv, IdentityInv, HandshakeInv, SessionsHeld, [Next]_pyVars
  PROVE  SessionsHeld'
<1> SUFFICES ASSUME NEW s \in held'
             PROVE  /\ Verified(s.url) => KnownAt(s.url, s.session_id, s.payload_mode)'
                    /\ Spoken(s.url, s.payload_mode) /\ Befriended(s.url)
  BY DEF SessionsHeld, Verified, Spoken, Befriended, DomainOf
<1>a. \E u \in Urls : \E id, mode :
        /\ s.url = u /\ s.session_id = id /\ s.payload_mode = mode
        /\ BefriendedTo(u, id, mode)
  <2>1. CASE \E t \in held : SameSession(s, t)
    <3>1. PICK t \in held : SameSession(s, t)
      BY <2>1
    <3>2. t.url \in Urls
      BY DEF TypeOK, SessionObject
    <3>3. QED
      BY <3>1, <3>2 DEF SameSession, SessionsHeld, BefriendedTo
  <2>2. CASE \E p \in Callers : Kept(p) /\ s = NewSession(p)
    <3>1. PICK p \in Callers : Kept(p) /\ s = NewSession(p)
      BY <2>2
    <3>2. frame[p].url \in Urls
      BY DEF TypeOK, Frame
    <3>3. QED
      BY <3>1, <3>2, KeptIsBefriended DEF NewSession
  <2>3. QED
    BY <2>1, <2>2, HeldStep
<1>b. PICK u \in Urls : \E id, mode :
        /\ s.url = u /\ s.session_id = id /\ s.payload_mode = mode
        /\ BefriendedTo(u, id, mode)
  BY <1>a
<1>1. PICK id, mode :
        /\ s.url = u /\ s.session_id = id /\ s.payload_mode = mode
        /\ BefriendedTo(u, id, mode)
  BY <1>b
<1>2. Verified(u) => KnownAt(u, id, mode)'
  BY <1>1, KnownKept DEF BefriendedTo
<1>3. QED
  BY <1>1, <1>2 DEF BefriendedTo, KnownAt

LEMMA NextSubmittersHold ==
  ASSUME TypeOK, WireInv, IdentityInv, SubmittersHold, [Next]_pyVars
  PROVE  SubmittersHold'
<1> SUFFICES ASSUME NEW p \in Callers, pc'[p] = "submit"
             PROVE  \E s \in held' : s.session_id = frame'[p].session_id /\ s.url = frame'[p].url
  BY DEF SubmittersHold
<1>1. \A t \in held : \E s \in held' : SameSession(s, t)
  BY HeldStep
<1>2. CASE pc'[p] = pc[p] /\ frame'[p] = frame[p]
  BY <1>1, <1>2 DEF SubmittersHold, SameSession
<1>3. ASSUME NEW q \in Callers, CoroutineRuns(q)
      PROVE  \E s \in held' : s.session_id = frame'[p].session_id /\ s.url = frame'[p].url
  <2>1. /\ Others(q)
        /\ \/ \E s \in held : SubmittedIn(q, s)
           \/ Greeted(q) \/ Proposed(q) \/ AskedIdentity(q) \/ Kept(q) \/ Raised(q) \/ Received(q)
    BY <1>3, CoroutineForms
  <2>2. CASE p # q
    BY <1>2, <2>1, <2>2 DEF Others
  <2>3. ASSUME NEW s \in held, p = q, SubmittedIn(p, s)
        PROVE  \E t \in held' : t.session_id = frame'[p].session_id /\ t.url = frame'[p].url
    BY <1>1, <2>3 DEF SubmittedIn, TaskSent, SameSession
  <2>4. CASE p = q /\ Kept(p)
    <3>1. NewSession(p) \in held' /\ TaskSent(p, frame[p].session_id, frame[p].url)
      BY <2>4 DEF Kept, Quits
    <3>2. NewSession(p).session_id = frame[p].session_id /\ NewSession(p).url = frame[p].url
      BY DEF NewSession
    <3>3. QED
      BY <3>1, <3>2 DEF TaskSent
  <2>5. QED
    BY <2>1, <2>2, <2>3, <2>4 DEF Greeted, Proposed, AskedIdentity, Raised, Received, Quits
<1>4. QED
  BY <1>2, <1>3, StepForms
     DEF WireInv, DelegateServes, NetworkStep, ClockOrNothing, clientVars

LEMMA NextTasksBefriended ==
  ASSUME TypeOK, WireInv, IdentityInv, HandshakeInv, SessionsHeld, TasksBefriended, [Next]_pyVars
  PROVE  TasksBefriended'
<1>1. ASSUME \A r \in requests' : r.msg.type = "task_submit" => Befriended(r.to),
             \A u \in Urls : ran'[u] # {} \/ tasks'[u] # {} => Befriended(u)
      PROVE  TasksBefriended'
  BY <1>1 DEF TasksBefriended, Befriended, Verified, DomainOf
<1>2. ASSUME NEW p \in Callers, CoroutineRuns(p) PROVE TasksBefriended'
  <2>1. UNCHANGED <<ran, tasks>>
    BY <1>2 DEF CoroutineRuns, delegateVars, serverVars
  <2>2. ASSUME NEW type, NEW u, Posted(p, type, u), type = "task_submit" => Befriended(u)
        PROVE  TasksBefriended'
    BY <1>1, <2>1, <2>2 DEF Posted, TasksBefriended
  <2>3. ASSUME NEW s \in held, SubmittedIn(p, s) PROVE TasksBefriended'
    BY <2>2, <2>3 DEF SubmittedIn, TaskSent, SessionsHeld
  <2>4. CASE Greeted(p) \/ AskedIdentity(p)
    BY <2>2, <2>4 DEF Greeted, AskedIdentity
  <2>5. CASE Proposed(p)
    BY <1>1, <2>1, <2>5 DEF Proposed, TasksBefriended
  <2>6. CASE Quits(p)
    BY <1>1, <2>1, <2>6 DEF Quits, TasksBefriended
  <2>7. CASE Kept(p)
    <3>1. Befriended(frame[p].url)
      BY <2>7, KeptIsBefriended DEF BefriendedTo
    <3>2. QED
      BY <2>2, <2>6, <2>7, <3>1 DEF Kept, TaskSent
  <2>8. QED
    BY <1>2, <2>3, <2>4, <2>5, <2>6, <2>7, CoroutineForms DEF Raised, Received
<1>3. ASSUME NEW p \in Callers, NetworkStep(p) PROVE TasksBefriended'
  <2>1. UNCHANGED <<ran, tasks>> /\ ConnectionFails(p) /\ WireTypeOK
    BY <1>3, TypeParts DEF NetworkStep, delegateVars, serverVars
  <2>2. \A r \in requests' : \E q \in requests : r.msg = q.msg /\ r.to = q.to
    BY <2>1, FailFields
  <2>3. QED
    BY <1>1, <2>1, <2>2 DEF TasksBefriended
<1>4. CASE DelegateServes
  <2>1. PICK r \in requests : Serves(r)
    BY <1>4 DEF DelegateServes
  <2>2. r.to \in Urls
    BY RequestIs
  <2>3. \A q \in requests' : \E t \in requests : q.msg = t.msg /\ q.to = t.to
    <3>1. CASE \E reply : Answer(r, reply)
      BY <3>1 DEF Answer
    <3>2. CASE Advance(r, "executed")
      BY <3>2, TypeParts, AdvanceFields
    <3>3. QED
      BY <2>1, <3>1, <3>2 DEF Serves, Replies, Opens, Runs
  <2>4. \A u \in Urls : ran'[u] # ran[u] \/ tasks'[u] # tasks[u] =>
          u = r.to /\ r.msg.type = "task_submit"
    <3>1. CASE Replies(r)
      BY <3>1 DEF Replies, serverVars, delegateVars
    <3>2. CASE Opens(r)
      BY <3>2 DEF Opens, OpensRust, OpensPy, serverVars, delegateVars
    <3>3. CASE Runs(r)
      BY <3>3 DEF Runs
    <3>4. QED
      BY <2>1, <3>1, <3>2, <3>3 DEF Serves
  <2>5. QED
    BY <1>1, <2>3, <2>4 DEF TasksBefriended
<1>5. CASE ClockOrNothing
  <2>1. UNCHANGED <<requests, ran, tasks>>
    BY <1>5 DEF ClockOrNothing, transportVars, serverVars, delegateVars
  <2>2. QED
    BY <1>1, <2>1 DEF TasksBefriended
<1>6. QED
  BY <1>2, <1>3, <1>4, <1>5, StepForms DEF WireInv

(* The mode the Rust server finds for the session of a submission is the   *)
(* one the client holds.                                                   *)
LEMMA ResultModeIsHeld ==
  ASSUME TypeOK, IdentityInv, SessionsHeld, NEW s \in held, s.url \in RustUrls
  PROVE  SessionMode(s.url, s.session_id) = s.payload_mode
<1>1. Verified(s.url) /\ s.url \in Urls
  BY DEF Verified, TypeOK, SessionObject
<1>2. PICK t \in sessions[s.url] : t.session_id = s.session_id /\ t.payload_mode = s.payload_mode
  BY <1>1 DEF SessionsHeld, KnownAt
<1>3. \A q \in sessions[s.url] : q.session_id = s.session_id => q = t
  BY <1>1, <1>2 DEF IdentityInv, OneSessionEach
<1>4. s.session_id \in SessionIds(s.url)
  BY <1>2 DEF SessionIds
<1>5. (CHOOSE q \in sessions[s.url] : q.session_id = s.session_id) = t
  BY <1>2, <1>3
<1>6. QED
  BY <1>2, <1>4, <1>5 DEF SessionMode

LEMMA NextResultInSessionMode ==
  ASSUME TypeOK, WireInv, IdentityInv, SessionsHeld, SubmittersHold, ResultInSessionMode,
         [Next]_pyVars
  PROVE  ResultInSessionMode'
<1> SUFFICES ASSUME NEW p \in Callers, pc'[p] = "submit", replies'[p].type = "task_result",
                    "payload_mode" \in DOMAIN replies'[p]
             PROVE  \E s \in held' : /\ s.session_id = frame'[p].session_id
                                     /\ s.payload_mode = replies'[p].payload_mode
  BY DEF ResultInSessionMode, Got
<1>1. \A t \in held : \E s \in held' : SameSession(s, t)
  BY HeldStep
<1>2. CASE pc'[p] = pc[p] /\ frame'[p] = frame[p] /\ replies'[p] = replies[p]
  BY <1>1, <1>2 DEF ResultInSessionMode, SameSession, Got
<1>3. ASSUME NEW q \in Callers, CoroutineRuns(q)
      PROVE  pc'[p] = pc[p] /\ frame'[p] = frame[p] /\ replies'[p] = replies[p]
  <2>1. Others(q) /\ (p = q => replies'[p].type = "none" \/ pc'[p] # "submit")
    BY <1>3, CoroutineForms
       DEF SubmittedIn, TaskSent, Posted, Greeted, Proposed, AskedIdentity, Kept, Raised, Received,
           Quits
  <2>2. QED
    BY <2>1 DEF Others
<1>4. ASSUME NEW q \in Callers, NetworkStep(q)
      PROVE  pc'[p] = pc[p] /\ frame'[p] = frame[p] /\ replies'[p] = replies[p]
  <2>1. UNCHANGED <<pc, frame>> /\ ConnectionFails(q) /\ WireTypeOK
    BY <1>4, TypeParts DEF NetworkStep, clientVars
  <2>2. QED
    BY <2>1, FailFields
<1>5. ASSUME NEW r \in requests, Serves(r), UNCHANGED <<held, pc, frame>>
      PROVE  \E s \in held' : /\ s.session_id = frame'[p].session_id
                              /\ s.payload_mode = replies'[p].payload_mode
  <2>1. CASE UNCHANGED replies
    BY <1>2, <1>5, <2>1
  <2>2. ASSUME NEW reply, Answer(r, reply),
               reply.type = "task_result" /\ "payload_mode" \in DOMAIN reply =>
                 r.to \in RustUrls /\ reply.payload_mode = SessionMode(r.to, r.msg.session_id)
        PROVE  \E s \in held' : /\ s.session_id = frame'[p].session_id
                                /\ s.payload_mode = replies'[p].payload_mode
    <3>1. CASE p # r.conn
      BY <1>2, <1>5, <2>2, <3>1, AnsweredAwaits
    <3>2. CASE p = r.conn
      <4>1. /\ replies'[p] = reply /\ pc[p] = AwaitOf[r.msg.type] /\ frame[p].url = r.to
            /\ r.msg.type = "task_submit" => frame[p].session_id = r.msg.session_id
        BY <2>2, <3>2, AnsweredAwaits
      <4>2. r.msg.type = "task_submit"
        BY <1>5, <4>1, RequestIs, AwaitOfMessage
      <4>3. PICK s \in held : s.session_id = frame[p].session_id /\ s.url = frame[p].url
        BY <1>5 DEF SubmittersHold
      <4>4. reply.payload_mode = s.payload_mode
        BY <2>2, <4>1, <4>2, <4>3, ResultModeIsHeld
      <4>5. QED
        BY <1>5, <4>1, <4>3, <4>4
    <3>3. QED
      BY <3>1, <3>2
  <2>3. CASE Replies(r)
    BY <2>2, <2>3 DEF Replies, QuietReply
  <2>4. CASE Opens(r)
    <3>1. PICK reply : Answer(r, reply) /\ reply.type \in {"session_accept", "error"}
      BY <2>4 DEF Opens, Failure
    <3>2. QED
      BY <2>2, <3>1
  <2>5. CASE Runs(r)
    BY <2>1, <2>2, <2>5 DEF Runs, Advance
  <2>6. QED
    BY <1>5, <2>3, <2>4, <2>5 DEF Serves
<1>6. CASE DelegateServes
  BY <1>5, <1>6 DEF DelegateServes, clientVars
<1>7. CASE ClockOrNothing
  BY <1>2, <1>7 DEF ClockOrNothing, transportVars, clientVars
<1>8. QED
  BY <1>2, <1>3, <1>4, <1>6, <1>7, StepForms DEF WireInv

LEMMA NextHolding ==
  ASSUME TypeOK, WireInv, IdentityInv, HandshakeInv, HoldingInv, [Next]_pyVars
  PROVE  HoldingInv'
BY NextSessionsHeld, NextSubmittersHold, NextTasksBefriended, NextResultInSessionMode DEF HoldingInv

-------------------------------------------------------------------------------
(* Counting *)

(* A step that answers and submits nothing. *)
LEMMA CountKept ==
  ASSUME TypeOK, CountInv, UNCHANGED <<held, answered>>, lastId' \in Nat, lastId' >= lastId,
         \A p \in Callers : pc'[p] = "submit" => pc[p] = "submit" /\ frame'[p] = frame[p]
  PROVE  CountInv'
<1>1. \A i \in Nat : i <= lastId => i <= lastId'
  BY DEF TypeOK
<1>2. /\ \A p \in Callers : frame[p].task \in Nat
      /\ \A a \in answered : a.task_id \in Nat
  BY DEF TypeOK, Frame
<1>3. AnsweredTasks' = AnsweredTasks /\ HeldIds' = HeldIds
  BY DEF AnsweredTasks, HeldIds
<1>4. TasksOnce'
  BY <1>1, <1>2, <1>3 DEF CountInv, TasksOnce
<1>5. AnsweredTasksCounted' /\ IsFiniteSet(answered)'
  BY DEF CountInv, AnsweredTasksCounted
<1>6. QED
  BY <1>4, <1>5 DEF CountInv

(* A task is submitted under an identifier of its own. *)
LEMMA TaskSentOnce ==
  ASSUME TypeOK, TasksOnce, NEW p \in Callers, NEW id, NEW u, TaskSent(p, id, u), Others(p),
         UNCHANGED answered, HeldIds \subseteq HeldIds'
  PROVE  TasksOnce'
<1>0. /\ lastId \in Nat /\ lastId' = lastId + 1
      /\ \A q \in Callers : frame[q].task \in Nat
      /\ \A a \in answered : a.task_id \in Nat
  BY DEF TaskSent, NewId, TypeOK, Frame
<1>1. pc'[p] = "submit" /\ frame'[p].task = lastId + 1
  BY DEF TaskSent, NewId
<1>2. \A q \in Callers \ {p} : pc'[q] = pc[q] /\ frame'[q] = frame[q]
  BY DEF Others
<1>3. AnsweredTasks' = AnsweredTasks
  BY DEF AnsweredTasks
<1>4. \A q \in Callers \ {p} : pc'[q] = "submit" =>
        frame'[q].task <= lastId /\ frame'[q].task \in Nat /\ frame'[q].task \notin AnsweredTasks
  BY <1>0, <1>2 DEF TasksOnce
<1>5. \A a \in answered : a.task_id <= lastId /\ a.task_id \in Nat /\ a.session_id \in HeldIds
  BY <1>0 DEF TasksOnce
<1>6. lastId + 1 \notin AnsweredTasks
  BY <1>0, <1>5 DEF AnsweredTasks
<1>7. \A q, r \in Callers :
        pc'[q] = "submit" /\ pc'[r] = "submit" /\ frame'[q].task = frame'[r].task => q = r
  <2> SUFFICES ASSUME NEW q \in Callers, NEW r \in Callers,
                      pc'[q] = "submit", pc'[r] = "submit", frame'[q].task = frame'[r].task, q # r
               PROVE  FALSE
    OBVIOUS
  <2>1. CASE q = p \/ r = p
    BY <1>0, <1>1, <1>4, <2>1
  <2>2. CASE q # p /\ r # p
    BY <1>2, <2>2 DEF TasksOnce
  <2>3. QED
    BY <2>1, <2>2
<1>8. \A q \in Callers : pc'[q] = "submit" =>
        frame'[q].task <= lastId' /\ frame'[q].task \notin AnsweredTasks'
  BY <1>0, <1>1, <1>3, <1>4, <1>6
<1>9. \A a \in answered' : a.task_id <= lastId' /\ a.session_id \in HeldIds'
  BY <1>0, <1>5
<1>10. QED
  BY <1>7, <1>8, <1>9 DEF TasksOnce

(* One more answer is one more in its session, and none in another. *)
LEMMA AnsweredOneMore ==
  ASSUME TypeOK, CountInv, NEW p \in Callers, Received(p), NEW id
  PROVE  /\ IsFiniteSet(answered')
         /\ Cardinality(AnsweredIn(id)) \in Nat
         /\ Cardinality({a \in answered' : a.session_id = id}) =
              Cardinality(AnsweredIn(id)) + (IF id = frame[p].session_id THEN 1 ELSE 0)
<1> DEFINE new == [task_id |-> frame[p].task, session_id |-> frame[p].session_id]
           after == {a \in answered' : a.session_id = id}
<1>1. answered' = answered \cup {new} /\ IsFiniteSet(answered)
  BY DEF Received, CountInv
<1>2. new.session_id = frame[p].session_id
  OBVIOUS
<1>3. new \notin answered
  <2>1. frame[p].task \notin AnsweredTasks
    BY DEF Received, CountInv, TasksOnce
  <2>2. QED
    BY <2>1 DEF AnsweredTasks
<1> HIDE DEF new
<1>4. IsFiniteSet(AnsweredIn(id)) /\ Cardinality(AnsweredIn(id)) \in Nat /\ IsFiniteSet(answered')
  <2>1. IsFiniteSet(AnsweredIn(id))
    BY <1>1, FS_Subset DEF AnsweredIn
  <2>2. QED
    BY <1>1, <2>1, FS_AddElement, FS_CardinalityType
<1>5. CASE id = frame[p].session_id
  <2>1. after = AnsweredIn(id) \cup {new} /\ new \notin AnsweredIn(id)
    BY <1>1, <1>2, <1>3, <1>5 DEF AnsweredIn
  <2>2. Cardinality(after) = Cardinality(AnsweredIn(id)) + 1
    BY <1>4, <2>1, FS_AddElement
  <2>3. QED
    BY <1>4, <1>5, <2>2
<1>6. CASE id # frame[p].session_id
  <2>1. after = AnsweredIn(id)
    BY <1>1, <1>2, <1>6 DEF AnsweredIn
  <2>2. Cardinality(after) = Cardinality(AnsweredIn(id))
    BY <2>1
  <2>3. Cardinality(after) = Cardinality(AnsweredIn(id)) + 0
    BY <1>4, <2>2
  <2>4. QED
    BY <1>4, <1>6, <2>3
<1>7. QED
  BY <1>5, <1>6

LEMMA ReceivedCounts ==
  ASSUME TypeOK, IdentityInv, SubmittersHold, CountInv, NEW p \in Callers, Received(p), Others(p)
  PROVE  CountInv'
<1>0. /\ \A s \in held : s \in SessionObject /\ s.task_count \in Nat
      /\ pc[p] = "submit" /\ pc'[p] = "idle" /\ lastId' = lastId
  BY DEF TypeOK, SessionObject, Received, Quits
<1>1. HeldIds' = HeldIds
  BY ReceivedHeld DEF HeldIds
<1>2. IsFiniteSet(answered)'
  BY AnsweredOneMore
<1>3. TasksOnce'
  <2>1. PICK id, task : id = frame[p].session_id /\ task = frame[p].task
    OBVIOUS
  <2>2. answered' = answered \cup {[task_id |-> task, session_id |-> id]}
    BY <2>1 DEF Received
  <2>3. AnsweredTasks' = AnsweredTasks \cup {task}
    <3> DEFINE new == [task_id |-> task, session_id |-> id]
    <3>1. answered' = answered \cup {new} /\ new.task_id = task
      BY <2>2
    <3> HIDE DEF new
    <3>2. QED
      BY <3>1 DEF AnsweredTasks
  <2>4. id \in HeldIds /\ task <= lastId
    BY <1>0, <2>1 DEF SubmittersHold, HeldIds, CountInv, TasksOnce
  <2>5. \A q \in Callers : pc'[q] = "submit" =>
          q # p /\ pc[q] = "submit" /\ frame'[q] = frame[q]
    BY <1>0 DEF Others
  <2>6. \A q \in Callers : pc'[q] = "submit" => frame[q].task # task
    BY <1>0, <2>1, <2>5 DEF CountInv, TasksOnce
  <2>7. QED
    BY <1>0, <1>1, <2>2, <2>3, <2>4, <2>5, <2>6 DEF CountInv, TasksOnce
<1>4. AnsweredTasksCounted'
  <2> SUFFICES ASSUME NEW s \in held'
               PROVE  s.task_count = Cardinality({a \in answered' : a.session_id = s.session_id})
    BY DEF AnsweredTasksCounted
  <2>1. PICK t \in held : /\ t.session_id = s.session_id
                          /\ s = IF t.session_id = frame[p].session_id THEN Counted(t) ELSE t
    BY ReceivedHeld
  <2>2. t.task_count = Cardinality(AnsweredIn(t.session_id))
    BY DEF CountInv, AnsweredTasksCounted, AnsweredIn
  <2>3. s.task_count = t.task_count + (IF t.session_id = frame[p].session_id THEN 1 ELSE 0)
    BY <1>0, <2>1, CountedFields
  <2>4. Cardinality({a \in answered' : a.session_id = s.session_id}) =
          Cardinality(AnsweredIn(t.session_id)) +
          (IF t.session_id = frame[p].session_id THEN 1 ELSE 0)
    BY <2>1, AnsweredOneMore
  <2>5. QED
    BY <2>2, <2>3, <2>4
<1>5. QED
  BY <1>2, <1>3, <1>4 DEF CountInv

(* A session just stored has had no task. *)
LEMMA KeptCounts ==
  ASSUME TypeOK, IdentityInv, CountInv, NEW p \in Callers, Kept(p), Others(p)
  PROVE  CountInv'
<1> DEFINE s == NewSession(p)
           id == frame[p].session_id
<1>1. /\ held' = held \cup {s} /\ UNCHANGED answered
      /\ s.session_id = id /\ s.task_count = 0
  BY DEF Kept, NewSession
<1>2. id \notin HeldIds
  BY AwaitsFields DEF Kept, Acceptable, Got, IdentityInv, OneOwner
<1>3. AnsweredIn(id) = {}
  BY <1>2 DEF AnsweredIn, CountInv, TasksOnce
<1> HIDE DEF s
<1>4. HeldIds \subseteq HeldIds'
  BY <1>1 DEF HeldIds
<1>5. TasksOnce'
  <2>1. CASE TaskSent(p, id, frame[p].url)
    BY <1>1, <1>4, <2>1, TaskSentOnce DEF CountInv
  <2>2. CASE Quits(p) /\ UNCHANGED lastId
    <3>1. \A q \in Callers : pc'[q] = "submit" => pc[q] = "submit" /\ frame'[q] = frame[q]
      BY <2>2 DEF Quits, Others
    <3>2. AnsweredTasks' = AnsweredTasks
      BY <1>1 DEF AnsweredTasks
    <3>3. QED
      BY <1>1, <1>4, <2>2, <3>1, <3>2 DEF CountInv, TasksOnce
  <2>3. QED
    BY <2>1, <2>2 DEF Kept
<1>6. AnsweredTasksCounted'
  <2>1. Cardinality(AnsweredIn(id)) = 0
    BY <1>3, FS_EmptySet
  <2>2. QED
    BY <1>1, <2>1 DEF CountInv, AnsweredTasksCounted, AnsweredIn
<1>7. IsFiniteSet(answered)'
  BY <1>1 DEF CountInv
<1>8. QED
  BY <1>5, <1>6, <1>7 DEF CountInv

LEMMA NextCount ==
  ASSUME TypeOK, WireInv, IdentityInv, SubmittersHold, CountInv, [Next]_pyVars
  PROVE  CountInv'
<1>0. TypeOK' /\ lastId \in Nat /\ lastId' \in Nat
  BY StepForms DEF WireInv, TypeOK
<1>1. ASSUME NEW p \in Callers, CoroutineRuns(p) PROVE CountInv'
  <2>0. Others(p)
    BY <1>1, CoroutineForms
  <2>1. ASSUME NEW s \in held, SubmittedIn(p, s) PROVE CountInv'
    <3>1. /\ TaskSent(p, s.session_id, s.url) /\ UNCHANGED <<held, answered>>
          /\ HeldIds' = HeldIds
      BY <2>1 DEF SubmittedIn, HeldIds
    <3>2. TasksOnce'
      BY <2>0, <3>1, TaskSentOnce DEF CountInv
    <3>3. QED
      BY <3>1, <3>2 DEF CountInv, AnsweredTasksCounted
  <2>2. ASSUME pc'[p] # "submit", UNCHANGED <<held, answered>>, lastId' >= lastId PROVE CountInv'
    <3>1. \A q \in Callers : pc'[q] = "submit" => pc[q] = "submit" /\ frame'[q] = frame[q]
      BY <2>0, <2>2 DEF Others
    <3>2. QED
      BY <1>0, <2>2, <3>1, CountKept
  <2>3. CASE Greeted(p) \/ Proposed(p) \/ AskedIdentity(p) \/ Raised(p)
    BY <1>0, <2>2, <2>3 DEF Greeted, Proposed, AskedIdentity, Raised, Quits, NewId
  <2>4. CASE Kept(p)
    BY <2>0, <2>4, KeptCounts
  <2>5. CASE Received(p)
    BY <2>0, <2>5, ReceivedCounts
  <2>6. QED
    BY <1>1, <2>1, <2>3, <2>4, <2>5, CoroutineForms
<1>2. CASE UNCHANGED clientVars /\ lastId' >= lastId
  BY <1>0, <1>2, CountKept DEF clientVars
<1>3. ASSUME DelegateServes PROVE UNCHANGED clientVars /\ lastId' >= lastId
  <2>1. PICK r \in requests : Serves(r)
    BY <1>3 DEF DelegateServes
  <2>2. lastId' = lastId \/ lastId' = lastId + 1
    BY <2>1 DEF Serves, Replies, Opens, OpensRust, OpensPy, Runs
  <2>3. QED
    BY <1>0, <1>3, <2>2 DEF DelegateServes
<1>4. QED
  BY <1>0, <1>1, <1>2, <1>3, StepForms DEF WireInv, NetworkStep, ClockOrNothing

-------------------------------------------------------------------------------
(* What has run *)

(* No delegate forgets a task: nothing a Python client sends cancels one. *)
LEMMA RanGrows ==
  ASSUME TypeOK, WireInv, [Next]_pyVars, NEW u \in Urls
  PROVE  RanAt(u) \subseteq RanAt(u)'
<1>1. CASE UNCHANGED <<serverVars, delegateVars>>
  BY <1>1 DEF serverVars, delegateVars, RanAt, TaskIds
<1>2. CASE DelegateServes
  <2>1. PICK r \in requests : Serves(r)
    BY <1>2 DEF DelegateServes
  <2>2. CASE Replies(r) \/ Opens(r)
    BY <2>2 DEF Replies, Opens, OpensRust, OpensPy, serverVars, delegateVars, RanAt, TaskIds
  <2>3. CASE Runs(r) /\ u = r.to
    BY <2>3 DEF Runs
  <2>4. CASE Runs(r) /\ u # r.to
    BY <2>4 DEF Runs, RanAt, TaskIds
  <2>5. QED
    BY <2>1, <2>2, <2>3, <2>4 DEF Serves
<1>3. QED
  BY <1>1, <1>2, StepForms DEF WireInv, CoroutineRuns, NetworkStep, ClockOrNothing

(* A submission in its second half has run: the first half ran it. *)
LEMMA NextExecutedRan ==
  ASSUME TypeOK, WireInv, IdentityInv, SubmissionsRan, [Next]_pyVars,
         NEW r \in requests', r.stage = "executed"
  PROVE  r.msg.task_id \in RanAt(r.to)'
<1>1. CASE \E q \in requests : q.stage = "executed" /\ q.to = r.to /\ q.msg = r.msg
  <2>1. PICK q \in requests : q.stage = "executed" /\ q.to = r.to /\ q.msg = r.msg
    BY <1>1
  <2>2. r.msg.task_id \in RanAt(r.to) /\ r.to \in Urls
    BY <2>1, RequestIs DEF SubmissionsRan
  <2>3. QED
    BY <2>2, RanGrows
<1>2. CASE r \in requests
  BY <1>1, <1>2
<1>3. ASSUME NEW p \in Callers, CoroutineRuns(p) PROVE r \in requests
  BY <1>3, CoroutineForms
     DEF SubmittedIn, TaskSent, Posted, Greeted, Proposed, AskedIdentity, Kept, Raised, Received,
         Quits
<1>4. ASSUME NEW p \in Callers, NetworkStep(p)
      PROVE  \E q \in requests : q.stage = r.stage /\ q.to = r.to /\ q.msg = r.msg
  <2>1. ConnectionFails(p) /\ WireTypeOK
    BY <1>4, TypeParts DEF NetworkStep
  <2>2. QED
    BY <2>1, FailFields
<1>5. CASE DelegateServes
  <2>1. PICK q \in requests : Serves(q)
    BY <1>5 DEF DelegateServes
  <2>2. CASE \E reply : Answer(q, reply)
    BY <1>2, <2>2 DEF Answer
  <2>3. CASE Runs(q) /\ Advance(q, "executed")
    <3>1. \E t : /\ requests' = (requests \ {q}) \cup {t}
                /\ t.to = q.to /\ t.msg = q.msg
      BY <2>3, TypeParts, AdvanceFields
    <3>2. r \in requests \/ (r.to = q.to /\ r.msg = q.msg)
      BY <3>1
    <3>3. QED
      BY <1>2, <2>3, <3>2 DEF Runs
  <2>4. QED
    BY <2>1, <2>2, <2>3 DEF Serves, Replies, Opens, Runs
<1>6. CASE ClockOrNothing
  BY <1>2, <1>6 DEF ClockOrNothing, transportVars
<1>7. QED
  BY <1>1, <1>2, <1>3, <1>4, <1>5, <1>6, StepForms DEF WireInv

(* A reply to a submission is an error, a refusal, or comes of a run. *)
LEMMA ReplyIsOfRun ==
  ASSUME TypeOK, WireInv, SubmissionsRan, NEW r \in requests, Serves(r),
         r.msg.type = "task_submit", Verified(r.to), NEW p \in Callers, p = r.conn,
         replies'[p].type \notin {"none", "error"}
  PROVE  r.msg.task_id \in RanAt(r.to)'
<1>0. r.to \in Urls
  BY RequestIs
<1>1. CASE Replies(r)
  <2>1. PICK reply \in Reply : QuietReply(r, reply) /\ Answer(r, reply)
    BY <1>1 DEF Replies
  <2>2. replies'[p] = reply
    BY <2>1, AnsweredAwaits
  <2>3. r.stage = "executed"
    BY <2>1, <2>2 DEF QuietReply
  <2>4. r.msg.task_id \in RanAt(r.to)
    BY <2>3 DEF SubmissionsRan
  <2>5. QED
    BY <1>1, <2>4 DEF Replies, serverVars, delegateVars, RanAt, TaskIds
<1>2. CASE Runs(r)
  BY <1>2 DEF Runs
<1>3. QED
  BY <1>1, <1>2 DEF Serves, Opens

LEMMA NextSubmissionsRan ==
  ASSUME TypeOK, WireInv, IdentityInv, SubmissionsRan, [Next]_pyVars
  PROVE  SubmissionsRan'
<1>1. ASSUME NEW p \in Callers, pc'[p] = "submit", replies'[p].type \notin {"none", "error"},
             NEW u \in Urls, frame'[p].url = u, Verified(u)
      PROVE  frame'[p].task \in RanAt(u)'
  <2>1. CASE pc'[p] = pc[p] /\ frame'[p] = frame[p] /\ replies'[p] = replies[p]
    <3>1. frame[p].task \in RanAt(u)
      BY <1>1, <2>1 DEF SubmissionsRan, Got
    <3>2. QED
      BY <2>1, <3>1, RanGrows
  <2>2. ASSUME NEW q \in Callers, CoroutineRuns(q)
        PROVE  pc'[p] = pc[p] /\ frame'[p] = frame[p] /\ replies'[p] = replies[p]
    <3>1. Others(q) /\ (p = q => replies'[p].type = "none" \/ pc'[p] # "submit")
      BY <2>2, CoroutineForms
         DEF SubmittedIn, TaskSent, Posted, Greeted, Proposed, AskedIdentity, Kept, Raised,
             Received, Quits
    <3>2. QED
      BY <1>1, <3>1 DEF Others
  <2>3. ASSUME NEW q \in Callers, NetworkStep(q)
        PROVE  pc'[p] = pc[p] /\ frame'[p] = frame[p] /\ replies'[p] = replies[p]
    <3>1. UNCHANGED <<pc, frame>> /\ ConnectionFails(q) /\ WireTypeOK
      BY <2>3, TypeParts DEF NetworkStep, clientVars
    <3>2. QED
      BY <1>1, <3>1, FailFields
  <2>4. CASE DelegateServes
    <3>1. PICK r \in requests : Serves(r)
      BY <2>4 DEF DelegateServes
    <3>2. UNCHANGED <<pc, frame>>
      BY <2>4 DEF DelegateServes, clientVars
    <3>3. CASE UNCHANGED replies
      BY <2>1, <3>2, <3>3
    <3>4. ASSUME NEW reply, Answer(r, reply) PROVE frame'[p].task \in RanAt(u)'
      <4>1. CASE p # r.conn
        BY <2>1, <3>2, <3>4, <4>1, AnsweredAwaits
      <4>2. CASE p = r.conn
        <5>1. /\ pc[p] = AwaitOf[r.msg.type] /\ frame[p].url = r.to
              /\ r.msg.type = "task_submit" => frame[p].task = r.msg.task_id
          BY <3>4, <4>2, AnsweredAwaits
        <5>2. r.msg.type = "task_submit"
          BY <1>1, <3>2, <5>1, RequestIs, AwaitOfMessage
        <5>3. r.to = u
          BY <1>1, <3>2, <5>1
        <5>4. r.msg.task_id \in RanAt(r.to)'
          BY <1>1, <3>1, <4>2, <5>2, <5>3, ReplyIsOfRun
        <5>5. QED
          BY <3>2, <5>1, <5>2, <5>3, <5>4
      <4>3. QED
        BY <4>1, <4>2
    <3>5. QED
      BY <3>1, <3>3, <3>4 DEF Serves, Replies, Opens, Runs, Advance
  <2>5. CASE ClockOrNothing
    BY <2>1, <2>5 DEF ClockOrNothing, transportVars, clientVars
  <2>6. QED
    BY <2>1, <2>2, <2>3, <2>4, <2>5, StepForms DEF WireInv
<1>2. \A p \in Callers : frame'[p].url \in Urls
  BY StepForms DEF WireInv, TypeOK, Frame
<1>3. \A p \in Callers :
        pc'[p] = "submit" /\ ~Got(p, "none")' /\ ~Got(p, "error")' /\ Verified(frame'[p].url) =>
          frame'[p].task \in RanAt(frame[p].url)'
  <2> SUFFICES ASSUME NEW p \in Callers, pc'[p] = "submit", ~Got(p, "none")', ~Got(p, "error")',
                      Verified(frame'[p].url)
               PROVE  frame'[p].task \in RanAt(frame[p].url)'
    OBVIOUS
  <2>1. PICK u \in Urls : u = frame'[p].url
    BY <1>2
  <2>2. replies'[p].type \notin {"none", "error"}
    BY DEF Got
  <2>3. frame'[p].task \in RanAt(u)'
    BY <1>1, <2>1, <2>2
  <2>4. QED
    BY <2>1, <2>3 DEF RanAt, TaskIds
<1>4. \A r \in requests' : r.stage = "executed" => r.msg.task_id \in RanAt(r.to)'
  BY NextExecutedRan
<1>5. QED
  BY <1>3, <1>4 DEF SubmissionsRan, Verified

(* The answer that counts is to a task that has run, and a session keeps   *)
(* its delegate.                                                           *)
LEMMA NextAnsweredTasksRan ==
  ASSUME TypeOK, WireInv, IdentityInv, SubmittersHold, CountInv, RanInv, [Next]_pyVars
  PROVE  AnsweredTasksRan'
<1> SUFFICES ASSUME NEW a \in answered', NEW s \in held',
                    a.session_id = s.session_id, Verified(s.url)
             PROVE  a.task_id \in RanAt(s.url)'
  BY DEF AnsweredTasksRan, Verified
<1>0. s.url \in Urls
  BY StepForms DEF WireInv, TypeOK, SessionObject
<1>1. CASE a \in answered
  <2>1. a.session_id \in HeldIds
    BY <1>1 DEF CountInv, TasksOnce
  <2>2. ASSUME NEW p \in Callers, Kept(p), s = NewSession(p) PROVE FALSE
    <3>1. s.session_id = frame[p].session_id
      BY <2>2 DEF NewSession
    <3>2. frame[p].session_id \notin HeldIds
      BY <2>2, AwaitsFields DEF Kept, Acceptable, Got, IdentityInv, OneOwner
    <3>3. QED
      BY <2>1, <3>1, <3>2
  <2>3. PICK t \in held : SameSession(s, t)
    BY <2>2, HeldStep
  <2>4. a.task_id \in RanAt(s.url)
    BY <1>1, <2>3 DEF SameSession, RanInv, AnsweredTasksRan
  <2>5. QED
    BY <1>0, <2>4, RanGrows
<1>2. ASSUME NEW p \in Callers, Received(p), a \notin answered
      PROVE  a.task_id \in RanAt(s.url)'
  <2>1. a.task_id = frame[p].task /\ a.session_id = frame[p].session_id
    BY <1>2 DEF Received
  <2>2. PICK t \in held : t.session_id = s.session_id /\ t.url = s.url
    BY <1>2, ReceivedHeld
  <2>3. t.url = frame[p].url
    BY <1>2, <2>1, <2>2 DEF Received, SubmittersHold, IdentityInv, OneOwner
  <2>4. a.task_id \in RanAt(s.url)
    BY <1>2, <2>1, <2>2, <2>3 DEF Received, Replied, RanInv, SubmissionsRan
  <2>5. QED
    BY <1>0, <2>4, RanGrows
<1>3. UNCHANGED answered \/ \E p \in Callers : Received(p)
  <2>1. ASSUME NEW p \in Callers, CoroutineRuns(p) PROVE UNCHANGED answered \/ Received(p)
    BY <2>1, CoroutineForms DEF SubmittedIn, Greeted, Proposed, AskedIdentity, Kept, Raised
  <2>2. QED
    BY <2>1, StepForms DEF WireInv, DelegateServes, NetworkStep, ClockOrNothing, clientVars
<1>4. QED
  BY <1>1, <1>2, <1>3

LEMMA NextRan ==
  ASSUME TypeOK, WireInv, IdentityInv, SubmittersHold, CountInv, RanInv, [Next]_pyVars
  PROVE  RanInv'
BY NextSubmissionsRan, NextAnsweredTasksRan DEF RanInv

-------------------------------------------------------------------------------
(* The theorems *)

LEMMA InitPy == Init => PyInv
<1> SUFFICES ASSUME Init PROVE PyInv
  OBVIOUS
<1>1. /\ requests = {} /\ held = {} /\ answered = {} /\ lastId = 0
      /\ \A p \in Callers : pc[p] = "idle" /\ replies[p] = NoReply
      /\ \A u \in Urls : /\ sessions[u] = {} /\ ran[u] = {} /\ tasks[u] = {}
                         /\ current[u] = NoId
  BY DEF Init, TransportInit, UuidsInit, ServerInit, DelegateInit, ClientInit, NoId
<1>2. WireInv
  BY <1>1 DEF WireInv, RequestsAwaited, OneRequestEach, ExecutedAreSubmissions, LocalsSent
<1>3. IdentityInv
  BY <1>1 DEF IdentityInv, IdsDrawn, OneOwner, ProposalsFresh, OneSessionEach, CurrentHeld,
              HeldIds, SessionIds, Awaits, Proposals
<1>4. HandshakeInv
  BY <1>1 DEF HandshakeInv, ProposalsAnswered, DiscoverersAccepted
<1>5. HoldingInv
  BY <1>1 DEF HoldingInv, SessionsHeld, SubmittersHold, TasksBefriended, ResultInSessionMode
<1>6. CountInv
  BY <1>1, FS_EmptySet DEF CountInv, TasksOnce, AnsweredTasksCounted
<1>7. RanInv
  BY <1>1 DEF RanInv, SubmissionsRan, AnsweredTasksRan
<1>8. QED
  BY <1>2, <1>3, <1>4, <1>5, <1>6, <1>7 DEF PyInv

LEMMA NextPy ==
  TypeOK /\ PyInv /\ [Next]_pyVars => TypeOK' /\ PyInv'
<1> SUFFICES ASSUME TypeOK, PyInv, [Next]_pyVars PROVE TypeOK' /\ PyInv'
  OBVIOUS
<1>1. TypeOK'
  BY StepForms DEF PyInv, WireInv
<1>2. WireInv' /\ IdentityInv' /\ HandshakeInv' /\ HoldingInv' /\ CountInv' /\ RanInv'
  BY NextWire, NextIdentity, NextHandshake, NextHolding, NextCount, NextRan DEF PyInv, HoldingInv
<1>3. QED
  BY <1>1, <1>2 DEF PyInv

(* In every reachable state the client and the delegates of both SDKs hold *)
(* what their classes and structs say.                                      *)
THEOREM PyTypeCorrect == Spec => []TypeOK
<1>1. TypeOK /\ PyInv /\ [Next]_pyVars => (TypeOK /\ PyInv)'
  BY NextPy
<1>2. QED
  BY <1>1, InitType, InitPy, PTL DEF Spec

(* The inductive invariant: requests match the coroutines that await them, *)
(* an identifier names one handshake and then one session, and what a      *)
(* coroutine holds its delegate has said.                                  *)
THEOREM PyInvariantHolds == Spec => []PyInv
<1>1. TypeOK /\ PyInv /\ [Next]_pyVars => (TypeOK /\ PyInv)'
  BY NextPy
<1>2. QED
  BY <1>1, InitType, InitPy, PTL DEF Spec

(* A coroutine never works in a mode one of the two has no codec for, a    *)
(* refused handshake, a raising hook and a lost reply included.            *)
THEOREM ModesSpoken == Spec => []ModeSpoken
<1>1. PyInv => ModeSpoken
  BY DEF PyInv, HoldingInv, SessionsHeld, Spoken, ModeSpoken
<1>2. QED
  BY <1>1, PyInvariantHolds, PTL

(* The Rust server sends a result in the mode the client has for the       *)
(* session the task ran in.                                                *)
THEOREM PyResultsInSessionMode == Spec => []ResultInSessionMode
<1>1. PyInv => ResultInSessionMode
  BY DEF PyInv, HoldingInv
<1>2. QED
  BY <1>1, PyInvariantHolds, PTL

(* task_count is the number of answered submissions, whatever coroutines   *)
(* interleave and connections fail.                                        *)
THEOREM AnsweredTasksAreCounted == Spec => []AnsweredTasksCounted
<1>1. PyInv => AnsweredTasksCounted
  BY DEF PyInv, CountInv
<1>2. QED
  BY <1>1, PyInvariantHolds, PTL

(* A task that counts in a session was run by that session's delegate, if   *)
(* it verifies the client's signature: no lost request or reply counts.     *)
THEOREM AnsweredTasksHaveRun == Spec => []AnsweredTasksRan
<1>1. PyInv => AnsweredTasksRan
  BY DEF PyInv, RanInv
<1>2. QED
  BY <1>1, PyInvariantHolds, PTL

(* A session the client holds with a delegate that verifies its signature  *)
(* is one the delegate accepted, in the mode the delegate believes.        *)
THEOREM SessionsAreAccepted == Spec => []SessionAccepted
<1>1. PyInv => SessionAccepted
  BY DEF PyInv, HoldingInv, SessionsHeld, SessionAccepted
<1>2. QED
  BY <1>1, PyInvariantHolds, PTL

(* A delegate that has to do with the client is one the client trusts, if   *)
(* it enforces trust domains, and trusts the client, if it verifies its     *)
(* signature.                                                               *)
THEOREM TrustIsMutual == Spec => []MutualTrust
<1>1. PyInv => MutualTrust
  BY DEF PyInv, HoldingInv, SessionsHeld, TasksBefriended, Befriended, MutualTrust
<1>2. QED
  BY <1>1, PyInvariantHolds, PTL

===============================================================================
