---------------------------- MODULE LdpAdapterProofs --------------------------
(***************************************************************************)
(* Types of the Rust client, whoever answers it: what the steps of         *)
(* LdpAdapter and SessionManager preserve and send, for every number of    *)
(* tasks and delegates.                                                    *)
(***************************************************************************)
EXTENDS LdpAdapter, LdpTypesProofs

USE UrlsNonEmpty, TtlIsUnsigned, PrefsAreModes, MaxOpsIsNat, ContractChoicesAreContracts

-------------------------------------------------------------------------------
(* All a step of p does to the transport. *)
ClientSends(p) ==
  \/ \E u \in Urls, msg \in Message : Post(p, u, msg)
  \/ Consume(p)
  \/ UNCHANGED transportVars

(* What p's reply carries if p takes anything from it. *)
ReplyUsable(p) ==
  /\ Answered(p, "session_accept") => replies[p].session_id \in Id
  /\ pc[p] = "polled" /\ Answered(p, "task_result") => replies[p].mode_used \in PayloadMode

LEMMA PostSends ==
  ASSUME NEW p \in Callers, NEW u \in Urls, NEW msg \in Message, Post(p, u, msg)
  PROVE  ClientSends(p)
BY DEF ClientSends

LEMMA ConsumeSends ==
  ASSUME NEW p \in Callers, Consume(p)
  PROVE  ClientSends(p)
BY DEF ClientSends

LEMMA BlankType == NoSession \in Session /\ \A u \in Urls : Blank(u) \in Frame
BY DEF Blank, Frame, FrameOp, NoSession, Session, NoContract, Contract, NoId, Id, PayloadMode

LEMMA SomeUrlType == SomeUrl \in Urls
BY DEF SomeUrl

LEMMA GotoType ==
  ASSUME ManagerTypeOK, NEW p \in Callers, NEW label \in Label, NEW locals \in Frame,
         Goto(p, label, locals)
  PROVE  pc' \in [Callers -> Label] /\ frame' \in [Callers -> Frame]
BY DEF ManagerTypeOK, Goto

LEMMA ReturnType ==
  ASSUME ManagerTypeOK, NEW p \in Callers, Return(p)
  PROVE  pc' \in [Callers -> Label] /\ frame' \in [Callers -> Frame]
BY BlankType, SomeUrlType, GotoType DEF Return, Label

LEMMA NegotiatedType ==
  ASSUME NEW prefs \in Seq(PayloadMode), NEW remote
  PROVE  AgreedMode(prefs, remote) \in PayloadMode
BY AgreedIsUsable

LEMMA FrameFields ==
  ASSUME ManagerTypeOK, NEW p \in Callers
  PROVE  /\ frame[p] \in Frame
         /\ frame[p].op \in FrameOp
         /\ frame[p].url \in Urls
         /\ frame[p].session \in Session
         /\ frame[p].session.session_id \in Id
         /\ frame[p].session.payload_mode \in PayloadMode
         /\ frame[p].task \in Id
         /\ frame[p].contract \in Contract
         /\ frame[p].closing \in SUBSET Urls
BY DEF ManagerTypeOK, Frame, Session

LEMMA TouchedType ==
  ASSUME ManagerTypeOK, now \in Nat, NEW u \in Urls
  PROVE  Touched(u) \in [Urls -> Session]
<1> DEFINE touched == [cache[u] EXCEPT !.last_used = now, !.task_count = @ + 1]
<1>1. cache \in [Urls -> Session]
  BY DEF ManagerTypeOK
<1>2. touched \in Session
  <2>1. cache[u] \in Session /\ cache[u].task_count + 1 \in Nat
    BY <1>1 DEF Session
  <2>2. touched = [cache[u] EXCEPT !.last_used = now, !.task_count = cache[u].task_count + 1]
    BY <2>1 DEF Session
  <2>3. QED
    BY <2>1, <2>2 DEF Session
<1>3. [cache EXCEPT ![u] = touched] \in [Urls -> Session]
  BY <1>1, <1>2
<1>4. Touched(u) \in {cache, [cache EXCEPT ![u] = touched]}
  BY <1>1 DEF Touched, Session
<1>5. QED
  BY <1>1, <1>3, <1>4

LEMMA RemoveAndSendCloseType ==
  ASSUME ManagerTypeOK, NEW p \in Callers, NEW u \in Urls,
         NEW rest \in SUBSET Urls, RemoveAndSendClose(p, u, rest)
  PROVE  /\ ClientSends(p)
         /\ cache' \in [Urls -> Session]
         /\ pc' \in [Callers -> Label]
         /\ frame' \in [Callers -> Frame]
         /\ lastId' \in Id
<1> DEFINE msg == [type |-> "session_close", session_id |-> cache[u].session_id,
                   signature |-> NoSecret]
           locals == [frame[p] EXCEPT !.op = "close", !.url = u, !.session = cache[u],
                                      !.closing = rest]
<1>1. cache[u] \in Session /\ cache[u].session_id \in Id
  BY DEF ManagerTypeOK, Session
<1>2. msg \in Message
  BY <1>1 DEF Message, Signature
<1>3. locals \in Frame
  BY <1>1, FrameFields DEF Frame, FrameOp
<1>4. Post(p, u, msg) /\ Goto(p, "close", locals)
  BY DEF RemoveAndSendClose
<1>5. ClientSends(p)
  BY <1>2, <1>4, PostSends
<1>6. pc' \in [Callers -> Label] /\ frame' \in [Callers -> Frame]
  BY <1>3, <1>4, GotoType DEF Label
<1>7. cache' \in [Urls -> Session] /\ lastId' \in Id
  BY BlankType DEF RemoveAndSendClose, ManagerTypeOK
<1>8. QED
  BY <1>5, <1>6, <1>7

LEMMA ManagerStepType ==
  ASSUME ManagerTypeOK, now \in Nat, NEW p \in Callers, ReplyUsable(p), ManagerStep(p)
  PROVE  ClientSends(p) /\ ManagerTypeOK'
<1>1. CASE ReceiveManifest(p)
  <2> DEFINE mode == ClientNegotiates(ManifestModes(replies[p]))
             id == lastId + 1
             msg == [type |-> "session_propose", session_id |-> id, payload_mode |-> mode,
                     ttl_secs |-> TtlSecs, trust_domain |-> ClientDomain.name,
                     signature |-> ClientSecret]
             locals == [frame[p] EXCEPT !.session.session_id = id,
                                        !.session.payload_mode = mode]
  <2>1. mode \in PayloadMode
    BY NegotiatedType DEF ClientNegotiates
  <2>2. id \in Id
    BY DEF ManagerTypeOK, Id
  <2> HIDE DEF mode, id
  <2>3. msg \in Message
    BY <2>1, <2>2 DEF Message, Signature
  <2>4. locals \in Frame
    BY <2>1, <2>2, FrameFields DEF Frame, Session
  <2>5. /\ Post(p, frame[p].url, msg)
        /\ Goto(p, "propose", locals)
        /\ lastId' = id
        /\ UNCHANGED <<cache, ops, closed>>
    BY <1>1 DEF ReceiveManifest, mode, id
  <2>6. ClientSends(p)
    BY <2>3, <2>5, PostSends, FrameFields
  <2>7. pc' \in [Callers -> Label] /\ frame' \in [Callers -> Frame]
    BY <2>4, <2>5, GotoType DEF Label
  <2>8. QED
    BY <2>2, <2>5, <2>6, <2>7 DEF ManagerTypeOK
<1>2. CASE ReceiveAccept(p)
  <2> DEFINE session == [session_id |-> replies[p].session_id,
                         payload_mode |-> frame[p].session.payload_mode,
                         last_used |-> now, task_count |-> 0]
             locals == [frame[p] EXCEPT !.session = session]
  <2>1. replies[p].session_id \in Id
    BY <1>2 DEF ReceiveAccept, ReplyUsable
  <2>2. session \in Session
    BY <2>1, FrameFields DEF Session, Id
  <2>3. locals \in Frame
    BY <2>2, FrameFields DEF Frame
  <2>4. Goto(p, "caching", locals)
    BY <1>2, FrameFields DEF ReceiveAccept, Frame, Session
  <2>5. pc' \in [Callers -> Label] /\ frame' \in [Callers -> Frame]
    BY <2>3, <2>4, GotoType DEF Label
  <2>6. QED
    BY <1>2, <2>5, ConsumeSends DEF ReceiveAccept, ManagerTypeOK
<1>3. CASE HandshakeFails(p)
  BY <1>3, ConsumeSends, ReturnType DEF HandshakeFails, ManagerTypeOK
<1>4. CASE CacheSession(p)
  <2>1. pc' \in [Callers -> Label] /\ frame' \in [Callers -> Frame]
    BY <1>4, GotoType, FrameFields DEF CacheSession, Label
  <2>2. cache' \in [Urls -> Session]
    BY <1>4, FrameFields DEF CacheSession, ManagerTypeOK
  <2>3. QED
    BY <1>4, <2>1, <2>2 DEF CacheSession, ManagerTypeOK, ClientSends
<1>5. CASE CloseNext(p)
  <2>1. PICK u \in frame[p].closing : RemoveAndSendClose(p, u, frame[p].closing \ {u})
    BY <1>5 DEF CloseNext
  <2>2. u \in Urls /\ frame[p].closing \ {u} \in SUBSET Urls
    BY <2>1, FrameFields
  <2>3. QED
    BY <1>5, <2>1, <2>2, RemoveAndSendCloseType DEF CloseNext, ManagerTypeOK
<1>6. CASE CloseSkips(p)
  <2>1. PICK u \in frame[p].closing :
          Goto(p, "closing", [frame[p] EXCEPT !.closing = @ \ {u}])
    BY <1>6 DEF CloseSkips
  <2>2. [frame[p] EXCEPT !.closing = @ \ {u}] \in Frame
    BY FrameFields DEF Frame
  <2>3. pc' \in [Callers -> Label] /\ frame' \in [Callers -> Frame]
    BY <2>1, <2>2, GotoType DEF Label
  <2>4. QED
    BY <1>6, <2>3 DEF CloseSkips, ManagerTypeOK, ClientSends
<1>7. CASE CloseAllReturns(p)
  BY <1>7, ReturnType DEF CloseAllReturns, ManagerTypeOK, ClientSends
<1>8. CASE CloseReturns(p)
  <2> DEFINE locals == [Blank(SomeUrl) EXCEPT !.op = "close", !.closing = frame[p].closing]
  <2>1. locals \in Frame
    <3>1. Blank(SomeUrl) \in Frame /\ "close" \in FrameOp /\ frame[p].closing \in SUBSET Urls
      BY BlankType, SomeUrlType, FrameFields DEF FrameOp
    <3>2. QED
      BY <3>1 DEF Frame
  <2>2. Return(p) \/ Goto(p, "closing", locals)
    BY <1>8 DEF CloseReturns
  <2>3. pc' \in [Callers -> Label] /\ frame' \in [Callers -> Frame]
    BY <2>1, <2>2, ReturnType, GotoType DEF Label
  <2>4. closed' \in SUBSET [url : Urls, session_id : Id]
    BY <1>8, FrameFields DEF CloseReturns, ManagerTypeOK
  <2>5. QED
    BY <1>8, <2>3, <2>4, ConsumeSends DEF CloseReturns, ManagerTypeOK
<1>9. QED
  BY <1>1, <1>2, <1>3, <1>4, <1>5, <1>6, <1>7, <1>8 DEF ManagerStep

LEMMA ContractOfType ==
  ASSUME ManagerTypeOK, AdapterTypeOK, NEW p \in Callers
  PROVE  ContractOf(p) \in Contract
<1> DEFINE stored == {c \in contracts : c.task_id = frame[p].task}
<1>1. NoContract \in Contract /\ frame[p].contract \in Contract
  BY FrameFields DEF NoContract, Contract, NoId
<1>2. CASE stored = {}
  BY <1>1, <1>2 DEF ContractOf
<1>3. CASE stored # {}
  <2>1. (CHOOSE c \in stored : TRUE) \in stored
    BY <1>3
  <2>2. (CHOOSE c \in stored : TRUE).contract \in Contract
    BY <2>1 DEF AdapterTypeOK
  <2>3. QED
    BY <1>1, <1>3, <2>2 DEF ContractOf
<1>4. QED
  BY <1>2, <1>3

LEMMA PolledOutcomeType ==
  ASSUME ManagerTypeOK, AdapterTypeOK, NEW p \in Callers, pc[p] = "polled", ReplyUsable(p)
  PROVE  PolledOutcome(p) \in Report
<1>1. frame[p].task \in Id
  BY FrameFields
<1>2. CASE Answered(p, "task_result")
  <2>1. replies[p].mode_used \in PayloadMode
    BY <1>2 DEF ReplyUsable
  <2>2. ResultOutcome(p) \in Report
    BY <1>1, <2>1 DEF ResultOutcome, Outcome, Report
  <2>3. QED
    BY <1>2, <2>2 DEF PolledOutcome
<1>3. CASE ~Answered(p, "task_result")
  BY <1>1, <1>3 DEF PolledOutcome, Outcome, Report
<1>4. QED
  BY <1>2, <1>3

LEMMA CallType ==
  ASSUME NEW op \in {"invoke", "stream"}, NEW u \in Urls, NEW c \in ContractChoices
  PROVE  Call(op, u, c) \in Frame
<1>1. Blank(u) \in Frame /\ op \in FrameOp /\ c \in Contract
  BY BlankType DEF FrameOp
<1>2. QED
  BY <1>1 DEF Call, Frame

(* The locals of a status or cancel call. *)
LEMMA TaskCallType ==
  ASSUME AdapterTypeOK, NEW h \in handles, NEW op \in {"status", "cancel"}
  PROVE  /\ h.url \in Urls /\ h.task_id \in Id
         /\ [Blank(h.url) EXCEPT !.op = op, !.task = h.task_id] \in Frame
<1>1. h.url \in Urls /\ h.task_id \in Id
  BY DEF AdapterTypeOK, Handle
<1>2. Blank(h.url) \in Frame /\ op \in FrameOp
  BY <1>1, BlankType DEF FrameOp
<1>3. QED
  BY <1>1, <1>2 DEF Frame

LEMMA StatusQueryType ==
  ASSUME NEW id \in Id
  PROVE  StatusQuery(id) \in Message
BY DEF StatusQuery, Message, Signature

LEMMA CallerStartsType ==
  ASSUME ManagerTypeOK, AdapterTypeOK, now \in Nat, NEW p \in Callers,
         CallerStarts(p)
  PROVE  ClientSends(p) /\ ManagerTypeOK' /\ AdapterTypeOK'
<1>0. ASSUME Begin(p) PROVE ops' \in Nat
  BY <1>0 DEF Begin, ManagerTypeOK
<1>1. CASE InvokeCached(p)
  <2>1. PICK op \in {"invoke", "stream"}, u \in Urls, c \in ContractChoices :
          Begin(p) /\ ReuseSession(p, u, Call(op, u, c)) /\ UNCHANGED adapterVars
    BY <1>1 DEF InvokeCached, Start
  <2> DEFINE locals == [Call(op, u, c) EXCEPT !.session = cache[u]]
  <2>2. locals \in Frame
    <3>1. Call(op, u, c) \in Frame /\ cache[u] \in Session
      BY CallType DEF ManagerTypeOK
    <3>2. QED
      BY <3>1 DEF Frame
  <2>3. pc' \in [Callers -> Label] /\ frame' \in [Callers -> Frame]
    BY <2>1, <2>2, GotoType DEF ReuseSession, Label
  <2>4. QED
    BY <1>0, <2>1, <2>3
    DEF ReuseSession, ManagerTypeOK, AdapterTypeOK, adapterVars, ClientSends
<1>2. CASE InvokeNew(p)
  <2>1. PICK op \in {"invoke", "stream"}, u \in Urls, c \in ContractChoices :
          Begin(p) /\ SendHello(p, u, Call(op, u, c)) /\ UNCHANGED adapterVars
    BY <1>2 DEF InvokeNew, Start
  <2>2. [type |-> "hello", signature |-> ClientSecret] \in Message
    BY DEF Message, Signature
  <2>3. ClientSends(p)
    BY <2>1, <2>2, PostSends DEF SendHello
  <2>4. pc' \in [Callers -> Label] /\ frame' \in [Callers -> Frame]
    BY <2>1, CallType, GotoType DEF SendHello, Label
  <2>5. QED
    BY <1>0, <2>1, <2>3, <2>4 DEF SendHello, ManagerTypeOK, AdapterTypeOK, adapterVars
<1>3. CASE PollStatus(p)
  <2>1. PICK h \in handles :
          /\ Post(p, h.url, StatusQuery(h.task_id))
          /\ Goto(p, "polled", [Blank(h.url) EXCEPT !.op = "status", !.task = h.task_id])
    BY <1>3 DEF PollStatus
  <2>2. ClientSends(p)
    BY <2>1, PostSends, StatusQueryType, TaskCallType
  <2>3. pc' \in [Callers -> Label] /\ frame' \in [Callers -> Frame]
    BY <2>1, GotoType, TaskCallType DEF Label
  <2>4. QED
    BY <1>0, <1>3, <2>2, <2>3
    DEF PollStatus, Start, ManagerTypeOK, AdapterTypeOK, adapterVars
<1>4. CASE CancelTask(p)
  <2>1. PICK h \in handles :
          /\ Post(p, h.url, [type |-> "task_cancel", task_id |-> h.task_id,
                             signature |-> ClientSecret])
          /\ Goto(p, "cancel", [Blank(h.url) EXCEPT !.op = "cancel", !.task = h.task_id])
          /\ cancelled' = cancelled \cup {h.task_id}
    BY <1>4 DEF CancelTask
  <2>2. [type |-> "task_cancel", task_id |-> h.task_id, signature |-> ClientSecret] \in Message
    BY TaskCallType DEF Message, Signature
  <2>3. ClientSends(p)
    BY <2>1, <2>2, PostSends, TaskCallType
  <2>4. pc' \in [Callers -> Label] /\ frame' \in [Callers -> Frame]
    BY <2>1, GotoType, TaskCallType DEF Label
  <2>5. cancelled' \in SUBSET Id
    BY <2>1, TaskCallType DEF AdapterTypeOK
  <2>6. QED
    BY <1>0, <1>4, <2>3, <2>4, <2>5 DEF CancelTask, Start, ManagerTypeOK, AdapterTypeOK
<1>5. CASE (\E u \in Urls : Close(p, u)) /\ UNCHANGED adapterVars
  <2>1. PICK u \in Urls : Close(p, u)
    BY <1>5
  <2>2. Begin(p) /\ RemoveAndSendClose(p, u, {}) /\ UNCHANGED closed
    BY <2>1 DEF Close
  <2>3. QED
    BY <1>0, <1>5, <2>2, RemoveAndSendCloseType DEF ManagerTypeOK, AdapterTypeOK, adapterVars
<1>6. CASE CloseAll(p) /\ UNCHANGED adapterVars
  <2> DEFINE locals == [frame[p] EXCEPT !.op = "close", !.closing = {u \in Urls : Cached(u)}]
  <2>1. locals \in Frame
    BY FrameFields DEF Frame, FrameOp
  <2>2. pc' \in [Callers -> Label] /\ frame' \in [Callers -> Frame]
    BY <1>6, <2>1, GotoType DEF CloseAll, Label
  <2>3. QED
    BY <1>0, <1>6, <2>2
    DEF CloseAll, ManagerTypeOK, AdapterTypeOK, adapterVars, ClientSends
<1>7. QED
  BY <1>1, <1>2, <1>3, <1>4, <1>5, <1>6 DEF CallerStarts

LEMMA CallerContinuesType ==
  ASSUME ManagerTypeOK, AdapterTypeOK, now \in Nat, NEW p \in Callers,
         ReplyUsable(p), CallerContinues(p)
  PROVE  ClientSends(p) /\ ManagerTypeOK' /\ AdapterTypeOK'
<1>1. CASE SubmitTask(p)
  <2> DEFINE id == lastId + 1
             msg == [type |-> "task_submit", session_id |-> frame[p].session.session_id,
                     task_id |-> id, signature |-> ClientSecret]
             locals == [frame[p] EXCEPT !.task = id]
  <2>1. id \in Id
    BY DEF ManagerTypeOK, Id
  <2>2. Post(p, frame[p].url, msg) /\ Goto(p, "submit", locals) /\ lastId' = id
    BY <1>1 DEF SubmitTask
  <2> HIDE DEF id
  <2>3. msg \in Message /\ locals \in Frame
    BY <2>1, FrameFields DEF Message, Signature, Frame
  <2>4. ClientSends(p)
    BY <2>2, <2>3, PostSends, FrameFields
  <2>5. pc' \in [Callers -> Label] /\ frame' \in [Callers -> Frame]
    BY <2>2, <2>3, GotoType DEF Label
  <2>6. QED
    BY <1>1, <2>1, <2>2, <2>4, <2>5 DEF SubmitTask, ManagerTypeOK, AdapterTypeOK, adapterVars
<1>2. CASE SubmitReturns(p)
  <2>1. ClientSends(p)
    BY <1>2, ConsumeSends DEF SubmitReturns
  <2>2. pc' \in [Callers -> Label] /\ frame' \in [Callers -> Frame]
    BY <1>2, GotoType, FrameFields DEF SubmitReturns, Label
  <2>3. contracts' \in SUBSET [task_id : Id, contract : Contract]
    BY <1>2, FrameFields DEF SubmitReturns, StoreContract, AdapterTypeOK
  <2>4. QED
    BY <1>2, <2>1, <2>2, <2>3 DEF SubmitReturns, ManagerTypeOK, AdapterTypeOK
<1>3. CASE SubmitFails(p)
  BY <1>3, ConsumeSends, ReturnType DEF SubmitFails, ManagerTypeOK, AdapterTypeOK, adapterVars
<1>4. CASE TouchSession(p)
  <2>1. cache' \in [Urls -> Session]
    BY <1>4, TouchedType, FrameFields DEF TouchSession
  <2>2. pc' \in [Callers -> Label] /\ frame' \in [Callers -> Frame]
    BY <1>4, GotoType, ReturnType, FrameFields DEF TouchSession, Label
  <2>3. handles' \in SUBSET Handle
    BY <1>4, FrameFields DEF TouchSession, AdapterTypeOK, Handle
  <2>4. QED
    BY <1>4, <2>1, <2>2, <2>3
    DEF TouchSession, ManagerTypeOK, AdapterTypeOK, ClientSends
<1>5. CASE PollStream(p)
  <2>1. ClientSends(p)
    BY <1>5, PostSends, StatusQueryType, FrameFields DEF PollStream
  <2>2. pc' \in [Callers -> Label] /\ frame' \in [Callers -> Frame]
    BY <1>5, GotoType, FrameFields DEF PollStream, Label
  <2>3. QED
    BY <1>5, <2>1, <2>2 DEF PollStream, ManagerTypeOK, AdapterTypeOK, adapterVars
<1>6. CASE PollReturns(p)
  <2>1. ClientSends(p)
    BY <1>6, ConsumeSends DEF PollReturns
  <2>2. Goto(p, "polling", frame[p]) \/ Return(p)
    BY <1>6 DEF PollReturns
  <2>3. pc' \in [Callers -> Label] /\ frame' \in [Callers -> Frame]
    BY <2>2, GotoType, ReturnType, FrameFields DEF Label
  <2>4. outcomes' \in Seq(Report)
    BY <1>6, PolledOutcomeType DEF PollReturns, Recorded, AdapterTypeOK
  <2>5. QED
    BY <1>6, <2>1, <2>3, <2>4 DEF PollReturns, ManagerTypeOK, AdapterTypeOK
<1>7. CASE CancelReturns(p)
  BY <1>7, ConsumeSends, ReturnType DEF CancelReturns, ManagerTypeOK, AdapterTypeOK, adapterVars
<1>8. CASE ManagerStep(p) /\ UNCHANGED adapterVars
  BY <1>8, ManagerStepType DEF AdapterTypeOK, adapterVars
<1>9. QED
  BY <1>1, <1>2, <1>3, <1>4, <1>5, <1>6, <1>7, <1>8 DEF CallerContinues

===============================================================================
