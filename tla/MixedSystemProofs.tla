--------------------------- MODULE MixedSystemProofs --------------------------
(***************************************************************************)
(* Theorems about a Rust client and delegates of the Python SDK, for every *)
(* number of tasks and delegates, every choice of domains, secrets and     *)
(* preferences, with hooks that raise and connections that fail.           *)
(***************************************************************************)
EXTENDS MixedInvariant, LdpAdapterProofs, FiniteSetTheorems

USE UrlsNonEmpty, NoConnIsNotACaller, MaxOpsIsNat

-------------------------------------------------------------------------------
(* The client's steps, as far as sessions and tasks are concerned *)

OthersKeep(p) ==
  \A q \in Callers \ {p} : pc'[q] = pc[q] /\ frame'[q] = frame[q] /\ replies'[q] = replies[q]

(* p has no request out that would answer it. *)
Quiet(p) == \A r \in requests : r.conn # p

CacheKeeps ==
  \A u \in Urls : /\ cache'[u].session_id = cache[u].session_id
                  /\ cache'[u].payload_mode = cache[u].payload_mode

Posts(p, msg) ==
  /\ requests' = requests \cup {Request(p, frame'[p].url, msg)}
  /\ replies'[p] = NoReply
  /\ pc'[p] = AwaitOf[msg.type]

Stays(p, labels) == UNCHANGED requests /\ pc'[p] \in labels

Greets(p) ==
  /\ pc[p] = "idle" /\ ops' = ops + 1
  /\ \E msg \in Message : Posts(p, msg) /\ msg.type = "hello" /\ msg.signature = ClientSecret
  /\ CacheKeeps /\ UNCHANGED <<lastId, handles>>

Reuses(p) ==
  /\ pc[p] = "idle" /\ ops' = ops + 1
  /\ Stays(p, {"established"}) /\ Cached(frame'[p].url)
  /\ CacheKeeps /\ UNCHANGED <<lastId, handles>>

Proposes(p) ==
  /\ pc[p] = "hello" /\ lastId' = lastId + 1
  /\ \E msg \in Message :
       /\ Posts(p, msg) /\ msg.type = "session_propose" /\ msg.signature = ClientSecret
       /\ msg.session_id = lastId + 1
  /\ frame'[p].session.payload_mode = "text"
  /\ CacheKeeps /\ UNCHANGED <<ops, handles>>

Takes(p) ==
  /\ pc[p] = "propose" /\ Answered(p, "session_accept")
  /\ Stays(p, {"caching"})
  /\ frame'[p].url = frame[p].url
  /\ frame'[p].session.session_id = replies[p].session_id
  /\ frame'[p].session.payload_mode = frame[p].session.payload_mode
  /\ CacheKeeps /\ UNCHANGED <<lastId, ops, handles>>

Caches(p) ==
  /\ pc[p] = "caching"
  /\ Stays(p, {"established"}) /\ frame'[p] = frame[p]
  /\ cache' = [cache EXCEPT ![frame[p].url] = frame[p].session]
  /\ UNCHANGED <<lastId, ops, handles>>

Submits(p) ==
  /\ pc[p] = "established" /\ lastId' = lastId + 1
  /\ frame'[p].url = frame[p].url
  /\ \E msg \in Message :
       /\ Posts(p, msg) /\ msg.type = "task_submit" /\ msg.signature = ClientSecret
       /\ msg.task_id = frame'[p].task
  /\ CacheKeeps /\ UNCHANGED <<ops, handles>>

Learns(p) ==
  /\ pc[p] = "submit" /\ ~Answered(p, "none") /\ ~Answered(p, "error")
  /\ Stays(p, {"submitted"}) /\ frame'[p] = frame[p]
  /\ CacheKeeps /\ UNCHANGED <<lastId, ops, handles>>

HandsOut(p) ==
  /\ pc[p] = "submitted"
  /\ Stays(p, {"idle", "polling"})
  /\ \E h : /\ handles' = handles \cup {h}
            /\ h.task_id = frame[p].task /\ h.url = frame[p].url
  /\ CacheKeeps /\ UNCHANGED <<lastId, ops>>

(* A poll or a cancellation. *)
Asks(p) ==
  /\ pc[p] \in {"idle", "polling"} /\ ops <= ops' /\ ops' <= ops + 1
  /\ \E msg \in Message :
       /\ Posts(p, msg) /\ msg.type \in {"task_update", "task_cancel"}
       /\ msg.signature = ClientSecret
  /\ CacheKeeps /\ UNCHANGED <<lastId, handles>>

Closing(p) ==
  /\ pc[p] \in {"idle", "closing"} /\ ops <= ops' /\ ops' <= ops + 1
  /\ LET u == frame'[p].url
     IN  /\ u \in Urls /\ Cached(u)
         /\ cache' = [cache EXCEPT ![u] = NoSession]
         /\ \E msg \in Message : /\ Posts(p, msg) /\ msg.type = "session_close"
                                 /\ msg.session_id = cache[u].session_id
  /\ UNCHANGED <<lastId, handles>>

(* The end of an operation, or the loop of a close_all. *)
Ends(p) ==
  /\ pc[p] \in {"hello", "propose", "submit", "polled", "cancel", "closing", "close", "idle"}
  /\ ops <= ops' /\ ops' <= ops + 1
  /\ Stays(p, {"idle", "polling", "closing"})
  /\ CacheKeeps /\ UNCHANGED <<lastId, handles>>

Runs(p) ==
  \/ Greets(p) \/ Reuses(p) \/ Proposes(p) \/ Takes(p) \/ Caches(p) \/ Submits(p)
  \/ Learns(p) \/ HandsOut(p) \/ Asks(p) \/ Closing(p) \/ Ends(p)

(* A step of p's own: the delegates, the clock and the others stand still. *)
ClientRuns(p) ==
  /\ OthersKeep(p) /\ Quiet(p) /\ UNCHANGED <<delegateVars, now>>
  /\ ops <= MaxOps => ops' <= MaxOps
  /\ Runs(p)

(* What a request of a known type carries. *)
LEMMA MessageFields ==
  ASSUME NEW m \in Message
  PROVE  /\ m.type \in {"hello", "session_propose", "task_submit", "task_update",
                        "task_cancel", "session_close"}
         /\ m.type = "session_propose" =>
              /\ m.trust_domain = ClientDomain.name
              /\ "preferred_payload_modes" \notin DOMAIN m
         /\ m.type = "task_submit" => m.task_id \in Id
         /\ m.type = "session_close" => m.session_id \in Id
BY DEF Message

LEMMA RequestFields ==
  ASSUME TypeOK, NEW r \in requests
  PROVE  /\ r.conn \in Callers \cup {NoConn} /\ r.to \in Urls /\ r.msg \in Message
         /\ r = [conn |-> r.conn, to |-> r.to, stage |-> "posted", msg |-> r.msg]
BY DEF TypeOK, Exchange

(* What a reply of a known type carries. *)
LEMMA ReplyFields ==
  ASSUME NEW x \in Reply
  PROVE  /\ x.type = "capability_manifest" => "modes" \notin DOMAIN x
         /\ x.type = "session_accept" => x.session_id \in Id
         /\ x.type = "none" => x = NoReply
BY DEF Reply, NoReply

LEMMA TypesOfFrames ==
  ASSUME TypeOK, NEW p \in Callers
  PROVE  /\ ManagerTypeOK /\ AdapterTypeOK /\ now \in Nat
         /\ pc \in [Callers -> Label] /\ frame \in [Callers -> Frame] /\ frame[p].url \in Urls
         /\ replies \in [Callers -> Reply] /\ cache \in [Urls -> Session]
         /\ lastId \in Nat /\ ops \in Nat
BY FrameFields DEF TypeOK, ManagerTypeOK, Id

LEMMA Quieted ==
  ASSUME TypeOK, WireInv, NEW p \in Callers,
         \/ pc[p] \in {"idle", "caching", "established", "submitted", "polling", "closing"}
         \/ ~Answered(p, "none")
  PROVE  Quiet(p)
<1> SUFFICES ASSUME NEW r \in requests, r.conn = p PROVE FALSE
  BY DEF Quiet
<1>1. pc[p] = AwaitOf[r.msg.type] /\ replies[p] = NoReply
  BY DEF WireInv
<1>2. r.msg.type \in {"hello", "session_propose", "task_submit", "task_update",
                      "task_cancel", "session_close"}
  BY RequestFields, MessageFields
<1>3. QED
  BY <1>1, <1>2 DEF NoReply, AwaitOf, Answered

(* p goes on at `label` with `locals`; what was read or failed is consumed. *)
LEMMA Moved ==
  ASSUME TypeOK, NEW p \in Callers, NEW label, NEW locals, Goto(p, label, locals),
         Consume(p) \/ UNCHANGED transportVars
  PROVE  /\ OthersKeep(p) /\ UNCHANGED requests
         /\ pc'[p] = label /\ frame'[p] = locals
BY TypesOfFrames DEF Goto, Consume, OthersKeep, transportVars

LEMMA Posted ==
  ASSUME TypeOK, NEW p \in Callers, NEW u, NEW msg, NEW label, NEW locals,
         Goto(p, label, locals), Post(p, u, msg), label = AwaitOf[msg.type], locals.url = u
  PROVE  /\ OthersKeep(p) /\ Posts(p, msg)
         /\ pc'[p] = label /\ frame'[p] = locals
BY TypesOfFrames DEF Goto, Post, Posts, OthersKeep

LEMMA Returned ==
  ASSUME TypeOK, NEW p \in Callers, Return(p), Consume(p) \/ UNCHANGED transportVars
  PROVE  OthersKeep(p) /\ Stays(p, {"idle", "polling", "closing"}) /\ pc'[p] = "idle"
BY Moved DEF Return, Stays

(* The manifest of a Python delegate leaves the client with text. *)
LEMMA TextAgreed == ClientNegotiates({"text"}) = "text"
<1> DEFINE common == CommonModes(ClientPrefs, {"text"})
<1>1. CASE common = {}
  BY <1>1 DEF ClientNegotiates, AgreedMode
<1>2. CASE common # {}
  <2>1. common \in SUBSET Nat
    BY PrefsAreModes DEF CommonModes
  <2>2. First(common) \in common
    BY <1>2, <2>1, FirstIsLeast
  <2>3. QED
    BY <1>2, <2>2 DEF ClientNegotiates, AgreedMode, CommonModes
<1>3. QED
  BY <1>1, <1>2

LEMMA ClosingRuns ==
  ASSUME TypeOK, WireInv, NEW p \in Callers, NEW u \in Urls, NEW rest \in SUBSET Urls,
         pc[p] \in {"idle", "closing"}, ops <= ops', ops' <= ops + 1,
         RemoveAndSendClose(p, u, rest), UNCHANGED handles
  PROVE  OthersKeep(p) /\ Closing(p)
<1>1. PICK msg \in Message, locals \in Frame :
        /\ msg.type = "session_close" /\ msg.session_id = cache[u].session_id
        /\ locals.url = u
        /\ Post(p, u, msg) /\ Goto(p, "close", locals)
  <2> DEFINE msg == [type |-> "session_close", session_id |-> cache[u].session_id,
                     signature |-> NoSecret]
             locals == [frame[p] EXCEPT !.op = "close", !.url = u, !.session = cache[u],
                                        !.closing = rest]
  <2>1. msg \in Message /\ msg.type = "session_close" /\ msg.session_id = cache[u].session_id
    BY TypesOfFrames DEF Message, Signature, Session
  <2>2. locals \in Frame /\ locals.url = u
    BY TypesOfFrames, FrameFields DEF Frame, FrameOp
  <2>3. Post(p, u, msg) /\ Goto(p, "close", locals)
    BY DEF RemoveAndSendClose
  <2> HIDE DEF msg, locals
  <2>4. QED
    BY <2>1, <2>2, <2>3
<1>2. OthersKeep(p) /\ Posts(p, msg) /\ frame'[p] = locals
  BY <1>1, Posted DEF AwaitOf
<1>3. QED
  BY <1>1, <1>2 DEF Closing, RemoveAndSendClose

LEMMA ClientStarts ==
  ASSUME TypeOK, WireInv, NEW p \in Callers, StartStep(p)
  PROVE  ClientRuns(p)
<1>0. pc[p] = "idle" /\ ops' = ops + 1 /\ ops < MaxOps /\ Quiet(p)
      /\ UNCHANGED <<delegateVars, now>> /\ ops \in Nat
  <2>1. Begin(p) /\ UNCHANGED <<delegateVars, now>>
    BY DEF StartStep, CallerStarts, InvokeCached, InvokeNew, PollStatus, CancelTask, Start,
           Close, CloseAll
  <2>2. QED
    BY <2>1, Quieted, TypesOfFrames DEF Begin
<1>1. ops' <= MaxOps /\ ops <= ops' /\ ops' <= ops + 1
  BY <1>0
<1>2. CASE InvokeCached(p)
  <2>1. PICK op \in {"invoke", "stream"}, u \in Urls, c \in ContractChoices :
          ReuseSession(p, u, Call(op, u, c)) /\ UNCHANGED adapterVars
    BY <1>2 DEF InvokeCached
  <2> DEFINE locals == [Call(op, u, c) EXCEPT !.session = cache[u]]
  <2>2. locals.url = u
    BY CallType DEF Frame, Call, Blank
  <2>3. Goto(p, "established", locals) /\ UNCHANGED transportVars
    BY <2>1 DEF ReuseSession
  <2> HIDE DEF locals
  <2>4. OthersKeep(p) /\ Stays(p, {"established"}) /\ frame'[p].url = u
    BY <2>2, <2>3, Moved DEF Stays
  <2>5. CacheKeeps /\ UNCHANGED <<lastId, handles>> /\ Cached(u)
    BY <2>1 DEF ReuseSession, CacheKeeps, adapterVars
  <2>6. QED
    BY <1>0, <1>1, <2>4, <2>5 DEF ClientRuns, Runs, Reuses
<1>3. CASE InvokeNew(p)
  <2>1. PICK op \in {"invoke", "stream"}, u \in Urls, c \in ContractChoices :
          SendHello(p, u, Call(op, u, c)) /\ UNCHANGED adapterVars
    BY <1>3 DEF InvokeNew
  <2> DEFINE msg == [type |-> "hello", signature |-> ClientSecret]
             locals == Call(op, u, c)
  <2>2. locals.url = u /\ msg \in Message
    BY DEF Call, Blank, Message, Signature
  <2>3. Goto(p, "hello", locals) /\ Post(p, u, msg) /\ UNCHANGED <<cache, lastId, handles>>
    BY <2>1 DEF SendHello, adapterVars
  <2>4. msg.type = "hello" /\ msg.signature = ClientSecret /\ AwaitOf[msg.type] = "hello"
    BY DEF AwaitOf
  <2> HIDE DEF locals, msg
  <2>5. OthersKeep(p) /\ Posts(p, msg)
    BY <2>2, <2>3, <2>4, Posted
  <2>6. QED
    BY <1>0, <1>1, <2>2, <2>3, <2>4, <2>5 DEF ClientRuns, Runs, Greets, CacheKeeps
<1>4. ASSUME NEW h \in handles, NEW op, NEW label, NEW msg \in Message,
             msg.type \in {"task_update", "task_cancel"}, msg.signature = ClientSecret,
             label = AwaitOf[msg.type],
             Post(p, h.url, msg),
             Goto(p, label, [Blank(h.url) EXCEPT !.op = op, !.task = h.task_id]),
             UNCHANGED <<cache, lastId, handles>>
      PROVE  ClientRuns(p)
  <2> DEFINE locals == [Blank(h.url) EXCEPT !.op = op, !.task = h.task_id]
  <2>1. locals.url = h.url /\ Goto(p, label, locals)
    BY <1>4 DEF Blank
  <2> HIDE DEF locals
  <2>2. OthersKeep(p) /\ Posts(p, msg)
    BY <1>4, <2>1, Posted
  <2>3. QED
    BY <1>0, <1>1, <1>4, <2>2 DEF ClientRuns, Runs, Asks, CacheKeeps
<1>5. CASE PollStatus(p)
  <2>1. PICK h \in handles :
          /\ Post(p, h.url, StatusQuery(h.task_id))
          /\ Goto(p, "polled", [Blank(h.url) EXCEPT !.op = "status", !.task = h.task_id])
    BY <1>5 DEF PollStatus
  <2>2. StatusQuery(h.task_id) \in Message
    BY StatusQueryType, TaskCallType, TypesOfFrames
  <2>3. /\ StatusQuery(h.task_id).type = "task_update"
        /\ StatusQuery(h.task_id).signature = ClientSecret
        /\ AwaitOf["task_update"] = "polled"
    BY DEF StatusQuery, AwaitOf
  <2>4. UNCHANGED <<cache, lastId, handles>>
    BY <1>5 DEF PollStatus, adapterVars
  <2>5. QED
    BY <1>4, <2>1, <2>2, <2>3, <2>4
<1>6. CASE CancelTask(p)
  <2> DEFINE msg(h) == [type |-> "task_cancel", task_id |-> h.task_id,
                        signature |-> ClientSecret]
  <2>1. PICK h \in handles :
          /\ Post(p, h.url, msg(h))
          /\ Goto(p, "cancel", [Blank(h.url) EXCEPT !.op = "cancel", !.task = h.task_id])
    BY <1>6 DEF CancelTask
  <2>2. msg(h) \in Message
    BY TaskCallType, TypesOfFrames DEF Message, Signature
  <2>3. /\ msg(h).type = "task_cancel" /\ msg(h).signature = ClientSecret
        /\ AwaitOf["task_cancel"] = "cancel"
    BY DEF AwaitOf
  <2>4. UNCHANGED <<cache, lastId, handles>>
    BY <1>6 DEF CancelTask
  <2> HIDE DEF msg
  <2>5. QED
    BY <1>4, <2>1, <2>2, <2>3, <2>4
<1>7. CASE (\E u \in Urls : Close(p, u)) /\ UNCHANGED adapterVars
  <2>1. PICK u \in Urls : RemoveAndSendClose(p, u, {})
    BY <1>7 DEF Close
  <2>2. OthersKeep(p) /\ Closing(p)
    BY <1>0, <1>1, <1>7, <2>1, ClosingRuns DEF adapterVars
  <2>3. QED
    BY <1>0, <1>1, <2>2 DEF ClientRuns, Runs
<1>8. CASE CloseAll(p) /\ UNCHANGED adapterVars
  <2> DEFINE locals == [frame[p] EXCEPT !.op = "close", !.closing = {u \in Urls : Cached(u)}]
  <2>1. Goto(p, "closing", locals) /\ UNCHANGED transportVars
    BY <1>8 DEF CloseAll
  <2> HIDE DEF locals
  <2>2. OthersKeep(p) /\ Stays(p, {"idle", "polling", "closing"})
    BY <2>1, Moved DEF Stays
  <2>3. QED
    BY <1>0, <1>1, <1>8, <2>2 DEF ClientRuns, Runs, Ends, CloseAll, CacheKeeps, adapterVars
<1>9. QED
  BY <1>2, <1>3, <1>5, <1>6, <1>7, <1>8 DEF StartStep, CallerStarts

LEMMA ManagerRuns ==
  ASSUME TypeOK, WireInv, NEW p \in Callers, ManagerStep(p), UNCHANGED <<adapterVars, now>>
  PROVE  OthersKeep(p) /\ Runs(p)
<1>0. UNCHANGED handles /\ frame[p] \in Frame /\ frame[p].url \in Urls /\ lastId \in Nat
      /\ ops \in Nat
  BY TypesOfFrames DEF adapterVars
<1>1. CASE ReceiveManifest(p)
  <2>1. PICK msg \in Message, locals \in Frame :
          /\ msg.type = "session_propose" /\ msg.signature = ClientSecret
          /\ msg.session_id = lastId + 1
          /\ locals.url = frame[p].url /\ locals.session.payload_mode = "text"
          /\ Post(p, frame[p].url, msg) /\ Goto(p, "propose", locals)
    <3> DEFINE mode == ClientNegotiates(ManifestModes(replies[p]))
               id == lastId + 1
               msg == [type |-> "session_propose", session_id |-> id, payload_mode |-> mode,
                       ttl_secs |-> TtlSecs, trust_domain |-> ClientDomain.name,
                       signature |-> ClientSecret]
               locals == [frame[p] EXCEPT !.session.session_id = id,
                                          !.session.payload_mode = mode]
    <3>1. mode = "text"
      <4>1. replies[p] \in Reply /\ replies[p].type = "capability_manifest"
        BY <1>1, TypesOfFrames DEF ReceiveManifest, Answered
      <4>2. QED
        BY <4>1, ReplyFields, TextAgreed DEF ManifestModes
    <3>2. id \in Id /\ mode \in PayloadMode
      BY <1>0, <3>1 DEF Id, PayloadMode
    <3>3. Post(p, frame[p].url, msg) /\ Goto(p, "propose", locals)
      BY <1>1 DEF ReceiveManifest
    <3> HIDE DEF id, mode
    <3>4. msg \in Message
      BY <3>2, TtlIsUnsigned DEF Message, Signature
    <3>5. locals \in Frame /\ locals.url = frame[p].url /\ locals.session.payload_mode = mode
      BY <1>0, <3>2, TypesOfFrames, FrameFields DEF Frame, Session
    <3>6. msg.type = "session_propose" /\ msg.signature = ClientSecret /\ msg.session_id = id
      OBVIOUS
    <3>7. id = lastId + 1
      BY DEF id
    <3> HIDE DEF msg, locals
    <3>8. QED
      BY <3>1, <3>3, <3>4, <3>5, <3>6, <3>7
  <2>2. PICK u \in Urls : u = frame[p].url
    BY <1>0
  <2>3. OthersKeep(p) /\ Posts(p, msg) /\ frame'[p] = locals
    BY <2>1, <2>2, Posted DEF AwaitOf
  <2>4. QED
    BY <1>0, <1>1, <2>1, <2>3 DEF ReceiveManifest, Runs, Proposes, CacheKeeps
<1>2. CASE ReceiveAccept(p)
  <2>1. PICK locals \in Frame :
          /\ locals.url = frame[p].url /\ locals.session.session_id = replies[p].session_id
          /\ locals.session.payload_mode = frame[p].session.payload_mode
          /\ Goto(p, "caching", locals)
    <3> DEFINE session == [session_id |-> replies[p].session_id,
                           payload_mode |-> frame[p].session.payload_mode,
                           last_used |-> now, task_count |-> 0]
               locals == [frame[p] EXCEPT !.session = session]
    <3>1. replies[p].session_id \in Id
      BY <1>2, ReplyFields, TypesOfFrames DEF ReceiveAccept, Answered
    <3>2. session \in Session
      BY <3>1, FrameFields, TypesOfFrames DEF Session, Id
    <3>3. locals \in Frame
      BY <1>0, <3>2 DEF Frame
    <3>4. Goto(p, "caching", locals)
      BY <1>0, <1>2, FrameFields, TypesOfFrames DEF ReceiveAccept, Frame, Session
    <3>5. /\ locals.url = frame[p].url
          /\ locals.session.session_id = replies[p].session_id
          /\ locals.session.payload_mode = frame[p].session.payload_mode
      BY <1>0 DEF Frame
    <3> HIDE DEF locals
    <3>6. QED
      BY <3>3, <3>4, <3>5
  <2>2. OthersKeep(p) /\ UNCHANGED requests /\ pc'[p] = "caching" /\ frame'[p] = locals
    BY <1>2, <2>1, Moved DEF ReceiveAccept
  <2>3. QED
    BY <1>0, <1>2, <2>1, <2>2 DEF ReceiveAccept, Runs, Takes, Stays, CacheKeeps
<1>3. CASE HandshakeFails(p)
  <2>1. OthersKeep(p) /\ Stays(p, {"idle", "polling", "closing"})
    BY <1>3, Returned DEF HandshakeFails
  <2>2. QED
    BY <1>0, <1>3, <2>1 DEF HandshakeFails, Runs, Ends, CacheKeeps
<1>4. CASE CacheSession(p)
  <2>1. OthersKeep(p) /\ UNCHANGED requests /\ pc'[p] = "established" /\ frame'[p] = frame[p]
    BY <1>4, TypesOfFrames DEF CacheSession, Goto, OthersKeep, transportVars
  <2>2. QED
    BY <1>0, <1>4, <2>1 DEF CacheSession, Runs, Caches, Stays
<1>5. CASE CloseNext(p)
  <2>1. PICK u \in frame[p].closing : RemoveAndSendClose(p, u, frame[p].closing \ {u})
    BY <1>5 DEF CloseNext
  <2>2. PICK rest \in SUBSET Urls : rest = frame[p].closing \ {u}
    BY FrameFields, TypesOfFrames
  <2>3. u \in Urls
    BY FrameFields, TypesOfFrames
  <2>4. OthersKeep(p) /\ Closing(p)
    BY <1>0, <1>5, <2>1, <2>2, <2>3, ClosingRuns DEF CloseNext
  <2>5. QED
    BY <2>4 DEF Runs
<1>6. CASE CloseSkips(p)
  <2>1. OthersKeep(p) /\ Stays(p, {"idle", "polling", "closing"})
    BY <1>6, TypesOfFrames DEF CloseSkips, Goto, OthersKeep, transportVars, Stays
  <2>2. QED
    BY <1>0, <1>6, <2>1 DEF CloseSkips, Runs, Ends, CacheKeeps
<1>7. CASE CloseAllReturns(p)
  <2>1. OthersKeep(p) /\ Stays(p, {"idle", "polling", "closing"})
    BY <1>7, Returned DEF CloseAllReturns
  <2>2. QED
    BY <1>0, <1>7, <2>1 DEF CloseAllReturns, Runs, Ends, CacheKeeps
<1>8. CASE CloseReturns(p)
  <2>1. OthersKeep(p) /\ Stays(p, {"idle", "polling", "closing"})
    BY <1>8, TypesOfFrames DEF CloseReturns, Return, Goto, Consume, OthersKeep, Stays
  <2>2. QED
    BY <1>0, <1>8, <2>1 DEF CloseReturns, Runs, Ends, CacheKeeps
<1>9. QED
  BY <1>1, <1>2, <1>3, <1>4, <1>5, <1>6, <1>7, <1>8 DEF ManagerStep

LEMMA TouchKeeps ==
  ASSUME TypeOK, NEW u \in Urls, cache' = Touched(u)
  PROVE  CacheKeeps
<1>1. cache \in [Urls -> Session]
  BY DEF TypeOK, ManagerTypeOK
<1>2. QED
  BY <1>1 DEF Touched, CacheKeeps, Session

LEMMA ClientContinues ==
  ASSUME TypeOK, WireInv, NEW p \in Callers, CallerStep(p)
  PROVE  ClientRuns(p)
<1>0. /\ UNCHANGED <<delegateVars, now>>
      /\ frame[p] \in Frame /\ frame[p].url \in Urls /\ lastId \in Nat /\ ops \in Nat
  BY TypesOfFrames DEF CallerStep
<1>1. ASSUME OthersKeep(p), Runs(p), UNCHANGED ops,
             \/ pc[p] \in {"caching", "established", "submitted", "polling", "closing"}
             \/ ~Answered(p, "none")
      PROVE  ClientRuns(p)
  BY <1>0, <1>1, Quieted DEF ClientRuns
<1>2. CASE SubmitTask(p)
  <2>1. PICK msg \in Message, locals \in Frame :
          /\ msg.type = "task_submit" /\ msg.signature = ClientSecret
          /\ locals.url = frame[p].url /\ msg.task_id = locals.task
          /\ Post(p, frame[p].url, msg) /\ Goto(p, "submit", locals)
    <3> DEFINE id == lastId + 1
               msg == [type |-> "task_submit", session_id |-> frame[p].session.session_id,
                       task_id |-> id, signature |-> ClientSecret]
               locals == [frame[p] EXCEPT !.task = id]
    <3>1. Post(p, frame[p].url, msg) /\ Goto(p, "submit", locals)
      BY <1>2 DEF SubmitTask
    <3>2. id \in Id
      BY <1>0 DEF Id
    <3> HIDE DEF id
    <3>3. msg \in Message /\ locals \in Frame
      BY <1>0, <3>2, FrameFields, TypesOfFrames DEF Message, Signature, Frame
    <3>4. /\ msg.type = "task_submit" /\ msg.signature = ClientSecret /\ msg.task_id = id
          /\ locals.url = frame[p].url /\ locals.task = id
      BY <1>0 DEF Frame
    <3> HIDE DEF msg, locals
    <3>5. QED
      BY <3>1, <3>3, <3>4
  <2>2. PICK u \in Urls : u = frame[p].url
    BY <1>0
  <2>3. OthersKeep(p) /\ Posts(p, msg) /\ frame'[p] = locals
    BY <2>1, <2>2, Posted DEF AwaitOf
  <2>4. QED
    BY <1>0, <1>1, <1>2, <2>1, <2>3 DEF SubmitTask, Runs, Submits, CacheKeeps, adapterVars
<1>3. CASE SubmitReturns(p)
  <2>1. OthersKeep(p) /\ Stays(p, {"submitted"}) /\ frame'[p] = frame[p]
    BY <1>3, TypesOfFrames DEF SubmitReturns, Goto, Consume, OthersKeep, Stays
  <2>2. QED
    BY <1>1, <1>3, <2>1 DEF SubmitReturns, Runs, Learns, CacheKeeps
<1>4. CASE SubmitFails(p)
  <2>1. OthersKeep(p) /\ Stays(p, {"idle", "polling", "closing"})
    BY <1>4, Returned DEF SubmitFails
  <2>2. ~Answered(p, "none")
    BY <1>4 DEF SubmitFails, Answered
  <2>3. QED
    BY <1>0, <1>1, <1>4, <2>1, <2>2 DEF SubmitFails, Runs, Ends, CacheKeeps, adapterVars
<1>5. CASE TouchSession(p)
  <2>1. OthersKeep(p) /\ Stays(p, {"idle", "polling"})
    BY <1>5, TypesOfFrames DEF TouchSession, Return, Goto, OthersKeep, Stays, transportVars
  <2>2. \E h : /\ handles' = handles \cup {h}
               /\ h.task_id = frame[p].task /\ h.url = frame[p].url
    <3> DEFINE h == [task_id |-> frame[p].task, url |-> frame[p].url,
                     session_id |-> frame[p].session.session_id, op |-> frame[p].op,
                     payload_mode |-> frame[p].session.payload_mode,
                     contract |-> frame[p].contract]
    <3>1. handles' = handles \cup {h}
      BY <1>5 DEF TouchSession
    <3>2. h.task_id = frame[p].task /\ h.url = frame[p].url
      OBVIOUS
    <3> HIDE DEF h
    <3>3. QED
      BY <3>1, <3>2
  <2>3. CacheKeeps
    BY <1>0, <1>5, TouchKeeps DEF TouchSession
  <2>4. QED
    BY <1>1, <1>5, <2>1, <2>2, <2>3 DEF TouchSession, Runs, HandsOut
<1>6. CASE PollStream(p)
  <2>1. PICK msg \in Message : msg = StatusQuery(frame[p].task)
    BY StatusQueryType, FrameFields, TypesOfFrames
  <2>2. PICK u \in Urls : u = frame[p].url
    BY <1>0
  <2>3. Post(p, u, msg) /\ Goto(p, "polled", frame[p])
    BY <1>6, <2>1, <2>2 DEF PollStream
  <2>4. msg.type = "task_update" /\ msg.signature = ClientSecret
    BY <2>1 DEF StatusQuery
  <2>5. PICK locals \in Frame : locals = frame[p]
    BY <1>0
  <2>6. OthersKeep(p) /\ Posts(p, msg)
    BY <2>2, <2>3, <2>4, <2>5, Posted DEF AwaitOf
  <2>7. QED
    BY <1>0, <1>1, <1>6, <2>4, <2>6 DEF PollStream, Runs, Asks, CacheKeeps, adapterVars
<1>7. CASE PollReturns(p)
  <2>1. OthersKeep(p) /\ Stays(p, {"idle", "polling", "closing"})
    BY <1>7, TypesOfFrames DEF PollReturns, Return, Goto, Consume, OthersKeep, Stays
  <2>2. QED
    BY <1>0, <1>1, <1>7, <2>1 DEF PollReturns, Runs, Ends, CacheKeeps
<1>8. CASE CancelReturns(p)
  <2>1. OthersKeep(p) /\ Stays(p, {"idle", "polling", "closing"})
    BY <1>8, Returned DEF CancelReturns
  <2>2. QED
    BY <1>0, <1>1, <1>8, <2>1 DEF CancelReturns, Runs, Ends, CacheKeeps, adapterVars
<1>9. CASE ManagerStep(p) /\ UNCHANGED adapterVars
  <2>1. OthersKeep(p) /\ Runs(p)
    BY <1>0, <1>9, ManagerRuns
  <2>2. UNCHANGED ops
    BY <1>9 DEF ManagerStep, ReceiveManifest, ReceiveAccept, HandshakeFails, CacheSession,
                CloseNext, CloseSkips, CloseAllReturns, CloseReturns
  <2>3. \/ pc[p] \in {"caching", "established", "submitted", "polling", "closing"}
        \/ ~Answered(p, "none")
    BY <1>9 DEF ManagerStep, ReceiveManifest, ReceiveAccept, HandshakeFails, CacheSession,
                CloseNext, CloseSkips, CloseAllReturns, CloseReturns, Answered
  <2>4. QED
    BY <1>1, <2>1, <2>2, <2>3
<1>10. QED
  BY <1>2, <1>3, <1>4, <1>5, <1>6, <1>7, <1>8, <1>9 DEF CallerStep, CallerContinues

-------------------------------------------------------------------------------
(* The steps of the delegates and of the network *)

(* The delegate is done with r; whoever still listens has the reply. *)
Answers(r, reply) ==
  /\ requests' = requests \ {r}
  /\ replies' \in [Callers -> Reply]
  /\ r.conn # NoConn => replies'[r.conn] = reply
  /\ \A p \in Callers \ {r.conn} : replies'[p] = replies[p]
  /\ UNCHANGED <<localVars, now>>

StartsSession(r, reply) ==
  /\ r.msg.type = "session_propose" /\ Welcome(r.to)
  /\ lastId' = lastId + 1
  /\ started' = [started EXCEPT
       ![r.to] = @ \cup {[session_id |-> lastId + 1, payload_mode |-> "text"]}]
  /\ UNCHANGED <<stopped, ran>>
  /\ \/ reply.type = "session_accept" /\ reply.session_id = lastId + 1
     \/ reply.type = "error"

RunsTask(r, reply) ==
  /\ r.msg.type = "task_submit"
  /\ \E raised \in BOOLEAN :
       ran' = [ran EXCEPT ![r.to] = @ \cup {[task_id |-> r.msg.task_id, raised |-> raised]}]
  /\ UNCHANGED <<started, stopped, lastId>>
  /\ reply.type \in {"task_result", "task_failed"}

EndsSession(r, reply) ==
  /\ r.msg.type = "session_close"
  /\ stopped' = [stopped EXCEPT ![r.to] = Append(@, r.msg.session_id)]
  /\ UNCHANGED <<started, ran, lastId>>
  /\ reply.type \in {"session_close", "error"}

(* Nothing is done for the client, and no task of a welcome one refused. *)
OnlyReplies(r, reply) ==
  /\ UNCHANGED <<delegateVars, lastId>>
  /\ reply.type \in {"task_failed", "capability_manifest", "session_reject", "task_update"}
  /\ r.msg.type = "task_submit" => ~Welcome(r.to)

DelegateRuns(r, reply) ==
  /\ Answers(r, reply)
  /\ \/ StartsSession(r, reply) \/ RunsTask(r, reply)
     \/ EndsSession(r, reply) \/ OnlyReplies(r, reply)

LEMMA AnswerGiven ==
  ASSUME TypeOK, NEW r \in requests, NEW reply \in Reply, Answer(r, reply),
         UNCHANGED <<localVars, now>>
  PROVE  Answers(r, reply)
BY RequestFields DEF TypeOK, Answer, Answers

(* The proposal of a Rust client has no preferences, so text is agreed. *)
LEMMA PyTextAgreed ==
  ASSUME NEW m \in Message, m.type = "session_propose", NEW remote
  PROVE  AgreedModePy(ProposedModes(m), remote) = "text"
<1>1. ProposedModes(m) = <<>>
  BY MessageFields DEF ProposedModes
<1>2. QED
  BY <1>1 DEF AgreedModePy

(* A signature of the client's is refused where it is not welcome. *)
LEMMA WelcomeSignature ==
  ASSUME NEW u, NEW msg, msg.signature = ClientSecret
  PROVE  /\ Welcome(u) => ~BadSignature(u, msg)
         /\ ~BadSignature(u, msg) /\ Trusts(DelegateDomain[u], ClientDomain.name) => Welcome(u)
BY DEF Welcome, BadSignature

LEMMA DelegateForms ==
  ASSUME TypeOK, WireInv, NEW r \in requests, RouteMessage(r), UNCHANGED <<localVars, now>>
  PROVE  \E reply \in Reply : DelegateRuns(r, reply)
<1>0. /\ r.to \in Urls /\ r.msg \in Message
      /\ r.msg.type # "session_close" => r.msg.signature = ClientSecret
      /\ lastId + 1 \in Id
  BY RequestFields DEF WireInv, TypeOK, ManagerTypeOK, Id
<1>1. ASSUME NEW type \in {"task_failed", "capability_manifest", "session_reject", "task_update"},
             Answer(r, [type |-> type]), UNCHANGED <<delegateVars, lastId>>,
             r.msg.type = "task_submit" => ~Welcome(r.to)
      PROVE  \E reply \in Reply : DelegateRuns(r, reply)
  <2>1. PICK reply \in Reply : reply = [type |-> type]
    BY DEF Reply
  <2>2. QED
    BY <1>1, <2>1, AnswerGiven DEF DelegateRuns, OnlyReplies
<1>2. CASE RefuseSignature(r)
  BY <1>0, <1>1, <1>2, WelcomeSignature DEF RefuseSignature
<1>3. CASE ServeIdentity(r)
  BY <1>0, <1>3, MessageFields DEF ServeIdentity, Routed
<1>4. CASE AnswerHello(r)
  BY <1>1, <1>4 DEF AnswerHello, Routed
<1>5. CASE RejectProposal(r)
  BY <1>1, <1>5 DEF RejectProposal, Routed
<1>6. CASE AcceptProposal(r)
  <2>1. /\ r.msg.type = "session_propose" /\ Welcome(r.to)
        /\ lastId' = lastId + 1 /\ UNCHANGED <<stopped, ran>>
    BY <1>0, <1>6, WelcomeSignature, MessageFields
    DEF AcceptProposal, Routed, Draw, NewId
  <2>2. AgreedModePy(ProposedModes(r.msg), Offered(r.to)) = "text"
    BY <1>0, <2>1, PyTextAgreed
  <2>3. /\ started' = [started EXCEPT
             ![r.to] = @ \cup {[session_id |-> lastId + 1, payload_mode |-> "text"]}]
        /\ \/ Answer(r, [type |-> "session_accept", session_id |-> lastId + 1,
                         negotiated_mode |-> "text"])
           \/ Answer(r, Failure)
    BY <1>6, <2>2 DEF AcceptProposal, NewId
  <2>4. PICK reply \in Reply :
          /\ Answer(r, reply)
          /\ \/ reply.type = "session_accept" /\ reply.session_id = lastId + 1
             \/ reply.type = "error"
    <3>1. CASE Answer(r, [type |-> "session_accept", session_id |-> lastId + 1,
                          negotiated_mode |-> "text"])
      <4> DEFINE reply == [type |-> "session_accept", session_id |-> lastId + 1,
                           negotiated_mode |-> "text"]
      <4>1. reply \in Reply /\ reply.type = "session_accept" /\ reply.session_id = lastId + 1
        BY <1>0 DEF Reply, PayloadMode
      <4>2. Answer(r, reply)
        BY <3>1
      <4> HIDE DEF reply
      <4>3. QED
        BY <4>1, <4>2
    <3>2. CASE Answer(r, Failure)
      BY <3>2 DEF Failure, Reply
    <3>3. QED
      BY <2>3, <3>1, <3>2
  <2>5. QED
    BY <2>1, <2>3, <2>4, AnswerGiven DEF DelegateRuns, StartsSession
<1>7. CASE RunTaskPy(r)
  <2>1. PICK raised \in BOOLEAN :
          /\ ran' = [ran EXCEPT ![r.to] = @ \cup {[task_id |-> r.msg.task_id, raised |-> raised]}]
          /\ Answer(r, [type |-> IF raised THEN "task_failed" ELSE "task_result"])
    BY <1>7 DEF RunTaskPy
  <2>2. PICK reply \in Reply : reply = [type |-> IF raised THEN "task_failed" ELSE "task_result"]
    BY DEF Reply
  <2>3. QED
    BY <1>7, <2>1, <2>2, AnswerGiven DEF RunTaskPy, Routed, DelegateRuns, RunsTask
<1>8. CASE AnswerCancel(r)
  BY <1>1, <1>8 DEF AnswerCancel, Routed
<1>9. CASE EndSession(r)
  <2>1. PICK reply \in Reply : reply.type \in {"session_close", "error"} /\ Answer(r, reply)
    <3>1. CASE Answer(r, [type |-> "session_close"])
      BY <3>1 DEF Reply
    <3>2. CASE Answer(r, Failure)
      BY <3>2 DEF Failure, Reply
    <3>3. QED
      BY <1>9, <3>1, <3>2 DEF EndSession
  <2>2. QED
    BY <1>9, <2>1, AnswerGiven DEF EndSession, Routed, DelegateRuns, EndsSession
<1>10. CASE AnswerUnknown(r)
  BY <1>0, <1>1, <1>10 DEF AnswerUnknown, RoutedTypes
<1>11. QED
  BY <1>2, <1>3, <1>4, <1>5, <1>6, <1>7, <1>8, <1>9, <1>10 DEF RouteMessage

(* p hears an error; a request of p's is gone, or goes on without p. *)
Abandons(p) ==
  /\ replies'[p] = Failure
  /\ \A q \in Callers \ {p} : replies'[q] = replies[q]
  /\ \/ \E r \in requests : r.conn = p /\ requests' = requests \ {r}
     \/ \E r \in requests, q \in Exchange :
          /\ r.conn = p /\ requests' = (requests \ {r}) \cup {q}
          /\ q.conn = NoConn /\ q.to = r.to /\ q.msg = r.msg
     \/ UNCHANGED requests /\ ~Answered(p, "none")
  /\ UNCHANGED <<delegateVars, localVars, lastId, now>>

LEMMA NetworkForms ==
  ASSUME TypeOK, NEW p \in Callers, NetworkStep(p)
  PROVE  Abandons(p)
<1>1. /\ replies'[p] = Failure
      /\ \A q \in Callers \ {p} : replies'[q] = replies[q]
      /\ UNCHANGED <<delegateVars, localVars, lastId, now>>
  BY DEF TypeOK, NetworkStep, ConnectionFails
<1>2. CASE \E r \in requests :
             /\ r.conn = p
             /\ \/ r.stage = "posted" /\ requests' = requests \ {r}
                \/ requests' = (requests \ {r}) \cup {[r EXCEPT !.conn = NoConn]}
  <2>1. PICK r \in requests :
             /\ r.conn = p
             /\ \/ requests' = requests \ {r}
                \/ requests' = (requests \ {r}) \cup {[r EXCEPT !.conn = NoConn]}
    BY <1>2
  <2> DEFINE q == [r EXCEPT !.conn = NoConn]
  <2>2. q \in Exchange /\ q.conn = NoConn /\ q.to = r.to /\ q.msg = r.msg
    BY DEF TypeOK, Exchange
  <2> HIDE DEF q
  <2>3. requests' = requests \ {r} \/ requests' = (requests \ {r}) \cup {q}
    BY <2>1 DEF q
  <2>4. QED
    BY <1>1, <2>1, <2>2, <2>3 DEF Abandons
<1>3. CASE replies[p] \notin {NoReply, Failure} /\ UNCHANGED requests
  <2>1. ~Answered(p, "none")
    BY <1>3, ReplyFields DEF TypeOK, Answered
  <2>2. QED
    BY <1>1, <1>3, <2>1 DEF Abandons
<1>4. QED
  BY <1>2, <1>3 DEF NetworkStep, ConnectionFails

(* Whatever happens, it is one of these. *)
LEMMA NextForms ==
  ASSUME TypeOK, WireInv, [Next]_mixedVars
  PROVE  \/ \E p \in Callers : ClientRuns(p)
         \/ \E r \in requests, reply \in Reply : DelegateRuns(r, reply)
         \/ \E p \in Callers : Abandons(p)
         \/ UNCHANGED <<transportVars, lastId, delegateVars, localVars>> /\ now' \in Nat
<1>1. ASSUME NEW conn \in Callers \cup {NoConn}, DelegateStep(conn)
      PROVE  \E r \in requests, reply \in Reply : DelegateRuns(r, reply)
  BY <1>1, DelegateForms DEF DelegateStep, ServePy
<1>2. ASSUME NEW p \in Callers, StartStep(p) \/ CallerStep(p) PROVE ClientRuns(p)
  BY <1>2, ClientStarts, ClientContinues
<1>3. CASE ClockStep \/ Finished \/ UNCHANGED mixedVars
  BY <1>3 DEF ClockStep, Tick, Finished, mixedVars, TypeOK
<1>4. QED
  BY <1>1, <1>2, <1>3, NetworkForms DEF Next

-------------------------------------------------------------------------------
(* Messages and types *)

LEMMA PostKeepsWire ==
  ASSUME TypeOK, WireInv, NEW p \in Callers, NEW msg \in Message,
         OthersKeep(p), Quiet(p), Posts(p, msg),
         msg.type # "session_close" => msg.signature = ClientSecret,
         msg.type = "task_submit" => msg.task_id = frame'[p].task
  PROVE  WireInv'
<1> DEFINE new == Request(p, frame'[p].url, msg)
<1>1. new.conn = p /\ new.to = frame'[p].url /\ new.msg = msg
  BY DEF Request
<1>2. requests' = requests \cup {new} /\ replies'[p] = NoReply /\ pc'[p] = AwaitOf[msg.type]
  BY DEF Posts
<1> HIDE DEF new
<1>3. \A r \in requests : r.conn \in Callers \cup {NoConn} /\ r.conn # p
  BY RequestFields DEF Quiet
<1>4. \A r \in requests' : r.conn # NoConn =>
        /\ pc'[r.conn] = AwaitOf[r.msg.type]
        /\ frame'[r.conn].url = r.to
        /\ replies'[r.conn] = NoReply
        /\ r.msg.type = "task_submit" => r.msg.task_id = frame'[r.conn].task
  BY <1>1, <1>2, <1>3 DEF WireInv, OthersKeep
<1>5. \A q, r \in requests' : q.conn = r.conn /\ q.conn # NoConn => q = r
  BY <1>1, <1>2, <1>3 DEF WireInv
<1>6. \A r \in requests' : r.msg.type # "session_close" => r.msg.signature = ClientSecret
  BY <1>1, <1>2 DEF WireInv
<1>7. \A q \in Callers : pc'[q] = "polled" => replies'[q].type # "task_result"
  BY <1>2 DEF WireInv, OthersKeep, Answered, NoReply
<1>8. QED
  BY <1>4, <1>5, <1>6, <1>7 DEF WireInv, Answered

LEMMA StayKeepsWire ==
  ASSUME TypeOK, WireInv, NEW p \in Callers, OthersKeep(p), Quiet(p), UNCHANGED requests,
         pc'[p] # "polled"
  PROVE  WireInv'
<1>1. \A r \in requests : r.conn \in Callers \cup {NoConn} /\ r.conn # p
  BY RequestFields DEF Quiet
<1>2. QED
  BY <1>1 DEF WireInv, OthersKeep, Answered

LEMMA ClientKeepsWire ==
  ASSUME TypeOK, WireInv, NEW p \in Callers, ClientRuns(p)
  PROVE  WireInv'
<1>1. OthersKeep(p) /\ Quiet(p) /\ Runs(p)
  BY DEF ClientRuns
<1>2. ASSUME NEW labels, Stays(p, labels), "polled" \notin labels PROVE WireInv'
  BY <1>1, <1>2, StayKeepsWire DEF Stays
<1>3. CASE Greets(p) \/ Proposes(p) \/ Submits(p) \/ Asks(p) \/ Closing(p)
  <2>1. PICK msg \in Message :
          /\ Posts(p, msg)
          /\ msg.type # "session_close" => msg.signature = ClientSecret
          /\ msg.type = "task_submit" => msg.task_id = frame'[p].task
    BY <1>3 DEF Greets, Proposes, Submits, Asks, Closing
  <2>2. QED
    BY <1>1, <2>1, PostKeepsWire
<1>4. CASE Reuses(p) \/ Takes(p) \/ Caches(p) \/ Learns(p) \/ HandsOut(p) \/ Ends(p)
  BY <1>2, <1>4 DEF Reuses, Takes, Caches, Learns, HandsOut, Ends
<1>5. QED
  BY <1>1, <1>3, <1>4 DEF Runs

LEMMA DelegateKeepsWire ==
  ASSUME TypeOK, WireInv, NEW r \in requests, NEW reply \in Reply, DelegateRuns(r, reply)
  PROVE  WireInv'
<1>1. /\ requests' = requests \ {r} /\ UNCHANGED <<pc, frame>>
      /\ r.conn # NoConn => replies'[r.conn] = reply
      /\ \A p \in Callers \ {r.conn} : replies'[p] = replies[p]
  BY DEF DelegateRuns, Answers, localVars
<1>2. r.conn # NoConn => /\ r.conn \in Callers /\ pc[r.conn] = AwaitOf[r.msg.type]
                         /\ \A q \in requests : q.conn = r.conn => q = r
  BY RequestFields DEF WireInv
<1>3. \A q \in requests' : q.conn # NoConn => replies'[q.conn] = NoReply
  <2> SUFFICES ASSUME NEW q \in requests', q.conn # NoConn PROVE replies'[q.conn] = NoReply
    OBVIOUS
  <2>1. q \in requests /\ q.conn \in Callers /\ q.conn # r.conn
    BY <1>1, <1>2, RequestFields
  <2>2. QED
    BY <1>1, <2>1 DEF WireInv
<1>4. ASSUME r.conn # NoConn, pc[r.conn] = "polled" PROVE reply.type # "task_result"
  <2>1. r.msg.type \in {"task_update"}
    BY <1>2, <1>4, RequestFields, MessageFields DEF AwaitOf
  <2>2. QED
    BY <2>1 DEF DelegateRuns, StartsSession, RunsTask, EndsSession, OnlyReplies
<1>5. \A p \in Callers : pc'[p] = "polled" => replies'[p].type # "task_result"
  BY <1>1, <1>2, <1>4 DEF WireInv, Answered
<1>6. QED
  BY <1>1, <1>3, <1>5 DEF WireInv, Answered

LEMMA NetworkKeepsWire ==
  ASSUME TypeOK, WireInv, NEW p \in Callers, Abandons(p)
  PROVE  WireInv'
<1>1. /\ UNCHANGED <<pc, frame>>
      /\ replies'[p] = Failure
      /\ \A q \in Callers \ {p} : replies'[q] = replies[q]
  BY DEF Abandons, localVars
<1>2. \A t \in requests' :
        /\ t.conn # NoConn => t \in requests /\ t.conn \in Callers \ {p}
        /\ \E r \in requests : t.msg = r.msg
  <2>1. ASSUME NEW r \in requests, r.conn = p, NEW t \in requests \ {r}
        PROVE  t.conn # NoConn => t.conn \in Callers \ {p}
    BY <2>1, RequestFields DEF WireInv
  <2>2. CASE \E r \in requests : r.conn = p /\ requests' = requests \ {r}
    BY <2>1, <2>2
  <2>3. CASE \E r \in requests, q \in Exchange :
               /\ r.conn = p /\ requests' = (requests \ {r}) \cup {q}
               /\ q.conn = NoConn /\ q.to = r.to /\ q.msg = r.msg
    BY <2>1, <2>3
  <2>4. CASE UNCHANGED requests /\ ~Answered(p, "none")
    BY <2>4, Quieted, RequestFields DEF Quiet
  <2>5. QED
    BY <2>2, <2>3, <2>4 DEF Abandons
<1>3. \A q \in Callers : pc'[q] = "polled" => replies'[q].type # "task_result"
  BY <1>1 DEF WireInv, Answered, Failure
<1>4. QED
  BY <1>1, <1>2, <1>3 DEF WireInv, Answered

LEMMA NextWire ==
  ASSUME TypeOK, WireInv, [Next]_mixedVars
  PROVE  WireInv'
<1>1. CASE UNCHANGED <<transportVars, lastId, delegateVars, localVars>>
  BY <1>1 DEF transportVars, localVars, WireInv, Answered
<1>2. QED
  BY <1>1, NextForms, ClientKeepsWire, DelegateKeepsWire, NetworkKeepsWire

(* The part of TypeOK that the delegates write. *)
DelegateTypeOK ==
  /\ started \in [Urls -> SUBSET [session_id : Id, payload_mode : PayloadMode]]
  /\ stopped \in [Urls -> Seq(Id)]
  /\ ran \in [Urls -> SUBSET [task_id : Id, raised : BOOLEAN]]

LEMMA RepliesUsable ==
  ASSUME TypeOK, WireInv, NEW p \in Callers
  PROVE  ReplyUsable(p)
BY ReplyFields DEF TypeOK, WireInv, ReplyUsable, Answered

LEMMA ClientSendsType ==
  ASSUME TypeOK, NEW p \in Callers, ClientSends(p)
  PROVE  requests' \in SUBSET Exchange /\ replies' \in [Callers -> Reply]
<1>1. NoReply \in Reply
  BY DEF NoReply, Reply
<1>2. CASE \E u \in Urls, msg \in Message : Post(p, u, msg)
  BY <1>1, <1>2 DEF TypeOK, Post, Request, Exchange
<1>3. CASE Consume(p) \/ UNCHANGED transportVars
  BY <1>1, <1>3 DEF TypeOK, Consume, transportVars
<1>4. QED
  BY <1>2, <1>3 DEF ClientSends

LEMMA DelegateType ==
  ASSUME TypeOK, NEW r \in requests, NEW reply \in Reply, DelegateRuns(r, reply)
  PROVE  DelegateTypeOK' /\ lastId' \in Id
<1>0. r.to \in Urls /\ r.msg \in Message /\ lastId \in Nat /\ lastId + 1 \in Id
  BY RequestFields DEF TypeOK, ManagerTypeOK, Id
<1>1. CASE StartsSession(r, reply)
  <2>1. [session_id |-> lastId + 1, payload_mode |-> "text"]
          \in [session_id : Id, payload_mode : PayloadMode]
    BY <1>0 DEF PayloadMode
  <2>2. QED
    BY <1>0, <1>1, <2>1 DEF StartsSession, TypeOK, DelegateTypeOK
<1>2. CASE RunsTask(r, reply)
  <2>1. PICK raised \in BOOLEAN :
          ran' = [ran EXCEPT ![r.to] = @ \cup {[task_id |-> r.msg.task_id, raised |-> raised]}]
    BY <1>2 DEF RunsTask
  <2>2. [task_id |-> r.msg.task_id, raised |-> raised] \in [task_id : Id, raised : BOOLEAN]
    BY <1>0, <1>2, MessageFields DEF RunsTask
  <2>3. QED
    BY <1>0, <1>2, <2>1, <2>2 DEF RunsTask, TypeOK, DelegateTypeOK, ManagerTypeOK
<1>3. CASE EndsSession(r, reply)
  <2>1. r.msg.session_id \in Id /\ stopped[r.to] \in Seq(Id)
    BY <1>0, <1>3, MessageFields DEF EndsSession, TypeOK
  <2>2. Append(stopped[r.to], r.msg.session_id) \in Seq(Id)
    BY <2>1
  <2>3. QED
    BY <1>0, <1>3, <2>2 DEF EndsSession, TypeOK, DelegateTypeOK, ManagerTypeOK
<1>4. CASE OnlyReplies(r, reply)
  BY <1>4 DEF OnlyReplies, TypeOK, DelegateTypeOK, ManagerTypeOK, delegateVars
<1>5. QED
  BY <1>1, <1>2, <1>3, <1>4 DEF DelegateRuns

LEMMA NextType ==
  ASSUME TypeOK, WireInv, [Next]_mixedVars
  PROVE  TypeOK'
<1>1. ASSUME NEW p \in Callers, StartStep(p) \/ CallerStep(p) PROVE TypeOK'
  <2>1. /\ ClientSends(p) /\ ManagerTypeOK' /\ AdapterTypeOK'
    BY <1>1, CallerStartsType, CallerContinuesType, RepliesUsable DEF StartStep, CallerStep, TypeOK
  <2>2. UNCHANGED <<delegateVars, now>>
    BY <1>1 DEF StartStep, CallerStep
  <2>3. QED
    BY <2>1, <2>2, ClientSendsType DEF TypeOK, delegateVars
<1>2. ASSUME NEW r \in requests, NEW reply \in Reply, DelegateRuns(r, reply) PROVE TypeOK'
  <2>1. UNCHANGED <<localVars, now>> /\ requests' \subseteq requests
        /\ replies' \in [Callers -> Reply]
    BY <1>2 DEF DelegateRuns, Answers, TypeOK
  <2>2. DelegateTypeOK' /\ lastId' \in Id
    BY <1>2, DelegateType
  <2>3. ManagerTypeOK' /\ AdapterTypeOK'
    BY <2>1, <2>2 DEF TypeOK, ManagerTypeOK, AdapterTypeOK, localVars, adapterVars
  <2>4. QED
    BY <2>1, <2>2, <2>3 DEF TypeOK, DelegateTypeOK
<1>3. CASE /\ requests' \in SUBSET Exchange /\ replies' \in [Callers -> Reply]
           /\ UNCHANGED <<lastId, delegateVars, localVars>> /\ now' \in Nat
  <2>1. ManagerTypeOK' /\ AdapterTypeOK'
    BY <1>3 DEF TypeOK, ManagerTypeOK, AdapterTypeOK, localVars, adapterVars
  <2>2. QED
    BY <1>3, <2>1 DEF TypeOK, delegateVars
<1>4. ASSUME NEW p \in Callers, NetworkStep(p) PROVE TypeOK'
  <2>1. Abandons(p)
    BY <1>4, NetworkForms
  <2>2. requests' \in SUBSET Exchange
    BY <2>1 DEF Abandons, TypeOK
  <2>3. replies' \in [Callers -> Reply]
    BY <1>4 DEF NetworkStep, ConnectionFails, TypeOK, Failure, Reply
  <2>4. UNCHANGED <<lastId, delegateVars, localVars>> /\ now' \in Nat
    BY <2>1 DEF Abandons, TypeOK
  <2>5. QED
    BY <1>3, <2>2, <2>3, <2>4
<1>5. ASSUME NEW conn \in Callers \cup {NoConn}, DelegateStep(conn) PROVE TypeOK'
  BY <1>2, <1>5, DelegateForms DEF DelegateStep, ServePy
<1>6. CASE ClockStep \/ Finished \/ UNCHANGED mixedVars
  BY <1>3, <1>6 DEF ClockStep, Tick, Finished, mixedVars, transportVars, TypeOK
<1>7. QED
  BY <1>1, <1>4, <1>5, <1>6 DEF Next

LEMMA InitTypes == Init => TypeOK /\ WireInv
<1> SUFFICES ASSUME Init PROVE TypeOK /\ WireInv
  OBVIOUS
<1>1. ManagerTypeOK
  BY BlankType, SomeUrlType DEF Init, ManagerInit, ManagerTypeOK, Label, NoId, Id
<1>2. AdapterTypeOK
  BY DEF Init, AdapterInit, AdapterTypeOK
<1>3. TypeOK
  BY <1>1, <1>2 DEF Init, TransportInit, DelegateInit, TypeOK, NoReply, Reply
<1>4. WireInv
  BY DEF Init, TransportInit, ManagerInit, WireInv
<1>5. QED
  BY <1>3, <1>4

LEMMA TypesAlwaysOK == Spec => [](TypeOK /\ WireInv)
<1>1. TypeOK /\ WireInv /\ [Next]_mixedVars => TypeOK' /\ WireInv'
  BY NextType, NextWire
<1>2. QED
  BY <1>1, InitTypes, PTL DEF Spec

(* The Rust client and the delegates of the Python SDK hold and exchange   *)
(* what the structs and classes of either declare, for every number of     *)
(* tasks and delegates; no reply is taken for one it is not.                *)
THEOREM MixedTypeCorrect == Spec => []TypeOK
BY TypesAlwaysOK, PTL

-------------------------------------------------------------------------------
(* Sessions *)

LEMMA RangeOfAppend ==
  ASSUME NEW S, NEW seq \in Seq(S), NEW e \in S
  PROVE  /\ Range(Append(seq, e)) = Range(seq) \cup {e}
         /\ IsInjective(seq) /\ e \notin Range(seq) => IsInjective(Append(seq, e))
<1> DEFINE n == Len(seq)
           more == Append(seq, e)
<1>1. /\ DOMAIN seq = 1..n /\ n \in Nat
      /\ DOMAIN more = 1..(n + 1)
      /\ \A i \in 1..n : more[i] = seq[i]
      /\ more[n + 1] = e
  OBVIOUS
<1> HIDE DEF n, more
<1>2. Range(more) = Range(seq) \cup {e}
  <2>1. 1..(n + 1) = (1..n) \cup {n + 1}
    BY <1>1
  <2>2. QED
    BY <1>1, <2>1 DEF Range
<1>3. ASSUME IsInjective(seq), e \notin Range(seq) PROVE IsInjective(more)
  <2> SUFFICES ASSUME NEW i \in 1..(n + 1), NEW j \in 1..(n + 1), more[i] = more[j]
               PROVE  i = j
    BY <1>1 DEF IsInjective
  <2>1. ASSUME NEW k \in 1..n PROVE seq[k] # e
    BY <1>1, <1>3, <2>1 DEF Range
  <2>2. CASE i \in 1..n /\ j \in 1..n
    BY <1>1, <1>3, <2>2 DEF IsInjective
  <2>3. CASE i = n + 1 /\ j \in 1..n
    BY <1>1, <2>1, <2>3
  <2>4. CASE i \in 1..n /\ j = n + 1
    BY <1>1, <2>1, <2>4
  <2>5. QED
    BY <1>1, <2>2, <2>3, <2>4
<1>4. QED
  BY <1>2, <1>3 DEF more

(* No caller is granted a session it was not granted before. *)
GrantsKept ==
  \A q \in Callers : Granted(q)' =>
    Granted(q) /\ Grant(q)' = Grant(q) /\ frame'[q].url = frame[q].url

(* No SESSION_CLOSE is on its way that was not, nor twice. *)
ClosesKept ==
  /\ \A t \in Closes' : \E r \in Closes : r.to = t.to /\ r.msg = t.msg
  /\ \A s, t \in Closes' : s.msg.session_id = t.msg.session_id => s = t

(* The identifiers drawn at the delegates are the sessions' own. *)
LEMMA IdsBelow ==
  ASSUME TypeOK, HookInv
  PROVE  /\ lastId \in Nat /\ \A u \in Urls : \A id \in Started(u) : id \in 1..lastId
         /\ \A u \in Urls : \A id \in Range(stopped[u]) : id \in 1..lastId
         /\ \A u \in Urls : cache[u].session_id \in 0..lastId
<1>1. lastId \in Nat /\ \A u \in Urls : \A id \in Started(u) : id \in 1..lastId
  BY DEF TypeOK, ManagerTypeOK, Id, HookInv, SessionsDrawn, Started
<1>2. \A u \in Urls : cache[u].session_id \in 0..lastId
  <2> SUFFICES ASSUME NEW u \in Urls, Cached(u) PROVE cache[u].session_id \in 0..lastId
    BY <1>1 DEF Cached, NoId
  <2>1. cache[u].session_id \in Started(u)
    <3> DEFINE t == [session_id |-> cache[u].session_id, payload_mode |-> cache[u].payload_mode]
    <3>1. t \in started[u] /\ t.session_id = cache[u].session_id
      BY DEF HookInv, CachedSessionStarted
    <3> HIDE DEF t
    <3>2. QED
      BY <3>1 DEF Started
  <2>2. QED
    BY <1>1, <2>1
<1>3. QED
  BY <1>1, <1>2 DEF HookInv, HooksPaired

LEMMA OpenIsStarted ==
  ASSUME NEW u, NEW id, OpenAt(u, id)
  PROVE  id \in Started(u) /\ id \notin Range(stopped[u])
BY DEF OpenAt, Started

(* Steps that move no session. *)
LEMMA HooksKept ==
  ASSUME TypeOK, HookInv, GrantsKept, ClosesKept, CacheKeeps, UNCHANGED <<started, stopped>>,
         lastId' \in Nat, lastId <= lastId', TextNegotiated'
  PROVE  HookInv'
<1>1. SessionsDrawn'
  <2>1. 1..lastId \subseteq 1..lastId'
    BY IdsBelow
  <2>2. QED
    BY <2>1 DEF HookInv, SessionsDrawn, Started
<1>2. HooksPaired' /\ CachedSessionStarted'
  BY DEF HookInv, HooksPaired, CachedSessionStarted, Cached, CacheKeeps, Started
<1>3. \A u, id : OpenAt(u, id) => OpenAt(u, id)'
  BY DEF OpenAt
<1>4. ASSUME NEW p \in Callers, Granted(p)'
      PROVE  /\ OpenAt(frame[p].url, Grant(p))'
             /\ \A q \in Callers : Granted(q)' /\ Grant(q)' = Grant(p)' => q = p
             /\ \A u \in Urls : cache'[u].session_id # Grant(p)'
  <2>1. /\ Granted(p) /\ Grant(p)' = Grant(p) /\ frame'[p].url = frame[p].url
        /\ \A q \in Callers : Granted(q)' => Granted(q) /\ Grant(q)' = Grant(q)
    BY <1>4 DEF GrantsKept
  <2>2. OpenAt(frame[p].url, Grant(p))'
    BY <2>1 DEF HookInv, OnePlaceEach, OpenAt
  <2>3. QED
    BY <2>1, <2>2 DEF HookInv, OnePlaceEach, CacheKeeps
<1>5. ASSUME NEW t \in Closes'
      PROVE  /\ OpenAt(t.to, t.msg.session_id)'
             /\ \A q \in Closes' : q.msg.session_id = t.msg.session_id => q = t
             /\ \A u \in Urls : cache'[u].session_id # t.msg.session_id
             /\ \A p \in Callers : Granted(p)' => Grant(p)' # t.msg.session_id
  <2>1. PICK r \in Closes : r.to = t.to /\ r.msg = t.msg
    BY <1>5 DEF ClosesKept
  <2>2. OpenAt(t.to, t.msg.session_id)'
    BY <2>1 DEF HookInv, OnePlaceEach, OpenAt
  <2>3. QED
    BY <2>1, <2>2, <1>5 DEF HookInv, OnePlaceEach, ClosesKept, GrantsKept, CacheKeeps
<1>6. OnePlaceEach'
  BY <1>4, <1>5 DEF OnePlaceEach
<1>7. QED
  BY <1>1, <1>2, <1>6 DEF HookInv

(* A caller's step grants nothing; what it was granted it still has, or it *)
(* is past caching it.                                                      *)
LEMMA ClientGrants ==
  ASSUME TypeOK, WireInv, HookInv, NEW p \in Callers, ClientRuns(p)
  PROVE  GrantsKept /\ TextNegotiated'
<1>1. OthersKeep(p) /\ Runs(p)
  BY DEF ClientRuns
<1>2. \A q \in Callers \ {p} : /\ Granted(q)' => Granted(q)
                               /\ Grant(q)' = Grant(q) /\ frame'[q].url = frame[q].url
  BY <1>1 DEF OthersKeep, Granted, Grant, Answered
<1>3. \A q \in Callers \ {p} : pc'[q] \in {"propose", "caching"} =>
        frame'[q].session.payload_mode = "text"
  BY <1>1 DEF OthersKeep, HookInv, TextNegotiated
<1>4. ASSUME ~Granted(p)', pc'[p] \in {"propose", "caching"} =>
                              frame'[p].session.payload_mode = "text"
      PROVE  GrantsKept /\ TextNegotiated'
  BY <1>2, <1>3, <1>4 DEF GrantsKept, TextNegotiated
<1>5. CASE Takes(p)
  <2>1. /\ Granted(p) /\ Grant(p)' = Grant(p) /\ frame'[p].url = frame[p].url
        /\ frame'[p].session.payload_mode = "text"
    BY <1>5 DEF Takes, Stays, Granted, Grant, HookInv, TextNegotiated
  <2>2. QED
    BY <1>2, <1>3, <2>1 DEF GrantsKept, TextNegotiated
<1>6. CASE Proposes(p)
  BY <1>4, <1>6 DEF Proposes, Posts, NoReply, Granted, Answered, AwaitOf
<1>7. CASE Greets(p) \/ Submits(p) \/ Asks(p) \/ Closing(p)
  <2>1. pc'[p] \notin {"propose", "caching"}
    BY <1>7 DEF Greets, Submits, Asks, Closing, Posts, AwaitOf
  <2>2. QED
    BY <1>4, <2>1 DEF Granted
<1>8. CASE Reuses(p) \/ Caches(p) \/ Learns(p) \/ HandsOut(p) \/ Ends(p)
  <2>1. pc'[p] \notin {"propose", "caching"}
    BY <1>8 DEF Reuses, Caches, Learns, HandsOut, Ends, Stays
  <2>2. QED
    BY <1>4, <2>1 DEF Granted
<1>9. QED
  BY <1>1, <1>5, <1>6, <1>7, <1>8 DEF Runs

(* A session moves from the caller it was granted to into the cache. *)
LEMMA CachesKeepsHooks ==
  ASSUME TypeOK, WireInv, HookInv, NEW p \in Callers, ClientRuns(p), Caches(p)
  PROVE  HookInv'
<1>1. PICK u \in Urls, session \in Session : u = frame[p].url /\ session = frame[p].session
  BY FrameFields, TypesOfFrames
<1>2. /\ Granted(p) /\ Grant(p) = session.session_id
      /\ ~Granted(p)'
      /\ cache'[u] = session /\ \A v \in Urls \ {u} : cache'[v] = cache[v]
      /\ UNCHANGED <<requests, started, stopped, lastId>>
  BY <1>1, TypesOfFrames
  DEF Caches, Stays, Granted, Grant, ClientRuns, delegateVars
<1>3. GrantsKept /\ TextNegotiated'
  BY ClientGrants
<1>4. OpenAt(u, session.session_id) /\ session.payload_mode = "text"
  BY <1>1, <1>2 DEF HookInv, OnePlaceEach, TextNegotiated, Caches
<1>5. \A q \in Callers : Granted(q)' =>
        /\ Granted(q) /\ Grant(q)' = Grant(q) /\ frame'[q].url = frame[q].url
        /\ Grant(q) # session.session_id
  BY <1>2, <1>3 DEF GrantsKept, HookInv, OnePlaceEach
<1>6. SessionsDrawn' /\ HooksPaired'
  BY <1>2 DEF HookInv, SessionsDrawn, HooksPaired, Started
<1>7. CachedSessionStarted'
  <2> SUFFICES ASSUME NEW v \in Urls, Cached(v)'
               PROVE  /\ [session_id |-> cache'[v].session_id,
                          payload_mode |-> cache'[v].payload_mode] \in started[v]
                      /\ cache'[v].session_id \notin Range(stopped[v])
    BY <1>2 DEF CachedSessionStarted
  <2>1. CASE v = u
    BY <1>2, <1>4, <2>1 DEF OpenAt
  <2>2. CASE v # u
    BY <1>2, <2>2 DEF Cached, HookInv, CachedSessionStarted
  <2>3. QED
    BY <2>1, <2>2
<1>8. ASSUME NEW q \in Callers, Granted(q)'
      PROVE  /\ OpenAt(frame[q].url, Grant(q))'
             /\ \A t \in Callers : Granted(t)' /\ Grant(t)' = Grant(q)' => t = q
             /\ \A v \in Urls : cache'[v].session_id # Grant(q)'
  <2>1. OpenAt(frame[q].url, Grant(q))'
    BY <1>2, <1>5, <1>8 DEF HookInv, OnePlaceEach, OpenAt
  <2>2. \A v \in Urls : cache'[v].session_id # Grant(q)'
    BY <1>2, <1>5, <1>8 DEF HookInv, OnePlaceEach
  <2>3. QED
    BY <1>5, <1>8, <2>1, <2>2 DEF HookInv, OnePlaceEach
<1>9. ASSUME NEW t \in Closes'
      PROVE  /\ OpenAt(t.to, t.msg.session_id)'
             /\ \A q \in Closes' : q.msg.session_id = t.msg.session_id => q = t
             /\ \A v \in Urls : cache'[v].session_id # t.msg.session_id
             /\ \A q \in Callers : Granted(q)' => Grant(q)' # t.msg.session_id
  <2>1. t \in Closes /\ Closes' = Closes
    BY <1>2, <1>9 DEF Closes
  <2>2. OpenAt(t.to, t.msg.session_id)'
    BY <1>2, <2>1 DEF HookInv, OnePlaceEach, OpenAt
  <2>3. \A v \in Urls : cache'[v].session_id # t.msg.session_id
    BY <1>2, <2>1 DEF HookInv, OnePlaceEach
  <2>4. QED
    BY <1>5, <2>1, <2>2, <2>3 DEF HookInv, OnePlaceEach
<1>10. QED
  BY <1>3, <1>6, <1>7, <1>8, <1>9 DEF HookInv, OnePlaceEach

(* A session leaves the cache, and its SESSION_CLOSE leaves the client. *)
LEMMA ClosingKeepsHooks ==
  ASSUME TypeOK, WireInv, HookInv, NEW p \in Callers, ClientRuns(p), Closing(p)
  PROVE  HookInv'
<1>1. PICK u \in Urls, msg \in Message :
        /\ Cached(u) /\ cache' = [cache EXCEPT ![u] = NoSession]
        /\ requests' = requests \cup {Request(p, u, msg)}
        /\ msg.type = "session_close" /\ msg.session_id = cache[u].session_id
  BY DEF Closing, Posts
<1>2. PICK id \in Id : id = cache[u].session_id
  BY TypesOfFrames DEF Session
<1>3. PICK new \in Exchange : new = Request(p, u, msg)
  BY DEF Request, Exchange
<1>4. /\ new.to = u /\ new.msg = msg /\ msg.session_id = id
      /\ requests' = requests \cup {new}
      /\ Closes' = Closes \cup {new}
  BY <1>1, <1>2, <1>3 DEF Request, Closes
<1>5. /\ cache'[u].session_id = NoId /\ \A v \in Urls \ {u} : cache'[v] = cache[v]
      /\ UNCHANGED <<started, stopped, lastId>>
  BY <1>1, TypesOfFrames DEF NoSession, ClientRuns, delegateVars, Closing
<1>6. GrantsKept /\ TextNegotiated'
  BY ClientGrants
<1>7. OpenAt(u, id) /\ id # NoId
  BY <1>1, <1>2 DEF Cached, HookInv, CachedSessionStarted, SessionsDrawn, OpenAt
<1>8. \A v \in Urls : v # u => cache[v].session_id # id
  <2> SUFFICES ASSUME NEW v \in Urls, v # u, cache[v].session_id = id PROVE FALSE
    OBVIOUS
  <2>1. OpenAt(v, id)
    BY <1>7 DEF Cached, HookInv, CachedSessionStarted, SessionsDrawn, OpenAt
  <2>2. QED
    BY <1>7, <2>1, OpenIsStarted DEF HookInv, SessionsDrawn
<1>9. \A v \in Urls : cache'[v].session_id # id /\ cache'[v].session_id \in {NoId, cache[v].session_id}
  BY <1>5, <1>7, <1>8
<1>10. SessionsDrawn' /\ HooksPaired'
  BY <1>5 DEF HookInv, SessionsDrawn, HooksPaired, Started
<1>11. CachedSessionStarted'
  BY <1>5 DEF HookInv, CachedSessionStarted, Cached
<1>12. \A q \in Callers : Granted(q) => Grant(q) # id /\ Grant(q) # NoId
  <2> SUFFICES ASSUME NEW q \in Callers, Granted(q) PROVE Grant(q) # id /\ Grant(q) # NoId
    OBVIOUS
  <2>1. Grant(q) # id
    BY <1>2 DEF HookInv, OnePlaceEach
  <2>2. OpenAt(frame[q].url, Grant(q)) /\ frame[q].url \in Urls
    BY TypesOfFrames DEF HookInv, OnePlaceEach
  <2>3. QED
    BY <2>1, <2>2, OpenIsStarted, IdsBelow DEF NoId
<1>13. \A r \in Closes : r.msg.session_id # id /\ r.msg.session_id # NoId
  <2> SUFFICES ASSUME NEW r \in Closes PROVE r.msg.session_id # id /\ r.msg.session_id # NoId
    OBVIOUS
  <2>1. r.msg.session_id # id
    BY <1>2 DEF HookInv, OnePlaceEach
  <2>2. OpenAt(r.to, r.msg.session_id) /\ r.to \in Urls
    BY RequestFields DEF HookInv, OnePlaceEach, Closes
  <2>3. QED
    BY <2>1, <2>2, OpenIsStarted, IdsBelow DEF NoId
<1>14. ASSUME NEW q \in Callers, Granted(q)'
       PROVE  /\ OpenAt(frame[q].url, Grant(q))'
              /\ \A t \in Callers : Granted(t)' /\ Grant(t)' = Grant(q)' => t = q
              /\ \A v \in Urls : cache'[v].session_id # Grant(q)'
              /\ Grant(q)' # id
  <2>1. /\ Granted(q) /\ Grant(q)' = Grant(q) /\ frame'[q].url = frame[q].url
        /\ \A t \in Callers : Granted(t)' => Granted(t) /\ Grant(t)' = Grant(t)
    BY <1>6, <1>14 DEF GrantsKept
  <2>2. OpenAt(frame[q].url, Grant(q))'
    BY <1>5, <2>1 DEF HookInv, OnePlaceEach, OpenAt
  <2>3. \A v \in Urls : cache'[v].session_id # Grant(q)
    BY <1>9, <1>12, <2>1 DEF HookInv, OnePlaceEach
  <2>4. QED
    BY <1>12, <2>1, <2>2, <2>3 DEF HookInv, OnePlaceEach
<1>15. ASSUME NEW t \in Closes'
       PROVE  /\ OpenAt(t.to, t.msg.session_id)'
              /\ \A q \in Closes' : q.msg.session_id = t.msg.session_id => q = t
              /\ \A v \in Urls : cache'[v].session_id # t.msg.session_id
              /\ \A q \in Callers : Granted(q)' => Grant(q)' # t.msg.session_id
  <2>1. CASE t = new
    <3>1. OpenAt(t.to, t.msg.session_id)'
      BY <1>4, <1>5, <1>7, <2>1 DEF OpenAt
    <3>2. \A q \in Closes' : q.msg.session_id = t.msg.session_id => q = t
      BY <1>4, <1>13, <2>1
    <3>3. QED
      BY <1>4, <1>9, <1>14, <2>1, <3>1, <3>2
  <2>2. CASE t \in Closes
    <3>1. OpenAt(t.to, t.msg.session_id)'
      BY <1>5, <2>2 DEF HookInv, OnePlaceEach, OpenAt
    <3>2. \A q \in Closes' : q.msg.session_id = t.msg.session_id => q = t
      BY <1>4, <1>13, <2>2 DEF HookInv, OnePlaceEach
    <3>3. \A v \in Urls : cache'[v].session_id # t.msg.session_id
      BY <1>9, <1>13, <2>2 DEF HookInv, OnePlaceEach
    <3>4. \A q \in Callers : Granted(q)' => Grant(q)' # t.msg.session_id
      BY <1>6, <2>2 DEF GrantsKept, HookInv, OnePlaceEach
    <3>5. QED
      BY <3>1, <3>2, <3>3, <3>4
  <2>3. QED
    BY <1>4, <1>15, <2>1, <2>2
<1>16. QED
  BY <1>6, <1>10, <1>11, <1>14, <1>15 DEF HookInv, OnePlaceEach

LEMMA ClientKeepsHooks ==
  ASSUME TypeOK, WireInv, HookInv, NEW p \in Callers, ClientRuns(p)
  PROVE  HookInv'
<1>1. GrantsKept /\ TextNegotiated' /\ Runs(p) /\ UNCHANGED <<started, stopped>> /\ lastId \in Nat
  BY ClientGrants, TypesOfFrames DEF ClientRuns, delegateVars
<1>2. ASSUME Closes' = Closes PROVE ClosesKept
  BY <1>2 DEF ClosesKept, HookInv, OnePlaceEach
<1>3. CASE Greets(p) \/ Proposes(p) \/ Submits(p) \/ Asks(p)
  <2>1. PICK msg \in Message : Posts(p, msg) /\ msg.type # "session_close"
    BY <1>3 DEF Greets, Proposes, Submits, Asks
  <2>2. Closes' = Closes
    BY <2>1 DEF Posts, Request, Closes
  <2>3. CacheKeeps /\ lastId' \in Nat /\ lastId <= lastId'
    BY <1>1, <1>3 DEF Greets, Proposes, Submits, Asks
  <2>4. QED
    BY <1>1, <1>2, <2>2, <2>3, HooksKept
<1>4. CASE Reuses(p) \/ Takes(p) \/ Learns(p) \/ HandsOut(p) \/ Ends(p)
  <2>1. Closes' = Closes /\ CacheKeeps /\ lastId' = lastId
    BY <1>4 DEF Reuses, Takes, Learns, HandsOut, Ends, Stays, Closes
  <2>2. QED
    BY <1>1, <1>2, <2>1, HooksKept
<1>5. QED
  BY <1>1, <1>3, <1>4, CachesKeepsHooks, ClosingKeepsHooks DEF Runs

(* What an answer leaves as it was. *)
LEMMA AnswerKeeps ==
  ASSUME TypeOK, WireInv, HookInv, NEW r \in requests, NEW reply \in Reply, Answers(r, reply)
  PROVE  /\ CacheKeeps /\ TextNegotiated'
         /\ UNCHANGED <<pc, frame, cache>>
         /\ \A q \in Callers : /\ frame'[q].url = frame[q].url
                               /\ q # r.conn => /\ Granted(q)' = Granted(q)
                                                /\ Grant(q)' = Grant(q)
         /\ r.conn # NoConn /\ Granted(r.conn)' =>
              r.msg.type = "session_propose" /\ reply.type = "session_accept"
         /\ ClosesKept
<1>1. UNCHANGED <<pc, frame, cache>>
  BY DEF Answers, localVars
<1>2. CacheKeeps /\ TextNegotiated'
  BY <1>1 DEF CacheKeeps, TextNegotiated, HookInv
<1>3. \A q \in Callers : /\ frame'[q].url = frame[q].url
                         /\ q # r.conn => Granted(q)' = Granted(q) /\ Grant(q)' = Grant(q)
  BY <1>1 DEF Answers, Granted, Grant, Answered
<1>4. ASSUME r.conn # NoConn, Granted(r.conn)'
      PROVE  r.msg.type = "session_propose" /\ reply.type = "session_accept"
  <2>1. pc[r.conn] = AwaitOf[r.msg.type] /\ replies'[r.conn] = reply
    BY <1>4 DEF WireInv, Answers
  <2>2. r.msg.type \in {"hello", "session_propose", "task_submit", "task_update",
                        "task_cancel", "session_close"}
    BY RequestFields, MessageFields
  <2>3. QED
    BY <1>1, <1>4, <2>1, <2>2 DEF Granted, Answered, AwaitOf
<1>5. ClosesKept
  <2>1. Closes' \subseteq Closes
    BY DEF Answers, Closes
  <2>2. QED
    BY <2>1 DEF ClosesKept, HookInv, OnePlaceEach
<1>6. QED
  BY <1>1, <1>2, <1>3, <1>4, <1>5

(* A session the delegate starts is new, and has one caller at most. *)
LEMMA StartKeepsHooks ==
  ASSUME TypeOK, WireInv, HookInv, NEW r \in requests, NEW reply \in Reply,
         Answers(r, reply), StartsSession(r, reply)
  PROVE  HookInv'
<1>1. PICK id \in Nat : id = lastId + 1
  BY IdsBelow
<1>2. PICK t \in [session_id : Id, payload_mode : PayloadMode] :
        t = [session_id |-> id, payload_mode |-> "text"]
  BY <1>1 DEF PayloadMode, Id
<1>3. /\ t.session_id = id /\ t.payload_mode = "text"
      /\ started' = [started EXCEPT ![r.to] = @ \cup {t}]
      /\ stopped' = stopped /\ lastId' = id /\ r.to \in Urls
  BY <1>1, <1>2, RequestFields DEF StartsSession
<1>4. /\ \A u \in Urls : id \notin Started(u) /\ id \notin Range(stopped[u])
                         /\ cache[u].session_id # id
      /\ 1..lastId \subseteq 1..id /\ id \in 1..id
  BY <1>1, IdsBelow
<1>5. /\ started'[r.to] = started[r.to] \cup {t}
      /\ \A u \in Urls \ {r.to} : started'[u] = started[u]
      /\ \A u \in Urls : started[u] \subseteq started'[u]
  <2>1. DOMAIN started = Urls
    BY DEF TypeOK
  <2>2. /\ started'[r.to] = started[r.to] \cup {t}
        /\ \A u \in Urls \ {r.to} : started'[u] = started[u]
    BY <1>3, <2>1
  <2>3. QED
    BY <2>2
<1>6. /\ \A u \in Urls \ {r.to} : Started(u)' = Started(u)
      /\ Started(r.to)' = Started(r.to) \cup {id}
  BY <1>3, <1>5 DEF Started
<1>7. SessionsDrawn'
  <2>1. \A u \in Urls : \A s \in started'[u] :
          s.session_id \in 1..lastId' /\ s.payload_mode = "text"
    BY <1>3, <1>4, <1>5 DEF HookInv, SessionsDrawn
  <2>2. \A u, v \in Urls : u # v => Started(u)' \cap Started(v)' = {}
    BY <1>4, <1>6 DEF HookInv, SessionsDrawn
  <2>3. QED
    BY <2>1, <2>2 DEF SessionsDrawn
<1>8. HooksPaired'
  BY <1>3, <1>6 DEF HookInv, HooksPaired
<1>9. UNCHANGED <<pc, frame, cache>> /\ ClosesKept /\ TextNegotiated'
  BY AnswerKeeps
<1>10. CachedSessionStarted'
  BY <1>3, <1>5, <1>9 DEF HookInv, CachedSessionStarted, Cached
<1>11. /\ \A u \in Urls : \A i : OpenAt(u, i) => OpenAt(u, i)'
       /\ OpenAt(r.to, id)'
  BY <1>2, <1>3, <1>4, <1>5 DEF OpenAt
<1>12. ASSUME NEW q \in Callers, Granted(q)', q # r.conn
       PROVE  /\ Granted(q) /\ Grant(q)' = Grant(q) /\ Grant(q) # id
              /\ OpenAt(frame[q].url, Grant(q))'
  <2>1. Granted(q) /\ Grant(q)' = Grant(q) /\ frame'[q].url = frame[q].url
    BY <1>12, AnswerKeeps
  <2>2. OpenAt(frame[q].url, Grant(q)) /\ frame[q].url \in Urls
    BY <2>1, TypesOfFrames DEF HookInv, OnePlaceEach
  <2>3. Grant(q) # id
    BY <1>4, <2>2, OpenIsStarted
  <2>4. OpenAt(frame[q].url, Grant(q))'
    BY <1>9, <1>11, <2>1, <2>2 DEF OpenAt
  <2>5. QED
    BY <2>1, <2>3, <2>4
<1>13. ASSUME r.conn \in Callers, Granted(r.conn)'
       PROVE  Grant(r.conn)' = id /\ OpenAt(frame[r.conn].url, Grant(r.conn))'
  <2>1. reply.type = "session_accept" /\ replies'[r.conn] = reply
    BY <1>13, AnswerKeeps DEF Answers
  <2>2. pc[r.conn] = "propose" /\ frame[r.conn].url = r.to
    BY <1>13 DEF WireInv, StartsSession, AwaitOf
  <2>3. Grant(r.conn)' = id
    BY <1>1, <1>9, <2>1, <2>2 DEF Grant, StartsSession
  <2>4. frame'[r.conn].url = r.to
    BY <1>9, <2>2
  <2>5. QED
    BY <1>11, <2>3, <2>4 DEF OpenAt
<1>14. ASSUME NEW q \in Callers, Granted(q)'
       PROVE  /\ OpenAt(frame[q].url, Grant(q))'
              /\ \A s \in Callers : Granted(s)' /\ Grant(s)' = Grant(q)' => s = q
              /\ \A u \in Urls : cache'[u].session_id # Grant(q)'
  <2>1. \A s \in Callers : Granted(s)' =>
          \/ s = r.conn /\ Grant(s)' = id
          \/ Granted(s) /\ Grant(s)' = Grant(s) /\ Grant(s) # id /\ s # r.conn
    BY <1>12, <1>13
  <2>2. OpenAt(frame[q].url, Grant(q))'
    BY <1>12, <1>13, <1>14
  <2>3. \A s \in Callers : Granted(s)' /\ Grant(s)' = Grant(q)' => s = q
    BY <1>14, <2>1 DEF HookInv, OnePlaceEach
  <2>4. \A u \in Urls : cache'[u].session_id # Grant(q)'
    BY <1>4, <1>9, <1>14, <2>1 DEF HookInv, OnePlaceEach
  <2>5. QED
    BY <2>2, <2>3, <2>4
<1>15. ASSUME NEW c \in Closes'
       PROVE  /\ OpenAt(c.to, c.msg.session_id)'
              /\ \A q \in Closes' : q.msg.session_id = c.msg.session_id => q = c
              /\ \A u \in Urls : cache'[u].session_id # c.msg.session_id
              /\ \A q \in Callers : Granted(q)' => Grant(q)' # c.msg.session_id
  <2>1. PICK d \in Closes : d.to = c.to /\ d.msg = c.msg
    BY <1>9, <1>15 DEF ClosesKept
  <2>2. OpenAt(c.to, c.msg.session_id) /\ c.to \in Urls
    BY <2>1, RequestFields DEF HookInv, OnePlaceEach, Closes
  <2>3. c.msg.session_id # id
    BY <1>4, <2>2, OpenIsStarted
  <2>4. \A q \in Callers : Granted(q)' => Grant(q)' # c.msg.session_id
    BY <1>12, <1>13, <2>1, <2>3 DEF HookInv, OnePlaceEach
  <2>5. OpenAt(c.to, c.msg.session_id)'
    BY <1>11, <2>2 DEF OpenAt
  <2>6. QED
    BY <1>9, <1>15, <2>1, <2>4, <2>5 DEF HookInv, OnePlaceEach, ClosesKept
<1>16. QED
  BY <1>7, <1>8, <1>9, <1>10, <1>14, <1>15 DEF HookInv, OnePlaceEach

(* Answers that grant nothing and move no session. *)
LEMMA OtherAnswersKeepHooks ==
  ASSUME TypeOK, WireInv, HookInv, NEW r \in requests, NEW reply \in Reply,
         Answers(r, reply), RunsTask(r, reply) \/ OnlyReplies(r, reply)
  PROVE  HookInv'
<1>1. /\ UNCHANGED <<started, stopped, lastId>> /\ lastId \in Nat
      /\ reply.type # "session_accept"
  BY TypesOfFrames, IdsBelow DEF RunsTask, OnlyReplies, delegateVars
<1>2. GrantsKept
  BY <1>1, AnswerKeeps, RequestFields DEF GrantsKept
<1>3. QED
  BY <1>1, <1>2, AnswerKeeps, HooksKept

(* A session ends at the delegate that had it open, and is in nobody's hands. *)
LEMMA EndKeepsHooks ==
  ASSUME TypeOK, WireInv, HookInv, NEW r \in requests, NEW reply \in Reply,
         Answers(r, reply), EndsSession(r, reply)
  PROVE  HookInv'
<1>1. PICK id \in Id : id = r.msg.session_id
  BY RequestFields, MessageFields DEF EndsSession
<1>2. PICK v \in Urls : v = r.to
  BY RequestFields
<1>3. /\ r \in Closes /\ reply.type # "session_accept"
      /\ UNCHANGED <<started, lastId>>
      /\ stopped' = [stopped EXCEPT ![v] = Append(@, id)]
  BY <1>1, <1>2 DEF EndsSession, Closes
<1>4. /\ OpenAt(v, id) /\ \A u \in Urls : cache[u].session_id # id
      /\ \A q \in Callers : Granted(q) => Grant(q) # id
      /\ \A c \in Closes : c.msg.session_id = id => c = r
  BY <1>1, <1>2, <1>3 DEF HookInv, OnePlaceEach
<1>5. id \in Started(v) /\ id \notin Range(stopped[v])
  BY <1>4, OpenIsStarted
<1>6. /\ Range(stopped'[v]) = Range(stopped[v]) \cup {id}
      /\ IsInjective(stopped'[v])
      /\ \A u \in Urls \ {v} : stopped'[u] = stopped[u]
  <2>1. stopped \in [Urls -> Seq(Id)] /\ IsInjective(stopped[v])
    BY DEF TypeOK, HookInv, HooksPaired
  <2>2. stopped'[v] = Append(stopped[v], id) /\ \A u \in Urls \ {v} : stopped'[u] = stopped[u]
    BY <1>3, <2>1
  <2>3. QED
    BY <1>5, <2>1, <2>2, RangeOfAppend
<1>7. SessionsDrawn'
  BY <1>3 DEF HookInv, SessionsDrawn, Started
<1>8. HooksPaired'
  BY <1>3, <1>5, <1>6 DEF HookInv, HooksPaired, Started
<1>9. UNCHANGED <<pc, frame, cache>> /\ ClosesKept /\ TextNegotiated'
  BY AnswerKeeps
<1>10. \A q \in Callers : Granted(q)' => Granted(q) /\ Grant(q)' = Grant(q)
  BY <1>3, AnswerKeeps, RequestFields
<1>11. \A u \in Urls : \A i : OpenAt(u, i) /\ i # id => OpenAt(u, i)'
  BY <1>3, <1>6 DEF OpenAt
<1>12. CachedSessionStarted'
  <2>1. \A u \in Urls : Cached(u) => OpenAt(u, cache[u].session_id)
    BY DEF HookInv, CachedSessionStarted, SessionsDrawn, OpenAt
  <2>2. \A u \in Urls : Cached(u) => OpenAt(u, cache[u].session_id)'
    BY <1>4, <1>9, <1>11, <2>1 DEF OpenAt
  <2>3. QED
    BY <1>3, <1>9, <2>2 DEF HookInv, CachedSessionStarted, Cached, OpenAt
<1>13. ASSUME NEW q \in Callers, Granted(q)'
       PROVE  /\ OpenAt(frame[q].url, Grant(q))'
              /\ \A s \in Callers : Granted(s)' /\ Grant(s)' = Grant(q)' => s = q
              /\ \A u \in Urls : cache'[u].session_id # Grant(q)'
  <2>1. Granted(q) /\ Grant(q)' = Grant(q) /\ Grant(q) # id
    BY <1>4, <1>10, <1>13
  <2>2. OpenAt(frame[q].url, Grant(q)) /\ frame[q].url \in Urls
    BY <2>1, TypesOfFrames DEF HookInv, OnePlaceEach
  <2>3. OpenAt(frame[q].url, Grant(q))'
    BY <1>9, <1>11, <2>1, <2>2 DEF OpenAt
  <2>4. QED
    BY <1>9, <1>10, <2>1, <2>3 DEF HookInv, OnePlaceEach
<1>14. ASSUME NEW c \in Closes'
       PROVE  /\ OpenAt(c.to, c.msg.session_id)'
              /\ \A q \in Closes' : q.msg.session_id = c.msg.session_id => q = c
              /\ \A u \in Urls : cache'[u].session_id # c.msg.session_id
              /\ \A q \in Callers : Granted(q)' => Grant(q)' # c.msg.session_id
  <2>1. c \in Closes /\ c # r /\ \A q \in Closes' : q \in Closes
    BY <1>14 DEF Answers, Closes
  <2>2. OpenAt(c.to, c.msg.session_id) /\ c.to \in Urls /\ c.msg.session_id # id
    BY <1>4, <2>1, RequestFields DEF HookInv, OnePlaceEach, Closes
  <2>3. OpenAt(c.to, c.msg.session_id)'
    BY <1>11, <2>2 DEF OpenAt
  <2>4. QED
    BY <1>9, <1>10, <2>1, <2>3 DEF HookInv, OnePlaceEach
<1>15. QED
  BY <1>7, <1>8, <1>9, <1>12, <1>13, <1>14 DEF HookInv, OnePlaceEach

(* A session whose SESSION_ACCEPT is lost stays open, in nobody's hands. *)
LEMMA NetworkKeepsHooks ==
  ASSUME TypeOK, WireInv, HookInv, NEW p \in Callers, Abandons(p)
  PROVE  HookInv'
<1>1. /\ UNCHANGED <<pc, frame, cache, started, stopped, lastId>>
      /\ replies'[p] = Failure
      /\ \A q \in Callers \ {p} : replies'[q] = replies[q]
  BY DEF Abandons, localVars, delegateVars
<1>2. GrantsKept /\ TextNegotiated' /\ CacheKeeps
  BY <1>1 DEF GrantsKept, Granted, Grant, Answered, Failure, HookInv, TextNegotiated, CacheKeeps
<1>3. ClosesKept
  <2>1. CASE \/ \E r \in requests : requests' = requests \ {r}
             \/ UNCHANGED requests
    <3>1. Closes' \subseteq Closes
      BY <2>1 DEF Closes
    <3>2. QED
      BY <3>1 DEF ClosesKept, HookInv, OnePlaceEach
  <2>2. CASE \E r \in requests, q \in Exchange :
               requests' = (requests \ {r}) \cup {q} /\ q.to = r.to /\ q.msg = r.msg
    <3>1. PICK r \in requests, q \in Exchange :
            requests' = (requests \ {r}) \cup {q} /\ q.to = r.to /\ q.msg = r.msg
      BY <2>2
    <3>2. ASSUME NEW t \in Closes'
          PROVE  \/ t = q /\ r \in Closes
                 \/ t \in Closes /\ t # r
      BY <3>1, <3>2 DEF Closes
    <3>3. \A s, t \in Closes' : s.msg.session_id = t.msg.session_id => s = t
      BY <3>1, <3>2 DEF HookInv, OnePlaceEach
    <3>4. QED
      BY <3>1, <3>2, <3>3 DEF ClosesKept
  <2>3. QED
    BY <2>1, <2>2 DEF Abandons
<1>4. QED
  BY <1>1, <1>2, <1>3, IdsBelow, HooksKept

LEMMA NextHooks ==
  ASSUME TypeOK, WireInv, HookInv, [Next]_mixedVars
  PROVE  HookInv'
<1>1. ASSUME NEW r \in requests, NEW reply \in Reply, DelegateRuns(r, reply) PROVE HookInv'
  BY <1>1, StartKeepsHooks, OtherAnswersKeepHooks, EndKeepsHooks DEF DelegateRuns
<1>2. CASE UNCHANGED <<transportVars, lastId, delegateVars, localVars>>
  <2>1. GrantsKept /\ ClosesKept /\ CacheKeeps /\ TextNegotiated'
        /\ UNCHANGED <<started, stopped, lastId>>
    BY <1>2 DEF transportVars, localVars, delegateVars, GrantsKept, ClosesKept, CacheKeeps,
                Closes, Granted, Grant, Answered, HookInv, TextNegotiated, OnePlaceEach
  <2>2. QED
    BY <2>1, IdsBelow, HooksKept
<1>3. QED
  BY <1>1, <1>2, NextForms, ClientKeepsHooks, NetworkKeepsHooks

LEMMA InitHooks == Init => HookInv
<1> SUFFICES ASSUME Init PROVE HookInv
  OBVIOUS
<1>1. /\ requests = {} /\ started = [u \in Urls |-> {}] /\ stopped = [u \in Urls |-> <<>>]
      /\ \A p \in Callers : pc[p] = "idle"
      /\ \A u \in Urls : ~Cached(u)
  BY DEF Init, TransportInit, DelegateInit, ManagerInit, Cached, NoSession
<1>2. SessionsDrawn /\ TextNegotiated /\ OnePlaceEach /\ CachedSessionStarted
  BY <1>1 DEF SessionsDrawn, TextNegotiated, OnePlaceEach, CachedSessionStarted, Granted,
              Closes, Started
<1>3. HooksPaired
  BY <1>1 DEF HooksPaired, Range, IsInjective
<1>4. QED
  BY <1>2, <1>3 DEF HookInv

-------------------------------------------------------------------------------
(* Tasks *)

LEMMA ClientKeepsWelcome ==
  ASSUME TypeOK, WireInv, HookInv, WelcomeInv, TypeOK', NEW p \in Callers, ClientRuns(p)
  PROVE  WelcomeInv'
<1>1. /\ UNCHANGED <<started, ran>> /\ OthersKeep(p) /\ Runs(p)
      /\ frame[p].url \in Urls /\ frame'[p].url \in Urls
  <2>1. frame' \in [Callers -> Frame]
    BY DEF TypeOK, ManagerTypeOK
  <2>2. frame'[p].url \in Urls
    BY <2>1 DEF Frame
  <2>3. QED
    BY <2>2, TypesOfFrames DEF ClientRuns, delegateVars
<1>2. ASSUME pc'[p] \in {"established", "submit"} => Welcome(frame'[p].url),
             \A r \in Submissions' : r \in Submissions \/ Welcome(r.to)
      PROVE  WelcomeInv'
  BY <1>1, <1>2 DEF WelcomeInv, OthersKeep, Welcome
<1>3. ASSUME NEW msg \in Message, Posts(p, msg), msg.type # "task_submit"
      PROVE  WelcomeInv'
  <2>1. pc'[p] \notin {"established", "submit"}
    BY <1>3, MessageFields DEF Posts, AwaitOf
  <2>2. Submissions' = Submissions
    BY <1>3 DEF Posts, Request, Submissions
  <2>3. QED
    BY <1>2, <2>1, <2>2
<1>4. CASE Greets(p) \/ Proposes(p) \/ Asks(p) \/ Closing(p)
  <2>1. \E msg \in Message : Posts(p, msg) /\ msg.type # "task_submit"
    BY <1>4 DEF Greets, Proposes, Asks, Closing
  <2>2. QED
    BY <1>3, <2>1
<1>5. CASE Takes(p) \/ Learns(p) \/ HandsOut(p) \/ Ends(p)
  <2>1. pc'[p] \notin {"established", "submit"} /\ Submissions' = Submissions
    BY <1>5 DEF Takes, Learns, HandsOut, Ends, Stays, Submissions
  <2>2. QED
    BY <1>2, <2>1
<1>6. CASE Reuses(p)
  <2>1. started[frame'[p].url] # {} /\ Submissions' = Submissions
    BY <1>1, <1>6 DEF Reuses, Stays, Submissions, HookInv, CachedSessionStarted
  <2>2. QED
    BY <1>1, <1>2, <2>1 DEF WelcomeInv
<1>7. CASE Caches(p)
  <2>1. started[frame[p].url] # {} /\ Submissions' = Submissions /\ frame'[p] = frame[p]
    BY <1>7 DEF Caches, Stays, Submissions, HookInv, OnePlaceEach, Granted, OpenAt
  <2>2. QED
    BY <1>1, <1>2, <2>1 DEF WelcomeInv
<1>8. CASE Submits(p)
  <2>1. Welcome(frame[p].url) /\ frame'[p].url = frame[p].url
    BY <1>8 DEF Submits, WelcomeInv
  <2>2. \A r \in Submissions' : r \in Submissions \/ r.to = frame'[p].url
    BY <1>8 DEF Submits, Posts, Request, Submissions
  <2>3. QED
    BY <1>2, <2>1, <2>2
<1>9. QED
  BY <1>1, <1>4, <1>5, <1>6, <1>7, <1>8 DEF Runs

LEMMA DelegateKeepsWelcome ==
  ASSUME TypeOK, WireInv, WelcomeInv, NEW r \in requests, NEW reply \in Reply,
         DelegateRuns(r, reply)
  PROVE  WelcomeInv'
<1>1. UNCHANGED <<pc, frame>> /\ Submissions' \subseteq Submissions /\ r.to \in Urls
  BY RequestFields DEF DelegateRuns, Answers, localVars, Submissions
<1>2. ASSUME \A u \in Urls : u # r.to => started'[u] = started[u] /\ ran'[u] = ran[u],
             UNCHANGED <<started, ran>> \/ Welcome(r.to)
      PROVE  WelcomeInv'
  BY <1>1, <1>2 DEF WelcomeInv, Welcome
<1>3. CASE StartsSession(r, reply)
  BY <1>2, <1>3 DEF StartsSession, TypeOK
<1>4. CASE RunsTask(r, reply)
  <2>1. Welcome(r.to)
    BY <1>4 DEF RunsTask, WelcomeInv, Submissions
  <2>2. QED
    BY <1>2, <1>4, <2>1 DEF RunsTask, TypeOK
<1>5. CASE EndsSession(r, reply) \/ OnlyReplies(r, reply)
  BY <1>2, <1>5 DEF EndsSession, OnlyReplies, delegateVars
<1>6. QED
  BY <1>3, <1>4, <1>5 DEF DelegateRuns

LEMMA NetworkKeepsWelcome ==
  ASSUME TypeOK, WelcomeInv, NEW p \in Callers, Abandons(p)
  PROVE  WelcomeInv'
<1>1. UNCHANGED <<pc, frame, started, ran>>
  BY DEF Abandons, localVars, delegateVars
<1>2. \A t \in Submissions' : \E r \in Submissions : t.to = r.to
  BY DEF Abandons, Submissions
<1>3. QED
  BY <1>1, <1>2 DEF WelcomeInv, Welcome

LEMMA NextWelcome ==
  ASSUME TypeOK, WireInv, HookInv, WelcomeInv, [Next]_mixedVars
  PROVE  WelcomeInv'
<1>1. CASE UNCHANGED <<transportVars, lastId, delegateVars, localVars>>
  BY <1>1 DEF transportVars, delegateVars, localVars, WelcomeInv, Welcome, Submissions
<1>2. QED
  BY <1>1, NextForms, NextType, ClientKeepsWelcome, DelegateKeepsWelcome, NetworkKeepsWelcome

LEMMA ClientKeepsRan ==
  ASSUME TypeOK, WireInv, RanInv, NEW p \in Callers, ClientRuns(p)
  PROVE  RanInv'
<1>1. UNCHANGED ran /\ OthersKeep(p) /\ Runs(p)
  BY DEF ClientRuns, delegateVars
<1>2. ASSUME Accepted(p)' => Accepted(p) /\ frame'[p] = frame[p],
             \A h \in handles' : h \in handles \/ h.task_id \in RanIds(h.url)
      PROVE  RanInv'
  BY <1>1, <1>2 DEF RanInv, HandlesRan, RanIds, OthersKeep, Accepted, Answered
<1>3. CASE Greets(p) \/ Proposes(p) \/ Submits(p) \/ Asks(p) \/ Closing(p)
  <2>1. \E msg \in Message : Posts(p, msg)
    BY <1>3 DEF Greets, Proposes, Submits, Asks, Closing
  <2>2. ~Accepted(p)'
    BY <2>1, MessageFields DEF Posts, Accepted, Answered, AwaitOf, NoReply
  <2>3. QED
    BY <1>2, <1>3, <2>2 DEF Greets, Proposes, Submits, Asks, Closing
<1>4. CASE Reuses(p) \/ Takes(p) \/ Caches(p) \/ Ends(p)
  <2>1. ~Accepted(p)'
    BY <1>4 DEF Reuses, Takes, Caches, Ends, Stays, Accepted
  <2>2. QED
    BY <1>2, <1>4, <2>1 DEF Reuses, Takes, Caches, Ends
<1>5. CASE Learns(p)
  BY <1>2, <1>5 DEF Learns, Accepted
<1>6. CASE HandsOut(p)
  <2>1. ~Accepted(p)' /\ Accepted(p)
    BY <1>6 DEF HandsOut, Stays, Accepted
  <2>2. \A h \in handles' : h \in handles \/ h.task_id \in RanIds(h.url)
    BY <1>6, <2>1 DEF HandsOut, RanInv
  <2>3. QED
    BY <1>2, <2>1, <2>2
<1>7. QED
  BY <1>1, <1>3, <1>4, <1>5, <1>6 DEF Runs

(* A submission is refused only where none is sent. *)
LEMMA DelegateKeepsRan ==
  ASSUME TypeOK, WireInv, WelcomeInv, RanInv, NEW r \in requests, NEW reply \in Reply,
         DelegateRuns(r, reply)
  PROVE  RanInv'
<1>1. /\ UNCHANGED <<pc, frame, handles>>
      /\ \A q \in Callers : q # r.conn => replies'[q] = replies[q]
      /\ r.conn # NoConn => pc[r.conn] = AwaitOf[r.msg.type] /\ frame[r.conn].url = r.to
  BY DEF DelegateRuns, Answers, localVars, adapterVars, WireInv
<1>2. r.to \in Urls /\ ran \in [Urls -> SUBSET [task_id : Id, raised : BOOLEAN]]
      /\ \A u \in Urls : ran[u] \subseteq ran'[u]
  BY RequestFields
  DEF TypeOK, DelegateRuns, StartsSession, RunsTask, EndsSession, OnlyReplies, delegateVars
<1>3. \A u \in Urls : RanIds(u) \subseteq RanIds(u)'
  BY <1>2 DEF RanIds
<1>4. HandlesRan'
  <2>1. \A h \in handles : h.url \in Urls
    BY DEF TypeOK, AdapterTypeOK, Handle
  <2>2. QED
    BY <1>1, <1>3, <2>1 DEF RanInv, HandlesRan, RanIds
<1>5. ASSUME NEW q \in Callers, NEW u \in Urls, u = frame[q].url, Accepted(q)'
      PROVE  frame[q].task \in RanIds(u)'
  <2>1. CASE Accepted(q)
    BY <1>3, <1>5, <2>1 DEF RanInv
  <2>2. CASE ~Accepted(q)
    <3>1. q = r.conn /\ pc[q] = "submit" /\ q # NoConn
      BY <1>1, <1>5, <2>2 DEF Accepted, Answered
    <3>2. r.msg.type = "task_submit" /\ r.msg.task_id = frame[q].task /\ r.to = u
      BY <1>1, <1>5, <3>1, RequestFields, MessageFields DEF AwaitOf, WireInv
    <3>3. Welcome(r.to)
      BY <3>2 DEF WelcomeInv, Submissions
    <3>4. RunsTask(r, reply)
      BY <3>2, <3>3 DEF DelegateRuns, StartsSession, EndsSession, OnlyReplies
    <3>5. PICK raised \in BOOLEAN :
            [task_id |-> frame[q].task, raised |-> raised] \in ran'[u]
      BY <1>2, <3>2, <3>4 DEF RunsTask
    <3>6. [task_id |-> frame[q].task, raised |-> raised].task_id \in RanIds(u)'
      BY <3>5 DEF RanIds
    <3>7. QED
      BY <3>6
  <2>3. QED
    BY <2>1, <2>2
<1>6. \A q \in Callers : Accepted(q)' => frame'[q].task \in RanIds(frame[q].url)'
  BY <1>1, <1>5, TypesOfFrames DEF RanIds
<1>7. QED
  BY <1>4, <1>6 DEF RanInv

LEMMA NextRan ==
  ASSUME TypeOK, WireInv, WelcomeInv, RanInv, [Next]_mixedVars
  PROVE  RanInv'
<1>1. ASSUME NEW p \in Callers, Abandons(p) PROVE RanInv'
  <2>1. /\ UNCHANGED <<pc, frame, handles, ran>>
        /\ replies'[p] = Failure
        /\ \A q \in Callers \ {p} : replies'[q] = replies[q]
    BY <1>1 DEF Abandons, localVars, adapterVars, delegateVars
  <2>2. QED
    BY <2>1 DEF RanInv, HandlesRan, RanIds, Accepted, Answered, Failure
<1>2. CASE UNCHANGED <<transportVars, lastId, delegateVars, localVars>>
  BY <1>2 DEF transportVars, delegateVars, localVars, adapterVars, RanInv, HandlesRan, RanIds,
              Accepted, Answered
<1>3. QED
  BY <1>1, <1>2, NextForms, ClientKeepsRan, DelegateKeepsRan

-------------------------------------------------------------------------------
(* Identifiers *)

LEMMA Members ==
  ASSUME NEW S, NEW x, IsFiniteSet(S)
  PROVE  /\ IsFiniteSet(S \cup {x}) /\ IsFiniteSet(S \ {x})
         /\ Cardinality(S) \in Nat
         /\ Cardinality(S \cup {x}) = IF x \in S THEN Cardinality(S) ELSE Cardinality(S) + 1
         /\ Cardinality(S \ {x}) = IF x \in S THEN Cardinality(S) - 1 ELSE Cardinality(S)
BY FS_AddElement, FS_RemoveElement, FS_CardinalityType

LEMMA Drawn ==
  ASSUME TypeOK, DrawInv
  PROVE  /\ lastId \in Nat /\ ops \in Nat
         /\ Cardinality(Greeting) \in Nat /\ Cardinality(Proposals) \in Nat
         /\ Cardinality(Submitting) \in Nat
         /\ lastId + Cardinality(Proposals) <= 3 * MaxOps
<1>1. lastId \in Nat /\ ops \in Nat
  BY DEF TypeOK, ManagerTypeOK, Id
<1>2. /\ Cardinality(Greeting) \in Nat /\ Cardinality(Proposals) \in Nat
      /\ Cardinality(Submitting) \in Nat
  BY Members DEF DrawInv
<1>3. QED
  BY <1>1, <1>2 DEF DrawInv

(* What a caller draws was reckoned for when its operation began. *)
LEMMA ClientKeepsDraw ==
  ASSUME TypeOK, TypeOK', DrawInv, NEW p \in Callers, ClientRuns(p)
  PROVE  DrawInv'
<1> DEFINE G == Greeting
           D == Submitting
           P == Proposals
           ahead == {"hello", "propose", "caching", "established"}
<1>0. /\ OthersKeep(p) /\ Runs(p) /\ ops <= MaxOps /\ ops' <= MaxOps
      /\ lastId \in Nat /\ ops \in Nat /\ ops' \in Nat /\ IsFiniteSet(G) /\ IsFiniteSet(D) /\ IsFiniteSet(P)
      /\ Cardinality(G) \in Nat /\ Cardinality(D) \in Nat /\ Cardinality(P) \in Nat
      /\ lastId + 2 * Cardinality(G) + Cardinality(P) + Cardinality(D) <= 3 * ops
  BY Drawn DEF ClientRuns, DrawInv, TypeOK, ManagerTypeOK
<1>1. ASSUME \/ P' = P /\ \/ pc[p] = "idle" /\ lastId' = lastId /\ ops' = ops + 1
                          \/ pc[p] \in {"propose", "caching"} /\ pc'[p] \in {"caching", "established"}
                               /\ lastId' = lastId /\ ops' = ops
                          \/ pc[p] = "established" /\ pc'[p] = "submit" /\ lastId' = lastId + 1
                               /\ ops' = ops
                          \/ pc'[p] \notin ahead /\ lastId' = lastId /\ ops' \in {ops, ops + 1}
             \/ /\ \E x : P' = P \cup {x}
                /\ pc[p] = "hello" /\ pc'[p] = "propose" /\ lastId' = lastId + 1 /\ ops' = ops
      PROVE  DrawInv'
  <2>1. G' = IF pc'[p] = "hello" THEN G \cup {p} ELSE G \ {p}
    BY <1>0 DEF OthersKeep, Greeting
  <2>2. D' = IF pc'[p] \in ahead THEN D \cup {p} ELSE D \ {p}
    BY <1>0 DEF OthersKeep, Submitting
  <2>3. (p \in G <=> pc[p] = "hello") /\ (p \in D <=> pc[p] \in ahead)
    BY DEF Greeting, Submitting
  <2>4. /\ IsFiniteSet(G')
        /\ Cardinality(G') = IF pc'[p] = "hello"
                               THEN IF pc[p] = "hello" THEN Cardinality(G) ELSE Cardinality(G) + 1
                               ELSE IF pc[p] = "hello" THEN Cardinality(G) - 1 ELSE Cardinality(G)
    BY <1>0, <2>1, <2>3, Members
  <2>5. /\ IsFiniteSet(D')
        /\ Cardinality(D') = IF pc'[p] \in ahead
                               THEN IF pc[p] \in ahead THEN Cardinality(D) ELSE Cardinality(D) + 1
                               ELSE IF pc[p] \in ahead THEN Cardinality(D) - 1 ELSE Cardinality(D)
    BY <1>0, <2>2, <2>3, Members
  <2>6. ASSUME NEW x, P' = P \cup {x}
        PROVE  IsFiniteSet(P') /\ Cardinality(P') \in Nat /\ Cardinality(P') <= Cardinality(P) + 1
    <3>1. /\ IsFiniteSet(P \cup {x})
          /\ Cardinality(P \cup {x}) = Cardinality(P) \/ Cardinality(P \cup {x}) = Cardinality(P) + 1
      BY <1>0, Members
    <3>2. Cardinality(P \cup {x}) \in Nat /\ Cardinality(P \cup {x}) <= Cardinality(P) + 1
      BY <1>0, <3>1
    <3>3. QED
      BY <2>6, <3>1, <3>2
  <2>7. /\ IsFiniteSet(P') /\ Cardinality(P') \in Nat
        /\ P' = P \/ Cardinality(P') <= Cardinality(P) + 1
    BY <1>0, <1>1, <2>6
  <2> HIDE DEF G, D, P
  <2>8. lastId' + 2 * Cardinality(G') + Cardinality(P') + Cardinality(D') <= 3 * ops'
    BY <1>0, <1>1, <2>4, <2>5, <2>7
  <2>9. QED
    BY <1>0, <2>4, <2>5, <2>7, <2>8 DEF DrawInv, G, D, P
<1> HIDE DEF G, D
<1>2. ASSUME NEW msg, Posts(p, msg), msg.type # "session_propose" PROVE P' = P
  BY <1>2 DEF Posts, Request, Proposals
<1>3. ASSUME NEW labels, Stays(p, labels) PROVE P' = P
  BY <1>3 DEF Stays, Proposals
<1>4. CASE Greets(p) \/ Submits(p)
  BY <1>1, <1>2, <1>4 DEF Greets, Submits, Posts, AwaitOf
<1>5. CASE Reuses(p) \/ Takes(p) \/ Caches(p)
  BY <1>1, <1>3, <1>5 DEF Reuses, Takes, Caches, Stays
<1>6. CASE Proposes(p)
  <2>1. PICK msg \in Message : Posts(p, msg) /\ msg.type = "session_propose"
    BY <1>6 DEF Proposes
  <2>2. P' = P \cup {Request(p, frame'[p].url, msg)}
    BY <2>1 DEF Posts, Request, Proposals
  <2>3. QED
    BY <1>1, <1>6, <2>1, <2>2 DEF Proposes, Posts, AwaitOf
<1>7. CASE Learns(p) \/ HandsOut(p) \/ Ends(p)
  <2>1. P' = P /\ pc'[p] \notin ahead /\ lastId' = lastId /\ ops' \in {ops, ops + 1}
    <3>1. P' = P /\ pc'[p] \notin ahead /\ lastId' = lastId
      BY <1>3, <1>7 DEF Learns, HandsOut, Ends, Stays
    <3>2. ops' = ops \/ (ops <= ops' /\ ops' <= ops + 1)
      <4>1. Learns(p) \/ HandsOut(p) => ops' = ops
        BY DEF Learns, HandsOut
      <4>2. Ends(p) => ops <= ops' /\ ops' <= ops + 1
        BY DEF Ends
      <4>3. QED
        BY <1>7, <4>1, <4>2
    <3>3. ops' \in {ops, ops + 1}
      BY <1>0, <3>2
    <3>4. QED
      BY <3>1, <3>3
  <2>2. QED
    BY <1>1, <2>1
<1>8. CASE Asks(p) \/ Closing(p)
  <2>1. P' = P /\ lastId' = lastId
    BY <1>2, <1>8 DEF Asks, Closing
  <2>2. pc'[p] \notin ahead
    BY <1>8 DEF Asks, Closing, Posts, AwaitOf
  <2>3. ops' \in {ops, ops + 1}
    BY <1>0, <1>8 DEF Asks, Closing
  <2>4. QED
    BY <1>1, <2>1, <2>2, <2>3
<1>9. QED
  BY <1>0, <1>4, <1>5, <1>6, <1>7, <1>8 DEF Runs

LEMMA DelegateKeepsDraw ==
  ASSUME TypeOK, DrawInv, NEW r \in requests, NEW reply \in Reply, DelegateRuns(r, reply)
  PROVE  DrawInv'
<1> DEFINE P == Proposals
<1>0. /\ IsFiniteSet(P) /\ Cardinality(P) \in Nat /\ lastId \in Nat /\ ops \in Nat
      /\ Cardinality(Greeting) \in Nat /\ Cardinality(Submitting) \in Nat
  BY Drawn DEF DrawInv
<1>1. /\ P' = P \ {r} /\ UNCHANGED <<pc, ops>>
      /\ r \in P <=> r.msg.type = "session_propose"
  BY DEF DelegateRuns, Answers, Proposals, localVars
<1>2. Greeting' = Greeting /\ Submitting' = Submitting
  BY <1>1 DEF Greeting, Submitting
<1>3. /\ IsFiniteSet(P \ {r}) /\ Cardinality(P \ {r}) \in Nat
      /\ Cardinality(P \ {r}) = IF r \in P THEN Cardinality(P) - 1 ELSE Cardinality(P)
  <2>1. /\ IsFiniteSet(P \ {r})
        /\ Cardinality(P \ {r}) = IF r \in P THEN Cardinality(P) - 1 ELSE Cardinality(P)
    BY <1>0, Members
  <2>2. QED
    BY <2>1, Members
<1>4. lastId' = lastId \/ (r \in P /\ lastId' = lastId + 1)
  <2>1. StartsSession(r, reply) => r \in P /\ lastId' = lastId + 1
    BY <1>1 DEF StartsSession
  <2>2. RunsTask(r, reply) \/ EndsSession(r, reply) \/ OnlyReplies(r, reply) => lastId' = lastId
    BY DEF RunsTask, EndsSession, OnlyReplies
  <2>3. QED
    BY <2>1, <2>2 DEF DelegateRuns
<1> HIDE DEF P
<1>5. lastId' + Cardinality(P') <= lastId + Cardinality(P) /\ lastId' \in Nat
  BY <1>0, <1>1, <1>3, <1>4
<1>6. /\ IsFiniteSet(P') /\ Cardinality(P') \in Nat
  BY <1>1, <1>3
<1>7. lastId' + 2 * Cardinality(Greeting) + Cardinality(P') + Cardinality(Submitting) <= 3 * ops
  BY <1>0, <1>5, <1>6 DEF DrawInv, P
<1>8. QED
  BY <1>1, <1>2, <1>6, <1>7 DEF DrawInv, P

LEMMA NetworkKeepsDraw ==
  ASSUME TypeOK, DrawInv, NEW p \in Callers, Abandons(p)
  PROVE  DrawInv'
<1> DEFINE P == Proposals
<1>0. /\ IsFiniteSet(P) /\ Cardinality(P) \in Nat /\ lastId \in Nat /\ ops \in Nat
      /\ Cardinality(Greeting) \in Nat /\ Cardinality(Submitting) \in Nat
  BY Drawn DEF DrawInv
<1>1. UNCHANGED <<pc, ops, lastId>>
  BY DEF Abandons, localVars
<1>2. Greeting' = Greeting /\ Submitting' = Submitting
  BY <1>1 DEF Greeting, Submitting
<1>3. \/ P' = P
      \/ \E r \in P : P' = P \ {r}
      \/ \E r \in P, q \in Exchange : P' = (P \ {r}) \cup {q}
  <2>1. ASSUME NEW r \in requests, requests' = requests \ {r}
        PROVE  P' = P \/ (r \in P /\ P' = P \ {r})
    BY <2>1 DEF Proposals
  <2>2. ASSUME NEW r \in requests, NEW q \in Exchange,
               requests' = (requests \ {r}) \cup {q}, q.msg = r.msg
        PROVE  P' = P \/ (r \in P /\ P' = (P \ {r}) \cup {q})
    <3>1. CASE r.msg.type = "session_propose"
      <4>1. r \in P /\ q.msg.type = "session_propose"
        BY <2>2, <3>1 DEF Proposals
      <4>2. \A x : x \in P' <=> x \in (P \ {r}) \cup {q}
        BY <2>2, <4>1 DEF Proposals
      <4>3. QED
        BY <4>1, <4>2
    <3>2. CASE r.msg.type # "session_propose"
      <4>1. \A x : x \in P' <=> x \in P
        BY <2>2, <3>2 DEF Proposals
      <4>2. QED
        BY <4>1
    <3>3. QED
      BY <3>1, <3>2
  <2>3. UNCHANGED requests => P' = P
    BY DEF Proposals
  <2>4. QED
    BY <2>1, <2>2, <2>3 DEF Abandons
<1> HIDE DEF P
<1>4. ASSUME NEW r \in P
      PROVE  /\ IsFiniteSet(P \ {r}) /\ Cardinality(P \ {r}) = Cardinality(P) - 1
             /\ Cardinality(P \ {r}) \in Nat
  <2>1. IsFiniteSet(P \ {r}) /\ Cardinality(P \ {r}) = Cardinality(P) - 1
    BY <1>0, Members
  <2>2. QED
    BY <2>1, Members
<1>5. ASSUME NEW r \in P, NEW q
      PROVE  /\ IsFiniteSet((P \ {r}) \cup {q}) /\ Cardinality((P \ {r}) \cup {q}) <= Cardinality(P)
             /\ Cardinality((P \ {r}) \cup {q}) \in Nat
  <2> DEFINE R == P \ {r}
  <2>1. IsFiniteSet(R) /\ Cardinality(R) = Cardinality(P) - 1 /\ Cardinality(R) \in Nat
    BY <1>4
  <2> HIDE DEF R
  <2>2. /\ IsFiniteSet(R \cup {q})
        /\ Cardinality(R \cup {q}) = IF q \in R THEN Cardinality(R) ELSE Cardinality(R) + 1
    BY <2>1, Members
  <2>3. Cardinality(R \cup {q}) <= Cardinality(P) /\ Cardinality(R \cup {q}) \in Nat
    BY <1>0, <2>1, <2>2
  <2>4. QED
    BY <2>2, <2>3 DEF R
<1>6. IsFiniteSet(P') /\ Cardinality(P') \in Nat /\ Cardinality(P') <= Cardinality(P)
  <2>1. CASE P' = P
    BY <1>0, <2>1
  <2>2. CASE \E r \in P : P' = P \ {r}
    <3>1. PICK r \in P : P' = P \ {r}
      BY <2>2
    <3>2. IsFiniteSet(P') /\ Cardinality(P') = Cardinality(P) - 1 /\ Cardinality(P') \in Nat
      BY <1>4, <3>1
    <3>3. QED
      BY <1>0, <3>2
  <2>3. CASE \E r \in P, q \in Exchange : P' = (P \ {r}) \cup {q}
    <3>1. PICK r \in P, q \in Exchange : P' = (P \ {r}) \cup {q}
      BY <2>3
    <3>2. QED
      BY <1>5, <3>1
  <2>4. QED
    BY <1>3, <2>1, <2>2, <2>3
<1>7. lastId' + 2 * Cardinality(Greeting) + Cardinality(P') + Cardinality(Submitting) <= 3 * ops
  BY <1>0, <1>1, <1>6 DEF DrawInv, P
<1>8. QED
  BY <1>1, <1>2, <1>6, <1>7 DEF DrawInv, P

LEMMA NextDraw ==
  ASSUME TypeOK, WireInv, DrawInv, [Next]_mixedVars
  PROVE  DrawInv'
<1>1. CASE UNCHANGED <<transportVars, lastId, delegateVars, localVars>>
  BY <1>1 DEF transportVars, localVars, DrawInv, Greeting, Submitting, Proposals
<1>2. QED
  BY <1>1, NextForms, NextType, ClientKeepsDraw, DelegateKeepsDraw, NetworkKeepsDraw

LEMMA InitMixed == Init => MixedInv
<1> SUFFICES ASSUME Init PROVE MixedInv
  OBVIOUS
<1>1. /\ requests = {} /\ started = [u \in Urls |-> {}] /\ ran = [u \in Urls |-> {}]
      /\ pc = [p \in Callers |-> "idle"] /\ lastId = NoId /\ ops = 0 /\ handles = {}
  BY DEF Init, TransportInit, DelegateInit, ManagerInit, AdapterInit
<1>2. WelcomeInv /\ RanInv
  BY <1>1 DEF WelcomeInv, RanInv, HandlesRan, Accepted, Submissions
<1>3. DrawInv
  <2>1. Greeting = {} /\ Submitting = {} /\ Proposals = {}
    BY <1>1 DEF Greeting, Submitting, Proposals
  <2>2. QED
    BY <1>1, <2>1, FS_EmptySet DEF DrawInv, NoId
<1>4. QED
  BY <1>2, <1>3, InitTypes, InitHooks DEF MixedInv

LEMMA MixedAlwaysHolds == Spec => [](TypeOK /\ MixedInv)
<1>1. TypeOK /\ MixedInv /\ [Next]_mixedVars => TypeOK' /\ MixedInv'
  BY NextType, NextWire, NextHooks, NextWelcome, NextRan, NextDraw DEF MixedInv
<1>2. Init => TypeOK /\ MixedInv
  BY InitTypes, InitMixed
<1>3. QED
  BY <1>1, <1>2, PTL DEF Spec

(* Every session a delegate was told of is in one place at a time, in the  *)
(* mode both ends arrived at apart, and only a delegate that welcomes the  *)
(* client is asked to run its tasks: the invariant behind the theorems     *)
(* below, for every number of tasks and delegates, with connections that   *)
(* fail and hooks that raise.                                              *)
THEOREM MixedInvariantHolds == Spec => []MixedInv
BY MixedAlwaysHolds, PTL

(* The session a Rust client has cached is open at the Python delegate,    *)
(* under the identifier the delegate drew and in the mode its hook was     *)
(* told: SessionManager::establish_session takes the identifier from the   *)
(* accept and the mode from its own negotiation.                           *)
THEOREM CachedSessionIsOpen == Spec => []CachedSessionStarted
<1>1. MixedInv => CachedSessionStarted
  BY DEF MixedInv, HookInv
<1>2. QED
  BY <1>1, MixedAlwaysHolds, PTL

(* on_session_end is called only for a session on_session_start was called *)
(* for, and once: no two closes of the Rust client name one session.       *)
THEOREM HooksArePaired == Spec => []HooksPaired
<1>1. MixedInv => HooksPaired
  BY DEF MixedInv, HookInv
<1>2. QED
  BY <1>1, MixedAlwaysHolds, PTL

(* Every handle the Rust client hands out stands for a task that           *)
(* handle_task was called for, although LdpDelegate answers its errors     *)
(* with envelopes and the client takes any envelope for an acceptance.     *)
THEOREM HandlesHaveRun == Spec => []HandlesRan
<1>1. MixedInv => HandlesRan
  BY DEF MixedInv, RanInv
<1>2. QED
  BY <1>1, MixedAlwaysHolds, PTL

(* A delegate that does not trust the client's domain runs none of its     *)
(* tasks, although only SESSION_PROPOSE is checked for trust.              *)
THEOREM RejectedDelegatesRunNothing == Spec => []RejectedRunNothing
<1>1. MixedInv => RejectedRunNothing
  <2> SUFFICES ASSUME MixedInv, NEW u \in Urls, ~Trusts(DelegateDomain[u], ClientDomain.name)
               PROVE  ran[u] = {} /\ ~Cached(u)
    BY DEF RejectedRunNothing
  <2>1. started[u] = {} /\ ran[u] = {}
    BY DEF MixedInv, WelcomeInv, Welcome
  <2>2. ~Cached(u)
    BY <2>1 DEF MixedInv, HookInv, CachedSessionStarted
  <2>3. QED
    BY <2>1, <2>2
<1>2. QED
  BY <1>1, MixedAlwaysHolds, PTL

-------------------------------------------------------------------------------
(* Signatures *)

LEMMA OnePart ==
  ASSUME NEW field, NEW given
  PROVE  Parts(<<field>>, given) = IF field \in given THEN <<field>> ELSE <<"">>
<1>1. DOMAIN <<field>> = {1} /\ <<field>>[1] = field
  OBVIOUS
<1>2. Parts(<<field>>, given) = [i \in {1} |-> Part(field, given)]
  BY <1>1 DEF Parts
<1>3. [i \in {1} |-> Part(field, given)] = <<Part(field, given)>>
  OBVIOUS
<1>4. QED
  BY <1>2, <1>3 DEF Part

(* What signing.rs finds by a match on the body, signing.py finds by a      *)
(* chain of tests for absent fields.                                        *)
LEMMA IdentifyAlike ==
  ASSUME NEW type \in BodyType, NEW given
  PROVE  PyIdentifying(type, given) =
           IF type \in DOMAIN RustIdentifying THEN Parts(RustIdentifying[type], given)
           ELSE <<"">>
<1>1. CASE type \in {"capability_manifest", "session_propose", "attestation", "session_close"}
  BY <1>1 DEF PyIdentifying, RustIdentifying, TaskBodies
<1>2. CASE type = "task_submit"
  BY <1>2 DEF PyIdentifying, RustIdentifying
<1>3. ASSUME NEW field, type \in DOMAIN RustIdentifying, RustIdentifying[type] = <<field>>,
             PyIdentifying(type, given) = IF field \in given THEN <<field>> ELSE <<"">>
      PROVE  PyIdentifying(type, given) =
               IF type \in DOMAIN RustIdentifying THEN Parts(RustIdentifying[type], given)
               ELSE <<"">>
  BY <1>3, OnePart
<1>4. CASE type = "hello"
  BY <1>3, <1>4 DEF PyIdentifying, RustIdentifying, TaskBodies
<1>5. CASE type = "session_accept"
  BY <1>3, <1>5 DEF PyIdentifying, RustIdentifying, TaskBodies
<1>6. CASE type = "session_reject"
  BY <1>3, <1>6 DEF PyIdentifying, RustIdentifying, TaskBodies
<1>7. CASE type = "task_update"
  BY <1>3, <1>7 DEF PyIdentifying, RustIdentifying, TaskBodies
<1>8. CASE type = "task_result"
  BY <1>3, <1>8 DEF PyIdentifying, RustIdentifying, TaskBodies
<1>9. CASE type = "task_failed"
  BY <1>3, <1>9 DEF PyIdentifying, RustIdentifying, TaskBodies
<1>10. CASE type = "task_cancel"
  BY <1>3, <1>10 DEF PyIdentifying, RustIdentifying, TaskBodies
<1>11. QED
  BY <1>1, <1>2, <1>4, <1>5, <1>6, <1>7, <1>8, <1>9, <1>10 DEF BodyType

LEMMA AllSignedAlike == BodyType \subseteq SignedAlike
BY IdentifyAlike DEF SignedAlike, RustSigningInput, PySigningInput

(* Whatever travels between a Rust client and a Python delegate, the two   *)
(* SDKs compute one signing input for it, whichever of its fields are      *)
(* empty: no message is refused for having been signed by the other SDK.   *)
THEOREM SignaturesAgree == Spec => []SdksSignAlike
<1>1. TypeOK => SdksSignAlike
  <2> SUFFICES ASSUME TypeOK, NEW type \in InTransit PROVE type \in BodyType
    BY AllSignedAlike DEF SdksSignAlike
  <2>1. CASE \E r \in requests : type = r.msg.type
    BY <2>1, RequestFields, MessageFields DEF BodyType
  <2>2. CASE \E p \in Callers : type = replies[p].type /\ type \notin {"none", "error"}
    <3>1. PICK p \in Callers : type = replies[p].type /\ type \notin {"none", "error"}
      BY <2>2
    <3>2. replies[p] \in Reply
      BY DEF TypeOK
    <3>3. QED
      BY <3>1, <3>2 DEF Reply, BodyType
  <2>3. QED
    BY <2>1, <2>2 DEF InTransit
<1>2. QED
  BY <1>1, TypesAlwaysOK, PTL

-------------------------------------------------------------------------------
(* The life cycle of sessions: each step opens, adopts, retires or ends a  *)
(* session as SessionLifecycle lets it, or does none of that.              *)

LifecycleStep == [Lifecycle!Next]_Lifecycle!lifecycleVars

(* A step that changes none of the three variables of the life cycle. *)
LEMMA LifecycleStutters ==
  ASSUME CacheKeeps, UNCHANGED <<started, stopped>>
  PROVE  LifecycleStep
<1>1. [u \in Urls |-> Started(u) \ Range(stopped[u])]' =
        [u \in Urls |-> Started(u) \ Range(stopped[u])]
  BY DEF Started
<1>2. [u \in Urls |-> Range(stopped[u])]' = [u \in Urls |-> Range(stopped[u])]
  OBVIOUS
<1>3. [u \in Urls |-> cache[u].session_id]' = [u \in Urls |-> cache[u].session_id]
  BY DEF CacheKeeps
<1>4. QED
  BY <1>1, <1>2, <1>3 DEF LifecycleStep, Lifecycle!lifecycleVars

LEMMA LifecycleClient ==
  ASSUME TypeOK, MixedInv, NEW p \in Callers, ClientRuns(p)
  PROVE  LifecycleStep
<1> DEFINE live == [u \in Urls |-> Started(u) \ Range(stopped[u])]
           ended == [u \in Urls |-> Range(stopped[u])]
           current == [u \in Urls |-> cache[u].session_id]
<1>1. UNCHANGED <<started, stopped>> /\ Runs(p)
  BY DEF ClientRuns, delegateVars
<1>2. UNCHANGED <<live, ended>>
  BY <1>1 DEF Started
<1>3. CASE Caches(p)
  <2>1. PICK u \in Urls, session \in Session : u = frame[p].url /\ session = frame[p].session
    BY FrameFields, TypesOfFrames
  <2>2. PICK id \in Nat : id = session.session_id
    BY DEF Session, Id
  <2>3. OpenAt(u, id)
    BY <1>3, <2>1, <2>2 DEF Caches, MixedInv, HookInv, OnePlaceEach, Granted, Grant
  <2>4. id \in live[u] /\ id \in 1..(3 * MaxOps)
    <3>1. id \in Started(u) /\ id \notin Range(stopped[u])
      BY <2>3, OpenIsStarted
    <3>2. id \in 1..lastId
      BY <3>1, IdsBelow DEF MixedInv
    <3>3. lastId <= 3 * MaxOps /\ lastId \in Nat
      BY Drawn DEF MixedInv
    <3>4. QED
      BY <3>1, <3>2, <3>3
  <2>5. current' = [current EXCEPT ![u] = id]
    BY <1>3, <2>1, <2>2, TypesOfFrames DEF Caches
  <2> HIDE DEF live, ended, current
  <2>6. Lifecycle!Adopt(u, id)
    BY <1>2, <2>4, <2>5 DEF Lifecycle!Adopt, live, ended, current
  <2>7. QED
    BY <2>4, <2>6 DEF LifecycleStep, Lifecycle!Next
<1>4. CASE Closing(p)
  <2>1. PICK u \in Urls : cache' = [cache EXCEPT ![u] = NoSession]
    BY <1>4 DEF Closing
  <2>2. current' = [current EXCEPT ![u] = NoId]
    BY <2>1, TypesOfFrames DEF NoSession
  <2> HIDE DEF live, ended, current
  <2>3. Lifecycle!Retire(u)
    BY <1>2, <2>2 DEF Lifecycle!Retire, live, ended, current
  <2>4. QED
    BY <2>3 DEF LifecycleStep, Lifecycle!Next
<1>5. CASE ~Caches(p) /\ ~Closing(p)
  <2>1. CacheKeeps
    BY <1>1, <1>5
    DEF Runs, Greets, Reuses, Proposes, Takes, Submits, Learns, HandsOut, Asks, Ends
  <2>2. QED
    BY <1>1, <2>1, LifecycleStutters
<1>6. QED
  BY <1>3, <1>4, <1>5

LEMMA LifecycleDelegate ==
  ASSUME TypeOK, MixedInv, NEW r \in requests, NEW reply \in Reply, DelegateRuns(r, reply)
  PROVE  LifecycleStep
<1> DEFINE live == [u \in Urls |-> Started(u) \ Range(stopped[u])]
           ended == [u \in Urls |-> Range(stopped[u])]
           current == [u \in Urls |-> cache[u].session_id]
<1>0. UNCHANGED cache /\ UNCHANGED current
  BY DEF DelegateRuns, Answers, localVars
<1>1. PICK v \in Urls : v = r.to
  BY RequestFields
<1>2. CASE StartsSession(r, reply)
  <2>1. PICK id \in Nat : id = lastId + 1
    BY Drawn DEF MixedInv
  <2>2. id \in 1..(3 * MaxOps)
    <3>1. r \in Proposals /\ IsFiniteSet(Proposals)
      BY <1>2 DEF StartsSession, Proposals, MixedInv, DrawInv
    <3>2. IsFiniteSet(Proposals \ {r}) /\ Cardinality(Proposals \ {r}) = Cardinality(Proposals) - 1
      BY <3>1, Members
    <3>3. Cardinality(Proposals \ {r}) \in Nat
      BY <3>2, Members
    <3>4. QED
      BY <2>1, <3>2, <3>3, Drawn DEF MixedInv
  <2>3. \A u \in Urls : id \notin Started(u) /\ id \notin Range(stopped[u])
    BY <2>1, IdsBelow DEF MixedInv
  <2>4. PICK t \in [session_id : Id, payload_mode : PayloadMode] :
          t = [session_id |-> id, payload_mode |-> "text"]
    BY DEF Id, PayloadMode
  <2>5. /\ started'[v] = started[v] \cup {t} /\ t.session_id = id
        /\ \A u \in Urls \ {v} : started'[u] = started[u]
        /\ stopped' = stopped
    BY <1>1, <1>2, <2>1, <2>4 DEF StartsSession, TypeOK
  <2>6. /\ Started(v)' = Started(v) \cup {id}
        /\ \A u \in Urls \ {v} : Started(u)' = Started(u)
    BY <2>5 DEF Started
  <2>7. ended' = ended
    BY <2>5
  <2>8. live' = [live EXCEPT ![v] = @ \cup {id}]
    <3>1. \A u \in Urls : Range(stopped'[u]) = Range(stopped[u])
      BY <2>5
    <3>2. \A u \in Urls : (Started(u) \ Range(stopped[u]))' =
            IF u = v THEN (Started(u) \ Range(stopped[u])) \cup {id}
            ELSE Started(u) \ Range(stopped[u])
      BY <2>3, <2>6, <3>1
    <3>3. QED
      BY <3>2
  <2>9. \A u \in Urls : id \notin live[u] \cup ended[u]
    BY <2>3
  <2> HIDE DEF live, ended, current
  <2>10. Lifecycle!Open(v, id)
    BY <1>0, <2>7, <2>8, <2>9 DEF Lifecycle!Open, live, ended, current
  <2>11. QED
    BY <2>2, <2>10 DEF LifecycleStep, Lifecycle!Next
<1>3. CASE EndsSession(r, reply)
  <2>1. PICK id \in Id : id = r.msg.session_id
    BY <1>3, RequestFields, MessageFields DEF EndsSession
  <2>2. r \in Closes
    BY <1>3 DEF EndsSession, Closes
  <2>3. OpenAt(v, id) /\ cache[v].session_id # id
    BY <1>1, <2>1, <2>2 DEF MixedInv, HookInv, OnePlaceEach
  <2>4. id \in Started(v) /\ id \notin Range(stopped[v])
    BY <2>3, OpenIsStarted
  <2>5. id \in 1..(3 * MaxOps)
    <3>1. id \in 1..lastId
      BY <2>4, IdsBelow DEF MixedInv
    <3>2. lastId <= 3 * MaxOps /\ lastId \in Nat
      BY Drawn DEF MixedInv
    <3>3. QED
      BY <3>1, <3>2
  <2>6. /\ Range(stopped'[v]) = Range(stopped[v]) \cup {id}
        /\ \A u \in Urls \ {v} : stopped'[u] = stopped[u]
        /\ started' = started
    <3>1. stopped \in [Urls -> Seq(Id)]
      BY DEF TypeOK
    <3>2. /\ stopped'[v] = Append(stopped[v], id)
          /\ \A u \in Urls \ {v} : stopped'[u] = stopped[u]
          /\ started' = started
      BY <1>1, <1>3, <2>1, <3>1 DEF EndsSession
    <3>3. QED
      BY <3>1, <3>2, RangeOfAppend
  <2>7. \A u \in Urls : Started(u)' = Started(u)
    BY <2>6 DEF Started
  <2>8. ended' = [ended EXCEPT ![v] = @ \cup {id}]
    BY <2>6
  <2>9. live' = [live EXCEPT ![v] = @ \ {id}]
    BY <2>6, <2>7
  <2>10. id \in live[v] \ {current[v]}
    BY <2>3, <2>4
  <2> HIDE DEF live, ended, current
  <2>11. Lifecycle!End(v, id)
    BY <1>0, <2>8, <2>9, <2>10 DEF Lifecycle!End, live, ended, current
  <2>12. QED
    BY <2>5, <2>11 DEF LifecycleStep, Lifecycle!Next
<1>4. CASE RunsTask(r, reply) \/ OnlyReplies(r, reply)
  <2>1. UNCHANGED <<started, stopped>>
    BY <1>4 DEF RunsTask, OnlyReplies, delegateVars
  <2>2. QED
    BY <1>0, <2>1, LifecycleStutters DEF CacheKeeps
<1>5. QED
  BY <1>2, <1>3, <1>4 DEF DelegateRuns

LEMMA InitLifecycle == Init => Lifecycle!Init
<1> SUFFICES ASSUME Init PROVE Lifecycle!Init
  OBVIOUS
<1>1. /\ started = [u \in Urls |-> {}] /\ stopped = [u \in Urls |-> <<>>]
      /\ cache = [u \in Urls |-> NoSession]
  BY DEF Init, DelegateInit, ManagerInit
<1>2. \A u \in Urls : Started(u) = {} /\ Range(stopped[u]) = {} /\ cache[u].session_id = NoId
  BY <1>1 DEF Started, Range, NoSession
<1>3. QED
  BY <1>2 DEF Lifecycle!Init

LEMMA NextLifecycle == TypeOK /\ MixedInv /\ [Next]_mixedVars => LifecycleStep
<1> SUFFICES ASSUME TypeOK, MixedInv, [Next]_mixedVars PROVE LifecycleStep
  OBVIOUS
<1>1. ASSUME NEW p \in Callers, Abandons(p) PROVE LifecycleStep
  BY <1>1, LifecycleStutters DEF Abandons, delegateVars, localVars, CacheKeeps
<1>2. CASE UNCHANGED <<transportVars, lastId, delegateVars, localVars>>
  BY <1>2, LifecycleStutters DEF delegateVars, localVars, CacheKeeps
<1>3. QED
  BY <1>1, <1>2, NextForms, LifecycleClient, LifecycleDelegate DEF MixedInv

(* What the hooks of the delegates see and what the client has cached goes *)
(* through the life cycle SessionLifecycle promises: an identifier opens   *)
(* one session at one delegate, and no session ends while it is cached.    *)
THEOREM MixedImplementsLifecycle == Spec => ImplementsLifecycle
<1>1. Init /\ [][Next]_mixedVars /\ [](TypeOK /\ MixedInv) =>
        Lifecycle!Init /\ [][Lifecycle!Next]_Lifecycle!lifecycleVars
  BY InitLifecycle, NextLifecycle, PTL DEF LifecycleStep
<1>2. QED
  BY <1>1, MixedAlwaysHolds, PTL DEF Spec, ImplementsLifecycle, Lifecycle!Spec

===============================================================================
