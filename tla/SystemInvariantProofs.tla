------------------------- MODULE SystemInvariantProofs ------------------------
(***************************************************************************)
(* Sessions and tasks only at delegates that trust the client, results in  *)
(* the session's mode, closed sessions ended, the sessions of the system   *)
(* as an implementation of SessionLifecycle, and tasks that can be polled  *)
(* until they are cancelled and are reported as their contracts say.       *)
(***************************************************************************)
EXTENDS TaskInvariant, LdpSystemProofs, FiniteSetTheorems

USE UrlsNonEmpty, NoConnIsNotACaller

-------------------------------------------------------------------------------
(* What a step does outside the part of the state it is about *)

(* A step of p's own: p's locals change, and at most one request of p's,   *)
(* which p then waits for, is posted.                                      *)
OwnStep(p) ==
  /\ OthersKeep(p)
  /\ UNCHANGED <<sessions, tasks, ended, now>>
  /\ requests \subseteq requests'
  /\ \A r \in requests' \ requests :
       r.conn = p /\ r.stage = "posted" /\ r.to = frame'[p].url /\ pc'[p] = AwaitOf[r.msg.type]
  /\ \/ replies'[p] = NoReply
     \/ pc'[p] \in {"idle", "established", "polling", "closing"}

LEMMA PostEffect ==
  ASSUME TypeOK, NEW p \in Callers, NEW u, NEW msg, NEW label, NEW locals,
         Post(p, u, msg), Goto(p, label, locals), label = AwaitOf[msg.type], locals.url = u,
         UNCHANGED <<sessions, tasks, ended, now>>
  PROVE  /\ OwnStep(p)
         /\ pc'[p] = label /\ frame'[p] = locals /\ replies'[p] = NoReply
         /\ requests' = requests \cup {Request(p, u, msg)}
<1>1. /\ pc'[p] = label /\ frame'[p] = locals /\ OthersKeep(p)
  BY GotoEffect DEF Post
<1>2. replies'[p] = NoReply
  BY DEF Post, TypeOK, TransportTypeOK
<1>3. QED
  BY <1>1, <1>2 DEF OwnStep, Post, Request

LEMMA MoveEffect ==
  ASSUME TypeOK, NEW p \in Callers, NEW label, NEW locals, Goto(p, label, locals),
         UNCHANGED requests,
         \/ UNCHANGED replies /\ label \in {"idle", "established", "polling", "closing"}
         \/ replies' = [replies EXCEPT ![p] = NoReply],
         UNCHANGED <<sessions, tasks, ended, now>>
  PROVE  OwnStep(p) /\ pc'[p] = label /\ frame'[p] = locals
<1>1. /\ pc'[p] = label /\ frame'[p] = locals /\ OthersKeep(p)
  BY GotoEffect
<1>2. QED
  BY <1>1 DEF OwnStep, TypeOK, TransportTypeOK

LEMMA AnswerEffect ==
  ASSUME TypeOK, NEW r \in requests, NEW reply, Answer(r, reply)
  PROVE  /\ requests' = requests \ {r}
         /\ \A p \in Callers : p # r.conn => replies'[p] = replies[p]
         /\ r.conn \in Callers => replies'[r.conn] = reply
BY DEF Answer, TypeOK, TransportTypeOK

LEMMA RequestFields ==
  ASSUME TypeOK, NEW r \in requests
  PROVE  /\ r.conn \in Callers \cup {NoConn} /\ r.to \in Urls
         /\ r.stage \in {"posted", "executed"} /\ r.msg \in Message
         /\ r = [conn |-> r.conn, to |-> r.to, stage |-> r.stage, msg |-> r.msg]
BY DEF TypeOK, TransportTypeOK, Exchange

-------------------------------------------------------------------------------
(* What each of the client's steps does, field by field *)

LEMMA InvokeCachedEffect ==
  ASSUME TypeOK, NEW p \in Callers, InvokeCached(p), UNCHANGED <<serverVars, now>>
  PROVE  /\ OwnStep(p)
         /\ pc[p] = "idle" /\ pc'[p] = "established"
         /\ UNCHANGED <<requests, cache, lastId, closed, adapterVars>>
         /\ frame'[p].op \in {"invoke", "stream"}
         /\ \E u \in Urls : Cached(u) /\ frame'[p].url = u /\ frame'[p].session = cache[u]
<1>1. PICK op \in {"invoke", "stream"}, u \in Urls, c \in ContractChoices :
        ReuseSession(p, u, Call(op, u, c))
  BY DEF InvokeCached
<1> DEFINE locals == [Call(op, u, c) EXCEPT !.session = cache[u]]
<1>2. locals.op = op /\ locals.url = u /\ locals.session = cache[u]
  BY DEF Call, Blank
<1>3. /\ Goto(p, "established", locals)
      /\ Cached(u) /\ UNCHANGED <<requests, replies, cache, lastId, closed>>
  BY <1>1 DEF ReuseSession, transportVars
<1> HIDE DEF locals
<1>4. OwnStep(p) /\ pc'[p] = "established" /\ frame'[p] = locals
  BY <1>3, MoveEffect DEF serverVars
<1>5. QED
  BY <1>2, <1>3, <1>4 DEF InvokeCached, Start, Begin

LEMMA InvokeNewEffect ==
  ASSUME TypeOK, NEW p \in Callers, InvokeNew(p), UNCHANGED <<serverVars, now>>
  PROVE  /\ OwnStep(p)
         /\ pc[p] = "idle" /\ pc'[p] = "hello"
         /\ UNCHANGED <<cache, lastId, closed, adapterVars>>
         /\ frame'[p].op \in {"invoke", "stream"}
         /\ \A r \in requests' \ requests :
              r.msg.type = "hello" /\ r.msg.signature = ClientSecret
<1>1. PICK op \in {"invoke", "stream"}, u \in Urls, c \in ContractChoices :
        SendHello(p, u, Call(op, u, c))
  BY DEF InvokeNew
<1> DEFINE msg == [type |-> "hello", signature |-> ClientSecret]
           locals == Call(op, u, c)
<1>2. locals.op = op /\ locals.url = u /\ AwaitOf[msg.type] = "hello"
  BY DEF Call, Blank, AwaitOf
<1>3. Post(p, u, msg) /\ Goto(p, "hello", locals) /\ UNCHANGED <<cache, lastId, closed>>
  BY <1>1 DEF SendHello
<1> HIDE DEF locals, msg
<1>4. /\ OwnStep(p) /\ pc'[p] = "hello" /\ frame'[p] = locals
      /\ requests' = requests \cup {Request(p, u, msg)}
  BY <1>2, <1>3, PostEffect DEF serverVars
<1>5. QED
  BY <1>2, <1>3, <1>4 DEF InvokeNew, Start, Begin, Request, msg

LEMMA PollStatusEffect ==
  ASSUME TypeOK, NEW p \in Callers, PollStatus(p), UNCHANGED <<serverVars, now>>
  PROVE  /\ OwnStep(p)
         /\ pc[p] = "idle" /\ pc'[p] = "polled"
         /\ UNCHANGED <<cache, lastId, closed, adapterVars>>
         /\ \A r \in requests' \ requests :
              /\ r.msg.type = "task_update" /\ r.msg.task_id = frame'[p].task
              /\ r.msg.signature = ClientSecret
         /\ \E h \in handles : h.op = "invoke" /\ PollOf(p, h)'
<1>1. PICK h \in handles :
        /\ h.op = "invoke"
        /\ Post(p, h.url, StatusQuery(h.task_id))
        /\ Goto(p, "polled", [Blank(h.url) EXCEPT !.op = "status", !.task = h.task_id])
  BY DEF PollStatus
<1> DEFINE msg == StatusQuery(h.task_id)
           locals == [Blank(h.url) EXCEPT !.op = "status", !.task = h.task_id]
<1>2. /\ locals.op = "status" /\ locals.url = h.url /\ locals.task = h.task_id
      /\ AwaitOf[msg.type] = "polled"
  BY DEF Blank, AwaitOf, StatusQuery
<1>3. Post(p, h.url, msg) /\ Goto(p, "polled", locals)
  BY <1>1
<1> HIDE DEF locals, msg
<1>4. /\ OwnStep(p) /\ pc'[p] = "polled" /\ frame'[p] = locals
      /\ requests' = requests \cup {Request(p, h.url, msg)}
  BY <1>2, <1>3, PostEffect DEF serverVars
<1>5. PollOf(p, h)'
  BY <1>1, <1>2, <1>4 DEF PollOf
<1>6. QED
  BY <1>1, <1>2, <1>4, <1>5 DEF PollStatus, Start, Begin, Request, msg, StatusQuery

LEMMA CancelTaskEffect ==
  ASSUME TypeOK, NEW p \in Callers, CancelTask(p), UNCHANGED <<serverVars, now>>
  PROVE  /\ OwnStep(p)
         /\ pc[p] = "idle" /\ pc'[p] = "cancel"
         /\ UNCHANGED <<cache, lastId, closed, contracts, handles, outcomes>>
         /\ \E h \in handles :
              /\ cancelled' = cancelled \cup {h.task_id}
              /\ \A r \in requests' \ requests :
                   /\ r.msg.type = "task_cancel" /\ r.msg.task_id = h.task_id
                   /\ r.msg.signature = ClientSecret /\ r.to = h.url
<1>1. PICK h \in handles :
        /\ Post(p, h.url, [type |-> "task_cancel", task_id |-> h.task_id,
                           signature |-> ClientSecret])
        /\ Goto(p, "cancel", [Blank(h.url) EXCEPT !.op = "cancel", !.task = h.task_id])
        /\ cancelled' = cancelled \cup {h.task_id}
  BY DEF CancelTask
<1> DEFINE msg == [type |-> "task_cancel", task_id |-> h.task_id, signature |-> ClientSecret]
           locals == [Blank(h.url) EXCEPT !.op = "cancel", !.task = h.task_id]
<1>2. locals.url = h.url /\ AwaitOf[msg.type] = "cancel"
  BY DEF Blank, AwaitOf
<1>3. Post(p, h.url, msg) /\ Goto(p, "cancel", locals)
  BY <1>1
<1> HIDE DEF locals, msg
<1>4. /\ OwnStep(p) /\ pc'[p] = "cancel"
      /\ requests' = requests \cup {Request(p, h.url, msg)}
  BY <1>2, <1>3, PostEffect DEF serverVars
<1>5. QED
  BY <1>1, <1>4 DEF CancelTask, Start, Begin, Request, msg

LEMMA SubmitTaskEffect ==
  ASSUME TypeOK, NEW p \in Callers, SubmitTask(p), UNCHANGED <<serverVars, now>>
  PROVE  /\ OwnStep(p)
         /\ pc[p] = "established" /\ pc'[p] = "submit"
         /\ UNCHANGED <<cache, closed, adapterVars>>
         /\ lastId' = lastId + 1
         /\ frame'[p].op = frame[p].op
         /\ frame'[p].url = frame[p].url
         /\ frame'[p].session = frame[p].session
         /\ frame'[p].contract = frame[p].contract
         /\ frame'[p].task = lastId'
         /\ \A r \in requests' \ requests :
              /\ r.msg.type = "task_submit" /\ r.msg.task_id = lastId'
              /\ r.msg.session_id = frame[p].session.session_id
              /\ r.msg.signature = ClientSecret
<1> DEFINE id == lastId + 1
           msg == [type |-> "task_submit", session_id |-> frame[p].session.session_id,
                   task_id |-> id, signature |-> ClientSecret]
           locals == [frame[p] EXCEPT !.task = id]
<1>1. Post(p, frame[p].url, msg) /\ Goto(p, "submit", locals) /\ lastId' = id
  BY DEF SubmitTask
<1>2. AwaitOf[msg.type] = "submit"
  BY DEF AwaitOf
<1> HIDE DEF id, msg
<1>3. /\ locals.op = frame[p].op /\ locals.url = frame[p].url
      /\ locals.session = frame[p].session /\ locals.contract = frame[p].contract
      /\ locals.task = id
  BY FrameFields DEF TypeOK, Frame
<1> HIDE DEF locals
<1>4. /\ OwnStep(p) /\ pc'[p] = "submit" /\ frame'[p] = locals
      /\ requests' = requests \cup {Request(p, frame[p].url, msg)}
  BY <1>1, <1>2, <1>3, PostEffect DEF serverVars
<1>5. QED
  BY <1>1, <1>3, <1>4 DEF SubmitTask, Request, id, msg

LEMMA SubmitReturnsEffect ==
  ASSUME TypeOK, NEW p \in Callers, SubmitReturns(p), UNCHANGED <<serverVars, now>>
  PROVE  /\ OwnStep(p)
         /\ pc[p] = "submit" /\ pc'[p] = "submitted" /\ Accepted(p)
         /\ UNCHANGED <<requests, cache, lastId, closed, handles, cancelled, outcomes>>
         /\ contracts' = IF frame[p].contract = NoContract
                           THEN contracts
                           ELSE contracts \cup {[task_id |-> frame[p].task,
                                                 contract |-> frame[p].contract]}
         /\ frame'[p] = frame[p]
<1>1. OwnStep(p) /\ pc'[p] = "submitted" /\ frame'[p] = frame[p]
  BY MoveEffect DEF SubmitReturns, Consume, serverVars
<1>2. QED
  BY <1>1 DEF SubmitReturns, StoreContract, Consume, Accepted

LEMMA TouchSessionEffect ==
  ASSUME TypeOK, NEW p \in Callers, TouchSession(p), UNCHANGED <<serverVars, now>>
  PROVE  /\ OwnStep(p) /\ CacheKeeps
         /\ pc[p] = "submitted"
         /\ \/ frame[p].op = "stream" /\ pc'[p] = "polling" /\ frame'[p] = frame[p]
            \/ frame[p].op # "stream" /\ pc'[p] = "idle"
         /\ UNCHANGED <<requests, lastId, closed, contracts, cancelled, outcomes>>
         /\ handles' = handles \cup {[task_id |-> frame[p].task, url |-> frame[p].url,
                                      session_id |-> frame[p].session.session_id,
                                      op |-> frame[p].op,
                                      payload_mode |-> frame[p].session.payload_mode,
                                      contract |-> frame[p].contract]}
<1>1. CASE frame[p].op = "stream"
  <2>1. OwnStep(p) /\ pc'[p] = "polling" /\ frame'[p] = frame[p]
    BY <1>1, MoveEffect DEF TouchSession, transportVars, serverVars
  <2>2. QED
    BY <1>1, <2>1, TouchedKeeps, FrameFields DEF TouchSession, transportVars, TypeOK
<1>2. CASE frame[p].op # "stream"
  <2>1. OwnStep(p) /\ pc'[p] = "idle"
    BY <1>2, MoveEffect DEF TouchSession, transportVars, serverVars, Return
  <2>2. QED
    BY <1>2, <2>1, TouchedKeeps, FrameFields DEF TouchSession, transportVars, TypeOK
<1>3. QED
  BY <1>1, <1>2

LEMMA PollStreamEffect ==
  ASSUME TypeOK, NEW p \in Callers, PollStream(p), UNCHANGED <<serverVars, now>>
  PROVE  /\ OwnStep(p)
         /\ pc[p] = "polling" /\ pc'[p] = "polled" /\ frame'[p] = frame[p]
         /\ UNCHANGED <<cache, lastId, closed, adapterVars>>
         /\ \A r \in requests' \ requests :
              /\ r.msg.type = "task_update" /\ r.msg.task_id = frame[p].task
              /\ r.msg.signature = ClientSecret
<1> DEFINE msg == StatusQuery(frame[p].task)
<1>1. AwaitOf[msg.type] = "polled"
  BY DEF AwaitOf, StatusQuery
<1>2. Post(p, frame[p].url, msg) /\ Goto(p, "polled", frame[p])
  BY DEF PollStream
<1> HIDE DEF msg
<1>3. /\ OwnStep(p) /\ pc'[p] = "polled" /\ frame'[p] = frame[p]
      /\ requests' = requests \cup {Request(p, frame[p].url, msg)}
  BY <1>1, <1>2, PostEffect DEF serverVars
<1>4. QED
  BY <1>3 DEF PollStream, Request, msg, StatusQuery

LEMMA PollReturnsEffect ==
  ASSUME TypeOK, NEW p \in Callers, PollReturns(p), UNCHANGED <<serverVars, now>>
  PROVE  /\ OwnStep(p)
         /\ pc[p] = "polled" /\ ~Answered(p, "none")
         /\ \/ pc'[p] = "polling" /\ frame'[p] = frame[p] /\ frame[p].op = "stream"
            \/ pc'[p] = "idle"
         /\ UNCHANGED <<requests, cache, lastId, closed, contracts, handles, cancelled>>
         /\ outcomes' = Recorded(PolledOutcome(p))
<1>1. \/ Goto(p, "polling", frame[p]) /\ frame[p].op = "stream"
      \/ Goto(p, "idle", Blank(SomeUrl))
  BY DEF PollReturns, Return
<1>2. /\ OwnStep(p)
      /\ \/ pc'[p] = "polling" /\ frame'[p] = frame[p] /\ frame[p].op = "stream"
         \/ pc'[p] = "idle"
  BY <1>1, MoveEffect DEF PollReturns, Consume, serverVars
<1>3. QED
  BY <1>2 DEF PollReturns, Consume

LEMMA ReceiveManifestEffect ==
  ASSUME TypeOK, NEW p \in Callers, ReceiveManifest(p), UNCHANGED <<serverVars, now>>
  PROVE  /\ OwnStep(p)
         /\ pc[p] = "hello" /\ pc'[p] = "propose"
         /\ UNCHANGED <<cache, closed>>
         /\ lastId' = lastId + 1 /\ Held(p)' = lastId'
         /\ frame'[p].op = frame[p].op
         /\ \A r \in requests' \ requests :
              r.msg.type = "session_propose" /\ r.msg.signature = ClientSecret
<1> DEFINE id == lastId + 1
           mode == ClientNegotiates(ManifestModes(replies[p]))
           msg == [type |-> "session_propose", session_id |-> id, payload_mode |-> mode,
                   ttl_secs |-> TtlSecs, trust_domain |-> ClientDomain.name,
                   signature |-> ClientSecret]
           locals == [frame[p] EXCEPT !.session.session_id = id, !.session.payload_mode = mode]
<1>1. Post(p, frame[p].url, msg) /\ Goto(p, "propose", locals) /\ lastId' = id
  BY DEF ReceiveManifest
<1>2. AwaitOf[msg.type] = "propose"
  BY DEF AwaitOf
<1> HIDE DEF id, msg, mode
<1>3. /\ locals.op = frame[p].op /\ locals.url = frame[p].url
      /\ locals.session.session_id = id
  BY FrameFields DEF TypeOK, Frame, Session
<1> HIDE DEF locals
<1>4. /\ OwnStep(p) /\ pc'[p] = "propose" /\ frame'[p] = locals
      /\ requests' = requests \cup {Request(p, frame[p].url, msg)}
  BY <1>1, <1>2, <1>3, PostEffect DEF serverVars
<1>5. QED
  BY <1>1, <1>3, <1>4 DEF ReceiveManifest, Held, Request, id, msg

LEMMA ReceiveAcceptEffect ==
  ASSUME TypeOK, NEW p \in Callers, ReceiveAccept(p), UNCHANGED <<serverVars, now>>
  PROVE  /\ OwnStep(p)
         /\ pc[p] = "propose" /\ pc'[p] = "caching" /\ Answered(p, "session_accept")
         /\ UNCHANGED <<requests, cache, lastId, closed>>
         /\ Held(p)' = replies[p].session_id
         /\ frame'[p].op = frame[p].op
         /\ frame'[p].url = frame[p].url
<1> DEFINE session == [session_id |-> replies[p].session_id,
                       payload_mode |-> frame[p].session.payload_mode,
                       last_used |-> now, task_count |-> 0]
           locals == [frame[p] EXCEPT !.session = session]
<1>1. Goto(p, "caching", locals)
  BY FrameFields DEF ReceiveAccept, TypeOK, Frame
<1>2. session.session_id = replies[p].session_id
  OBVIOUS
<1> HIDE DEF session
<1>3. locals.op = frame[p].op /\ locals.url = frame[p].url /\ locals.session = session
  BY FrameFields DEF TypeOK, Frame
<1> HIDE DEF locals
<1>4. OwnStep(p) /\ pc'[p] = "caching" /\ frame'[p] = locals
  BY <1>1, MoveEffect DEF ReceiveAccept, Consume, serverVars
<1>5. QED
  BY <1>2, <1>3, <1>4 DEF ReceiveAccept, Consume, Held

LEMMA CacheSessionEffect ==
  ASSUME TypeOK, NEW p \in Callers, CacheSession(p), UNCHANGED <<serverVars, now>>
  PROVE  /\ OwnStep(p)
         /\ pc[p] = "caching" /\ pc'[p] = "established" /\ frame'[p] = frame[p]
         /\ UNCHANGED <<requests, lastId, closed>>
         /\ cache' = [cache EXCEPT ![frame[p].url] = frame[p].session]
<1>1. OwnStep(p) /\ pc'[p] = "established" /\ frame'[p] = frame[p]
  BY MoveEffect DEF CacheSession, transportVars, serverVars
<1>2. QED
  BY <1>1 DEF CacheSession, transportVars

(* close(u), and one round of close_all. *)
LEMMA RemoveAndSendCloseEffect ==
  ASSUME TypeOK, NEW p \in Callers, NEW u \in Urls, NEW rest, RemoveAndSendClose(p, u, rest),
         UNCHANGED <<serverVars, now>>
  PROVE  /\ OwnStep(p)
         /\ pc'[p] = "close" /\ frame'[p].url = u /\ frame'[p].session = cache[u]
         /\ UNCHANGED lastId
         /\ Cached(u) /\ cache' = [cache EXCEPT ![u] = NoSession]
         /\ \A r \in requests' \ requests :
              r.msg.type = "session_close" /\ r.msg.session_id = cache[u].session_id
<1> DEFINE msg == [type |-> "session_close", session_id |-> cache[u].session_id,
                   signature |-> NoSecret]
           locals == [frame[p] EXCEPT !.op = "close", !.url = u, !.session = cache[u],
                                      !.closing = rest]
<1>1. Post(p, u, msg) /\ Goto(p, "close", locals)
  BY DEF RemoveAndSendClose
<1>2. AwaitOf[msg.type] = "close"
  BY DEF AwaitOf
<1> HIDE DEF msg
<1>3. locals.url = u /\ locals.session = cache[u]
  BY FrameFields DEF TypeOK, Frame
<1> HIDE DEF locals
<1>4. /\ OwnStep(p) /\ pc'[p] = "close" /\ frame'[p] = locals
      /\ requests' = requests \cup {Request(p, u, msg)}
  BY <1>1, <1>2, <1>3, PostEffect DEF serverVars
<1>5. QED
  BY <1>3, <1>4 DEF RemoveAndSendClose, Request, msg

Sends(p) == \E u \in Urls, rest \in SUBSET Urls : RemoveAndSendClose(p, u, rest)

LEMMA CloseReturnsEffect ==
  ASSUME TypeOK, NEW p \in Callers, CloseReturns(p), UNCHANGED <<serverVars, now>>
  PROVE  /\ OwnStep(p)
         /\ pc[p] = "close" /\ pc'[p] \in {"idle", "closing"} /\ ~Answered(p, "none")
         /\ UNCHANGED <<requests, cache, lastId>>
         /\ closed' = closed \cup {[url |-> frame[p].url, session_id |-> Held(p)]}
<1> DEFINE locals == [Blank(SomeUrl) EXCEPT !.op = "close", !.closing = frame[p].closing]
<1>1. Goto(p, "closing", locals) \/ Goto(p, "idle", Blank(SomeUrl))
  BY DEF CloseReturns, Return
<1> HIDE DEF locals
<1>2. OwnStep(p) /\ pc'[p] \in {"idle", "closing"}
  BY <1>1, MoveEffect DEF CloseReturns, Consume, serverVars
<1>3. QED
  BY <1>2 DEF CloseReturns, Consume, Held

(* Steps that end an operation, or go round in close_all. *)
Passes(p) ==
  \/ SubmitFails(p)
  \/ CancelReturns(p)
  \/ HandshakeFails(p) /\ UNCHANGED adapterVars
  \/ CloseAll(p) /\ UNCHANGED adapterVars
  \/ CloseSkips(p) /\ UNCHANGED adapterVars
  \/ CloseAllReturns(p) /\ UNCHANGED adapterVars

LEMMA PassesEffect ==
  ASSUME TypeOK, NEW p \in Callers, Passes(p), UNCHANGED <<serverVars, now>>
  PROVE  /\ OwnStep(p)
         /\ pc'[p] \in {"idle", "closing"}
         /\ UNCHANGED <<requests, cache, lastId, closed, adapterVars>>
<1>1. CASE SubmitFails(p) \/ CancelReturns(p) \/ HandshakeFails(p)
  <2>1. /\ Goto(p, "idle", Blank(SomeUrl))
        /\ UNCHANGED requests /\ replies' = [replies EXCEPT ![p] = NoReply]
    BY <1>1 DEF SubmitFails, CancelReturns, HandshakeFails, Return, Consume
  <2>2. OwnStep(p) /\ pc'[p] = "idle"
    BY <2>1, MoveEffect DEF serverVars
  <2>3. QED
    BY <1>1, <2>1, <2>2 DEF Passes, SubmitFails, CancelReturns, HandshakeFails, CloseAll,
       CloseSkips, CloseAllReturns
<1>2. CASE CloseAll(p) \/ CloseSkips(p) \/ CloseAllReturns(p)
  <2>1. /\ \/ Goto(p, "idle", Blank(SomeUrl))
           \/ \E locals : Goto(p, "closing", locals)
        /\ UNCHANGED <<requests, replies>>
    BY <1>2 DEF CloseAll, CloseSkips, CloseAllReturns, Return, transportVars
  <2>2. OwnStep(p) /\ pc'[p] \in {"idle", "closing"}
    BY <2>1, MoveEffect DEF serverVars
  <2>3. QED
    BY <1>2, <2>1, <2>2 DEF Passes, SubmitFails, CancelReturns, HandshakeFails, CloseAll,
       CloseSkips, CloseAllReturns
<1>3. QED
  BY <1>1, <1>2 DEF Passes

(* Every step of a client task is one of these. *)
LEMMA ClientSteps ==
  ASSUME TypeOK, NEW p \in Callers, StartStep(p) \/ CallerStep(p)
  PROVE  /\ UNCHANGED <<serverVars, now>>
         /\ \/ InvokeCached(p) \/ InvokeNew(p) \/ PollStatus(p) \/ CancelTask(p)
            \/ SubmitTask(p) \/ SubmitReturns(p) \/ TouchSession(p)
            \/ PollStream(p) \/ PollReturns(p)
            \/ ReceiveManifest(p) /\ UNCHANGED adapterVars
            \/ ReceiveAccept(p) /\ UNCHANGED adapterVars
            \/ CacheSession(p) /\ UNCHANGED adapterVars
            \/ /\ Sends(p) /\ pc[p] \in {"idle", "closing"}
               /\ UNCHANGED adapterVars /\ UNCHANGED closed
            \/ CloseReturns(p) /\ UNCHANGED adapterVars
            \/ Passes(p)
<1>1. CASE StartStep(p)
  <2>1. CallerStarts(p) /\ UNCHANGED <<serverVars, now>>
    BY <1>1 DEF StartStep, CallerStarts, InvokeCached, InvokeNew, PollStatus, CancelTask
  <2>2. ASSUME NEW u \in Urls, Close(p, u)
        PROVE  Sends(p) /\ pc[p] \in {"idle", "closing"} /\ UNCHANGED closed
    BY <2>2 DEF Close, Sends, Begin
  <2>3. QED
    BY <2>1, <2>2 DEF CallerStarts, Passes
<1>2. CASE CallerStep(p)
  <2>1. CallerContinues(p) /\ UNCHANGED <<serverVars, now>>
    BY <1>2 DEF CallerStep
  <2>2. ASSUME CloseNext(p)
        PROVE  Sends(p) /\ pc[p] \in {"idle", "closing"} /\ UNCHANGED closed
    <3>1. PICK u \in frame[p].closing : RemoveAndSendClose(p, u, frame[p].closing \ {u})
      BY <2>2 DEF CloseNext
    <3>2. u \in Urls /\ frame[p].closing \ {u} \in SUBSET Urls
      BY <3>1, FrameFields DEF TypeOK
    <3>3. QED
      BY <2>2, <3>1, <3>2 DEF CloseNext, Sends
  <2>3. QED
    BY <2>1, <2>2 DEF CallerContinues, ManagerStep, Passes
<1>3. QED
  BY <1>1, <1>2

-------------------------------------------------------------------------------
(* What the delegate's steps and a failing connection do *)

(* The request's caller, if it still listens, waits for just this answer. *)
LEMMA Awaiting ==
  ASSUME TypeOK, SessionInv, NEW r \in requests, r.conn \in Callers
  PROVE  /\ pc[r.conn] = AwaitOf[r.msg.type]
         /\ frame[r.conn].url = r.to
         /\ r.msg.type = "session_propose" => pc[r.conn] = "propose"
         /\ r.msg.type = "task_submit" => pc[r.conn] = "submit"
         /\ r.msg.type = "session_close" => pc[r.conn] = "close"
         /\ r.msg.type = "task_update" => pc[r.conn] = "polled"
         /\ r.msg.type \in {"hello", "task_cancel"} => pc[r.conn] \in {"hello", "cancel"}
BY DEF SessionInv, RequestsAwaited, AwaitOf

(* A request is answered and gone. *)
Answers(r, reply) ==
  /\ requests' = requests \ {r}
  /\ \A p \in Callers : p # r.conn => replies'[p] = replies[p]
  /\ r.conn \in Callers => replies'[r.conn] = reply

(* The request of a task changes stage; its reply comes with the next one. *)
LEMMA RunTaskEffect ==
  ASSUME TypeOK, NEW r \in requests, RunTask(r)
  PROVE  /\ r.msg.type = "task_submit" /\ Admitted(r.to, r.msg)
         /\ UNCHANGED <<replies, sessions, ended>>
         /\ \E new : /\ requests' = (requests \ {r}) \cup {new}
                     /\ new.conn = r.conn /\ new.to = r.to /\ new.msg = r.msg
                     /\ new.stage = "executed"
         /\ \A u \in Urls : u # r.to => tasks'[u] = tasks[u]
         /\ tasks'[r.to] = WithoutTask(r.to, r.msg.task_id)
                             \cup {[task_id |-> r.msg.task_id, state |-> "completed"]}
<1>1. [r EXCEPT !.stage = "executed"] =
        [conn |-> r.conn, to |-> r.to, stage |-> "executed", msg |-> r.msg]
  BY RequestFields
<1>2. QED
  BY <1>1, RequestFields DEF RunTask, Takes, Advance, TypeOK, ServerTypeOK

LEMMA AcceptSessionEffect ==
  ASSUME TypeOK, NEW r \in requests, AcceptSession(r)
  PROVE  /\ r.msg.type = "session_propose" /\ Trusting(r.to)
         /\ UNCHANGED <<tasks, ended>>
         /\ \E reply : Answers(r, reply) /\ reply.type = "session_accept"
         /\ \A u \in Urls : u # r.to => sessions'[u] = sessions[u]
         /\ \E s : /\ s.session_id = r.msg.session_id
                   /\ sessions'[r.to] = WithoutSession(r.to, r.msg.session_id) \cup {s}
<1> DEFINE mode == ServerNegotiates(r.to, RequestedMode(r.msg))
           s == [session_id |-> r.msg.session_id, payload_mode |-> mode,
                 ttl_secs |-> r.msg.ttl_secs, last_used |-> now]
           reply == [type |-> "session_accept", session_id |-> r.msg.session_id,
                     negotiated_mode |-> mode]
<1>1. /\ Answer(r, reply) /\ UNCHANGED <<tasks, ended>>
      /\ sessions' = [sessions EXCEPT
                        ![r.to] = WithoutSession(r.to, r.msg.session_id) \cup {s}]
      /\ r.msg.type = "session_propose"
      /\ Trusts(ServerDomain[r.to], r.msg.trust_domain)
  BY DEF AcceptSession, Takes
<1>2. Trusting(r.to)
  BY <1>1, RequestFields DEF Trusting, Message
<1>3. reply.type = "session_accept" /\ s.session_id = r.msg.session_id
  OBVIOUS
<1> HIDE DEF mode, reply, s
<1>4. Answers(r, reply)
  BY <1>1, AnswerEffect DEF Answers
<1>5. QED
  BY <1>1, <1>2, <1>3, <1>4, RequestFields DEF TypeOK, ServerTypeOK

LEMMA HandleSessionCloseEffect ==
  ASSUME TypeOK, NEW r \in requests, HandleSessionClose(r)
  PROVE  /\ r.msg.type = "session_close"
         /\ UNCHANGED tasks
         /\ \E reply : Answers(r, reply) /\ reply.type = "session_close"
         /\ \A u \in Urls : u # r.to => sessions'[u] = sessions[u] /\ ended'[u] = ended[u]
         /\ sessions'[r.to] = WithoutSession(r.to, r.msg.session_id)
         /\ ended'[r.to] = ended[r.to] \cup (SessionIds(r.to) \cap {r.msg.session_id})
<1>1. Answers(r, [type |-> "session_close"])
  BY AnswerEffect DEF HandleSessionClose, Answers
<1>2. QED
  BY <1>1, RequestFields DEF HandleSessionClose, Takes, TypeOK, ServerTypeOK

LEMMA ReturnResultEffect ==
  ASSUME TypeInv, NEW r \in requests, ReturnResult(r)
  PROVE  /\ r.stage = "executed" /\ r.msg.type = "task_submit"
         /\ UNCHANGED <<sessions, tasks, ended>>
         /\ \E reply : /\ Answers(r, reply) /\ reply.type = "task_result"
                       /\ reply.payload_mode = SessionMode(r.to, r.msg.session_id)
<1> DEFINE reply == [type |-> "task_result", task_id |-> r.msg.task_id,
                     payload_mode |-> SessionMode(r.to, r.msg.session_id),
                     mode_used |-> ProvenanceModeUsed]
<1>1. Answer(r, reply)
  BY DEF ReturnResult
<1>2. reply.type = "task_result" /\ reply.payload_mode = SessionMode(r.to, r.msg.session_id)
  OBVIOUS
<1> HIDE DEF reply
<1>3. Answers(r, reply)
  BY <1>1, AnswerEffect DEF Answers, TypeInv
<1>4. QED
  BY <1>2, <1>3 DEF ReturnResult, TypeInv, ExecutedAreSubmissions, serverVars

LEMMA HandleTaskStatusQueryEffect ==
  ASSUME TypeOK, NEW r \in requests, HandleTaskStatusQuery(r)
  PROVE  /\ r.msg.type = "task_update"
         /\ UNCHANGED <<sessions, tasks, ended>>
         /\ \E reply :
              /\ Answers(r, reply)
              /\ reply.type \in {"error", "task_result", "task_failed", "task_update"}
              /\ r.msg.task_id \in TaskIds(r.to) =>
                   reply = StatusReply(CHOOSE t \in tasks[r.to] : t.task_id = r.msg.task_id)
<1>1. PICK reply :
        /\ Answer(r, reply)
        /\ reply.type \in {"error", "task_result", "task_failed", "task_update"}
        /\ r.msg.task_id \in TaskIds(r.to) =>
             reply = StatusReply(CHOOSE t \in tasks[r.to] : t.task_id = r.msg.task_id)
  BY DEF HandleTaskStatusQuery, Failure, StatusReply
<1>2. Answers(r, reply)
  BY <1>1, AnswerEffect DEF Answers
<1>3. QED
  BY <1>1, <1>2 DEF HandleTaskStatusQuery, Takes, serverVars

LEMMA HandleTaskCancelEffect ==
  ASSUME TypeOK, NEW r \in requests, HandleTaskCancel(r)
  PROVE  /\ r.msg.type = "task_cancel"
         /\ UNCHANGED <<sessions, ended>>
         /\ \E reply : Answers(r, reply) /\ reply.type = "task_failed"
         /\ \A u \in Urls : u # r.to => tasks'[u] = tasks[u]
         /\ tasks'[r.to] = WithoutTask(r.to, r.msg.task_id)
<1>1. Answers(r, [type |-> "task_failed", task_id |-> r.msg.task_id])
  BY AnswerEffect DEF HandleTaskCancel, Answers
<1>2. QED
  BY <1>1, RequestFields DEF HandleTaskCancel, Takes, TypeOK, ServerTypeOK

(* The answers that leave the delegate as it is and end nothing. *)
Declines(r) == Refuse(r) \/ HandleHello(r) \/ RejectSession(r)

LEMMA DeclinesEffect ==
  ASSUME TypeOK, NEW r \in requests, Declines(r)
  PROVE  /\ UNCHANGED <<sessions, tasks, ended>>
         /\ \E reply : /\ Answers(r, reply)
                       /\ \/ reply.type = "error" /\ ~Admitted(r.to, r.msg)
                          \/ /\ reply.type = "capability_manifest"
                             /\ r.msg.type = "hello"
                          \/ /\ reply.type = "session_reject"
                             /\ r.msg.type = "session_propose"
<1>1. r.msg.type \in HandledTypes
  BY RequestFields, MessageFields
<1>2. PICK reply : /\ Answer(r, reply)
                   /\ \/ reply.type = "error" /\ ~Admitted(r.to, r.msg)
                      \/ reply.type = "capability_manifest" /\ r.msg.type = "hello"
                      \/ reply.type = "session_reject" /\ r.msg.type = "session_propose"
  BY <1>1 DEF Declines, Refuse, HandleHello, RejectSession, Takes, Failure
<1>3. QED
  BY <1>2, AnswerEffect DEF Answers, Declines, Refuse, HandleHello, RejectSession, serverVars

(* Every step of a delegate is one of these. *)
LEMMA DelegateSteps ==
  ASSUME NEW conn \in Callers \cup {NoConn}, ServerStep(conn)
  PROVE  /\ UNCHANGED <<clientVars, now>>
         /\ \E r \in requests :
              \/ Declines(r) \/ AcceptSession(r) \/ HandleSessionClose(r)
              \/ RunTask(r) \/ ReturnResult(r)
              \/ HandleTaskStatusQuery(r) \/ HandleTaskCancel(r)
BY DEF ServerStep, Serve, HandleMessage, Declines

LEMMA NetworkEffect ==
  ASSUME TypeOK, SessionInv, NEW p \in Callers, NetworkStep(p)
  PROVE  /\ UNCHANGED <<serverVars, clientVars, now>>
         /\ NetworkFails
         /\ \A q \in Callers \ {p} : replies'[q] = replies[q]
         /\ replies'[p] = Failure
         /\ \A r \in requests' : r \in requests \/
              \E s \in requests : /\ s.conn = p /\ r.conn = NoConn /\ r.to = s.to
                                  /\ r.stage = s.stage /\ r.msg = s.msg
<1>1. \A s \in requests :
        [s EXCEPT !.conn = NoConn] =
          [conn |-> NoConn, to |-> s.to, stage |-> s.stage, msg |-> s.msg]
  BY RequestFields
<1>2. QED
  BY <1>1 DEF NetworkStep, ConnectionFails, TypeOK, TransportTypeOK

-------------------------------------------------------------------------------
(* Trust *)

LEMMA TrustClient ==
  ASSUME TypeOK, TrustInv, NEW p \in Callers, StartStep(p) \/ CallerStep(p)
  PROVE  TrustInv'
<1> USE DEF TrustInv, Trusting
<1>0. UNCHANGED <<serverVars, now>>
  BY ClientSteps
<1>1. ASSUME OwnStep(p),
             \A u \in Urls : Cached(u)' => Cached(u) \/ Trusting(u),
             pc'[p] \notin {"propose", "caching", "established", "submit", "submitted"}
               \/ pc'[p] = "propose" \/ Trusting(frame'[p].url),
             pc'[p] = "submit" => Trusting(frame'[p].url)
      PROVE  TrustInv'
  <2>1. OnlyTrustingDelegates'
    BY <1>1 DEF OnlyTrustingDelegates, OwnStep
  <2>2. \A q \in Callers :
          \/ pc'[q] \in {"caching", "established", "submit", "submitted"}
          \/ pc'[q] = "propose" /\ Answered(q, "session_accept")'
          => Trusting(frame'[q].url)
    BY <1>1 DEF OwnStep, OthersKeep, Answered, NoReply
  <2>3. \A r \in requests' : r.msg.type = "task_submit" => Trusting(r.to)
    BY <1>1 DEF OwnStep, AwaitOf
  <2>4. QED
    BY <2>1, <2>2, <2>3
<1>2. CASE InvokeCached(p)
  BY <1>0, <1>1, <1>2, InvokeCachedEffect DEF OnlyTrustingDelegates, Cached
<1>3. CASE InvokeNew(p) \/ PollStatus(p) \/ CancelTask(p)
  BY <1>0, <1>1, <1>3, InvokeNewEffect, PollStatusEffect, CancelTaskEffect DEF Cached
<1>4. CASE SubmitTask(p)
  BY <1>0, <1>1, <1>4, SubmitTaskEffect DEF Cached
<1>5. CASE SubmitReturns(p)
  BY <1>0, <1>1, <1>5, SubmitReturnsEffect DEF Cached
<1>6. CASE TouchSession(p) \/ PollStream(p) \/ PollReturns(p)
  BY <1>0, <1>1, <1>6, TouchSessionEffect, PollStreamEffect, PollReturnsEffect
     DEF Cached, CacheKeeps
<1>7. CASE ReceiveManifest(p)
  BY <1>0, <1>1, <1>7, ReceiveManifestEffect DEF Cached
<1>8. CASE ReceiveAccept(p)
  BY <1>0, <1>1, <1>8, ReceiveAcceptEffect DEF Cached
<1>9. CASE CacheSession(p)
  <2>1. Trusting(frame[p].url)
    BY <1>0, <1>9, CacheSessionEffect
  <2>2. \A u \in Urls : Cached(u)' => Cached(u) \/ Trusting(u)
    BY <1>0, <1>9, <2>1, CacheSessionEffect DEF Cached, TypeOK, ManagerTypeOK
  <2>3. QED
    BY <1>0, <1>1, <1>9, <2>1, <2>2, CacheSessionEffect
<1>10. CASE Sends(p)
  <2>1. PICK u \in Urls, rest \in SUBSET Urls : RemoveAndSendClose(p, u, rest)
    BY <1>10 DEF Sends
  <2>2. \A v \in Urls : Cached(v)' => Cached(v)
    BY <1>0, <2>1, RemoveAndSendCloseEffect DEF Cached, TypeOK, ManagerTypeOK, NoSession
  <2>3. QED
    BY <1>0, <1>1, <2>1, <2>2, RemoveAndSendCloseEffect
<1>11. CASE CloseReturns(p) \/ Passes(p)
  BY <1>0, <1>1, <1>11, CloseReturnsEffect, PassesEffect DEF Cached
<1>12. QED
  BY <1>2, <1>3, <1>4, <1>5, <1>6, <1>7, <1>8, <1>9, <1>10, <1>11, ClientSteps

LEMMA TrustServer ==
  ASSUME TypeInv, SessionInv, TrustInv, NEW conn \in Callers \cup {NoConn}, ServerStep(conn)
  PROVE  TrustInv'
<1> USE DEF TrustInv, Trusting, TypeInv
<1>0. UNCHANGED <<cache, pc, frame>>
  BY DelegateSteps DEF clientVars, managerVars
<1>1. ASSUME NEW r \in requests, NEW reply, Answers(r, reply),
             reply.type = "session_accept" => Trusting(r.to),
             \A u \in Urls : tasks'[u] # {} => tasks[u] # {}
      PROVE  TrustInv'
  <2>1. OnlyTrustingDelegates'
    BY <1>0, <1>1 DEF OnlyTrustingDelegates, Cached
  <2>2. \A q \in Callers :
          \/ pc'[q] \in {"caching", "established", "submit", "submitted"}
          \/ pc'[q] = "propose" /\ Answered(q, "session_accept")'
          => Trusting(frame'[q].url)
    BY <1>0, <1>1, Awaiting DEF Answers, Answered
  <2>3. \A r2 \in requests' : r2.msg.type = "task_submit" => Trusting(r2.to)
    BY <1>1 DEF Answers
  <2>4. QED
    BY <2>1, <2>2, <2>3
<1>2. PICK r \in requests :
        \/ Declines(r) \/ AcceptSession(r) \/ HandleSessionClose(r)
        \/ RunTask(r) \/ ReturnResult(r)
        \/ HandleTaskStatusQuery(r) \/ HandleTaskCancel(r)
  BY DelegateSteps
<1>3. CASE RunTask(r)
  <2>1. Trusting(r.to)
    BY <1>3, RunTaskEffect
  <2>2. OnlyTrustingDelegates'
    BY <1>0, <1>3, <2>1, RunTaskEffect DEF OnlyTrustingDelegates, Cached
  <2>3. \A r2 \in requests' : r2.msg.type = "task_submit" => Trusting(r2.to)
    BY <1>3, <2>1, RunTaskEffect
  <2>4. QED
    BY <1>0, <1>3, <2>2, <2>3, RunTaskEffect DEF Answered
<1>4. CASE Declines(r) \/ HandleSessionClose(r) \/ ReturnResult(r) \/ HandleTaskStatusQuery(r)
  BY <1>1, <1>4, DeclinesEffect, HandleSessionCloseEffect, ReturnResultEffect,
     HandleTaskStatusQueryEffect
<1>5. CASE AcceptSession(r)
  BY <1>1, <1>5, AcceptSessionEffect
<1>6. CASE HandleTaskCancel(r)
  <2>1. \A u \in Urls : tasks'[u] # {} => tasks[u] # {}
    BY <1>6, HandleTaskCancelEffect DEF WithoutTask
  <2>2. QED
    BY <1>1, <1>6, <2>1, HandleTaskCancelEffect
<1>7. QED
  BY <1>2, <1>3, <1>4, <1>5, <1>6

LEMMA InitTrust == Init => TrustInv
BY DEF Init, TransportInit, ServerInit, ManagerInit, TrustInv, OnlyTrustingDelegates, Cached,
       NoSession

LEMMA NextTrust == TypeInv /\ SessionInv /\ TrustInv /\ [Next]_vars => TrustInv'
<1> SUFFICES ASSUME TypeInv, SessionInv, TrustInv, [Next]_vars PROVE TrustInv'
  OBVIOUS
<1>1. ASSUME NEW p \in Callers, NetworkStep(p) PROVE TrustInv'
  BY <1>1, NetworkEffect
  DEF TrustInv, Trusting, OnlyTrustingDelegates, Cached, Answered, Failure, TypeInv,
      serverVars, clientVars, managerVars
<1>2. CASE ClockStep \/ Finished \/ UNCHANGED vars
  BY <1>2
  DEF ClockStep, Tick, Finished, vars, TrustInv, Trusting, OnlyTrustingDelegates, Cached,
      Answered, transportVars, serverVars, clientVars, managerVars
<1>3. QED
  BY <1>1, <1>2, TrustClient, TrustServer DEF Next, TypeInv

(* A delegate that does not trust the client's domain never gets a session *)
(* into the client's cache, nor runs a task of the client's, in any order  *)
(* of messages: one missing check between the proposal and the task would  *)
(* be enough.                                                               *)
THEOREM TrustingDelegatesOnly == Spec => []OnlyTrustingDelegates
<1>1. TrustInv => OnlyTrustingDelegates
  BY DEF TrustInv
<1>2. QED
  BY <1>1, TypesAlwaysOK, SessionInvariant, InitTrust, NextTrust, PTL DEF Spec

-------------------------------------------------------------------------------
(* The mode of results *)

LEMMA OwnQuiet ==
  ASSUME TypeOK, SessionInv, NEW p \in Callers, StartStep(p) \/ CallerStep(p)
  PROVE  Quiet(p)
<1>0. UNCHANGED <<serverVars, now>>
  BY ClientSteps
<1>1. CASE InvokeCached(p) \/ InvokeNew(p) \/ PollStatus(p) \/ CancelTask(p)
  BY <1>1, Quieted
  DEF InvokeCached, InvokeNew, PollStatus, CancelTask, Start, Begin
<1>2. CASE SubmitTask(p) \/ TouchSession(p) \/ PollStream(p) \/ CacheSession(p)
  BY <1>2, Quieted DEF SubmitTask, TouchSession, PollStream, CacheSession
<1>3. CASE SubmitReturns(p) \/ PollReturns(p) \/ CloseReturns(p)
  BY <1>3, Quieted DEF SubmitReturns, PollReturns, CloseReturns, Answered, NoReply
<1>4. CASE ReceiveManifest(p) \/ ReceiveAccept(p)
  BY <1>4, Quieted DEF ReceiveManifest, ReceiveAccept, Answered, NoReply
<1>5. CASE SubmitFails(p) \/ CancelReturns(p) \/ HandshakeFails(p)
  BY <1>5, Quieted DEF SubmitFails, CancelReturns, HandshakeFails, Answered, NoReply
<1>6. CASE CloseAll(p) \/ CloseSkips(p) \/ CloseAllReturns(p)
  BY <1>6, Quieted DEF CloseAll, Begin, CloseSkips, CloseAllReturns
<1>7. QED
  BY <1>1, <1>2, <1>3, <1>4, <1>5, <1>6, ClientSteps, Quieted DEF Passes

LEMMA ModeClient ==
  ASSUME TypeOK, SessionInv, ModeInv, NEW p \in Callers, StartStep(p) \/ CallerStep(p)
  PROVE  ModeInv'
<1> USE DEF ModeInv
<1>0. UNCHANGED <<serverVars, now>> /\ Quiet(p)
  BY ClientSteps, OwnQuiet
<1>1. ASSUME OwnStep(p),
             pc'[p] \in {"established", "submit"} =>
               \/ OpenAt(frame'[p].url, frame'[p].session)
               \/ frame'[p].session.session_id \in ended[frame'[p].url],
             \A r \in requests' \ requests : r.msg.type = "task_submit" =>
               r.msg.session_id = frame'[p].session.session_id
      PROVE  ModeInv'
  <2>1. \A u \in Urls : \A s, t \in sessions'[u] : s.session_id = t.session_id => s = t
    BY <1>1 DEF OwnStep
  <2>2. \A q \in Callers : pc'[q] \in {"established", "submit"} =>
          \/ OpenAt(frame[q].url, frame[q].session)'
          \/ frame'[q].session.session_id \in ended'[frame'[q].url]
    BY <1>1 DEF OwnStep, OthersKeep, OpenAt
  <2>3. \A r \in requests' : r.msg.type = "task_submit" /\ r.conn # NoConn =>
          r.msg.session_id = frame'[r.conn].session.session_id
    BY <1>0, <1>1, RequestFields DEF OwnStep, OthersKeep, Quiet
  <2>4. ResultInSessionMode'
    BY <1>1 DEF ResultInSessionMode, OwnStep, OthersKeep, Answered, NoReply
  <2>5. QED
    BY <2>1, <2>2, <2>3, <2>4
<1>2. CASE InvokeCached(p)
  <2>1. PICK u \in Urls : Cached(u) /\ frame'[p].url = u /\ frame'[p].session = cache[u]
    BY <1>0, <1>2, InvokeCachedEffect
  <2>2. OpenAt(u, cache[u])
    BY <2>1 DEF SessionInv, CachedSessionLive, OpenAt
  <2>3. QED
    BY <1>0, <1>1, <1>2, <2>1, <2>2, InvokeCachedEffect
<1>3. CASE InvokeNew(p) \/ PollStatus(p) \/ CancelTask(p)
  <2>1. \A r \in requests' \ requests : r.msg.type # "task_submit"
    BY <1>0, <1>3, InvokeNewEffect, PollStatusEffect, CancelTaskEffect
  <2>2. OwnStep(p) /\ pc'[p] \in {"hello", "polled", "cancel"}
    BY <1>0, <1>3, InvokeNewEffect, PollStatusEffect, CancelTaskEffect
  <2>3. QED
    BY <1>1, <2>1, <2>2
<1>4. CASE SubmitTask(p)
  <2>1. /\ OwnStep(p) /\ pc[p] = "established"
        /\ frame'[p].url = frame[p].url /\ frame'[p].session = frame[p].session
    BY <1>0, <1>4, SubmitTaskEffect
  <2>2. \A r \in requests' \ requests : r.msg.session_id = frame[p].session.session_id
    BY <1>0, <1>4, SubmitTaskEffect
  <2>3. QED
    BY <1>1, <2>1, <2>2
<1>5. CASE SubmitReturns(p) \/ TouchSession(p) \/ PollStream(p) \/ PollReturns(p)
  <2>1. \A r \in requests' \ requests : r.msg.type # "task_submit"
    BY <1>0, <1>5, SubmitReturnsEffect, TouchSessionEffect, PollStreamEffect,
       PollReturnsEffect
  <2>2. OwnStep(p) /\ pc'[p] \in {"submitted", "idle", "polling", "polled"}
    BY <1>0, <1>5, SubmitReturnsEffect, TouchSessionEffect, PollStreamEffect,
       PollReturnsEffect
  <2>3. QED
    BY <1>1, <2>1, <2>2
<1>6. CASE ReceiveManifest(p) \/ ReceiveAccept(p)
  BY <1>0, <1>1, <1>6, ReceiveManifestEffect, ReceiveAcceptEffect
<1>7. CASE CacheSession(p)
  <2>1. OpenAt(frame[p].url, frame[p].session)
    BY <1>0, <1>7, CacheSessionEffect DEF SessionInv, HandshakeLive
  <2>2. QED
    BY <1>0, <1>1, <1>7, <2>1, CacheSessionEffect
<1>8. CASE Sends(p)
  BY <1>0, <1>1, <1>8, RemoveAndSendCloseEffect DEF Sends
<1>9. CASE CloseReturns(p) \/ Passes(p)
  BY <1>0, <1>1, <1>9, CloseReturnsEffect, PassesEffect
<1>10. QED
  BY <1>2, <1>3, <1>4, <1>5, <1>6, <1>7, <1>8, <1>9, ClientSteps

(* The mode of the one session with this identifier. *)
LEMMA SessionModeOpen ==
  ASSUME ModeInv, NEW u \in Urls, NEW s \in sessions[u]
  PROVE  SessionMode(u, s.session_id) = s.payload_mode
<1>1. s.session_id \in SessionIds(u)
  BY DEF SessionIds
<1>2. (CHOOSE t \in sessions[u] : t.session_id = s.session_id) = s
  BY DEF ModeInv
<1>3. QED
  BY <1>1, <1>2 DEF SessionMode

LEMMA ModeServer ==
  ASSUME TypeInv, SessionInv, ModeInv, NEW conn \in Callers \cup {NoConn}, ServerStep(conn)
  PROVE  ModeInv'
<1> USE DEF ModeInv, TypeInv
<1>0. UNCHANGED <<pc, frame>>
  BY DelegateSteps DEF clientVars, managerVars
<1>1. \A p \in Callers : frame[p].url \in Urls
  BY FrameFields DEF TypeOK
<1> DEFINE Used(u, session) ==
             OpenAt(u, session) \/ session.session_id \in ended[u]
<1>2. ASSUME NEW r \in requests, NEW reply, Answers(r, reply),
             \A u \in Urls : \A s, t \in sessions'[u] : s.session_id = t.session_id => s = t,
             \A u \in Urls : \A session : Used(u, session) => Used(u, session)',
             \A u \in Urls : ended[u] \subseteq ended'[u],
             r.conn \in Callers /\ reply.type = "task_result" /\ pc[r.conn] = "submit" =>
               \/ reply.payload_mode = frame[r.conn].session.payload_mode
               \/ frame[r.conn].session.session_id \in ended'[frame[r.conn].url]
      PROVE  ModeInv'
  <2>1. \A q \in Callers : pc'[q] \in {"established", "submit"} =>
          \/ OpenAt(frame[q].url, frame[q].session)'
          \/ frame'[q].session.session_id \in ended'[frame'[q].url]
    BY <1>0, <1>1, <1>2
  <2>2. \A q \in requests' : q.msg.type = "task_submit" /\ q.conn # NoConn =>
          q.msg.session_id = frame'[q.conn].session.session_id
    BY <1>0, <1>2 DEF Answers
  <2>3. ResultInSessionMode'
    BY <1>0, <1>1, <1>2 DEF ResultInSessionMode, Answers, Answered
  <2>4. QED
    BY <1>2, <2>1, <2>2, <2>3
<1>3. PICK r \in requests :
        \/ Declines(r) \/ AcceptSession(r) \/ HandleSessionClose(r)
        \/ RunTask(r) \/ ReturnResult(r)
        \/ HandleTaskStatusQuery(r) \/ HandleTaskCancel(r)
  BY DelegateSteps
<1>4. CASE Declines(r) \/ HandleTaskCancel(r)
  BY <1>2, <1>4, DeclinesEffect, HandleTaskCancelEffect DEF OpenAt
<1>5. CASE HandleTaskStatusQuery(r)
  BY <1>2, <1>5, Awaiting, HandleTaskStatusQueryEffect DEF OpenAt
<1>6. CASE RunTask(r)
  BY <1>0, <1>6, RunTaskEffect DEF OpenAt, ResultInSessionMode, Answered
<1>7. CASE ReturnResult(r)
  <2>1. PICK reply : /\ Answers(r, reply)
                     /\ reply.payload_mode = SessionMode(r.to, r.msg.session_id)
    BY <1>7, ReturnResultEffect
  <2>2. r.msg.type = "task_submit" /\ UNCHANGED <<sessions, ended>>
    BY <1>7, ReturnResultEffect
  <2>3. ASSUME r.conn \in Callers
        PROVE  \/ reply.payload_mode = frame[r.conn].session.payload_mode
               \/ frame[r.conn].session.session_id \in ended[frame[r.conn].url]
    <3>1. /\ frame[r.conn].url = r.to /\ pc[r.conn] = "submit" /\ r.to \in Urls
          /\ frame[r.conn].session.session_id = r.msg.session_id
      BY <2>2, <2>3, Awaiting, RequestFields
    <3>2. CASE OpenAt(r.to, frame[r.conn].session)
      BY <2>1, <3>1, <3>2, SessionModeOpen DEF OpenAt
    <3>3. CASE ~OpenAt(r.to, frame[r.conn].session)
      BY <2>3, <3>1, <3>3
    <3>4. QED
      BY <3>2, <3>3
  <2>4. QED
    BY <1>2, <2>1, <2>2, <2>3 DEF OpenAt
<1>8. CASE AcceptSession(r)
  <2>1. r \in Proposals /\ r.to \in Urls
    BY <1>8, AcceptSessionEffect, RequestFields DEF Proposals
  <2>2. r.msg.session_id \notin SessionIds(r.to)
    BY <2>1 DEF SessionInv, ProposalsFresh
  <2>3. WithoutSession(r.to, r.msg.session_id) = sessions[r.to]
    BY <2>2 DEF WithoutSession, SessionIds
  <2>4. \A u \in Urls : \A s, t \in sessions'[u] : s.session_id = t.session_id => s = t
    BY <1>8, <2>2, <2>3, AcceptSessionEffect DEF SessionIds
  <2>5. \A u \in Urls : sessions[u] \subseteq sessions'[u] /\ ended'[u] = ended[u]
    BY <1>8, <2>3, AcceptSessionEffect
  <2>6. QED
    BY <1>2, <1>8, <2>4, <2>5, AcceptSessionEffect DEF OpenAt
<1>9. CASE HandleSessionClose(r)
  <2>1. \A u \in Urls : \A s, t \in sessions'[u] : s.session_id = t.session_id => s = t
    BY <1>9, HandleSessionCloseEffect DEF WithoutSession
  <2>2. \A u \in Urls : \A session : Used(u, session) => Used(u, session)'
    BY <1>9, HandleSessionCloseEffect DEF OpenAt, WithoutSession, SessionIds
  <2>3. \A u \in Urls : ended[u] \subseteq ended'[u]
    BY <1>9, HandleSessionCloseEffect
  <2>4. QED
    BY <1>2, <1>9, <2>1, <2>2, <2>3, HandleSessionCloseEffect
<1>10. QED
  BY <1>3, <1>4, <1>5, <1>6, <1>7, <1>8, <1>9

LEMMA InitMode == Init => ModeInv
BY DEF Init, TransportInit, ServerInit, ManagerInit, ModeInv, ResultInSessionMode

LEMMA NextMode == TypeInv /\ SessionInv /\ ModeInv /\ [Next]_vars => ModeInv'
<1> SUFFICES ASSUME TypeInv, SessionInv, ModeInv, [Next]_vars PROVE ModeInv'
  OBVIOUS
<1>1. ASSUME NEW p \in Callers, NetworkStep(p) PROVE ModeInv'
  BY <1>1, NetworkEffect
  DEF ModeInv, ResultInSessionMode, OpenAt, Answered, Failure, TypeInv, serverVars,
      clientVars, managerVars
<1>2. CASE ClockStep \/ Finished \/ UNCHANGED vars
  BY <1>2
  DEF ClockStep, Tick, Finished, vars, ModeInv, ResultInSessionMode, OpenAt, Answered,
      transportVars, serverVars, clientVars, managerVars
<1>3. QED
  BY <1>1, <1>2, ModeClient, ModeServer DEF Next, TypeInv

(* The result of a task comes in the mode its client negotiated, although  *)
(* the delegate reads the session after it has let go of the tasks lock:   *)
(* only a session that was ended in between is missing there.              *)
THEOREM ResultsInSessionMode == Spec => []ResultInSessionMode
<1>1. ModeInv => ResultInSessionMode
  BY DEF ModeInv
<1>2. QED
  BY <1>1, TypesAlwaysOK, SessionInvariant, InitMode, NextMode, PTL DEF Spec

-------------------------------------------------------------------------------
(* Closed sessions *)

LEMMA ClosedFields ==
  ASSUME TypeOK, NEW c \in closed
  PROVE  c.url \in Urls /\ c.session_id \in Nat
BY DEF TypeOK, ManagerTypeOK, Id

(* The identifiers of new handshakes are new, so a session that nobody *)
(* negotiates stays one.                                               *)
LEMMA DisownedStays ==
  ASSUME TypeOK, SessionInv, NEW p \in Callers, StartStep(p) \/ CallerStep(p),
         NEW id \in Nat, Disowned(id)
  PROVE  Disowned(id)'
<1> USE DEF Disowned
<1>0. UNCHANGED <<serverVars, now>> /\ lastId \in Nat
  BY ClientSteps, IdTypes
<1>1. ASSUME OwnStep(p), lastId' \in {lastId, lastId + 1}, Holds(p)' => Held(p)' # id
      PROVE  Disowned(id)'
  BY <1>0, <1>1 DEF OwnStep, OthersKeep, Holds, Held
<1>2. CASE InvokeCached(p) \/ InvokeNew(p) \/ PollStatus(p) \/ CancelTask(p)
  BY <1>0, <1>1, <1>2, InvokeCachedEffect, InvokeNewEffect, PollStatusEffect, CancelTaskEffect
     DEF Holds
<1>3. CASE SubmitTask(p) \/ SubmitReturns(p) \/ TouchSession(p) \/ PollStream(p)
  BY <1>0, <1>1, <1>3, SubmitTaskEffect, SubmitReturnsEffect, TouchSessionEffect,
     PollStreamEffect DEF Holds
<1>4. CASE ReceiveManifest(p)
  BY <1>0, <1>1, <1>4, ReceiveManifestEffect
<1>5. CASE ReceiveAccept(p)
  <2>1. Holds(p) /\ replies[p].session_id = Held(p)
    BY <1>0, <1>5, ReceiveAcceptEffect DEF Holds, SessionInv, HandshakeLive
  <2>2. QED
    BY <1>0, <1>1, <1>5, <2>1, ReceiveAcceptEffect
<1>6. CASE CacheSession(p) \/ PollReturns(p) \/ CloseReturns(p) \/ Passes(p)
  BY <1>0, <1>1, <1>6, CacheSessionEffect, PollReturnsEffect, CloseReturnsEffect, PassesEffect
     DEF Holds
<1>7. CASE Sends(p)
  BY <1>0, <1>1, <1>7, RemoveAndSendCloseEffect DEF Sends, Holds
<1>8. QED
  BY <1>2, <1>3, <1>4, <1>5, <1>6, <1>7, ClientSteps

LEMMA CloseClient ==
  ASSUME TypeOK, SessionInv, CloseInv, NEW p \in Callers, StartStep(p) \/ CallerStep(p)
  PROVE  CloseInv'
<1> USE DEF CloseInv
<1>0. /\ UNCHANGED <<serverVars, now>> /\ Quiet(p)
      /\ \A q \in Callers : Held(q) \in Nat
      /\ \A id \in Nat : Disowned(id) => Disowned(id)'
  BY ClientSteps, OwnQuiet, IdTypes, DisownedStays
<1>1. ASSUME OwnStep(p),
             pc'[p] = "close" => Disowned(Held(p))',
             \A c \in closed' \ closed :
               \/ pc[p] = "close" /\ ~Answered(p, "none")
                    /\ c.url = frame[p].url /\ c.session_id = Held(p),
             \A r \in requests' \ requests : r.msg.type = "session_close" =>
               r.msg.session_id = Held(p)'
      PROVE  CloseInv'
  <2>0. \A u \in Urls : SessionIds(u)' = SessionIds(u)
    BY <1>1 DEF OwnStep, SessionIds
  <2>1. ASSUME NEW q \in Callers, pc'[q] = "close"
        PROVE  /\ Disowned(Held(q))'
               /\ ~NetworkFails /\ ~Answered(q, "none")' /\ ServerSecret[frame'[q].url] = NoSecret
                    => Held(q)' \notin SessionIds(frame[q].url)'
    <3>1. CASE q = p
      BY <1>1, <2>1, <3>1 DEF OwnStep, Answered, NoReply
    <3>2. CASE q # p
      <4>1. pc[q] = "close" /\ Held(q)' = Held(q) /\ frame'[q] = frame[q]
              /\ replies'[q] = replies[q] /\ sessions' = sessions
        BY <1>1, <2>1, <3>2 DEF OwnStep, OthersKeep, Held
      <4>2. \E id \in Nat : id = Held(q) /\ Disowned(id) /\ Disowned(id)'
        BY <1>0, <4>1
      <4>3. Disowned(Held(q))'
        BY <4>1, <4>2 DEF Disowned
      <4>4. QED
        BY <4>1, <4>3 DEF Answered, SessionIds
    <3>3. QED
      BY <3>1, <3>2
  <2>2. ASSUME NEW c \in closed'
        PROVE  /\ Disowned(c.session_id)'
               /\ ~NetworkFails /\ ServerSecret[c.url] = NoSecret
                    => c.session_id \notin SessionIds(c.url)'
    <3>1. c.session_id \in Nat /\ Disowned(c.session_id)
      BY <1>0, <1>1, ClosedFields
    <3>2. Disowned(c.session_id)'
      BY <1>0, <3>1
    <3>3. SessionIds(c.url)' = SessionIds(c.url)
      BY <1>1 DEF OwnStep, SessionIds
    <3>4. QED
      BY <1>1, <3>2, <3>3
  <2>3. ASSUME NEW r \in requests'
        PROVE  /\ ~NetworkFails => r.conn # NoConn
               /\ r.msg.type = "session_close" /\ r.conn # NoConn =>
                    Held(r.conn)' = r.msg.session_id
    <3>1. CASE r \in requests
      BY <1>0, <1>1, <3>1, RequestFields DEF OwnStep, OthersKeep, Quiet, Held
    <3>2. CASE r \notin requests
      BY <1>1, <3>2 DEF OwnStep
    <3>3. QED
      BY <3>1, <3>2
  <2>4. QED
    BY <2>1, <2>2, <2>3
<1>2. CASE InvokeCached(p)
  BY <1>0, <1>1, <1>2, InvokeCachedEffect
<1>3. CASE InvokeNew(p) \/ PollStatus(p)
  BY <1>0, <1>1, <1>3, InvokeNewEffect, PollStatusEffect
<1>4. CASE CancelTask(p)
  BY <1>0, <1>1, <1>4, CancelTaskEffect
<1>5. CASE SubmitTask(p) \/ SubmitReturns(p)
  BY <1>0, <1>1, <1>5, SubmitTaskEffect, SubmitReturnsEffect
<1>6. CASE TouchSession(p)
  BY <1>0, <1>1, <1>6, TouchSessionEffect
<1>7. CASE PollStream(p) \/ PollReturns(p)
  BY <1>0, <1>1, <1>7, PollStreamEffect, PollReturnsEffect
<1>8. CASE ReceiveManifest(p) \/ ReceiveAccept(p)
  BY <1>0, <1>1, <1>8, ReceiveManifestEffect, ReceiveAcceptEffect
<1>9. CASE CacheSession(p) \/ Passes(p)
  BY <1>0, <1>1, <1>9, CacheSessionEffect, PassesEffect
<1>10. CASE CloseReturns(p)
  BY <1>0, <1>1, <1>10, CloseReturnsEffect
<1>11. CASE Sends(p) /\ UNCHANGED closed
  <2>1. PICK u \in Urls, rest \in SUBSET Urls : RemoveAndSendClose(p, u, rest)
    BY <1>11 DEF Sends
  <2>2. /\ OwnStep(p) /\ pc'[p] = "close" /\ frame'[p].session = cache[u]
        /\ UNCHANGED lastId
        /\ \A r \in requests' \ requests : r.msg.session_id = cache[u].session_id
    BY <1>0, <2>1, RemoveAndSendCloseEffect
  <2>3. Disowned(cache[u].session_id)
    BY DEF SessionInv, IdsDrawn, OneOwner, Disowned
  <2>4. \E id \in Nat : id = Held(p)' /\ Disowned(id)'
    BY <1>0, <2>2, <2>3, IdTypes DEF Held
  <2>5. Disowned(Held(p))'
    BY <2>4 DEF Disowned
  <2>6. QED
    BY <1>1, <1>11, <2>2, <2>5 DEF Held
<1>12. QED
  BY <1>2, <1>3, <1>4, <1>5, <1>6, <1>7, <1>8, <1>9, <1>10, <1>11, ClientSteps

LEMMA CloseServer ==
  ASSUME TypeInv, SessionInv, CloseInv, NEW conn \in Callers \cup {NoConn}, ServerStep(conn)
  PROVE  CloseInv'
<1> USE DEF CloseInv, TypeInv
<1>0. UNCHANGED <<cache, pc, frame, lastId, closed>>
  BY DelegateSteps DEF clientVars, managerVars
<1>1. /\ \A q \in Callers : Held(q)' = Held(q) /\ Holds(q)' = Holds(q)
      /\ \A id : Disowned(id)' = Disowned(id)
      /\ \A q \in Callers : frame[q].url \in Urls /\ Held(q) \in Nat
  BY <1>0, IdTypes, FrameFields DEF Held, Holds, Disowned, TypeOK
<1>2. ASSUME NEW r \in requests, NEW reply, Answers(r, reply),
             \A u \in Urls, id \in Nat :
               ~NetworkFails /\ Disowned(id) /\ id \in SessionIds(u)' => id \in SessionIds(u),
             r.conn \in Callers /\ pc[r.conn] = "close" /\ ~NetworkFails
               /\ ServerSecret[r.to] = NoSecret => Held(r.conn) \notin SessionIds(r.to)'
      PROVE  CloseInv'
  <2>1. ASSUME NEW q \in Callers, pc[q] = "close", ~NetworkFails, ~Answered(q, "none")',
               ServerSecret[frame[q].url] = NoSecret,
               NEW u \in Urls, frame[q].url = u
        PROVE  Held(q) \notin SessionIds(u)'
    <3>1. CASE q = r.conn
      BY <1>2, <2>1, <3>1, Awaiting
    <3>2. CASE q # r.conn
      <4>1. ~Answered(q, "none")
        BY <1>2, <2>1, <3>2 DEF Answers, Answered
      <4>2. QED
        BY <1>1, <1>2, <2>1, <4>1
    <3>3. QED
      BY <3>1, <3>2
  <2>2. \A q \in Callers : pc'[q] = "close" =>
          /\ Disowned(Held(q))'
          /\ ~NetworkFails /\ ~Answered(q, "none")' /\ ServerSecret[frame'[q].url] = NoSecret
               => Held(q)' \notin SessionIds(frame[q].url)'
    BY <1>0, <1>1, <2>1 DEF SessionIds, Disowned
  <2>3. \A c \in closed' :
          /\ Disowned(c.session_id)'
          /\ ~NetworkFails /\ ServerSecret[c.url] = NoSecret
               => c.session_id \notin SessionIds(c.url)'
    BY <1>0, <1>1, <1>2, ClosedFields
  <2>4. \A q \in requests' :
          /\ ~NetworkFails => q.conn # NoConn
          /\ q.msg.type = "session_close" /\ q.conn # NoConn =>
               Held(q.conn)' = q.msg.session_id
    BY <1>1, <1>2, RequestFields DEF Answers
  <2>5. QED
    BY <2>2, <2>3, <2>4
<1>3. PICK r \in requests :
        \/ Declines(r) \/ AcceptSession(r) \/ HandleSessionClose(r)
        \/ RunTask(r) \/ ReturnResult(r)
        \/ HandleTaskStatusQuery(r) \/ HandleTaskCancel(r)
  BY DelegateSteps
<1>4. CASE Declines(r)
  <2>1. PICK reply : /\ Answers(r, reply)
                     /\ \/ ~Admitted(r.to, r.msg)
                        \/ r.msg.type \in {"hello", "session_propose"}
    BY <1>4, DeclinesEffect
  <2>2. UNCHANGED sessions
    BY <1>4, DeclinesEffect
  <2>3. r.conn \in Callers /\ pc[r.conn] = "close" => ServerSecret[r.to] # NoSecret
    BY <2>1, Awaiting DEF Admitted
  <2>4. QED
    BY <1>2, <2>1, <2>2, <2>3 DEF SessionIds
<1>5. CASE HandleTaskStatusQuery(r) \/ HandleTaskCancel(r) \/ ReturnResult(r)
  <2>1. /\ r.msg.type \in {"task_update", "task_cancel", "task_submit"}
        /\ UNCHANGED sessions
        /\ \E reply : Answers(r, reply)
    BY <1>5, HandleTaskStatusQueryEffect, HandleTaskCancelEffect, ReturnResultEffect
  <2>2. r.conn \in Callers => pc[r.conn] # "close"
    BY <2>1, Awaiting
  <2>3. QED
    BY <1>2, <2>1, <2>2 DEF SessionIds
<1>6. CASE RunTask(r)
  <2>1. UNCHANGED <<sessions, replies>>
    BY <1>6, RunTaskEffect
  <2>2. \A q \in requests' : \E old \in requests : q.conn = old.conn /\ q.msg = old.msg
    BY <1>6, RunTaskEffect
  <2>3. \A q \in requests' :
          /\ ~NetworkFails => q.conn # NoConn
          /\ q.msg.type = "session_close" /\ q.conn # NoConn =>
               Held(q.conn)' = q.msg.session_id
    BY <1>1, <2>2, RequestFields
  <2>4. QED
    BY <1>0, <1>1, <2>1, <2>3 DEF SessionIds, Answered, Disowned
<1>7. CASE AcceptSession(r)
  <2>1. r \in Proposals
    BY <1>7, AcceptSessionEffect DEF Proposals
  <2>2. ASSUME ~NetworkFails, NEW id, Disowned(id)
        PROVE  id # r.msg.session_id
    <3>1. r.conn \in Callers
      BY <2>2, RequestFields
    <3>2. Holds(r.conn) /\ Held(r.conn) = r.msg.session_id
      BY <2>1, <3>1, Awaiting DEF Holds, SessionInv, ProposalsFresh, Proposals
    <3>3. QED
      BY <2>2, <3>1, <3>2 DEF Disowned
  <2>3. \A u \in Urls : SessionIds(u)' \subseteq SessionIds(u) \cup {r.msg.session_id}
    BY <1>7, AcceptSessionEffect DEF SessionIds, WithoutSession
  <2>4. PICK reply : Answers(r, reply)
    BY <1>7, AcceptSessionEffect
  <2>5. r.conn \in Callers => pc[r.conn] # "close"
    BY <2>1, Awaiting DEF Proposals
  <2>6. QED
    BY <1>2, <2>2, <2>3, <2>4, <2>5
<1>8. CASE HandleSessionClose(r)
  <2>1. r.msg.type = "session_close" /\ \E reply : Answers(r, reply)
    BY <1>8, HandleSessionCloseEffect
  <2>2. \A u \in Urls : SessionIds(u)' \subseteq SessionIds(u)
    BY <1>8, HandleSessionCloseEffect DEF SessionIds, WithoutSession
  <2>3. r.msg.session_id \notin SessionIds(r.to)'
    BY <1>8, HandleSessionCloseEffect DEF SessionIds, WithoutSession
  <2>4. r.conn \in Callers => Held(r.conn) = r.msg.session_id
    BY <2>1
  <2>5. QED
    BY <1>2, <2>1, <2>2, <2>3, <2>4
<1>9. QED
  BY <1>3, <1>4, <1>5, <1>6, <1>7, <1>8

LEMMA InitClose == Init => CloseInv
BY DEF Init, TransportInit, ServerInit, ManagerInit, CloseInv

LEMMA NextClose == TypeInv /\ SessionInv /\ CloseInv /\ [Next]_vars => CloseInv'
<1> SUFFICES ASSUME TypeInv, SessionInv, CloseInv, [Next]_vars PROVE CloseInv'
  OBVIOUS
<1>1. ASSUME NEW p \in Callers, NetworkStep(p) PROVE CloseInv'
  <2>1. /\ UNCHANGED <<pc, frame, lastId, closed, sessions>> /\ NetworkFails
        /\ \A r \in requests' : r.conn # NoConn => r \in requests
    BY <1>1, NetworkEffect DEF serverVars, clientVars, managerVars, TypeInv
  <2>2. QED
    BY <2>1 DEF CloseInv, Disowned, Holds, Held
<1>2. CASE ClockStep \/ Finished \/ UNCHANGED vars
  <2>1. UNCHANGED <<pc, frame, lastId, closed, sessions, requests, replies>>
    BY <1>2 DEF ClockStep, Tick, Finished, vars, transportVars, serverVars, clientVars,
       managerVars
  <2>2. QED
    BY <2>1 DEF CloseInv, Disowned, Holds, Held, Answered, SessionIds
<1>3. QED
  BY <1>1, <1>2, CloseClient, CloseServer DEF Next, TypeInv

(* A session close() has returned for is not open at its delegate, as long *)
(* as connections do not fail and the delegate asks for no signature: a    *)
(* delegate with a secret refuses the SESSION_CLOSE, which is unsigned.    *)
THEOREM ClosedSessionsAreGone ==
  Spec => [](~NetworkFails =>
               \A c \in closed :
                 ServerSecret[c.url] = NoSecret => c.session_id \notin SessionIds(c.url))
<1>1. CloseInv => (~NetworkFails =>
                     \A c \in closed :
                       ServerSecret[c.url] = NoSecret => c.session_id \notin SessionIds(c.url))
  BY DEF CloseInv
<1>2. QED
  BY <1>1, TypesAlwaysOK, SessionInvariant, InitClose, NextClose, PTL DEF Spec

(* Where no delegate asks for signatures, close() always ends its session. *)
THEOREM UnsignedSessionsEnd ==
  ASSUME \A u \in Urls : ServerSecret[u] = NoSecret
  PROVE  Spec => []ClosedSessionsEnd
<1>1. TypeInv /\ CloseInv => ClosedSessionsEnd
  BY ClosedFields DEF CloseInv, ClosedSessionsEnd, TypeInv
<1>2. QED
  BY <1>1, TypesAlwaysOK, SessionInvariant, InitClose, NextClose, PTL DEF Spec

-------------------------------------------------------------------------------
(* Identifiers drawn *)

(* An operation is counted when it starts, and only then. *)
LEMMA OpsEffect ==
  ASSUME NEW p \in Callers, StartStep(p) \/ CallerStep(p)
  PROVE  \/ pc[p] = "idle" /\ ops < MaxOps /\ ops' = ops + 1
         \/ pc[p] # "idle" /\ ops' = ops
<1>1. CASE StartStep(p)
  BY <1>1 DEF StartStep, CallerStarts, InvokeCached, InvokeNew, PollStatus, CancelTask, Start,
     Close, CloseAll, Begin
<1>2. CASE CallerStep(p)
  BY <1>2 DEF CallerStep, CallerContinues, ManagerStep, SubmitTask, SubmitReturns, SubmitFails,
     TouchSession, PollStream, PollReturns, CancelReturns, ReceiveManifest, ReceiveAccept,
     HandshakeFails, CacheSession, CloseNext, CloseSkips, CloseAllReturns, CloseReturns
<1>3. QED
  BY <1>1, <1>2

LEMMA Members ==
  ASSUME NEW S, NEW x, IsFiniteSet(S)
  PROVE  /\ IsFiniteSet(S \cup {x}) /\ IsFiniteSet(S \ {x})
         /\ Cardinality(S) \in Nat
         /\ Cardinality(S \cup {x}) = IF x \in S THEN Cardinality(S) ELSE Cardinality(S) + 1
         /\ Cardinality(S \ {x}) = IF x \in S THEN Cardinality(S) - 1 ELSE Cardinality(S)
BY FS_AddElement, FS_RemoveElement, FS_CardinalityType

LEMMA DrawClient ==
  ASSUME TypeOK, SessionInv, DrawInv, NEW p \in Callers, StartStep(p) \/ CallerStep(p)
  PROVE  DrawInv'
<1> USE DEF DrawInv
<1> DEFINE H == Proposing
           D == Submitting
           waiting == {"hello", "propose", "caching", "established"}
<1>0. /\ UNCHANGED <<serverVars, now>>
      /\ lastId \in Nat /\ ops \in Nat /\ MaxOps \in Nat
  BY ClientSteps, IdTypes, MaxOpsIsNat DEF TypeOK, ManagerTypeOK
<1>1. ASSUME OwnStep(p),
             lastId' \in {lastId, lastId + 1},
             \/ pc'[p] \notin waiting /\ lastId' = lastId
             \/ pc[p] = "idle" /\ lastId' = lastId
             \/ pc[p] = "hello" /\ pc'[p] # "hello"
             \/ pc[p] \in waiting /\ pc[p] # "hello" /\ pc'[p] \in waiting /\ pc'[p] # "hello"
                  /\ lastId' = lastId
             \/ pc[p] = "established" /\ pc'[p] = "submit",
             \A r \in requests' \ requests : r.msg.type = "session_propose" =>
               r.msg.session_id # NoId
      PROVE  DrawInv'
  <2>1. H' = IF pc'[p] = "hello" THEN H \cup {p} ELSE H \ {p}
    BY <1>1 DEF OwnStep, OthersKeep, Proposing
  <2>2. D' = IF pc'[p] \in waiting THEN D \cup {p} ELSE D \ {p}
    BY <1>1 DEF OwnStep, OthersKeep, Submitting
  <2>3. (p \in H <=> pc[p] = "hello") /\ (p \in D <=> pc[p] \in waiting)
    BY DEF Proposing, Submitting
  <2>4. /\ Cardinality(H) \in Nat /\ Cardinality(D) \in Nat
        /\ IsFiniteSet(H') /\ IsFiniteSet(D')
    BY <2>1, <2>2, Members
  <2>5. Cardinality(H') = IF pc'[p] = "hello"
                            THEN IF pc[p] = "hello" THEN Cardinality(H) ELSE Cardinality(H) + 1
                            ELSE IF pc[p] = "hello" THEN Cardinality(H) - 1 ELSE Cardinality(H)
    BY <2>1, <2>3, Members
  <2>6. Cardinality(D') = IF pc'[p] \in waiting
                            THEN IF pc[p] \in waiting THEN Cardinality(D) ELSE Cardinality(D) + 1
                            ELSE IF pc[p] \in waiting THEN Cardinality(D) - 1 ELSE Cardinality(D)
    BY <2>2, <2>3, Members
  <2> HIDE DEF H, D
  <2>7. lastId' + Cardinality(H') + Cardinality(D') <= 2 * ops' /\ ops' <= MaxOps
    <3>1. lastId + Cardinality(H) + Cardinality(D) <= 2 * ops /\ ops <= MaxOps
      BY DEF H, D
    <3>2. QED
      BY <1>0, <1>1, <2>4, <2>5, <2>6, <3>1, OpsEffect
  <2>8. \A r \in Proposals' : r.msg.session_id # NoId
    BY <1>1 DEF Proposals
  <2>9. QED
    BY <2>4, <2>7, <2>8 DEF H, D
<1> HIDE DEF DrawInv
<1>2. CASE InvokeCached(p) \/ InvokeNew(p) \/ PollStatus(p) \/ CancelTask(p)
  BY <1>0, <1>1, <1>2, InvokeCachedEffect, InvokeNewEffect, PollStatusEffect, CancelTaskEffect
<1>3. CASE SubmitTask(p) \/ SubmitReturns(p)
  BY <1>0, <1>1, <1>3, SubmitTaskEffect, SubmitReturnsEffect
<1>4. CASE TouchSession(p) \/ PollStream(p) \/ PollReturns(p)
  BY <1>0, <1>1, <1>4, TouchSessionEffect, PollStreamEffect, PollReturnsEffect
<1>5. CASE ReceiveManifest(p)
  <2>1. \A r \in requests' \ requests : r.msg.session_id # NoId
    <3>1. \A r \in requests' \ requests : r.msg.session_id = lastId + 1
      BY <1>5 DEF ReceiveManifest, Post, Request
    <3>2. QED
      BY <1>0, <3>1 DEF NoId
  <2>2. QED
    BY <1>0, <1>1, <1>5, <2>1, ReceiveManifestEffect
<1>6. CASE ReceiveAccept(p) \/ CacheSession(p)
  BY <1>0, <1>1, <1>6, ReceiveAcceptEffect, CacheSessionEffect
<1>7. CASE CloseReturns(p) \/ Passes(p)
  BY <1>0, <1>1, <1>7, CloseReturnsEffect, PassesEffect
<1>8. CASE Sends(p)
  BY <1>0, <1>1, <1>8, RemoveAndSendCloseEffect DEF Sends
<1>9. QED
  BY <1>2, <1>3, <1>4, <1>5, <1>6, <1>7, <1>8, ClientSteps

LEMMA InitDraw == Init => DrawInv
<1> SUFFICES ASSUME Init PROVE DrawInv
  OBVIOUS
<1>1. Proposing = {} /\ Submitting = {} /\ Proposals = {}
  BY DEF Init, TransportInit, ManagerInit, Proposing, Submitting, Proposals
<1>2. lastId = 0 /\ ops = 0 /\ 0 <= MaxOps
  BY MaxOpsIsNat DEF Init, ManagerInit, NoId
<1>3. QED
  BY <1>1, <1>2, FS_EmptySet DEF DrawInv

LEMMA NextDraw == TypeInv /\ SessionInv /\ DrawInv /\ [Next]_vars => DrawInv'
<1> SUFFICES ASSUME TypeInv, SessionInv, DrawInv, [Next]_vars PROVE DrawInv'
  OBVIOUS
<1>1. ASSUME UNCHANGED <<pc, lastId, ops>>,
             \A r \in requests' : \E q \in requests : r.msg = q.msg
      PROVE  DrawInv'
  BY <1>1 DEF DrawInv, Proposing, Submitting, Proposals
<1>2. ASSUME NEW p \in Callers, NetworkStep(p) PROVE DrawInv'
  BY <1>1, <1>2, NetworkEffect DEF clientVars, managerVars, TypeInv
<1>3. ASSUME NEW conn \in Callers \cup {NoConn}, ServerStep(conn) PROVE DrawInv'
  <2>1. UNCHANGED <<pc, lastId, ops>>
    BY <1>3, DelegateSteps DEF clientVars, managerVars
  <2>2. PICK r \in requests :
          \/ Declines(r) \/ AcceptSession(r) \/ HandleSessionClose(r)
          \/ RunTask(r) \/ ReturnResult(r)
          \/ HandleTaskStatusQuery(r) \/ HandleTaskCancel(r)
    BY <1>3, DelegateSteps
  <2>3. CASE RunTask(r)
    BY <1>1, <2>1, <2>3, RunTaskEffect DEF TypeInv
  <2>4. CASE ~RunTask(r)
    <3>1. \E reply : Answers(r, reply)
      BY <2>2, <2>4, DeclinesEffect, AcceptSessionEffect, HandleSessionCloseEffect,
         ReturnResultEffect, HandleTaskStatusQueryEffect, HandleTaskCancelEffect DEF TypeInv
    <3>2. QED
      BY <1>1, <2>1, <3>1 DEF Answers
  <2>5. QED
    BY <2>3, <2>4
<1>4. CASE ClockStep \/ Finished \/ UNCHANGED vars
  BY <1>1, <1>4 DEF ClockStep, Tick, Finished, vars, transportVars, clientVars, managerVars
<1>5. QED
  BY <1>2, <1>3, <1>4, DrawClient DEF Next, TypeInv

-------------------------------------------------------------------------------
(* The life cycle of sessions: each step opens, adopts, retires or ends a  *)
(* session as SessionLifecycle lets it, or does none of that.              *)

LifecycleStep == [Lifecycle!Next]_Lifecycle!lifecycleVars

LEMMA Drawn ==
  ASSUME TypeOK, DrawInv
  PROVE  lastId \in Nat /\ lastId <= 2 * MaxOps
<1>1. lastId \in Nat /\ ops \in Nat /\ MaxOps \in Nat
  BY IdTypes, MaxOpsIsNat DEF TypeOK, ManagerTypeOK
<1>2. Cardinality(Proposing) \in Nat /\ Cardinality(Submitting) \in Nat
  BY Members DEF DrawInv
<1>3. QED
  BY <1>1, <1>2 DEF DrawInv

(* A step that changes none of the three variables of the life cycle. *)
LEMMA LifecycleStutters ==
  ASSUME \A u \in Urls : /\ SessionIds(u)' = SessionIds(u)
                         /\ cache'[u].session_id = cache[u].session_id,
         UNCHANGED ended
  PROVE  LifecycleStep
<1>1. [u \in Urls |-> SessionIds(u)]' = [u \in Urls |-> SessionIds(u)]
  OBVIOUS
<1>2. [u \in Urls |-> cache[u].session_id]' = [u \in Urls |-> cache[u].session_id]
  OBVIOUS
<1>3. QED
  BY <1>1, <1>2 DEF LifecycleStep, Lifecycle!lifecycleVars

LEMMA LifecycleClient ==
  ASSUME TypeOK, SessionInv, DrawInv, NEW p \in Callers, StartStep(p) \/ CallerStep(p)
  PROVE  LifecycleStep
<1>0. UNCHANGED <<serverVars, now>>
  BY ClientSteps
<1> DEFINE live == [u \in Urls |-> SessionIds(u)]
           current == [u \in Urls |-> cache[u].session_id]
<1>1. UNCHANGED <<live, ended>>
  BY <1>0 DEF serverVars, SessionIds
<1>2. CASE CacheKeeps
  BY <1>1, <1>2 DEF CacheKeeps, LifecycleStep, Lifecycle!lifecycleVars
<1>3. CASE CacheSession(p)
  <2>0. PICK u \in Urls, id \in Nat : u = frame[p].url /\ id = Held(p)
    BY FrameFields, IdTypes DEF TypeOK
  <2>1. /\ cache' = [cache EXCEPT ![u] = frame[p].session]
        /\ pc[p] = "caching"
    BY <1>0, <1>3, <2>0, CacheSessionEffect
  <2>2. id \in 1..(2 * MaxOps) /\ id \in SessionIds(u)
    <3>1. id \in 1..lastId
      BY <2>0, <2>1 DEF SessionInv, IdsDrawn, Holds
    <3>2. id \in SessionIds(u)
      BY <2>0, <2>1 DEF SessionInv, HandshakeLive, OpenAt, SessionIds, Held
    <3>3. QED
      BY <3>1, <3>2, Drawn, MaxOpsIsNat
  <2>3. current' = [current EXCEPT ![u] = id]
    BY <2>0, <2>1 DEF TypeOK, ManagerTypeOK, Held
  <2>4. Lifecycle!Adopt(u, id)
    BY <1>1, <2>1, <2>2, <2>3 DEF Lifecycle!Adopt
  <2>5. QED
    BY <2>2, <2>4 DEF LifecycleStep, Lifecycle!Next
<1>4. CASE Sends(p)
  <2>1. PICK u \in Urls, rest \in SUBSET Urls : RemoveAndSendClose(p, u, rest)
    BY <1>4 DEF Sends
  <2>2. cache' = [cache EXCEPT ![u] = NoSession]
    BY <1>0, <2>1, RemoveAndSendCloseEffect
  <2>3. current' = [current EXCEPT ![u] = NoId]
    BY <2>2 DEF TypeOK, ManagerTypeOK, NoSession
  <2>4. Lifecycle!Retire(u)
    BY <1>1, <2>3 DEF Lifecycle!Retire
  <2>5. QED
    BY <2>4 DEF LifecycleStep, Lifecycle!Next
<1>5. CASE ~CacheSession(p) /\ ~Sends(p)
  <2>1. CASE TouchSession(p)
    BY <1>0, <1>2, <2>1, TouchSessionEffect
  <2>2. CASE ~TouchSession(p)
    <3>1. UNCHANGED cache
      BY <1>0, <1>5, <2>2, ClientSteps, InvokeCachedEffect, InvokeNewEffect, PollStatusEffect,
         CancelTaskEffect, SubmitTaskEffect, SubmitReturnsEffect, PollStreamEffect,
         PollReturnsEffect, ReceiveManifestEffect, ReceiveAcceptEffect, CloseReturnsEffect,
         PassesEffect
    <3>2. QED
      BY <1>2, <3>1 DEF CacheKeeps
  <2>3. QED
    BY <2>1, <2>2
<1>6. QED
  BY <1>3, <1>4, <1>5

LEMMA LifecycleServer ==
  ASSUME TypeInv, SessionInv, DrawInv, NEW conn \in Callers \cup {NoConn}, ServerStep(conn)
  PROVE  LifecycleStep
<1> USE DEF TypeInv
<1> DEFINE live == [u \in Urls |-> SessionIds(u)]
           current == [u \in Urls |-> cache[u].session_id]
<1>0. UNCHANGED <<cache, current>>
  BY DelegateSteps DEF clientVars, managerVars
<1>1. PICK r \in requests :
        \/ Declines(r) \/ AcceptSession(r) \/ HandleSessionClose(r)
        \/ RunTask(r) \/ ReturnResult(r)
        \/ HandleTaskStatusQuery(r) \/ HandleTaskCancel(r)
  BY DelegateSteps
<1>2. r.to \in Urls
  BY RequestFields
<1> DEFINE u == r.to
           id == r.msg.session_id
<1>3. CASE AcceptSession(r)
  <2>1. r \in Proposals
    BY <1>3, AcceptSessionEffect DEF Proposals
  <2>2. id \in 1..(2 * MaxOps)
    <3>1. id \in Nat /\ id # 0 /\ id <= lastId
      BY <2>1, IdTypes DEF SessionInv, IdsDrawn, DrawInv, NoId
    <3>2. QED
      BY <3>1, Drawn, MaxOpsIsNat
  <2>3. \A v \in Urls : id \notin SessionIds(v) \cup ended[v]
    BY <2>1 DEF SessionInv, ProposalsFresh
  <2>4. WithoutSession(u, id) = sessions[u]
    BY <1>2, <2>3 DEF WithoutSession, SessionIds
  <2>5. /\ SessionIds(u)' = SessionIds(u) \cup {id}
        /\ \A v \in Urls : v # u => SessionIds(v)' = SessionIds(v)
        /\ UNCHANGED ended
    BY <1>3, <2>4, AcceptSessionEffect DEF SessionIds
  <2>6. live' = [live EXCEPT ![u] = @ \cup {id}]
    BY <1>2, <2>5
  <2>7. \A v \in Urls : id \notin live[v] \cup ended[v]
    BY <2>3
  <2> HIDE DEF u, id, live, current
  <2>8. Lifecycle!Open(u, id)
    BY <1>0, <2>5, <2>6, <2>7 DEF Lifecycle!Open, live, current
  <2>9. QED
    BY <1>2, <2>2, <2>8 DEF LifecycleStep, Lifecycle!Next, u
<1>4. CASE HandleSessionClose(r)
  <2>1. /\ r \in Closes /\ id \in Nat
        /\ SessionIds(u)' = SessionIds(u) \ {id}
        /\ \A v \in Urls : v # u => SessionIds(v)' = SessionIds(v)
        /\ ended' = [ended EXCEPT ![u] = @ \cup (SessionIds(u) \cap {id})]
    <3>1. r \in Closes
      BY <1>4, HandleSessionCloseEffect DEF Closes
    <3>2. QED
      BY <1>4, <3>1, IdTypes, HandleSessionCloseEffect
      DEF HandleSessionClose, SessionIds, WithoutSession
  <2>2. CASE id \notin SessionIds(u)
    <3>1. ended' = ended
      BY <2>1, <2>2 DEF TypeOK, ServerTypeOK
    <3>2. \A v \in Urls : SessionIds(v)' = SessionIds(v)
      BY <2>1, <2>2
    <3>3. QED
      BY <1>0, <3>1, <3>2, LifecycleStutters
  <2>3. CASE id \in SessionIds(u)
    <3>1. id \in 1..(2 * MaxOps)
      <4>1. id # 0 /\ id <= lastId
        BY <2>1 DEF SessionInv, IdsDrawn, ClosesUnowned, NoId
      <4>2. QED
        BY <2>1, <4>1, Drawn, MaxOpsIsNat
    <3>2. id \in live[u] \ {current[u]}
      BY <1>2, <2>1, <2>3 DEF SessionInv, ClosesUnowned
    <3>3. live' = [live EXCEPT ![u] = @ \ {id}]
      BY <1>2, <2>1
    <3>4. ended' = [ended EXCEPT ![u] = @ \cup {id}]
      BY <2>1, <2>3
    <3> HIDE DEF u, id, live, current
    <3>5. Lifecycle!End(u, id)
      BY <1>0, <3>2, <3>3, <3>4 DEF Lifecycle!End, live, current
    <3>6. QED
      BY <1>2, <3>1, <3>5 DEF LifecycleStep, Lifecycle!Next, u
  <2>4. QED
    BY <2>2, <2>3
<1>5. CASE ~AcceptSession(r) /\ ~HandleSessionClose(r)
  <2>1. UNCHANGED <<sessions, ended>>
    BY <1>1, <1>5, DeclinesEffect, RunTaskEffect, ReturnResultEffect,
       HandleTaskStatusQueryEffect, HandleTaskCancelEffect
  <2>2. QED
    BY <1>0, <2>1, LifecycleStutters DEF SessionIds
<1>6. QED
  BY <1>3, <1>4, <1>5

LEMMA InitLifecycle == Init => Lifecycle!Init
BY DEF Init, ServerInit, ManagerInit, NoSession, SessionIds, Lifecycle!Init

LEMMA NextLifecycle == TypeInv /\ SessionInv /\ DrawInv /\ [Next]_vars => LifecycleStep
<1> SUFFICES ASSUME TypeInv, SessionInv, DrawInv, [Next]_vars PROVE LifecycleStep
  OBVIOUS
<1>1. ASSUME NEW p \in Callers, NetworkStep(p) PROVE LifecycleStep
  BY <1>1, LifecycleStutters
  DEF NetworkStep, serverVars, clientVars, managerVars, SessionIds
<1>2. CASE ClockStep \/ Finished \/ UNCHANGED vars
  BY <1>2, LifecycleStutters
  DEF ClockStep, Finished, vars, serverVars, clientVars, managerVars, SessionIds
<1>3. QED
  BY <1>1, <1>2, LifecycleClient, LifecycleServer DEF Next, TypeInv

(* The client's cache and the delegates' session tables go through the life *)
(* cycle SessionLifecycle promises: an identifier opens once, at one        *)
(* delegate; what the client adopts is open; what a delegate ends is not    *)
(* the client's current session, and it stays ended.                        *)
THEOREM SessionsImplementLifecycle == Spec => ImplementsLifecycle
<1>1. TypeInv /\ SessionInv /\ DrawInv /\ [Next]_vars
        => [Lifecycle!Next]_Lifecycle!lifecycleVars
  BY NextLifecycle DEF LifecycleStep
<1>2. QED
  BY <1>1, TypesAlwaysOK, SessionInvariant, InitDraw, NextDraw, InitLifecycle, PTL
  DEF Spec, ImplementsLifecycle, Lifecycle!Spec

-------------------------------------------------------------------------------
(* TaskInv is inductive: tasks can be polled until they are cancelled, and *)
(* what a caller is told of a task follows from its contract.              *)

(* The client's steps, as far as tasks are concerned *)

(* Handshakes, closes and the ends of operations: no task takes part. *)
Aside(p) ==
  /\ OwnStep(p)
  /\ UNCHANGED adapterVars
  /\ lastId' \in Nat /\ lastId <= lastId'
  /\ pc'[p] \notin {"submit", "submitted", "polling", "polled"}
  /\ pc'[p] \in {"hello", "propose", "caching", "established"} =>
       frame'[p].op \in {"invoke", "stream"}
  /\ \A r \in requests' \ requests :
       /\ r.msg.type \in {"hello", "session_propose", "session_close"}
       /\ r.msg.type # "session_close" => r.msg.signature = ClientSecret

Polls(p) ==
  /\ OwnStep(p)
  /\ UNCHANGED <<adapterVars, lastId>>
  /\ pc'[p] = "polled"
  /\ \E h \in handles : PollOf(p, h)'
  /\ \A r \in requests' \ requests :
       /\ r.msg.type = "task_update" /\ r.msg.task_id = frame'[p].task
       /\ r.msg.signature = ClientSecret

LEMMA AsideSteps ==
  ASSUME TypeOK, OperationsNamed, NEW p \in Callers, UNCHANGED <<serverVars, now>>,
         \/ InvokeCached(p) \/ InvokeNew(p) \/ Passes(p)
         \/ /\ UNCHANGED adapterVars
            /\ \/ ReceiveManifest(p) \/ ReceiveAccept(p) \/ CacheSession(p)
               \/ Sends(p) \/ CloseReturns(p)
  PROVE  Aside(p)
<1> USE DEF Aside
<1>0. lastId \in Nat
  BY IdTypes
<1>1. CASE InvokeCached(p) \/ InvokeNew(p)
  BY <1>0, <1>1, InvokeCachedEffect, InvokeNewEffect
<1>2. CASE Passes(p)
  BY <1>0, <1>2, PassesEffect
<1>3. CASE (ReceiveManifest(p) \/ ReceiveAccept(p)) /\ UNCHANGED adapterVars
  BY <1>0, <1>3, ReceiveManifestEffect, ReceiveAcceptEffect DEF OperationsNamed
<1>4. CASE CacheSession(p) /\ UNCHANGED adapterVars
  BY <1>0, <1>4, CacheSessionEffect DEF OperationsNamed
<1>5. CASE Sends(p) /\ UNCHANGED adapterVars
  BY <1>0, <1>5, RemoveAndSendCloseEffect DEF Sends
<1>6. CASE CloseReturns(p) /\ UNCHANGED adapterVars
  BY <1>0, <1>6, CloseReturnsEffect
<1>7. QED
  BY <1>1, <1>2, <1>3, <1>4, <1>5, <1>6

LEMMA PollSteps ==
  ASSUME TypeOK, PollsHandle, NEW p \in Callers, UNCHANGED <<serverVars, now>>,
         PollStatus(p) \/ PollStream(p)
  PROVE  Polls(p)
<1>1. CASE PollStatus(p)
  BY <1>1, PollStatusEffect DEF Polls, adapterVars
<1>2. CASE PollStream(p)
  <2>1. PICK h \in handles : PollOf(p, h)
    BY <1>2, PollStreamEffect DEF PollsHandle
  <2>2. PollOf(p, h)'
    BY <1>2, <2>1, PollStreamEffect DEF PollOf
  <2>3. QED
    BY <1>2, <2>1, <2>2, PollStreamEffect DEF Polls
<1>3. QED
  BY <1>1, <1>2

LEMMA TaskSteps ==
  ASSUME TypeOK, OperationsNamed, PollsHandle,
         NEW p \in Callers, StartStep(p) \/ CallerStep(p)
  PROVE  /\ UNCHANGED <<serverVars, now>>
         /\ \/ Aside(p) \/ Polls(p)
            \/ SubmitTask(p) \/ SubmitReturns(p) \/ TouchSession(p)
            \/ PollReturns(p) \/ CancelTask(p)
BY ClientSteps, AsideSteps, PollSteps

-------------------------------------------------------------------------------
(* Identifiers of tasks, and contracts *)

LEMMA TaskIdTypes ==
  ASSUME TypeOK
  PROVE  /\ lastId \in Nat
         /\ \A p \in Callers : frame[p].task \in Nat
         /\ \A h \in handles : h.task_id \in Nat
         /\ \A c \in contracts : c.task_id \in Nat
BY IdTypes, FrameFields DEF TypeOK, AdapterTypeOK, Handle, Id

LEMMA NamedClient ==
  ASSUME TypeOK, TaskInv, NEW p \in Callers, StartStep(p) \/ CallerStep(p)
  PROVE  OperationsNamed'
<1> USE DEF OperationsNamed, OwnStep, OthersKeep
<1>0. UNCHANGED <<serverVars, now>> /\ OperationsNamed
  BY TaskSteps DEF TaskInv
<1>1. CASE Aside(p) \/ Polls(p)
  BY <1>0, <1>1 DEF Aside, Polls, adapterVars
<1>2. CASE SubmitTask(p)
  BY <1>0, <1>2, SubmitTaskEffect DEF adapterVars
<1>3. CASE SubmitReturns(p)
  BY <1>0, <1>3, SubmitReturnsEffect
<1>4. CASE TouchSession(p)
  BY <1>0, <1>4, TouchSessionEffect
<1>5. CASE PollReturns(p) \/ CancelTask(p)
  BY <1>0, <1>5, PollReturnsEffect, CancelTaskEffect
<1>6. QED
  BY <1>1, <1>2, <1>3, <1>4, <1>5, TaskSteps DEF TaskInv

LEMMA DrawnClient ==
  ASSUME TypeOK, TaskInv, NEW p \in Callers, StartStep(p) \/ CallerStep(p)
  PROVE  TaskIdsDrawn'
<1> USE DEF TaskIdsDrawn, OwnStep, OthersKeep, Submits
<1>0. UNCHANGED <<serverVars, now>> /\ TaskIdsDrawn
  BY TaskSteps DEF TaskInv
<1>1. CASE Aside(p) \/ Polls(p)
  BY <1>0, <1>1, TaskIdTypes DEF Aside, Polls, adapterVars
<1>2. CASE SubmitTask(p)
  BY <1>0, <1>2, SubmitTaskEffect, TaskIdTypes DEF adapterVars
<1>3. CASE SubmitReturns(p)
  BY <1>0, <1>3, SubmitReturnsEffect
<1>4. CASE TouchSession(p)
  BY <1>0, <1>4, TouchSessionEffect
<1>5. CASE PollReturns(p) \/ CancelTask(p)
  BY <1>0, <1>5, PollReturnsEffect, CancelTaskEffect
<1>6. QED
  BY <1>1, <1>2, <1>3, <1>4, <1>5, TaskSteps DEF TaskInv

LEMMA OneTaskClient ==
  ASSUME TypeOK, TaskInv, NEW p \in Callers, StartStep(p) \/ CallerStep(p)
  PROVE  OneTaskEach'
<1> USE DEF OneTaskEach, OwnStep, OthersKeep, Submits
<1>0. UNCHANGED <<serverVars, now>> /\ OneTaskEach
  BY TaskSteps DEF TaskInv
<1>1. CASE Aside(p) \/ Polls(p)
  BY <1>0, <1>1 DEF Aside, Polls, adapterVars
<1>2. CASE SubmitTask(p)
  <2>1. /\ \A q \in Callers : Submits(q) => frame[q].task # lastId + 1
        /\ \A h \in handles : h.task_id # lastId + 1
    BY TaskIdTypes DEF TaskInv, TaskIdsDrawn
  <2>2. QED
    BY <1>0, <1>2, <2>1, SubmitTaskEffect DEF adapterVars
<1>3. CASE SubmitReturns(p)
  BY <1>0, <1>3, SubmitReturnsEffect
<1>4. CASE TouchSession(p)
  BY <1>0, <1>4, TouchSessionEffect
<1>5. CASE PollReturns(p) \/ CancelTask(p)
  BY <1>0, <1>5, PollReturnsEffect, CancelTaskEffect
<1>6. QED
  BY <1>1, <1>2, <1>3, <1>4, <1>5, TaskSteps DEF TaskInv

LEMMA ContractsClient ==
  ASSUME TypeOK, TaskInv, NEW p \in Callers, StartStep(p) \/ CallerStep(p)
  PROVE  ContractsKept'
<1> USE DEF ContractsKept, Kept, OwnStep, OthersKeep
<1>0. UNCHANGED <<serverVars, now>> /\ ContractsKept
  BY TaskSteps DEF TaskInv
<1>1. CASE Aside(p) \/ Polls(p)
  BY <1>0, <1>1 DEF Aside, Polls, adapterVars
<1>2. CASE SubmitTask(p)
  <2>1. \A c \in contracts : c.task_id # lastId + 1
    BY TaskIdTypes DEF TaskInv, TaskIdsDrawn
  <2>2. QED
    BY <1>0, <1>2, <2>1, SubmitTaskEffect DEF adapterVars
<1>3. CASE SubmitReturns(p)
  <2> DEFINE task == frame[p].task
             contract == frame[p].contract
             kept == [task_id |-> task, contract |-> contract]
  <2>1. /\ OwnStep(p) /\ pc[p] = "submit" /\ pc'[p] = "submitted" /\ frame'[p] = frame[p]
        /\ UNCHANGED handles
        /\ contracts' = IF contract = NoContract THEN contracts ELSE contracts \cup {kept}
    BY <1>0, <1>3, SubmitReturnsEffect
  <2>2. kept.task_id = task /\ kept.contract = contract
    OBVIOUS
  <2>3. /\ \A h \in handles : h.task_id # task
        /\ \A q \in Callers \ {p} : Submits(q) => frame[q].task # task
    BY <2>1 DEF TaskInv, OneTaskEach, Submits
  <2>4. \A c \in contracts : c.task_id # task
    BY <1>0, <2>1
  <2> HIDE DEF kept
  <2>5. \A h \in handles' : Kept(h.task_id, h.contract)'
    <3>1. /\ contracts \subseteq contracts' /\ UNCHANGED handles
          /\ \A c \in contracts' : c \in contracts \/ c.task_id = task
      BY <2>1, <2>2
    <3> HIDE DEF task
    <3>2. QED
      BY <1>0, <2>3, <3>1
  <2>6. \A q \in Callers : pc'[q] = "submitted" => Kept(frame[q].task, frame[q].contract)'
    <3>1. Kept(frame[p].task, frame[p].contract)'
      BY <2>1, <2>2, <2>4 DEF kept
    <3>2. \A q \in Callers \ {p} :
            pc'[q] = "submitted" => Kept(frame[q].task, frame[q].contract)'
      BY <1>0, <2>1, <2>2, <2>3 DEF Submits
    <3>3. QED
      BY <3>1, <3>2
  <2>7. \A q \in Callers, c \in contracts' : pc'[q] = "submit" => c.task_id # frame'[q].task
    BY <1>0, <2>1, <2>2, <2>3 DEF Submits
  <2>8. QED
    BY <2>5, <2>6, <2>7
<1>4. CASE TouchSession(p)
  BY <1>0, <1>4, TouchSessionEffect
<1>5. CASE PollReturns(p) \/ CancelTask(p)
  BY <1>0, <1>5, PollReturnsEffect, CancelTaskEffect
<1>6. QED
  BY <1>1, <1>2, <1>3, <1>4, <1>5, TaskSteps DEF TaskInv

-------------------------------------------------------------------------------
(* Requests, replies and outcomes *)

LEMMA PollsClient ==
  ASSUME TypeOK, TaskInv, NEW p \in Callers, StartStep(p) \/ CallerStep(p)
  PROVE  PollsHandle'
<1> USE DEF PollsHandle, OwnStep, OthersKeep
<1>0. UNCHANGED <<serverVars, now>> /\ PollsHandle
  BY TaskSteps DEF TaskInv
<1>1. ASSUME OwnStep(p), handles \subseteq handles',
             pc'[p] \in {"polling", "polled"} => \E h \in handles' : PollOf(p, h)'
      PROVE  PollsHandle'
  <2>1. ASSUME NEW q \in Callers \ {p}, pc'[q] \in {"polling", "polled"}
        PROVE  \E h \in handles' : PollOf(q, h)'
    <3>1. PICK h \in handles : PollOf(q, h)
      BY <1>0, <1>1, <2>1
    <3>2. PollOf(q, h)'
      BY <1>1, <3>1 DEF PollOf
    <3>3. QED
      BY <1>1, <3>1, <3>2
  <2>2. QED
    BY <1>1, <2>1
<1> HIDE DEF OwnStep
<1>2. CASE Aside(p) \/ Polls(p)
  BY <1>1, <1>2 DEF Aside, Polls, adapterVars
<1>3. CASE SubmitTask(p) \/ SubmitReturns(p) \/ CancelTask(p)
  BY <1>0, <1>1, <1>3, SubmitTaskEffect, SubmitReturnsEffect, CancelTaskEffect DEF adapterVars
<1>4. CASE TouchSession(p)
  <2> DEFINE h == [task_id |-> frame[p].task, url |-> frame[p].url,
                   session_id |-> frame[p].session.session_id, op |-> frame[p].op,
                   payload_mode |-> frame[p].session.payload_mode,
                   contract |-> frame[p].contract]
  <2>1. /\ OwnStep(p) /\ handles' = handles \cup {h}
        /\ \/ frame[p].op = "stream" /\ frame'[p] = frame[p]
           \/ pc'[p] = "idle"
    BY <1>0, <1>4, TouchSessionEffect
  <2>2. pc'[p] # "idle" => PollOf(p, h)'
    BY <2>1 DEF PollOf
  <2>3. QED
    BY <1>1, <2>1, <2>2
<1>5. CASE PollReturns(p)
  <2>1. /\ OwnStep(p) /\ pc[p] = "polled" /\ UNCHANGED handles
        /\ \/ frame'[p] = frame[p]
           \/ pc'[p] = "idle"
    BY <1>0, <1>5, PollReturnsEffect
  <2>2. PICK h \in handles : PollOf(p, h)
    BY <1>0, <2>1
  <2>3. pc'[p] # "idle" => PollOf(p, h)'
    BY <2>1, <2>2 DEF PollOf
  <2>4. QED
    BY <1>1, <2>1, <2>2, <2>3
<1>6. QED
  BY <1>2, <1>3, <1>4, <1>5, TaskSteps DEF TaskInv

LEMMA RequestsClient ==
  ASSUME TypeOK, SessionInv, TaskInv, NEW p \in Callers, StartStep(p) \/ CallerStep(p)
  PROVE  TaskRequests'
<1> USE DEF TaskRequests
<1>0. UNCHANGED <<serverVars, now>> /\ Quiet(p) /\ TaskRequests
  BY TaskSteps, OwnQuiet DEF TaskInv
<1> DEFINE About(r) ==
             /\ r.msg.type # "session_close" => r.msg.signature = ClientSecret
             /\ r.msg.type \in {"task_submit", "task_update"} => r.msg.task_id = frame'[p].task
             /\ r.msg.type \in {"task_update", "task_cancel"} =>
                  \E h \in handles' : h.task_id = r.msg.task_id /\ h.url = r.to
             /\ r.msg.type = "task_cancel" => r.msg.task_id \in cancelled'
<1>1. ASSUME OwnStep(p), handles \subseteq handles', cancelled \subseteq cancelled',
             \A r \in requests' \ requests : About(r)
      PROVE  TaskRequests'
  <2>1. ASSUME NEW r \in requests, r.conn # NoConn
        PROVE  frame'[r.conn] = frame[r.conn]
    BY <1>0, <1>1, <2>1, RequestFields DEF OwnStep, OthersKeep, Quiet
  <2>2. \A r \in requests' \ requests : r.conn = p
    BY <1>1 DEF OwnStep
  <2>3. QED
    BY <1>0, <1>1, <2>1, <2>2
<1>2. CASE Aside(p)
  BY <1>1, <1>2 DEF Aside, adapterVars
<1>3. CASE Polls(p)
  <2>1. PICK h \in handles : PollOf(p, h)'
    BY <1>3 DEF Polls
  <2>2. \A r \in requests' \ requests :
          /\ r.msg.type = "task_update" /\ r.msg.task_id = frame'[p].task
          /\ r.msg.signature = ClientSecret /\ r.to = frame'[p].url
    BY <1>3 DEF Polls, OwnStep
  <2>3. h.task_id = frame'[p].task /\ h.url = frame'[p].url
    BY <2>1 DEF PollOf
  <2>4. QED
    BY <1>1, <1>3, <2>2, <2>3 DEF Polls, adapterVars
<1>4. CASE SubmitTask(p)
  BY <1>0, <1>1, <1>4, SubmitTaskEffect DEF adapterVars
<1>5. CASE SubmitReturns(p) \/ TouchSession(p) \/ PollReturns(p)
  BY <1>0, <1>1, <1>5, SubmitReturnsEffect, TouchSessionEffect, PollReturnsEffect
<1>6. CASE CancelTask(p)
  BY <1>0, <1>1, <1>6, CancelTaskEffect
<1>7. QED
  BY <1>2, <1>3, <1>4, <1>5, <1>6, TaskSteps DEF TaskInv

LEMMA FoundClient ==
  ASSUME TypeOK, TaskInv, NEW p \in Callers, StartStep(p) \/ CallerStep(p)
  PROVE  TasksFound'
<1> USE DEF TasksFound, Ran, SameSecret, TaskIds
<1>0. UNCHANGED <<serverVars, now>> /\ TasksFound
  BY TaskSteps DEF TaskInv
<1>1. ASSUME OwnStep(p), cancelled \subseteq cancelled',
             Accepted(p)' => Accepted(p) /\ frame'[p] = frame[p],
             \A h \in handles' \ handles :
               Accepted(p) /\ h.url = frame[p].url /\ h.task_id = frame[p].task
      PROVE  TasksFound'
  <2>1. UNCHANGED tasks /\ \A r \in requests' : r.stage = "executed" => r \in requests
    BY <1>1 DEF OwnStep
  <2>2. \A q \in Callers : Accepted(q)' => Accepted(q) /\ frame'[q] = frame[q]
    BY <1>1 DEF OwnStep, OthersKeep, Accepted, Answered
  <2>3. QED
    BY <1>0, <1>1, <2>1, <2>2
<1>2. CASE Aside(p) \/ Polls(p)
  BY <1>1, <1>2 DEF Aside, Polls, adapterVars, Accepted
<1>3. CASE SubmitTask(p)
  BY <1>0, <1>1, <1>3, SubmitTaskEffect DEF adapterVars, Accepted, OwnStep, Answered, NoReply
<1>4. CASE SubmitReturns(p)
  BY <1>0, <1>1, <1>4, SubmitReturnsEffect
<1>5. CASE TouchSession(p)
  BY <1>0, <1>1, <1>5, TouchSessionEffect DEF Accepted
<1>6. CASE PollReturns(p) \/ CancelTask(p)
  BY <1>0, <1>1, <1>6, PollReturnsEffect, CancelTaskEffect DEF Accepted
<1>7. QED
  BY <1>2, <1>3, <1>4, <1>5, <1>6, TaskSteps DEF TaskInv

LEMMA AnsweredClient ==
  ASSUME TypeOK, TaskInv, NEW p \in Callers, StartStep(p) \/ CallerStep(p)
  PROVE  PollsAnswered'
<1>1. ASSUME OwnStep(p), cancelled \subseteq cancelled'
      PROVE  PollsAnswered'
  BY <1>1 DEF TaskInv, PollsAnswered, OwnStep, OthersKeep, Answered, NoReply
<1>2. UNCHANGED <<serverVars, now>>
  BY TaskSteps DEF TaskInv
<1>3. CASE Aside(p) \/ Polls(p)
  BY <1>1, <1>3 DEF Aside, Polls, adapterVars
<1>4. CASE SubmitTask(p) \/ SubmitReturns(p) \/ TouchSession(p)
  BY <1>1, <1>2, <1>4, SubmitTaskEffect, SubmitReturnsEffect, TouchSessionEffect DEF adapterVars
<1>5. CASE PollReturns(p) \/ CancelTask(p)
  BY <1>1, <1>2, <1>5, PollReturnsEffect, CancelTaskEffect
<1>6. QED
  BY <1>3, <1>4, <1>5, TaskSteps DEF TaskInv

(* A poll validates against the contract its task was submitted with, in  *)
(* stream, which has captured it, and in status, which looks it up.       *)
LEMMA ContractPolled ==
  ASSUME ContractsKept, NEW p \in Callers, NEW h \in handles, PollOf(p, h)
  PROVE  ContractOf(p) = h.contract
<1> DEFINE stored == {c \in contracts : c.task_id = frame[p].task}
<1>1. CASE frame[p].op = "stream"
  BY <1>1 DEF ContractOf, PollOf
<1>2. CASE frame[p].op # "stream"
  <2>1. ContractOf(p) = IF stored = {} THEN NoContract ELSE (CHOOSE c \in stored : TRUE).contract
    BY <1>2 DEF ContractOf
  <2>2. Kept(frame[p].task, h.contract)
    BY DEF ContractsKept, PollOf
  <2>3. CASE stored = {}
    <3>1. [task_id |-> frame[p].task, contract |-> h.contract] \notin contracts
      BY <2>3
    <3>2. QED
      BY <2>1, <2>2, <2>3, <3>1 DEF Kept
  <2>4. CASE stored # {}
    <3>1. (CHOOSE c \in stored : TRUE) \in stored
      BY <2>4
    <3>2. (CHOOSE c \in stored : TRUE).contract = h.contract
      BY <2>2, <3>1 DEF Kept
    <3>3. QED
      BY <2>1, <2>4, <3>2
  <2>5. QED
    BY <2>3, <2>4
<1>3. QED
  BY <1>1, <1>2

LEMMA PolledEffect ==
  ASSUME ContractsKept, NEW p \in Callers, NEW h \in handles, PollOf(p, h)
  PROVE  /\ OutcomeOf(PolledOutcome(p), h)
         /\ PolledOutcome(p).result = "completed" =>
              ~(Violated(h.contract) /\ h.contract.policy = "fail_closed")
         /\ PolledOutcome(p).result = "completed" /\ h.op = "invoke" /\ Violated(h.contract)
              => PolledOutcome(p).satisfied = "no"
         /\ PolledOutcome(p).result = "failed" =>
              Answered(p, "error") \/ Answered(p, "task_failed")
<1>1. ContractOf(p) = h.contract /\ (Violated(h.contract) => h.contract # NoContract)
  BY ContractPolled DEF Violated
<1>2. /\ h.task_id = frame[p].task
      /\ h.op = "invoke" => frame[p].op # "stream"
      /\ frame[p].op # "stream" => h.op = "invoke"
  BY DEF PollOf
<1>3. CASE Answered(p, "task_result")
  BY <1>1, <1>2, <1>3 DEF PolledOutcome, ResultOutcome, Outcome, OutcomeOf, InBreach
<1>4. CASE ~Answered(p, "task_result")
  BY <1>2, <1>4 DEF PolledOutcome, Outcome, OutcomeOf, InBreach
<1>5. QED
  BY <1>3, <1>4

(* Whatever is recorded comes after all that was. *)
LEMMA RecordedEffect ==
  ASSUME AdapterTypeOK, NEW outcome
  PROVE  /\ DOMAIN outcomes = 1..Len(outcomes) /\ Len(outcomes) \in Nat
         /\ \A i \in DOMAIN Recorded(outcome) :
              \/ i \in DOMAIN outcomes /\ Recorded(outcome)[i] = outcomes[i]
              \/ i = Len(outcomes) + 1 /\ Recorded(outcome)[i] = outcome
<1>1. outcomes \in Seq(Report)
  BY DEF AdapterTypeOK
<1>2. DOMAIN outcomes = 1..Len(outcomes) /\ Len(outcomes) \in Nat
  BY <1>1
<1>3. /\ DOMAIN Append(outcomes, outcome) = 1..(Len(outcomes) + 1)
      /\ \A i \in 1..Len(outcomes) : Append(outcomes, outcome)[i] = outcomes[i]
      /\ Append(outcomes, outcome)[Len(outcomes) + 1] = outcome
  BY <1>1
<1>4. QED
  BY <1>2, <1>3 DEF Recorded

LEMMA OutcomesClient ==
  ASSUME TypeOK, TaskInv, NEW p \in Callers, StartStep(p) \/ CallerStep(p)
  PROVE  OutcomesExplained' /\ PollFailsOnlyIfCancelled' /\ BreachIsFinal'
<1>0. UNCHANGED <<serverVars, now>>
  BY TaskSteps DEF TaskInv
<1>1. \A o, h : OutcomeOf(o, h)' = OutcomeOf(o, h)
  BY <1>0 DEF OutcomeOf, InBreach, Violated
<1>2. CASE UNCHANGED outcomes /\ handles \subseteq handles' /\ cancelled \subseteq cancelled'
  BY <1>1, <1>2 DEF TaskInv, OutcomesExplained, PollFailsOnlyIfCancelled, BreachIsFinal, InBreach
<1>3. CASE Aside(p) \/ Polls(p)
  BY <1>2, <1>3 DEF Aside, Polls, adapterVars
<1>4. CASE SubmitTask(p) \/ SubmitReturns(p)
  BY <1>0, <1>2, <1>4, SubmitTaskEffect, SubmitReturnsEffect DEF adapterVars
<1>5. CASE TouchSession(p) \/ CancelTask(p)
  BY <1>0, <1>2, <1>5, TouchSessionEffect, CancelTaskEffect
<1>6. CASE PollReturns(p)
  <2> DEFINE o == PolledOutcome(p)
             last == Len(outcomes) + 1
  <2>1. /\ pc[p] = "polled" /\ UNCHANGED <<handles, cancelled>>
        /\ outcomes' = Recorded(o)
    BY <1>0, <1>6, PollReturnsEffect
  <2>2. PICK h \in handles : PollOf(p, h)
    BY <2>1 DEF TaskInv, PollsHandle
  <2>3. /\ OutcomeOf(o, h)
        /\ o.result = "completed" => ~(Violated(h.contract) /\ h.contract.policy = "fail_closed")
        /\ o.result = "completed" /\ h.op = "invoke" /\ Violated(h.contract)
             => o.satisfied = "no"
        /\ o.result = "failed" => Answered(p, "error") \/ Answered(p, "task_failed")
    BY <2>2, PolledEffect DEF TaskInv
  <2>4. ~NetworkFails /\ o.result = "failed" => o.task_id \in cancelled
    BY <2>1, <2>2, <2>3 DEF TaskInv, PollsAnswered, PollOf, OutcomeOf
  <2>5. \A i \in DOMAIN outcomes :
          /\ \E g \in handles : OutcomeOf(outcomes[i], g)
          /\ ~NetworkFails /\ outcomes[i].result = "failed" => outcomes[i].task_id \in cancelled
    BY DEF TaskInv, OutcomesExplained, PollFailsOnlyIfCancelled
  <2>6. ASSUME NEW i \in DOMAIN outcomes, outcomes[i].task_id = o.task_id,
               InBreach(outcomes[i]), o.result = "completed"
        PROVE  o.satisfied = "no"
    <3>1. PICK g \in handles : OutcomeOf(outcomes[i], g)
      BY <2>5
    <3>2. g = h
      BY <2>3, <2>6, <3>1 DEF TaskInv, OneTaskEach, OutcomeOf
    <3>3. QED
      BY <2>3, <2>6, <3>1, <3>2 DEF OutcomeOf, InBreach
  <2> HIDE DEF o
  <2>7. /\ DOMAIN outcomes = 1..(last - 1) /\ last - 1 \in Nat
        /\ \A i \in DOMAIN outcomes' :
             \/ i \in DOMAIN outcomes /\ outcomes'[i] = outcomes[i]
             \/ i = last /\ outcomes'[i] = o
    BY <2>1, RecordedEffect DEF TypeOK
  <2>8. OutcomesExplained' /\ PollFailsOnlyIfCancelled'
    BY <1>1, <2>1, <2>3, <2>4, <2>5, <2>7 DEF OutcomesExplained, PollFailsOnlyIfCancelled
  <2>9. BreachIsFinal'
    <3> SUFFICES ASSUME NEW i \in DOMAIN outcomes', NEW j \in DOMAIN outcomes', i < j,
                        outcomes'[i].task_id = outcomes'[j].task_id,
                        InBreach(outcomes'[i]), outcomes'[j].result = "completed"
                 PROVE  outcomes'[j].satisfied = "no"
      BY DEF BreachIsFinal, InBreach
    <3>1. i \in DOMAIN outcomes /\ outcomes'[i] = outcomes[i]
      BY <2>7
    <3>2. CASE j \in DOMAIN outcomes /\ outcomes'[j] = outcomes[j]
      BY <3>1, <3>2 DEF TaskInv, BreachIsFinal
    <3>3. CASE outcomes'[j] = o
      BY <2>6, <3>1, <3>3
    <3>4. QED
      BY <2>7, <3>2, <3>3
  <2>10. QED
    BY <2>8, <2>9
<1>7. QED
  BY <1>3, <1>4, <1>5, <1>6, TaskSteps DEF TaskInv

LEMMA TaskClient ==
  ASSUME TypeOK, SessionInv, TaskInv, NEW p \in Callers, StartStep(p) \/ CallerStep(p)
  PROVE  TaskInv'
BY NamedClient, DrawnClient, OneTaskClient, ContractsClient, PollsClient, RequestsClient,
   FoundClient, AnsweredClient, OutcomesClient DEF TaskInv

-------------------------------------------------------------------------------
(* The delegates' steps *)

(* A client of u that has had a task run there is admitted by u. *)
LEMMA SignedAdmitted ==
  ASSUME NEW u, NEW msg, msg.signature = ClientSecret, SameSecret(u)
  PROVE  Admitted(u, msg)
BY DEF SameSecret, Admitted

LEMMA AdmittedSigned ==
  ASSUME NEW u, NEW msg, msg.signature = ClientSecret, msg.type # "hello", Admitted(u, msg)
  PROVE  SameSecret(u)
BY DEF SameSecret, Admitted

(* The parts of TaskInv that say nothing of requests and replies. *)
LEMMA ClientPartsStay ==
  ASSUME TaskInv, UNCHANGED <<pc, frame, lastId, adapterVars, now>>
  PROVE  /\ OperationsNamed' /\ TaskIdsDrawn' /\ OneTaskEach' /\ ContractsKept'
         /\ PollsHandle' /\ OutcomesExplained' /\ PollFailsOnlyIfCancelled' /\ BreachIsFinal'
<1> USE DEF adapterVars, TaskInv
<1>1. OperationsNamed' /\ TaskIdsDrawn' /\ OneTaskEach'
  BY DEF OperationsNamed, TaskIdsDrawn, OneTaskEach, Submits
<1>2. ContractsKept'
  BY DEF ContractsKept, Kept
<1>3. PollsHandle'
  BY DEF PollsHandle, PollOf
<1>4. OutcomesExplained' /\ PollFailsOnlyIfCancelled' /\ BreachIsFinal'
  BY DEF OutcomesExplained, OutcomeOf, InBreach, Violated, PollFailsOnlyIfCancelled, BreachIsFinal
<1>5. QED
  BY <1>1, <1>2, <1>3, <1>4

LEMMA TaskServer ==
  ASSUME TypeInv, SessionInv, TaskInv, NEW conn \in Callers \cup {NoConn}, ServerStep(conn)
  PROVE  TaskInv'
<1> USE DEF TypeInv
<1>0. UNCHANGED <<pc, frame, lastId, adapterVars, now>>
  BY DelegateSteps DEF clientVars, managerVars
<1>1. ASSUME TaskRequests', TasksFound', PollsAnswered' PROVE TaskInv'
  BY <1>0, <1>1, ClientPartsStay DEF TaskInv
<1>2. TaskRequests /\ TasksFound /\ PollsAnswered
  BY DEF TaskInv
<1>3. /\ UNCHANGED <<handles, cancelled>>
      /\ \A h \in handles : h.url \in Urls
      /\ \A q \in Callers : frame[q].url \in Urls
  BY <1>0, FrameFields DEF adapterVars, TypeOK, AdapterTypeOK, Handle
<1>4. ASSUME NEW r \in requests, NEW reply, Answers(r, reply),
             \A u \in Urls : TaskIds(u) \subseteq TaskIds(u)' \cup cancelled,
             \A u \in Urls : \A t \in tasks'[u] : t.state = "completed",
             r.conn \in Callers /\ pc[r.conn] = "submit" /\ reply.type # "error" =>
               Ran(r.to, r.msg.task_id),
             r.conn \in Callers /\ pc[r.conn] = "polled" /\ reply.type \in {"error", "task_failed"}
               => r.msg.task_id \in cancelled
      PROVE  TaskInv'
  <2>1. TaskRequests'
    BY <1>0, <1>2, <1>3, <1>4 DEF TaskRequests, Answers
  <2>2. \A u \in Urls : \A id : Ran(u, id) => Ran(u, id)'
    BY <1>3, <1>4 DEF Ran, SameSecret
  <2>3. ASSUME r.conn \in Callers, pc[r.conn] = "submit"
        PROVE  frame[r.conn].url = r.to /\ frame[r.conn].task = r.msg.task_id
    <3>1. r.msg.type = "task_submit"
      BY <2>3, RequestFields, MessageFields DEF SessionInv, RequestsAwaited, AwaitOf, HandledTypes
    <3>2. QED
      BY <1>2, <2>3, <3>1, Awaiting DEF TaskRequests
  <2>4. ASSUME r.conn \in Callers, pc[r.conn] = "polled"
        PROVE  frame[r.conn].task = r.msg.task_id
    <3>1. r.msg.type = "task_update"
      BY <2>4, RequestFields, MessageFields DEF SessionInv, RequestsAwaited, AwaitOf, HandledTypes
    <3>2. QED
      BY <1>2, <2>4, <3>1 DEF TaskRequests
  <2>5. ASSUME NEW q \in Callers, Accepted(q)'
        PROVE  Ran(frame[q].url, frame[q].task)
    <3>1. CASE Accepted(q)
      BY <1>2, <3>1 DEF TasksFound
    <3>2. CASE ~Accepted(q)
      <4>1. /\ q = r.conn /\ pc[q] = "submit" /\ reply.type # "error"
        BY <1>0, <1>4, <2>5, <3>2 DEF Accepted, Answered, Answers
      <4>2. QED
        BY <1>4, <2>3, <4>1
    <3>3. QED
      BY <3>1, <3>2
  <2>6. TasksFound'
    <3>1. \A q \in requests' : q.stage = "executed" => Ran(q.to, q.msg.task_id)'
      BY <1>2, <1>4, <2>2, RequestFields DEF Answers, TasksFound
    <3>2. \A q \in Callers, u \in Urls, id \in Nat :
            Accepted(q)' /\ frame[q].url = u /\ frame[q].task = id => Ran(u, id)'
      BY <2>2, <2>5
    <3>3. \A q \in Callers : Accepted(q)' => Ran(frame[q].url, frame[q].task)'
      BY <1>0, <1>3, <3>2, TaskIdTypes DEF Ran, SameSecret, TaskIds
    <3>4. \A h \in handles' : Ran(h.url, h.task_id)'
      BY <1>2, <1>3, <2>2 DEF TasksFound
    <3>5. QED
      BY <1>4, <3>1, <3>3, <3>4 DEF TasksFound
  <2>7. PollsAnswered'
    BY <1>0, <1>2, <1>3, <1>4, <2>4 DEF PollsAnswered, Answers, Answered
  <2>8. QED
    BY <1>1, <2>1, <2>6, <2>7
<1>5. PICK r \in requests :
        \/ Declines(r) \/ AcceptSession(r) \/ HandleSessionClose(r)
        \/ RunTask(r) \/ ReturnResult(r)
        \/ HandleTaskStatusQuery(r) \/ HandleTaskCancel(r)
  BY DelegateSteps
<1>6. /\ r.to \in Urls
      /\ r.msg.type # "session_close" => r.msg.signature = ClientSecret
      /\ r.msg.type \in {"task_update", "task_cancel"} => Ran(r.to, r.msg.task_id)
      /\ \A u \in Urls : \A t \in tasks[u] : t.state = "completed"
  BY <1>2, RequestFields DEF TaskRequests, TasksFound
<1>7. CASE Declines(r)
  <2>1. PICK reply : /\ Answers(r, reply)
                     /\ \/ reply.type = "error" /\ ~Admitted(r.to, r.msg)
                        \/ r.msg.type \in {"hello", "session_propose"}
    BY <1>7, DeclinesEffect
  <2>2. UNCHANGED tasks
    BY <1>7, DeclinesEffect
  <2>3. r.msg.type = "task_update" => Admitted(r.to, r.msg)
    BY <1>6, SignedAdmitted DEF Ran
  <2>4. ASSUME r.conn \in Callers, pc[r.conn] = "submit" PROVE reply.type = "error"
    BY <2>1, <2>4, Awaiting
  <2>5. ASSUME r.conn \in Callers, pc[r.conn] = "polled" PROVE FALSE
    <3>1. r.msg.type \notin {"hello", "session_propose", "session_close", "task_submit",
                             "task_cancel"}
      BY <2>5, Awaiting
    <3>2. r.msg.type = "task_update"
      BY <3>1, RequestFields, MessageFields DEF HandledTypes
    <3>3. QED
      BY <2>1, <2>3, <3>2
  <2>6. QED
    BY <1>4, <1>6, <2>1, <2>2, <2>4, <2>5 DEF TaskIds
<1>8. CASE AcceptSession(r) \/ HandleSessionClose(r)
  <2>1. /\ r.msg.type \in {"session_propose", "session_close"}
        /\ UNCHANGED tasks
        /\ \E reply : Answers(r, reply)
    BY <1>8, AcceptSessionEffect, HandleSessionCloseEffect
  <2>2. r.conn \in Callers => pc[r.conn] \notin {"submit", "polled"}
    BY <2>1, Awaiting
  <2>3. QED
    BY <1>4, <1>6, <2>1, <2>2 DEF TaskIds
<1>9. CASE RunTask(r)
  <2>1. /\ r.msg.type = "task_submit" /\ Admitted(r.to, r.msg)
        /\ UNCHANGED replies
        /\ \A u \in Urls : u # r.to => tasks'[u] = tasks[u]
        /\ tasks'[r.to] = WithoutTask(r.to, r.msg.task_id)
                            \cup {[task_id |-> r.msg.task_id, state |-> "completed"]}
    BY <1>9, RunTaskEffect
  <2>2. \A q \in requests' :
          \/ q \in requests
          \/ q.conn = r.conn /\ q.to = r.to /\ q.msg = r.msg
    BY <1>9, RunTaskEffect
  <2>3. /\ \A u \in Urls : TaskIds(u) \subseteq TaskIds(u)'
        /\ r.msg.task_id \in TaskIds(r.to)'
        /\ \A u \in Urls : \A t \in tasks'[u] : t.state = "completed"
    <3> DEFINE record == [task_id |-> r.msg.task_id, state |-> "completed"]
    <3>1. record.task_id = r.msg.task_id /\ record.state = "completed"
      OBVIOUS
    <3>2. tasks'[r.to] = WithoutTask(r.to, r.msg.task_id) \cup {record}
      BY <2>1
    <3> HIDE DEF record
    <3>3. TaskIds(r.to) \subseteq TaskIds(r.to)' /\ r.msg.task_id \in TaskIds(r.to)'
      BY <3>1, <3>2 DEF TaskIds, WithoutTask
    <3>4. \A t \in tasks'[r.to] : t.state = "completed"
      BY <1>6, <3>1, <3>2 DEF WithoutTask
    <3>5. \A u \in Urls : u # r.to => TaskIds(u)' = TaskIds(u)
      BY <2>1 DEF TaskIds
    <3>6. QED
      BY <1>6, <2>1, <3>3, <3>4, <3>5
  <2>4. SameSecret(r.to)
    BY <1>6, <2>1, AdmittedSigned
  <2>5. TaskRequests'
    BY <1>0, <1>2, <1>3, <2>2 DEF TaskRequests
  <2>6. \A u \in Urls : \A id : Ran(u, id) => Ran(u, id)'
    BY <1>3, <2>3 DEF Ran, SameSecret
  <2>7. Ran(r.to, r.msg.task_id)'
    BY <2>3, <2>4 DEF Ran, SameSecret
  <2>8. TasksFound'
    <3>1. \A q \in requests' : q.stage = "executed" => Ran(q.to, q.msg.task_id)'
      BY <1>2, <2>2, <2>6, <2>7, RequestFields DEF TasksFound
    <3>2. \A q \in Callers, u \in Urls, id \in Nat :
            Accepted(q)' /\ frame[q].url = u /\ frame[q].task = id => Ran(u, id)'
      BY <1>0, <1>2, <2>1, <2>6 DEF Accepted, Answered, TasksFound
    <3>3. \A q \in Callers : Accepted(q)' => Ran(frame[q].url, frame[q].task)'
      BY <1>0, <1>3, <3>2, TaskIdTypes DEF Ran, SameSecret, TaskIds
    <3>4. \A h \in handles' : Ran(h.url, h.task_id)'
      BY <1>2, <1>3, <2>6 DEF TasksFound
    <3>5. QED
      BY <2>3, <3>1, <3>3, <3>4 DEF TasksFound
  <2>9. PollsAnswered'
    BY <1>0, <1>2, <1>3, <2>1 DEF PollsAnswered, Answered
  <2>10. QED
    BY <1>1, <2>5, <2>8, <2>9
<1>10. CASE ReturnResult(r)
  <2>1. /\ r.stage = "executed" /\ r.msg.type = "task_submit" /\ UNCHANGED tasks
        /\ \E reply : Answers(r, reply) /\ reply.type = "task_result"
    BY <1>10, ReturnResultEffect
  <2>2. Ran(r.to, r.msg.task_id)
    BY <1>2, <2>1 DEF TasksFound
  <2>3. QED
    BY <1>4, <1>6, <2>1, <2>2 DEF TaskIds
<1>11. CASE HandleTaskStatusQuery(r)
  <2>1. PICK reply :
          /\ Answers(r, reply)
          /\ r.msg.task_id \in TaskIds(r.to) =>
               reply = StatusReply(CHOOSE t \in tasks[r.to] : t.task_id = r.msg.task_id)
    BY <1>11, HandleTaskStatusQueryEffect
  <2>2. r.msg.type = "task_update" /\ UNCHANGED tasks
    BY <1>11, HandleTaskStatusQueryEffect
  <2>3. r.conn \in Callers => pc[r.conn] = "polled"
    BY <2>2, Awaiting
  <2>4. r.msg.task_id \in TaskIds(r.to) => reply.type = "task_result"
    <3>1. SUFFICES ASSUME r.msg.task_id \in TaskIds(r.to) PROVE reply.type = "task_result"
      OBVIOUS
    <3>2. (CHOOSE t \in tasks[r.to] : t.task_id = r.msg.task_id) \in tasks[r.to]
      BY <3>1 DEF TaskIds
    <3>3. (CHOOSE t \in tasks[r.to] : t.task_id = r.msg.task_id).state = "completed"
      BY <1>6, <3>2
    <3>4. QED
      BY <2>1, <3>1, <3>3 DEF StatusReply
  <2>5. r.msg.task_id \in TaskIds(r.to) \cup cancelled
    BY <1>6, <2>2 DEF Ran
  <2>6. QED
    BY <1>4, <1>6, <2>1, <2>2, <2>3, <2>4, <2>5 DEF TaskIds
<1>12. CASE HandleTaskCancel(r)
  <2>1. /\ r.msg.type = "task_cancel"
        /\ \E reply : Answers(r, reply)
        /\ \A u \in Urls : u # r.to => tasks'[u] = tasks[u]
        /\ tasks'[r.to] = WithoutTask(r.to, r.msg.task_id)
    BY <1>12, HandleTaskCancelEffect
  <2>2. r.msg.task_id \in cancelled
    BY <1>2, <2>1 DEF TaskRequests
  <2>3. /\ \A u \in Urls : TaskIds(u) \subseteq TaskIds(u)' \cup cancelled
        /\ \A u \in Urls : \A t \in tasks'[u] : t.state = "completed"
    BY <1>6, <2>1, <2>2 DEF TaskIds, WithoutTask
  <2>4. r.conn \in Callers => pc[r.conn] \notin {"submit", "polled"}
    BY <2>1, Awaiting
  <2>5. QED
    BY <1>4, <2>1, <2>3, <2>4
<1>13. QED
  BY <1>5, <1>7, <1>8, <1>9, <1>10, <1>11, <1>12

LEMMA TaskNetwork ==
  ASSUME TypeOK, SessionInv, TaskInv, NEW p \in Callers, NetworkStep(p)
  PROVE  TaskInv'
<1>0. /\ UNCHANGED <<pc, frame, lastId, adapterVars, now, tasks>> /\ NetworkFails
      /\ \A q \in Callers \ {p} : replies'[q] = replies[q]
      /\ replies'[p].type = "error"
  BY NetworkEffect DEF clientVars, managerVars, serverVars, Failure
<1>1. \A r \in requests' :
        \/ r \in requests
        \/ \E s \in requests : /\ r.conn = NoConn /\ r.to = s.to
                               /\ r.stage = s.stage /\ r.msg = s.msg
  BY NetworkEffect
<1>2. UNCHANGED <<handles, cancelled>>
  BY <1>0 DEF adapterVars
<1>3. TaskRequests'
  BY <1>0, <1>1, <1>2 DEF TaskInv, TaskRequests
<1>4. \A q \in Callers : Accepted(q)' => Accepted(q)
  BY <1>0 DEF Accepted, Answered
<1>5. TasksFound'
  BY <1>0, <1>1, <1>2, <1>4 DEF TaskInv, TasksFound, Ran, SameSecret, TaskIds
<1>6. PollsAnswered'
  BY <1>0 DEF PollsAnswered
<1>7. QED
  BY <1>0, <1>3, <1>5, <1>6, ClientPartsStay DEF TaskInv

LEMMA TaskClock ==
  ASSUME TypeOK, TaskInv, ClockStep
  PROVE  TaskInv'
<1>0. /\ UNCHANGED <<requests, replies, pc, frame, lastId, contracts, handles, cancelled,
                     outcomes, tasks>>
      /\ now \in Nat /\ now' = now + 1
  BY DEF ClockStep, Tick, transportVars, serverVars, clientVars, managerVars, adapterVars, TypeOK
<1>1. OperationsNamed' /\ TaskIdsDrawn' /\ OneTaskEach' /\ ContractsKept' /\ PollsHandle'
  BY <1>0 DEF TaskInv, OperationsNamed, TaskIdsDrawn, OneTaskEach, Submits, ContractsKept, Kept,
     PollsHandle, PollOf
<1>2. TaskRequests' /\ TasksFound' /\ PollsAnswered' /\ PollFailsOnlyIfCancelled'
  BY <1>0 DEF TaskInv, TaskRequests, TasksFound, Ran, SameSecret, TaskIds, Accepted, Answered,
     PollsAnswered, PollFailsOnlyIfCancelled
<1>3. \A h \in handles : Violated(h.contract) => Violated(h.contract)'
  <2>1. \A h \in handles : h.contract.deadline \in Nat
    BY DEF TypeOK, AdapterTypeOK, Handle, Contract
  <2>2. QED
    BY <1>0, <2>1 DEF Violated
<1>4. OutcomesExplained' /\ BreachIsFinal'
  BY <1>0, <1>3 DEF TaskInv, OutcomesExplained, OutcomeOf, InBreach, BreachIsFinal
<1>5. QED
  BY <1>1, <1>2, <1>4 DEF TaskInv

LEMMA TaskIdle ==
  ASSUME TaskInv, Finished \/ UNCHANGED vars
  PROVE  TaskInv'
<1>0. UNCHANGED <<requests, replies, pc, frame, lastId, adapterVars, now, tasks>>
  BY DEF Finished, vars, transportVars, serverVars, clientVars, managerVars
<1>1. TaskRequests' /\ TasksFound' /\ PollsAnswered'
  BY <1>0 DEF TaskInv, TaskRequests, TasksFound, Ran, SameSecret, TaskIds, Accepted, Answered,
     PollsAnswered, adapterVars
<1>2. QED
  BY <1>0, <1>1, ClientPartsStay DEF TaskInv

LEMMA InitTask == Init => TaskInv
<1> SUFFICES ASSUME Init PROVE TaskInv
  OBVIOUS
<1>1. /\ requests = {} /\ handles = {} /\ contracts = {} /\ outcomes = <<>>
      /\ \A p \in Callers : pc[p] = "idle"
      /\ \A u \in Urls : tasks[u] = {}
  BY DEF Init, TransportInit, ServerInit, ManagerInit, AdapterInit
<1>2. QED
  BY <1>1 DEF TaskInv, OperationsNamed, TaskIdsDrawn, OneTaskEach, Submits, ContractsKept,
     PollsHandle, TaskRequests, TasksFound, Accepted, PollsAnswered, OutcomesExplained,
     PollFailsOnlyIfCancelled, BreachIsFinal

LEMMA NextTask == TypeInv /\ SessionInv /\ TaskInv /\ [Next]_vars => TaskInv'
BY TaskClient, TaskServer, TaskNetwork, TaskClock, TaskIdle DEF Next, TypeInv

LEMMA TasksInvariant == Spec => []TaskInv
BY TypesAlwaysOK, SessionInvariant, InitTask, NextTask, PTL DEF Spec

-------------------------------------------------------------------------------
(* What follows *)

(* A task invoke() has returned a handle for can be polled at its delegate *)
(* until somebody cancels it, however its session fares.                   *)
THEOREM HandlesPollable == Spec => []HandlePollable
<1>1. TaskInv => HandlePollable
  BY DEF TaskInv, TasksFound, Ran, HandlePollable
<1>2. QED
  BY <1>1, TasksInvariant, PTL

(* As long as connections hold, a poll fails only for a cancelled task: no *)
(* signature is refused half way and no record is lost.                    *)
THEOREM PollsFailOnlyIfCancelled == Spec => []PollFailsOnlyIfCancelled
<1>1. TaskInv => PollFailsOnlyIfCancelled
  BY DEF TaskInv
<1>2. QED
  BY <1>1, TasksInvariant, PTL

(* status() reports on the contract of every invoked task that has one:    *)
(* invoke() has stored the contract before anyone holds the handle.        *)
THEOREM ContractsReported == Spec => []ContractReported
<1>1. TaskInv => ContractReported
  BY DEF TaskInv, OutcomesExplained, OutcomeOf, OneTaskEach, ContractReported
<1>2. QED
  BY <1>1, TasksInvariant, PTL

(* Once anybody was told that a task breached its contract, nobody is told *)
(* later that it completed within it: a deadline stays missed, and every    *)
(* poll validates against the contract the task was submitted with.         *)
THEOREM BreachesAreFinal == Spec => []BreachIsFinal
<1>1. TaskInv => BreachIsFinal
  BY DEF TaskInv
<1>2. QED
  BY <1>1, TasksInvariant, PTL

(* The whole of the inductive invariant, in every interleaving of tasks,   *)
(* delegates, the network and the clock.                                   *)
THEOREM SystemInvariant == Spec => []SystemInv
<1>1. SessionInv /\ TrustInv /\ ModeInv /\ CloseInv /\ DrawInv /\ TaskInv => SystemInv
  BY DEF SystemInv
<1>2. QED
  BY <1>1, TypesAlwaysOK, SessionInvariant, InitTrust, NextTrust, InitMode, NextMode,
     InitClose, NextClose, InitDraw, NextDraw, TasksInvariant, PTL DEF Spec

===============================================================================
