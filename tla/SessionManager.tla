---------------------------- MODULE SessionManager ----------------------------
(***************************************************************************)
(* SessionManager (src/src/session_manager.rs): the session cache of one   *)
(* LdpAdapter, shared by all tasks of the client process.  Each task p is  *)
(* a program counter, naming the await it is suspended at, and a frame of  *)
(* locals.  The RwLock around the cache is held for one step at a time, so *)
(* nothing is atomic between the lookup and the insertion of a session.    *)
(***************************************************************************)
EXTENDS LdpTypes, LdpTransport, Uuids

CONSTANTS
  ClientPrefs,    \* config.session.preferred_payload_modes, best first
  ClientDomain,   \* config.trust_domain
  ClientSecret,   \* config.signing_secret, or NoSecret
  TtlSecs,        \* config.session.ttl_secs
  TtlBits,        \* width of that integer
  MaxOps          \* bound: operations started in a behaviour

ASSUME TtlIsUnsigned == TtlBits \in Nat \ {0} /\ TtlSecs \in Nat /\ TtlSecs < 2^TtlBits
ASSUME PrefsAreModes == ClientPrefs \in Seq(PayloadMode)
ASSUME MaxOpsIsNat == MaxOps \in Nat

VARIABLES
  cache,          \* cache[u]: the session cached for URL u, or NoSession
  pc,             \* pc[p]: where p is suspended
  frame,          \* frame[p]: p's locals [op, url, session, task, contract, closing]
  ops,            \* operations started so far
  closed          \* history: [url, session_id] that close() has finished with

managerVars == <<cache, pc, frame, lastId, ops, closed>>

NoSession == [session_id |-> NoId, payload_mode |-> "text", last_used |-> 0, task_count |-> 0]

NoContract == [id |-> NoId, deadline |-> 0, policy |-> "fail_open"]

Blank(u) == [op |-> "none", url |-> u, session |-> NoSession, task |-> NoId,
             contract |-> NoContract, closing |-> {}]

SomeUrl == CHOOSE u \in Urls : TRUE

Cached(u) == cache[u].session_id # NoId

IsActive(session) == NotExpired(session.last_used, TtlSecs, TtlBits, now)

ManagerInit ==
  /\ cache = [u \in Urls |-> NoSession]
  /\ pc = [p \in Callers |-> "idle"]
  /\ frame = [p \in Callers |-> Blank(SomeUrl)]
  /\ lastId = NoId
  /\ ops = 0
  /\ closed = {}

(* p moves to `label` with locals `locals`. *)
Goto(p, label, locals) ==
  /\ pc' = [pc EXCEPT ![p] = label]
  /\ frame' = [frame EXCEPT ![p] = locals]

(* The operation is over: its future completed and its locals are gone. *)
Return(p) == Goto(p, "idle", Blank(SomeUrl))

Begin(p) ==
  /\ pc[p] = "idle"
  /\ ops < MaxOps
  /\ ops' = ops + 1

Answered(p, type) == replies[p].type = type

-------------------------------------------------------------------------------
(* get_or_establish *)

ReuseSession(p, u, locals) ==
  /\ Cached(u) /\ IsActive(cache[u])
  /\ Goto(p, "established", [locals EXCEPT !.session = cache[u]])
  /\ UNCHANGED <<cache, lastId, closed, transportVars>>

(* Nothing cached, or expired: the lock is released and the handshake runs. *)
SendHello(p, u, locals) ==
  /\ ~(Cached(u) /\ IsActive(cache[u]))
  /\ Post(p, u, [type |-> "hello", signature |-> ClientSecret])
  /\ Goto(p, "hello", locals)
  /\ UNCHANGED <<cache, lastId, closed>>

(* "supported_modes" of the manifest; [text] when it has no such field, as *)
(* that of a delegate of the Python SDK.                                    *)
ManifestModes(manifest) ==
  IF "modes" \in DOMAIN manifest THEN manifest.modes ELSE {"text"}

(* A slip: the first preference is taken unseen. *)
ClientPrefersFirst(modes) == ClientPrefs[1]

ClientNegotiates(modes) == AgreedMode(ClientPrefs, modes)

(* A slip: a handshake proposes the identifier drawn last once more. *)
ReceiveManifestReusing(p) ==
  /\ pc[p] = "hello"
  /\ Answered(p, "capability_manifest")
  /\ LET mode == ClientNegotiates(ManifestModes(replies[p]))
         id == IF lastId = NoId THEN 1 ELSE lastId
     IN  /\ lastId' = id
         /\ Post(p, frame[p].url,
                 [type |-> "session_propose", session_id |-> id, payload_mode |-> mode,
                  ttl_secs |-> TtlSecs, trust_domain |-> ClientDomain.name,
                  signature |-> ClientSecret])
         /\ Goto(p, "propose", [frame[p] EXCEPT !.session.session_id = id,
                                                !.session.payload_mode = mode])
  /\ UNCHANGED <<cache, ops, closed>>

ReceiveManifest(p) ==
  /\ pc[p] = "hello"
  /\ Answered(p, "capability_manifest")
  /\ LET mode == ClientNegotiates(ManifestModes(replies[p]))
         id == lastId + 1
     IN  /\ lastId' = id
         /\ Post(p, frame[p].url,
                 [type |-> "session_propose", session_id |-> id, payload_mode |-> mode,
                  ttl_secs |-> TtlSecs, trust_domain |-> ClientDomain.name,
                  signature |-> ClientSecret])
         /\ Goto(p, "propose", [frame[p] EXCEPT !.session.session_id = id,
                                                !.session.payload_mode = mode])
  /\ UNCHANGED <<cache, ops, closed>>

(* The accepted identifier is taken, the mode is the one negotiated here. *)
ReceiveAccept(p) ==
  /\ pc[p] = "propose"
  /\ Answered(p, "session_accept")
  /\ Goto(p, "caching",
          [frame[p] EXCEPT !.session = [session_id |-> replies[p].session_id,
                                        payload_mode |-> @.payload_mode,
                                        last_used |-> now,
                                        task_count |-> 0]])
  /\ Consume(p)
  /\ UNCHANGED <<cache, lastId, ops, closed>>

(* Any other reply, a SESSION_REJECT among them, or an Err ends the operation. *)
HandshakeFails(p) ==
  /\ \/ pc[p] = "hello" /\ ~Answered(p, "capability_manifest")
     \/ pc[p] = "propose" /\ ~Answered(p, "session_accept")
  /\ ~Answered(p, "none")
  /\ Consume(p)
  /\ Return(p)
  /\ UNCHANGED <<cache, lastId, ops, closed>>

(* The write lock is taken again; whatever is cached by now is replaced. *)
CacheSession(p) ==
  /\ pc[p] = "caching"
  /\ cache' = [cache EXCEPT ![frame[p].url] = frame[p].session]
  /\ Goto(p, "established", frame[p])
  /\ UNCHANGED <<lastId, ops, closed, transportVars>>

-------------------------------------------------------------------------------
(* touch: whatever session is cached for the URL by now. *)

(* A slip: counting down. *)
TouchedDown(u) ==
  IF Cached(u)
    THEN [cache EXCEPT ![u].last_used = now, ![u].task_count = @ - 1]
    ELSE cache

Touched(u) ==
  IF Cached(u)
    THEN [cache EXCEPT ![u].last_used = now, ![u].task_count = @ + 1]
    ELSE cache

-------------------------------------------------------------------------------
(* close and close_all *)

(* A slip: SESSION_CLOSE goes out first and the entry stays until the reply. *)
RemoveLater(p, u, rest) ==
  /\ Cached(u)
  /\ Post(p, u, [type |-> "session_close", session_id |-> cache[u].session_id,
                 signature |-> NoSecret])
  /\ Goto(p, "close", [frame[p] EXCEPT !.op = "close", !.url = u, !.session = cache[u],
                                       !.closing = rest])
  /\ UNCHANGED <<cache, lastId>>

(* Take the session out of the cache, then send SESSION_CLOSE, which no *)
(* secret signs, for it.                                                *)
RemoveAndSendClose(p, u, rest) ==
  /\ Cached(u)
  /\ cache' = [cache EXCEPT ![u] = NoSession]
  /\ Post(p, u, [type |-> "session_close", session_id |-> cache[u].session_id,
                 signature |-> NoSecret])
  /\ Goto(p, "close", [frame[p] EXCEPT !.op = "close", !.url = u, !.session = cache[u],
                                       !.closing = rest])
  /\ UNCHANGED lastId

(* close(u); with nothing cached it returns at once and changes nothing. *)
Close(p, u) ==
  /\ Begin(p)
  /\ RemoveAndSendClose(p, u, {})
  /\ UNCHANGED closed

(* close_all: the keys are read under one lock, each close takes its own. *)
CloseAll(p) ==
  /\ Begin(p)
  /\ \E u \in Urls : Cached(u)
  /\ Goto(p, "closing", [frame[p] EXCEPT !.op = "close",
                                         !.closing = {u \in Urls : Cached(u)}])
  /\ UNCHANGED <<cache, lastId, closed, transportVars>>

CloseNext(p) ==
  /\ pc[p] = "closing"
  /\ \E u \in frame[p].closing : RemoveAndSendClose(p, u, frame[p].closing \ {u})
  /\ UNCHANGED <<ops, closed>>

(* The next URL has no session any more: the loop goes on. *)
CloseSkips(p) ==
  /\ pc[p] = "closing"
  /\ \E u \in frame[p].closing :
       /\ ~Cached(u)
       /\ Goto(p, "closing", [frame[p] EXCEPT !.closing = @ \ {u}])
  /\ UNCHANGED <<cache, lastId, ops, closed, transportVars>>

CloseAllReturns(p) ==
  /\ pc[p] = "closing"
  /\ frame[p].closing = {}
  /\ Return(p)
  /\ UNCHANGED <<cache, lastId, ops, closed, transportVars>>

(* Best effort: the reply, whatever it is, is dropped. *)
CloseReturns(p) ==
  /\ pc[p] = "close"
  /\ ~Answered(p, "none")
  /\ Consume(p)
  /\ closed' = closed \cup {[url |-> frame[p].url, session_id |-> frame[p].session.session_id]}
  /\ IF frame[p].closing = {}
       THEN Return(p)
       ELSE Goto(p, "closing", [Blank(SomeUrl) EXCEPT !.op = "close",
                                                      !.closing = frame[p].closing])
  /\ UNCHANGED <<cache, lastId, ops>>

-------------------------------------------------------------------------------

(* The steps a task takes inside the manager once an operation has begun. *)
ManagerStep(p) ==
  \/ ReceiveManifest(p)
  \/ ReceiveAccept(p)
  \/ HandshakeFails(p)
  \/ CacheSession(p)
  \/ CloseNext(p)
  \/ CloseSkips(p)
  \/ CloseAllReturns(p)
  \/ CloseReturns(p)

===============================================================================
