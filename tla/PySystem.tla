-------------------------------- MODULE PySystem ------------------------------
(***************************************************************************)
(* One process with a Python LdpClient whose coroutines (Callers) share    *)
(* it, over HTTP with one delegate per URL: an LdpServer of the Rust SDK   *)
(* at the URLs in RustUrls, an LdpDelegate of the Python SDK at the others.*)
(***************************************************************************)
EXTENDS LdpServer, PyDelegate, PyClient, FiniteSets

CONSTANT RustUrls

ASSUME RustUrlsAreUrls == RustUrls \subseteq Urls

pyVars == <<transportVars, now, lastId, serverVars, delegateVars, clientVars>>

Init == TransportInit /\ UuidsInit /\ ServerInit /\ DelegateInit /\ ClientInit

(* The HTTP server of the process at r.to dispatches on the path. *)
RustStep(conn) ==
  /\ \E r \in requests :
       /\ r.conn = conn /\ r.to \in RustUrls
       /\ IF r.msg.type = "get_identity" THEN HandleIdentityRequest(r) ELSE HandleMessage(r)
  /\ UNCHANGED <<delegateVars, clientVars, lastId, now>>

DelegateStep(conn) ==
  /\ \E r \in requests : r.conn = conn /\ r.to \notin RustUrls /\ RouteMessage(r)
  /\ UNCHANGED <<serverVars, clientVars, now>>

StartStep(p) == CoroutineStarts(p) /\ UNCHANGED <<serverVars, delegateVars, now>>

CoroutineStep(p) == CoroutineContinues(p) /\ UNCHANGED <<serverVars, delegateVars, now>>

(* Among the failures is httpx's timeout. *)
NetworkStep(p) ==
  /\ ConnectionFails(p)
  /\ UNCHANGED <<serverVars, delegateVars, clientVars, lastId, now>>

ClockStep == Tick /\ UNCHANGED <<serverVars, delegateVars, clientVars, lastId>>

(* Every operation is over and the bound allows no other. *)
Finished ==
  /\ ops = MaxOps
  /\ \A p \in Callers : pc[p] = "idle"
  /\ UNCHANGED pyVars

Next ==
  \/ \E conn \in Callers \cup {NoConn} : RustStep(conn) \/ DelegateStep(conn)
  \/ \E p \in Callers : StartStep(p) \/ CoroutineStep(p) \/ NetworkStep(p)
  \/ ClockStep
  \/ Finished

Spec == Init /\ [][Next]_pyVars

-------------------------------------------------------------------------------
(* Types *)

(* The delegate at u, whichever SDK it is built with. *)
DomainOf(u) == IF u \in RustUrls THEN ServerDomain[u] ELSE DelegateDomain[u]

Label == {"idle", "hello", "propose", "discover", "submit"}
SessionObject == [session_id : Nat, url : Urls, payload_mode : PayloadMode, last_used : Nat,
                  task_count : Nat]
Frame == [op : {"none", "submit", "submit_in", "establish"}, url : Urls, session_id : Nat,
          payload_mode : PayloadMode, task : Nat]

Message ==
  [type : {"hello"}, signature : {PySecret}]
    \cup
  [type : {"get_identity"}, signature : {NoSecret}]
    \cup
  [type : {"session_propose"}, session_id : Nat, preferred_payload_modes : {Advertised},
   ttl_secs : {PyTtl}, trust_domain : {PyDomain.name}, signature : {PySecret}]
    \cup
  [type : {"task_submit"}, task_id : Nat, session_id : Nat, signature : {PySecret}]

Reply ==
  [type : {"none", "error", "session_reject", "capability_manifest", "task_result",
           "task_failed"}]
    \cup
  [type : {"capability_manifest"}, modes : SUBSET PayloadMode]
    \cup
  [type : {"identity"}, trust_domain : {DomainOf(u).name : u \in Urls}]
    \cup
  [type : {"session_accept"}, session_id : Nat, negotiated_mode : PayloadMode]
    \cup
  [type : {"task_result"}, task_id : Nat, payload_mode : PayloadMode, mode_used : PayloadMode]

Exchange == [conn : Callers \cup {NoConn}, to : Urls, stage : {"posted", "executed"},
             msg : Message]

ServerSession == [session_id : Nat, payload_mode : PayloadMode, ttl_secs : Nat, last_used : Nat]

(* Every variable holds what its class or struct in the two SDKs says. *)
TypeOK ==
  /\ requests \in SUBSET Exchange
  /\ replies \in [Callers -> Reply]
  /\ now \in Nat
  /\ lastId \in Nat
  /\ started \in [Urls -> SUBSET [session_id : Nat, payload_mode : PayloadMode]]
  /\ stopped \in [Urls -> Seq(Nat)]
  /\ ran \in [Urls -> SUBSET [task_id : Nat, raised : BOOLEAN]]
  /\ sessions \in [Urls -> SUBSET ServerSession]
  /\ tasks \in [Urls -> SUBSET [task_id : Nat, state : TaskRecordState]]
  /\ ended \in [Urls -> SUBSET Nat]
  /\ held \in SUBSET SessionObject
  /\ current \in [Urls -> Nat]
  /\ pc \in [Callers -> Label]
  /\ frame \in [Callers -> Frame]
  /\ ops \in Nat
  /\ answered \in SUBSET [task_id : Nat, session_id : Nat]

-------------------------------------------------------------------------------
(* Properties *)

(* The delegate at u does not refuse the client's signature: what a refusal *)
(* is taken for is another matter, see EverySessionAccepted.                *)
Verified(u) ==
  u \in RustUrls \/ DelegateSecret[u] = NoSecret \/ PySecret \in {NoSecret, DelegateSecret[u]}

(* The delegate's view of its sessions: what on_session_start was told, or *)
(* what the Rust server has stored.                                         *)
KnownAt(u, id, mode) ==
  \E t \in IF u \in RustUrls THEN sessions[u] ELSE started[u] :
    t.session_id = id /\ t.payload_mode = mode

(* A session the client holds with a delegate that verifies its signature  *)
(* is one the delegate has accepted, in the mode the delegate believes.  The *)
(* identifier the client proposed, which the Rust server adopts, and the    *)
(* one a Python delegate draws are never mixed up, over concurrent          *)
(* handshakes and replies that never came.                                  *)
SessionAccepted ==
  \A s \in held : Verified(s.url) => KnownAt(s.url, s.session_id, s.payload_mode)

(* What establish_session's docstring says: a session comes of a handshake *)
(* that ends in SESSION_ACCEPT, with whatever delegate.  The code takes any *)
(* reply but SESSION_REJECT for an accept.                                  *)
EverySessionAccepted ==
  \A s \in held : KnownAt(s.url, s.session_id, s.payload_mode)

(* The Rust server sends the result of a task in the mode the Python client *)
(* has for the session the task ran in.                                     *)
ResultInSessionMode ==
  \A p \in Callers :
    pc[p] = "submit" /\ Got(p, "task_result") /\ "payload_mode" \in DOMAIN replies[p] =>
      \E s \in held : /\ s.session_id = frame[p].session_id
                      /\ s.payload_mode = replies[p].payload_mode

(* Neither a Python client nor a Python delegate ever works in a mode it    *)
(* has no codec for, however many modes the two declare.                    *)
ModeSpoken ==
  \A s \in held : s.url \notin RustUrls =>
    s.payload_mode \in Codecs(PyCodecs) \cap Codecs(DelegateCodecs[s.url])

(* A session's task_count is the number of submissions in it that were     *)
(* answered, also when another coroutine has replaced the session or its    *)
(* request was lost.                                                        *)
AnsweredTasksCounted ==
  \A s \in held :
    s.task_count = Cardinality({a \in answered : a.session_id = s.session_id})

RanAt(u) == IF u \in RustUrls THEN TaskIds(u) ELSE {t.task_id : t \in ran[u]}

(* A task that counts in a session was run, and by that session's delegate, *)
(* if the delegate verifies the client's signature: a request that was lost *)
(* counts in no session, and one whose reply was lost counts in none either.*)
AnsweredTasksRan ==
  \A a \in answered, s \in held :
    a.session_id = s.session_id /\ Verified(s.url) => a.task_id \in RanAt(s.url)

(* A client that enforces trust domains has sessions with, and tasks run    *)
(* by, delegates that it trusts, which the identity card settles that it    *)
(* fetches after the accept.  Those that verify its signature trust it in   *)
(* turn, which SESSION_REJECT settles: a delegate runs a task whatever      *)
(* session it names.  The refusal of a signature is no SESSION_REJECT, so   *)
(* nothing is said of the delegate's trust where it refuses.                *)
MutualTrust ==
  \A u \in Urls :
    ran[u] # {} \/ tasks[u] # {} \/ (\E s \in held : s.url = u) =>
      /\ EnforceTrust => Trusts(PyDomain, DomainOf(u).name)
      /\ Verified(u) => Trusts(DomainOf(u), PyDomain.name)

===============================================================================
