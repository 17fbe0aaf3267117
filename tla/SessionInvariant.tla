---------------------------- MODULE SessionInvariant --------------------------
(***************************************************************************)
(* Why a cached session is live: the inductive invariant behind            *)
(* CachedSessionLive and EndedStaysEnded, part by part.                    *)
(***************************************************************************)
EXTENDS LdpSystem

(* The await a caller is suspended at while a message of this type is out. *)
AwaitOf ==
  [hello |-> "hello", session_propose |-> "propose", task_submit |-> "submit",
   task_update |-> "polled", task_cancel |-> "cancel", session_close |-> "close"]

(* A connected request is the one its caller waits for, still unanswered.  *)
RequestsAwaited ==
  \A r \in requests : r.conn # NoConn =>
    /\ pc[r.conn] = AwaitOf[r.msg.type]
    /\ frame[r.conn].url = r.to
    /\ replies[r.conn] = NoReply

OneRequestEach ==
  \A q, r \in requests : q.conn = r.conn /\ q.conn # NoConn => q = r

Proposals == {r \in requests : r.msg.type = "session_propose"}
Closes == {r \in requests : r.msg.type = "session_close"}

(* p has drawn the identifier of a session that is not cached yet. *)
Holds(p) == pc[p] \in {"propose", "caching"}

Held(p) == frame[p].session.session_id

(* No identifier is used before it is drawn. *)
IdsDrawn ==
  /\ \A u \in Urls : /\ cache[u].session_id <= lastId
                     /\ \A id \in SessionIds(u) \cup ended[u] : id <= lastId
  /\ \A p \in Callers : Holds(p) => Held(p) \in 1..lastId
  /\ \A r \in Proposals \cup Closes : r.msg.session_id <= lastId

ManifestTrue ==
  \A p \in Callers : pc[p] = "hello" /\ Answered(p, "capability_manifest") =>
    replies[p].modes = ServerModes[frame[p].url]

UsableAt(u, mode) == mode = "text" \/ (IsImplemented(mode) /\ mode \in ServerModes[u])

(* A proposal in transit names a session nobody has opened, in a mode the  *)
(* responder will not change, and its proposer remembers both.             *)
ProposalsFresh ==
  /\ \A r \in Proposals :
       /\ UsableAt(r.to, r.msg.payload_mode)
       /\ \A u \in Urls : r.msg.session_id \notin SessionIds(u) \cup ended[u]
       /\ r.conn # NoConn =>
            /\ Held(r.conn) = r.msg.session_id
            /\ frame[r.conn].session.payload_mode = r.msg.payload_mode
  /\ \A q, r \in Proposals : q.msg.session_id = r.msg.session_id => q = r

(* Every identifier has one owner: a handshake or the cache entry of a URL. *)
OneOwner ==
  /\ \A p \in Callers : Holds(p) =>
       /\ \A q \in Callers \ {p} : Holds(q) => Held(q) # Held(p)
       /\ \A u \in Urls : cache[u].session_id # Held(p)
  /\ \A u, v \in Urls : u # v /\ Cached(u) => cache[u].session_id # cache[v].session_id

(* SESSION_CLOSE is only ever on its way for a session without an owner. *)
ClosesUnowned ==
  \A r \in Closes :
    /\ r.msg.session_id # NoId
    /\ \A u \in Urls : cache[u].session_id # r.msg.session_id
    /\ \A p \in Callers : Holds(p) => Held(p) # r.msg.session_id

(* A session is open at u, in the mode the client has for it. *)
OpenAt(u, session) ==
  \E s \in sessions[u] : /\ s.session_id = session.session_id
                         /\ s.payload_mode = session.payload_mode

(* From its acceptance on, a session is open until it is in the cache. *)
HandshakeLive ==
  \A p \in Callers :
    /\ pc[p] = "propose" /\ Answered(p, "session_accept") =>
         replies[p].session_id = Held(p) /\ OpenAt(frame[p].url, frame[p].session)
    /\ pc[p] = "caching" => OpenAt(frame[p].url, frame[p].session)

(* In every interleaving of handshakes, closes, lost and late messages,    *)
(* each session identifier is either on its way in (held by one handshake, *)
(* opened once by its proposal), in one cache entry, or on its way out.    *)
SessionInv ==
  /\ RequestsAwaited
  /\ OneRequestEach
  /\ IdsDrawn
  /\ ManifestTrue
  /\ ProposalsFresh
  /\ OneOwner
  /\ ClosesUnowned
  /\ HandshakeLive
  /\ CachedSessionLive
  /\ EndedStaysEnded

===============================================================================
