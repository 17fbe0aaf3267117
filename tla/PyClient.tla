------------------------------- MODULE PyClient -------------------------------
(***************************************************************************)
(* LdpClient of the Python SDK (client.py), shared by the coroutines p of  *)
(* one event loop.  A coroutine runs without interruption from one await   *)
(* to the next.  Sessions are objects: the dictionary _sessions and every  *)
(* coroutine that uses a session refer to the same one, so they are kept   *)
(* in `held`, one per identifier, and referred to by identifier.           *)
(***************************************************************************)
EXTENDS LdpTypes, LdpTransport, Uuids

CONSTANTS
  PyPrefs,        \* config.preferred_payload_modes, best first
  PyCodecs,       \* modes registered in the client's process
  PyDomain,       \* trust_domain
  EnforceTrust,   \* enforce_trust_domains
  PySecret,       \* signing_secret, or NoSecret
  PyTtl,          \* config.ttl_secs
  MaxOps          \* bound: operations started in a behaviour

ASSUME PyPrefsAreModes == PyPrefs \in Seq(PayloadMode)
ASSUME PyCodecsAreModes == PyCodecs \in SUBSET PayloadMode
ASSUME EnforceTrustIsBoolean == EnforceTrust \in BOOLEAN
ASSUME PyTtlIsNat == PyTtl \in Nat
ASSUME MaxOpsIsNat == MaxOps \in Nat

VARIABLES
  held,           \* session objects: [session_id, url, payload_mode, last_used, task_count]
  current,        \* current[u]: _sessions[u], as an identifier or NoId
  pc,             \* pc[p]: the await p is suspended at
  frame,          \* frame[p]: p's locals [op, url, session_id, payload_mode, task]
  ops,            \* operations started so far
  answered        \* history: [task_id, session_id] of submissions with a reply

clientVars == <<held, current, pc, frame, ops, answered>>

SomeUrl == CHOOSE u \in Urls : TRUE

Blank == [op |-> "none", url |-> SomeUrl, session_id |-> NoId, payload_mode |-> "text",
          task |-> NoId]

ClientInit ==
  /\ held = {}
  /\ current = [u \in Urls |-> NoId]
  /\ pc = [p \in Callers |-> "idle"]
  /\ frame = [p \in Callers |-> Blank]
  /\ ops = 0
  /\ answered = {}

Advertised == AdvertisedPrefs(PyPrefs, PyCodecs)

IsActivePy(session) == now - session.last_used < PyTtl

(* What the next reply for p is; NoReply while it waits. *)
Got(p, type) == replies[p].type = type

Suspend(p, label, locals) ==
  /\ pc' = [pc EXCEPT ![p] = label]
  /\ frame' = [frame EXCEPT ![p] = locals]

(* The coroutine returned or raised. *)
Leave(p) == Suspend(p, "idle", Blank)

Enter(p) ==
  /\ pc[p] = "idle"
  /\ ops < MaxOps
  /\ ops' = ops + 1

-------------------------------------------------------------------------------
(* submit_task, and establish_session on its own *)

(* Draw a task id and post TASK_SUBMIT in the session `id`. *)
PostTask(p, u, id, locals) ==
  /\ Draw
  /\ Post(p, u, [type |-> "task_submit", task_id |-> NewId, session_id |-> id,
                 signature |-> PySecret])
  /\ Suspend(p, "submit", [locals EXCEPT !.session_id = id, !.task = NewId])

(* The cached session is active: nothing is awaited before the submission. *)
SubmitInCached(p) ==
  \E u \in Urls, s \in held :
    /\ Enter(p)
    /\ s.session_id = current[u]
    /\ IsActivePy(s)
    /\ PostTask(p, u, s.session_id, [Blank EXCEPT !.op = "submit", !.url = u])
    /\ UNCHANGED <<held, current, answered>>

(* The application passes a session it got from establish_session. *)
SubmitInGiven(p) ==
  \E s \in held :
    /\ Enter(p)
    /\ PostTask(p, s.url, s.session_id, [Blank EXCEPT !.op = "submit_in", !.url = s.url])
    /\ UNCHANGED <<held, current, answered>>

PostHello(p, op, u) ==
  /\ Enter(p)
  /\ Post(p, u, [type |-> "hello", signature |-> PySecret])
  /\ Suspend(p, "hello", [Blank EXCEPT !.op = op, !.url = u])
  /\ UNCHANGED <<held, current, answered, lastId>>

SubmitInNew(p) ==
  \E u \in Urls :
    /\ \A s \in held : s.session_id = current[u] => ~IsActivePy(s)
    /\ PostHello(p, "submit", u)

Establish(p) == \E u \in Urls : PostHello(p, "establish", u)

(* Slips: the proposed identifier wins over the accepted one; the domain in *)
(* the identity card is not checked.                                         *)
AcceptedIdAsProposed(p) == frame[p].session_id

TrustedAlways(domain) == TRUE

(* `session_id or ...`, `negotiated_mode or TEXT`: a reply that carries *)
(* neither leaves the proposed identifier and text.                      *)
AcceptedId(p) == IF Got(p, "session_accept") THEN replies[p].session_id ELSE frame[p].session_id

AcceptedMode(p) == IF Got(p, "session_accept") THEN replies[p].negotiated_mode ELSE "text"

Speakable(mode) == mode = "text" \/ \E i \in DOMAIN Advertised : Advertised[i] = mode

Trusted(domain) == EnforceTrust => Trusts(PyDomain, domain)

(* A slip: SESSION_REJECT is not looked for. *)
AcceptableRejected(p) ==
  /\ ~Got(p, "error")
  /\ pc[p] = "propose" => Speakable(AcceptedMode(p))
  /\ pc[p] = "discover" => Trusted(replies[p].trust_domain)

(* What the handshake asks of a reply.  The one to HELLO is not looked at, *)
(* and any reply but SESSION_REJECT counts as an accept.                    *)
Acceptable(p) ==
  /\ ~Got(p, "error")
  /\ pc[p] = "propose" => ~Got(p, "session_reject") /\ Speakable(AcceptedMode(p))
  /\ pc[p] = "discover" => Trusted(replies[p].trust_domain)

Replied(p) == ~Got(p, "none")

PostProposal(p) ==
  /\ pc[p] = "hello"
  /\ Replied(p) /\ Acceptable(p)
  /\ Draw
  /\ Post(p, frame[p].url, [type |-> "session_propose", session_id |-> NewId,
                            preferred_payload_modes |-> Advertised, ttl_secs |-> PyTtl,
                            trust_domain |-> PyDomain.name, signature |-> PySecret])
  /\ Suspend(p, "propose", [frame[p] EXCEPT !.session_id = NewId])
  /\ UNCHANGED <<held, current, ops, answered>>

FetchIdentity(p) ==
  /\ pc[p] = "propose"
  /\ Replied(p) /\ Acceptable(p)
  /\ Post(p, frame[p].url, [type |-> "get_identity", signature |-> NoSecret])
  /\ Suspend(p, "discover", [frame[p] EXCEPT !.session_id = AcceptedId(p),
                                             !.payload_mode = AcceptedMode(p)])
  /\ UNCHANGED <<held, current, ops, answered, lastId>>

(* The session is stored, and submit_task goes on with it at once. *)
KeepSession(p) ==
  /\ pc[p] = "discover"
  /\ Replied(p) /\ Acceptable(p)
  /\ LET id == frame[p].session_id
         u == frame[p].url
     IN  /\ held' = held \cup {[session_id |-> id, url |-> u,
                                payload_mode |-> frame[p].payload_mode,
                                last_used |-> now, task_count |-> 0]}
         /\ current' = [current EXCEPT ![u] = id]
         /\ IF frame[p].op = "submit"
              THEN PostTask(p, u, id, frame[p])
              ELSE Leave(p) /\ Consume(p) /\ UNCHANGED lastId
  /\ UNCHANGED <<ops, answered>>

(* The operation raises; nothing is stored. *)
HandshakeRaises(p) ==
  /\ pc[p] \in {"hello", "propose", "discover"}
  /\ Replied(p) /\ ~Acceptable(p)
  /\ Leave(p)
  /\ Consume(p)
  /\ UNCHANGED <<held, current, ops, answered, lastId>>

(* A slip: the task is counted in the session that is current by now. *)
CountedInCurrent(p) == current[frame[p].url]

CountedIn(p) == frame[p].session_id

(* A slip: counting down. *)
CountedDown(s) == [s EXCEPT !.last_used = now, !.task_count = @ - 1]

Counted(s) == [s EXCEPT !.last_used = now, !.task_count = @ + 1]

(* A slip: the task counts however the submission ends. *)
ReceiveAnything(p) ==
  /\ pc[p] = "submit"
  /\ Replied(p)
  /\ held' = {IF s.session_id = CountedIn(p) THEN Counted(s) ELSE s : s \in held}
  /\ answered' = answered \cup {[task_id |-> frame[p].task, session_id |-> frame[p].session_id]}
  /\ Leave(p)
  /\ Consume(p)
  /\ UNCHANGED <<current, ops, lastId>>

(* Any reply, a TASK_FAILED too, counts as a task of the session used. *)
ReceiveResult(p) ==
  /\ pc[p] = "submit"
  /\ Replied(p) /\ ~Got(p, "error")
  /\ held' = {IF s.session_id = CountedIn(p) THEN Counted(s) ELSE s : s \in held}
  /\ answered' = answered \cup {[task_id |-> frame[p].task, session_id |-> frame[p].session_id]}
  /\ Leave(p)
  /\ Consume(p)
  /\ UNCHANGED <<current, ops, lastId>>

SubmitRaises(p) ==
  /\ pc[p] = "submit"
  /\ Got(p, "error")
  /\ Leave(p)
  /\ Consume(p)
  /\ UNCHANGED <<held, current, ops, answered, lastId>>

-------------------------------------------------------------------------------

CoroutineStarts(p) ==
  \/ SubmitInCached(p)
  \/ SubmitInGiven(p)
  \/ SubmitInNew(p)
  \/ Establish(p)

CoroutineContinues(p) ==
  \/ PostProposal(p)
  \/ FetchIdentity(p)
  \/ KeepSession(p)
  \/ HandshakeRaises(p)
  \/ ReceiveResult(p)
  \/ SubmitRaises(p)

===============================================================================
