------------------------------ MODULE PyDelegate ------------------------------
(***************************************************************************)
(* LdpDelegate of the Python SDK (delegate.py), one per URL.  It keeps no  *)
(* session and no task: what it knows of them is what its hooks were told, *)
(* which is recorded here.  handle_message awaits nothing but the          *)
(* subclass's handle_task, so every message is one step.                   *)
(***************************************************************************)
EXTENDS LdpTypes, LdpTransport, Uuids

CONSTANTS
  DelegateDomain,   \* DelegateDomain[u]: identity.trust_domain
  DeclaredModes,    \* DeclaredModes[u]: identity.supported_payload_modes
  DelegateCodecs,   \* DelegateCodecs[u]: modes registered in u's process
  DelegateSecret,   \* DelegateSecret[u]: signing_secret, or NoSecret
  HooksRaise        \* whether the hooks and handle_task may raise

ASSUME DeclaredModesAreModes == DeclaredModes \in [Urls -> SUBSET PayloadMode]
ASSUME DelegateCodecsAreModes == DelegateCodecs \in [Urls -> SUBSET PayloadMode]
ASSUME HooksRaiseIsBoolean == HooksRaise \in BOOLEAN

VARIABLES
  started,          \* history: started[u], what on_session_start was called with
  stopped,          \* history: stopped[u], what on_session_end was called with, in order
  ran               \* history: ran[u], [task_id, raised] of the calls of handle_task

delegateVars == <<started, stopped, ran>>

DelegateInit ==
  /\ started = [u \in Urls |-> {}]
  /\ stopped = [u \in Urls |-> <<>>]
  /\ ran = [u \in Urls |-> {}]

(* Only a wrong signature is refused; a missing one passes. *)
BadSignature(u, msg) ==
  DelegateSecret[u] # NoSecret /\ msg.signature \notin {NoSecret, DelegateSecret[u]}

Routed(r, type) == r.msg.type = type /\ ~BadSignature(r.to, r.msg)

(* The refusal is a TASK_FAILED, whatever the message was. *)
RefuseSignature(r) ==
  /\ BadSignature(r.to, r.msg)
  /\ Answer(r, [type |-> "task_failed"])
  /\ UNCHANGED <<delegateVars, lastId>>

(* GET /ldp/identity *)
ServeIdentity(r) ==
  /\ Routed(r, "get_identity")
  /\ Answer(r, [type |-> "identity", trust_domain |-> DelegateDomain[r.to].name])
  /\ UNCHANGED <<delegateVars, lastId>>

(* A slip: the manifest lists the modes, as that of the Rust server does. *)
AnswerHelloWithModes(r) ==
  /\ Routed(r, "hello")
  /\ Answer(r, [type |-> "capability_manifest", modes |-> DeclaredModes[r.to]])
  /\ UNCHANGED <<delegateVars, lastId>>

(* The manifest describes capabilities; the modes are not among them. *)
AnswerHello(r) ==
  /\ Routed(r, "hello")
  /\ Answer(r, [type |-> "capability_manifest"])
  /\ UNCHANGED <<delegateVars, lastId>>

RejectProposal(r) ==
  /\ Routed(r, "session_propose")
  /\ ~Trusts(DelegateDomain[r.to], r.msg.trust_domain)
  /\ Answer(r, [type |-> "session_reject"])
  /\ UNCHANGED <<delegateVars, lastId>>

(* A slip: the declared modes are offered, codec or not. *)
OfferedAsDeclared(u) == DeclaredModes[u]

(* advertised_payload_modes *)
Offered(u) == DeclaredModes[u] \cap Codecs(DelegateCodecs[u])

(* "preferred_payload_modes" of the proposed configuration; a proposal of *)
(* the Rust SDK has no such field.                                         *)
ProposedModes(msg) ==
  IF "preferred_payload_modes" \in DOMAIN msg THEN msg.preferred_payload_modes ELSE <<>>

(* A slip: the proposer's trust domain is not looked at. *)
AcceptProposalUnchecked(r) ==
  /\ Routed(r, "session_propose")
  /\ Draw
  /\ LET mode == AgreedModePy(ProposedModes(r.msg), Offered(r.to))
     IN  /\ started' = [started EXCEPT
                          ![r.to] = @ \cup {[session_id |-> NewId, payload_mode |-> mode]}]
         /\ Answer(r, [type |-> "session_accept", session_id |-> NewId,
                       negotiated_mode |-> mode])
  /\ UNCHANGED <<stopped, ran>>

(* The delegate draws the session's identifier itself.  A hook that raises *)
(* turns the accept into an HTTP error.                                     *)
AcceptProposal(r) ==
  /\ Routed(r, "session_propose")
  /\ Trusts(DelegateDomain[r.to], r.msg.trust_domain)
  /\ Draw
  /\ LET mode == AgreedModePy(ProposedModes(r.msg), Offered(r.to))
     IN  /\ started' = [started EXCEPT
                          ![r.to] = @ \cup {[session_id |-> NewId, payload_mode |-> mode]}]
         /\ \/ Answer(r, [type |-> "session_accept", session_id |-> NewId,
                          negotiated_mode |-> mode])
            \/ HooksRaise /\ Answer(r, Failure)
  /\ UNCHANGED <<stopped, ran>>

(* handle_task; an exception in it becomes a TASK_FAILED. *)
RunTaskPy(r) ==
  /\ Routed(r, "task_submit")
  /\ \E raised \in IF HooksRaise THEN BOOLEAN ELSE {FALSE} :
       /\ ran' = [ran EXCEPT ![r.to] = @ \cup {[task_id |-> r.msg.task_id, raised |-> raised]}]
       /\ Answer(r, [type |-> IF raised THEN "task_failed" ELSE "task_result"])
  /\ UNCHANGED <<started, stopped, lastId>>

(* Acknowledged, and nothing is cancelled. *)
AnswerCancel(r) ==
  /\ Routed(r, "task_cancel")
  /\ Answer(r, [type |-> "task_update"])
  /\ UNCHANGED <<delegateVars, lastId>>

(* on_session_end is called whatever session is named. *)
EndSession(r) ==
  /\ Routed(r, "session_close")
  /\ stopped' = [stopped EXCEPT ![r.to] = Append(@, r.msg.session_id)]
  /\ \/ Answer(r, [type |-> "session_close"])
     \/ HooksRaise /\ Answer(r, Failure)
  /\ UNCHANGED <<started, ran, lastId>>

RoutedTypes ==
  {"get_identity", "hello", "session_propose", "task_submit", "task_cancel", "session_close"}

(* Any other message, a TASK_UPDATE among them. *)
AnswerUnknown(r) ==
  /\ r.msg.type \notin RoutedTypes
  /\ ~BadSignature(r.to, r.msg)
  /\ Answer(r, [type |-> "task_failed"])
  /\ UNCHANGED <<delegateVars, lastId>>

RouteMessage(r) ==
  \/ RefuseSignature(r)
  \/ ServeIdentity(r)
  \/ AnswerHello(r)
  \/ RejectProposal(r)
  \/ AcceptProposal(r)
  \/ RunTaskPy(r)
  \/ AnswerCancel(r)
  \/ EndSession(r)
  \/ AnswerUnknown(r)

ServePy(conn) == \E r \in requests : r.conn = conn /\ RouteMessage(r)

===============================================================================
