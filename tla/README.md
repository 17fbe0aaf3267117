# Verification of the LLM Delegate Protocol implementation

TLA+ modules, TLC configurations and TLAPS proofs for the two SDKs of the LLM Delegate
Protocol: the Rust crate (`src/src`) and the Python package
(`src/sdk/python/src/ldp_protocol`). Both give a *client* that opens sessions with
*delegates* over HTTP, negotiates the form payloads take, submits tasks, and follows them;
both give the delegate's side as well.

Paths below start at the repository root; `server.rs:295` is short for a line of
`src/server.rs` in the crate, `client.py:209` for one of the Python package.

## 1. The system

```
  application tasks (concurrent)              application coroutines (one event loop)
        |  invoke / stream / status / cancel        |  submit_task / establish_session
        v                                           v
  LdpAdapter ---- contracts                    LdpClient ---- _sessions
        |                                           |
  SessionManager ---- session cache                 |
        |                                           |
  LdpClient::send_message                     LdpClient.send_message
        |  POST /ldp/messages                       |  POST /ldp/messages, GET /ldp/identity
        v                                           v
  LdpServer ---- sessions, tasks              LdpDelegate ---- hooks of the subclass
```

### Inventory

| Part | State | Operations | What makes it correct |
| --- | --- | --- | --- |
| `LdpAdapter` (adapter.rs) | `contracts`: contract of each submitted task | `invoke`, `stream`, `status`, `cancel`, `discover` | a handle stands for a task the delegate knows; contract verdicts are consistent; streams end |
| `SessionManager` (session_manager.rs) | `sessions`: one session per URL behind an `RwLock`, which is released across every await | `get_or_establish`, `touch`, `close`, `close_all` | the cached session is one the delegate has open, in the mode both believe; closes are final |
| `LdpClient` (client.rs) | none | `send_message`, `fetch_*` | one reply per request, or an `Err` |
| `LdpServer` (server.rs) | `sessions`, `tasks`, each behind its own lock | `handle_message` for HELLO, SESSION_PROPOSE, TASK_SUBMIT, TASK_UPDATE (as a query), TASK_CANCEL, SESSION_CLOSE | tasks stay known until cancelled; results in the session's mode; only trusted domains get a session; nothing closed comes back |
| Negotiation (types/payload.rs, payload.py) | none (Python: the registry of codecs) | `negotiate_payload_mode` | the best common mode; both ends and both SDKs agree |
| Trust domains (types/trust.rs, trust.py) | none | `trusts`, `mutually_trusts` | no session, and no task, across a boundary either side refuses |
| Sessions (types/session.rs, session.py) | last use, TTL, task count | `is_active`, `touch` | expiry for every TTL; the count is exact |
| Signing (signing.rs, signing.py) | none | `sign_envelope`, `verify_envelope`, `apply_signature` | who signs what, and who checks it; both SDKs sign the same input |
| Contracts (types/contract.rs) | none | `validate_contract` (adapter.rs:29) | a breach is reported, and stays one |
| Provenance, verification (types/provenance.rs, verification.rs) | none | constructors, `normalize`, lineage | what it says of the exchange is true |
| Python `LdpClient` (client.py) | `_sessions` | `discover`, `establish_session`, `get_or_establish_session`, `submit_task` | a session held is one the delegate accepted; mutual trust; exact counts |
| Python `LdpDelegate` (delegate.py) | none of its own | `handle_message`, hooks `on_session_start`, `handle_task`, `on_session_end` | advertises only modes it has codecs for; hooks come in pairs |
| Replay guards (replay.rs, replay.py) | bounded memory of messages passed | `check` | what is forgotten is the oldest; how soon a message can pass again |
| Router (router.py) | delegates discovered | `discover_delegates`, `select`, `route_and_submit` | deterministic choice under missing and degenerate metrics |
| Registry and plugin (protocol.rs, plugin.rs) | adapters in registration order | `register`, `adapter_for_url` | each URL goes to the adapter of its prefix |
| Identity, capability, error types | none | constructors | plain data |

### Behaviours that are hard

* **Concurrency in the client.** The cache lock is dropped between lookup, handshake and
  insertion (session_manager.rs:46-77), so handshakes, closes and touches of concurrent
  tasks interleave at every await.
* **Concurrency in the delegate.** `handle_task_submit` takes the tasks lock, lets go of
  it, and then takes the sessions lock (server.rs:323-339); any handler may run between.
* **Failure.** A connection can break before the delegate has the request, while it works
  on it, or with the reply on its way. The caller sees the same `Err`; the request may
  still be handled, much later.
* **Time.** Sessions expire while their owner awaits something; deadlines are compared
  with the clock of each poll.
* **Two copies of one decision.** The payload mode is negotiated separately at both ends
  (session_manager.rs:121, server.rs:252); contracts are validated in `stream` and in
  `status`; sessions are kept at both ends with different rules of expiry.
* **Two implementations of one protocol.** Either SDK's client may meet the other's
  delegate. They differ in who draws the session's identifier (the Rust server adopts the
  proposed one, the Python delegate draws its own), in what the manifest and the proposal
  say of payload modes, in the signatures they insist on, and in the messages they have a
  handler for.

## 2. The modules

| Module | Models | Extends |
| --- | --- | --- |
| `LdpTypes` | negotiation, trust, expiry: pure operators | |
| `LdpTransport` | one request and one reply per connection, its failures, and the clock | |
| `LdpServer` | `LdpServer`, one per URL | `LdpTypes`, `LdpTransport` |
| `SessionManager` | the cache, the handshake, `touch`, `close`, `close_all` | `LdpTypes`, `LdpTransport`, `Uuids` |
| `LdpAdapter` | `invoke`, `stream`, `status`, `cancel`, contracts | `SessionManager` |
| `LdpSystem` | one client process and its delegates; the properties; the refinement | `LdpServer`, `LdpAdapter` |
| `SessionLifecycle` | abstract: what the session protocol promises, without messages | |
| `SessionInvariant` | the inductive invariant of sessions | `LdpSystem` |
| `TaskInvariant` | the inductive invariants of trust, modes, closes, identifiers and tasks | `SessionInvariant` |
| `Negotiation` | negotiation on all inputs of bounded length, against a reference | `LdpTypes` |
| `Uuids` | identifiers drawn by several processes | |
| `PyDelegate`, `PyClient` | the Python delegate and client | `LdpTypes`, `LdpTransport`, `Uuids` |
| `PySystem` | the Python client over Python delegates and Rust servers; their properties | `LdpServer`, `PyDelegate`, `PyClient` |
| `PyInvariant` | the inductive invariant of `PySystem` | `PySystem` |
| `Signing` | the canonical signing input, as each SDK computes it | |
| `MixedSystem` | the Rust client over Python delegates; their properties; the refinement | `LdpAdapter`, `PyDelegate`, `Signing` |
| `ReplayGuard` | the replay guards of both SDKs, fed the same messages | |
| `MixedInvariant` | the inductive invariant of `MixedSystem` | `MixedSystem` |
| `MCLdpSystem`, `MCPySystem`, `MCMixed`, `MCReplayGuard` | values of constants for TLC | `TaskInvariant`, `PyInvariant`, `MixedInvariant`, `ReplayGuard` |
| `LdpTypesProofs`, `NegotiationProofs` | lemmas about the pure operators; theorems about `Negotiation` | `LdpTypes`, `Negotiation` |
| `LdpAdapterProofs` | lemmas about the Rust client's steps, whatever delegates it talks to | `LdpAdapter`, `LdpTypesProofs` |
| `LdpSystemProofs` | types and sessions of `LdpSystem` | `SessionInvariant`, `LdpAdapterProofs` |
| `SystemInvariantProofs` | trust, modes, closes, tasks and the refinement of `LdpSystem` | `TaskInvariant`, `LdpSystemProofs` |
| `PySystemProofs`, `ReplayGuardProofs` | theorems | `PyInvariant`, `ReplayGuard` |
| `MixedSystemProofs` | theorems, the refinement among them | `MixedInvariant`, `LdpAdapterProofs` |

### How the model stands for the code

* **A task is a program counter and a frame.** `pc[p]` names the await the task is
  suspended at (`hello`, `propose`, `submit`, `polled`, ...); `frame[p]` holds the locals
  that live across it. What the code does between two awaits, or between two lock
  acquisitions, is one action. So `get_or_establish` is `ReuseSession` or `SendHello`,
  `ReceiveManifest`, `ReceiveAccept`, `CacheSession`, with an interleaving point between
  each two; `invoke` goes on with `SubmitTask`, `SubmitReturns`, `TouchSession`.
* **A handler is one step**, because it holds one lock from its first look at the state to
  its last change. `handle_task_submit` holds two in turn and is the two steps `RunTask`
  and `ReturnResult`; a request between them has `stage = "executed"`.
* **HTTP** is the set `requests` and the function `replies`. `ConnectionFails` has three
  forms: the request is gone; it stays, but its connection is now `NoConn` (its caller has
  gone, and it may be handled at any later time); the reply is gone. The Python
  client's timeout is one of these.
* **Identifiers** from `Uuid::new_v4` and `uuid4` are a counter: they never repeat.
* **Signatures**: an HMAC verifies exactly when both sides hold the same secret, so a
  message carries the secret that signed it, or `NoSecret`. The Rust server refuses a
  missing signature except on HELLO; the Python delegate accepts a missing one. That the
  two SDKs sign the same input is not assumed: `Signing` computes the input of each, part
  by part, and `SdksSignAlike` compares them for every message in transit.
* **The clock** counts whole seconds, as `num_seconds()` does. A TTL is an unsigned
  integer of `TtlBits` bits that the code casts to a signed one (`AsSigned`).
* **Maps** keyed by an identifier are sets of records, one per key. Message bodies have
  only the fields some handler reads.
* **Python objects**: `_sessions[url]` and the coroutines that use a session share one
  object, so sessions are kept in `held` and referred to by identifier.
* **Mixed SDKs** are composed from the same modules, unchanged: the client's and the
  delegate's modules share only the transport and the source of identifiers. Where the
  wire differs, an operator reads the message as its handler does: `ManifestModes` takes a
  manifest without modes for one that offers text, `RequestedMode` a proposal without
  `payload_mode` for one of semantic frames, `ProposedModes` one without
  `preferred_payload_modes` for no preference. In `PySystem` the constant `RustUrls` says
  which delegates are Rust servers.
* **Replay guards** share one stream of messages and one clock, in half seconds, so that
  the Rust guard's whole seconds and the Python guard's exact ones can differ. A message's
  key stands for the pair of message_id and nonce.
* **History variables**, marked as such where they are declared, record what the
  properties speak of: `ended` (sessions a SESSION_CLOSE removed), `closed` (sessions
  `close()` has returned for), `handles`, `cancelled`, `outcomes`, and on the Python side
  `started`, `stopped` and `ran` (what the hooks were called with) and `answered`; in
  `ReplayGuard`, `rustPassed` and `pyPassed`. No guard of an
  action of the code reads one, but for `handles`, which stands for the handles the
  application keeps in order to poll and cancel.

Definitions whose comment calls them *a slip* are not part of the model: each is a
plausible bug in one definition, and serves to see that a property notices it.

## 3. What is checked

`tlc -config <run>.cfg <module>`; the module is `MCLdpSystem` unless named. States are
distinct states.

| Run | Instance | States | Shows |
| --- | --- | --- | --- |
| `core` | two tasks, two delegates, the second of a domain that does not trust the client; four operations among invoke, status, cancel, close, close_all; contracts with a deadline, failing closed and open | 2 425 246 | `TypeOK`, `CachedSessionLive`, `HandlePollable`, `ResultInSessionMode`, `ClosedSessionsEnd`, `OnlyTrustingDelegates`, `PollFailsOnlyIfCancelled`, `ContractReported`, `BreachIsFinal`, and the refinement `ImplementsLifecycle` |
| `lossy` | two tasks, one delegate, three operations among invoke, cancel, close; connections that fail at every point, so that requests are handled after their callers gave up | 392 505 | the inductive invariant `SystemInv`, of which `HandlePollable` is a consequence, `EndedStaysEnded`, and the refinement survive |
| `liveness` | two operations of any kind, connections that fail, a shared secret | 119 920 | `OperationsReturn`, `StreamsEnd` |
| `negotiation` (`Negotiation`) | every list of up to four preferences against every set of modes | 5 456 | `AgreedIsBest`, `RenegotiationStable`, `FallbackDescends`, `SdksAgree` |
| `python` (`MCPySystem`) | two coroutines, three Python delegates with the client's secret (mutual trust; trusting the client but not trusted by it; trusted by it but not trusting it), failing connections, raising hooks | 2 589 138 | `TypeOK`, `SessionAccepted`, `ModeSpoken`, `AnsweredTasksCounted`, `AnsweredTasksRan`, `MutualTrust` |
| `python_rust` (`MCPySystem`) | two coroutines, three Rust servers with the client's secret, of the same three kinds, failing connections | 1 602 247 | `SessionAccepted`, `ResultInSessionMode`, and the inductive invariant `PyInv`, which has both halves of `MutualTrust` |
| `mixed` (`MCMixed`) | two tasks of a Rust client, three Python delegates (with the client's secret; with it, but not trusting the client; with another secret); three operations among invoke, status, cancel, close; failing connections, raising hooks | 1 086 839 | `TypeOK`, `CachedSessionStarted`, `HooksPaired`, `HandlesRan`, `RejectedRunNothing`, `SdksSignAlike`, the inductive invariant `MixedInv`, and the refinement `ImplementsLifecycle` |
| `replay` (`MCReplayGuard`) | guards of capacity 0 to 3, four messages with a nonce and one without, one stamped late, one with an unreadable stamp | 333 929 | `TypeOK`, `RustRemembersLatest`, `RustReplaysFar`, `PyReplaysFar` |

What the less obvious ones say:

* `CachedSessionLive`: the session in the client's cache is open at its delegate, in
  the mode the client believes. It needs the order of the steps in `close()` (out of the
  cache first, SESSION_CLOSE second), the agreement of two independent negotiations, and
  that late requests of callers that have given up do no harm.
* `ResultInSessionMode`: although the delegate looks the session up after it has let go
  of the tasks lock, the result comes in the negotiated mode unless that session was
  closed in between.
* `HandlePollable`: a submission reported as accepted leaves a task the delegate knows,
  until somebody cancels it, whatever happens to its session.
* `ImplementsLifecycle`: with messages, interleavings and failures hidden, the sessions of
  client and delegates go through `SessionLifecycle`: opened once, at one delegate;
  adopted by the client only while open; ended for good, and never while current.
* `EndedStaysEnded`: no SESSION_PROPOSE handled after its caller gave up (`NoConn`) opens
  a session again that the delegate has ended. It needs an identifier of its own for every
  handshake; the slip for it proposes the identifier drawn last once more.
* `BreachIsFinal`: the verdict on a finished task depends on when it is asked for, but
  never changes back. `outcomes` is the sequence of what `status()` and `stream()` have
  told, in order and with repetitions: once a task was told to be in breach, by failing
  (fail_closed) or as not satisfied (fail_open), no later entry says it completed within
  its contract, whoever asks. All of the run's contracts have a deadline that passes
  before or after any poll.
* `AnsweredTasksCounted` and `AnsweredTasksRan` are the Python client's counterparts of
  what the Rust client does *not* guarantee (`TaskCountExact` below): there the coroutine
  counts in the session object it used. A task that counts has run, at the delegate of
  that session; one whose request or reply was lost counts nowhere, although it may run.
* `MutualTrust` has three delegates that tell its parts apart. The client learns whether a
  delegate trusts it only from SESSION_REJECT, and whether it trusts the delegate only from
  the identity card it fetches *after* the accept, when the hook has run. The second
  delegate is accepted first and dropped then; at the third, whose card the client would
  trust, SESSION_REJECT alone keeps tasks away.
* `ContractReported`: whoever polls a task with `status()` learns whether its contract was
  satisfied, because `invoke` stores the contract before it hands out the handle.
* `CachedSessionStarted` (Rust client, Python delegate): the session the client has cached
  is one `on_session_start` was told of, under the delegate's own identifier and in the
  mode the client negotiated *by itself*. The client ignores the mode in SESSION_ACCEPT; it
  gets text because the Python manifest names no modes, the delegate gets text because
  the Rust proposal names no preferences.
* `HooksPaired`: `on_session_end` trusts whatever SESSION_CLOSE names, so that a subclass
  sees each session start before it ends, and end once, rests on the client's cache: a
  session leaves it before its SESSION_CLOSE is sent.
* `HandlesRan`: `invoke` takes any envelope for an acceptance (adapter.rs:251) and a Python
  delegate answers errors with envelopes too; nevertheless a handle stands for a task
  `handle_task` was called for. The third delegate of the run answers every message with the
  envelope of a refused signature.
* `SessionAccepted` in `python_rust`: the Rust server adopts the identifier the client
  proposed and answers in the mode it negotiated from a field that is not there; the client
  takes both from SESSION_ACCEPT, and they are what the server stored.
* `RustRemembersLatest`: looking an entry up does not refresh it (replay.rs:48 uses
  `contains`, which leaves the order alone), so what the LRU cache forgets is always the
  oldest message passed. `PyReplaysFar` is one weaker than `RustReplaysFar`: the Python
  guard makes room before it looks, so a duplicate may evict its own entry, and a guard of
  capacity 1 never refuses a duplicate.

### Bounds, and why they are enough

* Two tasks. The cache has one entry per URL and each step concerns one entry, so races
  need two tasks at one URL; a third only repeats a role, and the session invariant is
  proved for any number.
* One or two delegates for Rust: two where a mix-up between URLs, or `close_all`'s loop
  over several, matters. Three for Python, one per trust relation, and three in `mixed`, one
  of which refuses signatures. A run whose three delegates are of both SDKs has 7.1 million states; as the client keeps delegates apart by
  URL alone, `python` and `python_rust` are two runs instead.
* `SYMMETRY` in `core`, `lossy`, `python`, `python_rust` and `mixed` identifies states that
  differ in the names of the tasks. No constant, guard or property names a task, and
  these runs check no liveness property (the refinement is `Init` and `[][Next]`), so this is
  sound. The delegates differ in their domains and are not permuted.
* `MaxOps` operations in a behaviour: four suffice for two handshakes that overlap, a
  close between them and a use afterwards, or for two submissions, a cancel of one and a
  poll of the other; three where connections fail, because a failed operation leaves a
  detached request that counts as an actor of its own.
* `MaxTime = 1` with `TtlSecs = 1` and a deadline of 0: a session or a deadline can pass
  at any point of any operation, and it can pass only once.
* `MaxPrefs = 4`: as long as the list of all modes, so every order, with duplicates.
* `replay`: one more key than the largest capacity, so that every guard is at its limit, and
  `MaxPassed = 6` messages passed, so that each can be filled, overrun and replayed into.
  Three seconds (`MaxTime = 6` halves) take every stamp from early through valid to stale.

### Fairness

`FairSpec` asks for weak fairness of `CallerStep(p)`, the continuation of an operation in
progress, and of `ServerStep(p)`, the handling of the request of a connected caller. The
first is the async runtime's promise to poll a future that has been woken; the second
holds because a handler never waits for anything but a lock that is held for a bounded
time, and the task handler of `LdpServer` is a function that returns. Nothing is
assumed about starting operations, the clock or failing connections, nor about detached
requests (`ServerStep(NoConn)`), which need not be handled.

`Finished` stutters where every operation is over and the bound allows no other; any other
state without a successor would be a deadlock and TLC would report it. Only
`negotiation.cfg` turns that check off: its lists end at their bound.

### Where the code and what is said of it differ

Each of these runs checks one property and finds a counterexample.

| Run | Property | What happens |
| --- | --- | --- |
| `task_count_race` | `TaskCountExact` | two tasks handshake at once; `touch(url)` (session_manager.rs:195) counts the task of the first in the session of the second. session.rs:63 calls the field "Number of tasks submitted in this session." |
| `signed_close` | `ClosedSessionsEnd` | `close()` (session_manager.rs:211) never signs SESSION_CLOSE; a delegate with the same secret refuses it and keeps the session, and `close()` returns `Ok` |
| `mixed_result` (`MCMixed`) | `FailureIsTheTasks` | `status()` and `stream()` poll with TASK_UPDATE (adapter.rs:383); a Python delegate has no handler for it and answers TASK_FAILED (delegate.py:177-186): a task `handle_task` finished is reported as failed. docs/RFC.md:128-130 make TASK_UPDATE a message of the responder, and TASK_FAILED a "Task failure with error" |
| `python_unaccepted` (`MCPySystem`) | `EverySessionAccepted` | `establish_session` looks for SESSION_REJECT only (client.py:202-209): the TASK_FAILED of a trusted delegate with another secret (delegate.py:153-163) is taken for an accept, and the client holds a session the delegate knows nothing of. client.py:162 says that the handshake ends in SESSION_ACCEPT |

`ClosedSessionsEnd` holds in `core`, without secrets. The run `mixed` has the polls that
`mixed_result` shows to fail; its own properties do not depend on what a poll returns.

### Seen while modelling, with no run of its own

* Two tasks without a session each open one. The second replaces the first in the cache;
  nobody ever closes the first. The delegate removes a session on SESSION_CLOSE only, so
  it, and those a client lets expire, stay in its map and in `active_sessions`.
* TASK_SUBMIT runs whatever session it names, a closed or unknown one included
  (server.rs:296): the session decides only the mode of the reply.
* `required_trust_domain` (session.rs:94-95, docs/RFC.md:358) is read nowhere.
* `Provenance::new` (provenance.rs:79) says `SemanticFrame`, and neither
  `handle_task_submit` nor `handle_task_status_query` corrects it: results of a session that
  negotiated text carry `payload_mode_used = semantic_frame` (the constant
  `ProvenanceModeUsed` of `LdpServer`).
* A task streamed under a contract completes with `contract_satisfied` unset
  (adapter.rs:338): `stream` validates only to choose between `Completed` and `Failed`.
  `ContractReported` is therefore stated of `status()`.
* A TTL of 2^63 seconds or more becomes negative (session.rs:76, `AsSigned`): a session used
  this very second counts as expired, and every `invoke` runs a handshake.
* The Rust server reads `payload_mode` (server.rs:247) where the Python client, as
  docs/RFC.md:153, sends `preferred_payload_modes`; docs/RFC.md:316 calls the parameter a
  "Mode preference list". A Python client that prefers text gets semantic frames from it
  (`RequestedMode`). Both ends believe in the same mode all the same (`SessionAccepted`).
* Had the server another secret in `python_rust`, it would answer with an HTTP error, and
  the client would keep nothing: what `python_unaccepted` shows is particular to delegates
  that refuse with an envelope. `SessionAccepted`, `AnsweredTasksRan` and the delegate's half
  of `MutualTrust` are therefore stated of delegates that are `Verified`, which do not
  refuse the client's signature; in `python` and `python_rust` all are.
* Between a Rust client with a secret and a Python delegate the unsigned SESSION_CLOSE does
  no harm: the delegate accepts a missing signature.
* A Python replay guard of capacity 0 raises on the first message with a nonce
  (`popitem` of an empty dictionary); the Rust guard takes 0 for 1.

## 4. What is proved

The proofs hold for every value of the constants that satisfies their named assumptions
(`UrlsNonEmpty`, `NoConnIsNotACaller`, `ServerModesAreModes`, `TtlIsUnsigned`, `PrefsAreModes`,
`MaxOpsIsNat`, `ContractChoicesAreContracts`, `OperationsAreKnown`, `PyPrefsAreModes`,
`DelegateCodecsAreModes`, `CapacitiesAreNats` and the like, all of them about types): any
number of tasks, coroutines and delegates, any preferences, domains and codecs, with
connections that fail or hold, hooks that raise or not, and signing secrets of any kind.
Two theorems, about closed sessions, have a further hypothesis, which is in the statement.

| Theorem | Says |
| --- | --- |
| `TypeCorrect` (`LdpSystemProofs`) | `Spec => []TypeOK` |
| `SessionInvariant` | `Spec => []SessionInv` |
| `CachedSessionsAreLive` | `Spec => []CachedSessionLive` |
| `EndedSessionsStayEnded` | `Spec => []EndedStaysEnded` |
| `TrustingDelegatesOnly` (`SystemInvariantProofs`) | `Spec => []OnlyTrustingDelegates` |
| `ResultsInSessionMode` | `Spec => []ResultInSessionMode` |
| `ClosedSessionsAreGone` | connections hold: a closed session is gone at every delegate without a secret |
| `UnsignedSessionsEnd` | no delegate has a secret: `Spec => []ClosedSessionsEnd` |
| `SessionsImplementLifecycle` | `Spec => ImplementsLifecycle`: the refinement |
| `HandlesPollable` | `Spec => []HandlePollable` |
| `PollsFailOnlyIfCancelled` | `Spec => []PollFailsOnlyIfCancelled` |
| `ContractsReported` | `Spec => []ContractReported` |
| `BreachesAreFinal` | `Spec => []BreachIsFinal` |
| `SystemInvariant` | `Spec => []SystemInv`, all of the inductive invariant |
| `BothEndsAgree` (`NegotiationProofs`) | `Spec => []RenegotiationStable` |
| `BestModeAgreed`, `FallbackSimplifies`, `NegotiationsAgree` | `AgreedIsBest`, `FallbackDescends`, `SdksAgree`, for lists of every length |
| `MemoriesBounded`, `RustMemoryIsLatest`, `RustReplaysAreFar`, `PyReplaysAreFar` (`ReplayGuardProofs`) | `TypeOK`, `RustRemembersLatest`, `RustReplaysFar`, `PyReplaysFar`, for every capacity and every stream of messages |
| `PyTypeCorrect` (`PySystemProofs`) | `Spec => []TypeOK` |
| `PyInvariantHolds` | `Spec => []PyInv` |
| `ModesSpoken`, `PyResultsInSessionMode`, `AnsweredTasksAreCounted` | `ModeSpoken`, `ResultInSessionMode`, `AnsweredTasksCounted` |
| `SessionsAreAccepted`, `AnsweredTasksHaveRun`, `TrustIsMutual` | `SessionAccepted`, `AnsweredTasksRan`, `MutualTrust` |
| `MixedTypeCorrect` (`MixedSystemProofs`) | `Spec => []TypeOK` |
| `MixedInvariantHolds` | `Spec => []MixedInv` |
| `CachedSessionIsOpen`, `HooksArePaired` | `CachedSessionStarted`, `HooksPaired` |
| `HandlesHaveRun`, `RejectedDelegatesRunNothing` | `HandlesRan`, `RejectedRunNothing` |
| `SignaturesAgree` | `Spec => []SdksSignAlike` |
| `MixedImplementsLifecycle` | `Spec => ImplementsLifecycle`: the refinement |

### The Rust system

**`TypeOK`** is not inductive as it stands: the second step of TASK_SUBMIT reads the task of
a request it finds in the stage `executed`, and nothing in the types says that such a request
is a TASK_SUBMIT. `TypeInv` adds `ExecutedAreSubmissions`. One lemma per module shows that
its actions keep the types of what it changes; `NextType` puts them together.

**`SessionInv`** is the argument for `CachedSessionLive`. Every session identifier has one
owner at a time: the handshake that drew it, then a cache entry, then a close. Its parts:

1. `RequestsAwaited`, `OneRequestEach`: a connected request is the one request its caller
   waits for, with no reply yet. A reply can therefore not be taken for that of an earlier
   request.
2. `IdsDrawn`: no identifier is in use before it is drawn, so the one drawn next is new
   everywhere.
3. `ManifestTrue`, `ProposalsFresh`: a proposal names a session nobody has opened or
   closed, in a mode the delegate's own negotiation will not change (`RenegotiationKeeps`).
4. `OneOwner`: no two handshakes, and no handshake and cache entry, hold one identifier.
5. `ClosesUnowned`: SESSION_CLOSE is on its way only for a session without an owner, so its
   handling cannot end a session in use, however late it comes.
6. `HandshakeLive`: from its acceptance until it is cached, a session is open at its
   delegate in the mode its owner has. With 5 it stays so, and `CacheSession` hands it on to the cache.

`CachedSessionLive` alone is not inductive: the step that caches a session needs 6, the step
that handles a close needs 5, and 5 is kept only because of 4 and 2. Late proposals and
closes (whose callers have given up) are covered by the same parts, which speak of all
requests in transit and not only of those somebody waits for. Each action has a lemma named
after it (`CacheSessionKeeps`, `HandleSessionCloseKeeps`, ...); steps that touch
neither sessions nor identifiers share `MoveKeeps` and `PostKeeps`.

**What sessions are used for** (`TaskInvariant`). `TrustInv` follows a delegate's trust from
its check to the task: whoever has an accept, or is further, and every TASK_SUBMIT in
transit, is at a delegate that trusts the client. `ModeInv` says that a task in transit names a
session that is open in the client's mode or has been ended, from which
`ResultInSessionMode` follows at the second half of TASK_SUBMIT. `CloseInv` adds that nobody
owns, or will own, a session `close()` is done with (`Disowned`); with connections that hold and
no secret its answered SESSION_CLOSE has removed it. `ClosedSessionsAreGone` states
this per delegate, whatever the others have; `UnsignedSessionsEnd` gives the
property the run `core` checks under the hypothesis that no delegate has a secret, which is
exactly what the run `signed_close` violates.

**The refinement.** The abstract variables are the session tables, the closed identifiers and the
cache; `SessionInv` says of each concrete step which abstract one it is. Accepting a proposal is
an opening, as the identifier is new (3); caching is an adoption, as the session is open (6);
`RemoveAndSendClose` and an expiry are an abandonment; a SESSION_CLOSE that finds its session is
an ending, as the session is nobody's (5); everything else stutters. The abstract identifiers
are `1..(2 * MaxOps)`: `DrawInv` counts the callers that will still draw one, so that the
bound holds for every number of tasks.

**Tasks.** A handle stands for a task the delegate has, or somebody has cancelled
(`TasksFound`), because a task identifier belongs to one submission, then to one handle
(`OneTaskEach`, `TaskIdsDrawn`), and nothing but a cancel names it (`TaskRequests`). A
contract is kept before its handle is out (`ContractsKept`), so every verdict `status()` gives
is the verdict on that contract (`OutcomeOf`). A breach among the outcomes means that the
deadline has passed (`OutcomesExplained`), and as the clock only advances, a later verdict on
the same contract cannot be better: `BreachIsFinal` is a part of the invariant, extended by
one outcome at a time.

### Negotiation and the replay guards

The properties of **negotiation** hold for lists of every length. What a filtered list
contains is a fact about a recursive function; as induction takes an operator as a parameter,
which the provers do not instantiate, `UpTo` derives it from the least counterexample, an
element of a set of natural numbers. `FilteredMembers` and `FilteredAgrees` then say that
filtering loses no usable preference and moves none before another.

For the **replay guards**, `CopiesApart` says that the memory is a stretch of the passed keys
whose copies are far apart; the Rust guard's is their end (`RustRemembersLatest`), the
Python guard's lies one further back, since it makes room before it searches. That is the
whole difference between `RustReplaysFar` and `PyReplaysFar`.

### The Python client and its delegates

**`PyInv`** (`PyInvariant`) holds with Python delegates, with Rust servers and with both.

* `WireInv`: a connected request is the one its coroutine awaits, and has its locals.
* `IdentityInv`: an identifier names one handshake, then one session, although the Rust
  server adopts the one proposed and the Python delegate draws another: `Pending(p)` is
  the one p will hold, which changes hands when a Python delegate answers. A handshake
  whose reply was lost awaits nothing any more, or its identifier would be anyone's.
* `HandshakeInv`: an accept carries what its delegate stored or told its hook, from a
  delegate that trusts the client, in a mode it has a codec for.
* `HoldingInv`: so does every session held; tasks are sent only in sessions that are held,
  to delegates that passed both checks of trust.
* `CountInv`: a task identifier is answered once, so that `task_count` and the set of answers
  grow together.
* `RanInv`: a submission in its second half, or with a reply that is no error, is one the
  delegate has run, so what is counted has run.

`Verified(u)` says that the delegate does not refuse the client's signature. A Python
delegate refuses with a TASK_FAILED, which the handshake takes for an accept (section 3), so the
invariant promises nothing of sessions with a delegate that is not `Verified`, except the mode
and the client's own trust; `EverySessionAccepted`, which has no such condition, is what
`python_unaccepted` violates. The same condition stands in the three properties, so that the
theorems need no hypothesis. `MutualTrust` asks for the client's own trust where
`enforce_trust_domains` is set, without which the client does not look at the card.

### The Rust client and Python delegates

**`MixedInv`** (`MixedInvariant`) has five parts. The lemma `NextForms` first says of every step
of the system which of a few it is as far as sessions and tasks are concerned (`Greets`,
`Proposes`, `Caches`, `Closing`, ... of a task, `StartsSession`, `RunsTask`, `EndsSession`,
`OnlyReplies` of a delegate, `Abandons` of the network); every part of the invariant is then
shown to survive these.

* `WireInv`: as for the other systems, and that every message but SESSION_CLOSE is signed,
  which decides what a delegate with a secret refuses.
* `HookInv` is the argument for `CachedSessionStarted` and `HooksPaired`. The delegate draws
  the identifier, so a session has its owner only from the SESSION_ACCEPT on: first the one
  caller with that reply in hand (`Granted`), then the cache, then one SESSION_CLOSE on its
  way, never two of these (`OnePlaceEach`). All the while it is open at its delegate. A
  SESSION_ACCEPT that is lost, or a hook that raises, leaves the session to nobody, where it
  stays open. Both ends speak text, which the client has from a manifest without modes
  (`TextNegotiated`) and the delegate from a proposal without preferences (`SessionsDrawn`).
* `WelcomeInv`: a session is started, and a task sent or run, only where the delegate trusts
  the client and does not refuse its signature. A Python delegate checks trust at
  SESSION_PROPOSE alone, and says of a refused signature just TASK_FAILED, which the client
  takes for an accepted task; that no such task is ever sent is what `HandlesRan` and
  `RejectedRunNothing` rest on.
* `RanInv`: a submission that has come back is one `handle_task` was called for.
* `DrawInv`: an operation draws three identifiers at most, which bounds those of the
  refinement by `3 * MaxOps`.

**The refinement** goes as for the Rust system, with the calls of the hooks in the place of the
session table: `StartsSession` is an opening, `Caches` an adoption, `Closing` an
abandonment, `EndsSession` an ending, since `OnePlaceEach` says that the session it names is
open and not in the cache.

**`SdksSignAlike`** is proved by `AllSignedAlike`: for each of the twelve types of message, and
every choice of empty fields, the match of signing.rs and the chain of tests of signing.py
find the same parts.

### Only model-checked

* The liveness properties `OperationsReturn` and `StreamsEnd`: fairness and ENABLED are
  outside the reach of the prover.
* The four counterexamples, which are no theorems.

## 5. What is not modelled, and why

* `discover` and the GETs of the Rust client: they read constants and change nothing. The
  Python client's GET of the identity card *is* modelled, since the handshake fails with it.
* Output and provenance as data (`embed_provenance`, lineage, verification): the one field
  that decides something, `payload_mode_used`, and `contract_satisfied` are in.
* Token and cost budgets: `LdpServer` never reports usage, so only deadlines can be missed
  between the Rust client and the Rust server.
* The HMAC, a library: it verifies exactly under the same secret and input. The JSON of
  envelopes: what each side writes, the other parses, errors included (`task_failed` of the
  Python SDK turns its text into the structured error the Rust type asks for).
* States of sessions and tasks that are declared and never assigned (`SessionState` other
  than `Active`; `LdpServer` stores no task as submitted, working or failed).
  `StatusReply` has all branches of the code nevertheless.
* Restart of a delegate: it keeps both maps in memory and the code has no recovery, so a
  restart empties them and the properties about its sessions end with it.
* Identity, capability and error types: data without control. Examples and tests: read for
  what they expect; the stand-alone examples predate the SDK.
* The router: it chooses by floating-point metrics, and what is hard about it is infinity and
  NaN in a sort key (router.py:136), which TLA+ does not have. Its other state is a dictionary
  of identity cards that is only ever added to.
* The registry: the first match of a prefix in a list that is filled at start-up.
* Contract validation in the Python client (client.py:286-306): a function of one reply and of
  the clock, applied once, after the task was counted; `discover_wellknown`: a GET.

## 6. Plan

Order: what carries the most state and the most interleavings first. Done: the Rust client
and server composed, negotiation, the Python client and delegate, the SDKs mixed in both
directions, signing, the replay guards; and the proofs of section 4, which cover every
safety property and both refinements that the runs check.

What of the system remains is listed in section 5 with its reasons. What may be added:
contract validation in the Python client and provenance as data, should the code come to
decide anything on them.

## 7. Running it

```
tlc -workers 2 -config core.cfg MCLdpSystem
tlc -workers 2 -config negotiation.cfg Negotiation
tlc -workers 2 -config python.cfg MCPySystem
tlc -workers 2 -config mixed.cfg MCMixed
tlc -workers 2 -config replay.cfg MCReplayGuard
tlapm SystemInvariantProofs.tla
tlapm MixedSystemProofs.tla
tlapm PySystemProofs.tla
```

The largest runs take a minute or two with two workers. The proofs use Z3 and Zenon, and
the temporal steps LS4; all of them take a few minutes from nothing.
