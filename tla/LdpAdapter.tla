------------------------------ MODULE LdpAdapter ------------------------------
(***************************************************************************)
(* LdpAdapter (src/src/adapter.rs): invoke, stream, status and cancel of   *)
(* one adapter, called by concurrent tasks, over SessionManager.           *)
(***************************************************************************)
EXTENDS SessionManager

CONSTANTS
  Operations,       \* the operations the caller uses in this instance
  ContractChoices   \* the contracts a task may carry, NoContract among them

Contract == [id : Nat, deadline : Nat, policy : {"fail_open", "fail_closed"}]

ASSUME ContractChoicesAreContracts == ContractChoices \subseteq Contract
ASSUME OperationsAreKnown ==
  Operations \subseteq {"invoke", "stream", "status", "cancel", "close", "close_all"}

VARIABLES
  contracts,        \* contracts of submitted tasks: [task_id, contract]
  handles,          \* history: tasks whose TASK_SUBMIT came back Ok
  cancelled,        \* history: tasks a TASK_CANCEL was sent for
  outcomes          \* history: results and failures told by status() and streams, in order

adapterVars == <<contracts, handles, cancelled, outcomes>>

AdapterInit ==
  /\ contracts = {}
  /\ handles = {}
  /\ cancelled = {}
  /\ outcomes = <<>>

-------------------------------------------------------------------------------
(* invoke, and the same steps as the first half of stream *)

Start(p, op) ==
  /\ op \in Operations
  /\ Begin(p)

Call(op, u, c) == [Blank(u) EXCEPT !.op = op, !.contract = c]

InvokeCached(p) ==
  \E op \in {"invoke", "stream"}, u \in Urls, c \in ContractChoices :
    /\ Start(p, op)
    /\ ReuseSession(p, u, Call(op, u, c))
    /\ UNCHANGED adapterVars

InvokeNew(p) ==
  \E op \in {"invoke", "stream"}, u \in Urls, c \in ContractChoices :
    /\ Start(p, op)
    /\ SendHello(p, u, Call(op, u, c))
    /\ UNCHANGED adapterVars

SubmitTask(p) ==
  /\ pc[p] = "established"
  /\ LET id == lastId + 1
     IN  /\ lastId' = id
         /\ Post(p, frame[p].url,
                 [type |-> "task_submit", session_id |-> frame[p].session.session_id,
                  task_id |-> id, signature |-> ClientSecret])
         /\ Goto(p, "submit", [frame[p] EXCEPT !.task = id])
  /\ UNCHANGED <<cache, ops, closed, adapterVars>>

StoreContract(p) ==
  contracts' = IF frame[p].contract = NoContract
                 THEN contracts
                 ELSE contracts \cup {[task_id |-> frame[p].task, contract |-> frame[p].contract]}

(* Slips: an Err of the submission is taken for success; the contract is    *)
(* not stored.                                                              *)
SubmitAnyReply(p) ==
  /\ pc[p] = "submit"
  /\ ~Answered(p, "none")
  /\ StoreContract(p)
  /\ Goto(p, "submitted", frame[p])
  /\ Consume(p)
  /\ UNCHANGED <<cache, lastId, ops, closed, handles, cancelled, outcomes>>

SubmitUnstored(p) ==
  /\ pc[p] = "submit"
  /\ ~Answered(p, "none") /\ ~Answered(p, "error")
  /\ contracts' = contracts
  /\ Goto(p, "submitted", frame[p])
  /\ Consume(p)
  /\ UNCHANGED <<cache, lastId, ops, closed, handles, cancelled, outcomes>>

(* Any Ok envelope counts as acceptance; its content is not looked at. *)
SubmitReturns(p) ==
  /\ pc[p] = "submit"
  /\ ~Answered(p, "none") /\ ~Answered(p, "error")
  /\ StoreContract(p)
  /\ Goto(p, "submitted", frame[p])
  /\ Consume(p)
  /\ UNCHANGED <<cache, lastId, ops, closed, handles, cancelled, outcomes>>

SubmitFails(p) ==
  /\ pc[p] = "submit"
  /\ Answered(p, "error")
  /\ Return(p)
  /\ Consume(p)
  /\ UNCHANGED <<cache, lastId, ops, closed, adapterVars>>

(* touch(url), then Ok(handle): invoke is over, a stream starts to poll. *)
TouchSession(p) ==
  /\ pc[p] = "submitted"
  /\ cache' = Touched(frame[p].url)
  /\ handles' = handles \cup {[task_id |-> frame[p].task, url |-> frame[p].url,
                               session_id |-> frame[p].session.session_id,
                               op |-> frame[p].op,
                               payload_mode |-> frame[p].session.payload_mode,
                               contract |-> frame[p].contract]}
  /\ IF frame[p].op = "stream" THEN Goto(p, "polling", frame[p]) ELSE Return(p)
  /\ UNCHANGED <<lastId, ops, closed, contracts, cancelled, outcomes, transportVars>>

-------------------------------------------------------------------------------
(* status, and the polling loop of stream *)

StatusQuery(id) == [type |-> "task_update", task_id |-> id, signature |-> ClientSecret]

PollStatus(p) ==
  /\ Start(p, "status")
  /\ \E h \in handles :
       /\ h.op = "invoke"
       /\ Post(p, h.url, StatusQuery(h.task_id))
       /\ Goto(p, "polled", [Blank(h.url) EXCEPT !.op = "status", !.task = h.task_id])
  /\ UNCHANGED <<cache, lastId, closed, adapterVars>>

PollStream(p) ==
  /\ pc[p] = "polling"
  /\ Post(p, frame[p].url, StatusQuery(frame[p].task))
  /\ Goto(p, "polled", frame[p])
  /\ UNCHANGED <<cache, lastId, ops, closed, adapterVars>>

(* A slip: the comparison with the deadline the wrong way round. *)
ViolatedBeforeDeadline(contract) == contract # NoContract /\ now <= contract.deadline

(* validate_contract.  Token and cost budgets are left out: no delegate of *)
(* this repository's Rust server reports a usage.                          *)
Violated(contract) == contract # NoContract /\ now > contract.deadline

(* The contract a poll validates against: stream captured its own copy, *)
(* status looks the task up.                                            *)
ContractOf(p) ==
  LET stored == {c \in contracts : c.task_id = frame[p].task}
  IN  IF frame[p].op = "stream" THEN frame[p].contract
      ELSE IF stored = {} THEN NoContract
      ELSE (CHOOSE c \in stored : TRUE).contract

(* What the caller learns of a task: `satisfied` is contract_satisfied, *)
(* which only status writes into the provenance.                        *)
Outcome(p, result, satisfied, mode) ==
  [task_id |-> frame[p].task, result |-> result, satisfied |-> satisfied, mode_used |-> mode]

ResultOutcome(p) ==
  LET c == ContractOf(p)
  IN  Outcome(p,
        IF Violated(c) /\ c.policy = "fail_closed" THEN "violated" ELSE "completed",
        IF frame[p].op = "stream" \/ c = NoContract THEN "unset"
        ELSE IF Violated(c) THEN "no" ELSE "yes",
        replies[p].mode_used)

(* A slip: a failed poll is taken for a task still at work. *)
PolledOutcomeRetrying(p) ==
  IF Answered(p, "task_result") THEN ResultOutcome(p)
  ELSE IF Answered(p, "task_failed")
    THEN Outcome(p, "failed", "unset", "none")
    ELSE Outcome(p, "working", "unset", "none")

(* "failed" is both status()'s Err and a stream's Failed event. *)
PolledOutcome(p) ==
  IF Answered(p, "task_result") THEN ResultOutcome(p)
  ELSE IF Answered(p, "task_failed") \/ Answered(p, "error")
    THEN Outcome(p, "failed", "unset", "none")
    ELSE Outcome(p, "working", "unset", "none")

(* A task still at work is no outcome. *)
Recorded(outcome) ==
  IF outcome.result = "working" THEN outcomes ELSE Append(outcomes, outcome)

(* status returns; a stream ends on every reply but a TASK_UPDATE. *)
PollReturns(p) ==
  /\ pc[p] = "polled"
  /\ ~Answered(p, "none")
  /\ outcomes' = Recorded(PolledOutcome(p))
  /\ IF frame[p].op = "stream" /\ PolledOutcome(p).result = "working"
       THEN Goto(p, "polling", frame[p])
       ELSE Return(p)
  /\ Consume(p)
  /\ UNCHANGED <<cache, lastId, ops, closed, contracts, handles, cancelled>>

-------------------------------------------------------------------------------
(* cancel *)

CancelTask(p) ==
  /\ Start(p, "cancel")
  /\ \E h \in handles :
       /\ h.op = "invoke"
       /\ Post(p, h.url, [type |-> "task_cancel", task_id |-> h.task_id,
                          signature |-> ClientSecret])
       /\ Goto(p, "cancel", [Blank(h.url) EXCEPT !.op = "cancel", !.task = h.task_id])
       /\ cancelled' = cancelled \cup {h.task_id}
  /\ UNCHANGED <<cache, lastId, closed, contracts, handles, outcomes>>

CancelReturns(p) ==
  /\ pc[p] = "cancel"
  /\ ~Answered(p, "none")
  /\ Return(p)
  /\ Consume(p)
  /\ UNCHANGED <<cache, lastId, ops, closed, adapterVars>>

-------------------------------------------------------------------------------

(* The caller starts an operation. *)
CallerStarts(p) ==
  \/ InvokeCached(p)
  \/ InvokeNew(p)
  \/ PollStatus(p)
  \/ CancelTask(p)
  \/ "close" \in Operations /\ (\E u \in Urls : Close(p, u)) /\ UNCHANGED adapterVars
  \/ "close_all" \in Operations /\ CloseAll(p) /\ UNCHANGED adapterVars

(* An operation in progress goes on. *)
CallerContinues(p) ==
  \/ SubmitTask(p)
  \/ SubmitReturns(p)
  \/ SubmitFails(p)
  \/ TouchSession(p)
  \/ PollStream(p)
  \/ PollReturns(p)
  \/ CancelReturns(p)
  \/ ManagerStep(p) /\ UNCHANGED adapterVars

-------------------------------------------------------------------------------
(* Types of the client's state and of the requests it sends *)

Id == Nat
Label == {"idle", "hello", "propose", "caching", "established", "submit", "submitted",
          "polling", "polled", "cancel", "closing", "close"}
Session == [session_id : Id, payload_mode : PayloadMode, last_used : Nat, task_count : Nat]
FrameOp == {"none", "invoke", "stream", "status", "cancel", "close"}
Frame == [op : FrameOp, url : Urls, session : Session, task : Id, contract : Contract,
          closing : SUBSET Urls]

ManagerTypeOK ==
  /\ cache \in [Urls -> Session]
  /\ pc \in [Callers -> Label]
  /\ frame \in [Callers -> Frame]
  /\ lastId \in Id
  /\ ops \in Nat
  /\ closed \in SUBSET [url : Urls, session_id : Id]

Handle == [task_id : Id, url : Urls, session_id : Id, op : FrameOp,
           payload_mode : PayloadMode, contract : Contract]

Report == [task_id : Id, result : {"completed", "violated", "failed", "working"},
           satisfied : {"unset", "yes", "no"}, mode_used : PayloadMode \cup {"none"}]

AdapterTypeOK ==
  /\ contracts \in SUBSET [task_id : Id, contract : Contract]
  /\ handles \in SUBSET Handle
  /\ cancelled \in SUBSET Id
  /\ outcomes \in Seq(Report)

Signature == {ClientSecret, NoSecret}

Message ==
  [type : {"hello"}, signature : Signature]
    \cup
  [type : {"session_propose"}, session_id : Id, payload_mode : PayloadMode,
   ttl_secs : Nat, trust_domain : {ClientDomain.name}, signature : Signature]
    \cup
  [type : {"task_submit"}, session_id : Id, task_id : Id, signature : Signature]
    \cup
  [type : {"task_update", "task_cancel"}, task_id : Id, signature : Signature]
    \cup
  [type : {"session_close"}, session_id : Id, signature : Signature]

===============================================================================
