-------------------------------- MODULE Signing -------------------------------
(***************************************************************************)
(* The canonical signing input of an envelope, as signing.rs and           *)
(* signing.py compute it: the parts in order, each of them separated from  *)
(* the next by "|".  A part is the name of the field that fills it, or ""  *)
(* where the field is empty or absent; `given` holds the fields that are   *)
(* neither.  The HMAC of the input is external: it verifies exactly under  *)
(* the same secret and the same input.                                     *)
(***************************************************************************)
EXTENDS Sequences

Part(field, given) == IF field \in given THEN field ELSE ""

Parts(fields, given) == [i \in DOMAIN fields |-> Part(fields[i], given)]

(* The fields of every envelope.  The nonce is signed only when present. *)
Header(given) ==
  <<"from", "to", "session_id", "timestamp", "message_id">>
    \o IF "nonce" \in given THEN <<"nonce">> ELSE <<>>

-------------------------------------------------------------------------------
(* signing.rs: the match on the body *)

RustIdentifying ==
  [hello |-> <<"delegate_id">>,
   session_accept |-> <<"session_id">>,
   session_reject |-> <<"reason">>,
   task_submit |-> <<"task_id", "skill">>,
   task_update |-> <<"task_id">>,
   task_result |-> <<"task_id">>,
   task_failed |-> <<"task_id">>,
   task_cancel |-> <<"task_id">>]

RustSigningInput(type, given) ==
  Header(given)
    \o (IF type \in DOMAIN RustIdentifying THEN Parts(RustIdentifying[type], given) ELSE <<"">>)
    \o <<type>>

-------------------------------------------------------------------------------
(* signing.py: the chain of elif, each with its test for an absent field *)

(* A slip: TASK_UPDATE, split off the list, is forgotten. *)
TaskBodiesButUpdate == {"task_result", "task_failed", "task_cancel"}

TaskBodies == {"task_update", "task_result", "task_failed", "task_cancel"}

PyIdentifying(type, given) ==
  IF type = "hello" /\ "delegate_id" \in given THEN <<"delegate_id">>
  ELSE IF type = "session_accept" /\ "session_id" \in given THEN <<"session_id">>
  ELSE IF type = "session_reject" /\ "reason" \in given THEN <<"reason">>
  ELSE IF type = "task_submit" THEN Parts(<<"task_id", "skill">>, given)
  ELSE IF type \in TaskBodies /\ "task_id" \in given THEN <<"task_id">>
  ELSE <<"">>

PySigningInput(type, given) == Header(given) \o PyIdentifying(type, given) \o <<type>>

-------------------------------------------------------------------------------

Fields == {"nonce", "delegate_id", "session_id", "reason", "task_id", "skill"}

BodyType ==
  {"hello", "capability_manifest", "session_propose", "session_accept", "session_reject",
   "task_submit", "task_update", "task_result", "task_failed", "task_cancel", "attestation",
   "session_close"}

(* The messages for which both SDKs compute the same input, whichever *)
(* fields are empty.                                                  *)
SignedAlike ==
  {type \in BodyType :
     \A given \in SUBSET Fields : RustSigningInput(type, given) = PySigningInput(type, given)}

===============================================================================
