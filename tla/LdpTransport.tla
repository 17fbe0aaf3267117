----------------------------- MODULE LdpTransport -----------------------------
(***************************************************************************)
(* LdpClient::send_message (src/src/client.rs) over HTTP: a caller posts   *)
(* one envelope to a delegate's URL and waits for the reply on the same    *)
(* connection.  HTTP itself is external: a connection can fail at any      *)
(* time, the caller then gets an Err, and the request it had posted is     *)
(* either lost or still handled later with nobody to hear the reply.       *)
(* The module also holds the wall clock both sides read with Utc::now().   *)
(***************************************************************************)
EXTENDS Integers

CONSTANTS
  Callers,        \* tasks of the client process that use one LdpAdapter
  Urls,           \* delegate endpoints, one LdpServer each
  NoSecret,       \* no signing secret; as a message's signature: unsigned
  NoConn,         \* the connection of a request whose caller has given up
  NetworkFails,   \* whether connections may fail
  MaxTime         \* bound: the clock stops here

ASSUME UrlsNonEmpty == Urls # {}
ASSUME NoConnIsNotACaller == NoConn \notin Callers
ASSUME NetworkFailsIsBoolean == NetworkFails \in BOOLEAN
ASSUME MaxTimeIsNat == MaxTime \in Nat

VARIABLES
  requests,       \* posted and not yet answered: [conn, to, stage, msg]
  replies,        \* replies[p]: what p's connection has for p to read
  now             \* Utc::now() in whole seconds

transportVars == <<requests, replies>>

NoReply == [type |-> "none"]
Failure == [type |-> "error"]       \* Err(..): transport error or HTTP status

Request(conn, url, msg) == [conn |-> conn, to |-> url, stage |-> "posted", msg |-> msg]

TransportInit ==
  /\ requests = {}
  /\ replies = [p \in Callers |-> NoReply]
  /\ now = 0

Tick ==
  /\ now < MaxTime
  /\ now' = now + 1
  /\ UNCHANGED transportVars

(* p posts msg and awaits; what it read before is consumed. *)
Post(p, url, msg) ==
  /\ requests' = requests \cup {Request(p, url, msg)}
  /\ replies' = [replies EXCEPT ![p] = NoReply]

(* p consumes its reply and posts nothing. *)
Consume(p) ==
  /\ replies' = [replies EXCEPT ![p] = NoReply]
  /\ UNCHANGED requests

(* The server finishes request r with `reply`. *)
Answer(r, reply) ==
  /\ requests' = requests \ {r}
  /\ replies' = IF r.conn = NoConn THEN replies
                                   ELSE [replies EXCEPT ![r.conn] = reply]

(* The server goes on with request r in a later step. *)
Advance(r, stage) ==
  /\ requests' = (requests \ {r}) \cup {[r EXCEPT !.stage = stage]}
  /\ UNCHANGED replies

(* p's connection breaks: before the request arrived (it is gone), while  *)
(* the server has it (it is handled detached), or with the reply on its   *)
(* way (the reply is gone).                                               *)
ConnectionFails(p) ==
  /\ NetworkFails
  /\ replies' = [replies EXCEPT ![p] = Failure]
  /\ \/ \E r \in requests :
          /\ r.conn = p
          /\ \/ r.stage = "posted" /\ requests' = requests \ {r}
             \/ requests' = (requests \ {r}) \cup {[r EXCEPT !.conn = NoConn]}
     \/ /\ replies[p] \notin {NoReply, Failure}
        /\ UNCHANGED requests

===============================================================================
