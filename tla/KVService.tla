----------------------------- MODULE KVService -----------------------------
(***************************************************************************)
(* The key/value server of src/src/kvsrv1/server.go and the clerks of      *)
(* kvsrv1/client.go, joined by a network that loses requests and replies.  *)
(* KVServer.mu makes each handler one step.  A clerk runs one operation at *)
(* a time: it repeats the same RPC until Call returns true.                *)
(*                                                                         *)
(* What labrpc promises of one Call: the request is executed at most once; *)
(* true means it was executed before the return; false means it was lost,  *)
(* or its reply was, or nobody waits any more for a handler that still     *)
(* runs, so that it takes effect later (requests in late).                 *)
(*                                                                         *)
(* Copies of one request in late are one element: a copy that executes     *)
(* without effect might as well have been lost, and at most one of them    *)
(* has an effect, since the version moves past the one they ask for.       *)
(*                                                                         *)
(* This module has the steps of the service; its users (KVClient, Lock,    *)
(* KVTest) say which operations the clients start.                         *)
(***************************************************************************)
EXTENDS Integers

CONSTANTS
  Clients,      \* the clients, each with its own clerk
  Keys,         \* the keys in use
  Values,       \* the values in use
  Empty         \* the empty string

ASSUME KeysAssumption == Keys # {}
ASSUME EmptyAssumption == Empty \in Values

VARIABLES
  KVStore,      \* KVServer.KVStore
  clerk,        \* the operation each clerk runs and its current RPC
  late          \* Put requests a clerk gave up on that may still execute

kvVars == <<KVStore, clerk, late>>

-----------------------------------------------------------------------------
(* KVServer.Get and KVServer.Put.  A key that is not in the map is shown as *)
(* Go's zero entry; a key in the map has a version of at least 1.           *)

Entry == [value : Values, version : Nat]
ZeroEntry == [value |-> Empty, version |-> 0]

GetReply(e) ==
  [err |-> IF e.version = 0 THEN "ErrNoKey" ELSE "OK", value |-> e.value, version |-> e.version]

\* Mutation of PutErr: the version of an existing key is not compared.
PutErrUnchecked(e, version) ==
  IF e.version = 0 /\ version # 0 THEN "ErrNoKey" ELSE "OK"

PutErr(e, version) ==
  CASE e.version = 0 /\ version = 0 -> "OK"
    [] e.version = 0 /\ version # 0 -> "ErrNoKey"
    [] e.version # 0 /\ version # e.version -> "ErrVersion"
    [] e.version # 0 /\ version = e.version -> "OK"

\* Mutation of PutEntry: an overwrite keeps the value.
PutEntryOldValue(e, value, version) ==
  IF PutErr(e, version) = "OK"
  THEN [value |-> IF version = 0 THEN value ELSE e.value, version |-> e.version + 1] ELSE e

PutEntry(e, value, version) ==
  IF PutErr(e, version) = "OK" THEN [value |-> value, version |-> e.version + 1] ELSE e

-----------------------------------------------------------------------------
(* A clerk: no operation, or one with an RPC that is sent or replied.      *)

PutReply(err) == [err |-> err, value |-> Empty, version |-> 0]
NoReply == PutReply("none")
Reply == [err : {"OK", "ErrNoKey", "ErrVersion", "none"}, value : Values, version : Nat]

Operation(op, call, key, value, version) ==
  [op |-> op, key |-> key, value |-> value, version |-> version,
   retried |-> FALSE, call |-> call, reply |-> NoReply]

GetOp(key) == Operation("Get", "sent", key, Empty, 0)
PutOp(key, value, version) == Operation("Put", "sent", key, value, version)
NoOp == Operation("none", "none", CHOOSE k \in Keys : TRUE, Empty, 0)

ClerkState ==
  [op : {"none", "Get", "Put"}, key : Keys, value : Values, version : Nat,
   retried : BOOLEAN, call : {"none", "sent", "replied"}, reply : Reply]

Request(c) ==
  [clnt |-> c, key |-> clerk[c].key, value |-> clerk[c].value, version |-> clerk[c].version]

PutRequest == [clnt : Clients, key : Keys, value : Values, version : Nat]

KVInit ==
  /\ KVStore = [k \in Keys |-> ZeroEntry]
  /\ clerk = [c \in Clients |-> NoOp]
  /\ late = {}

-----------------------------------------------------------------------------
(* One RPC.                                                                *)

HandleGet(c) ==
  /\ clerk[c].op = "Get" /\ clerk[c].call = "sent"
  /\ clerk' = [clerk EXCEPT ![c].call = "replied",
                            ![c].reply = GetReply(KVStore[clerk[c].key])]
  /\ UNCHANGED <<KVStore, late>>

HandlePut(c) ==
  LET me == clerk[c]
      e == KVStore[me.key]
  IN
  /\ me.op = "Put" /\ me.call = "sent"
  /\ KVStore' = [KVStore EXCEPT ![me.key] = PutEntry(e, me.value, me.version)]
  /\ clerk' = [clerk EXCEPT ![c].call = "replied",
                            ![c].reply = PutReply(PutErr(e, me.version))]
  /\ UNCHANGED late

\* Call returns false and the request will not execute any more: it was lost,
\* or it executed and its reply was lost.  The clerk sends it again.
CallFails(c) ==
  /\ clerk[c].call \in {"sent", "replied"}
  /\ clerk' = [clerk EXCEPT ![c].call = "sent", ![c].retried = TRUE, ![c].reply = NoReply]
  /\ UNCHANGED <<KVStore, late>>

\* Call returns false while the request is still on its way to the server.
CallAbandoned(c) ==
  /\ clerk[c].op = "Put" /\ clerk[c].call = "sent"
  /\ late' = late \cup {Request(c)}
  /\ clerk' = [clerk EXCEPT ![c].retried = TRUE]
  /\ UNCHANGED KVStore

HandleLate(q) ==
  /\ q \in late
  /\ KVStore' = [KVStore EXCEPT ![q.key] = PutEntry(@, q.value, q.version)]
  /\ late' = late \ {q}
  /\ UNCHANGED clerk

RPCStep(c) == HandleGet(c) \/ HandlePut(c) \/ CallFails(c) \/ CallAbandoned(c)

-----------------------------------------------------------------------------
(* The end of Clerk.Get and Clerk.Put: Call has returned true.             *)

Returned(c, op) == clerk[c].op = op /\ clerk[c].call = "replied"

\* Mutation of PutResult: the clerk forgets that it sent the request before.
PutResultForgetful(c) == clerk[c].reply.err

PutResult(c) ==
  IF clerk[c].reply.err = "ErrVersion" /\ clerk[c].retried
    THEN "ErrMaybe" ELSE clerk[c].reply.err

\* The client goes on with another operation, or with none.
Continue(c, operation) ==
  /\ clerk' = [clerk EXCEPT ![c] = operation]
  /\ UNCHANGED <<KVStore, late>>

Start(c, operation) == clerk[c].op = "none" /\ Continue(c, operation)

KVTypeOK ==
  /\ KVStore \in [Keys -> Entry]
  /\ clerk \in [Clients -> ClerkState]
  /\ late \subseteq PutRequest
=============================================================================
