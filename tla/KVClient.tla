------------------------------ MODULE KVClient -----------------------------
(***************************************************************************)
(* Clients that run any Gets and Puts on the key/value service, each Put   *)
(* with a value of its own, and the history of what the server did and     *)
(* what the clients were told.                                             *)
(***************************************************************************)
EXTENDS KVService, Sequences

CONSTANTS
  MaxOps,       \* bound: operations per client
  MaxVersion    \* bound: versions a client asks for

ASSUME MaxOpsAssumption == MaxOps \in Nat
ASSUME MaxVersionAssumption == MaxVersion \in Nat
ASSUME ValuesAssumption == Clients \X (1 .. MaxOps) \subseteq Values

VARIABLES
  started,      \* number of operations each client has started
  finished,     \* history: the operations that returned and their results
  outcome,      \* history: the server's best answer to each running operation
  ahead,        \* history: the Puts that asked for a version which their key
                \* had not reached when they were called
  writes        \* history: the values written to each key, in order

vars == <<KVStore, clerk, late, started, finished, outcome, ahead, writes>>

Init ==
  /\ KVInit
  /\ started = [c \in Clients |-> 0]
  /\ finished = {}
  /\ outcome = [c \in Clients |-> NoReply]
  /\ ahead = {}
  /\ writes = [k \in Keys |-> <<>>]

\* The history of a Put that reaches the server.
Recorded(key, value, version) ==
  IF PutErr(KVStore[key], version) = "OK"
    THEN [writes EXCEPT ![key] = Append(@, value)] ELSE writes

StartGet(c) ==
  /\ started[c] < MaxOps
  /\ \E k \in Keys : Start(c, GetOp(k))
  /\ started' = [started EXCEPT ![c] = @ + 1]
  /\ UNCHANGED <<finished, outcome, ahead, writes>>

StartPut(c) ==
  /\ started[c] < MaxOps
  /\ started' = [started EXCEPT ![c] = @ + 1]
  /\ \E k \in Keys, v \in 0 .. MaxVersion :
       /\ Start(c, PutOp(k, <<c, started[c] + 1>>, v))
       /\ ahead' = IF v > KVStore[k].version THEN ahead \cup {<<c, started[c] + 1>>} ELSE ahead
  /\ UNCHANGED <<finished, outcome, writes>>

ServeGet(c) ==
  /\ HandleGet(c)
  /\ outcome' = [outcome EXCEPT ![c] = clerk'[c].reply]
  /\ UNCHANGED <<started, finished, ahead, writes>>

ServePut(c) ==
  /\ HandlePut(c)
  /\ outcome' = [outcome EXCEPT ![c] = IF @.err = "OK" THEN @ ELSE clerk'[c].reply]
  /\ writes' = Recorded(clerk[c].key, clerk[c].value, clerk[c].version)
  /\ UNCHANGED <<started, finished, ahead>>

\* A late request may be one of the operation its client still runs.
ServeLate(q) ==
  /\ HandleLate(q)
  /\ writes' = Recorded(q.key, q.value, q.version)
  /\ outcome' = IF writes' # writes /\ clerk[q.clnt].op = "Put" /\ clerk[q.clnt].value = q.value
                  THEN [outcome EXCEPT ![q.clnt] = PutReply("OK")]
                  ELSE outcome
  /\ UNCHANGED <<started, finished, ahead>>

LoseCall(c) ==
  /\ CallFails(c) \/ CallAbandoned(c)
  /\ UNCHANGED <<started, finished, outcome, ahead, writes>>

Finish(c, op, err) ==
  /\ Returned(c, op)
  /\ Continue(c, NoOp)
  /\ finished' = finished \cup
       {[clnt |-> c, n |-> started[c], op |-> op, key |-> clerk[c].key,
         asked |-> clerk[c].version, err |-> err,
         value |-> clerk[c].reply.value, version |-> clerk[c].reply.version]}
  /\ outcome' = [outcome EXCEPT ![c] = NoReply]
  /\ UNCHANGED <<started, ahead, writes>>

FinishGet(c) == Finish(c, "Get", clerk[c].reply.err)
FinishPut(c) == Finish(c, "Put", PutResult(c))

\* All clients have run their operations and no request is under way.
Quiet ==
  /\ \A c \in Clients : clerk[c].op = "none" /\ started[c] = MaxOps
  /\ late = {}
  /\ UNCHANGED vars

Next ==
  \/ \E c \in Clients : \/ StartGet(c) \/ StartPut(c)
                        \/ ServeGet(c) \/ ServePut(c) \/ LoseCall(c)
                        \/ FinishGet(c) \/ FinishPut(c)
  \/ \E q \in late : ServeLate(q)
  \/ Quiet

Spec == Init /\ [][Next]_vars

-----------------------------------------------------------------------------
(* Properties.                                                             *)

\* Types, and that a version counts the writes of its key.
TypeOK ==
  /\ KVTypeOK
  /\ started \in [Clients -> 0 .. MaxOps]
  /\ \A k \in Keys : KVStore[k].version = Len(writes[k])

\* However often Clerk.Put sends a request, and whenever the copies arrive,
\* the server performs the Put at most once (README: "The at-most-once
\* guarantee needs no per-client server state").
AtMostOnce ==
  \A k \in Keys : \A i, j \in DOMAIN writes[k] : writes[k][i] = writes[k][j] => i = j

\* OK means the Put was performed, on exactly the version it asked for; a
\* first-try ErrVersion means it was not and no copy of it can be any more
\* ("the Put was definitely not performed at the server").
ResultsAreDefinite ==
  \A f \in finished : f.op = "Put" =>
    /\ f.err = "OK" =>
         /\ f.asked + 1 \in DOMAIN writes[f.key]
         /\ writes[f.key][f.asked + 1] = <<f.clnt, f.n>>
    /\ f.err = "ErrVersion" =>
         /\ \A i \in DOMAIN writes[f.key] : writes[f.key][i] # <<f.clnt, f.n>>
         /\ \A q \in late : q.value # <<f.clnt, f.n>>

\* The clerks and the server implement the atomic store.
Pending ==
  [c \in Clients |->
    [op |-> clerk[c].op, key |-> clerk[c].key, value |-> clerk[c].value,
     version |-> clerk[c].version, outcome |-> outcome[c]]]

Atomic == INSTANCE KVAtomic WITH store <- KVStore, pending <- Pending

\* Every Get, and every Put that asks for a version its key had reached when it
\* was called, takes effect at one moment between its call and its return, with
\* a result that KvModel.Step of models1/kv.go allows: for them this is what the
\* history checker of the tests asks.  It is weaker for a Put that asked for a
\* version still to come.  Such a Put may be answered ErrNoKey, whether a copy of
\* it takes effect or not, and one answered ErrMaybe or ErrNoKey may take effect
\* once, on exactly the version it asked for, after it returned; the checker,
\* which goes by the time of the return, would reject such a history.
Linearizable == Atomic!Spec

\* models1/kv.go, KvModel.Step: a Put returns OK or ErrMaybe if the versions
\* agree, ErrVersion or ErrMaybe if they do not.
KvModelAccepts ==
  \A f \in finished : f.op = "Put" => f.err \in {"OK", "ErrVersion", "ErrMaybe"}
=============================================================================
