----------------------------- MODULE KVAtomic ------------------------------
(***************************************************************************)
(* What the key/value service promises its clients, after the sequential   *)
(* model of src/src/models1/kv.go that the tests hand to the               *)
(* linearizability checker.  A Get, and a Put that asks for a version its  *)
(* key had reached when it was called, takes effect atomically between its *)
(* invocation and its response, with a result that KvModel.Step allows:    *)
(* OK says that the Put took effect, ErrVersion that it did not and never  *)
(* will, ErrMaybe leaves open which.                                       *)
(*                                                                         *)
(* The promise is weaker for a Put that asks for a version its key had not *)
(* reached (ahead).  It may be answered ErrNoKey, even if a copy of it     *)
(* takes effect before the answer arrives, and KvModel.Step has no such    *)
(* answer.  And if it was answered ErrMaybe or ErrNoKey, it may still take *)
(* effect after its response, when the key comes to have the version it    *)
(* asks for: the checker, which takes the response for the end of the      *)
(* operation (kvtest1/porcupine.go), does not accept that either.          *)
(***************************************************************************)
EXTENDS Integers

CONSTANTS Clients, Keys, Empty, MaxOps, MaxVersion

VARIABLES
  store,      \* the value and version of every key
  pending,    \* the operation of each client and its effect so far
  started,    \* number of operations each client has invoked
  finished,   \* the operations with their responses
  ahead       \* the Puts that asked for a version their key had not reached

None == [err |-> "none", value |-> Empty, version |-> 0]
Idle == [op |-> "none", key |-> CHOOSE k \in Keys : TRUE, value |-> Empty, version |-> 0,
         outcome |-> None]

Init ==
  /\ store = [k \in Keys |-> [value |-> Empty, version |-> 0]]
  /\ pending = [c \in Clients |-> Idle]
  /\ started = [c \in Clients |-> 0]
  /\ finished = {}
  /\ ahead = {}

\* Operation n of client c; a Put writes a value of its own.
Invoke(c) ==
  /\ pending[c].op = "none"
  /\ started[c] < MaxOps
  /\ started' = [started EXCEPT ![c] = @ + 1]
  /\ \E k \in Keys, v \in 0 .. MaxVersion :
       \/ /\ pending' = [pending EXCEPT ![c] = [Idle EXCEPT !.op = "Get", !.key = k]]
          /\ UNCHANGED ahead
       \/ /\ pending' = [pending EXCEPT ![c] =
               [Idle EXCEPT !.op = "Put", !.key = k, !.value = <<c, started'[c]>>, !.version = v]]
          /\ ahead' = IF v > store[k].version THEN ahead \cup {<<c, started'[c]>>} ELSE ahead
  /\ UNCHANGED <<store, finished>>

\* A Get reads the key; it may read again as long as it has not returned.
Read(c) ==
  LET e == store[pending[c].key] IN
  /\ pending[c].op = "Get"
  /\ pending' = [pending EXCEPT ![c].outcome =
       [err |-> IF e.version = 0 THEN "ErrNoKey" ELSE "OK",
        value |-> e.value, version |-> e.version]]
  /\ UNCHANGED <<store, started, finished, ahead>>

\* A Put that has not taken effect does so exactly if the versions agree.
Write(c) ==
  LET p == pending[c]
      e == store[p.key]
  IN
  /\ p.op = "Put"
  /\ p.outcome.err # "OK"
  /\ IF e.version = p.version
       THEN /\ store' = [store EXCEPT ![p.key] = [value |-> p.value, version |-> @.version + 1]]
            /\ pending' = [pending EXCEPT ![c].outcome.err = "OK"]
       ELSE /\ pending' = [pending EXCEPT ![c].outcome.err =
                 IF e.version = 0 THEN "ErrNoKey" ELSE "ErrVersion"]
            /\ UNCHANGED store
  /\ UNCHANGED <<started, finished, ahead>>

\* Only a Put that asked ahead is answered ErrNoKey.
Respond(c) ==
  LET p == pending[c] IN
  /\ p.op # "none"
  /\ p.outcome.err # "none"
  /\ \E err \in {p.outcome.err, "ErrMaybe", "ErrNoKey"} :
       /\ err = "ErrMaybe" => p.op = "Put" /\ p.outcome.err \in {"OK", "ErrVersion"}
       /\ err = "ErrNoKey" => \/ p.op = "Get" /\ p.outcome.err = "ErrNoKey"
                              \/ /\ p.op = "Put" /\ p.outcome.err \in {"ErrNoKey", "OK"}
                                 /\ <<c, started[c]>> \in ahead
       /\ finished' = finished \cup
            {[clnt |-> c, n |-> started[c], op |-> p.op, key |-> p.key, asked |-> p.version,
              err |-> err, value |-> p.outcome.value, version |-> p.outcome.version]}
  /\ pending' = [pending EXCEPT ![c] = Idle]
  /\ UNCHANGED <<store, started, ahead>>

\* Only a Put that asked ahead takes effect after its response.
TakeEffectLate(f) ==
  /\ f.op = "Put" /\ f.err \in {"ErrMaybe", "ErrNoKey"}
  /\ <<f.clnt, f.n>> \in ahead
  /\ store[f.key].version = f.asked
  /\ store' = [store EXCEPT ![f.key] = [value |-> <<f.clnt, f.n>>, version |-> f.asked + 1]]
  /\ UNCHANGED <<pending, started, finished, ahead>>

Next ==
  \/ \E c \in Clients : Invoke(c) \/ Read(c) \/ Write(c) \/ Respond(c)
  \/ \E f \in finished : TakeEffectLate(f)

Spec == Init /\ [][Next]_<<store, pending, started, finished, ahead>>
=============================================================================
