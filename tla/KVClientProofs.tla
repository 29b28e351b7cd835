--------------------------- MODULE KVClientProofs ---------------------------
(***************************************************************************)
(* The key/value service, for every set of clients, keys and operations: a *)
(* Put takes effect at most once, its result says the truth, and the       *)
(* service is linearizable.                                                *)
(*                                                                         *)
(* The argument follows a Put by its value.  Whatever copies of it are     *)
(* under way, they all ask for one key and one version (Asked), which the  *)
(* running operation or its record remembers.  A copy takes effect only on *)
(* that version, and the version moves on: so at most one does.            *)
(***************************************************************************)
EXTENDS KVClient, TLAPS

\* Leaves that name no prover are for the SMT solver, then for Zenon.
USE SMTT(20), ZenonT(20)

Errs == {"OK", "ErrNoKey", "ErrVersion", "ErrMaybe"}
Finished == [clnt : Clients, n : Nat, op : {"Get", "Put"}, key : Keys, asked : Nat,
             err : Errs, value : Values, version : Nat]

Types ==
  /\ TypeOK
  /\ writes \in [Keys -> Seq(Values)]
  /\ outcome \in [Clients -> Reply]
  /\ finished \subseteq Finished

\* The Put with value v asks for version ver of key k: it is the running
\* operation of a clerk of clk, or in the record fin.
AskedIn(clk, fin, v, k, ver) ==
  \/ \E c \in Clients : /\ clk[c].op = "Put" /\ clk[c].value = v
                        /\ clk[c].key = k /\ clk[c].version = ver
  \/ \E f \in fin : f.op = "Put" /\ <<f.clnt, f.n>> = v /\ f.key = k /\ f.asked = ver

Asked(v, k, ver) == AskedIn(clerk, finished, v, k, ver)

\* The Put with value v did not take effect, and no late copy of it is left.
Untouched(v) ==
  /\ \A k \in Keys : \A i \in DOMAIN writes[k] : writes[k][i] # v
  /\ \A q \in late : q.value # v

Written(k, v, ver) == ver + 1 \in DOMAIN writes[k] /\ writes[k][ver + 1] = v

RunningOf(c) ==
  /\ clerk[c].op = "none" => clerk[c] = NoOp /\ outcome[c] = NoReply
  /\ clerk[c].op # "none" => clerk[c].call # "none" /\ started[c] >= 1
  /\ clerk[c].op = "Put" => clerk[c].value = <<c, started[c]>>
  /\ clerk[c].op = "Get" => clerk[c].value = Empty /\ clerk[c].version = 0

Numbered ==
  /\ \A f \in finished : /\ f.n <= started[f.clnt]
                         /\ clerk[f.clnt].op # "none" => f.n < started[f.clnt]
  /\ \A f, g \in finished : f.clnt = g.clnt /\ f.n = g.n => f = g

AllAsked ==
  /\ \A q \in late : Asked(q.value, q.key, q.version) /\ \E n \in Nat : q.value = <<q.clnt, n>>
  /\ \A k \in Keys : \A i \in DOMAIN writes[k] : Asked(writes[k][i], k, i - 1)

\* ResultsAreDefinite, and a refused Put did not touch any key.
Definite ==
  \A f \in finished : f.op = "Put" =>
    /\ f.err = "OK" => Written(f.key, <<f.clnt, f.n>>, f.asked)
    /\ f.err = "ErrVersion" => Untouched(<<f.clnt, f.n>>)

\* What the running operation of c was answered, and what the history says.
OutcomeOf(c) ==
  /\ clerk[c].call = "replied" => clerk[c].reply.err # "none"
  /\ clerk[c].op = "Get" /\ clerk[c].call = "replied" => outcome[c] = clerk[c].reply
  /\ clerk[c].op = "Put" =>
       /\ outcome[c] = PutReply(outcome[c].err)
       /\ clerk[c].reply = PutReply(clerk[c].reply.err)
       /\ outcome[c].err = "OK" => Written(clerk[c].key, clerk[c].value, clerk[c].version)
       /\ clerk[c].call = "replied" =>
            /\ outcome[c].err \in {"OK", clerk[c].reply.err}
            /\ clerk[c].reply.err = "ErrNoKey" => clerk[c].version # 0
       /\ ~clerk[c].retried /\ (clerk[c].call = "sent" \/ clerk[c].reply.err # "OK")
            => Untouched(clerk[c].value)

IInv ==
  /\ Types
  /\ \A c \in Clients : RunningOf(c) /\ OutcomeOf(c)
  /\ Numbered
  /\ AllAsked
  /\ Definite

-----------------------------------------------------------------------------
(* Facts about the operators of the service.                               *)

LEMMA Operations ==
  /\ \A k \in Keys : GetOp(k) \in ClerkState
  /\ \A k \in Keys, v \in Values, n \in Nat : PutOp(k, v, n) \in ClerkState
  /\ NoOp \in ClerkState /\ NoReply \in Reply
  /\ \A err \in {"OK", "ErrNoKey", "ErrVersion", "none"} : PutReply(err) \in Reply
BY KeysAssumption, EmptyAssumption
   DEF GetOp, PutOp, NoOp, Operation, NoReply, PutReply, ClerkState, Reply

(* KVServer.Put performs a Put exactly if it asks for the current version. *)
LEMMA PutErrCases ==
  ASSUME NEW e \in Entry, NEW ver \in Nat
  PROVE  PutErr(e, ver) = IF ver = e.version THEN "OK"
                          ELSE IF e.version = 0 THEN "ErrNoKey" ELSE "ErrVersion"
BY DEF PutErr, Entry

LEMMA GetReplyType ==
  ASSUME NEW e \in Entry
  PROVE  GetReply(e) \in Reply /\ GetReply(e).err # "none"
BY DEF GetReply, Entry, Reply

(* The copies of a Put ask for one key and one version.                    *)
LEMMA AskedOnce ==
  ASSUME IInv, NEW v, NEW k1, NEW n1, NEW k2, NEW n2, Asked(v, k1, n1), Asked(v, k2, n2)
  PROVE  k1 = k2 /\ n1 = n2
<1>1. \A c \in Clients : clerk[c].op = "Put" => clerk[c].value = <<c, started[c]>>
  BY DEF IInv, RunningOf
<1>2. \A f \in finished : f.clnt \in Clients /\ f.n \in Nat /\
        (clerk[f.clnt].op # "none" => f.n < started[f.clnt])
  BY DEF IInv, Numbered, Types, Finished
<1>3. started \in [Clients -> Nat]
  BY MaxOpsAssumption DEF IInv, Types, TypeOK
<1>4. \A f, g \in finished : f.clnt = g.clnt /\ f.n = g.n => f = g
  BY DEF IInv, Numbered
<1>5. \A c \in Clients, f \in finished : clerk[c].op = "Put" /\ clerk[c].value = v
                                          => <<f.clnt, f.n>> # v
  BY <1>1, <1>2, <1>3
<1>6. \A c, d \in Clients : clerk[c].op = "Put" /\ clerk[c].value = v /\
                            clerk[d].op = "Put" /\ clerk[d].value = v => c = d
  BY <1>1
<1>7. \A f, g \in finished : <<f.clnt, f.n>> = v /\ <<g.clnt, g.n>> = v => f = g
  BY <1>4
<1> QED
  BY <1>5, <1>6, <1>7 DEF Asked, AskedIn

(* What is asked stays asked: operations do not change while they run, and *)
(* a Put that returns leaves its record.                                   *)
LEMMA AskedKept ==
  ASSUME \A c \in Clients : clerk[c].op = "Put" =>
           /\ clerk'[c].op = "Put" /\ clerk'[c].value = clerk[c].value
           /\ clerk'[c].key = clerk[c].key /\ clerk'[c].version = clerk[c].version,
         finished \subseteq finished',
         NEW v, NEW k, NEW ver, Asked(v, k, ver)
  PROVE  AskedIn(clerk', finished', v, k, ver)
BY DEF Asked, AskedIn

(* A Put that reaches the server: it takes effect if the version is the    *)
(* current one, and otherwise changes nothing.                             *)
Applied(k, v, ver) ==
  /\ KVStore' \in [Keys -> Entry] /\ writes' \in [Keys -> Seq(Values)]
  /\ \A l \in Keys : KVStore'[l].version = Len(writes'[l])
  /\ \A l \in Keys : \A i \in DOMAIN writes[l] :
       i \in DOMAIN writes'[l] /\ writes'[l][i] = writes[l][i]
  /\ \A l \in Keys : \A i \in DOMAIN writes'[l] :
       i \in DOMAIN writes[l] \/ (l = k /\ i = ver + 1 /\ writes'[l][i] = v)
  /\ ver = KVStore[k].version =>
       /\ ver + 1 \in DOMAIN writes'[k] /\ writes'[k][ver + 1] = v /\ writes' # writes
       /\ PutErr(KVStore[k], ver) = "OK"
       /\ KVStore' = [KVStore EXCEPT ![k] = [value |-> v, version |-> ver + 1]]
  /\ ver # KVStore[k].version =>
       /\ UNCHANGED <<KVStore, writes>>
       /\ PutErr(KVStore[k], ver) = IF KVStore[k].version = 0 THEN "ErrNoKey" ELSE "ErrVersion"

LEMMA Effect ==
  ASSUME IInv, NEW k \in Keys, NEW v \in Values, NEW ver \in Nat,
         KVStore' = [KVStore EXCEPT ![k] = PutEntry(KVStore[k], v, ver)],
         writes' = Recorded(k, v, ver)
  PROVE  Applied(k, v, ver)
<1> USE DEF Applied
<1>1. /\ KVStore \in [Keys -> Entry] /\ writes \in [Keys -> Seq(Values)]
      /\ \A l \in Keys : KVStore[l].version = Len(writes[l])
  BY DEF IInv, Types, TypeOK, KVTypeOK
<1>2. KVStore[k] \in Entry /\ writes[k] \in Seq(Values)
  BY <1>1
<1>3. CASE ver = KVStore[k].version
  <2>1. PutErr(KVStore[k], ver) = "OK"
    BY <1>2, <1>3, PutErrCases
  <2>2. KVStore' = [KVStore EXCEPT ![k] = [value |-> v, version |-> ver + 1]]
    BY <1>3, <2>1 DEF PutEntry
  <2>3. writes' = [writes EXCEPT ![k] = Append(writes[k], v)]
    BY <2>1 DEF Recorded
  <2>4. [value |-> v, version |-> ver + 1] \in Entry
    BY DEF Entry
  <2> DEFINE app == Append(writes[k], v)
  <2>5. /\ app \in Seq(Values) /\ Len(app) = Len(writes[k]) + 1
        /\ DOMAIN writes[k] = 1 .. Len(writes[k]) /\ Len(writes[k]) \in Nat
        /\ DOMAIN app = 1 .. Len(writes[k]) + 1
        /\ \A i \in 1 .. Len(writes[k]) : app[i] = writes[k][i]
        /\ app[Len(writes[k]) + 1] = v
    BY <1>2
  <2>a. writes' = [writes EXCEPT ![k] = app]
    BY <2>3
  <2> HIDE DEF app
  <2>6. Len(writes[k]) = ver
    BY <1>1, <1>3
  <2>7. KVStore' \in [Keys -> Entry] /\ writes' \in [Keys -> Seq(Values)]
    BY <1>1, <2>2, <2>a, <2>4, <2>5
  <2>8. /\ KVStore'[k].version = ver + 1 /\ writes'[k] = app
        /\ \A l \in Keys : l # k => KVStore'[l] = KVStore[l] /\ writes'[l] = writes[l]
    BY <1>1, <2>2, <2>a, <2>5
  <2>9. \A l \in Keys : KVStore'[l].version = Len(writes'[l])
    <3>1. KVStore'[k].version = Len(writes'[k])
      BY <2>5, <2>6, <2>8
    <3> QED
      BY <1>1, <2>8, <3>1
  <2>10. \A l \in Keys : \A i \in DOMAIN writes[l] :
           i \in DOMAIN writes'[l] /\ writes'[l][i] = writes[l][i]
    <3>1. \A i \in DOMAIN writes[k] : i \in DOMAIN app /\ app[i] = writes[k][i]
      BY <2>5
    <3> QED
      BY <2>8, <3>1
  <2>11. \A l \in Keys : \A i \in DOMAIN writes'[l] :
           i \in DOMAIN writes[l] \/ (l = k /\ i = ver + 1 /\ writes'[l][i] = v)
    <3>1. \A i \in DOMAIN app : i \in DOMAIN writes[k] \/ (i = ver + 1 /\ app[i] = v)
      BY <2>5, <2>6
    <3> QED
      BY <2>8, <3>1
  <2>12. ver + 1 \in DOMAIN writes'[k] /\ writes'[k][ver + 1] = v /\ writes'[k] # writes[k]
    <3>1. ver + 1 \in DOMAIN app /\ app[ver + 1] = v /\ ver + 1 \notin DOMAIN writes[k]
      BY <2>5, <2>6
    <3> QED
      BY <2>8, <3>1
  <2> QED
    BY <1>3, <2>1, <2>2, <2>7, <2>9, <2>10, <2>11, <2>12, Zenon
<1>4. CASE ver # KVStore[k].version
  <2>1. /\ PutErr(KVStore[k], ver) = IF KVStore[k].version = 0 THEN "ErrNoKey" ELSE "ErrVersion"
        /\ PutErr(KVStore[k], ver) # "OK"
    BY <1>2, <1>4, PutErrCases
  <2>2. KVStore' = KVStore /\ writes' = writes
    BY <1>1, <2>1 DEF PutEntry, Recorded
  <2> QED
    BY <1>1, <1>4, <2>1, <2>2
<1> QED
  BY <1>3, <1>4
-----------------------------------------------------------------------------
(* Steps of the service.                                                   *)

(* What is known of a client that a step does not concern stays.           *)
LEMMA OtherClient ==
  ASSUME NEW d \in Clients, RunningOf(d), OutcomeOf(d),
         clerk'[d] = clerk[d], outcome'[d] = outcome[d], started'[d] = started[d],
         UNCHANGED <<late, writes>>
  PROVE  RunningOf(d)' /\ OutcomeOf(d)'
<1>1. RunningOf(d)'
  BY DEF RunningOf
<1>2. Untouched(clerk[d].value) => Untouched(clerk[d].value)'
  BY DEF Untouched
<1>3. Written(clerk[d].key, clerk[d].value, clerk[d].version)
        => Written(clerk[d].key, clerk[d].value, clerk[d].version)'
  BY DEF Written
<1>4. OutcomeOf(d)'
  BY <1>2, <1>3 DEF OutcomeOf
<1> QED
  BY <1>1, <1>4

LEMMA InitInv == Init => IInv
<1> SUFFICES ASSUME Init PROVE IInv
  OBVIOUS
<1> USE DEF Init, KVInit
<1>1. /\ NoOp.op = "none" /\ NoOp.call = "none"
      /\ \A c \in Clients : clerk[c] = NoOp
  BY DEF NoOp, Operation
<1>2. Types
  <2>1. KVTypeOK
    BY Operations, EmptyAssumption DEF KVTypeOK, Entry, ZeroEntry
  <2>2. \A k \in Keys : KVStore[k].version = Len(writes[k])
    BY DEF ZeroEntry
  <2>3. writes \in [Keys -> Seq(Values)] /\ outcome \in [Clients -> Reply]
    BY Operations
  <2> QED
    BY <2>1, <2>2, <2>3, MaxOpsAssumption DEF Types, TypeOK
<1>3. \A c \in Clients : RunningOf(c) /\ OutcomeOf(c)
  BY <1>1, Zenon DEF RunningOf, OutcomeOf
<1>4. Numbered /\ AllAsked /\ Definite
  BY DEF Numbered, AllAsked, Definite
<1> QED
  BY <1>2, <1>3, <1>4 DEF IInv

(* A step of the service for operation n of client c: nobody's operation   *)
(* changes; what is new in writes and late comes from the Put with value   *)
(* <<c, n>>.                                                               *)
ServedFor(c, n, k, ver) ==
  /\ UNCHANGED <<started, finished>>
  /\ clerk' \in [Clients -> ClerkState] /\ outcome' \in [Clients -> Reply]
  /\ \A d \in Clients : /\ clerk'[d].op = clerk[d].op /\ clerk'[d].value = clerk[d].value
                        /\ clerk'[d].key = clerk[d].key /\ clerk'[d].version = clerk[d].version
                        /\ d # c => clerk'[d] = clerk[d] /\ outcome'[d] = outcome[d]
  /\ KVStore' \in [Keys -> Entry] /\ writes' \in [Keys -> Seq(Values)]
  /\ \A l \in Keys : KVStore'[l].version = Len(writes'[l])
  /\ \A l \in Keys : \A i \in DOMAIN writes[l] :
       i \in DOMAIN writes'[l] /\ writes'[l][i] = writes[l][i]
  /\ \A l \in Keys : \A i \in DOMAIN writes'[l] :
       \/ i \in DOMAIN writes[l]
       \/ l = k /\ i = ver + 1 /\ writes'[l][i] = <<c, n>> /\ Asked(<<c, n>>, k, ver)
  /\ late' \subseteq PutRequest
  /\ \A q \in late' :
       \/ q \in late
       \/ q.value = <<c, n>> /\ q.clnt = c /\ Asked(<<c, n>>, q.key, q.version)
  /\ \A f \in finished : f.op = "Put" /\ f.err = "ErrVersion" => <<f.clnt, f.n>> # <<c, n>>
  /\ RunningOf(c)' /\ OutcomeOf(c)'

LEMMA ServiceStep ==
  ASSUME IInv, NEW c \in Clients, NEW n \in Nat, NEW k \in Keys, NEW ver \in Nat,
         ServedFor(c, n, k, ver)
  PROVE  IInv'
<1> USE DEF ServedFor
<1>1. Types'
  BY DEF IInv, Types, TypeOK, KVTypeOK
<1>2. \A v, l, w : Asked(v, l, w) => AskedIn(clerk', finished', v, l, w)
  BY AskedKept
<1>u. ASSUME NEW v, v # <<c, n>>, Untouched(v) PROVE Untouched(v)'
  <2>1. ASSUME NEW l \in Keys, NEW i \in DOMAIN writes'[l] PROVE writes'[l][i] # v
    <3>1. CASE i \in DOMAIN writes[l]
      BY <1>u, <3>1 DEF Untouched
    <3>2. CASE i \notin DOMAIN writes[l]
      BY <1>u, <3>2, Zenon
    <3> QED
      BY <3>1, <3>2
  <2>2. \A q \in late' : q.value # v
    BY <1>u, Zenon DEF Untouched
  <2> QED
    BY <2>1, <2>2 DEF Untouched
<1>3. ASSUME NEW d \in Clients, d # c PROVE RunningOf(d)' /\ OutcomeOf(d)'
  <2>1. RunningOf(d) /\ OutcomeOf(d) /\ clerk'[d] = clerk[d] /\ outcome'[d] = outcome[d]
    BY <1>3 DEF IInv
  <2>2. RunningOf(d)'
    BY <2>1 DEF RunningOf
  <2>3. clerk[d].key \in Keys
    BY DEF IInv, Types, TypeOK, KVTypeOK, ClerkState
  <2>4. clerk[d].op = "Put" => clerk[d].value # <<c, n>>
    BY <1>3, <2>1 DEF RunningOf
  <2>5. clerk[d].op = "Put" /\ Untouched(clerk[d].value) => Untouched(clerk[d].value)'
    <3> SUFFICES ASSUME NEW v, v = clerk[d].value, v # <<c, n>>, Untouched(v)
                 PROVE  Untouched(v)'
      BY <2>1, <2>4 DEF Untouched
    <3> QED
      BY <1>u
  <2>6. Written(clerk[d].key, clerk[d].value, clerk[d].version)
          => Written(clerk[d].key, clerk[d].value, clerk[d].version)'
    BY <2>1, <2>3 DEF Written
  <2> QED
    BY <2>1, <2>2, <2>5, <2>6 DEF OutcomeOf
<1>4. Numbered'
  <2>1. \A f \in finished : f.clnt \in Clients
    BY DEF IInv, Types, Finished
  <2> QED
    BY <2>1 DEF IInv, Numbered
<1>5. AllAsked'
  <2>1. ASSUME NEW q \in late'
        PROVE  /\ AskedIn(clerk', finished', q.value, q.key, q.version)
               /\ \E m \in Nat : q.value = <<q.clnt, m>>
    <3>1. CASE q \in late
      BY <1>2, <3>1 DEF IInv, AllAsked
    <3>2. CASE q \notin late
      BY <1>2, <3>2, Zenon
    <3> QED
      BY <3>1, <3>2
  <2>2. ASSUME NEW l \in Keys, NEW i \in DOMAIN writes'[l]
        PROVE  AskedIn(clerk', finished', writes'[l][i], l, i - 1)
    <3>1. CASE i \in DOMAIN writes[l]
      <4>1. Asked(writes[l][i], l, i - 1) /\ writes'[l][i] = writes[l][i]
        BY <3>1 DEF IInv, AllAsked
      <4> QED
        BY <1>2, <4>1
    <3>2. CASE i \notin DOMAIN writes[l]
      <4>1. l = k /\ i = ver + 1 /\ writes'[l][i] = <<c, n>> /\ Asked(<<c, n>>, k, ver)
        BY <3>2, Zenon
      <4>2. i - 1 = ver
        BY <4>1
      <4> QED
        BY <1>2, <4>1, <4>2, Zenon
    <3> QED
      BY <3>1, <3>2
  <2> QED
    BY <2>1, <2>2 DEF AllAsked, Asked
<1>6. Definite'
  <2> SUFFICES ASSUME NEW f \in finished, f.op = "Put"
               PROVE  /\ f.err = "OK" => Written(f.key, <<f.clnt, f.n>>, f.asked)'
                      /\ f.err = "ErrVersion" => Untouched(<<f.clnt, f.n>>)'
    BY DEF Definite
  <2>1. f.key \in Keys
    BY DEF IInv, Types, Finished
  <2>2. f.err = "OK" => Written(f.key, <<f.clnt, f.n>>, f.asked)'
    BY <2>1, Zenon DEF IInv, Definite, Written
  <2>3. f.err = "ErrVersion" => Untouched(<<f.clnt, f.n>>)'
    <3> SUFFICES ASSUME f.err = "ErrVersion" PROVE Untouched(<<f.clnt, f.n>>)'
      OBVIOUS
    <3> DEFINE v == <<f.clnt, f.n>>
    <3>1. v # <<c, n>> /\ Untouched(v)
      BY DEF IInv, Definite
    <3> HIDE DEF v
    <3>2. Untouched(v)'
      BY <1>u, <3>1
    <3> QED
      BY <3>2 DEF v
  <2> QED
    BY <2>2, <2>3
<1> QED
  BY <1>1, <1>3, <1>4, <1>5, <1>6 DEF IInv
\* The RPC of c is answered, lost or given up: the operation stays.
LEMMA CallStep ==
  ASSUME IInv, NEW c \in Clients, NEW reply \in Reply, NEW call \in {"sent", "replied"},
         NEW retried \in BOOLEAN, clerk[c].op # "none",
         clerk' = [clerk EXCEPT ![c].call = call, ![c].reply = reply, ![c].retried = retried]
  PROVE  /\ clerk' \in [Clients -> ClerkState]
         /\ \A d \in Clients : d # c => clerk'[d] = clerk[d]
         /\ clerk'[c] = [clerk[c] EXCEPT !.call = call, !.reply = reply, !.retried = retried]
<1>1. clerk \in [Clients -> ClerkState] /\ clerk[c] \in ClerkState
  BY DEF IInv, Types, TypeOK, KVTypeOK
<1>2. [clerk[c] EXCEPT !.call = call, !.reply = reply, !.retried = retried] \in ClerkState
  BY <1>1, Zenon DEF ClerkState
<1>3. clerk' = [clerk EXCEPT ![c] =
                  [clerk[c] EXCEPT !.call = call, !.reply = reply, !.retried = retried]]
  BY <1>1, Zenon
<1> QED
  BY <1>1, <1>2, <1>3

LEMMA ServeGetInv ==
  ASSUME IInv, NEW c \in Clients, ServeGet(c)
  PROVE  IInv'
<1> DEFINE e == KVStore[clerk[c].key]
<1>1. /\ clerk[c].op = "Get" /\ clerk[c].call = "sent" /\ clerk[c] \in ClerkState
      /\ clerk[c].key \in Keys /\ e \in Entry /\ clerk \in [Clients -> ClerkState]
  BY DEF ServeGet, HandleGet, IInv, Types, TypeOK, KVTypeOK, ClerkState
<1>2. /\ clerk' = [clerk EXCEPT ![c].call = "replied", ![c].reply = GetReply(e)]
      /\ outcome' = [outcome EXCEPT ![c] = clerk'[c].reply]
      /\ UNCHANGED <<KVStore, late, writes, started, finished>>
  BY DEF ServeGet, HandleGet
<1>3. GetReply(e) \in Reply /\ GetReply(e).err # "none"
  BY <1>1, GetReplyType
<1> HIDE DEF e
<1>4. clerk' = [clerk EXCEPT ![c].call = "replied", ![c].reply = GetReply(e),
                             ![c].retried = clerk[c].retried]
  BY <1>1, <1>2, Zenon DEF ClerkState
<1>5. /\ clerk' \in [Clients -> ClerkState]
      /\ \A d \in Clients : d # c => clerk'[d] = clerk[d]
      /\ clerk'[c] = [clerk[c] EXCEPT !.call = "replied", !.reply = GetReply(e),
                                      !.retried = clerk[c].retried]
  BY <1>1, <1>3, <1>4, CallStep, Zenon DEF ClerkState
<1>6. outcome' \in [Clients -> Reply] /\ outcome'[c] = GetReply(e)
      /\ \A d \in Clients : d # c => outcome'[d] = outcome[d]
  BY <1>1, <1>2, <1>3, <1>5 DEF IInv, Types, ClerkState
<1>7. RunningOf(c)' /\ OutcomeOf(c)'
  BY <1>1, <1>2, <1>3, <1>5, <1>6 DEF IInv, RunningOf, OutcomeOf, ClerkState
<1>8. started[c] \in Nat /\ \A f \in finished : <<f.clnt, f.n>> # <<c, started[c]>>
  BY <1>1, MaxOpsAssumption DEF IInv, Numbered, Types, TypeOK, Finished
<1>9. KVStore \in [Keys -> Entry] /\ writes \in [Keys -> Seq(Values)] /\ late \subseteq PutRequest
      /\ \A l \in Keys : KVStore[l].version = Len(writes[l])
  BY DEF IInv, Types, TypeOK, KVTypeOK
<1>10. /\ clerk'[c].op = clerk[c].op /\ clerk'[c].value = clerk[c].value
       /\ clerk'[c].key = clerk[c].key /\ clerk'[c].version = clerk[c].version
  BY <1>1, <1>5 DEF ClerkState
<1>11. ServedFor(c, started[c], clerk[c].key, clerk[c].version)
  BY <1>1, <1>2, <1>5, <1>6, <1>7, <1>8, <1>9, <1>10 DEF ServedFor
<1> QED
  BY <1>1, <1>8, <1>11, ServiceStep DEF ClerkState
\* A running operation has a number no operation that returned has.
LEMMA RunningOp ==
  ASSUME IInv, NEW c \in Clients, clerk[c].op # "none"
  PROVE  /\ started[c] \in Nat /\ started[c] \in 1 .. MaxOps
         /\ \A f \in finished : <<f.clnt, f.n>> # <<c, started[c]>>
         /\ clerk[c] \in ClerkState /\ clerk[c].key \in Keys /\ clerk[c].version \in Nat
         /\ clerk[c].value \in Values /\ clerk[c].call \in {"sent", "replied"}
         /\ clerk[c].op = "Put" =>
              /\ clerk[c].value = <<c, started[c]>>
              /\ Asked(<<c, started[c]>>, clerk[c].key, clerk[c].version)
<1>1. started[c] \in Nat /\ started[c] \in 1 .. MaxOps
  BY MaxOpsAssumption DEF IInv, RunningOf, Types, TypeOK
<1>2. \A f \in finished : <<f.clnt, f.n>> # <<c, started[c]>>
  BY <1>1 DEF IInv, Numbered, Types, Finished
<1>3. /\ clerk[c] \in ClerkState /\ clerk[c].key \in Keys /\ clerk[c].version \in Nat
      /\ clerk[c].value \in Values
  BY DEF IInv, Types, TypeOK, KVTypeOK, ClerkState
<1>4. clerk[c].call \in {"sent", "replied"}
  BY <1>3 DEF IInv, RunningOf, ClerkState
<1>5. clerk[c].op = "Put" => clerk[c].value = <<c, started[c]>>
  BY DEF IInv, RunningOf
<1> QED
  BY <1>1, <1>2, <1>3, <1>4, <1>5 DEF Asked, AskedIn

LEMMA CallFailsInv ==
  ASSUME IInv, NEW c \in Clients, CallFails(c), UNCHANGED <<started, finished, outcome, writes>>
  PROVE  IInv'
<1>0. NoOp.call = "none"
  BY DEF NoOp, Operation
<1>1. clerk[c].op # "none"
  BY <1>0 DEF CallFails, IInv, RunningOf
<1>2. /\ clerk' = [clerk EXCEPT ![c].call = "sent", ![c].reply = NoReply, ![c].retried = TRUE]
      /\ UNCHANGED <<KVStore, late>>
  <2>1. clerk \in [Clients -> ClerkState] /\ clerk[c] \in ClerkState
    BY DEF IInv, Types, TypeOK, KVTypeOK
  <2> QED
    BY <2>1, Zenon DEF CallFails, ClerkState
<1>3. /\ clerk' \in [Clients -> ClerkState]
      /\ \A d \in Clients : d # c => clerk'[d] = clerk[d]
      /\ clerk'[c] = [clerk[c] EXCEPT !.call = "sent", !.reply = NoReply, !.retried = TRUE]
  BY <1>1, <1>2, CallStep, Operations, Zenon
<1>4. /\ clerk'[c].op = clerk[c].op /\ clerk'[c].value = clerk[c].value
      /\ clerk'[c].key = clerk[c].key /\ clerk'[c].version = clerk[c].version
      /\ clerk'[c].call = "sent" /\ clerk'[c].retried = TRUE /\ clerk'[c].reply = PutReply("none")
      /\ clerk'[c].reply.err = "none"
  BY <1>1, <1>3, RunningOp DEF ClerkState, NoReply, PutReply
<1>5. RunningOf(c)'
  BY <1>1, <1>4 DEF IInv, RunningOf
<1>6. OutcomeOf(c)'
  BY <1>4 DEF IInv, OutcomeOf, Written
<1>7. KVStore \in [Keys -> Entry] /\ writes \in [Keys -> Seq(Values)] /\ late \subseteq PutRequest
      /\ outcome \in [Clients -> Reply] /\ \A l \in Keys : KVStore[l].version = Len(writes[l])
  BY DEF IInv, Types, TypeOK, KVTypeOK
<1>8. ServedFor(c, started[c], clerk[c].key, clerk[c].version)
  BY <1>1, <1>2, <1>3, <1>4, <1>5, <1>6, <1>7, RunningOp DEF ServedFor
<1> QED
  BY <1>1, <1>8, ServiceStep, RunningOp, Zenon

LEMMA CallAbandonedInv ==
  ASSUME IInv, NEW c \in Clients, CallAbandoned(c), UNCHANGED <<started, finished, outcome, writes>>
  PROVE  IInv'
<1>1. clerk[c].op = "Put" /\ clerk[c].call = "sent"
  BY DEF CallAbandoned
<1>2. /\ clerk' = [clerk EXCEPT ![c].call = "sent", ![c].reply = clerk[c].reply, ![c].retried = TRUE]
      /\ UNCHANGED KVStore /\ late' = late \cup {Request(c)}
  <2>1. clerk \in [Clients -> ClerkState] /\ clerk[c] \in ClerkState
    BY DEF IInv, Types, TypeOK, KVTypeOK
  <2> QED
    BY <1>1, <2>1, Zenon DEF CallAbandoned, ClerkState
<1>3. /\ clerk' \in [Clients -> ClerkState]
      /\ \A d \in Clients : d # c => clerk'[d] = clerk[d]
      /\ clerk'[c] = [clerk[c] EXCEPT !.call = "sent", !.reply = clerk[c].reply, !.retried = TRUE]
  BY <1>1, <1>2, CallStep, RunningOp, Zenon DEF ClerkState
<1>4. /\ clerk'[c].op = clerk[c].op /\ clerk'[c].value = clerk[c].value
      /\ clerk'[c].key = clerk[c].key /\ clerk'[c].version = clerk[c].version
      /\ clerk'[c].call = "sent" /\ clerk'[c].retried = TRUE /\ clerk'[c].reply = clerk[c].reply
  BY <1>1, <1>3, RunningOp DEF ClerkState
<1>5. RunningOf(c)'
  BY <1>1, <1>4 DEF IInv, RunningOf
<1>6. OutcomeOf(c)'
  BY <1>1, <1>4 DEF IInv, OutcomeOf, Written
<1>7. KVStore \in [Keys -> Entry] /\ writes \in [Keys -> Seq(Values)] /\ late \subseteq PutRequest
      /\ outcome \in [Clients -> Reply] /\ \A l \in Keys : KVStore[l].version = Len(writes[l])
  BY DEF IInv, Types, TypeOK, KVTypeOK
<1>8. /\ Request(c) \in PutRequest
      /\ Request(c).value = <<c, started[c]>> /\ Request(c).clnt = c
      /\ Request(c).key = clerk[c].key /\ Request(c).version = clerk[c].version
  BY <1>1, RunningOp, Zenon DEF Request, PutRequest
<1>9. /\ late' \subseteq PutRequest
      /\ \A q \in late' :
           \/ q \in late
           \/ q.value = <<c, started[c]>> /\ q.clnt = c /\ Asked(<<c, started[c]>>, q.key, q.version)
  BY <1>1, <1>2, <1>7, <1>8, RunningOp
<1>a. \A f \in finished : <<f.clnt, f.n>> # <<c, started[c]>>
  BY <1>1, RunningOp, Zenon
<1>b. \A d \in Clients : /\ clerk'[d].op = clerk[d].op /\ clerk'[d].value = clerk[d].value
                         /\ clerk'[d].key = clerk[d].key /\ clerk'[d].version = clerk[d].version
                         /\ d # c => clerk'[d] = clerk[d] /\ outcome'[d] = outcome[d]
  BY <1>3, <1>4, Zenon
<1>10. ServedFor(c, started[c], clerk[c].key, clerk[c].version)
  BY <1>2, <1>3, <1>5, <1>6, <1>7, <1>9, <1>a, <1>b, Zenon DEF ServedFor
<1> QED
  BY <1>1, <1>10, ServiceStep, RunningOp, Zenon

LEMMA ServePutInv ==
  ASSUME IInv, NEW c \in Clients, ServePut(c)
  PROVE  IInv'
<1>0. PICK k \in Keys, v \in Values, ver \in Nat :
        clerk[c].key = k /\ clerk[c].value = v /\ clerk[c].version = ver
  BY RunningOp, Zenon DEF ServePut, HandlePut
<1> DEFINE err == PutErr(KVStore[k], ver)
<1>1. /\ clerk[c].op = "Put" /\ clerk[c].call = "sent"
      /\ clerk[c] \in ClerkState /\ clerk \in [Clients -> ClerkState]
  BY RunningOp DEF ServePut, HandlePut, IInv, Types, TypeOK, KVTypeOK
<1>2. /\ KVStore' = [KVStore EXCEPT ![k] = PutEntry(KVStore[k], v, ver)]
      /\ writes' = Recorded(k, v, ver)
      /\ outcome' = [outcome EXCEPT ![c] = IF outcome[c].err = "OK" THEN outcome[c] ELSE clerk'[c].reply]
      /\ UNCHANGED <<late, started, finished>>
      /\ clerk' = [clerk EXCEPT ![c].call = "replied", ![c].reply = PutReply(err)]
  BY <1>0, <1>1 DEF ServePut, HandlePut, IInv, Types
<1>3. Applied(k, v, ver)
  BY <1>2, Effect, Zenon
<1>4. /\ err \in {"OK", "ErrNoKey", "ErrVersion"} /\ PutReply(err) \in Reply /\ PutReply(err).err = err
      /\ err = "OK" => ver + 1 \in DOMAIN writes'[k] /\ writes'[k][ver + 1] = v
      /\ err # "OK" => UNCHANGED <<KVStore, writes>>
      /\ err = "ErrNoKey" => ver # 0
  BY <1>3, Operations DEF PutReply, Applied
<1> HIDE DEF err
<1>5. clerk' = [clerk EXCEPT ![c].call = "replied", ![c].reply = PutReply(err),
                             ![c].retried = clerk[c].retried]
  BY <1>1, <1>2, Zenon DEF ClerkState
<1>6. /\ clerk' \in [Clients -> ClerkState]
      /\ \A d \in Clients : d # c => clerk'[d] = clerk[d]
      /\ clerk'[c] = [clerk[c] EXCEPT !.call = "replied", !.reply = PutReply(err),
                                      !.retried = clerk[c].retried]
  BY <1>1, <1>4, <1>5, CallStep, Zenon DEF ClerkState
<1>7. /\ clerk'[c].op = "Put" /\ clerk'[c].value = v /\ clerk'[c].key = k
      /\ clerk'[c].version = ver /\ clerk'[c].call = "replied"
      /\ clerk'[c].retried = clerk[c].retried /\ clerk'[c].reply = PutReply(err)
  BY <1>0, <1>1, <1>6 DEF ClerkState
<1>8. /\ outcome' \in [Clients -> Reply] /\ \A d \in Clients : d # c => outcome'[d] = outcome[d]
      /\ outcome'[c] = IF outcome[c].err = "OK" THEN outcome[c] ELSE PutReply(err)
  BY <1>2, <1>4, <1>7 DEF IInv, Types
<1>9. v = <<c, started[c]>> /\ Asked(<<c, started[c]>>, k, ver)
      /\ started[c] \in Nat /\ \A f \in finished : <<f.clnt, f.n>> # <<c, started[c]>>
  BY <1>0, <1>1, RunningOp
<1>10. RunningOf(c)'
  BY <1>0, <1>1, <1>2, <1>7 DEF IInv, RunningOf
<1>11. OutcomeOf(c) /\ ~clerk[c].retried => Untouched(v)
  BY <1>0, <1>1 DEF OutcomeOf
<1>12. OutcomeOf(c)'
  <2>1. outcome'[c] = PutReply(outcome'[c].err) /\ outcome'[c].err \in {"OK", err}
    BY <1>1, <1>4, <1>8 DEF IInv, OutcomeOf
  <2>2. outcome'[c].err = "OK" => Written(k, v, ver)'
    <3>1. CASE outcome[c].err = "OK"
      <4>1. Written(k, v, ver)
        BY <1>0, <1>1, <3>1 DEF IInv, OutcomeOf
      <4> QED
        BY <1>3, <4>1 DEF Written, Applied
    <3>2. CASE outcome[c].err # "OK"
      BY <1>4, <1>8, <3>2 DEF Written
    <3> QED
      BY <3>1, <3>2
  <2>3. err = "ErrNoKey" => ver # 0
    BY <1>4
  <2>4. err # "OK" /\ ~clerk[c].retried => Untouched(v)'
    BY <1>1, <1>2, <1>4, <1>11 DEF IInv, Untouched
  <2> QED
    BY <1>1, <1>4, <1>7, <2>1, <2>2, <2>3, <2>4 DEF OutcomeOf, Written, Untouched
<1>13. late \subseteq PutRequest
  BY DEF IInv, Types, TypeOK, KVTypeOK
<1>14. \A d \in Clients : /\ clerk'[d].op = clerk[d].op /\ clerk'[d].value = clerk[d].value
                          /\ clerk'[d].key = clerk[d].key /\ clerk'[d].version = clerk[d].version
                          /\ d # c => clerk'[d] = clerk[d] /\ outcome'[d] = outcome[d]
  BY <1>0, <1>1, <1>6, <1>7, <1>8, Zenon
<1>15. \A l \in Keys : \A i \in DOMAIN writes'[l] :
         \/ i \in DOMAIN writes[l]
         \/ l = k /\ i = ver + 1 /\ writes'[l][i] = <<c, started[c]>> /\ Asked(<<c, started[c]>>, k, ver)
  BY <1>3, <1>9 DEF Applied
<1>16. ServedFor(c, started[c], k, ver)
  BY <1>2, <1>3, <1>6, <1>8, <1>9, <1>10, <1>12, <1>13, <1>14, <1>15, Zenon DEF ServedFor, Applied
<1> QED
  BY <1>9, <1>16, ServiceStep
\* What a late request asks for, and that it is not one of a refused Put.
LEMMA LateRequest ==
  ASSUME IInv, NEW q \in late
  PROVE  /\ q.clnt \in Clients /\ q.key \in Keys /\ q.value \in Values /\ q.version \in Nat
         /\ Asked(q.value, q.key, q.version)
         /\ \E n \in Nat : q.value = <<q.clnt, n>>
         /\ \A f \in finished : f.op = "Put" /\ f.err = "ErrVersion" => <<f.clnt, f.n>> # q.value
<1>1. q.clnt \in Clients /\ q.key \in Keys /\ q.value \in Values /\ q.version \in Nat
  BY DEF IInv, Types, TypeOK, KVTypeOK, PutRequest
<1>2. Asked(q.value, q.key, q.version) /\ \E n \in Nat : q.value = <<q.clnt, n>>
  BY DEF IInv, AllAsked
<1>3. \A f \in finished : f.op = "Put" /\ f.err = "ErrVersion" => <<f.clnt, f.n>> # q.value
  BY DEF IInv, Definite, Untouched
<1> QED
  BY <1>1, <1>2, <1>3

LEMMA ServeLateInv ==
  ASSUME IInv, NEW q \in late, ServeLate(q)
  PROVE  IInv'
<1>0. PICK c \in Clients, k \in Keys, v \in Values, ver \in Nat, n \in Nat :
        q.clnt = c /\ q.key = k /\ q.value = v /\ q.version = ver /\ v = <<c, n>>
  BY LateRequest, Zenon
<1>1. /\ Asked(v, k, ver)
      /\ \A f \in finished : f.op = "Put" /\ f.err = "ErrVersion" => <<f.clnt, f.n>> # v
  BY <1>0, LateRequest
<1>2. /\ KVStore' = [KVStore EXCEPT ![k] = PutEntry(KVStore[k], v, ver)]
      /\ writes' = Recorded(k, v, ver)
      /\ late' = late \ {q} /\ UNCHANGED <<clerk, started, finished>>
      /\ outcome' = IF writes' # writes /\ clerk[c].op = "Put" /\ clerk[c].value = v
                      THEN [outcome EXCEPT ![c] = PutReply("OK")] ELSE outcome
  BY <1>0 DEF ServeLate, HandleLate
<1>3. Applied(k, v, ver)
  BY <1>2, Effect, Zenon
<1>4. /\ clerk \in [Clients -> ClerkState] /\ late \subseteq PutRequest
      /\ outcome \in [Clients -> Reply] /\ PutReply("OK") \in Reply
      /\ PutReply("OK").err = "OK"
  BY Operations DEF IInv, Types, TypeOK, KVTypeOK, PutReply
<1>5. outcome' \in [Clients -> Reply] /\ \A d \in Clients : d # c => outcome'[d] = outcome[d]
  BY <1>2, <1>4
<1>6. RunningOf(c) /\ OutcomeOf(c)
  BY DEF IInv
<1>7. RunningOf(c)'
  BY <1>2, <1>6 DEF RunningOf
<1>8. OutcomeOf(c)'
  <2>1. CASE clerk[c].op # "Put"
    BY <1>2, <1>6, <2>1, Zenon DEF OutcomeOf
  <2>2. CASE clerk[c].op = "Put" /\ clerk[c].value = v
    <3>1. Asked(v, clerk[c].key, clerk[c].version)
      BY <2>2 DEF Asked, AskedIn
    <3>2. clerk[c].key = k /\ clerk[c].version = ver
      BY <1>1, <3>1, AskedOnce
    <3>3. ~(~clerk[c].retried /\ (clerk[c].call = "sent" \/ clerk[c].reply.err # "OK"))
      BY <1>0, <1>6, <2>2 DEF OutcomeOf, Untouched
    <3>4. CASE writes' = writes
      BY <1>2, <1>6, <3>4, Zenon DEF OutcomeOf, Written, Untouched
    <3>5. CASE writes' # writes
      <4>1. outcome'[c] = PutReply("OK")
        BY <1>2, <1>4, <2>2, <3>5
      <4>2. ver + 1 \in DOMAIN writes'[k] /\ writes'[k][ver + 1] = v
        BY <1>3, <3>5 DEF Applied
      <4> QED
        BY <1>2, <1>4, <1>6, <2>2, <3>2, <3>3, <4>1, <4>2, Zenon DEF OutcomeOf, Written
    <3> QED
      BY <3>4, <3>5
  <2>3. CASE clerk[c].op = "Put" /\ clerk[c].value # v
    <3>1. outcome' = outcome /\ clerk[c].key \in Keys
      BY <1>2, <2>3, RunningOp, Zenon
    <3>2. Untouched(clerk[c].value) => Untouched(clerk[c].value)'
      <4> SUFFICES ASSUME NEW u, u # v, Untouched(u) PROVE Untouched(u)'
        BY <1>2, <2>3, ZenonT(60) DEF Untouched
      <4>1. ASSUME NEW l \in Keys, NEW i \in DOMAIN writes'[l] PROVE writes'[l][i] # u
        <5>1. CASE i \in DOMAIN writes[l]
          BY <1>3, <5>1 DEF Untouched, Applied
        <5>2. CASE i \notin DOMAIN writes[l]
          BY <1>3, <5>2 DEF Applied
        <5> QED
          BY <5>1, <5>2
      <4>2. \A r \in late' : r.value # u
        BY <1>2 DEF Untouched
      <4> QED
        BY <4>1, <4>2 DEF Untouched
    <3>3. Written(clerk[c].key, clerk[c].value, clerk[c].version)
            => Written(clerk[c].key, clerk[c].value, clerk[c].version)'
      BY <1>2, <1>3, <3>1 DEF Written, Applied
    <3> QED
      BY <1>2, <1>6, <2>3, <3>1, <3>2, <3>3, Zenon DEF OutcomeOf
  <2> QED
    BY <2>1, <2>2, <2>3
<1>9. \A l \in Keys : \A i \in DOMAIN writes'[l] :
        \/ i \in DOMAIN writes[l]
        \/ l = k /\ i = ver + 1 /\ writes'[l][i] = <<c, n>> /\ Asked(<<c, n>>, k, ver)
  BY <1>0, <1>1, <1>3 DEF Applied
<1>10. \A d \in Clients : /\ clerk'[d].op = clerk[d].op /\ clerk'[d].value = clerk[d].value
                          /\ clerk'[d].key = clerk[d].key /\ clerk'[d].version = clerk[d].version
                          /\ d # c => clerk'[d] = clerk[d] /\ outcome'[d] = outcome[d]
  BY <1>2, <1>5
<1>11. late' \subseteq PutRequest /\ \A r \in late' : r \in late
  BY <1>2, <1>4
<1>12. \A f \in finished : f.op = "Put" /\ f.err = "ErrVersion" => <<f.clnt, f.n>> # <<c, n>>
  BY <1>0, <1>1
<1>13. ServedFor(c, n, k, ver)
  BY <1>2, <1>3, <1>4, <1>5, <1>7, <1>8, <1>9, <1>10, <1>11, <1>12, Zenon DEF ServedFor, Applied
<1> QED
  BY <1>13, ServiceStep

-----------------------------------------------------------------------------
(* The clients' steps.                                                     *)

\* A Put that starts has a value nobody used before.
LEMMA FreshValue ==
  ASSUME IInv, NEW c \in Clients, clerk[c].op = "none"
  PROVE  Untouched(<<c, started[c] + 1>>)
<1> DEFINE v == <<c, started[c] + 1>>
<1>1. started[c] \in Nat
  BY MaxOpsAssumption DEF IInv, Types, TypeOK
<1>2. \A k, ver : ~Asked(v, k, ver)
  <2> SUFFICES ASSUME NEW k, NEW ver, Asked(v, k, ver) PROVE FALSE
    OBVIOUS
  <2>1. ASSUME NEW d \in Clients, clerk[d].op = "Put", clerk[d].value = v PROVE FALSE
    BY <2>1 DEF IInv, RunningOf
  <2>2. ASSUME NEW f \in finished, <<f.clnt, f.n>> = v PROVE FALSE
    <3>1. f.clnt = c /\ f.n = started[c] + 1 /\ f.n <= started[f.clnt]
      BY <2>2 DEF IInv, Numbered
    <3> QED
      BY <1>1, <3>1
  <2> QED
    BY <2>1, <2>2 DEF Asked, AskedIn
<1> HIDE DEF v
<1>3. Untouched(v)
  BY <1>2 DEF Untouched, IInv, AllAsked
<1> QED
  BY <1>3 DEF v

LEMMA StartInv ==
  ASSUME IInv, NEW c \in Clients, NEW k \in Keys, NEW ver \in Nat, NEW operation,
         \/ operation = GetOp(k)
         \/ operation = PutOp(k, <<c, started[c] + 1>>, ver),
         started[c] < MaxOps, Start(c, operation),
         started' = [started EXCEPT ![c] = @ + 1],
         UNCHANGED <<finished, outcome, writes>>
  PROVE  IInv'
<1>1. /\ clerk[c].op = "none" /\ clerk' = [clerk EXCEPT ![c] = operation]
      /\ UNCHANGED <<KVStore, late>>
  BY DEF Start, Continue
<1>2. /\ clerk \in [Clients -> ClerkState] /\ started \in [Clients -> 0 .. MaxOps]
      /\ started[c] \in Nat
  BY MaxOpsAssumption DEF IInv, Types, TypeOK, KVTypeOK
<1>3. <<c, started[c] + 1>> \in Values
  BY <1>2, ValuesAssumption, MaxOpsAssumption
<1>4. operation \in ClerkState
  BY <1>3, Operations
<1>5. \A d \in Clients : /\ clerk'[d] = IF d = c THEN operation ELSE clerk[d]
                         /\ started'[d] = IF d = c THEN started[c] + 1 ELSE started[d]
  BY <1>1, <1>2
<1>6. /\ operation.op # "none" /\ operation.call = "sent" /\ operation.retried = FALSE
      /\ operation.reply = PutReply("none") /\ operation.reply.err = "none"
      /\ operation.op = "Get" => operation.value = Empty /\ operation.version = 0
      /\ operation.op = "Put" => operation.value = <<c, started[c] + 1>>
  BY DEF GetOp, PutOp, Operation, NoReply, PutReply
<1>7. outcome[c] = PutReply("none") /\ outcome[c].err = "none"
  <2>1. RunningOf(c)
    BY Zenon DEF IInv
  <2>2. outcome[c] = NoReply
    BY <1>1, <2>1 DEF RunningOf
  <2>3. NoReply = PutReply("none") /\ PutReply("none").err = "none"
    BY Zenon DEF NoReply, PutReply
  <2> QED
    BY <2>2, <2>3, Zenon
<1>8. Types'
  <2>1. clerk' \in [Clients -> ClerkState] /\ started' \in [Clients -> 0 .. MaxOps]
    BY <1>1, <1>2, <1>4, MaxOpsAssumption
  <2> QED
    BY <1>1, <2>1 DEF IInv, Types, TypeOK, KVTypeOK
<1>9. ASSUME NEW d \in Clients PROVE RunningOf(d)' /\ OutcomeOf(d)'
  <2>1. CASE d = c
    <3>1. RunningOf(c)'
      BY <1>2, <1>5, <1>6 DEF RunningOf
    <3>2. Untouched(<<c, started[c] + 1>>)
      BY <1>1, FreshValue
    <3>3. operation.op = "Put" => Untouched(clerk[c].value)'
      BY <1>1, <1>5, <1>6, <3>2 DEF Untouched
    <3> QED
      BY <1>5, <1>6, <1>7, <2>1, <3>1, <3>3 DEF OutcomeOf
  <2>2. CASE d # c
    <3>1. clerk'[d] = clerk[d] /\ started'[d] = started[d] /\ outcome'[d] = outcome[d]
          /\ UNCHANGED <<late, writes>>
      BY <1>1, <1>5, <2>2
    <3>2. RunningOf(d) /\ OutcomeOf(d)
      BY DEF IInv
    <3> QED
      BY <3>1, <3>2, OtherClient
  <2> QED
    BY <2>1, <2>2
<1>10. Numbered'
  <2>1. \A f \in finished : f.clnt \in Clients /\ f.n \in Nat
    BY DEF IInv, Types, Finished
  <2>2. \A f \in finished : /\ f.n <= started'[f.clnt]
                            /\ clerk'[f.clnt].op # "none" => f.n < started'[f.clnt]
    <3>1. Numbered
      BY Zenon DEF IInv
    <3> QED
      BY <1>2, <1>5, <2>1, <3>1 DEF Numbered
  <2> QED
    BY <2>2 DEF IInv, Numbered
<1>11. \A v, l, w : Asked(v, l, w) => AskedIn(clerk', finished', v, l, w)
  BY <1>1, <1>5, AskedKept, Zenon
<1>12. AllAsked'
  BY <1>1, <1>11, Zenon DEF IInv, AllAsked, Asked
<1>13. Definite'
  BY <1>1 DEF IInv, Definite, Written, Untouched
<1> QED
  BY <1>8, <1>9, <1>10, <1>12, <1>13 DEF IInv
\* Clerk.Get and Clerk.Put return.
LEMMA FinishInv ==
  ASSUME IInv, NEW c \in Clients, NEW op \in {"Get", "Put"}, NEW err, Finish(c, op, err),
         err = IF op = "Put" THEN PutResult(c) ELSE clerk[c].reply.err
  PROVE  IInv'
<1> DEFINE r == [clnt |-> c, n |-> started[c], op |-> op, key |-> clerk[c].key,
                 asked |-> clerk[c].version, err |-> err,
                 value |-> clerk[c].reply.value, version |-> clerk[c].reply.version]
<1>1. /\ clerk[c].op = op /\ clerk[c].call = "replied" /\ clerk' = [clerk EXCEPT ![c] = NoOp]
      /\ finished' = finished \cup {r} /\ outcome' = [outcome EXCEPT ![c] = NoReply]
      /\ UNCHANGED <<KVStore, late, started, writes>>
  BY DEF Finish, Returned, Continue
<1>2. /\ clerk \in [Clients -> ClerkState] /\ clerk[c] \in ClerkState /\ clerk[c].reply \in Reply
      /\ started[c] \in Nat /\ outcome \in [Clients -> Reply]
      /\ clerk[c].key \in Keys /\ clerk[c].version \in Nat
  BY MaxOpsAssumption DEF IInv, Types, TypeOK, KVTypeOK, ClerkState
<1>3. RunningOf(c) /\ OutcomeOf(c)
  BY DEF IInv
<1>4. err \in Errs
  BY <1>1, <1>2, <1>3, Zenon DEF OutcomeOf, PutResult, Reply, Errs
<1>5. r \in Finished
  BY <1>2, <1>4, Zenon DEF Finished, Reply
<1>6. /\ r.clnt = c /\ r.n = started[c] /\ r.op = op /\ r.key = clerk[c].key
      /\ r.asked = clerk[c].version /\ r.err = err
  BY Zenon
<1> HIDE DEF r
<1>7. \A d \in Clients : /\ clerk'[d] = IF d = c THEN NoOp ELSE clerk[d]
                         /\ outcome'[d] = IF d = c THEN NoReply ELSE outcome[d]
  BY <1>1, <1>2
<1>8. NoOp.op = "none" /\ NoOp.call = "none" /\ NoOp \in ClerkState /\ NoReply \in Reply
  BY Operations, Zenon DEF NoOp, Operation
<1>9. Types'
  <2>1. /\ clerk' \in [Clients -> ClerkState] /\ outcome' \in [Clients -> Reply]
        /\ finished' \subseteq Finished
    BY <1>1, <1>2, <1>5, <1>8 DEF IInv, Types
  <2> QED
    BY <1>1, <2>1 DEF IInv, Types, TypeOK, KVTypeOK
<1>10. ASSUME NEW d \in Clients PROVE RunningOf(d)' /\ OutcomeOf(d)'
  <2>1. CASE d = c
    BY <1>7, <1>8, <2>1 DEF RunningOf, OutcomeOf
  <2>2. CASE d # c
    <3>1. clerk'[d] = clerk[d] /\ started'[d] = started[d] /\ outcome'[d] = outcome[d]
          /\ UNCHANGED <<late, writes>>
      BY <1>1, <1>7, <2>2
    <3>2. RunningOf(d) /\ OutcomeOf(d)
      BY DEF IInv
    <3> QED
      BY <3>1, <3>2, OtherClient, Zenon
  <2> QED
    BY <2>1, <2>2
<1>11. Numbered'
  <2>1. \A f \in finished : f.clnt \in Clients /\ f.n \in Nat /\ (f.clnt = c => f.n < started[c])
    BY <1>1 DEF IInv, Types, Finished, Numbered
  <2>2. \A f \in finished' : /\ f.n <= started[f.clnt]
                             /\ clerk'[f.clnt].op # "none" => f.n < started[f.clnt]
    <3>1. Numbered
      BY Zenon DEF IInv
    <3> QED
      BY <1>1, <1>2, <1>6, <1>7, <1>8, <2>1, <3>1 DEF Numbered
  <2>3. \A f, g \in finished' : f.clnt = g.clnt /\ f.n = g.n => f = g
    BY <1>1, <1>2, <1>6, <2>1 DEF IInv, Numbered
  <2> QED
    BY <1>1, <2>2, <2>3 DEF Numbered
<1>12. ASSUME NEW v, NEW l, NEW w, Asked(v, l, w) PROVE AskedIn(clerk', finished', v, l, w)
  <2>1. CASE \E f \in finished : f.op = "Put" /\ <<f.clnt, f.n>> = v /\ f.key = l /\ f.asked = w
    BY <1>1, <2>1 DEF AskedIn
  <2>2. ASSUME NEW d \in Clients, clerk[d].op = "Put", clerk[d].value = v,
               clerk[d].key = l, clerk[d].version = w
        PROVE  AskedIn(clerk', finished', v, l, w)
    <3>1. CASE d # c
      BY <1>7, <2>2, <3>1 DEF AskedIn
    <3>2. CASE d = c
      <4>1. r.op = "Put" /\ <<r.clnt, r.n>> = v /\ r.key = l /\ r.asked = w /\ r \in finished'
        BY <1>1, <1>3, <1>6, <2>2, <3>2, Zenon DEF RunningOf
      <4> QED
        BY <4>1 DEF AskedIn
    <3> QED
      BY <3>1, <3>2
  <2> QED
    BY <1>12, <2>1, <2>2 DEF Asked, AskedIn
<1>13. AllAsked'
  BY <1>1, <1>12, Zenon DEF IInv, AllAsked, Asked
<1>14. Definite'
  <2>1. ASSUME op = "Put"
        PROVE  /\ err = "OK" => Written(clerk[c].key, <<c, started[c]>>, clerk[c].version)
               /\ err = "ErrVersion" => Untouched(<<c, started[c]>>)
    BY <1>1, <1>3, <2>1 DEF PutResult, OutcomeOf, RunningOf
  <2>2. ASSUME op = "Put"
        PROVE  /\ r.err = "OK" => Written(r.key, <<r.clnt, r.n>>, r.asked)
               /\ r.err = "ErrVersion" => Untouched(<<r.clnt, r.n>>)
    BY <1>6, <2>1, <2>2
  <2>3. \A f \in finished' : f.op = "Put" =>
          /\ f.err = "OK" => Written(f.key, <<f.clnt, f.n>>, f.asked)
          /\ f.err = "ErrVersion" => Untouched(<<f.clnt, f.n>>)
    BY <1>1, <1>6, <2>2 DEF IInv, Definite
  <2> QED
    BY <1>1, <2>3, Zenon DEF Definite, Written, Untouched
<1> QED
  BY <1>9, <1>10, <1>11, <1>13, <1>14 DEF IInv

\* Every step keeps the invariant.
LEMMA NextInv == IInv /\ [Next]_vars => IInv'
<1> SUFFICES ASSUME IInv, [Next]_vars PROVE IInv'
  OBVIOUS
<1>1. ASSUME NEW c \in Clients, StartGet(c) PROVE IInv'
  BY <1>1, StartInv, Zenon DEF StartGet
<1>2. ASSUME NEW c \in Clients, StartPut(c) PROVE IInv'
  <2>1. PICK k \in Keys, ver \in 0 .. MaxVersion : Start(c, PutOp(k, <<c, started[c] + 1>>, ver))
    BY <1>2 DEF StartPut
  <2>2. ver \in Nat
    BY MaxVersionAssumption
  <2> QED
    BY <1>2, <2>1, <2>2, StartInv, Zenon DEF StartPut
<1>3. ASSUME NEW c \in Clients, ServeGet(c) PROVE IInv'
  BY <1>3, ServeGetInv
<1>4. ASSUME NEW c \in Clients, ServePut(c) PROVE IInv'
  BY <1>4, ServePutInv
<1>5. ASSUME NEW c \in Clients, LoseCall(c) PROVE IInv'
  BY <1>5, CallFailsInv, CallAbandonedInv DEF LoseCall
<1>6. ASSUME NEW c \in Clients, FinishGet(c) PROVE IInv'
  BY <1>6, FinishInv DEF FinishGet
<1>7. ASSUME NEW c \in Clients, FinishPut(c) PROVE IInv'
  BY <1>7, FinishInv DEF FinishPut
<1>8. ASSUME NEW q \in late, ServeLate(q) PROVE IInv'
  BY <1>8, ServeLateInv
<1>9. CASE UNCHANGED vars
  <2>1. Types' /\ Numbered'
    BY <1>9 DEF vars, IInv, Types, TypeOK, KVTypeOK, Numbered
  <2>2. \A c \in Clients : RunningOf(c)' /\ OutcomeOf(c)'
    BY <1>9, OtherClient DEF vars, IInv
  <2>3. AllAsked'
    BY <1>9 DEF vars, IInv, AllAsked, Asked
  <2>4. Definite'
    BY <1>9 DEF vars, IInv, Definite, Untouched, Written
  <2> QED
    BY <2>1, <2>2, <2>3, <2>4 DEF IInv
<1> QED
  BY <1>1, <1>2, <1>3, <1>4, <1>5, <1>6, <1>7, <1>8, <1>9, Zenon DEF Next, Quiet

\* The types, and that a key's version counts its writes.
THEOREM TypeCorrect == Spec => []TypeOK
<1>1. IInv => TypeOK
  BY DEF IInv, Types
<1> QED
  BY <1>1, InitInv, NextInv, PTL DEF Spec

\* However often Clerk.Put sends a request, and whenever the copies arrive,
\* KVServer.Put performs the Put at most once.
THEOREM PutsAtMostOnce == Spec => []AtMostOnce
<1>1. IInv => AtMostOnce
  <2> SUFFICES ASSUME IInv, NEW k \in Keys, NEW i \in DOMAIN writes[k], NEW j \in DOMAIN writes[k],
                      writes[k][i] = writes[k][j]
               PROVE  i = j
    BY DEF AtMostOnce
  <2>1. Asked(writes[k][i], k, i - 1) /\ Asked(writes[k][i], k, j - 1)
    BY DEF IInv, AllAsked
  <2>2. i \in Nat /\ j \in Nat
    BY DEF IInv, Types
  <2> QED
    BY <2>1, <2>2, AskedOnce
<1> QED
  BY <1>1, InitInv, NextInv, PTL DEF Spec

\* OK from Clerk.Put means that the Put was performed, on the version it asked
\* for; ErrVersion means that it was not and never will be.
THEOREM DefiniteResults == Spec => []ResultsAreDefinite
<1>1. IInv => ResultsAreDefinite
  BY Zenon DEF IInv, Types, Finished, Definite, Written, Untouched, ResultsAreDefinite
<1> QED
  BY <1>1, InitInv, NextInv, PTL DEF Spec

-----------------------------------------------------------------------------
(* A Put that does not ask ahead.  Versions only grow, so that the version *)
(* it asks for is never still to come: a refusal means that it is past.    *)

ReachedBy(c) ==
  clerk[c].op = "Put" /\ clerk[c].value \notin ahead =>
    /\ clerk[c].version <= KVStore[clerk[c].key].version
    /\ clerk[c].call = "replied" =>
         /\ clerk[c].reply.err # "ErrNoKey"
         /\ clerk[c].reply.err = "ErrVersion" => clerk[c].version < KVStore[clerk[c].key].version

ReachedIn(f) ==
  f.op = "Put" /\ <<f.clnt, f.n>> \notin ahead =>
    /\ f.err # "ErrNoKey"
    /\ f.err = "ErrMaybe" => f.asked < KVStore[f.key].version

Reached == (\A c \in Clients : ReachedBy(c)) /\ (\A f \in finished : ReachedIn(f))

Versions(old, new) == \A k \in Keys : old[k].version <= new[k].version

\* What is not above a version, or below it, is so for later versions.
LEMMA LaterVersion ==
  ASSUME NEW a \in Nat, NEW old \in Nat, NEW new \in Nat, old <= new
  PROVE  (a <= old => a <= new) /\ (a < old => a < new)
OBVIOUS

\* The types that comparisons of versions need.
LEMMA VersionTypes ==
  ASSUME IInv
  PROVE  /\ KVStore \in [Keys -> Entry] /\ \A k \in Keys : KVStore[k].version \in Nat
         /\ clerk \in [Clients -> ClerkState]
         /\ \A c \in Clients : clerk[c].key \in Keys /\ clerk[c].version \in Nat
         /\ \A f \in finished : f.key \in Keys /\ f.asked \in Nat
BY DEF IInv, Types, TypeOK, KVTypeOK, ClerkState, Entry, Finished

\* No Put lowers a version.
LEMMA AppliedGrows ==
  ASSUME IInv, NEW k \in Keys, NEW v, NEW ver \in Nat, Applied(k, v, ver)
  PROVE  Versions(KVStore, KVStore')
<1>1. KVStore \in [Keys -> Entry] /\ \A l \in Keys : KVStore[l].version \in Nat
  BY VersionTypes
<1>2. CASE ver = KVStore[k].version
  <2>1. KVStore' = [KVStore EXCEPT ![k] = [value |-> v, version |-> ver + 1]]
    BY <1>2 DEF Applied
  <2>2. ASSUME NEW l \in Keys PROVE KVStore[l].version <= KVStore'[l].version
    <3>1. CASE l = k
      BY <1>1, <1>2, <2>1, <3>1
    <3>2. CASE l # k
      BY <1>1, <2>1, <3>2
    <3> QED
      BY <3>1, <3>2
  <2> QED
    BY <2>2 DEF Versions
<1>3. CASE ver # KVStore[k].version
  <2>1. KVStore' = KVStore
    BY <1>3 DEF Applied
  <2> QED
    BY <1>1, <2>1 DEF Versions
<1> QED
  BY <1>2, <1>3

\* An operation that a step leaves as it is, or sends again.
LEMMA ReachedStays ==
  ASSUME IInv, NEW c \in Clients, ReachedBy(c), Versions(KVStore, KVStore'), ahead \subseteq ahead',
         IInv', clerk'[c].op = clerk[c].op, clerk'[c].value = clerk[c].value,
         clerk'[c].key = clerk[c].key, clerk'[c].version = clerk[c].version,
         \/ clerk'[c].call = "sent"
         \/ clerk'[c].call = clerk[c].call /\ clerk'[c].reply = clerk[c].reply
  PROVE  ReachedBy(c)'
<1> DEFINE k == clerk[c].key
<1>1. /\ k \in Keys /\ clerk[c].version \in Nat /\ KVStore[k].version \in Nat
      /\ KVStore'[k].version \in Nat /\ KVStore[k].version <= KVStore'[k].version
  <2>1. k \in Keys /\ clerk[c].version \in Nat /\ KVStore[k].version \in Nat
    BY VersionTypes
  <2>2. \A l \in Keys : KVStore'[l].version \in Nat
    BY DEF IInv, Types, TypeOK, KVTypeOK, Entry
  <2> QED
    BY <2>1, <2>2 DEF Versions
<1>2. /\ clerk[c].version <= KVStore[k].version => clerk[c].version <= KVStore'[k].version
      /\ clerk[c].version < KVStore[k].version => clerk[c].version < KVStore'[k].version
  BY <1>1, LaterVersion, Zenon
<1> QED
  BY <1>2, Zenon DEF ReachedBy

LEMMA RecordsStay ==
  ASSUME IInv, IInv', \A f \in finished : ReachedIn(f), Versions(KVStore, KVStore'),
         ahead \subseteq ahead'
  PROVE  \A f \in finished : ReachedIn(f)'
<1> TAKE f \in finished
<1>1. /\ f.key \in Keys /\ f.asked \in Nat /\ KVStore[f.key].version \in Nat
      /\ KVStore[f.key].version <= KVStore'[f.key].version
  BY VersionTypes DEF Versions
<1>2. KVStore'[f.key].version \in Nat
  BY <1>1 DEF IInv, Types, TypeOK, KVTypeOK, Entry
<1>3. f.asked < KVStore[f.key].version => f.asked < KVStore'[f.key].version
  BY <1>1, <1>2, LaterVersion, Zenon
<1> QED
  BY <1>3 DEF ReachedIn

LEMMA ReachedInit == Init => Reached
<1> SUFFICES ASSUME Init PROVE Reached
  OBVIOUS
<1>1. clerk = [c \in Clients |-> NoOp] /\ finished = {}
  BY Zenon DEF Init, KVInit
<1>2. \A c \in Clients : clerk[c].op = "none"
  BY <1>1 DEF NoOp, Operation
<1> QED
  BY <1>1, <1>2, Zenon DEF Reached, ReachedBy

\* Every step keeps it.
LEMMA ReachedNext == IInv /\ IInv' /\ Reached /\ [Next]_vars => Reached'
<1> SUFFICES ASSUME IInv, IInv', Reached, [Next]_vars PROVE Reached'
  OBVIOUS
<1>t. clerk \in [Clients -> ClerkState] /\ KVStore \in [Keys -> Entry]
  BY VersionTypes
<1>s. UNCHANGED KVStore => Versions(KVStore, KVStore')
  BY VersionTypes DEF Versions
\* A step that returns nothing, and whose client's Put is treated alone.
<1>k. ASSUME Versions(KVStore, KVStore'), ahead \subseteq ahead', UNCHANGED finished,
             NEW c \in Clients, ReachedBy(c)',
             \A d \in Clients : d # c => clerk'[d] = clerk[d]
      PROVE  Reached'
  <2>1. \A d \in Clients : ReachedBy(d)'
    BY <1>k, ReachedStays DEF Reached
  <2>2. \A f \in finished' : ReachedIn(f)'
    BY <1>k, RecordsStay DEF Reached
  <2> QED
    BY <2>1, <2>2 DEF Reached
<1>1. ASSUME NEW c \in Clients, StartGet(c) PROVE Reached'
  <2>1. PICK l \in Keys : clerk' = [clerk EXCEPT ![c] = GetOp(l)]
    BY <1>1 DEF StartGet, Start, Continue
  <2>2. UNCHANGED <<KVStore, ahead, finished>>
    BY <1>1 DEF StartGet, Start, Continue
  <2>3. clerk'[c].op = "Get" /\ \A d \in Clients : d # c => clerk'[d] = clerk[d]
    BY <1>t, <2>1 DEF GetOp, Operation
  <2> QED
    BY <1>s, <1>k, <2>2, <2>3 DEF ReachedBy
<1>2. ASSUME NEW c \in Clients, StartPut(c) PROVE Reached'
  <2> DEFINE v == <<c, started[c] + 1>>
  <2>1. PICK l \in Keys, ver \in 0 .. MaxVersion :
          /\ clerk' = [clerk EXCEPT ![c] = PutOp(l, v, ver)]
          /\ ahead' = IF ver > KVStore[l].version THEN ahead \cup {v} ELSE ahead
    BY <1>2 DEF StartPut, Start, Continue
  <2>2. UNCHANGED <<KVStore, finished>> /\ ahead \subseteq ahead'
    BY <1>2, <2>1 DEF StartPut, Start, Continue
  <2>3. /\ clerk'[c].value = v /\ clerk'[c].key = l /\ clerk'[c].version = ver
        /\ clerk'[c].call = "sent" /\ \A d \in Clients : d # c => clerk'[d] = clerk[d]
    BY <1>t, <2>1 DEF PutOp, Operation
  <2>4. v \in ahead' \/ ver <= KVStore[l].version
    BY <2>1, VersionTypes, MaxVersionAssumption
  <2> HIDE DEF v
  <2>5. ReachedBy(c)'
    BY <2>2, <2>3, <2>4 DEF ReachedBy
  <2> QED
    BY <1>s, <1>k, <2>2, <2>3, <2>5
<1>3. ASSUME NEW c \in Clients, ServeGet(c) PROVE Reached'
  <2>1. /\ clerk' = [clerk EXCEPT ![c].call = "replied",
                                  ![c].reply = GetReply(KVStore[clerk[c].key])]
        /\ clerk[c].op = "Get" /\ UNCHANGED <<KVStore, ahead, finished>>
    BY <1>3 DEF ServeGet, HandleGet
  <2>2. clerk'[c].op = "Get" /\ \A d \in Clients : d # c => clerk'[d] = clerk[d]
    BY <1>t, <2>1 DEF ClerkState
  <2> QED
    BY <1>s, <1>k, <2>1, <2>2 DEF ReachedBy
<1>4. ASSUME NEW c \in Clients, ServePut(c) PROVE Reached'
  <2> DEFINE k == clerk[c].key
             ver == clerk[c].version
             err == PutErr(KVStore[k], ver)
  <2>1. /\ KVStore' = [KVStore EXCEPT ![k] = PutEntry(KVStore[k], clerk[c].value, ver)]
        /\ writes' = Recorded(k, clerk[c].value, ver) /\ clerk[c].op = "Put"
        /\ clerk' = [clerk EXCEPT ![c].call = "replied", ![c].reply = PutReply(err)]
        /\ UNCHANGED <<ahead, finished>>
    BY <1>4 DEF ServePut, HandlePut
  <2>2. k \in Keys /\ ver \in Nat /\ clerk[c].value \in Values /\ KVStore[k].version \in Nat
    BY <1>t, VersionTypes DEF ClerkState
  <2>3. Applied(k, clerk[c].value, ver)
    BY <2>1, <2>2, Effect, Zenon
  <2>4. Versions(KVStore, KVStore')
    BY <2>2, <2>3, AppliedGrows
  <2>5. /\ clerk'[c].op = "Put" /\ clerk'[c].value = clerk[c].value /\ clerk'[c].key = k
        /\ clerk'[c].version = ver /\ clerk'[c].reply.err = err
        /\ \A d \in Clients : d # c => clerk'[d] = clerk[d]
    BY <1>t, <2>1 DEF ClerkState, PutReply
  <2>6. ASSUME clerk[c].value \notin ahead
        PROVE  /\ ver <= KVStore'[k].version /\ err # "ErrNoKey"
               /\ err = "ErrVersion" => ver < KVStore'[k].version
    <3>1. ver <= KVStore[k].version
      BY <2>1, <2>6 DEF Reached, ReachedBy
    <3>2. KVStore'[k].version \in Nat /\ KVStore[k].version <= KVStore'[k].version
      BY <2>2, <2>4, Zenon DEF Versions, IInv, Types, TypeOK, KVTypeOK, Entry
    <3>3. ver = KVStore[k].version => err = "OK"
      BY <2>3, Zenon DEF Applied
    <3>4. ver # KVStore[k].version => err = IF KVStore[k].version = 0 THEN "ErrNoKey" ELSE "ErrVersion"
      BY <2>3 DEF Applied
    <3> HIDE DEF k, ver, err
    <3> QED
      BY <2>2, <3>1, <3>2, <3>3, <3>4
  <2> HIDE DEF k, ver, err
  <2>7. ReachedBy(c)'
    BY <2>1, <2>5, <2>6 DEF ReachedBy
  <2> QED
    BY <1>k, <2>1, <2>4, <2>5, <2>7
<1>5. ASSUME NEW c \in Clients, LoseCall(c) PROVE Reached'
  <2>1. /\ UNCHANGED <<KVStore, ahead, finished>>
        /\ clerk'[c].op = clerk[c].op /\ clerk'[c].value = clerk[c].value
        /\ clerk'[c].key = clerk[c].key /\ clerk'[c].version = clerk[c].version
        /\ clerk'[c].call = "sent" /\ \A d \in Clients : d # c => clerk'[d] = clerk[d]
    BY <1>5, <1>t DEF LoseCall, CallFails, CallAbandoned, ClerkState
  <2>2. ReachedBy(c)'
    BY <1>s, <2>1, ReachedStays DEF Reached
  <2> QED
    BY <1>s, <1>k, <2>1, <2>2
<1>6. ASSUME NEW c \in Clients, NEW op \in {"Get", "Put"}, NEW err, Finish(c, op, err),
             op = "Put" => err = PutResult(c)
      PROVE  Reached'
  <2> DEFINE f == [clnt |-> c, n |-> started[c], op |-> op, key |-> clerk[c].key,
                   asked |-> clerk[c].version, err |-> err,
                   value |-> clerk[c].reply.value, version |-> clerk[c].reply.version]
  <2>1. /\ clerk[c].op = op /\ clerk[c].call = "replied" /\ clerk' = [clerk EXCEPT ![c] = NoOp]
        /\ finished' = finished \cup {f} /\ UNCHANGED <<KVStore, ahead>>
    BY <1>6 DEF Finish, Returned, Continue
  <2>2. clerk'[c].op = "none" /\ \A d \in Clients : d # c => clerk'[d] = clerk[d]
    BY <1>t, <2>1, Zenon DEF NoOp, Operation
  <2>3. \A d \in Clients : ReachedBy(d)'
    <3>1. ReachedBy(c)'
      BY <2>2, Zenon DEF ReachedBy
    <3> QED
      BY <1>s, <2>1, <2>2, <3>1, ReachedStays DEF Reached
  <2>4. ReachedIn(f)
    <3>1. CASE op = "Get"
      BY <3>1, Zenon DEF ReachedIn
    <3>2. CASE op = "Put"
      <4>1. clerk[c].value = <<c, started[c]>>
        BY <2>1, <3>2 DEF IInv, RunningOf
      <4>2. ReachedBy(c)
        BY DEF Reached
      <4>3. /\ err = "ErrNoKey" => clerk[c].reply.err = "ErrNoKey"
            /\ err = "ErrMaybe" => clerk[c].reply.err = "ErrVersion"
        <5>1. clerk[c].reply.err # "ErrMaybe"
          BY <1>t DEF ClerkState, Reply
        <5> QED
          BY <1>6, <3>2, <5>1 DEF PutResult
      <4> QED
        BY <2>1, <3>2, <4>1, <4>2, <4>3 DEF ReachedBy, ReachedIn
    <3> QED
      BY <3>1, <3>2
  <2>5. \A g \in finished' : ReachedIn(g)'
    <3> HIDE DEF f
    <3>1. \A g \in finished' : ReachedIn(g)
      BY <2>1, <2>4 DEF Reached
    <3> QED
      BY <2>1, <3>1 DEF ReachedIn
  <2> QED
    BY <2>3, <2>5 DEF Reached
<1>7. ASSUME NEW q \in late, ServeLate(q) PROVE Reached'
  <2>1. /\ KVStore' = [KVStore EXCEPT ![q.key] = PutEntry(KVStore[q.key], q.value, q.version)]
        /\ writes' = Recorded(q.key, q.value, q.version)
        /\ UNCHANGED <<clerk, ahead, finished>>
    BY <1>7 DEF ServeLate, HandleLate
  <2>2. q.key \in Keys /\ q.value \in Values /\ q.version \in Nat
    BY <1>7 DEF IInv, Types, TypeOK, KVTypeOK, PutRequest
  <2>3. Applied(q.key, q.value, q.version)
    BY <2>1, <2>2, Effect, Zenon
  <2>4. Versions(KVStore, KVStore')
    BY <2>2, <2>3, AppliedGrows
  <2>5. \A d \in Clients : ReachedBy(d)'
    BY <2>1, <2>4, ReachedStays DEF Reached
  <2>6. \A f \in finished' : ReachedIn(f)'
    BY <2>1, <2>4, RecordsStay DEF Reached
  <2> QED
    BY <2>5, <2>6 DEF Reached
<1>8. CASE UNCHANGED vars
  BY <1>8 DEF vars, Reached, ReachedBy, ReachedIn
<1>9. ASSUME NEW c \in Clients, FinishGet(c) \/ FinishPut(c) PROVE Reached'
  BY <1>6, <1>9 DEF FinishGet, FinishPut
<1> QED
  BY <1>1, <1>2, <1>3, <1>4, <1>5, <1>7, <1>8, <1>9 DEF Next, Quiet

-----------------------------------------------------------------------------
(* Every step of the service is a step of the atomic store or none.        *)

LEMMA PendingOutcome ==
  ASSUME IInv, NEW c \in Clients, NEW o,
         \A d \in Clients : /\ clerk'[d].op = clerk[d].op /\ clerk'[d].value = clerk[d].value
                            /\ clerk'[d].key = clerk[d].key /\ clerk'[d].version = clerk[d].version,
         outcome' = [outcome EXCEPT ![c] = o]
  PROVE  Pending' = [Pending EXCEPT ![c].outcome = o]
<1>1. outcome \in [Clients -> Reply]
  BY DEF IInv, Types
<1> QED
  BY <1>1, Zenon DEF Pending

LEMMA PendingSame ==
  ASSUME \A d \in Clients : /\ clerk'[d].op = clerk[d].op /\ clerk'[d].value = clerk[d].value
                            /\ clerk'[d].key = clerk[d].key /\ clerk'[d].version = clerk[d].version
                            /\ outcome'[d] = outcome[d]
  PROVE  Pending' = Pending
BY DEF Pending

LEMMA InitSimulated == Init => Atomic!Init
<1> SUFFICES ASSUME Init PROVE Atomic!Init
  OBVIOUS
<1>1. NoReply = Atomic!None
  BY DEF NoReply, PutReply, Atomic!None
<1>2. Pending = [c \in Clients |-> Atomic!Idle]
  BY <1>1 DEF Init, KVInit, Pending, Atomic!Idle, NoOp, Operation
<1> QED
  BY <1>2 DEF Init, KVInit, Atomic!Init, ZeroEntry

(* A request that takes effect: the Write of the operation that c runs.    *)
LEMMA WriteSimulated ==
  ASSUME IInv, NEW c \in Clients, clerk[c].op = "Put", outcome[c].err # "OK",
         Applied(clerk[c].key, clerk[c].value, clerk[c].version),
         Pending' = [Pending EXCEPT ![c].outcome =
                       PutReply(PutErr(KVStore[clerk[c].key], clerk[c].version))],
         UNCHANGED <<started, finished, ahead>>
  PROVE  Atomic!Write(c)
<1> DEFINE k == clerk[c].key
           v == clerk[c].value
           ver == clerk[c].version
           err == PutErr(KVStore[k], ver)
<1>1. /\ Pending[c] = [op |-> "Put", key |-> k, value |-> v, version |-> ver, outcome |-> outcome[c]]
      /\ Pending[c].outcome = PutReply(outcome[c].err)
  BY DEF Pending, IInv, OutcomeOf
<1>2. [PutReply(outcome[c].err) EXCEPT !.err = err] = PutReply(err)
  BY DEF PutReply
<1>3. Pending' = [Pending EXCEPT ![c].outcome.err = err]
  BY <1>1, <1>2, Zenon DEF Pending
<1>4. k \in Keys /\ ver \in Nat /\ KVStore \in [Keys -> Entry] /\ KVStore[k].version \in Nat
  BY DEF IInv, Types, TypeOK, KVTypeOK, ClerkState, Entry
<1>a. /\ Pending[c].op = "Put" /\ Pending[c].key = k /\ Pending[c].value = v
      /\ Pending[c].version = ver /\ Pending[c].outcome.err # "OK"
  BY <1>1
<1>5. CASE ver = KVStore[k].version
  <2>1. /\ KVStore' = [KVStore EXCEPT ![k] = [value |-> v, version |-> KVStore[k].version + 1]]
        /\ err = "OK"
    BY <1>5 DEF Applied
  <2> HIDE DEF k, v, ver, err
  <2> QED
    BY <1>a, <1>3, <1>4, <1>5, <2>1, Zenon DEF Atomic!Write
<1>6. CASE ver # KVStore[k].version
  <2>1. /\ UNCHANGED KVStore
        /\ err = IF KVStore[k].version = 0 THEN "ErrNoKey" ELSE "ErrVersion"
    BY <1>6 DEF Applied
  <2> HIDE DEF k, v, ver, err
  <2> QED
    BY <1>a, <1>3, <1>4, <1>6, <2>1, Zenon DEF Atomic!Write
<1> QED
  BY <1>5, <1>6

(* A Put whose effect is in the history is past its version.               *)
LEMMA WrittenIsPast ==
  ASSUME IInv, NEW k \in Keys, NEW v, NEW ver \in Nat, Written(k, v, ver)
  PROVE  ver # KVStore[k].version
<1>1. writes[k] \in Seq(Values) /\ KVStore[k].version = Len(writes[k])
  BY DEF IInv, Types, TypeOK
<1> QED
  BY <1>1 DEF Written

avars == <<KVStore, Pending, started, finished, ahead>>

LEMMA StartSimulated ==
  ASSUME IInv, NEW c \in Clients, StartGet(c) \/ StartPut(c)
  PROVE  Atomic!Invoke(c)
<1>1. PICK k \in Keys, ver \in 0 .. MaxVersion :
        \/ Start(c, GetOp(k)) /\ UNCHANGED ahead
        \/ /\ Start(c, PutOp(k, <<c, started[c] + 1>>, ver))
           /\ ahead' = IF ver > KVStore[k].version THEN ahead \cup {<<c, started[c] + 1>>} ELSE ahead
  BY MaxVersionAssumption DEF StartGet, StartPut
<1>2. /\ clerk[c].op = "none" /\ started[c] < MaxOps /\ outcome[c] = NoReply
      /\ started' = [started EXCEPT ![c] = @ + 1] /\ started'[c] = started[c] + 1
      /\ UNCHANGED <<KVStore, finished, outcome>>
  <2>1. started \in [Clients -> 0 .. MaxOps]
    BY DEF IInv, Types, TypeOK
  <2> QED
    BY <1>1, <2>1 DEF StartGet, StartPut, Start, Continue, IInv, RunningOf
<1>3. clerk \in [Clients -> ClerkState] /\ Pending[c].op = "none"
  BY <1>2 DEF IInv, Types, TypeOK, KVTypeOK, Pending
<1>4. CASE Start(c, GetOp(k)) /\ UNCHANGED ahead
  <2>1. clerk' = [clerk EXCEPT ![c] = GetOp(k)]
    BY <1>4 DEF Start, Continue
  <2>2. Pending' = [Pending EXCEPT ![c] = [Atomic!Idle EXCEPT !.op = "Get", !.key = k]]
    BY <1>2, <1>3, <2>1, Zenon DEF Pending, Atomic!Idle, Atomic!None, GetOp, Operation, NoReply, PutReply
  <2> QED
    BY <1>2, <1>3, <1>4, <2>2, Zenon DEF Atomic!Invoke
<1>5. CASE /\ Start(c, PutOp(k, <<c, started[c] + 1>>, ver))
           /\ ahead' = IF ver > KVStore[k].version THEN ahead \cup {<<c, started[c] + 1>>} ELSE ahead
  <2>1. clerk' = [clerk EXCEPT ![c] = PutOp(k, <<c, started[c] + 1>>, ver)]
    BY <1>5 DEF Start, Continue
  <2>2. Pending' = [Pending EXCEPT ![c] = [Atomic!Idle EXCEPT !.op = "Put", !.key = k,
                                             !.value = <<c, started'[c]>>, !.version = ver]]
    BY <1>2, <1>3, <2>1, Zenon DEF Pending, Atomic!Idle, Atomic!None, PutOp, Operation, NoReply, PutReply
  <2>3. ahead' = IF ver > KVStore[k].version THEN ahead \cup {<<c, started'[c]>>} ELSE ahead
    BY <1>2, <1>5, Zenon
  <2> QED
    BY <1>2, <1>3, <2>2, <2>3, Zenon DEF Atomic!Invoke
<1> QED
  BY <1>1, <1>4, <1>5

LEMMA ServeGetSimulated ==
  ASSUME IInv, NEW c \in Clients, ServeGet(c)
  PROVE  Atomic!Read(c)
<1>1. /\ clerk[c].op = "Get" /\ clerk \in [Clients -> ClerkState]
      /\ clerk' = [clerk EXCEPT ![c].call = "replied", ![c].reply = GetReply(KVStore[clerk[c].key])]
      /\ outcome' = [outcome EXCEPT ![c] = clerk'[c].reply]
      /\ UNCHANGED <<KVStore, started, finished, ahead>>
  BY DEF ServeGet, HandleGet, IInv, Types, TypeOK, KVTypeOK
<1>2. /\ clerk'[c].reply = GetReply(KVStore[clerk[c].key])
      /\ \A d \in Clients : /\ clerk'[d].op = clerk[d].op /\ clerk'[d].value = clerk[d].value
                            /\ clerk'[d].key = clerk[d].key /\ clerk'[d].version = clerk[d].version
  BY <1>1 DEF ClerkState
<1>3. Pending' = [Pending EXCEPT ![c].outcome = GetReply(KVStore[clerk[c].key])]
  <2>1. outcome' = [outcome EXCEPT ![c] = GetReply(KVStore[clerk[c].key])]
    BY <1>1, <1>2
  <2> QED
    BY <1>2, <2>1, PendingOutcome, Zenon
<1>4. Pending[c].op = "Get" /\ Pending[c].key = clerk[c].key
  BY <1>1 DEF Pending
<1> QED
  BY <1>1, <1>3, <1>4 DEF Atomic!Read, GetReply

LEMMA ServePutSimulated ==
  ASSUME IInv, NEW c \in Clients, ServePut(c)
  PROVE  Atomic!Write(c) \/ UNCHANGED avars
<1> DEFINE k == clerk[c].key
           v == clerk[c].value
           ver == clerk[c].version
           reply == PutReply(PutErr(KVStore[k], ver))
<1>1. /\ clerk[c].op = "Put" /\ clerk \in [Clients -> ClerkState]
      /\ KVStore' = [KVStore EXCEPT ![k] = PutEntry(KVStore[k], v, ver)]
      /\ clerk' = [clerk EXCEPT ![c].call = "replied", ![c].reply = reply]
      /\ outcome' = [outcome EXCEPT ![c] = IF outcome[c].err = "OK" THEN outcome[c]
                                                                    ELSE clerk'[c].reply]
      /\ writes' = Recorded(k, v, ver)
      /\ UNCHANGED <<started, finished, ahead>>
  BY DEF ServePut, HandlePut, IInv, Types, TypeOK, KVTypeOK
<1>2. /\ clerk'[c].reply = reply
      /\ \A d \in Clients : /\ clerk'[d].op = clerk[d].op /\ clerk'[d].value = clerk[d].value
                            /\ clerk'[d].key = clerk[d].key /\ clerk'[d].version = clerk[d].version
  BY <1>1 DEF ClerkState
<1>3. k \in Keys /\ v \in Values /\ ver \in Nat
  BY <1>1 DEF ClerkState
<1>4. Applied(k, v, ver)
  BY <1>1, <1>3, Effect, Zenon
<1>5. CASE outcome[c].err # "OK"
  <2>1. outcome' = [outcome EXCEPT ![c] = reply]
    BY <1>1, <1>2, <1>5
  <2>2. Pending' = [Pending EXCEPT ![c].outcome = reply]
    BY <1>2, <2>1, PendingOutcome, Zenon
  <2> QED
    BY <1>1, <1>4, <1>5, <2>2, WriteSimulated, Zenon
<1>6. CASE outcome[c].err = "OK"
  <2>1. ver # KVStore[k].version
    BY <1>1, <1>3, <1>6, WrittenIsPast, Zenon DEF IInv, OutcomeOf
  <2>2. UNCHANGED KVStore
    BY <1>4, <2>1 DEF Applied
  <2>3. \A d \in Clients : outcome'[d] = outcome[d]
    BY <1>1, <1>6 DEF IInv, Types
  <2>4. Pending' = Pending
    BY <1>2, <2>3, PendingSame, Zenon
  <2> QED
    BY <1>1, <2>2, <2>4 DEF avars
<1> QED
  BY <1>5, <1>6

(* A late copy takes effect for the Put that its client still runs, or for *)
(* one that was left open when it returned.                                *)
LEMMA ServeLateSimulated ==
  ASSUME IInv, Reached, NEW q \in late, ServeLate(q)
  PROVE  \/ Atomic!Write(q.clnt)
         \/ \E f \in finished : Atomic!TakeEffectLate(f)
         \/ UNCHANGED avars
<1> DEFINE c == q.clnt
           mine == clerk[c].op = "Put" /\ clerk[c].value = q.value
<1>1. /\ UNCHANGED <<clerk, started, finished, ahead>>
      /\ KVStore' = [KVStore EXCEPT ![q.key] = PutEntry(KVStore[q.key], q.value, q.version)]
      /\ writes' = Recorded(q.key, q.value, q.version)
      /\ outcome' = IF writes' # writes /\ mine THEN [outcome EXCEPT ![c] = PutReply("OK")]
                                                ELSE outcome
  BY DEF ServeLate, HandleLate
<1>2. /\ q.clnt \in Clients /\ q.key \in Keys /\ q.value \in Values /\ q.version \in Nat
      /\ KVStore \in [Keys -> Entry]
  BY DEF IInv, Types, TypeOK, KVTypeOK, PutRequest
<1>3. Applied(q.key, q.value, q.version)
  BY <1>1, <1>2, Effect, Zenon
<1>4. Asked(q.value, q.key, q.version)
  BY Zenon DEF IInv, AllAsked
<1>5. PICK n \in Nat : q.value = <<q.clnt, n>>
  BY Zenon DEF IInv, AllAsked
<1>6. CASE q.version # KVStore[q.key].version
  <2>1. UNCHANGED <<KVStore, writes>>
    BY <1>3, <1>6 DEF Applied
  <2> QED
    BY <1>1, <2>1 DEF avars, Pending
<1>7. CASE q.version = KVStore[q.key].version /\ mine
  <2>1. Asked(q.value, clerk[c].key, clerk[c].version)
    BY <1>2, <1>7 DEF Asked, AskedIn
  <2>2. clerk[c].key = q.key /\ clerk[c].version = q.version
    BY <1>4, <2>1, AskedOnce
  <2>3. outcome[c].err # "OK"
    BY <1>2, <1>7, <2>2, WrittenIsPast, Zenon DEF IInv, OutcomeOf
  <2>4. writes' # writes /\ PutErr(KVStore[q.key], q.version) = "OK"
    BY <1>3, <1>7, Zenon DEF Applied
  <2>5. outcome' = [outcome EXCEPT ![c] = PutReply("OK")]
    BY <1>1, <1>7, <2>4
  <2>6. Pending' = [Pending EXCEPT ![c].outcome = PutReply("OK")]
    BY <1>1, <1>2, <2>5, PendingOutcome, Zenon
  <2> QED
    BY <1>1, <1>2, <1>3, <1>7, <2>2, <2>3, <2>4, <2>6, WriteSimulated, Zenon
<1>8. CASE q.version = KVStore[q.key].version /\ ~mine
  <2>1. PICK f \in finished : /\ f.op = "Put" /\ <<f.clnt, f.n>> = q.value
                              /\ f.key = q.key /\ f.asked = q.version
    <3>1. ASSUME NEW d \in Clients, clerk[d].op = "Put", clerk[d].value = q.value
          PROVE  FALSE
      <4>1. RunningOf(d)
        BY DEF IInv
      <4>2. q.value = <<d, started[d]>>
        BY <3>1, <4>1 DEF RunningOf
      <4>3. d = q.clnt
        BY <1>5, <4>2
      <4> QED
        BY <1>8, <3>1, <4>3
    <3> QED
      BY <1>4, <3>1 DEF Asked, AskedIn
  <2>2. f.err # "OK"
    BY <1>2, <1>8, <2>1, WrittenIsPast, Zenon DEF IInv, Definite
  <2>3. f.err # "ErrVersion"
    BY <2>1 DEF IInv, Definite, Untouched
  <2>4. f.err \in {"ErrMaybe", "ErrNoKey"}
    BY <2>2, <2>3 DEF IInv, Types, Finished, Errs
  <2>5. KVStore' = [KVStore EXCEPT ![f.key] = [value |-> <<f.clnt, f.n>>, version |-> f.asked + 1]]
    BY <1>3, <1>8, <2>1, Zenon DEF Applied
  <2>6. Pending' = Pending
    BY <1>1, <1>8, Zenon DEF Pending
  <2>a. <<f.clnt, f.n>> \in ahead
    <3>1. f.asked = KVStore[f.key].version /\ KVStore[f.key].version \in Nat /\ ReachedIn(f)
      BY <1>2, <1>8, <2>1, VersionTypes DEF Reached
    <3> QED
      BY <2>1, <2>4, <3>1 DEF ReachedIn
  <2>7. Atomic!TakeEffectLate(f)
    BY <1>1, <1>8, <2>1, <2>4, <2>5, <2>6, <2>a, Zenon DEF Atomic!TakeEffectLate
  <2> QED
    BY <2>7
<1> QED
  BY <1>6, <1>7, <1>8

LEMMA FinishSimulated ==
  ASSUME IInv, Reached, NEW c \in Clients, NEW op \in {"Get", "Put"}, NEW err, Finish(c, op, err),
         err = IF op = "Put" THEN PutResult(c) ELSE clerk[c].reply.err
  PROVE  Atomic!Respond(c)
<1>1. /\ clerk[c].op = op /\ clerk[c].call = "replied" /\ clerk' = [clerk EXCEPT ![c] = NoOp]
      /\ finished' = finished \cup
           {[clnt |-> c, n |-> started[c], op |-> op, key |-> clerk[c].key,
             asked |-> clerk[c].version, err |-> err,
             value |-> clerk[c].reply.value, version |-> clerk[c].reply.version]}
      /\ outcome' = [outcome EXCEPT ![c] = NoReply]
      /\ UNCHANGED <<KVStore, started, ahead>>
  BY Zenon DEF Finish, Returned, Continue
<1>2. OutcomeOf(c) /\ clerk \in [Clients -> ClerkState] /\ outcome \in [Clients -> Reply]
      /\ clerk[c].reply.err \in {"OK", "ErrNoKey", "ErrVersion", "none"}
      /\ clerk[c].version \in Nat /\ clerk[c].key \in Keys
  BY DEF IInv, Types, TypeOK, KVTypeOK, ClerkState, Reply
<1>3. /\ Pending[c].op = op /\ Pending[c].key = clerk[c].key
      /\ Pending[c].version = clerk[c].version /\ Pending[c].outcome = outcome[c]
  BY <1>1, Zenon DEF Pending
<1>4. outcome[c].value = clerk[c].reply.value /\ outcome[c].version = clerk[c].reply.version
  <2>1. CASE op = "Get"
    BY <1>1, <1>2, <2>1, Zenon DEF OutcomeOf
  <2>2. CASE op = "Put"
    <3>1. outcome[c] = PutReply(outcome[c].err) /\ clerk[c].reply = PutReply(clerk[c].reply.err)
      BY <1>1, <1>2, <2>2, Zenon DEF OutcomeOf
    <3>2. \A e, f : /\ PutReply(e).value = PutReply(f).value
                   /\ PutReply(e).version = PutReply(f).version
      BY Zenon DEF PutReply
    <3> QED
      BY <3>1, <3>2, Zenon
  <2> QED
    BY <2>1, <2>2
<1>5. outcome[c].err # "none" /\ clerk[c].reply.err # "none"
  BY <1>1, <1>2, Zenon DEF OutcomeOf
<1>6. Pending' = [Pending EXCEPT ![c] = Atomic!Idle]
  BY <1>1, <1>2, Zenon DEF Pending, Atomic!Idle, Atomic!None, NoOp, Operation, NoReply, PutReply
<1>7. /\ err \in {outcome[c].err, "ErrMaybe", "ErrNoKey"}
      /\ err = "ErrMaybe" => op = "Put" /\ outcome[c].err \in {"OK", "ErrVersion"}
      /\ err = "ErrNoKey" => \/ op = "Get" /\ outcome[c].err = "ErrNoKey"
                             \/ /\ op = "Put" /\ outcome[c].err \in {"ErrNoKey", "OK"}
                                /\ <<c, started[c]>> \in ahead
  <2>1. CASE op = "Get"
    BY <1>1, <1>2, <2>1, Zenon DEF OutcomeOf
  <2>2. CASE op = "Put"
    <3>1. ~clerk[c].retried /\ clerk[c].reply.err # "OK" => outcome[c].err # "OK"
      BY <1>1, <1>2, <2>2, Zenon DEF OutcomeOf, Untouched, Written
    <3>2. clerk[c].reply.err = "ErrNoKey" => <<c, started[c]>> \in ahead
      BY <1>1, <2>2 DEF Reached, ReachedBy, IInv, RunningOf
    <3> QED
      BY <1>1, <1>2, <1>5, <2>2, <3>1, <3>2, Zenon DEF OutcomeOf, PutResult
  <2> QED
    BY <2>1, <2>2, Zenon
<1>8. finished' = finished \cup
        {[clnt |-> c, n |-> started[c], op |-> Pending[c].op, key |-> Pending[c].key,
          asked |-> Pending[c].version, err |-> err,
          value |-> Pending[c].outcome.value, version |-> Pending[c].outcome.version]}
  BY <1>1, <1>3, <1>4, Zenon
<1>9. /\ err \in {Pending[c].outcome.err, "ErrMaybe", "ErrNoKey"}
      /\ err = "ErrMaybe" => /\ Pending[c].op = "Put"
                             /\ Pending[c].outcome.err \in {"OK", "ErrVersion"}
      /\ err = "ErrNoKey" => \/ Pending[c].op = "Get" /\ Pending[c].outcome.err = "ErrNoKey"
                             \/ /\ Pending[c].op = "Put"
                                /\ Pending[c].outcome.err \in {"ErrNoKey", "OK"}
                                /\ <<c, started[c]>> \in ahead
  BY <1>3, <1>7
<1>10. /\ Pending[c].op # "none" /\ Pending[c].outcome.err # "none"
       /\ UNCHANGED <<KVStore, started, ahead>>
  BY <1>1, <1>3, <1>5, Zenon
<1> QED
  BY <1>6, <1>8, <1>9, <1>10, Zenon DEF Atomic!Respond

LEMMA NextSimulated == IInv /\ Reached /\ [Next]_vars => [Atomic!Next]_avars
<1> SUFFICES ASSUME IInv, Reached, [Next]_vars PROVE [Atomic!Next]_avars
  OBVIOUS
<1>1. ASSUME NEW c \in Clients, StartGet(c) \/ StartPut(c) PROVE Atomic!Next
  BY <1>1, StartSimulated DEF Atomic!Next
<1>2. ASSUME NEW c \in Clients, ServeGet(c) PROVE Atomic!Next
  BY <1>2, ServeGetSimulated DEF Atomic!Next
<1>3. ASSUME NEW c \in Clients, ServePut(c) PROVE [Atomic!Next]_avars
  BY <1>3, ServePutSimulated DEF Atomic!Next
<1>4. ASSUME NEW c \in Clients, LoseCall(c) PROVE UNCHANGED avars
  <2>1. clerk \in [Clients -> ClerkState]
    BY DEF IInv, Types, TypeOK, KVTypeOK
  <2>2. \A d \in Clients : /\ clerk'[d].op = clerk[d].op /\ clerk'[d].value = clerk[d].value
                           /\ clerk'[d].key = clerk[d].key /\ clerk'[d].version = clerk[d].version
    BY <1>4, <2>1 DEF LoseCall, CallFails, CallAbandoned, ClerkState
  <2>3. UNCHANGED <<KVStore, started, finished, outcome, ahead>>
    BY <1>4 DEF LoseCall, CallFails, CallAbandoned
  <2> QED
    BY <2>2, <2>3, PendingSame DEF avars
<1>5. ASSUME NEW c \in Clients, FinishGet(c) PROVE Atomic!Next
  BY <1>5, FinishSimulated DEF FinishGet, Atomic!Next
<1>6. ASSUME NEW c \in Clients, FinishPut(c) PROVE Atomic!Next
  BY <1>6, FinishSimulated DEF FinishPut, Atomic!Next
<1>7. ASSUME NEW q \in late, ServeLate(q) PROVE [Atomic!Next]_avars
  <2>1. q.clnt \in Clients
    BY <1>7, Zenon DEF IInv, Types, TypeOK, KVTypeOK, PutRequest
  <2> QED
    BY <1>7, <2>1, ServeLateSimulated DEF Atomic!Next
<1>8. CASE UNCHANGED vars
  BY <1>8 DEF vars, avars, Pending
<1> QED
  BY <1>1, <1>2, <1>3, <1>4, <1>5, <1>6, <1>7, <1>8 DEF Next, Quiet

\* The clerks and the server of kvsrv1, over a network that loses requests and
\* replies and delays copies: a Get, and a Put that asks for a version its key
\* had reached when it was called, takes effect at one moment between its call
\* and its return with a result that models1/kv.go allows.  A Put that asked for
\* a version still to come may be answered ErrNoKey, and take effect later.
THEOREM ServiceIsLinearizable == Spec => Linearizable
<1>1. Spec => [](IInv /\ Reached)
  <2>1. Init => IInv /\ Reached
    BY InitInv, ReachedInit
  <2>2. IInv /\ Reached /\ [Next]_vars => (IInv /\ Reached)'
    BY NextInv, ReachedNext
  <2> QED
    BY <2>1, <2>2, PTL DEF Spec
<1>2. Init => Atomic!Init
  BY InitSimulated
<1>3. IInv /\ Reached /\ [Next]_vars => [Atomic!Next]_<<KVStore, Pending, started, finished, ahead>>
  BY NextSimulated DEF avars
<1> QED
  BY <1>1, <1>2, <1>3, PTL DEF Spec, Linearizable, Atomic!Spec
=============================================================================
