----------------------------- MODULE LockProofs ----------------------------
(***************************************************************************)
(* Mutual exclusion of the lock, for every set of clients and any number   *)
(* of rounds, over a network that loses, repeats and delays requests.      *)
(*                                                                         *)
(* The argument rests on versions.  Every Put a client has under way, or   *)
(* once gave up on, asks for a version the key has or had (Requests); the  *)
(* ones that ask for the current version, and so can still take effect,    *)
(* are grabs of a free lock or the release of the client whose id is       *)
(* stored, and belong to an operation that still runs.  So no Put of a     *)
(* finished Acquire or Release takes effect any more.                      *)
(***************************************************************************)
EXTENDS Lock, TLAPS

lock == KVStore[lockname]

OnlyLockname ==
  /\ \A c \in Clients : clerk[c].op # "none" =>
       clerk[c].key = lockname /\ clerk[c].call \in {"sent", "replied"}
  /\ \A q \in late : q.key = lockname
  /\ lock.version = 0 => lock.value = Empty

Requests ==
  /\ \A c \in Clients : pc[c] = "acquirePut" =>
       /\ clerk[c].value = c /\ clerk[c].version <= lock.version
       /\ clerk[c].version = lock.version => lock.value = Empty
  /\ \A c \in Clients : pc[c] = "releasePut" =>
       /\ clerk[c].value = Empty /\ clerk[c].version <= lock.version
       /\ clerk[c].version = lock.version <=> lock.value = c
       /\ clerk[c].version = lock.version \/ clerk[c].retried \/ clerk[c].call = "replied"
  /\ \A q \in late :
       /\ q.version <= lock.version
       /\ q.version = lock.version =>
            /\ clerk[q.clnt].op = "Put" /\ clerk[q.clnt].retried
            /\ clerk[q.clnt].value = q.value /\ clerk[q.clnt].version = q.version

GetReplies ==
  \A c \in Clients : Returned(c, "Get") =>
    /\ clerk[c].reply.version <= lock.version
    /\ clerk[c].reply.version = lock.version => clerk[c].reply.value = lock.value
    /\ clerk[c].reply.err = (IF clerk[c].reply.version = 0 THEN "ErrNoKey" ELSE "OK")
    /\ pc[c] = "acquireGet" /\ clerk[c].reply.value = c => lock.value = c
    /\ pc[c] = "releaseGet" => clerk[c].reply.version = lock.version

PutReplies ==
  \A c \in Clients : Returned(c, "Put") =>
    /\ clerk[c].version < lock.version
    /\ clerk[c].reply.err \in {"OK", "ErrVersion"}
    /\ clerk[c].reply.err = "OK" /\ pc[c] = "acquirePut" => lock.value = c
    /\ clerk[c].reply.err = "ErrVersion" /\ pc[c] = "releasePut" => clerk[c].retried

Ownership == \A c \in Clients : pc[c] \in {"held", "releaseGet"} => lock.value = c

IInv ==
  /\ TypeOK
  /\ OnlyLockname
  /\ Requests
  /\ GetReplies
  /\ PutReplies
  /\ Ownership
-----------------------------------------------------------------------------
(* Facts about the operators of the service.                               *)

LEMMA Operations ==
  /\ \A l \in Keys : GetOp(l) \in ClerkState
  /\ \A l \in Keys, v \in Values, n \in Nat : PutOp(l, v, n) \in ClerkState
  /\ NoOp \in ClerkState
  /\ NoOp.op = "none"
BY KeysAssumption, EmptyAssumption
   DEF GetOp, PutOp, NoOp, Operation, NoReply, PutReply, ClerkState, Reply

(* KVServer.Put on a version the key has or had: it is performed exactly   *)
(* if the version is the current one, and otherwise returns ErrVersion.    *)
LEMMA PutErrOfSeenVersion ==
  ASSUME NEW e \in Entry, NEW v \in Nat, v <= e.version
  PROVE  PutErr(e, v) = IF v = e.version THEN "OK" ELSE "ErrVersion"
BY DEF PutErr, Entry

LEMMA PutReplyType == \A err \in {"OK", "ErrNoKey", "ErrVersion", "none"} : PutReply(err) \in Reply
BY EmptyAssumption DEF PutReply, Reply

LEMMA Holders == \A c \in Clients : c \in Values /\ c # Empty
BY LockAssumption

(* The initial state satisfies the inductive invariant.                    *)
LEMMA InitInvariant == Init => IInv
<1> SUFFICES ASSUME Init PROVE IInv
  OBVIOUS
<1> USE Operations, LockAssumption, EmptyAssumption DEF Init, KVInit
<1>1. TypeOK
  BY DEF TypeOK, KVTypeOK, Entry, ZeroEntry
<1>2. OnlyLockname
  BY DEF OnlyLockname, lock, ZeroEntry
<1>3. Requests /\ GetReplies /\ PutReplies /\ Ownership
  BY DEF Requests, GetReplies, PutReplies, Ownership, Returned
<1> QED
  BY <1>1, <1>2, <1>3 DEF IInv

-----------------------------------------------------------------------------
(* A client that goes on with its next operation: it must not leave a Put  *)
(* behind that can still take effect, and what it starts must agree with   *)
(* the lock.                                                               *)
LEMMA MovesOn ==
  ASSUME IInv, NEW c \in Clients, NEW operation, NEW label,
         Continue(c, operation),
         pc' = [pc EXCEPT ![c] = label],
         rounds' \in [Clients -> 0 .. MaxRounds],
         clerk[c].op = "Put" => Returned(c, "Put"),
         \/ operation = NoOp /\ label = "out"
         \/ operation = NoOp /\ label = "held" /\ lock.value = c
         \/ operation = GetOp(lockname) /\ label = "acquireGet"
         \/ operation = GetOp(lockname) /\ label = "releaseGet" /\ lock.value = c
         \/ /\ label = "acquirePut"
            /\ \E v \in Nat : /\ operation = PutOp(lockname, c, v)
                              /\ v <= lock.version
                              /\ v = lock.version => lock.value = Empty
         \/ /\ operation = PutOp(lockname, Empty, lock.version)
            /\ label = "releasePut" /\ lock.value = c
  PROVE  IInv'
<1> USE Holders, LockAssumption, EmptyAssumption DEF IInv
<1>1. /\ KVStore' = KVStore /\ late' = late /\ lock' = lock
      /\ clerk' = [clerk EXCEPT ![c] = operation]
  BY DEF Continue, lock
<1>2. lock.version \in Nat
  BY DEF TypeOK, KVTypeOK, Entry, lock
<1>3. operation \in ClerkState
  BY <1>2, Operations
<1>4. \A d \in Clients : /\ clerk'[d] = IF d = c THEN operation ELSE clerk[d]
                         /\ pc'[d] = IF d = c THEN label ELSE pc[d]
  BY <1>1 DEF TypeOK, KVTypeOK
<1>5. \A q \in late : q.clnt = c => q.version # lock.version
  BY DEF Requests, PutReplies, TypeOK, KVTypeOK, ClerkState, lock, Entry
<1>6. TypeOK'
  <2>1. KVTypeOK'
    BY <1>1, <1>3 DEF TypeOK, KVTypeOK
  <2>2. pc' \in [Clients ->
          {"out", "acquireGet", "acquirePut", "held", "releaseGet", "releasePut"}]
    BY DEF TypeOK
  <2>3. /\ operation.op = "Get" <=> label \in {"acquireGet", "releaseGet"}
        /\ operation.op = "Put" <=> label \in {"acquirePut", "releasePut"}
    BY DEF NoOp, GetOp, PutOp, Operation
  <2> QED
    BY <1>4, <2>1, <2>2, <2>3 DEF TypeOK
<1>7. OnlyLockname'
  <2>1. operation.op # "none" => operation.key = lockname /\ operation.call = "sent"
    BY DEF NoOp, GetOp, PutOp, Operation
  <2> QED
    BY <1>1, <1>4, <2>1 DEF OnlyLockname
<1>8. Requests'
  <2>1. /\ label = "acquirePut" =>
             /\ operation.value = c /\ operation.version <= lock.version
             /\ operation.version = lock.version => lock.value = Empty
        /\ label = "releasePut" =>
             /\ operation.value = Empty /\ operation.version = lock.version /\ lock.value = c
    BY <1>2 DEF PutOp, Operation
  <2>2. \A q \in late : q.clnt \in Clients
    BY DEF TypeOK, KVTypeOK, PutRequest
  <2> QED
    BY <1>1, <1>2, <1>4, <1>5, <2>1, <2>2 DEF Requests
<1>9. operation.call # "replied"
  BY DEF NoOp, GetOp, PutOp, Operation
<1>10. GetReplies'
  BY <1>1, <1>4, <1>9 DEF GetReplies, Returned
<1>11. PutReplies'
  BY <1>1, <1>4, <1>9 DEF PutReplies, Returned
<1>12. Ownership'
  BY <1>1, <1>4 DEF Ownership
<1> QED
  BY <1>6, <1>7, <1>8, <1>10, <1>11, <1>12

-----------------------------------------------------------------------------
(* The steps of Acquire and Release are moves of that kind.                *)
LEMMA LockSteps ==
  ASSUME Disciplined, IInv, NEW c \in Clients,
         CallAcquire(c) \/ CallRelease(c) \/ LockStep(c)
  PROVE  IInv'
<1> USE LockAssumption DEF IInv
<1>1. /\ rounds \in [Clients -> 0 .. MaxRounds] /\ lock.version \in Nat
      /\ clerk[c] \in ClerkState /\ clerk[c].reply.version \in Nat
  BY DEF TypeOK, KVTypeOK, Entry, lock, ClerkState, Reply
<1>2. CASE CallAcquire(c)
  <2>1. clerk[c].op # "Put" /\ Continue(c, GetOp(lockname)) /\ Goto(c, "acquireGet")
    BY <1>2 DEF CallAcquire, Start
  <2> QED
    BY <1>1, <2>1, MovesOn, Zenon DEF Goto
<1>3. CASE AcquireGot(c)
  <2>1. /\ pc[c] = "acquireGet" /\ Returned(c, "Get") /\ clerk[c].op # "Put"
    BY <1>3 DEF AcquireGot, Returned
  <2>2. CASE clerk[c].reply.err # "OK"
    <3>1. Continue(c, PutOp(lockname, c, 0)) /\ Goto(c, "acquirePut")
      BY <1>3, <2>2 DEF AcquireGot
    <3>2. /\ 0 \in Nat /\ 0 <= lock.version
          /\ 0 = lock.version => lock.value = Empty
      BY <1>1 DEF OnlyLockname
    <3>3. \E v \in Nat : /\ PutOp(lockname, c, 0) = PutOp(lockname, c, v)
                         /\ v <= lock.version
                         /\ v = lock.version => lock.value = Empty
      BY <3>2
    <3> HIDE DEF PutOp
    <3> QED
      BY <1>1, <2>1, <3>1, <3>3, MovesOn, Zenon DEF Goto
  <2>3. CASE clerk[c].reply.err = "OK" /\ clerk[c].reply.value = c
    <3>1. Continue(c, NoOp) /\ Goto(c, "held")
      BY <1>3, <2>3, Holders DEF AcquireGot
    <3>2. lock.value = c
      BY <2>1, <2>3 DEF GetReplies
    <3> QED
      BY <1>1, <2>1, <3>1, <3>2, MovesOn, Zenon DEF Goto
  <2>4. CASE clerk[c].reply.err = "OK" /\ clerk[c].reply.value = Empty
    <3>1. Continue(c, PutOp(lockname, c, clerk[c].reply.version)) /\ Goto(c, "acquirePut")
      BY <1>3, <2>4, Holders DEF AcquireGot
    <3>2. /\ clerk[c].reply.version <= lock.version
          /\ clerk[c].reply.version = lock.version => lock.value = Empty
      BY <2>1, <2>4 DEF GetReplies
    <3> QED
      BY <1>1, <2>1, <3>1, <3>2, MovesOn, Zenon DEF Goto
  <2>5. CASE clerk[c].reply.err = "OK" /\ clerk[c].reply.value \notin {c, Empty}
    <3>1. Continue(c, GetOp(lockname)) /\ Goto(c, "acquireGet")
      BY <1>3, <2>5 DEF AcquireGot
    <3> QED
      BY <1>1, <2>1, <3>1, MovesOn, Zenon DEF Goto
  <2> QED
    BY <2>2, <2>3, <2>4, <2>5
<1>4. CASE AcquirePutDone(c)
  <2>1. pc[c] = "acquirePut" /\ Returned(c, "Put")
    BY <1>4 DEF AcquirePutDone
  <2>2. CASE PutResult(c) = "OK"
    <3>1. Continue(c, NoOp) /\ Goto(c, "held")
      BY <1>4, <2>2 DEF AcquirePutDone
    <3>2. lock.value = c
      BY <2>1, <2>2 DEF PutReplies, PutResult
    <3> QED
      BY <1>1, <2>1, <3>1, <3>2, MovesOn, Zenon DEF Goto
  <2>3. CASE PutResult(c) # "OK"
    <3>1. Continue(c, GetOp(lockname)) /\ Goto(c, "acquireGet")
      BY <1>4, <2>3 DEF AcquirePutDone
    <3> QED
      BY <1>1, <2>1, <3>1, MovesOn, Zenon DEF Goto
  <2> QED
    BY <2>2, <2>3
<1>5. CASE CallRelease(c)
  <2>1. /\ clerk[c].op # "Put" /\ Continue(c, GetOp(lockname)) /\ pc[c] = "held"
        /\ pc' = [pc EXCEPT ![c] = "releaseGet"]
    BY <1>5 DEF CallRelease, Start
  <2>2. rounds' \in [Clients -> 0 .. MaxRounds]
    BY <1>1, <1>5 DEF CallRelease
  <2>3. lock.value = c
    BY <2>1 DEF Ownership
  <2> QED
    BY <2>1, <2>2, <2>3, MovesOn, Zenon
<1>6. CASE ReleaseGot(c)
  <2>1. /\ pc[c] = "releaseGet" /\ Returned(c, "Get") /\ clerk[c].op # "Put"
        /\ Continue(c, PutOp(lockname, Empty, clerk[c].reply.version)) /\ Goto(c, "releasePut")
    BY <1>6 DEF ReleaseGot, Returned
  <2>2. clerk[c].reply.version = lock.version /\ lock.value = c
    BY <2>1 DEF GetReplies, Ownership
  <2> QED
    BY <1>1, <2>1, <2>2, MovesOn, Zenon DEF Goto
<1>7. CASE ReleaseDone(c)
  <2>1. Returned(c, "Put") /\ Continue(c, NoOp) /\ Goto(c, "out")
    BY <1>7 DEF ReleaseDone
  <2> QED
    BY <1>1, <2>1, MovesOn, Zenon DEF Goto
<1> QED
  BY <1>2, <1>3, <1>4, <1>5, <1>6, <1>7 DEF LockStep

-----------------------------------------------------------------------------
(* The server answers a Get.                                               *)
LEMMA HandleGetInv ==
  ASSUME IInv, NEW c \in Clients, HandleGet(c), UNCHANGED lockVars
  PROVE  IInv'
<1> USE Holders, LockAssumption DEF IInv
<1>1. /\ KVStore' = KVStore /\ late' = late /\ lock' = lock /\ pc' = pc /\ rounds' = rounds
      /\ clerk[c].op = "Get" /\ clerk[c].key = lockname
  BY DEF HandleGet, lockVars, lock, OnlyLockname
<1>2. lock \in Entry /\ GetReply(lock) \in Reply
  BY DEF TypeOK, KVTypeOK, lock, Entry, GetReply, Reply
<1>3. clerk' = [clerk EXCEPT ![c] = [clerk[c] EXCEPT !.call = "replied", !.reply = GetReply(lock)]]
  BY <1>1, Zenon DEF HandleGet, TypeOK, KVTypeOK, ClerkState, lock
<1>4. \A d \in Clients : /\ d # c => clerk'[d] = clerk[d]
                         /\ clerk'[d].op = clerk[d].op /\ clerk'[d].key = clerk[d].key
                         /\ clerk'[d].value = clerk[d].value
                         /\ clerk'[d].version = clerk[d].version
                         /\ clerk'[d].retried = clerk[d].retried
  BY <1>3 DEF TypeOK, KVTypeOK, ClerkState
<1>5. clerk'[c].call = "replied" /\ clerk'[c].reply = GetReply(lock)
  BY <1>3 DEF TypeOK, KVTypeOK, ClerkState
<1>6. TypeOK'
  <2>1. [clerk[c] EXCEPT !.call = "replied", !.reply = GetReply(lock)] \in ClerkState
    BY <1>2, ZenonT(40) DEF TypeOK, KVTypeOK, ClerkState
  <2> QED
    BY <1>1, <1>3, <1>4, <2>1 DEF TypeOK, KVTypeOK
<1>7. OnlyLockname'
  BY <1>1, <1>4, <1>5 DEF OnlyLockname
<1>8. Requests'
  <2>1. \A q \in late : q.clnt \in Clients
    BY DEF TypeOK, KVTypeOK, PutRequest
  <2> QED
    BY <1>1, <1>4, <1>5, <2>1 DEF Requests, TypeOK
<1>9. GetReplies'
  <2>1. /\ clerk'[c].reply.version = lock.version /\ clerk'[c].reply.value = lock.value
        /\ clerk'[c].reply.err = IF lock.version = 0 THEN "ErrNoKey" ELSE "OK"
    BY <1>5 DEF GetReply
  <2> QED
    BY <1>1, <1>2, <1>4, <2>1 DEF GetReplies, Returned, Entry
<1>10. PutReplies'
  BY <1>1, <1>4 DEF PutReplies, Returned
<1>11. Ownership'
  BY <1>1 DEF Ownership
<1> QED
  BY <1>6, <1>7, <1>8, <1>9, <1>10, <1>11

(* A Call that returns false makes the clerk send the request again.       *)
LEMMA LostCallInv ==
  ASSUME IInv, NEW c \in Clients, CallFails(c) \/ CallAbandoned(c), UNCHANGED lockVars
  PROVE  IInv'
<1> USE Holders, LockAssumption, EmptyAssumption DEF IInv
<1>1. /\ KVStore' = KVStore /\ lock' = lock /\ pc' = pc /\ rounds' = rounds
      /\ lock.version \in Nat
  BY DEF CallFails, CallAbandoned, lockVars, lock, TypeOK, KVTypeOK, Entry
<1>2. PICK reply \in Reply : clerk' = [clerk EXCEPT ![c] =
        [clerk[c] EXCEPT !.call = "sent", !.retried = TRUE, !.reply = reply]]
  <2>1. CASE CallFails(c)
    <3>1. NoReply \in Reply
      BY DEF NoReply, PutReply, Reply
    <3> QED
      BY <2>1, <3>1, Zenon DEF CallFails, TypeOK, KVTypeOK, ClerkState
  <2>2. CASE CallAbandoned(c)
    <3>1. clerk[c].reply \in Reply
      BY DEF TypeOK, KVTypeOK, ClerkState
    <3>2. clerk' = [clerk EXCEPT ![c] =
            [clerk[c] EXCEPT !.call = "sent", !.retried = TRUE, !.reply = clerk[c].reply]]
      BY <2>2, ZenonT(40) DEF CallAbandoned, TypeOK, KVTypeOK, ClerkState
    <3> QED
      BY <3>1, <3>2, Zenon
  <2> QED
    BY <2>1, <2>2, Zenon
<1>3. \A d \in Clients : /\ d # c => clerk'[d] = clerk[d]
                         /\ clerk'[d].op = clerk[d].op /\ clerk'[d].key = clerk[d].key
                         /\ clerk'[d].value = clerk[d].value
                         /\ clerk'[d].version = clerk[d].version
  BY <1>2 DEF TypeOK, KVTypeOK, ClerkState
<1>4. clerk'[c].call = "sent" /\ clerk'[c].retried = TRUE
  BY <1>2 DEF TypeOK, KVTypeOK, ClerkState
<1>5. /\ late' \subseteq late \cup {Request(c)}
      /\ Request(c) \in late' => Request(c) \in late \/ clerk[c].op = "Put"
  BY DEF CallFails, CallAbandoned
<1>6. Request(c) \in PutRequest
  BY DEF Request, PutRequest, TypeOK, KVTypeOK, ClerkState
<1>7. TypeOK'
  <2>1. [clerk[c] EXCEPT !.call = "sent", !.retried = TRUE, !.reply = reply] \in ClerkState
    BY ZenonT(40) DEF TypeOK, KVTypeOK, ClerkState
  <2> QED
    BY <1>1, <1>2, <1>3, <1>5, <1>6, <2>1 DEF TypeOK, KVTypeOK
<1>8. OnlyLockname'
  BY <1>1, <1>3, <1>4, <1>5 DEF OnlyLockname, Request
<1>9. Requests'
  <2>1. \A q \in late : q.clnt \in Clients
    BY DEF TypeOK, KVTypeOK, PutRequest
  <2>2. clerk[c].op = "Put" => clerk[c].version <= lock.version
    BY DEF Requests, TypeOK
  <2> QED
    BY <1>1, <1>3, <1>4, <1>5, <2>1, <2>2 DEF Requests, Request
<1>10. GetReplies'
  BY <1>1, <1>3, <1>4 DEF GetReplies, Returned
<1>11. PutReplies'
  BY <1>1, <1>3, <1>4 DEF PutReplies, Returned
<1>12. Ownership'
  BY <1>1 DEF Ownership
<1> QED
  BY <1>7, <1>8, <1>9, <1>10, <1>11, <1>12

(* A Put of an operation that still runs takes effect.  Every other        *)
(* request now asks for a version of the past.                             *)
LEMMA TakesEffect ==
  ASSUME IInv, NEW c \in Clients, clerk[c].op = "Put", clerk[c].version = lock.version,
         KVStore' = [KVStore EXCEPT ![lockname] =
                       [value |-> clerk[c].value, version |-> lock.version + 1]],
         UNCHANGED lockVars, late' \subseteq late,
         \/ clerk' = clerk /\ clerk[c].retried
         \/ clerk' = [clerk EXCEPT ![c] =
              [clerk[c] EXCEPT !.call = "replied", !.reply = PutReply("OK")]]
  PROVE  IInv'
<1> USE Holders, LockAssumption, EmptyAssumption DEF IInv
<1>1. /\ lock.version \in Nat /\ clerk[c].value \in Values
      /\ lock'.value = clerk[c].value /\ lock'.version = lock.version + 1
      /\ pc' = pc /\ rounds' = rounds
  BY DEF lock, TypeOK, KVTypeOK, Entry, ClerkState, lockVars
<1>2. \/ pc[c] = "acquirePut" /\ lock.value = Empty /\ clerk[c].value = c
      \/ pc[c] = "releasePut" /\ lock.value = c /\ clerk[c].value = Empty
  BY <1>1 DEF TypeOK, Requests
<1>3. \A d \in Clients : /\ d # c => clerk'[d] = clerk[d]
                         /\ clerk'[d].op = clerk[d].op /\ clerk'[d].key = clerk[d].key
                         /\ clerk'[d].value = clerk[d].value
                         /\ clerk'[d].version = clerk[d].version
                         /\ clerk'[d].retried = clerk[d].retried
  <2>1. CASE clerk' = clerk
    BY <2>1
  <2>2. CASE clerk' = [clerk EXCEPT ![c] =
               [clerk[c] EXCEPT !.call = "replied", !.reply = PutReply("OK")]]
    BY <2>2 DEF TypeOK, KVTypeOK, ClerkState
  <2> QED
    BY <2>1, <2>2
<1>4. \/ clerk'[c].retried /\ clerk'[c].call = "sent"
      \/ clerk'[c].call = "replied" /\ clerk'[c].reply.err = "OK"
  <2>1. clerk[c].call = "sent"
    BY <1>1 DEF OnlyLockname, PutReplies, Returned
  <2>2. CASE clerk' = [clerk EXCEPT ![c] =
               [clerk[c] EXCEPT !.call = "replied", !.reply = PutReply("OK")]]
    BY <2>2 DEF TypeOK, KVTypeOK, ClerkState, PutReply
  <2> QED
    BY <2>1, <2>2
<1>5. TypeOK'
  <2>1. [clerk[c] EXCEPT !.call = "replied", !.reply = PutReply("OK")]
          \in ClerkState
    <3>1. PutReply("OK") \in Reply /\ clerk[c] \in ClerkState
      BY PutReplyType DEF TypeOK, KVTypeOK
    <3> QED
      BY <3>1, Zenon DEF ClerkState
  <2>2. clerk' \in [Clients -> ClerkState]
    BY <2>1 DEF TypeOK, KVTypeOK
  <2>3. KVStore' \in [Keys -> Entry]
    BY <1>1 DEF TypeOK, KVTypeOK, Entry
  <2> QED
    BY <1>1, <1>3, <2>2, <2>3 DEF TypeOK, KVTypeOK
<1>6. OnlyLockname'
  BY <1>1, <1>3, <1>4 DEF OnlyLockname
<1>7. \A d \in Clients : clerk[d].op = "Put" => clerk[d].version <= lock.version
  BY DEF Requests, TypeOK
<1>8. \A d \in Clients : clerk[d].version \in Nat /\ clerk[d].reply.version \in Nat
  BY DEF TypeOK, KVTypeOK, ClerkState, Reply
<1>9. \A d \in Clients : d # c => lock.value # d \/ pc[c] = "acquirePut"
  BY <1>2
<1>10. Requests'
  <2>1. ASSUME NEW d \in Clients, pc[d] = "acquirePut"
        PROVE  /\ clerk'[d].value = d /\ clerk'[d].version <= lock'.version
               /\ clerk'[d].version # lock'.version
    BY <1>1, <1>3, <1>7, <1>8, <2>1 DEF Requests, TypeOK
  <2>2. ASSUME NEW d \in Clients, pc[d] = "releasePut"
        PROVE  /\ clerk'[d].value = Empty /\ clerk'[d].version <= lock'.version
               /\ clerk'[d].version # lock'.version /\ lock'.value # d
               /\ clerk'[d].retried \/ clerk'[d].call = "replied"
    <3>1. /\ clerk'[d].value = Empty /\ clerk'[d].version <= lock'.version
          /\ clerk'[d].version # lock'.version
      BY <1>1, <1>3, <1>7, <1>8, <2>2 DEF Requests, TypeOK
    <3>2. CASE d = c
      BY <1>1, <1>2, <1>4, <2>2, <3>1, <3>2
    <3>3. CASE d # c
      <4>1. clerk[d].version # lock.version
        BY <1>2, <2>2, <3>3 DEF Requests
      <4> QED
        BY <1>1, <1>2, <1>3, <2>2, <3>1, <3>3, <4>1 DEF Requests
    <3> QED
      BY <3>2, <3>3
  <2>3. \A q \in late' : q.version <= lock'.version /\ q.version # lock'.version
    BY <1>1 DEF Requests, TypeOK, KVTypeOK, PutRequest
  <2> QED
    BY <1>1, <2>1, <2>2, <2>3 DEF Requests
<1>11. GetReplies'
  <2>1. ASSUME NEW d \in Clients, clerk'[d].op = "Get" /\ clerk'[d].call = "replied"
        PROVE  /\ d # c /\ clerk'[d] = clerk[d] /\ Returned(d, "Get")
               /\ clerk[d].reply.version <= lock.version
               /\ pc[d] # "releaseGet"
               /\ ~(pc[d] = "acquireGet" /\ clerk[d].reply.value = d)
    <3>1. d # c /\ clerk'[d] = clerk[d] /\ Returned(d, "Get")
      BY <1>3, <2>1 DEF Returned
    <3>2. lock.value # d
      BY <1>2, <3>1
    <3> QED
      BY <3>1, <3>2 DEF GetReplies, Ownership
  <2> QED
    BY <1>1, <1>8, <2>1 DEF GetReplies, Returned
<1>12. PutReplies'
  <2>1. ASSUME NEW d \in Clients, d # c, clerk'[d].op = "Put", clerk'[d].call = "replied"
        PROVE  /\ clerk'[d] = clerk[d] /\ Returned(d, "Put")
               /\ ~(clerk[d].reply.err = "OK" /\ pc[d] = "acquirePut")
    BY <1>2, <1>3, <2>1 DEF PutReplies, Returned
  <2> QED
    BY <1>1, <1>2, <1>3, <1>4, <1>7, <1>8, <2>1 DEF PutReplies, Returned
<1>13. Ownership'
  BY <1>1, <1>2 DEF Ownership
<1> QED
  BY <1>5, <1>6, <1>10, <1>11, <1>12, <1>13

(* The server handles a Put, of a clerk that waits for it or late.         *)
LEMMA HandlePutInv ==
  ASSUME IInv, NEW c \in Clients, HandlePut(c), UNCHANGED lockVars
  PROVE  IInv'
<1> USE Holders, LockAssumption DEF IInv
<1>1. /\ clerk[c].op = "Put" /\ clerk[c].key = lockname /\ late' = late
      /\ lock \in Entry /\ clerk[c] \in ClerkState /\ clerk[c].version \in Nat
  BY DEF HandlePut, OnlyLockname, TypeOK, KVTypeOK, lock, ClerkState
<1>2. clerk[c].version <= lock.version
  BY <1>1 DEF Requests, TypeOK
<1>3. PutErr(lock, clerk[c].version) = IF clerk[c].version = lock.version THEN "OK" ELSE "ErrVersion"
  BY <1>1, <1>2, PutErrOfSeenVersion
<1>4. clerk' = [clerk EXCEPT ![c] =
        [clerk[c] EXCEPT !.call = "replied", !.reply = PutReply(PutErr(lock, clerk[c].version))]]
  BY <1>1, Zenon DEF HandlePut, lock, TypeOK, KVTypeOK, ClerkState
<1>5. CASE clerk[c].version = lock.version
  <2>1. KVStore' = [KVStore EXCEPT ![lockname] =
                      [value |-> clerk[c].value, version |-> lock.version + 1]]
    BY <1>1, <1>3, <1>5 DEF HandlePut, PutEntry, lock
  <2> QED
    BY <1>1, <1>3, <1>4, <1>5, <2>1, TakesEffect, Zenon
<1>6. CASE clerk[c].version # lock.version
  <2>1. /\ KVStore' = KVStore /\ lock' = lock /\ pc' = pc /\ rounds' = rounds
        /\ clerk[c].version < lock.version
    <3>1. KVStore' = [KVStore EXCEPT ![lockname] = lock]
      BY <1>1, <1>3, <1>6 DEF HandlePut, PutEntry, lock
    <3>2. KVStore' = KVStore
      BY <3>1 DEF lock, TypeOK, KVTypeOK
    <3>3. clerk[c].version < lock.version
      BY <1>1, <1>2, <1>6 DEF Entry
    <3> QED
      BY <3>2, <3>3 DEF lock, lockVars
  <2>2. \A d \in Clients : /\ d # c => clerk'[d] = clerk[d]
                           /\ clerk'[d].op = clerk[d].op /\ clerk'[d].key = clerk[d].key
                           /\ clerk'[d].value = clerk[d].value
                           /\ clerk'[d].version = clerk[d].version
                           /\ clerk'[d].retried = clerk[d].retried
    BY <1>4 DEF TypeOK, KVTypeOK, ClerkState
  <2>3. clerk'[c].call = "replied" /\ clerk'[c].reply.err = "ErrVersion"
    BY <1>3, <1>4, <1>6 DEF TypeOK, KVTypeOK, ClerkState, PutReply
  <2>4. TypeOK'
    <3>1. PutReply("ErrVersion") \in Reply
      BY PutReplyType
    <3>2. [clerk[c] EXCEPT !.call = "replied", !.reply = PutReply("ErrVersion")] \in ClerkState
      BY <1>1, <3>1, Zenon DEF ClerkState
    <3>3. clerk' \in [Clients -> ClerkState]
      BY <1>3, <1>4, <1>6, <3>2 DEF TypeOK, KVTypeOK
    <3> QED
      BY <1>1, <2>1, <2>2, <3>3 DEF TypeOK, KVTypeOK
  <2>5. OnlyLockname'
    BY <1>1, <2>1, <2>2, <2>3 DEF OnlyLockname
  <2>6. Requests'
    <3>1. \A q \in late : q.clnt \in Clients
      BY DEF TypeOK, KVTypeOK, PutRequest
    <3> QED
      BY <1>1, <2>1, <2>2, <2>3, <3>1 DEF Requests
  <2>7. GetReplies'
    BY <1>1, <2>1, <2>2 DEF GetReplies, Returned
  <2>8. PutReplies'
    <3>1. pc[c] = "releasePut" => clerk[c].retried
      BY <1>6 DEF Requests, HandlePut
    <3> QED
      BY <2>1, <2>2, <2>3, <3>1 DEF PutReplies, Returned
  <2>9. Ownership'
    BY <2>1 DEF Ownership
  <2> QED
    BY <2>4, <2>5, <2>6, <2>7, <2>8, <2>9
<1> QED
  BY <1>5, <1>6

LEMMA HandleLateInv ==
  ASSUME IInv, NEW q \in late, HandleLate(q), UNCHANGED lockVars
  PROVE  IInv'
<1> USE Holders, LockAssumption DEF IInv
<1>1. /\ q.key = lockname /\ q.clnt \in Clients /\ q.version \in Nat /\ q.version <= lock.version
      /\ lock \in Entry /\ late' = late \ {q} /\ clerk' = clerk
  BY DEF OnlyLockname, Requests, TypeOK, KVTypeOK, lock, PutRequest, HandleLate
<1>2. PutErr(lock, q.version) = IF q.version = lock.version THEN "OK" ELSE "ErrVersion"
  BY <1>1, PutErrOfSeenVersion
<1>3. CASE q.version = lock.version
  <2>1. /\ clerk[q.clnt].op = "Put" /\ clerk[q.clnt].retried
        /\ clerk[q.clnt].value = q.value /\ clerk[q.clnt].version = q.version
    BY <1>3 DEF Requests
  <2>2. KVStore' = [KVStore EXCEPT ![lockname] =
                      [value |-> q.value, version |-> lock.version + 1]]
    BY <1>1, <1>2, <1>3 DEF HandleLate, PutEntry, lock
  <2> QED
    BY <1>1, <1>3, <2>1, <2>2, TakesEffect, Zenon
<1>4. CASE q.version # lock.version
  <2>1. KVStore' = KVStore /\ lock' = lock /\ pc' = pc /\ rounds' = rounds
    BY <1>1, <1>2, <1>4 DEF HandleLate, PutEntry, lock, lockVars, TypeOK, KVTypeOK
  <2> QED
    BY <1>1, <2>1 DEF TypeOK, KVTypeOK, OnlyLockname, Requests, GetReplies, PutReplies,
                      Ownership, Returned
<1> QED
  BY <1>3, <1>4

-----------------------------------------------------------------------------
(* Every step preserves the inductive invariant.                           *)
LEMMA NextInvariant ==
  ASSUME Disciplined
  PROVE  IInv /\ [Next]_vars => IInv'
<1> SUFFICES ASSUME IInv, [Next]_vars PROVE IInv'
  OBVIOUS
<1>1. CASE UNCHANGED vars
  BY <1>1 DEF vars, IInv, TypeOK, KVTypeOK, OnlyLockname, Requests, GetReplies, PutReplies,
              Ownership, Returned, lock
<1>2. CASE AllDone
  BY <1>1, <1>2 DEF AllDone
<1> QED
  BY <1>1, <1>2, LockSteps, HandleGetInv, HandlePutInv, LostCallInv, HandleLateInv
     DEF Next, RPCStep

(* IInv holds in every reachable state if clients release only what they   *)
(* hold.                                                                   *)
THEOREM Invariance ==
  ASSUME Disciplined
  PROVE  Spec => []IInv
<1>1. IInv /\ [Next]_vars => IInv'
  BY NextInvariant
<1> QED
  BY <1>1, InitInvariant, PTL DEF Spec

(* The variables of the server, the clerks and the locks keep their types. *)
THEOREM TypeCorrect ==
  ASSUME Disciplined
  PROVE  Spec => []TypeOK
<1>1. IInv => TypeOK
  BY DEF IInv
<1> QED
  BY <1>1, Invariance, PTL

(* No two clients are between the return of Acquire and their Release.     *)
THEOREM LockIsExclusive ==
  ASSUME Disciplined
  PROVE  Spec => []MutualExclusion
<1>1. IInv => MutualExclusion
  BY DEF IInv, Ownership, MutualExclusion
<1> QED
  BY <1>1, Invariance, PTL

(* Release's Get finds the lock, its Put returns OK or ErrMaybe, and the   *)
(* lock is no longer the caller's when it returns.                         *)
THEOREM ReleaseIsSound ==
  ASSUME Disciplined
  PROVE  Spec => []ReleaseReleases
<1>1. IInv => ReleaseReleases
  <2> SUFFICES ASSUME IInv, NEW c \in Clients
               PROVE  /\ pc[c] = "releaseGet" /\ Returned(c, "Get") => clerk[c].reply.err = "OK"
                      /\ pc[c] = "releasePut" /\ Returned(c, "Put") =>
                           PutResult(c) \in {"OK", "ErrMaybe"} /\ lock.value # c
    BY Zenon DEF ReleaseReleases, lock
  <2>1. ASSUME pc[c] = "releaseGet", Returned(c, "Get") PROVE clerk[c].reply.err = "OK"
    <3>1. lock.value = c /\ c # Empty
      BY <2>1, Holders DEF IInv, Ownership
    <3> QED
      BY <2>1, <3>1 DEF IInv, GetReplies, OnlyLockname
  <2>2. ASSUME pc[c] = "releasePut", Returned(c, "Put")
        PROVE  PutResult(c) \in {"OK", "ErrMaybe"} /\ lock.value # c
    <3>1. clerk[c].version \in Nat /\ lock.version \in Nat
      BY LockAssumption DEF IInv, TypeOK, KVTypeOK, ClerkState, Entry, lock
    <3> QED
      BY <2>2, <3>1 DEF IInv, PutReplies, Requests, PutResult
  <2> QED
    BY <2>1, <2>2
<1> QED
  BY <1>1, Invariance, PTL

-----------------------------------------------------------------------------
(* The refinement: the value stored under lockname is the owner.           *)

Stages == [c \in Clients |-> Stage(pc[c])]

(* A client that goes to another label changes its own stage only.         *)
LEMMA StageMoves ==
  ASSUME TypeOK, NEW c \in Clients, NEW to, pc' = [pc EXCEPT ![c] = to]
  PROVE  Stages' = [Stages EXCEPT ![c] = Stage(to)]
<1>1. \A d \in Clients : pc'[d] = IF d = c THEN to ELSE pc[d]
  BY DEF TypeOK
<1>2. \A d \in Clients : Stages'[d] = Stage(pc'[d])
  BY Zenon DEF Stages, Stage
<1>3. \A d \in Clients : Stages'[d] = IF d = c THEN Stage(to) ELSE Stages[d]
  BY <1>1, <1>2 DEF Stages
<1>4. Stages' = [d \in Clients |-> Stages'[d]]
  BY DEF Stages
<1> QED
  BY <1>3, <1>4, Zenon DEF Stages

LEMMA StageOf ==
  /\ Stage("out") = "outside" /\ Stage("held") = "inside"
  /\ Stage("acquireGet") = "acquiring" /\ Stage("acquirePut") = "acquiring"
  /\ Stage("releaseGet") = "releasing" /\ Stage("releasePut") = "releasing"
BY DEF Stage

(* A Put that takes effect is a grant or a release.                        *)
LEMMA EffectView ==
  ASSUME IInv, NEW c \in Clients, clerk[c].op = "Put", clerk[c].version = lock.version,
         KVStore' = [KVStore EXCEPT ![lockname] =
                       [value |-> clerk[c].value, version |-> lock.version + 1]],
         pc' = pc
  PROVE  LockView!Grant(c) \/ LockView!GiveUp(c)
<1> USE LockAssumption, StageOf DEF IInv
<1>1. pc[c] \in {"acquirePut", "releasePut"} /\ KVStore'[lockname].value = clerk[c].value
  BY DEF TypeOK, KVTypeOK
<1>2. Stages' = Stages
  BY DEF Stages
<1>3. CASE pc[c] = "acquirePut"
  BY <1>1, <1>2, <1>3 DEF Requests, lock, Stages, LockView!Grant
<1>4. CASE pc[c] = "releasePut"
  BY <1>1, <1>2, <1>4 DEF Requests, lock, Stages, LockView!GiveUp
<1> QED
  BY <1>1, <1>3, <1>4

(* A step of a client outside the RPCs.                                    *)
LEMMA ClientStepView ==
  ASSUME IInv, Disciplined, NEW c \in Clients,
         CallAcquire(c) \/ CallRelease(c) \/ LockStep(c)
  PROVE  [LockView!Next]_LockView!vars
<1> USE LockAssumption, StageOf DEF IInv
<1>1. KVStore' = KVStore
  BY DEF CallAcquire, CallRelease, LockStep, AcquireGot, AcquirePutDone, ReleaseGot, ReleaseDone,
         Start, Continue
<1>2. Stages[c] = Stage(pc[c])
  BY DEF Stages
<1>3. ASSUME NEW to, pc' = [pc EXCEPT ![c] = to], Stage(to) = Stage(pc[c])
      PROVE  UNCHANGED LockView!vars
  <2>1. Stages' = Stages
    BY <1>2, <1>3, StageMoves DEF Stages
  <2> QED
    BY <1>1, <2>1 DEF Stages, LockView!vars
<1>4. CASE CallAcquire(c)
  <2>1. pc[c] = "out" /\ pc' = [pc EXCEPT ![c] = "acquireGet"]
    BY <1>4 DEF CallAcquire, Goto
  <2>2. Stages' = [Stages EXCEPT ![c] = "acquiring"]
    <3>1. Stages' = [Stages EXCEPT ![c] = Stage("acquireGet")]
      BY <2>1, StageMoves, Zenon
    <3> QED
      BY <3>1, Zenon
  <2> QED
    BY <1>1, <1>2, <2>1, <2>2, Zenon DEF Stages, LockView!Next, LockView!CallAcquire, LockView!Move
<1>5. CASE CallRelease(c)
  <2>1. pc[c] = "held" /\ pc' = [pc EXCEPT ![c] = "releaseGet"]
    BY <1>5 DEF CallRelease
  <2>2. Stages' = [Stages EXCEPT ![c] = "releasing"]
    <3>1. Stages' = [Stages EXCEPT ![c] = Stage("releaseGet")]
      BY <2>1, StageMoves, Zenon
    <3> QED
      BY <3>1, Zenon
  <2> QED
    BY <1>1, <1>2, <2>1, <2>2, Zenon DEF Stages, LockView!Next, LockView!CallRelease, LockView!Move
<1>6. ASSUME pc[c] \in {"acquireGet", "acquirePut"}, lock.value = c, pc' = [pc EXCEPT ![c] = "held"]
      PROVE  LockView!Next
  <2>1. Stages' = [Stages EXCEPT ![c] = "inside"]
    <3>1. Stages' = [Stages EXCEPT ![c] = Stage("held")]
      BY <1>6, StageMoves, Zenon
    <3> QED
      BY <3>1, Zenon
  <2> QED
    BY <1>1, <1>2, <1>6, <2>1, Zenon DEF Stages, lock, LockView!Next, LockView!AcquireReturns, LockView!Move
<1>7. CASE AcquireGot(c)
  <2>1. pc[c] = "acquireGet" /\ Returned(c, "Get")
    BY <1>7 DEF AcquireGot
  <2>2. CASE clerk[c].reply.value = c /\ pc' = [pc EXCEPT ![c] = "held"]
    BY <1>6, <2>1, <2>2 DEF GetReplies
  <2>3. CASE pc' = [pc EXCEPT ![c] = "acquirePut"]
    BY <1>3, <2>1, <2>3, Zenon
  <2>4. CASE pc' = [pc EXCEPT ![c] = "acquireGet"]
    BY <1>3, <2>1, <2>4, Zenon
  <2> QED
    BY <1>7, <2>2, <2>3, <2>4 DEF AcquireGot, Goto
<1>8. CASE AcquirePutDone(c)
  <2>1. pc[c] = "acquirePut" /\ Returned(c, "Put")
    BY <1>8 DEF AcquirePutDone
  <2>2. CASE PutResult(c) = "OK" /\ pc' = [pc EXCEPT ![c] = "held"]
    BY <1>6, <2>1, <2>2 DEF PutReplies, PutResult
  <2>3. CASE pc' = [pc EXCEPT ![c] = "acquireGet"]
    BY <1>3, <2>1, <2>3, Zenon
  <2> QED
    BY <1>8, <2>2, <2>3 DEF AcquirePutDone, Goto
<1>9. CASE ReleaseGot(c)
  BY <1>3, <1>9, Zenon DEF ReleaseGot, Goto
<1>10. CASE ReleaseDone(c)
  <2>1. pc[c] = "releasePut" /\ Returned(c, "Put") /\ pc' = [pc EXCEPT ![c] = "out"]
    BY <1>10 DEF ReleaseDone, Goto
  <2>2. lock.value # c
    BY <2>1 DEF PutReplies, Requests, TypeOK, KVTypeOK, ClerkState, Entry, lock
  <2>3. Stages' = [Stages EXCEPT ![c] = "outside"]
    <3>1. Stages' = [Stages EXCEPT ![c] = Stage("out")]
      BY <2>1, StageMoves, Zenon
    <3> QED
      BY <3>1, Zenon
  <2> QED
    BY <1>1, <1>2, <2>1, <2>2, <2>3, Zenon DEF Stages, lock, LockView!Next, LockView!ReleaseReturns, LockView!Move
<1> QED
  BY <1>4, <1>5, <1>7, <1>8, <1>9, <1>10 DEF LockStep

(* Every step of the implementation is a step of the lock or a stutter.    *)
LEMMA NextView ==
  ASSUME Disciplined
  PROVE  IInv /\ [Next]_vars => [LockView!Next]_LockView!vars
<1> SUFFICES ASSUME IInv, [Next]_vars PROVE [LockView!Next]_LockView!vars
  OBVIOUS
<1> USE LockAssumption, Holders DEF IInv
<1>1. ASSUME KVStore' = KVStore, pc' = pc PROVE UNCHANGED LockView!vars
  <2>1. Stages' = Stages
    BY <1>1 DEF Stages, Stage
  <2> QED
    BY <1>1, <2>1 DEF Stages, LockView!vars
<1>2. CASE UNCHANGED vars \/ AllDone
  BY <1>1, <1>2 DEF vars, AllDone
<1>3. ASSUME NEW c \in Clients, HandleGet(c) \/ CallFails(c) \/ CallAbandoned(c), UNCHANGED lockVars
      PROVE  UNCHANGED LockView!vars
  BY <1>1, <1>3 DEF HandleGet, CallFails, CallAbandoned, lockVars
<1>4. ASSUME NEW c \in Clients, HandlePut(c), UNCHANGED lockVars
      PROVE  [LockView!Next]_LockView!vars
  <2>1. /\ clerk[c].op = "Put" /\ clerk[c].key = lockname /\ pc' = pc
        /\ lock \in Entry /\ clerk[c].version \in Nat /\ clerk[c].version <= lock.version
    BY <1>4 DEF HandlePut, OnlyLockname, Requests, TypeOK, KVTypeOK, lock, ClerkState, lockVars
  <2>2. PutErr(lock, clerk[c].version) = IF clerk[c].version = lock.version THEN "OK" ELSE "ErrVersion"
    BY <2>1, PutErrOfSeenVersion
  <2>3. CASE clerk[c].version = lock.version
    <3>1. KVStore' = [KVStore EXCEPT ![lockname] =
                        [value |-> clerk[c].value, version |-> lock.version + 1]]
      BY <1>4, <2>1, <2>2, <2>3 DEF HandlePut, PutEntry, lock
    <3> QED
      BY <2>1, <2>3, <3>1, EffectView, Zenon DEF LockView!Next
  <2>4. CASE clerk[c].version # lock.version
    <3>1. KVStore' = [KVStore EXCEPT ![lockname] = lock]
      BY <1>4, <2>1, <2>2, <2>4 DEF HandlePut, PutEntry, lock
    <3> QED
      BY <1>1, <2>1, <3>1 DEF lock, TypeOK, KVTypeOK
  <2> QED
    BY <2>3, <2>4
<1>5. ASSUME NEW q \in late, HandleLate(q), UNCHANGED lockVars
      PROVE  [LockView!Next]_LockView!vars
  <2>1. /\ q.key = lockname /\ q.clnt \in Clients /\ pc' = pc
        /\ lock \in Entry /\ q.version \in Nat /\ q.version <= lock.version
    BY <1>5 DEF HandleLate, OnlyLockname, Requests, TypeOK, KVTypeOK, lock, PutRequest, lockVars
  <2>2. PutErr(lock, q.version) = IF q.version = lock.version THEN "OK" ELSE "ErrVersion"
    BY <2>1, PutErrOfSeenVersion
  <2>3. CASE q.version = lock.version
    <3>1. KVStore' = [KVStore EXCEPT ![lockname] =
                        [value |-> q.value, version |-> lock.version + 1]]
      BY <1>5, <2>1, <2>2, <2>3 DEF HandleLate, PutEntry, lock
    <3>2. clerk[q.clnt].op = "Put" /\ clerk[q.clnt].value = q.value /\ clerk[q.clnt].version = q.version
      BY <1>5, <2>3 DEF Requests
    <3> QED
      BY <2>1, <2>3, <3>1, <3>2, EffectView, Zenon DEF LockView!Next
  <2>4. CASE q.version # lock.version
    <3>1. KVStore' = [KVStore EXCEPT ![lockname] = lock]
      BY <1>5, <2>1, <2>2, <2>4 DEF HandleLate, PutEntry, lock
    <3> QED
      BY <1>1, <2>1, <3>1 DEF lock, TypeOK, KVTypeOK
  <2> QED
    BY <2>3, <2>4
<1> QED
  BY <1>2, <1>3, <1>4, <1>5, ClientStepView DEF Next, RPCStep

(* Acquire and Release implement the abstract lock: every Put that takes   *)
(* effect, late or not, hands the lock to a client that is acquiring or    *)
(* takes it from one that is releasing, and they return only afterwards.   *)
THEOREM LockRefinement ==
  ASSUME Disciplined
  PROVE  Spec => ImplementsLock
<1>1. Init => LockView!Init
  BY StageOf, LockAssumption DEF Init, KVInit, ZeroEntry, LockView!Init
<1>2. IInv /\ [Next]_vars => [LockView!Next]_LockView!vars
  BY NextView
<1> QED
  BY <1>1, <1>2, Invariance, PTL DEF Spec, ImplementsLock, LockView!Spec
=============================================================================
