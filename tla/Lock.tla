-------------------------------- MODULE Lock -------------------------------
(***************************************************************************)
(* The distributed lock of src/src/kvsrv1/lock/lock.go, on top of the      *)
(* clerks and the server of KVService.  A client's holderID is the client  *)
(* itself: RandValue(12) is taken to give distinct clients distinct ids.   *)
(* The step that ends a Get or a Put includes what Acquire or Release does *)
(* next, up to and including the start of its next RPC; the sleep of a     *)
(* client that finds the lock taken is left out.                           *)
(***************************************************************************)
EXTENDS KVService

CONSTANTS
  lockname,     \* the key of the lock
  MaxRounds,    \* bound: Releases per client
  Disciplined   \* clients release only a lock they hold

ASSUME LockAssumption ==
  /\ lockname \in Keys
  /\ Clients \subseteq Values /\ Empty \notin Clients
  /\ MaxRounds \in Nat
  /\ Disciplined \in BOOLEAN

VARIABLES
  pc,           \* where each client is in Acquire or Release
  rounds        \* number of Releases each client has called

lockVars == <<pc, rounds>>
vars == <<KVStore, clerk, late, pc, rounds>>

Init ==
  /\ KVInit
  /\ pc = [c \in Clients |-> "out"]
  /\ rounds = [c \in Clients |-> 0]

Goto(c, label) == pc' = [pc EXCEPT ![c] = label] /\ UNCHANGED rounds

-----------------------------------------------------------------------------
(* Lock.Acquire.                                                           *)

CallAcquire(c) ==
  /\ pc[c] = "out"
  /\ rounds[c] < MaxRounds
  /\ Start(c, GetOp(lockname))
  /\ Goto(c, "acquireGet")

\* Mutation of AcquireGot: the value of an existing key is not looked at.
AcquireGotBlindly(c) ==
  /\ pc[c] = "acquireGet"
  /\ Returned(c, "Get")
  /\ Continue(c, PutOp(lockname, c, clerk[c].reply.version))
  /\ Goto(c, "acquirePut")

\* Mutation of AcquireGot: a client does not recognise its own id.
AcquireGotNotMine(c) ==
  LET got == clerk[c].reply
      free == got.err # "OK" \/ got.value = Empty
  IN
  /\ pc[c] = "acquireGet"
  /\ Returned(c, "Get")
  /\ IF free THEN Continue(c, PutOp(lockname, c, got.version)) /\ Goto(c, "acquirePut")
             ELSE Continue(c, GetOp(lockname)) /\ Goto(c, "acquireGet")

AcquireGot(c) ==
  LET got == clerk[c].reply IN
  /\ pc[c] = "acquireGet"
  /\ Returned(c, "Get")
  /\ \/ /\ got.err # "OK"
        /\ Continue(c, PutOp(lockname, c, 0))
        /\ Goto(c, "acquirePut")
     \/ /\ got.err = "OK" /\ got.value = c
        /\ Continue(c, NoOp)
        /\ Goto(c, "held")
     \/ /\ got.err = "OK" /\ got.value = Empty
        /\ Continue(c, PutOp(lockname, c, got.version))
        /\ Goto(c, "acquirePut")
     \/ /\ got.err = "OK" /\ got.value \notin {c, Empty}
        /\ Continue(c, GetOp(lockname))
        /\ Goto(c, "acquireGet")

\* Mutation of AcquirePutDone: ErrMaybe is taken for success.
AcquirePutMaybe(c) ==
  /\ pc[c] = "acquirePut"
  /\ Returned(c, "Put")
  /\ IF PutResult(c) \in {"OK", "ErrMaybe"}
       THEN Continue(c, NoOp) /\ Goto(c, "held")
       ELSE Continue(c, GetOp(lockname)) /\ Goto(c, "acquireGet")

\* Every result but OK sends Acquire back to its Get.
AcquirePutDone(c) ==
  /\ pc[c] = "acquirePut"
  /\ Returned(c, "Put")
  /\ IF PutResult(c) = "OK"
       THEN Continue(c, NoOp) /\ Goto(c, "held")
       ELSE Continue(c, GetOp(lockname)) /\ Goto(c, "acquireGet")

-----------------------------------------------------------------------------
(* Lock.Release.                                                           *)

CallRelease(c) ==
  /\ pc[c] = "held" \/ (~Disciplined /\ pc[c] = "out")
  /\ rounds[c] < MaxRounds
  /\ Start(c, GetOp(lockname))
  /\ pc' = [pc EXCEPT ![c] = "releaseGet"]
  /\ rounds' = [rounds EXCEPT ![c] = @ + 1]

\* Mutation of ReleaseGot: the Put asks for the version after the one read.
ReleaseGotNext(c) ==
  /\ pc[c] = "releaseGet"
  /\ Returned(c, "Get")
  /\ Continue(c, PutOp(lockname, Empty, clerk[c].reply.version + 1))
  /\ Goto(c, "releasePut")

\* The value that was read is ignored, and so is the error.
ReleaseGot(c) ==
  /\ pc[c] = "releaseGet"
  /\ Returned(c, "Get")
  /\ Continue(c, PutOp(lockname, Empty, clerk[c].reply.version))
  /\ Goto(c, "releasePut")

\* The result of the Put is ignored.
ReleaseDone(c) ==
  /\ pc[c] = "releasePut"
  /\ Returned(c, "Put")
  /\ Continue(c, NoOp)
  /\ Goto(c, "out")

-----------------------------------------------------------------------------
LockStep(c) ==
  \/ AcquireGot(c) \/ AcquirePutDone(c) \/ ReleaseGot(c) \/ ReleaseDone(c)

\* Every client has done its rounds.
AllDone ==
  /\ \A c \in Clients : pc[c] = "out" /\ rounds[c] = MaxRounds
  /\ late = {}
  /\ UNCHANGED vars

Next ==
  \/ \E c \in Clients : \/ CallAcquire(c) \/ CallRelease(c) \/ LockStep(c)
                        \/ RPCStep(c) /\ UNCHANGED lockVars
  \/ \E q \in late : HandleLate(q) /\ UNCHANGED lockVars
  \/ AllDone

Spec == Init /\ [][Next]_vars

\* A request that keeps being sent is executed; of the replies to a request
\* that is sent again and again one arrives (labrpc loses each message with
\* a fixed probability); a client that holds the lock releases it.
Fairness == \A c \in Clients :
  /\ WF_vars((HandleGet(c) \/ HandlePut(c)) /\ UNCHANGED lockVars)
  /\ SF_vars(LockStep(c))
  /\ WF_vars(CallRelease(c))

FairSpec == Spec /\ Fairness

-----------------------------------------------------------------------------
(* Properties.                                                             *)

\* Types, and that a client is inside an RPC exactly while it is in one of
\* the steps of Acquire or Release that wait for one.
TypeOK ==
  /\ KVTypeOK
  /\ pc \in [Clients -> {"out", "acquireGet", "acquirePut", "held", "releaseGet", "releasePut"}]
  /\ rounds \in [Clients -> 0 .. MaxRounds]
  /\ \A c \in Clients : /\ clerk[c].op = "Get" <=> pc[c] \in {"acquireGet", "releaseGet"}
                        /\ clerk[c].op = "Put" <=> pc[c] \in {"acquirePut", "releasePut"}

\* At most one client is between the return of Acquire and its Release.
MutualExclusion == \A c, d \in Clients : pc[c] = "held" /\ pc[d] = "held" => c = d

\* The comments of Release: its Get finds the lock ("Get will always return
\* OK"), its Put returns OK or ErrMaybe, never ErrVersion, and when it
\* returns the lock is no longer the client's.
ReleaseReleases ==
  \A c \in Clients :
    /\ pc[c] = "releaseGet" /\ Returned(c, "Get") => clerk[c].reply.err = "OK"
    /\ pc[c] = "releasePut" /\ Returned(c, "Put") =>
         /\ PutResult(c) \in {"OK", "ErrMaybe"}
         /\ KVStore[lockname].value # c

Stage(label) ==
  CASE label = "out" -> "outside"
    [] label \in {"acquireGet", "acquirePut"} -> "acquiring"
    [] label = "held" -> "inside"
    [] label \in {"releaseGet", "releasePut"} -> "releasing"

\* The lock seen by its users: the owner is the value stored under lockname.
LockView == INSTANCE AbstractLock WITH
  Free <- Empty,
  owner <- KVStore[lockname].value,
  stage <- [c \in Clients |-> Stage(pc[c])]

\* Acquire and Release, over lost, late and repeated Puts, implement the
\* abstract lock: a Put that takes effect is a grant to a client that is
\* acquiring or the release of a client that is releasing.
ImplementsLock == LockView!Spec

\* With holders that release and finitely many rounds of the others, a client
\* in Acquire gets the lock, whatever ErrMaybe it meets on the way.
AcquireReturns ==
  \A c \in Clients : pc[c] \in {"acquireGet", "acquirePut"} ~> pc[c] = "held"

\* The diagram of Release in README.md: if the value read is not the caller's
\* holderID, Release is done without a Put ("val != holderID = already
\* freed"), so that it never frees the lock of another client.
ReleaseFreesOnlyOwn ==
  [][\A c \in Clients :
       (/\ pc[c] = "releasePut" /\ clerk[c].call = "sent" /\ clerk'[c].call = "replied"
        /\ KVStore' # KVStore)
       => KVStore[lockname].value \notin Clients \ {c}]_vars
=============================================================================
