------------------------------- MODULE KVTest ------------------------------
(***************************************************************************)
(* The clients and the checks of the key/value tests                       *)
(* (src/src/kvtest1/kvtest.go) over the server, the clerks and the network *)
(* of KVService: SpawnClientsAndWait runs OneClientPut or OneClientAppend  *)
(* in every client and then CheckPutConcurrent or CheckAppends; or every   *)
(* client runs PutAtLeastOnce and CheckGet on a key of its own.            *)
(*                                                                         *)
(* JSON-encoded values are the tuples they encode.  ts.Fatalf ends the     *)
(* test as failed.  The Json calls of a loop body are its steps.           *)
(***************************************************************************)
EXTENDS KVService, Sequences, FiniteSetsExt

CONSTANTS
  Tester,       \* the clerk of the goroutine that runs the test
  Shared,       \* the key all clients of a test put or append to
  OwnKey,       \* a key per client, for PutAtLeastOnce
  MaxIters,     \* bound: iterations of a client's loop
  MaxVersion    \* bound: a Put for this version or a later one is not lost

ASSUME KVTestAssumption ==
  /\ Tester \in Clients /\ Shared \in Keys /\ OwnKey \in [Clients -> Keys]
  /\ MaxIters \in Nat /\ MaxVersion \in Nat

VARIABLES
  function,     \* what the clients of this test run
  reliable,     \* the network of this test loses nothing
  client,       \* the goroutine of each client: place, iteration, version,
                \* error of the last Put, and its ClntRes
  test,         \* where the test is; "offering": blocked on a send to done
  signals       \* done signals still to send

testVars == <<function, reliable, client, test, signals>>
vars == <<KVStore, clerk, late, function, reliable, client, test, signals>>

Workers == Clients \ {Tester}
KeyOf(c) == IF function = "atLeastOnce" THEN OwnKey[c] ELSE Shared

\* For the appends the test has put the empty list.
Init ==
  /\ function \in {"put", "append", "atLeastOnce"}
  /\ reliable \in BOOLEAN
  /\ KVStore = [k \in Keys |-> IF function = "append" /\ k = Shared
                               THEN [value |-> <<>>, version |-> 1] ELSE ZeroEntry]
  /\ clerk = [c \in Clients |-> NoOp]
  /\ late = {}
  /\ client = [c \in Workers |-> [pc |-> "top", i |-> 0, ver |-> 0, err |-> "none",
                                  Nok |-> 0, Nmaybe |-> 0]]
  /\ test = "sleeping"
  /\ signals = 0

\* The client after an iteration whose Put returned err.
NextIter(me, err) ==
  [me EXCEPT !.pc = "top", !.i = @ + 1,
             !.Nok = IF err = "OK" THEN @ + 1 ELSE @,
             !.Nmaybe = IF err = "ErrMaybe" THEN @ + 1 ELSE @]

Set(c, me) == client' = [client EXCEPT ![c] = me] /\ UNCHANGED <<function, reliable, test, signals>>
Fatal == test' = "failed" /\ UNCHANGED <<function, reliable, client, signals>>

-----------------------------------------------------------------------------
(* OneClientPut and OnePut.                                                *)

PutMine(c, me) == PutOp(KeyOf(c), <<c, me.ver>>, me.ver)

OnePutDone(c) ==
  LET err == PutResult(c) IN
  /\ function = "put" /\ client[c].pc = "put" /\ Returned(c, "Put")
  /\ Continue(c, GetOp(KeyOf(c)))
  /\ IF err \in {"OK", "ErrVersion", "ErrMaybe"}
     THEN Set(c, [client[c] EXCEPT !.pc = "get", !.err = err]) ELSE Fatal

OnePutRead(c) ==
  LET got == clerk[c].reply
      me == [client[c] EXCEPT !.ver = got.version]
      wrong == /\ me.err = "OK" /\ got.version = client[c].ver + 1
               /\ got.value[1] # c /\ got.value[2] # client[c].ver
  IN
  /\ function = "put" /\ client[c].pc = "get" /\ Returned(c, "Get")
  /\ IF got.err # "OK" \/ wrong THEN Continue(c, NoOp) /\ Fatal
     ELSE IF me.err \in {"OK", "ErrMaybe"}
          THEN Continue(c, NoOp) /\ Set(c, NextIter(me, me.err))
          ELSE Continue(c, PutMine(c, me)) /\ Set(c, [me EXCEPT !.pc = "put"])

-----------------------------------------------------------------------------
(* OneClientAppend.                                                        *)

AppendRead(c) ==
  LET got == clerk[c].reply IN
  /\ function = "append" /\ client[c].pc = "get" /\ Returned(c, "Get")
  /\ IF got.err # "OK" THEN Continue(c, NoOp) /\ Fatal
     ELSE /\ Continue(c, PutOp(KeyOf(c), Append(got.value, <<c, client[c].i>>), got.version))
          /\ Set(c, [client[c] EXCEPT !.pc = "put"])

\* Mutation of AppendDone: the client tries again after ErrMaybe.
AppendDoneRetry(c) ==
  /\ function = "append" /\ client[c].pc = "put" /\ Returned(c, "Put")
  /\ IF PutResult(c) = "OK"
     THEN Continue(c, NoOp) /\ Set(c, NextIter(client[c], "OK"))
     ELSE Continue(c, GetOp(KeyOf(c))) /\ Set(c, [client[c] EXCEPT !.pc = "get"])

AppendDone(c) ==
  LET err == PutResult(c) IN
  /\ function = "append" /\ client[c].pc = "put" /\ Returned(c, "Put")
  /\ IF err \in {"OK", "ErrMaybe"}
     THEN Continue(c, NoOp) /\ Set(c, NextIter(client[c], err))
     ELSE Continue(c, GetOp(KeyOf(c))) /\ Set(c, [client[c] EXCEPT !.pc = "get"])

-----------------------------------------------------------------------------
(* PutAtLeastOnce, then CheckGet of what it put.                           *)

Value(c) == <<c, client[c].i>>

PutAtLeastOnce(c) ==
  LET me == client[c]
      err == PutResult(c)
      next == [me EXCEPT !.ver = IF err = "ErrNoKey" THEN @ ELSE @ + 1, !.err = err]
  IN
  /\ function = "atLeastOnce" /\ me.pc = "put" /\ Returned(c, "Put")
  /\ IF err = "OK"
     THEN Continue(c, GetOp(KeyOf(c))) /\ Set(c, [next EXCEPT !.pc = "get"])
     ELSE IF err = "ErrNoKey" /\ me.ver # 0 THEN Continue(c, NoOp) /\ Fatal
          ELSE Continue(c, PutOp(KeyOf(c), Value(c), next.ver)) /\ Set(c, next)

CheckGet(c) ==
  LET got == clerk[c].reply IN
  /\ function = "atLeastOnce" /\ client[c].pc = "get" /\ Returned(c, "Get")
  /\ Continue(c, NoOp)
  /\ IF got.err # "OK" \/ got.value # Value(c) \/ got.version # client[c].ver
     THEN Fatal ELSE Set(c, NextIter(client[c], client[c].err))

-----------------------------------------------------------------------------
(* The loop of a client, and SpawnClientsAndWait.                          *)

\* The select of the loop takes its default only if the test is not at this
\* moment blocked on a send.
Iterate(c) ==
  LET me == client[c] IN
  /\ me.pc = "top" /\ me.i < MaxIters /\ test # "offering"
  /\ CASE function = "put" -> Start(c, PutMine(c, me)) /\ Set(c, [me EXCEPT !.pc = "put"])
       [] function = "append" -> Start(c, GetOp(KeyOf(c))) /\ Set(c, [me EXCEPT !.pc = "get"])
       [] function = "atLeastOnce" ->
            Start(c, PutOp(KeyOf(c), Value(c), me.ver)) /\ Set(c, [me EXCEPT !.pc = "put"])

\* Mutation of TakeSignal: a client takes the signal of another one too.
TakeSignalTwice(c) ==
  /\ test = "offering" /\ client[c].pc = "top"
  /\ client' = [client EXCEPT ![c].pc = "sending"]
  /\ signals' = IF signals = 1 THEN 0 ELSE signals - 2
  /\ test' = "signalling"
  /\ UNCHANGED <<kvVars, function, reliable>>

\* The channel done has no buffer: the client meets the test.
TakeSignal(c) ==
  /\ test = "offering" /\ client[c].pc = "top"
  /\ client' = [client EXCEPT ![c].pc = "sending"]
  /\ signals' = signals - 1
  /\ test' = "signalling"
  /\ UNCHANGED <<kvVars, function, reliable>>

\* The sleep is over, long enough for some client to have finished an
\* iteration; the test has as many signals to send as it spawned clients.
Signal(n) ==
  /\ test = "sleeping" /\ \E c \in Workers : client[c].i > 0
  /\ test' = "signalling"
  /\ signals' = n
  /\ UNCHANGED <<kvVars, function, reliable, client>>

\* The test blocks on the next send.
Offer ==
  /\ test = "signalling" /\ signals > 0
  /\ test' = "offering"
  /\ UNCHANGED <<kvVars, function, reliable, client, signals>>

\* Every client has sent its result.  The check reads the key.
Collect ==
  /\ test = "signalling" /\ signals = 0
  /\ \A c \in Workers : client[c].pc = "sending"
  /\ client' = [c \in Workers |-> [client[c] EXCEPT !.pc = "finished"]]
  /\ IF function = "atLeastOnce"
     THEN test' = "passed" /\ UNCHANGED kvVars
     ELSE test' = "checking" /\ Start(Tester, GetOp(KeyOf(Tester)))
  /\ UNCHANGED <<function, reliable, signals>>

Total(field) == MapThenSumSet(LAMBDA c : client[c][field], Workers)

CheckPutConcurrent(ver0) ==
  IF reliable THEN ver0 = Total("Nok")
              ELSE ver0 <= Total("Nok") + Total("Nmaybe")

CheckAppends(es, ver) ==
  /\ Len(es) + 1 = ver
  /\ \A c \in Workers :
       LET mine == SelectSeq(es, LAMBDA e : e[1] = c)
           expect == IF mine = <<>> THEN 0 ELSE mine[Len(mine)][2] + 1
       IN
       /\ \A i, j \in 1 .. Len(mine) : i < j => mine[i][2] < mine[j][2]
       /\ expect - Len(mine) <= client[c].Nmaybe
       /\ expect <= client[c].Nok + client[c].Nmaybe

Check ==
  LET got == clerk[Tester].reply IN
  /\ test = "checking" /\ Returned(Tester, "Get")
  /\ Continue(Tester, NoOp)
  /\ test' = IF /\ got.err = "OK"
                /\ function = "put" => CheckPutConcurrent(got.version)
                /\ function = "append" => CheckAppends(got.value, got.version)
             THEN "passed" ELSE "failed"
  /\ UNCHANGED <<function, reliable, client, signals>>

-----------------------------------------------------------------------------
WorkerStep(c) ==
  \/ OnePutDone(c) \/ OnePutRead(c) \/ AppendRead(c) \/ AppendDone(c)
  \/ PutAtLeastOnce(c) \/ CheckGet(c) \/ TakeSignal(c)

Rpc(c) ==
  \/ HandleGet(c) \/ HandlePut(c)
  \/ ~reliable /\ clerk[c].version < MaxVersion /\ (CallFails(c) \/ CallAbandoned(c))

Next ==
  \/ test # "failed" /\ \E c \in Workers : Iterate(c) \/ WorkerStep(c)
  \/ \E c \in Clients : Rpc(c) /\ UNCHANGED testVars
  \/ \E q \in late : HandleLate(q) /\ UNCHANGED testVars
  \/ Signal(Cardinality(Workers)) \/ Offer \/ Collect \/ Check

Spec == Init /\ [][Next]_vars

\* A request that keeps being sent is executed, and one of its replies arrives;
\* goroutines run, and the test's sleep ends.
FairSpec ==
  /\ Spec
  /\ \A c \in Clients : WF_vars((HandleGet(c) \/ HandlePut(c)) /\ UNCHANGED testVars)
  /\ \A c \in Workers : SF_vars(WorkerStep(c)) /\ WF_vars(Iterate(c))
  /\ WF_vars(Signal(Cardinality(Workers))) /\ WF_vars(Offer) /\ WF_vars(Collect) /\ SF_vars(Check)

-----------------------------------------------------------------------------
(* Properties.                                                             *)

\* The tests pass: whatever Puts and replies are lost, repeated or late, the
\* server and the clerks give CheckPutConcurrent, CheckAppends, CheckGet and
\* the checks of OnePut what they ask for.
ChecksPass == test # "failed"

\* TestUnreliableNet: "If Clerk.Put returns ErrMaybe, the Put must have
\* happened, since the test uses only one client": here, of the key.
MaybeHappened ==
  function = "atLeastOnce" =>
    \A c \in Workers :
      client[c].pc = "put" /\ Returned(c, "Put") /\ PutResult(c) = "ErrMaybe" =>
        KVStore[KeyOf(c)] = [value |-> Value(c), version |-> clerk[c].version + 1]

\* SpawnClientsAndWait: it hands a signal to every client, though a client in
\* an operation does not listen, and gets a result from each; then the check
\* returns.
TestEnds == <>(test \in {"passed", "failed"})
=============================================================================
