# TLA+ models of the MIT 6.5840 labs in this repository

The repository holds the code of the MIT 6.5840 distributed-systems labs: a
MapReduce job, a versioned key/value server with a distributed lock on top,
the simulated network and the tester they run on, and the skeletons of the Raft
and sharding labs. This directory models the parts that are written, checks them
with TLC on small instances, and proves the central safety properties with TLAPS
for all values of the constants.

Paths below are relative to `src/src/` unless they start with `src/`.

## 1. The system and its parts

| Part | State | Operations | What makes it hard | Module |
|---|---|---|---|---|
| MapReduce coordinator (`mr/coordinator.go`) | phase, per task: state and attempt | `Assign`, `ReportTaskCompletion`, `CheckTimeout`, exit after `Done` | late reports of expired attempts; the phase is set without reading it | `MapReduce` |
| MapReduce worker (`mr/worker.go`) | assignment; the shared directory | publish one file per partition by rename, `Glob`, read file by file, publish the output, report | crash between two renames; two attempts write the same names | `MapReduce` |
| Key/value server (`kvsrv1/server.go`) | key → value and version | `Get`, `Put` | requests that arrive late or twice | `KVService` |
| Clerk (`kvsrv1/client.go`) | the running operation, whether it was retried | `Get`, `Put` with retry, `ErrMaybe` | a lost reply cannot be told from a lost request | `KVService`, `KVClient` |
| Sequential model (`models1/kv.go`) | key → value and version | `Step` | the reference of the linearizability tests | `KVAtomic` |
| Lock (`kvsrv1/lock/lock.go`) | the holder's id under one key | `Acquire`, `Release` | an `ErrMaybe` grab may or may not have succeeded | `Lock`, `AbstractLock` |
| Simulated network (`labrpc/labrpc.go`) | ends, servers, settings; three goroutines per Call | `Call`, `processReq`, `Enable`, `Reliable`, `AddServer`, `DeleteServer`, `Cleanup` | the network's state is read several times during one Call | `LabRPC`, `AtMostOnceRPC` |
| Server life cycle (`tester1/group.go`, `srv.go`, `daemonclnt.go`, `daemonsrv.go`, `persister.go`) | process, network entry, running and saved Persister | `StartServer`, `ShutdownServer` | a handler is running when the Persister is copied | `LabRPC` |
| Socket RPC and demultiplexer (`tester1/demux`, `tester1/sockrpc`) | tags, call map, one connection | `SendReceive`, the client's and the server's reader, `Close` | the connection breaks while calls are entered, answered and failed | `Demux` |
| Links of a group (`tester1/group.go`, `srv.go`) | a flag per server, a link per pair | `connect`, `disconnect`, `Partition`, `MakePartition` | flags and links are changed pair by pair | `GroupNet` |
| Clients of a test (`tester1/clnts.go`) | the servers a client may reach, its ends | ends on demand, `ConnectAll`, `DisconnectAll`, `DeleteClient`, `cleanup` | an end is made after the client was restricted | `Clnts`, `TesterNet` |
| Harness of the Raft tests (`raft1/server.go`, `test.go`, `proxy.go`) | what each server applied, as the tester knows it | `applier`, `applierSnap`, `CheckLogs`, `IngestLog`, `ApplyErr`, `one`, kill, restart | reports of several servers and incarnations in any order | `RaftTest` |
| Harness of the key/value tests (`kvtest1/kvtest.go`) | a goroutine per client, its results | `SpawnClientsAndWait`, `OnePut`, `OneClientAppend`, `PutAtLeastOnce`, the checks | checks that must accept every interleaving of a correct server | `KVTest` |
| Lecture examples (`src/lecutures/crawler.go`, `lec-5-go-pattern/deadlock.go`) | coordinator and workers on a channel | `worker`, `coordinator`, `Schedule` | when may the coordinator stop; who waits for whom | `Web`, `CrawlerChannel`, `Schedule` |
| Shard configurations (`shardkv1/shardcfg/shardcfg.go`) | Num, Shards, Groups | `JoinBalance`, `LeaveBalance`, `Rebalance` | failed calls change the groups all the same; minimal movement | `ShardCfg` |

How they interact: clerks reach the server through `labrpc`. `LabRPC` shows that
`ClientEnd.Call` keeps the contract `AtMostOnceRPC`. `KVService` models one Call
by the steps this contract allows: executed and answered, lost before or after
execution, or abandoned while the request still runs. `Lock` is built on the
steps of `KVService`, and so is `KVTest`: the clerks, the server and the network
are the same actions, composed with the clients and checks of the tests. Between
the network and a server process the tester speaks over a socket; `Demux` shows
that this leg keeps the same contract, `AtMostOnceRPC`. `TesterNet` composes the
links of the servers with the ends of the clerks. The MapReduce job uses Go's own
RPC over a socket.

`PROJECT.json` lists every part; section 7 says what is not modelled and why.

## 2. Modules and how they follow the code

**MapReduce.** `Coordinator.mu` makes each RPC handler and each tick of the
timeout goroutine one step: `AssignTask`, `AssignWait` and `AssignExit` are the three
outcomes of `Assign`; `ReportAccepted` and `ReportRejected` those of
`ReportTaskCompletion`; `CheckTimeout` expires any set of tasks of the current
phase that can be overdue. A worker step is one access to something shared. The
contents of a file are the attempt that wrote it, so that overwriting is visible;
a reduce task collects pairs of map task and attempt. `Crash` and `Restart` are
those of `mrapps/crash.go` and of the loop in the crash test of `mr/mr_test.go`; `CallFails` is a call
to a coordinator that has left, which ends the worker.

**KVService, KVClient, KVAtomic.** `HandleGet` and `HandlePut` are the handlers
under `KVServer.mu`. A missing key is Go's zero entry: entries in the map have a
version of at least 1. `CallFails` and `CallAbandoned` are the two ways in which
a Call returns false; requests in `late` belong to handlers nobody waits for.
`KVClient` lets clients run any operations and keeps a history. `KVAtomic` is the
atomic store the histories must refine. `ahead` remembers the Puts that asked for
a version their key had not reached when they were called, for which the promise
is weaker (point 9 of section 6).

**Lock, AbstractLock.** One action per place where `Acquire` or `Release` gets
the answer of an RPC, including what it does up to its next RPC. The client is
its own `holderID`. `Disciplined` says that clients release only what they hold;
it is false in the run that looks at the other case.

**LabRPC, AtMostOnceRPC.** One server and the ends connected to it. The actions
of a Call are the points where its goroutines touch the network's state or meet
each other: `ReadEndnameInfo`, `DropRequest`, `Dispatch`, `Execute`, `SendReply`,
`ConnectionLost`, `ReceiveAnswer`, `GiveUp` (the poll every 100 ms), `CheckAnswer`
(the last look), `Return`. What a handler does is abstracted to the Call being
recorded in the Persister. The tester's steps are `BootDaemon` (process started
and initialised with the saved state), `AddServer`, `DeleteServer`,
`CheckpointPersister`, `Kill`, in the order of `StartServer` and
`ShutdownServer`. Delays are interleavings.

**ShardCfg.** `AssignUnassigned` and `EvenOut` are the two loops of `Rebalance`,
`Most` and `Least` the results of `analyze`. A `Join` that meets a group it knows
returns false and keeps what it added before, in any order, since Go iterates
over maps in any order; `Leave` likewise in the order of its list.

**Demux.** A caller is an activation of `SendReceive`: `Tag`, `Put` (under the lock
of the call map), `WriteRequest`, `Deliver`. The reader goroutine is `ReadReply`,
or `ReadFails`, `Outstanding`, `FailNext`, `ReaderExits`, in the order of
`DemuxClnt.reader`; `CloseTransport` and `CloseMap` are the two halves of `Close`.
The server reads, serves each request in a goroutine, and stops by `SrvClose` or
with its process. A message is a tag and the caller it belongs to.

**GroupNet, Clnts, TesterNet.** `connected` is the flag array of `ServerGrp`,
`enabled` the set of directed links. `Attach` and `Detach` are `connect` and
`disconnect`. `Partition` is one step per server of its two loops, so that
servers may be seen half-way. `MakePartition` fills the two slices place by place
(`Slot`), including the places that keep Go's zero. In `Clnts` a client has the
ends it made, the names enabled, and those the network holds; it reaches a server
by an end that is both (`Reach`). `narrowed` remembers that `ConnectTo` replaced
its list, `deleted` which ends the network was told to delete. A client that was
deleted may still be in use by a goroutine of the test, as in the tests that kill
a controller, so it goes on making ends. `TesterNet` lets both go on side by side and
remembers the sides of the last `Partition`.

**RaftTest.** The repository's Raft has no bodies. Here it is external: entries
that `Start` accepted are committed in some order and delivered in order (the index
`Start` returns may be any), and a bounded number of deliveries may break that
promise: a wrong command, or a snapshot `ingestSnap` refuses (`RefuseSnapshot`,
`ReportRefused`). Both appliers are modelled
(`snapshots` chooses), each up to its next RPC to the tester; requests wait in
`calls` and are handled in any order, those of a killed server also after its
restart. `one` is `CallOne`, `StartCmd`, `Poll`, `Timeout`, `OneDone`.

**KVTest.** `function` and `reliable`, chosen in `Init`, say what the clients run
and whether the network loses messages. An action is one clerk operation's return
with the code up to the next operation; `ts.Fatalf` sets `test` to "failed".
`Offer` and `TakeSignal` are the rendezvous on the channel that ends a client,
`Signal` and `Collect` the other channel operations of `SpawnClientsAndWait` and
`runClient`. While a signal is on offer, a client that looks must take it.

**Web, CrawlerChannel, Schedule.** The web is any function from pages to links,
some missing. A worker goroutine fetches and then sends its batch; the
coordinator receives a batch, spawns a worker for each new page, and counts.
`Schedule` sends every task before it receives a completion. These three are not
part of a run: everything stated about them is proved.

The `MC*` modules define constants for TLC and nothing else.
Definitions marked "Mutation of X" are faulty variants of X. They are not part
of any specification; each shows that some property notices that fault.

## 3. Runs

| Run | Config | Instance | Checks |
|---|---|---|---|
| `mapreduce` | `MCMapReduce.cfg` | 2 workers, 2 map, 2 reduce tasks, 1 slow attempt per task, 1 crash | `AcceptedOnlyInProgress`, `OutputsComplete`, `DoneMeansPublished`, `PhaseNeverRegresses`, `CompletedIsFinal`, `JobTerminates` |
| `kv_service` | `MCKVClient.cfg` | 2 clients, 2 operations each, 1 key | `AtMostOnce`, `ResultsAreDefinite`, `Linearizable` |
| `lock` | `MCLock.cfg` | 2 clients, 1 round each | `MutualExclusion`, `ReleaseReleases`, `ImplementsLock`, `AcquireReturns` |
| `labrpc` | `MCLabRPC.cfg` | 1 call, 2 ends, 3 incarnations | `AcknowledgedIsDurable`, `ImplementsContract`, `CallReturns` |
| `shardcfg` | `MCShardCfg.cfg` | 6 shards, 3 groups, 4 changes, lists of at most 2 groups to leave | `TypeOK`, `CheckConfig`, `MinimalTransfer` |
| `demux` | `MCDemux.cfg` | 2 callers, 2 closers, 3 tags | `ReplyHasMatchingReq`, `NobodyLeftBehind`, `AnswersAreOwn`, `ImplementsRPC`, `CallsReturn`, `ReaderLeaves` |
| `tester_net` | `MCTesterNet.cfg` | 3 servers, 1 clerk | `ConnectedIsPrecise`, `LeaderInMinority`, `PartitionIsolates`, `ReachesAllowed`, `EndsDeletedOnce`, `ClerksStayOnTheirSide` |
| `raft_test` | `MCRaftTest.cfg` | 2 servers, 2 entries, 2 calls of `one`, 1 kill or 1 wrong delivery | `TypeOK`, `NoFalseAlarm`, `LogsAreCommitted`, `AgreementIsReal`, `ConflictIsReported`, `CommittedIsReported` |
| `kv_test` | `MCKVTest.cfg` | 2 clients and the tester, 2 iterations each, 3 kinds of test, with and without losses | `ChecksPass`, `MaybeHappened`, `TestEnds` |

Type invariants of the modules that have proofs are proved and not run. Three
more runs are expected to be violated; they are the first three points of section 6.

Why the bounds are enough to meet the hard cases. In `mapreduce` a task can be
held by an expired attempt and by its successor at once, either can be half-way
through its renames, and a crash leaves a task behind in either phase. In
`kv_service` one client's retry and late copy can interleave with both Puts of
the other, and each key can pass through three versions. In `lock` a Put that is late, or whose reply is lost, meets the other
client's Acquire and Release; with more clients or rounds the safety properties
are proved.
In `labrpc` the handler of the Call can still be running, or its reply on its
way, when its server has been deleted, killed, and started twice again, and the
tester enables and disables the end in between; several Calls meet only in
the server's state, which the proofs cover for any number of them. In `shardcfg`
there are shard counts that divide evenly by the number of groups (1, 2 and 3 of
6), uneven intermediate states after failed joins and leaves, and the return to
no group; twelve shards and more groups than shards are not reached, so that
`MinimalTransfer` is shown for no more groups than shards only (`CheckConfig` is
proved for any). In `demux`
a reply and a break of the connection race for one caller while another enters
the map, and both closers find it open. In `tester_net` a side of a partition
has one, two, three or no servers, any of which crashes, is restarted and is
partitioned again; with three servers `MakePartition` is exercised at one
odd size only, the proofs cover all. In `raft_test` a snapshot is due at the
first entry, so that a server is restarted from one, receives one from its peer,
and applies a command after one. In `kv_test` each client's Put can be performed
unnoticed while the other's overwrites it.

`MaxAttempt`, `MaxCrashes`, `MaxOps`, `MaxVersion`, `MaxRounds`, `MaxStarts`,
`MaxNum`, `MaxLeave`, `MaxTag`, `MaxIndex`, `MaxTrouble`, `MaxOnes` and `MaxIters` bound
counters that the code does not bound (`Ttag` wraps after 2^32 calls of a connection). Deadlock is checked
in `mapreduce`, `kv_service`, `lock`, `labrpc` and `shardcfg`, where jobs and
clients that are through stutter explicitly. A connection, a network that was
cleaned up and a test that is over really stop; there the liveness properties
take its place.

**Fairness.** `JobTerminates`: every worker that is not crashed goes on, the
timeout goroutine ticks, and the coordinator leaves once the job is done
(weak fairness: goroutines and processes are scheduled). At least one worker is
left, or is restarted, and workers are slower than the timeout only finitely
often (`MaxAttempt`). `AcquireReturns`: a request that keeps being sent is
executed (weak), of the replies to a request that is repeated for ever one
arrives (strong: `labrpc` loses each message with a fixed probability below
one), and holders release. `CallReturns`: the goroutines of a Call run and
handlers return, as the comment in `labrpc.go` demands. `CallsReturn` and
`ReaderLeaves`: callers, closers, the reader and the server's goroutines run
(weak); the server may die or close at any time and need not.
`ConflictIsReported` and `CommittedIsReported`: the appliers run and the tester
handles the requests of servers that are up (weak). `TestEnds`: clients, tester
and handlers run (weak); of the replies to a repeated request one arrives
(strong, as for the lock).

## 4. Proofs

All theorems hold for every value of the constants allowed by the named
assumptions (`NMapAssumption`, `LockAssumption`, `EndsAssumption`, ...), which say
that bounds are natural numbers, that there is at least one task, key or end, and
that clients are distinct from the empty string. Where a theorem needs more it
says so: `Disciplined` for the lock, an odd group (`Odd`) for `MinorityOfOdd`,
`Isolation` and `ClerksStay`, finitely many pages or servers for the lecture
examples. `EverybodyAssumption` of `TesterNet` says that the nil list of a client
is no list of servers. Each proof is by an inductive invariant; its module names
the parts.

**CoordinatorProofs**, about `MapReduce`. `TypeCorrect`, `AcceptedReportsAreCurrent`,
`OutputsAreComplete`, `DoneIsPublished`, `PhaseIsMonotone`, `CompletedStays`. The
code compares only the attempt in a report, so the properties rest on what it does
not check. The inductive invariant says: the current attempt of a task is held by
at most one worker and only while the task is in progress (`Assignment`); the
phase follows from the task states (`PhaseFollowsTasks`); files published by a
worker stay published, and those of a completed task are all there
(`Publication`); the files a reduce worker has still to read and those it has
read make up all map tasks, each once (`Reading`).

**LockProofs.** `TypeCorrect`, `LockIsExclusive`, `ReleaseIsSound`,
`LockRefinement`, each under `ASSUME Disciplined`. Mutual exclusion by itself is
not inductive because of Puts that are still on their way. The invariant adds
that such a Put asks for a version the key has or had, and that one asking for
the current version is a grab of a free lock or the release of the client stored
as the holder, and belongs to an operation that still runs (`Requests`); that
answers to Gets and Puts are no newer than the store, and what they still say
about it (`GetReplies`, `PutReplies`); and that a holder is the client stored
(`Ownership`). `LockRefinement` shows that each step maps to a step of
`AbstractLock` or to a stutter.

**LabRPCProofs.** `TypeCorrect`, `Durable`, `CallContract`. `ShutdownServer` takes
the server from the network before it copies the Persister, and `processReq` looks
at the network after the handler ran. The invariant ties the process, the network
entry and the place in the life cycle together (`Lifecycle`), says how far the
handler is at each place of a Call (`Progress`), and that a positive reply on its
way is about something durable (`Durability`). `CallContract` is the refinement of
`AtMostOnceRPC`.

**KVClientProofs.** `TypeCorrect`, `PutsAtMostOnce`, `DefiniteResults`,
`ServiceIsLinearizable`. `AtMostOnce` is not inductive: nothing in the store says
which copies of a Put are still on their way. The invariant follows a Put by its
value: all its copies ask for one key and one version, which the running
operation or its record remembers (`AllAsked`); a value in the history of a key at
place v+1 was asked for at version v; a Put that was not retried, or was refused,
has no copy left (`Definite`, `OutcomeOf`); operations are numbered per client
(`Numbered`); and a Put that did not ask ahead asks for a version its key has
reached, so that a copy of it that is refused will be refused for ever
(`Reached`). `ServiceIsLinearizable` maps every step to a step of `KVAtomic`: the
effect of a Put is the step of whichever copy the server performs, and by
`Reached` only one that asked ahead can be performed after its clerk returned.

**DemuxProofs.** `TypeCorrect`, `NoUnknownTag`, `NobodyWaits`, `OwnAnswers`,
`DemuxContract`, for any number of callers, closers and tags. The invariant says
that tags are unique (`InUse`, `Unique`); that a caller is in the map or in the
reader's hands from `put` until it is answered, and nobody else is (`Mapped`,
`Awaited`, `Handing`); that while the reader reads, every message on its way leads
to an entry of the map (`InFlight`); and that the map is closed before the reader
collects what is outstanding, so that it collects everything (`Drained`).
`DemuxContract` is the refinement of `AtMostOnceRPC`.

**TesterNetProofs**, about `GroupNet`. `TypeCorrect`, `FlagsArePrecise`, `BothWays`
for groups of any size; `MinorityOfOdd` and `Isolation` for odd sizes. The
invariant for the last two adds, for a `Partition` that is under way, that the
servers already treated have lost their links to the other group and have their
links to the treated servers of their own.

About `Clnts` and the two together: `Composition` shows that the steps of
`TesterNet` are those of `GroupNet` and of `Clnts` side by side, so that what is
proved of one holds in it. `ClerksReach` and `DeletedOnce` hold for any number of
clients, ends and servers. `ReachesAllowed` is not inductive, since a client that
was connected, narrowed or deleted goes on making ends: `ClerkInv` says that the
network holds the ends a client made except the deleted ones, that these were
made before, and that none is deleted before the client is (`Registered`), and
which of them are enabled (`Reaches`).
`ClerksStay` needs both halves. `Partitioned` says that as long as `sides` is not
empty it is the pair of groups of the last `Partition`, which cover the servers
without overlap, that no server has joined or left since, and, once the partition
is through, that the enabled links are those inside the groups.

**RaftTestProofs**, about `RaftTest`, for any number of servers,
entries, calls of `one`, kills and wrong deliveries. `TypeCorrect`: a server has
one live RPC exactly while its applier waits for one, and the RPC carries what the
applier holds (`Protocol`), whatever RPCs of killed processes are on their way.
`TesterLogs` (`LogsAreCommitted`), `OneIsRight` (`AgreementIsReal`) and `NoAlarm`
(`NoFalseAlarm`) rest on

    IInv == /\ Shape
            /\ faults = 0 => Faithful
            /\ faults = 0 /\ ~overtaken => Quiet

`Faithful` holds while Raft has kept its promises: each server's log and snapshot
are prefixes of the committed log at the places its counters say (`Follows`), and
every report on its way, also one of a dead process, is of committed entries
(`Truthful`). That is enough for the first two. It is not for the third: an alarm
is raised when the tester misses an entry before the one that is checked, and a
late `IngestLog` of a dead process makes it miss some (point 6 below). `Quiet`
holds until that happens: the tester has what each applier was told before
(`Settled`), so that the check passes.

**CoordinatorProofs**, about `CrawlerChannel` and `Schedule`. `CompleteCrawl` and
`NoSecondFetch`: n counts the batches to come, a received batch is fetched or about
to be looked at, and only reachable pages are fetched; so n = 0 means that the
fetched set is closed under links. `HangsIfFew` and `ReturnIsSound`: until the last
task is handed out nothing was collected, so that every task handed out keeps a
server of its own.

**ShardCfgProofs.** `TypeCorrect` and `ConfigsAreBalanced`, for any set of groups
and up to 256 shards, the most that `analyze` can count (it starts its search for
the least loaded group at 257). `TypeOK` and `CheckConfig` are inductive together;
what has to be shown is that `Rebalance` returns, and returns a balanced assignment,
from every configuration, also from one that a failed `Join` or `Leave` left. The
two loops are recursive functions in the model, so the module first proves that
such functions exist for any loop (`ForLoop`, `WhileLoop`) and that a loop ends if a
pair of numbers falls in each round (`LoopEnds`). For the loop that moves shards the
pair is the highest load of a group and the number of shards in groups that have it
(`Round`).

**Only model-checked.** Liveness (`JobTerminates`, `AcquireReturns`,
`CallReturns`, `CallsReturn`, `ReaderLeaves`, `ConflictIsReported`,
`CommittedIsReported`, `TestEnds`): fairness and ENABLED are out of the prover's
reach. `MinimalTransfer` of `ShardCfg` compares sums over the groups, which the
provers have no theory of; a proof would have to build one.
`ChecksPass` and `MaybeHappened` of `KVTest` are not proved; what the clerks of that
test rely on is (`KVClientProofs`).

## 5. What the properties say

* `AcceptedOnlyInProgress`: a report the coordinator would accept is about a
  task in progress, of the current phase, from its only worker.
* `OutputsComplete`: every published output holds the records of each map task
  exactly once, from one attempt, whatever attempts overlapped or died.
* `DoneMeansPublished`: nobody is told that the job is over before every output
  is there.
* `PhaseNeverRegresses`, `CompletedIsFinal`: no late report undoes progress.
* `AtMostOnce`: a Put is performed at most once, without any client table at the
  server. `ResultsAreDefinite`: OK and a first-try `ErrVersion` are definite.
  `Linearizable`: every Get, and every Put that asks for a version its key had
  reached, takes effect at one moment between call and return with a result that
  `models1/kv.go` allows. A Put that asks for a version still to come takes effect
  at most once, at the version it asked for, but perhaps after its return or
  after an answer `ErrNoKey` (point 9 of section 6).
* `MutualExclusion`, `ReleaseReleases` (the claims in the comments of `Release`),
  `ImplementsLock`, `AcquireReturns`.
* `AcknowledgedIsDurable`: what a Call that returned true did is in the state the
  next incarnation starts with. `ImplementsContract`: at most one execution per
  Call, and true only with the handler's reply. `CallReturns`.
* `CheckConfig`: a successful join or leave gives every shard a group and loads
  groups evenly, whatever failed calls did before. `MinimalTransfer`: no even
  assignment is reached with fewer moves (compared with all of them).
* `ReplyHasMatchingReq`: the reader never meets an unknown tag (which ends the
  process). `NobodyLeftBehind`: when it has left, nobody waits.
  `AnswersAreOwn`, `ImplementsRPC`, `CallsReturn`, `ReaderLeaves`.
* `ConnectedIsPrecise`: the flags say which links work, except those that
  `Partition` cut. `PartitionIsolates`: whatever went before, `Partition` leaves
  exactly the links inside its two groups. `LeaderInMinority`: the comment of
  `MakePartition`. `LinksSymmetric` (proved): links work both ways or not at all.
* `ReachesAllowed`: a client reaches exactly the servers of its list that it has
  ends to, whenever the ends were made. `EndsDeletedOnce`: the network holds every
  end of a client until the client is deleted, so that `remove` deletes none twice
  (which is fatal), and an end that was deleted does not come back when the client
  goes on calling.
  `ClerksStayOnTheirSide`: a clerk made for one side of a partition reaches
  only servers that hear from each other and not from the other side.
* `NoFalseAlarm`: a Raft that keeps its promises is never blamed.
  `LogsAreCommitted`, `AgreementIsReal`: what the tester holds, and what `one`
  returns, is in the committed log. `ConflictIsReported`: a wrong command does not
  get lost between reports. `CommittedIsReported`.
* `ChecksPass`: no check of the key/value tests fails for the server of the
  repository. `MaybeHappened`: with one client per key `ErrMaybe` means that the
  Put happened, as a comment of the tests says. `TestEnds`.
* `CrawlIsComplete`, `FetchedOnce`, `HangsWithFewServers`, `ReturnsWhenDone`
  (proved).

## 6. Where the code and its documents disagree

1. `lock_release`: `Release` ignores the value it reads, while the diagram in
   `src/README.md` ends it without a Put if the value is not the caller's. A
   client that calls `Release` without holding the lock frees another client's.
2. `kv_model`: `KVServer.Put` answers `ErrNoKey` for a missing key and a version
   other than 0; the sequential model in `models1/kv.go` accepts only `ErrVersion`
   or `ErrMaybe` there. The tests that make such a Put (`kvsrv1/kvsrv_test.go:39`
   and `:88`) expect `ErrNoKey` and do not hand their history to the checker.
3. `labrpc_checkpoint`: the comment in `DaemonSrv.CheckpointPersister` says that
   the server sends no more replies; only its listener is closed, so a running
   handler still replies over the connection the tester has. `processReq` drops
   that reply, and `AcknowledgedIsDurable` holds.

Some more were met while modelling. They limit what the properties above can
say, and have no run of their own:

4. `MakePartition` (`tester1/group.go:309`) with an even number of servers: one
   place of its slices keeps the zero it was made with, so that server 0 is in
   both groups, or the leader is not in a minority. The theorems are for odd
   sizes; the tests use odd sizes.
5. `ConnectTo` (`tester1/clnts.go:90`) replaces the list of a client but leaves the
   ends it made before enabled. `ReachesAllowed` exempts such clients; no test
   calls it.
6. `IngestLog` (`raft1/test.go:203`) does not know the incarnation that sent a
   report. One that is handled after the restart of its server takes back what
   the new incarnation has reported. `NoFalseAlarm` and `CommittedIsReported`
   exempt behaviours in which this has happened.
7. A server that dies between the answer of `CheckLogs` and its `ApplyErr`
   (`raft1/server.go:177`) takes the error with it; `ConflictIsReported` exempts
   kills.
8. `OnePut` compares the entry it reads with `&&` where each field should match
   (`kvtest1/kvtest.go:228`): the check is weaker than it looks. The model has it
   as it is.
9. The sequential model of `models1/kv.go` and the history checker, which takes the
   return of an operation for its end (`kvtest1/porcupine.go`), ask more of a Put
   than the service promises when the Put asks for a version its key has not
   reached. A copy of such a Put can wait in the network until the key comes to
   that version: then it takes effect after the clerk returned `ErrMaybe` or
   `ErrNoKey`, or while the clerk gets `ErrNoKey`. The checker would reject the
   history. `Linearizable` allows it, for these Puts only. The clerks of the tests
   ask for versions they have read, or for version 0, and are not affected.
10. A client that is deleted while a goroutine of the test uses it
   (`shardkv1/test.go:290`) can still make ends, by `makeEnd`
   (`tester1/clnts.go:45`), after `remove` went over its list. Nobody deletes
   those. `ReachesAllowed` says of them that they reach only servers the client is
   allowed; no property says that they go.

## 7. Not modelled, and why

* Raft, the replicated state machine, the fault-tolerant key/value server and the
  sharded service (`raft1/raft.go`, `kvraft1`, `shardkv1` except `shardcfg`): the
  repository holds their skeletons; the bodies are empty.
* In the Raft harness `checkOneLeader`, `checkTerms` and `checkNoLeader`, which sample
  `GetState`, and `wait`: without a Raft they have nothing to be compared with.
* Annotations, the visualization of histories, statistics and time limits of the
  tester: no check of a test depends on them.
* The history checker (an external library) and `labgob` (a wrapper of an
  encoder): `Linearizable` answers the question the first one asks, except for Puts
  that ask for a version still to come (point 9 of section 6); the second has no
  state but a counter of warnings.
* A persisted snapshot that cannot be decoded when a Raft server restarts: the
  snapshots the model saves are those `applierSnap` made.
* In `labrpc` the counters, `LongDelays`, `LongReordering` (delays are
  interleavings); in `sockrpc` the dialing with retries and the accept loop.
* The map and reduce functions of `mrapps`, and grouping by key inside one reduce
  task: private to a worker; the model keeps which attempt's records reach an
  output. The names of temporary files, which `Glob` could match, are abstracted.
* The crawlers `Serial` and `ConcurrentMutex`, and the entry points in `main/`.
* Real time: timeouts are steps that may be taken whenever the code's timer could
  run out.
