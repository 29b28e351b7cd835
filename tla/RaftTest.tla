------------------------------ MODULE RaftTest -----------------------------
(***************************************************************************)
(* The harness of the Raft tests: the server processes that read their     *)
(* Raft's apply channel (rfsrv of src/src/raft1/server.go), the tester     *)
(* they report to by RPC, and the test that calls one, kill and restart    *)
(* (src/src/raft1/test.go, proxy.go).                                      *)
(*                                                                         *)
(* The repository's Raft is a skeleton.  Here Raft is what its interface   *)
(* promises, a committed log that grows, delivered in order, and           *)
(* snapshots, except for a few deliveries: these may skip entries or       *)
(* bring a wrong command or a snapshot that is none, which the tester is   *)
(* there to find.  A report of a server that is killed may be lost, or be  *)
(* handled by the tester after the kill and even after the restart.  An    *)
(* RPC fails only with its server, so ErrRPC reaches nobody.               *)
(***************************************************************************)
EXTENDS Naturals, Sequences, FiniteSets

CONSTANTS
  Servers,
  Cmds,             \* the commands of the test
  None,             \* no command
  SnapShotInterval,
  MaxIndex,         \* bound: length of the log
  MaxTrouble,       \* bound: number of kills and of deliveries against Raft's promises
  MaxOnes           \* bound: number of calls of one

ASSUME RaftTestAssumption ==
  /\ None \notin Cmds
  /\ SnapShotInterval \in Nat \ {0} /\ MaxIndex \in Nat
  /\ MaxTrouble \in Nat /\ MaxOnes \in Nat

VARIABLES
  snapshots,    \* the test runs applierSnap, not applier
  faults,       \* number of deliveries against Raft's promises
  overtaken,    \* a report was handled after the restart of its server
  committed,    \* Raft: the committed log
  proposed,     \* Raft: the entries Start accepted
  sent,         \* Raft: the last index delivered on each apply channel
  snap,         \* the persisted snapshot of each server
  rf,           \* the rfsrv process, per server
  calls,        \* RPCs from the servers, not yet handled by the tester
  logs,         \* raftServer.logs: what the tester knows each server applied
  applyErr,     \* raftServer.applyErr is set
  conflict,     \* some CheckLogs saw two values for an index
  one,          \* the test's call of one()
  kills

raftVars == <<snapshots, committed, proposed>>
serverVars == <<sent, snap, rf>>
testerVars == <<logs, applyErr, conflict, overtaken>>
vars ==
  <<snapshots, faults, overtaken, committed, proposed, sent, snap, rf, calls,
    logs, applyErr, conflict, one, kills>>

Indices == 1 .. MaxIndex
Log == [Indices -> Cmds \cup {None}]
EmptyLog == [k \in Indices |-> None]

Down == [pc |-> "down", index |-> 0, cmd |-> None, err |-> FALSE,
         lastApplied |-> 0, log |-> EmptyLog]

Request(kind, i, k, v, log) ==
  [kind |-> kind, srv |-> i, index |-> k, cmd |-> v, log |-> log, live |-> TRUE]

\* Between two calls of one(), after n of them.
NoOne(n) ==
  [pc |-> "idle", cmd |-> None, need |-> 0, index |-> 0, retry |-> FALSE, n |-> n]

Init ==
  /\ snapshots \in BOOLEAN
  /\ faults = 0
  /\ overtaken = FALSE
  /\ committed = <<>>
  /\ proposed = {}
  /\ sent = [i \in Servers |-> 0]
  /\ snap = [i \in Servers |-> [index |-> 0, log |-> EmptyLog]]
  /\ rf = [i \in Servers |-> [Down EXCEPT !.pc = "idle"]]
  /\ calls = {}
  /\ logs = [i \in Servers |-> EmptyLog]
  /\ applyErr = [i \in Servers |-> FALSE]
  /\ conflict = FALSE
  /\ one = NoOne(0)
  /\ kills = 0

\* ts.Fatalf ends the test and, with it, its servers.
Running == one.pc \notin {"applyError", "mismatch", "noAgreement"}

-----------------------------------------------------------------------------
(* Raft.                                                                   *)

Commit ==
  /\ Running
  /\ \E v \in Cmds : /\ <<Len(committed) + 1, v>> \in proposed
                     /\ committed' = Append(committed, v)
  /\ UNCHANGED <<snapshots, proposed, serverVars, calls, testerVars, one, kills, faults>>

\* Raft delivers command v at index k to server i.
Deliverable(i, k, v) ==
  \/ /\ k = sent[i] + 1 /\ k <= Len(committed) /\ v = committed[k]
     /\ UNCHANGED faults
  \/ /\ k > sent[i] /\ kills + faults < MaxTrouble
     /\ faults' = faults + 1

-----------------------------------------------------------------------------
(* applier and applierSnap.                                                *)

\* A command: the tester is asked to check it, unless its index shows at once
\* that it is out of order.
Apply(i) ==
  /\ rf[i].pc = "idle"
  /\ \E k \in Indices, v \in Cmds :
       LET gap == snapshots /\ k # rf[i].lastApplied + 1 IN
       /\ Deliverable(i, k, v)
       /\ sent' = [sent EXCEPT ![i] = k]
       /\ rf' = [rf EXCEPT ![i].pc = IF gap THEN "checked" ELSE "checking",
                           ![i].index = k, ![i].cmd = v, ![i].err = gap]
       /\ calls' = IF gap THEN calls
                   ELSE calls \cup {Request("CheckLogs", i, k, v, EmptyLog)}
  /\ UNCHANGED <<raftVars, snap, testerVars, one, kills>>

\* Mutation of Ingested: lastApplied is not set.
IngestedAgain(i, sn) ==
  [Down EXCEPT !.pc = "ingesting", !.log = sn.log]

\* ingestSnap
Ingested(i, sn) ==
  [Down EXCEPT !.pc = "ingesting", !.log = sn.log, !.lastApplied = sn.index]

\* A snapshot that Raft received from the leader.
ApplySnapshot(i) ==
  /\ snapshots /\ rf[i].pc = "idle"
  /\ \E j \in Servers :
       /\ snap[j].index > sent[i]
       /\ sent' = [sent EXCEPT ![i] = snap[j].index]
       /\ snap' = [snap EXCEPT ![i] = snap[j]]
       /\ rf' = [rf EXCEPT ![i] = Ingested(i, snap[j])]
       /\ calls' = calls \cup {Request("IngestLog", i, 0, None, snap[j].log)}
  /\ UNCHANGED <<raftVars, testerVars, one, kills, faults>>

\* A snapshot that ingestSnap refuses: nil, not decodable, or of another index.
\* The tester gets the log as it was, and then the error.
RefuseSnapshot(i) ==
  /\ snapshots /\ rf[i].pc = "idle" /\ kills + faults < MaxTrouble
  /\ faults' = faults + 1
  /\ \E k \in Indices : k > sent[i] /\ sent' = [sent EXCEPT ![i] = k]
  /\ rf' = [rf EXCEPT ![i].pc = "ingesting", ![i].err = TRUE]
  /\ calls' = calls \cup {Request("IngestLog", i, 0, None, rf[i].log)}
  /\ UNCHANGED <<raftVars, snap, testerVars, one, kills>>

ReportRefused(i) ==
  /\ rf[i].pc = "refused"
  /\ rf' = [rf EXCEPT ![i].pc = "reporting"]
  /\ calls' = calls \cup {Request("ApplyErr", i, 0, None, EmptyLog)}
  /\ UNCHANGED <<raftVars, sent, snap, testerVars, one, kills, faults>>

\* The answer of CheckLogs is in: extend the log, take a snapshot when it is
\* due, report an error.
Checked(i) ==
  LET k == rf[i].index
      log == IF snapshots THEN [rf[i].log EXCEPT ![k] = rf[i].cmd] ELSE rf[i].log
  IN
  /\ rf[i].pc = "checked"
  /\ rf' = [rf EXCEPT ![i].pc = IF rf[i].err THEN "reporting" ELSE "idle",
                      ![i].log = log,
                      ![i].lastApplied = IF snapshots THEN k ELSE @]
  /\ snap' = IF snapshots /\ (k + 1) % SnapShotInterval = 0
             THEN [snap EXCEPT ![i] = [index |-> k, log |-> log]] ELSE snap
  /\ calls' = IF rf[i].err THEN calls \cup {Request("ApplyErr", i, k, None, EmptyLog)}
              ELSE calls
  /\ UNCHANGED <<raftVars, sent, testerVars, one, kills, faults>>

-----------------------------------------------------------------------------
(* The tester's handlers.  A server that was killed gets no answer.        *)

Answer(r, pc, err) ==
  rf' = IF r.live THEN [rf EXCEPT ![r.srv].pc = pc, ![r.srv].err = err] ELSE rf

\* The commands that servers applied at index k.
Entries(k) == {logs[i][k] : i \in Servers} \ {None}

\* Mutation of Differs: the loop's result is that of a server that agrees.
DiffersFromAll(k, v) == \A j \in Servers : logs[j][k] \notin {None, v}

Differs(k, v) == \E j \in Servers : logs[j][k] \notin {None, v}

\* Mutation of CheckLogs: the entry is stored under the next index.
CheckLogsShifted(r) ==
  LET i == r.srv
      differs == Differs(r.index, r.cmd)
      prevok == r.index > 1 => logs[i][r.index - 1] # None
  IN
  /\ r.kind = "CheckLogs"
  /\ logs' = [logs EXCEPT ![i] = [k \in Indices |-> IF k = r.index + 1 THEN r.cmd ELSE @[k]]]
  /\ conflict' = (conflict \/ Entries(r.index) \ {r.cmd} # {})
  /\ Answer(r, "checked", differs \/ ~prevok)
  /\ UNCHANGED applyErr

\* Mutation of CheckLogs: the handler does not return.
CheckLogsSilent(r) ==
  /\ r.kind = "CheckLogs"
  /\ logs' = [logs EXCEPT ![r.srv][r.index] = r.cmd]
  /\ conflict' = (conflict \/ Entries(r.index) \ {r.cmd} # {})
  /\ UNCHANGED <<rf, applyErr>>

CheckLogs(r) ==
  LET i == r.srv
      differs == Differs(r.index, r.cmd)
      prevok == r.index > 1 => logs[i][r.index - 1] # None
  IN
  /\ r.kind = "CheckLogs"
  /\ logs' = [logs EXCEPT ![i][r.index] = r.cmd]
  /\ conflict' = (conflict \/ Entries(r.index) \ {r.cmd} # {})
  /\ Answer(r, "checked", differs \/ ~prevok)
  /\ UNCHANGED applyErr

\* Mutation of IngestLog: the handler does not return.
IngestLogSilent(r) ==
  /\ r.kind = "IngestLog"
  /\ logs' = [logs EXCEPT ![r.srv] = r.log]
  /\ UNCHANGED <<rf, applyErr, conflict>>

IngestLog(r) ==
  LET err == rf[r.srv].err IN
  /\ r.kind = "IngestLog"
  /\ logs' = [logs EXCEPT ![r.srv] = r.log]
  /\ Answer(r, IF err THEN "refused" ELSE "idle", err)
  /\ UNCHANGED <<applyErr, conflict>>

ApplyErr(r) ==
  /\ r.kind = "ApplyErr"
  /\ applyErr' = [applyErr EXCEPT ![r.srv] = TRUE]
  /\ Answer(r, "idle", FALSE)
  /\ UNCHANGED <<logs, conflict>>

Handle(r) ==
  /\ Running
  /\ calls' = calls \ {r}
  /\ CheckLogs(r) \/ IngestLog(r) \/ ApplyErr(r)
  /\ overtaken' = (overtaken \/ (~r.live /\ rf[r.srv].pc # "down"))
  /\ UNCHANGED <<raftVars, sent, snap, one, kills, faults>>

\* The connection of a killed server breaks before the tester reads this.
Lose(r) ==
  /\ Running /\ ~r.live
  /\ calls' = calls \ {r}
  /\ UNCHANGED <<raftVars, serverVars, testerVars, one, kills, faults>>

-----------------------------------------------------------------------------
(* The test: kill, restart and one.                                        *)

Kill(i) ==
  /\ one.pc = "idle" /\ rf[i].pc # "down" /\ kills + faults < MaxTrouble
  /\ kills' = kills + 1
  /\ rf' = [rf EXCEPT ![i] = Down]
  /\ calls' = {IF r.srv = i THEN [r EXCEPT !.live = FALSE] ELSE r : r \in calls}
  /\ UNCHANGED <<raftVars, sent, snap, testerVars, one, faults>>

\* newRfsrv: Raft and the server start from the persisted snapshot, if any.
Restart(i) ==
  /\ one.pc = "idle" /\ rf[i].pc = "down"
  /\ sent' = [sent EXCEPT ![i] = snap[i].index]
  /\ IF snap[i].index > 0
     THEN /\ rf' = [rf EXCEPT ![i] = Ingested(i, snap[i])]
          /\ calls' = calls \cup {Request("IngestLog", i, 0, None, snap[i].log)}
     ELSE rf' = [rf EXCEPT ![i].pc = "idle"] /\ UNCHANGED calls
  /\ UNCHANGED <<raftVars, snap, testerVars, one, kills, faults>>

CallOne ==
  /\ one.pc = "idle" /\ one.n < MaxOnes
  /\ \E v \in Cmds, n \in 1 .. Cardinality(Servers), retry \in BOOLEAN :
       one' = [pc |-> "trying", cmd |-> v, need |-> n, index |-> 0, retry |-> retry,
               n |-> one.n + 1]
  /\ UNCHANGED <<raftVars, serverVars, calls, testerVars, kills, faults>>

\* A server that is up and claims to be leader takes the command.  One that was
\* deposed may give it an index where something else is committed already.
StartCmd ==
  /\ one.pc = "trying"
  /\ \E i \in Servers : rf[i].pc # "down"
  /\ \E k \in Indices :
       /\ proposed' = IF k > Len(committed) THEN proposed \cup {<<k, one.cmd>>} ELSE proposed
       /\ one' = [one EXCEPT !.pc = "waiting", !.index = k]
  /\ UNCHANGED <<snapshots, committed, serverVars, calls, testerVars, kills, faults>>

\* nCommitted
NCommitted(k) == Cardinality({i \in Servers : logs[i][k] # None})

\* Mutation of Agreed: cmd1 is not compared with cmd.
AgreedOnAny == NCommitted(one.index) >= one.need

Agreed == NCommitted(one.index) >= one.need /\ Entries(one.index) = {one.cmd}

\* A pass of the loop that waits for agreement: nCommitted ends the test if a
\* server reported an error or two servers differ.
Poll ==
  /\ one.pc = "waiting"
  /\ \/ /\ \E i \in Servers : applyErr[i]
        /\ one' = [one EXCEPT !.pc = "applyError"]
     \/ /\ \A i \in Servers : ~applyErr[i]
        /\ Cardinality(Entries(one.index)) > 1
        /\ one' = [one EXCEPT !.pc = "mismatch"]
     \/ /\ \A i \in Servers : ~applyErr[i]
        /\ Agreed
        /\ one' = [one EXCEPT !.pc = "returned"]
  /\ UNCHANGED <<raftVars, serverVars, calls, testerVars, kills, faults>>

\* Two seconds without agreement, or ten seconds in all.
Timeout ==
  /\ \/ one.pc = "waiting" /\ one.retry /\ one' = [one EXCEPT !.pc = "trying", !.index = 0]
     \/ /\ one.pc = "trying" \/ (one.pc = "waiting" /\ ~one.retry)
        /\ one' = [one EXCEPT !.pc = "noAgreement", !.index = 0]
  /\ UNCHANGED <<raftVars, serverVars, calls, testerVars, kills, faults>>

\* The test goes on after one() returned.
OneDone ==
  /\ one.pc = "returned"
  /\ one' = NoOne(one.n)
  /\ UNCHANGED <<raftVars, serverVars, calls, testerVars, kills, faults>>

-----------------------------------------------------------------------------
Server(i) ==
  /\ Running
  /\ Apply(i) \/ ApplySnapshot(i) \/ RefuseSnapshot(i) \/ ReportRefused(i) \/ Checked(i)

Next ==
  \/ Commit
  \/ \E i \in Servers : Server(i) \/ Kill(i) \/ Restart(i)
  \/ \E r \in calls : Handle(r) \/ Lose(r)
  \/ CallOne \/ StartCmd \/ Poll \/ Timeout \/ OneDone

Spec == Init /\ [][Next]_vars

\* The appliers run, the tester runs a goroutine per request, and Raft delivers.
FairSpec ==
  /\ Spec
  /\ \A i \in Servers : /\ WF_vars(Server(i))
                        /\ WF_vars(\E r \in calls : r.srv = i /\ r.live /\ Handle(r))

-----------------------------------------------------------------------------
(* Properties.                                                             *)

\* Types; a server waits for an answer exactly while its RPC is open.
TypeOK ==
  /\ committed \in Seq(Cmds) /\ proposed \subseteq Indices \X Cmds
  /\ sent \in [Servers -> 0 .. MaxIndex]
  /\ snap \in [Servers -> [index : 0 .. MaxIndex, log : Log]]
  /\ logs \in [Servers -> Log] /\ applyErr \in [Servers -> BOOLEAN]
  /\ \A i \in Servers :
       rf[i].pc \in {"checking", "ingesting", "reporting"} <=> \E r \in calls : r.srv = i /\ r.live

\* A Raft that keeps its promises passes: neither the appliers' "apply out of
\* order", nor CheckLogs' comparison, nor nCommitted's ever reports an error,
\* over kills, restarts from snapshots and snapshots received while running.
\* It does not hold once a report of a server was overtaken by its restart: the
\* handlers do not know the incarnation, and a late IngestLog takes back what
\* the new one has reported.
NoFalseAlarm ==
  faults = 0 /\ ~overtaken =>
    /\ \A i \in Servers : ~applyErr[i] /\ ~rf[i].err
    /\ one.pc \notin {"applyError", "mismatch"}

\* "copy of server's committed entries": what the tester holds for a server is
\* committed, though it is merged from CheckLogs and IngestLog of several
\* incarnations and late reports.
LogsAreCommitted ==
  faults = 0 =>
    \A i \in Servers, k \in Indices :
      logs[i][k] # None => k <= Len(committed) /\ committed[k] = logs[i][k]

\* one: the index it returns is the place of the command in the log, also when
\* an earlier Start of the same command was given up.
AgreementIsReal ==
  faults = 0 /\ one.pc = "returned" =>
    one.index <= Len(committed) /\ committed[one.index] = one.cmd

\* CheckLogs, applier and ApplyErr: once two servers applied different commands
\* at an index the error is recorded in the tester, however
\* the reports of the servers interleave, unless a crash interrupts them.
ConflictIsReported ==
  conflict ~> (kills > 0 \/ ~Running \/ \E i \in Servers : applyErr[i])

\* An entry that is committed reaches the tester's log of all servers that are
\* up: no applier stalls on an answer, a snapshot or a restart.
CommittedIsReported ==
  \A k \in Indices :
    k <= Len(committed) ~>
      \/ ~Running \/ faults > 0 \/ overtaken
      \/ \A i \in Servers : logs[i][k] # None \/ rf[i].pc = "down"
=============================================================================
