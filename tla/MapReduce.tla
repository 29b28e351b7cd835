----------------------------- MODULE MapReduce -----------------------------
(***************************************************************************)
(* The MapReduce job of src/src/mr: one coordinator process, a set of      *)
(* worker processes and the directory they share.  The coordinator's state *)
(* is guarded by Coordinator.mu, so an RPC handler or a tick of the        *)
(* timeout goroutine is one atomic step.  A worker step is one access to   *)
(* something shared: an RPC, a Glob, the reading of one file, a rename.    *)
(*                                                                         *)
(* A file's contents are the attempt that wrote it, so that an overwrite   *)
(* by a late attempt of the same task is visible; a reduce task's records  *)
(* are the pairs <<map task id, attempt>> whose files it decoded.  The     *)
(* directory holds no mr-* files of an earlier job at the start.           *)
(***************************************************************************)
EXTENDS Integers, FiniteSets

CONSTANTS
  Workers,      \* the worker processes
  NMap,         \* number of input files, hence of map tasks
  NReduce,      \* number of reduce tasks
  MaxAttempt,   \* bound: a live worker's task expires only below this attempt
  MaxCrashes    \* bound: number of worker crashes

ASSUME NMapAssumption == NMap \in Nat \ {0}
ASSUME NReduceAssumption == NReduce \in Nat \ {0}
ASSUME MaxAttemptAssumption == MaxAttempt \in Nat
ASSUME MaxCrashesAssumption == MaxCrashes \in Nat

VARIABLES
  phase,        \* Coordinator.phase
  tasks,        \* Coordinator.mapTasks and .reduceTasks
  up,           \* the coordinator process is running
  worker,       \* what each worker process is doing
  files,        \* published intermediate files: name -> contents
  outputs,      \* published mr-out files: reduce id -> contents
  crashes       \* number of crashes so far

vars == <<phase, tasks, up, worker, files, outputs, crashes>>

-----------------------------------------------------------------------------
(* Tasks, phases and workers.                                              *)

MapIds == 0 .. NMap - 1
ReduceIds == 0 .. NReduce - 1
MapTasks == {<<"map", i>> : i \in MapIds}
ReduceTasks == {<<"reduce", i>> : i \in ReduceIds}
TaskIds == MapTasks \cup ReduceTasks
NoTask == <<"none", 0>>

Task == [state : {"Idle", "InProgress", "Completed"}, attempt : Nat]

PhaseRank(p) == CASE p = "Map" -> 0 [] p = "Reduce" -> 1 [] p = "AllDone" -> 2

\* The tasks Assign hands out, and CheckTimeout expires, in a phase.
PhaseTasks(p) ==
  CASE p = "Map" -> MapTasks [] p = "Reduce" -> ReduceTasks [] p = "AllDone" -> {}

TasksInState(p, s) == {t \in PhaseTasks(p) : tasks[t].state = s}

AllCompleted(ts, T) == \A t \in T : ts[t].state = "Completed"

\* A worker process: the step it is at, the assignment it works on, the next
\* file to publish, the files still to read and the records read so far.
ProcessState ==
  [pc : {"ask", "sleep", "publish", "glob", "read", "report", "gone"},
   task : TaskIds \cup {NoTask}, attempt : Nat, next : 0 .. NReduce,
   todo : SUBSET (MapIds \X ReduceIds), kva : SUBSET (MapIds \X Nat)]

Process(pc, task, attempt) ==
  [pc |-> pc, task |-> task, attempt |-> attempt, next |-> 0, todo |-> {}, kva |-> {}]

Holds(w, t, a) == worker[w].task = t /\ worker[w].attempt = a

\* No running worker works on the current attempt of t any more.
Orphaned(t) == \A w \in Workers : ~Holds(w, t, tasks[t].attempt)

Init ==
  /\ phase = "Map"
  /\ tasks = [t \in TaskIds |-> [state |-> "Idle", attempt |-> 0]]
  /\ up = TRUE
  /\ worker = [w \in Workers |-> Process("ask", NoTask, 0)]
  /\ files = [n \in {} |-> 0]
  /\ outputs = [r \in {} |-> {}]
  /\ crashes = 0

-----------------------------------------------------------------------------
(* Coordinator.Assign, called by a worker at the top of its loop.          *)

AssignTask(w) ==
  /\ up /\ worker[w].pc = "ask"
  /\ \E t \in TasksInState(phase, "Idle") :
       /\ \A u \in TasksInState(phase, "Idle") : t[2] <= u[2]
       /\ tasks' = [tasks EXCEPT ![t].state = "InProgress"]
       /\ worker' = [worker EXCEPT ![w] =
            Process(IF t \in MapTasks THEN "publish" ELSE "glob", t, tasks[t].attempt)]
  /\ UNCHANGED <<phase, up, files, outputs, crashes>>

AssignWait(w) ==
  /\ up /\ worker[w].pc = "ask"
  /\ phase # "AllDone"
  /\ TasksInState(phase, "Idle") = {}
  /\ worker' = [worker EXCEPT ![w] = Process("sleep", NoTask, 0)]
  /\ UNCHANGED <<phase, tasks, up, files, outputs, crashes>>

AssignExit(w) ==
  /\ up /\ worker[w].pc = "ask"
  /\ phase = "AllDone"
  /\ worker' = [worker EXCEPT ![w] = Process("gone", NoTask, 0)]
  /\ UNCHANGED <<phase, tasks, up, files, outputs, crashes>>

Wake(w) ==
  /\ worker[w].pc = "sleep"
  /\ worker' = [worker EXCEPT ![w] = Process("ask", NoTask, 0)]
  /\ UNCHANGED <<phase, tasks, up, files, outputs, crashes>>

-----------------------------------------------------------------------------
(* The worker's map task.  Reading the input, mapf and the temporary files *)
(* are private to the worker; the renames publish partition after          *)
(* partition.                                                              *)

IntermediateName(m, r) == <<m, r>>

\* os.Rename: the name now denotes the new contents, whether it existed or not.
Renamed(fs, name, contents) ==
  [n \in DOMAIN fs \cup {name} |-> IF n = name THEN contents ELSE fs[n]]

\* Mutation of PublishIntermediate: the loop ends after its first partition.
PublishFirstOnly(w) ==
  LET me == worker[w] IN
  /\ me.pc = "publish"
  /\ files' = Renamed(files, IntermediateName(me.task[2], me.next), me.attempt)
  /\ worker' = [worker EXCEPT ![w].pc = "report"]
  /\ UNCHANGED <<phase, tasks, up, outputs, crashes>>

PublishIntermediate(w) ==
  LET me == worker[w] IN
  /\ me.pc = "publish"
  /\ files' = Renamed(files, IntermediateName(me.task[2], me.next), me.attempt)
  /\ worker' = [worker EXCEPT ![w].next = me.next + 1,
                              ![w].pc = IF me.next + 1 = NReduce THEN "report" ELSE "publish"]
  /\ UNCHANGED <<phase, tasks, up, outputs, crashes>>

-----------------------------------------------------------------------------
(* The worker's reduce task.  The pattern mr-*-R also matches mr-out-R of  *)
(* an earlier attempt; its lines "key value" are not JSON objects, so that *)
(* decoding it stops at once and adds no record.                           *)

Glob(w) ==
  LET me == worker[w] IN
  /\ me.pc = "glob"
  /\ worker' = [worker EXCEPT ![w].todo = {n \in DOMAIN files : n[2] = me.task[2]},
                              ![w].pc = "read"]
  /\ UNCHANGED <<phase, tasks, up, files, outputs, crashes>>

ReadIntermediate(w) ==
  LET me == worker[w] IN
  /\ me.pc = "read"
  /\ \E n \in me.todo :
       worker' = [worker EXCEPT ![w].todo = me.todo \ {n},
                                ![w].kva = me.kva \cup {<<n[1], files[n]>>}]
  /\ UNCHANGED <<phase, tasks, up, files, outputs, crashes>>

\* Mutation of PublishOutput: the temporary file is never renamed.
PublishOutputUnrenamed(w) ==
  /\ worker[w].pc = "read"
  /\ worker[w].todo = {}
  /\ worker' = [worker EXCEPT ![w].pc = "report"]
  /\ UNCHANGED <<phase, tasks, up, files, outputs, crashes>>

PublishOutput(w) ==
  LET me == worker[w] IN
  /\ me.pc = "read"
  /\ me.todo = {}
  /\ outputs' = Renamed(outputs, me.task[2], me.kva)
  /\ worker' = [worker EXCEPT ![w].pc = "report"]
  /\ UNCHANGED <<phase, tasks, up, files, crashes>>

-----------------------------------------------------------------------------
(* Coordinator.ReportTaskCompletion.                                       *)

ReportRejected(w) ==
  LET me == worker[w] IN
  /\ up /\ me.pc = "report"
  /\ tasks[me.task].attempt # me.attempt
  /\ worker' = [worker EXCEPT ![w] = Process("ask", NoTask, 0)]
  /\ UNCHANGED <<phase, tasks, up, files, outputs, crashes>>

\* The last completion of a kind moves the job to the next phase, whatever
\* the current phase is.
ReportAccepted(w) ==
  LET me == worker[w]
      kind == IF me.task \in MapTasks THEN MapTasks ELSE ReduceTasks
  IN
  /\ up /\ me.pc = "report"
  /\ tasks[me.task].attempt = me.attempt
  /\ tasks' = [tasks EXCEPT ![me.task].state = "Completed"]
  /\ phase' = IF AllCompleted(tasks', kind)
                THEN IF kind = MapTasks THEN "Reduce" ELSE "AllDone"
                ELSE phase
  /\ worker' = [worker EXCEPT ![w] = Process("ask", NoTask, 0)]
  /\ UNCHANGED <<up, files, outputs, crashes>>

-----------------------------------------------------------------------------
(* The timeout goroutine and the end of the coordinator.                   *)

\* Time is abstracted: an expiry hits any tasks in progress.  The bound keeps
\* the attempts finite and never keeps an orphaned task from expiring.
MayExpire(t) == Orphaned(t) \/ tasks[t].attempt < MaxAttempt

\* Mutation of ExpireTasks: the attempt is not increased.
ExpireSameAttempt(E) ==
  [t \in TaskIds |-> IF t \in E THEN [tasks[t] EXCEPT !.state = "Idle"] ELSE tasks[t]]

ExpireTasks(E) ==
  [t \in TaskIds |-> IF t \in E
                       THEN [state |-> "Idle", attempt |-> tasks[t].attempt + 1]
                       ELSE tasks[t]]

\* Mutation of CheckTimeout: the state of a task is not looked at.
CheckTimeoutAnyState ==
  /\ up
  /\ \E t \in PhaseTasks(phase) : MayExpire(t) /\ tasks' = ExpireTasks({t})
  /\ UNCHANGED <<phase, up, worker, files, outputs, crashes>>

\* Mutation of CheckTimeout: the reduce tasks are forgotten.
CheckTimeoutMapOnly ==
  /\ up
  /\ phase = "Map"
  /\ \E t \in TasksInState(phase, "InProgress") : MayExpire(t) /\ tasks' = ExpireTasks({t})
  /\ UNCHANGED <<phase, up, worker, files, outputs, crashes>>

CheckTimeout ==
  /\ up
  /\ \E E \in SUBSET TasksInState(phase, "InProgress") :
       /\ E # {}
       /\ \A t \in E : MayExpire(t)
       /\ tasks' = ExpireTasks(E)
  /\ UNCHANGED <<phase, up, worker, files, outputs, crashes>>

\* main/mrcoordinator.go: the process leaves some time after Done() is true.
CoordinatorExit ==
  /\ up
  /\ phase = "AllDone"
  /\ up' = FALSE
  /\ UNCHANGED <<phase, tasks, worker, files, outputs, crashes>>

-----------------------------------------------------------------------------
(* The life of a worker process.                                           *)

\* The process dies (mrapps/crash.go calls os.Exit in the middle of a task).
Crash(w) ==
  /\ worker[w].pc # "gone"
  /\ crashes < MaxCrashes
  /\ crashes' = crashes + 1
  /\ worker' = [worker EXCEPT ![w] = Process("gone", NoTask, 0)]
  /\ UNCHANGED <<phase, tasks, up, files, outputs>>

\* call() cannot dial a coordinator that has exited: log.Fatal.
CallFails(w) ==
  /\ ~up
  /\ worker[w].pc \in {"ask", "report"}
  /\ worker' = [worker EXCEPT ![w] = Process("gone", NoTask, 0)]
  /\ UNCHANGED <<phase, tasks, up, files, outputs, crashes>>

\* A new worker process takes the place of one that has left.
Restart(w) ==
  /\ up
  /\ worker[w].pc = "gone"
  /\ worker' = [worker EXCEPT ![w] = Process("ask", NoTask, 0)]
  /\ UNCHANGED <<phase, tasks, up, files, outputs, crashes>>

Terminated ==
  /\ ~up
  /\ \A w \in Workers : worker[w].pc = "gone"
  /\ UNCHANGED vars

-----------------------------------------------------------------------------
WorkerStep(w) ==
  \/ AssignTask(w) \/ AssignWait(w) \/ AssignExit(w) \/ Wake(w)
  \/ PublishIntermediate(w)
  \/ Glob(w) \/ ReadIntermediate(w) \/ PublishOutput(w)
  \/ ReportRejected(w) \/ ReportAccepted(w)
  \/ CallFails(w)

Next ==
  \/ \E w \in Workers : WorkerStep(w) \/ Crash(w) \/ Restart(w)
  \/ CheckTimeout
  \/ CoordinatorExit
  \/ Terminated

Spec == Init /\ [][Next]_vars

\* Every running worker keeps running, the ticker of CheckTimeout never stops
\* before AllDone, and main leaves once Done() is true.  No fairness for
\* Crash and Restart.
Fairness ==
  /\ \A w \in Workers : WF_vars(WorkerStep(w))
  /\ WF_vars(CheckTimeout)
  /\ WF_vars(CoordinatorExit)

FairSpec == Spec /\ Fairness

-----------------------------------------------------------------------------
(* Properties.                                                             *)

\* Every variable keeps its type; in particular every published file has a
\* name the reduce tasks look for.
TypeOK ==
  /\ phase \in {"Map", "Reduce", "AllDone"}
  /\ tasks \in [TaskIds -> Task]
  /\ up \in BOOLEAN
  /\ worker \in [Workers -> ProcessState]
  /\ DOMAIN files \subseteq MapIds \X ReduceIds
  /\ \A n \in DOMAIN files : files[n] \in Nat
  /\ DOMAIN outputs \subseteq ReduceIds
  /\ \A r \in DOMAIN outputs : outputs[r] \in SUBSET (MapIds \X Nat)
  /\ crashes \in 0 .. MaxCrashes

\* The job's phase never goes back, although ReportTaskCompletion sets it
\* without looking at the current one.
PhaseNeverRegresses == [][PhaseRank(phase) <= PhaseRank(phase')]_vars

\* A task that is Completed stays Completed, and no later attempt of it is
\* handed out, whatever expires or reports late.
CompletedIsFinal ==
  [][\A t \in TaskIds : tasks[t].state = "Completed" => tasks'[t] = tasks[t]]_vars

\* ReportTaskCompletion checks the attempt and not the state: still, a report
\* that would be accepted is always about a task in progress, of the current
\* phase, and from the only worker with that assignment.
AcceptedOnlyInProgress ==
  \A w \in Workers :
    LET t == worker[w].task IN
    (t \in TaskIds /\ worker[w].attempt = tasks[t].attempt) =>
       /\ tasks[t].state = "InProgress"
       /\ t \in PhaseTasks(phase)
       /\ \A v \in Workers : Holds(v, t, worker[w].attempt) => v = w

\* Records of every map task, each from exactly one of its attempts.
OncePerMapTask(kva) ==
  /\ {kv[1] : kv \in kva} = MapIds
  /\ \A kv1, kv2 \in kva : kv1[1] = kv2[1] => kv1 = kv2

\* An output file, whichever attempt of the reduce task renamed it into place,
\* holds the records of every map task exactly once, although map attempts
\* publish file by file, may die in between and may overwrite each other.
OutputsComplete == \A r \in DOMAIN outputs : OncePerMapTask(outputs[r])

\* Once a worker can be told to exit, and Done() lets the coordinator leave,
\* every output file is there (TestEarlyExit: "the output should be
\* finalized").
DoneMeansPublished == phase = "AllDone" => DOMAIN outputs = ReduceIds

\* With a worker that does not crash, and workers slower than the timeout only
\* finitely often, the job ends and every process leaves.
JobTerminates == <>[](~up /\ \A w \in Workers : worker[w].pc = "gone")
=============================================================================
