------------------------- MODULE CoordinatorProofs -------------------------
(***************************************************************************)
(* Proofs about the programs in which a coordinator hands tasks to workers: *)
(* the MapReduce job of src/src/mr, and the crawler and the scheduler of    *)
(* src/lecutures (CrawlerChannel, Schedule).                                *)
(*                                                                          *)
(* MapReduce, for every number of workers, tasks, attempts and crashes.     *)
(* The inductive invariant IInv adds what makes the properties true: which  *)
(* step a worker with a task can be at (Structure), that the current        *)
(* attempt of a task is held by at most one worker and only while the task  *)
(* is in progress (Assignment), how the phase follows the task states       *)
(* (PhaseFollowsTasks), and what is already published when a worker has     *)
(* come to a step (Publication, Reading).                                   *)
(***************************************************************************)
EXTENDS MapReduce, TLAPS

Structure ==
  \A w \in Workers :
    /\ worker[w].pc \in {"ask", "sleep", "gone"} <=> worker[w].task = NoTask
    /\ worker[w].pc = "publish" => worker[w].task \in MapTasks /\ worker[w].next < NReduce
    /\ worker[w].pc \in {"glob", "read"} => worker[w].task \in ReduceTasks
    /\ worker[w].pc = "report" /\ worker[w].task \in MapTasks => worker[w].next = NReduce
    /\ worker[w].pc = "glob" => worker[w].kva = {}

Assignment ==
  /\ \A w \in Workers : worker[w].task \in TaskIds =>
       /\ worker[w].attempt <= tasks[worker[w].task].attempt
       /\ worker[w].attempt = tasks[worker[w].task].attempt =>
            tasks[worker[w].task].state = "InProgress"
  /\ \A v, w \in Workers :
       worker[v].task \in TaskIds /\ Holds(w, worker[v].task, worker[v].attempt) => v = w

PhaseFollowsTasks ==
  /\ phase = "Map" =>
       /\ ~AllCompleted(tasks, MapTasks)
       /\ \A t \in ReduceTasks : tasks[t].state = "Idle" /\ tasks[t].attempt = 0
  /\ phase # "Map" => AllCompleted(tasks, MapTasks)
  /\ phase = "Reduce" => ~AllCompleted(tasks, ReduceTasks)
  /\ phase = "AllDone" => AllCompleted(tasks, ReduceTasks)

Publication ==
  /\ \A t \in MapTasks : tasks[t].state = "Completed" =>
       \A r \in ReduceIds : <<t[2], r>> \in DOMAIN files
  /\ \A w \in Workers : worker[w].task \in MapTasks =>
       \A r \in ReduceIds : r < worker[w].next => <<worker[w].task[2], r>> \in DOMAIN files
  /\ \A t \in ReduceTasks : tasks[t].state = "Completed" => t[2] \in DOMAIN outputs
  /\ \A w \in Workers : worker[w].task \in ReduceTasks /\ worker[w].pc = "report" =>
       worker[w].task[2] \in DOMAIN outputs

Reading ==
  \A w \in Workers : worker[w].pc = "read" =>
    /\ worker[w].todo \subseteq DOMAIN files
    /\ \A n \in worker[w].todo : n[2] = worker[w].task[2]
    /\ \A m \in MapIds : \/ <<m, worker[w].task[2]>> \in worker[w].todo
                         \/ \E kv \in worker[w].kva : kv[1] = m
    /\ \A n \in worker[w].todo : \A kv \in worker[w].kva : kv[1] # n[1]
    /\ \A kv1, kv2 \in worker[w].kva : kv1[1] = kv2[1] => kv1 = kv2

IInv ==
  /\ TypeOK
  /\ Structure
  /\ Assignment
  /\ PhaseFollowsTasks
  /\ Publication
  /\ Reading
  /\ OutputsComplete

-----------------------------------------------------------------------------
(* Task identifiers: the two kinds are disjoint and neither holds NoTask.  *)
LEMMA TaskFacts ==
  /\ \A t \in MapTasks : t = <<"map", t[2]>> /\ t[2] \in MapIds /\ t \notin ReduceTasks
  /\ \A t \in ReduceTasks : t = <<"reduce", t[2]>> /\ t[2] \in ReduceIds
  /\ TaskIds = MapTasks \cup ReduceTasks
  /\ NoTask \notin TaskIds
  /\ MapTasks # ReduceTasks
  /\ MapIds \subseteq Nat /\ ReduceIds \subseteq Nat
<1>1. /\ \A t \in MapTasks : t = <<"map", t[2]>> /\ t[2] \in MapIds /\ t \notin ReduceTasks
      /\ \A t \in ReduceTasks : t = <<"reduce", t[2]>> /\ t[2] \in ReduceIds
  BY DEF MapTasks, ReduceTasks
<1>2. NoTask \notin TaskIds
  BY DEF NoTask, TaskIds, MapTasks, ReduceTasks
<1>3. MapTasks # ReduceTasks
  <2>1. 0 \in MapIds
    BY NMapAssumption DEF MapIds
  <2>2. <<"map", 0>> \in MapTasks
    BY <2>1 DEF MapTasks
  <2> QED
    BY <1>1, <2>2
<1> QED
  BY <1>1, <1>2, <1>3 DEF TaskIds, MapIds, ReduceIds

(* The initial state satisfies the inductive invariant.                    *)
LEMMA InitInvariant == Init => IInv
<1> SUFFICES ASSUME Init PROVE IInv
  OBVIOUS
<1> USE TaskFacts, NMapAssumption, NReduceAssumption, MaxCrashesAssumption DEF Init
<1>1. TypeOK
  BY DEF TypeOK, Task, Process, ProcessState, NoTask
<1>2. Structure
  BY DEF Structure, Process
<1>3. Assignment
  BY DEF Assignment, Holds, Process
<1>4. PhaseFollowsTasks
  <2>1. <<"map", 0>> \in MapTasks
    BY DEF MapTasks, MapIds
  <2> QED
    BY <2>1 DEF PhaseFollowsTasks, AllCompleted
<1>5. Publication
  BY DEF Publication, Process
<1>6. Reading
  BY DEF Reading, Process
<1>7. OutputsComplete
  BY DEF OutputsComplete
<1> QED
  BY <1>1, <1>2, <1>3, <1>4, <1>5, <1>6, <1>7 DEF IInv

-----------------------------------------------------------------------------
(* A worker that gives up its assignment, or has none, and goes to the top *)
(* of its loop, to sleep or away.                                          *)
LEMMA WithoutTask ==
  ASSUME IInv, NEW w \in Workers, NEW pc \in {"ask", "sleep", "gone"},
         worker' = [worker EXCEPT ![w] = Process(pc, NoTask, 0)],
         UNCHANGED <<phase, tasks, up, files, outputs>>,
         crashes' \in 0 .. MaxCrashes
  PROVE  IInv'
<1> USE TaskFacts DEF IInv, Process, ProcessState
<1>1. TypeOK'
  BY NReduceAssumption DEF TypeOK
<1>2. Structure'
  BY DEF Structure, TypeOK
<1>3. Assignment'
  BY DEF Assignment, Holds, TypeOK
<1>4. PhaseFollowsTasks'
  BY DEF PhaseFollowsTasks, AllCompleted
<1>5. Publication'
  BY DEF Publication, TypeOK
<1>6. Reading'
  BY DEF Reading, TypeOK
<1>7. OutputsComplete'
  BY DEF OutputsComplete
<1> QED
  BY <1>1, <1>2, <1>3, <1>4, <1>5, <1>6, <1>7

(* Assign: the current attempt of an idle task has no holder yet.          *)
LEMMA AssignTaskInv ==
  ASSUME IInv, NEW w \in Workers, AssignTask(w)
  PROVE  IInv'
<1> USE TaskFacts DEF IInv, Process, ProcessState
<1>1. PICK t \in TasksInState(phase, "Idle") :
        /\ tasks' = [tasks EXCEPT ![t].state = "InProgress"]
        /\ worker' = [worker EXCEPT ![w] =
             Process(IF t \in MapTasks THEN "publish" ELSE "glob", t, tasks[t].attempt)]
  BY Zenon DEF AssignTask
<1>2. UNCHANGED <<phase, up, files, outputs, crashes>>
  BY DEF AssignTask
<1>3. t \in TaskIds /\ tasks[t].state = "Idle"
  BY <1>1 DEF TasksInState, PhaseTasks, TypeOK
<1>4. t \in ReduceTasks => phase = "Reduce"
  BY <1>1 DEF TasksInState, PhaseTasks, TypeOK
<1>5. TypeOK'
  BY <1>1, <1>2, <1>3, NReduceAssumption DEF TypeOK, Task
<1>6. Structure'
  BY <1>1, <1>3, NReduceAssumption DEF Structure, TypeOK
<1>7. Assignment'
  BY <1>1, <1>3 DEF Assignment, Holds, TypeOK, Task
<1>8. PhaseFollowsTasks'
  BY <1>1, <1>2, <1>3, <1>4 DEF PhaseFollowsTasks, AllCompleted, TypeOK, Task
<1>9. Publication'
  BY <1>1, <1>2, <1>3 DEF Publication, TypeOK, Task
<1>10. Reading'
  BY <1>1, <1>2 DEF Reading, TypeOK
<1>11. OutputsComplete'
  BY <1>2 DEF OutputsComplete
<1> QED
  BY <1>5, <1>6, <1>7, <1>8, <1>9, <1>10, <1>11

(* The rename of one partition of a map task.                              *)
LEMMA PublishIntermediateInv ==
  ASSUME IInv, NEW w \in Workers, PublishIntermediate(w)
  PROVE  IInv'
<1> DEFINE me == worker[w]
           name == <<me.task[2], me.next>>
<1> USE TaskFacts DEF IInv, ProcessState
<1>1. /\ me.pc = "publish" /\ me.task \in MapTasks /\ me.next \in ReduceIds
      /\ me.attempt \in Nat /\ me.next + 1 \in 0 .. NReduce
  BY NReduceAssumption DEF PublishIntermediate, Structure, TypeOK, ReduceIds
<1>2. /\ DOMAIN files' = DOMAIN files \cup {name}
      /\ \A n \in DOMAIN files' : files'[n] = IF n = name THEN me.attempt ELSE files[n]
  BY DEF PublishIntermediate, Renamed, IntermediateName
<1>3. worker' = [worker EXCEPT ![w] =
        [me EXCEPT !.next = me.next + 1,
                   !.pc = IF me.next + 1 = NReduce THEN "report" ELSE "publish"]]
  BY Zenon DEF PublishIntermediate, TypeOK
<1>4. UNCHANGED <<phase, tasks, up, outputs, crashes>>
  BY DEF PublishIntermediate
<1>5. TypeOK'
  <2>1. me \in ProcessState
    BY DEF TypeOK
  <2>2. [me EXCEPT !.next = me.next + 1,
                   !.pc = IF me.next + 1 = NReduce THEN "report" ELSE "publish"] \in ProcessState
    BY <1>1, <2>1, Zenon
  <2>3. worker' \in [Workers -> ProcessState]
    BY <1>3, <2>2 DEF TypeOK
  <2>4. name \in MapIds \X ReduceIds
    BY <1>1
  <2> QED
    BY <1>1, <1>2, <1>4, <2>3, <2>4 DEF TypeOK
<1>6. Structure'
  BY <1>1, <1>3, NReduceAssumption DEF Structure, TypeOK, ReduceIds
<1>7. Assignment'
  BY <1>3, <1>4 DEF Assignment, Holds, TypeOK
<1>8. PhaseFollowsTasks'
  BY <1>4 DEF PhaseFollowsTasks, AllCompleted
<1>9. Publication'
  <2>1. \A v \in Workers : worker'[v].task = worker[v].task
    BY <1>3 DEF TypeOK
  <2>2. ASSUME NEW v \in Workers, worker[v].task \in MapTasks,
               NEW r \in ReduceIds, r < worker'[v].next
        PROVE  <<worker[v].task[2], r>> \in DOMAIN files'
    <3>1. CASE r < worker[v].next
      BY <2>2, <3>1, <1>2 DEF Publication
    <3>2. CASE ~(r < worker[v].next)
      <4>1. v = w /\ r = me.next
        BY <2>2, <3>2, <1>1, <1>3 DEF TypeOK, ReduceIds
      <4> QED
        BY <4>1, <1>2
    <3> QED
      BY <3>1, <3>2
  <2>3. \A v \in Workers : worker'[v].pc = "report" /\ worker'[v].task \in ReduceTasks =>
          worker[v].pc = "report"
    BY <1>1, <1>3 DEF TypeOK
  <2> QED
    BY <1>2, <1>4, <2>1, <2>2, <2>3 DEF Publication
<1>10. Reading'
  BY <1>1, <1>2, <1>3 DEF Reading, TypeOK
<1>11. OutputsComplete'
  BY <1>4 DEF OutputsComplete
<1> QED
  BY <1>5, <1>6, <1>7, <1>8, <1>9, <1>10, <1>11

(* The Glob of a reduce task finds the file of every map task, since a     *)
(* reduce task is handed out only after the map phase.                     *)
LEMMA GlobInv ==
  ASSUME IInv, NEW w \in Workers, Glob(w)
  PROVE  IInv'
<1> DEFINE me == worker[w]
           found == {n \in DOMAIN files : n[2] = me.task[2]}
<1> USE TaskFacts DEF IInv, ProcessState
<1>1. me.pc = "glob" /\ me.task \in ReduceTasks /\ me.kva = {}
  BY DEF Glob, Structure
<1>2. worker' = [worker EXCEPT ![w] = [me EXCEPT !.todo = found, !.pc = "read"]]
  BY DEF Glob, TypeOK
<1>3. UNCHANGED <<phase, tasks, up, files, outputs, crashes>>
  BY DEF Glob
<1>4. found \in SUBSET (MapIds \X ReduceIds)
  BY DEF TypeOK
<1>5. TypeOK'
  <2>1. me \in ProcessState
    BY DEF TypeOK
  <2>2. [me EXCEPT !.todo = found, !.pc = "read"] \in ProcessState
    BY <1>4, <2>1, Zenon
  <2> QED
    BY <1>2, <1>3, <2>2, Zenon DEF TypeOK
<1>6. \A v \in Workers : /\ worker'[v].task = worker[v].task
                         /\ worker'[v].attempt = worker[v].attempt
                         /\ worker'[v].next = worker[v].next
                         /\ worker'[v].kva = worker[v].kva
                         /\ v # w => worker'[v] = worker[v]
  BY <1>2 DEF TypeOK
<1>7. worker'[w].pc = "read" /\ worker'[w].todo = found
  BY <1>2 DEF TypeOK
<1>8. Structure'
  BY <1>1, <1>6, <1>7 DEF Structure
<1>9. Assignment'
  BY <1>3, <1>6 DEF Assignment, Holds
<1>10. PhaseFollowsTasks'
  BY <1>3 DEF PhaseFollowsTasks, AllCompleted
<1>11. Publication'
  BY <1>3, <1>6, <1>7 DEF Publication
<1>12. Reading'
  <2>1. phase # "Map"
    BY <1>1 DEF Assignment, PhaseFollowsTasks, TypeOK, Task
  <2>2. \A m \in MapIds : <<m, me.task[2]>> \in found
    <3>1. SUFFICES ASSUME NEW m \in MapIds PROVE <<m, me.task[2]>> \in DOMAIN files
      OBVIOUS
    <3>2. <<"map", m>> \in MapTasks
      BY DEF MapTasks
    <3>3. tasks[<<"map", m>>].state = "Completed"
      BY <2>1, <3>2 DEF PhaseFollowsTasks, AllCompleted
    <3>4. me.task[2] \in ReduceIds
      BY <1>1
    <3> QED
      BY <3>2, <3>3, <3>4, Zenon DEF Publication
  <2> QED
    BY <1>1, <1>3, <1>6, <1>7, <2>2 DEF Reading
<1>13. OutputsComplete'
  BY <1>3 DEF OutputsComplete
<1> QED
  BY <1>5, <1>8, <1>9, <1>10, <1>11, <1>12, <1>13

(* Decoding one more intermediate file.                                    *)
LEMMA ReadIntermediateInv ==
  ASSUME IInv, NEW w \in Workers, ReadIntermediate(w)
  PROVE  IInv'
<1> DEFINE me == worker[w]
<1> USE TaskFacts DEF IInv, ProcessState
<1>1. PICK n \in me.todo :
        worker' = [worker EXCEPT ![w] = [me EXCEPT !.todo = me.todo \ {n},
                                                   !.kva = me.kva \cup {<<n[1], files[n]>>}]]
  BY ZenonT(40) DEF ReadIntermediate, TypeOK
<1>2. me.pc = "read" /\ UNCHANGED <<phase, tasks, up, files, outputs, crashes>>
  BY DEF ReadIntermediate
<1>3. /\ n \in DOMAIN files /\ n \in MapIds \X ReduceIds /\ files[n] \in Nat
      /\ n[2] = me.task[2]
  BY <1>2 DEF Reading, TypeOK
<1>4. TypeOK'
  <2>1. me \in ProcessState
    BY DEF TypeOK
  <2>2. [me EXCEPT !.todo = me.todo \ {n}, !.kva = me.kva \cup {<<n[1], files[n]>>}]
          \in ProcessState
    <3>1. <<n[1], files[n]>> \in MapIds \X Nat
      BY <1>3
    <3>2. /\ me.todo \ {n} \in SUBSET (MapIds \X ReduceIds)
          /\ me.kva \cup {<<n[1], files[n]>>} \in SUBSET (MapIds \X Nat)
      BY <2>1, <3>1
    <3> QED
      BY <2>1, <3>2, Zenon
  <2> QED
    BY <1>1, <1>2, <2>2 DEF TypeOK
<1>5. \A v \in Workers : /\ worker'[v].task = worker[v].task
                         /\ worker'[v].attempt = worker[v].attempt
                         /\ worker'[v].next = worker[v].next
                         /\ worker'[v].pc = worker[v].pc
                         /\ v # w => worker'[v] = worker[v]
  BY <1>1 DEF TypeOK
<1>6. worker'[w].todo = me.todo \ {n} /\ worker'[w].kva = me.kva \cup {<<n[1], files[n]>>}
  BY <1>1 DEF TypeOK
<1>7. Structure'
  BY <1>2, <1>5 DEF Structure
<1>8. Assignment'
  BY <1>2, <1>5 DEF Assignment, Holds
<1>9. PhaseFollowsTasks'
  BY <1>2 DEF PhaseFollowsTasks, AllCompleted
<1>10. Publication'
  BY <1>2, <1>5 DEF Publication
<1>11. Reading'
  <2>1. /\ me.todo \subseteq DOMAIN files
        /\ \A k \in me.todo : k[2] = me.task[2]
        /\ \A m \in MapIds : <<m, me.task[2]>> \in me.todo \/ \E kv \in me.kva : kv[1] = m
        /\ \A k \in me.todo : \A kv \in me.kva : kv[1] # k[1]
        /\ \A kv1, kv2 \in me.kva : kv1[1] = kv2[1] => kv1 = kv2
    BY <1>2, Zenon DEF Reading
  <2>2. n = <<n[1], me.task[2]>>
    BY <1>3
  <2>3. \A m \in MapIds : \/ <<m, me.task[2]>> \in worker'[w].todo
                          \/ \E kv \in worker'[w].kva : kv[1] = m
    <3> TAKE m \in MapIds
    <3>1. CASE m = n[1]
      <4>1. <<n[1], files[n]>> \in worker'[w].kva /\ <<n[1], files[n]>>[1] = m
        BY <1>6, <3>1
      <4> QED
        BY <4>1
    <3>2. CASE m # n[1]
      <4>1. <<m, me.task[2]>> # n
        BY <2>2, <3>2
      <4> QED
        BY <1>6, <2>1, <4>1
    <3> QED
      BY <3>1, <3>2
  <2>4. \A k \in worker'[w].todo : k[1] # n[1]
    <3>1. SUFFICES ASSUME NEW k \in me.todo, k[1] = n[1] PROVE k = n
      BY <1>6
    <3>2. k \in MapIds \X ReduceIds /\ k[2] = n[2]
      BY <2>1, <1>3 DEF TypeOK
    <3> QED
      BY <1>3, <3>1, <3>2
  <2>5. \A k \in worker'[w].todo : \A kv \in worker'[w].kva : kv[1] # k[1]
    BY <1>6, <2>1, <2>4
  <2>6. \A kv1, kv2 \in worker'[w].kva : kv1[1] = kv2[1] => kv1 = kv2
    BY <1>6, <2>1
  <2>7. /\ worker'[w].todo \subseteq DOMAIN files'
        /\ \A k \in worker'[w].todo : k[2] = worker'[w].task[2]
    BY <1>2, <1>5, <1>6, <2>1
  <2> QED
    BY <1>2, <1>5, <2>3, <2>5, <2>6, <2>7 DEF Reading
<1>12. OutputsComplete'
  BY <1>2 DEF OutputsComplete
<1> QED
  BY <1>4, <1>7, <1>8, <1>9, <1>10, <1>11, <1>12

(* The map tasks among the records of a reduce task.                       *)
LEMMA MapTasksOf ==
  ASSUME NEW K, NEW M, \A kv \in K : kv[1] \in M, \A m \in M : \E kv \in K : kv[1] = m
  PROVE  {kv[1] : kv \in K} = M
OBVIOUS

(* The rename of an output built from all files the Glob found.            *)
LEMMA PublishOutputInv ==
  ASSUME IInv, NEW w \in Workers, PublishOutput(w)
  PROVE  IInv'
<1> DEFINE me == worker[w]
<1> USE TaskFacts DEF IInv, ProcessState
<1>1. me.pc = "read" /\ me.task \in ReduceTasks /\ me.todo = {}
  BY DEF PublishOutput, Structure
<1>2. worker' = [worker EXCEPT ![w] = [me EXCEPT !.pc = "report"]]
  BY DEF PublishOutput, TypeOK
<1>3. UNCHANGED <<phase, tasks, up, files, crashes>>
  BY DEF PublishOutput
<1>4. /\ DOMAIN outputs' = DOMAIN outputs \cup {me.task[2]}
      /\ \A r \in DOMAIN outputs' :
           outputs'[r] = IF r = me.task[2] THEN me.kva ELSE outputs[r]
  BY DEF PublishOutput, Renamed
<1>5. OncePerMapTask(me.kva)
  <2>1. \A kv \in me.kva : kv[1] \in MapIds
    BY DEF TypeOK
  <2>2. \A m \in MapIds : \E kv \in me.kva : kv[1] = m
    BY <1>1, Zenon DEF Reading
  <2>3. {kv[1] : kv \in me.kva} = MapIds
    BY ONLY <2>1, <2>2, MapTasksOf
  <2> QED
    BY <1>1, <2>3 DEF OncePerMapTask, Reading
<1>6. TypeOK'
  BY <1>1, <1>2, <1>3, <1>4 DEF TypeOK
<1>7. Structure'
  BY <1>1, <1>2 DEF Structure, TypeOK
<1>8. Assignment'
  BY <1>2, <1>3 DEF Assignment, Holds, TypeOK
<1>9. PhaseFollowsTasks'
  BY <1>3 DEF PhaseFollowsTasks, AllCompleted
<1>10. Publication'
  BY <1>1, <1>2, <1>3, <1>4 DEF Publication, TypeOK
<1>11. Reading'
  BY <1>2, <1>3 DEF Reading, TypeOK
<1>12. OutputsComplete'
  BY <1>4, <1>5 DEF OutputsComplete
<1> QED
  BY <1>6, <1>7, <1>8, <1>9, <1>10, <1>11, <1>12

(* An accepted report: the reporter held the only current assignment, so   *)
(* the task was in progress and its phase the current one.                 *)
LEMMA AcceptedReport ==
  ASSUME IInv, NEW w \in Workers, worker[w].task \in TaskIds,
         worker[w].attempt = tasks[worker[w].task].attempt
  PROVE  /\ tasks[worker[w].task].state = "InProgress"
         /\ worker[w].task \in MapTasks => phase = "Map"
         /\ worker[w].task \in ReduceTasks => phase = "Reduce"
         /\ worker[w].task \in PhaseTasks(phase)
<1>1. tasks[worker[w].task].state = "InProgress"
  BY DEF IInv, Assignment
<1>2. worker[w].task \in MapTasks => phase = "Map"
  BY <1>1 DEF IInv, PhaseFollowsTasks, AllCompleted
<1>3. worker[w].task \in ReduceTasks => phase = "Reduce"
  BY <1>1 DEF IInv, PhaseFollowsTasks, AllCompleted, TypeOK
<1> QED
  BY <1>1, <1>2, <1>3, TaskFacts DEF PhaseTasks

LEMMA ReportAcceptedInv ==
  ASSUME IInv, NEW w \in Workers, ReportAccepted(w)
  PROVE  IInv'
<1> DEFINE t == worker[w].task
           kind == IF t \in MapTasks THEN MapTasks ELSE ReduceTasks
<1> USE TaskFacts DEF IInv, ProcessState
<1>1. /\ worker[w].pc = "report" /\ t \in TaskIds /\ worker[w].attempt = tasks[t].attempt
  BY DEF ReportAccepted, Structure, TypeOK
<1>2. /\ worker' = [worker EXCEPT ![w] = Process("ask", NoTask, 0)]
      /\ tasks' = [tasks EXCEPT ![t].state = "Completed"]
      /\ phase' = IF AllCompleted(tasks', kind)
                    THEN IF kind = MapTasks THEN "Reduce" ELSE "AllDone"
                    ELSE phase
      /\ UNCHANGED <<up, files, outputs, crashes>>
  BY DEF ReportAccepted
<1>3. /\ tasks[t].state = "InProgress"
      /\ t \in MapTasks => phase = "Map"
      /\ t \in ReduceTasks => phase = "Reduce"
  BY <1>1, AcceptedReport
<1>4. TypeOK'
  BY <1>1, <1>2, NReduceAssumption DEF TypeOK, Task, Process
<1>5. Structure'
  BY <1>2 DEF Structure, TypeOK, Process
<1>6. Assignment'
  BY <1>1, <1>2 DEF Assignment, Holds, TypeOK, Task, Process
<1>7. PhaseFollowsTasks'
  <2>1. \A u \in TaskIds : u # t => tasks'[u] = tasks[u]
    BY <1>2 DEF TypeOK
  <2>2. CASE t \in MapTasks
    <3>1. \A u \in ReduceTasks : tasks'[u].state = "Idle" /\ tasks'[u].attempt = 0
      BY <1>3, <2>1, <2>2 DEF PhaseFollowsTasks
    <3>2. ~AllCompleted(tasks', ReduceTasks)
      <4>1. <<"reduce", 0>> \in ReduceTasks
        BY NReduceAssumption DEF ReduceTasks, ReduceIds
      <4> QED
        BY <3>1, <4>1 DEF AllCompleted
    <3> QED
      BY <1>2, <1>3, <2>2, <3>1, <3>2 DEF PhaseFollowsTasks
  <2>3. CASE t \in ReduceTasks
    <3>1. AllCompleted(tasks', MapTasks)
      BY <1>3, <2>1, <2>3 DEF PhaseFollowsTasks, AllCompleted
    <3> QED
      BY <1>2, <1>3, <2>3, <3>1 DEF PhaseFollowsTasks
  <2> QED
    BY <1>1, <2>2, <2>3
<1>8. Publication'
  <2>1. \A v \in Workers : /\ v # w => worker'[v] = worker[v]
                           /\ v = w => worker'[v].task = NoTask
    BY <1>2 DEF TypeOK, Process
  <2>2. \A u \in TaskIds : u # t => tasks'[u] = tasks[u]
    BY <1>2 DEF TypeOK
  <2>3. t \in MapTasks => \A r \in ReduceIds : <<t[2], r>> \in DOMAIN files
    <3>1. t \in MapTasks => worker[w].next = NReduce
      BY <1>1 DEF Structure
    <3> QED
      BY <3>1, NReduceAssumption DEF Publication, ReduceIds
  <2>4. t \in ReduceTasks => t[2] \in DOMAIN outputs
    BY <1>1 DEF Publication
  <2> QED
    BY <1>1, <1>2, <2>1, <2>2, <2>3, <2>4 DEF Publication
<1>9. Reading'
  BY <1>2 DEF Reading, TypeOK, Process
<1>10. OutputsComplete'
  BY <1>2 DEF OutputsComplete
<1> QED
  BY <1>4, <1>5, <1>6, <1>7, <1>8, <1>9, <1>10

(* A tick of the timeout goroutine: the holders of the expired attempts    *)
(* fall behind the attempt of their task.                                  *)
LEMMA CheckTimeoutInv ==
  ASSUME IInv, CheckTimeout
  PROVE  IInv'
<1> USE TaskFacts DEF IInv, ProcessState
<1>1. PICK E \in SUBSET TasksInState(phase, "InProgress") : tasks' = ExpireTasks(E)
  BY DEF CheckTimeout
<1>2. UNCHANGED <<phase, up, worker, files, outputs, crashes>>
  BY DEF CheckTimeout
<1>3. \A t \in E : t \in TaskIds /\ t \in PhaseTasks(phase) /\ tasks[t].state = "InProgress"
  BY <1>1 DEF TasksInState, PhaseTasks, TypeOK
<1>4. \A t \in TaskIds :
        /\ t \in E => tasks'[t].state = "Idle" /\ tasks'[t].attempt = tasks[t].attempt + 1
        /\ t \notin E => tasks'[t] = tasks[t]
  BY <1>1 DEF ExpireTasks
<1>5. TypeOK'
  BY <1>1, <1>2 DEF TypeOK, Task, ExpireTasks
<1>6. Structure'
  BY <1>2 DEF Structure
<1>7. Assignment'
  BY <1>2, <1>4 DEF Assignment, Holds, TypeOK, Task
<1>8. PhaseFollowsTasks'
  BY <1>2, <1>3, <1>4 DEF PhaseFollowsTasks, AllCompleted, PhaseTasks, TypeOK
<1>9. Publication'
  BY <1>2, <1>4 DEF Publication
<1>10. Reading'
  BY <1>2 DEF Reading
<1>11. OutputsComplete'
  BY <1>2 DEF OutputsComplete
<1> QED
  BY <1>5, <1>6, <1>7, <1>8, <1>9, <1>10, <1>11

(* A step that leaves the job, the workers and the directory alone.        *)
LEMMA SameState ==
  ASSUME IInv, TypeOK', UNCHANGED <<phase, tasks, worker, files, outputs>>
  PROVE  IInv'
<1>1. Structure'
  BY DEF IInv, Structure
<1>2. Assignment'
  BY DEF IInv, Assignment, Holds
<1>3. PhaseFollowsTasks'
  BY DEF IInv, PhaseFollowsTasks, AllCompleted
<1>4. Publication'
  BY DEF IInv, Publication
<1>5. Reading'
  BY DEF IInv, Reading
<1>6. OutputsComplete'
  BY DEF IInv, OutputsComplete, OncePerMapTask
<1> QED
  BY <1>1, <1>2, <1>3, <1>4, <1>5, <1>6 DEF IInv

-----------------------------------------------------------------------------
(* Every step preserves the inductive invariant.                           *)
LEMMA NextInvariant == IInv /\ [Next]_vars => IInv'
<1> SUFFICES ASSUME IInv, [Next]_vars PROVE IInv'
  OBVIOUS
<1> USE MaxCrashesAssumption
<1>1. ASSUME NEW w \in Workers,
             \/ AssignWait(w) \/ AssignExit(w) \/ Wake(w) \/ ReportRejected(w)
             \/ CallFails(w) \/ Crash(w) \/ Restart(w)
      PROVE  IInv'
  <2>1. PICK pc \in {"ask", "sleep", "gone"} :
          worker' = [worker EXCEPT ![w] = Process(pc, NoTask, 0)]
    BY <1>1 DEF AssignWait, AssignExit, Wake, ReportRejected, CallFails, Crash, Restart
  <2>2. UNCHANGED <<phase, tasks, up, files, outputs>>
    BY <1>1 DEF AssignWait, AssignExit, Wake, ReportRejected, CallFails, Crash, Restart
  <2>3. crashes' \in 0 .. MaxCrashes
    BY <1>1 DEF AssignWait, AssignExit, Wake, ReportRejected, CallFails, Crash, Restart,
                IInv, TypeOK
  <2> QED
    BY <2>1, <2>2, <2>3, WithoutTask, Zenon
<1>2. CASE CoordinatorExit
  <2>1. up' \in BOOLEAN /\ UNCHANGED <<phase, tasks, worker, files, outputs, crashes>>
    BY <1>2, Zenon DEF CoordinatorExit
  <2>2. TypeOK'
    BY <2>1 DEF IInv, TypeOK
  <2> QED
    BY <2>1, <2>2, SameState
<1>3. CASE UNCHANGED vars
  <2>1. UNCHANGED <<phase, tasks, worker, files, outputs>>
    BY <1>3 DEF vars
  <2>2. TypeOK'
    BY <1>3 DEF vars, IInv, TypeOK
  <2> QED
    BY <2>1, <2>2, SameState
<1>4. CASE Terminated
  BY <1>3, <1>4 DEF Terminated
<1> QED
  BY <1>1, <1>2, <1>3, <1>4, AssignTaskInv, PublishIntermediateInv, GlobInv,
     ReadIntermediateInv, PublishOutputInv, ReportAcceptedInv, CheckTimeoutInv
     DEF Next, WorkerStep

(* IInv holds in every reachable state of the job.                         *)
THEOREM Invariance == Spec => []IInv
  BY InitInvariant, NextInvariant, PTL DEF Spec

(* Every variable of the coordinator, the workers and the directory keeps  *)
(* its type.                                                               *)
THEOREM TypeCorrect == Spec => []TypeOK
<1>1. IInv => TypeOK
  BY DEF IInv
<1> QED
  BY <1>1, Invariance, PTL

(* A report that ReportTaskCompletion would accept is always the only one  *)
(* for a task in progress of the current phase.                            *)
THEOREM AcceptedReportsAreCurrent == Spec => []AcceptedOnlyInProgress
<1>1. IInv => AcceptedOnlyInProgress
  BY AcceptedReport DEF IInv, Assignment, AcceptedOnlyInProgress
<1> QED
  BY <1>1, Invariance, PTL

(* Every mr-out file that exists holds the records of every map task       *)
(* exactly once.                                                           *)
THEOREM OutputsAreComplete == Spec => []OutputsComplete
<1>1. IInv => OutputsComplete
  BY DEF IInv
<1> QED
  BY <1>1, Invariance, PTL

(* When Done() can return true, every mr-out file is published.            *)
THEOREM DoneIsPublished == Spec => []DoneMeansPublished
<1>1. ASSUME IInv, phase = "AllDone" PROVE DOMAIN outputs = ReduceIds
  <2>1. \A r \in ReduceIds : <<"reduce", r>> \in ReduceTasks
    BY DEF ReduceTasks
  <2>2. \A r \in ReduceIds : r \in DOMAIN outputs
    BY <1>1, <2>1, Zenon DEF IInv, PhaseFollowsTasks, AllCompleted, Publication
  <2> QED
    BY <1>1, <2>2, Zenon DEF IInv, TypeOK
<1> QED
  BY <1>1, Invariance, PTL DEF DoneMeansPublished

(* The phase never goes back.                                              *)
THEOREM PhaseIsMonotone == Spec => PhaseNeverRegresses
<1>1. ASSUME IInv, [Next]_vars PROVE [PhaseRank(phase) <= PhaseRank(phase')]_vars
  <2>1. phase \in {"Map", "Reduce", "AllDone"}
    BY <1>1 DEF IInv, TypeOK
  <2>2. ASSUME NEW w \in Workers, ReportAccepted(w)
        PROVE  PhaseRank(phase) <= PhaseRank(phase')
    <3>1. /\ worker[w].task \in MapTasks => phase = "Map"
          /\ worker[w].task \in ReduceTasks => phase = "Reduce"
          /\ worker[w].task \in TaskIds
      <4>1. worker[w].task \in TaskIds /\ worker[w].attempt = tasks[worker[w].task].attempt
        BY <1>1, <2>2 DEF IInv, ReportAccepted, Structure, TypeOK, ProcessState
      <4> QED
        BY <1>1, <4>1, AcceptedReport
    <3> QED
      BY <2>1, <2>2, <3>1, TaskFacts DEF ReportAccepted, PhaseRank
  <2>3. CASE phase' = phase
    BY <2>1, <2>3 DEF PhaseRank
  <2> QED
    BY <1>1, <2>2, <2>3, Zenon DEF Next, vars, WorkerStep, AssignTask, AssignWait, AssignExit, Wake,
       PublishIntermediate, Glob, ReadIntermediate, PublishOutput, ReportRejected,
       CallFails, Crash, Restart, CheckTimeout, CoordinatorExit, Terminated
<1> QED
  BY <1>1, Invariance, PTL DEF Spec, PhaseNeverRegresses

(* A completed task is never reopened, re-expired or re-assigned.          *)
THEOREM CompletedStays == Spec => CompletedIsFinal
<1> DEFINE P == \A t \in TaskIds : tasks[t].state = "Completed" => tasks'[t] = tasks[t]
<1>1. ASSUME IInv, [Next]_vars PROVE [P]_vars
  <2>1. tasks \in [TaskIds -> Task]
    BY <1>1 DEF IInv, TypeOK
  <2>2. ASSUME NEW w \in Workers, AssignTask(w) PROVE P
    BY <2>1, <2>2 DEF AssignTask, TasksInState
  <2>3. ASSUME NEW w \in Workers, ReportAccepted(w) PROVE P
    <3>1. worker[w].task \in TaskIds /\ worker[w].attempt = tasks[worker[w].task].attempt
      BY <1>1, <2>3 DEF IInv, ReportAccepted, Structure, TypeOK, ProcessState
    <3>2. tasks[worker[w].task].state = "InProgress"
      BY <1>1, <3>1, AcceptedReport
    <3> QED
      BY <2>1, <2>3, <3>2 DEF ReportAccepted
  <2>4. CASE CheckTimeout
    BY <2>1, <2>4 DEF CheckTimeout, ExpireTasks, TasksInState
  <2>5. CASE tasks' = tasks
    BY <2>5
  <2> QED
    BY <1>1, <2>2, <2>3, <2>4, <2>5, Zenon DEF Next, vars, WorkerStep, AssignWait, AssignExit, Wake,
       PublishIntermediate, Glob, ReadIntermediate, PublishOutput, ReportRejected,
       CallFails, Crash, Restart, CoordinatorExit, Terminated
<1> QED
  BY <1>1, Invariance, PTL DEF Spec, CompletedIsFinal

-----------------------------------------------------------------------------
(* CrawlerChannel, for every finite web.  The invariant says that the      *)
(* counter n is the number of batches to come, that a batch that was       *)
(* received is fetched or about to be looked at, and that nothing is       *)
(* fetched that cannot be reached.                                         *)

CONSTANTS URLs, Start, Missing, Main

VARIABLES web, sender, n, fetched, pc, todo

Crawl == INSTANCE CrawlerChannel

INSTANCE FiniteSetTheorems

CrawlInv ==
  /\ Crawl!TypeOK
  /\ sender[Main] # "none"
  /\ \A u \in URLs : sender[u] # "none" <=> u \in fetched
  /\ \A s \in Crawl!Senders : sender[s] = "gone" => Crawl!Batch(s) \subseteq fetched \cup todo
  /\ \A T \in SUBSET URLs : Crawl!Closed(T) => fetched \cup todo \subseteq T
  /\ pc # "spawning" => todo = {}
  /\ pc = "returned" => n = 0

\* CrawlerChannel counts with the operators of FiniteSets.
LEMMA CrawlFiniteSets ==
  \A S : Crawl!Cardinality(S) = Cardinality(S) /\ Crawl!IsFiniteSet(S) = IsFiniteSet(S)
  BY Zenon DEF Crawl!Cardinality, Cardinality, Crawl!IsFiniteSet, IsFiniteSet

\* A web has finitely many URLs, so there are finitely many goroutines.
LEMMA LiveFinite ==
  ASSUME Crawl!FiniteWeb
  PROVE  IsFiniteSet(Crawl!Live) /\ Cardinality(Crawl!Live) \in Nat
<1>1. IsFiniteSet(Crawl!Senders)
  BY FS_AddElement, CrawlFiniteSets DEF Crawl!FiniteWeb, Crawl!Senders
<1>2. Crawl!Live \subseteq Crawl!Senders
  BY DEF Crawl!Live
<1> QED
  BY <1>1, <1>2, FS_Subset, FS_CardinalityType

\* What Fetch returns are URLs.
LEMMA BatchType ==
  ASSUME Crawl!FiniteWeb, Crawl!TypeOK, NEW s \in Crawl!Senders
  PROVE  Crawl!Batch(s) \subseteq URLs
<1>1. CASE s = Main
  BY <1>1 DEF Crawl!FiniteWeb, Crawl!Batch
<1>2. CASE s # Main
  <2>1. s \in URLs
    BY <1>2 DEF Crawl!Senders
  <2>2. web[s] \in {Missing} \cup SUBSET URLs
    BY <2>1 DEF Crawl!TypeOK, Crawl!Webs
  <2> QED
    BY <1>2, <2>2 DEF Crawl!Batch, Crawl!Found
<1> QED
  BY <1>1, <1>2

\* The invariant holds at first: one goroutine is about to send.
LEMMA CrawlInitInv ==
  ASSUME Crawl!FiniteWeb
  PROVE  Crawl!Init => CrawlInv
<1> SUFFICES ASSUME Crawl!Init PROVE CrawlInv
  OBVIOUS
<1>1. Crawl!Live = {Main}
  BY Zenon DEF Crawl!FiniteWeb, Crawl!Init, Crawl!Live, Crawl!Senders
<1>2. Cardinality(Crawl!Live) = 1
  BY <1>1, FS_Singleton, Zenon
<1>3. Crawl!TypeOK
  BY <1>2, CrawlFiniteSets DEF Crawl!Init, Crawl!TypeOK, Crawl!Senders
<1>4. /\ sender[Main] = "sending"
      /\ \A u \in URLs : sender[u] = "none"
      /\ \A s \in Crawl!Senders : sender[s] # "gone"
  BY Zenon DEF Crawl!FiniteWeb, Crawl!Init, Crawl!Senders
<1> QED
  BY <1>3, <1>4 DEF CrawlInv, Crawl!Init

\* Every step keeps the invariant: Receive moves a batch from a sender to todo,
\* Spawn from todo to fetched, and n follows the goroutines.
LEMMA CrawlNextInv ==
  ASSUME Crawl!FiniteWeb
  PROVE  CrawlInv /\ [Crawl!Next]_(Crawl!vars) => CrawlInv'
<1> SUFFICES ASSUME CrawlInv, [Crawl!Next]_(Crawl!vars) PROVE CrawlInv'
  OBVIOUS
<1>0. /\ web' = web
      /\ (\A s : Crawl!Batch(s)' = Crawl!Batch(s)) /\ (\A T : Crawl!Closed(T)' = Crawl!Closed(T))
  BY DEF Crawl!Next, Crawl!Coordinator, Crawl!vars, Crawl!Fetch, Crawl!Receive, Crawl!Spawn,
     Crawl!EndBatch, Crawl!Batch, Crawl!Closed, Crawl!Found
<1>f. IsFiniteSet(Crawl!Live) /\ Cardinality(Crawl!Live) \in Nat
  BY LiveFinite
<1> USE DEF CrawlInv
<1>1. ASSUME NEW u \in URLs, Crawl!Fetch(u) PROVE CrawlInv'
  <2>1. sender' = [sender EXCEPT ![u] = "sending"] /\ UNCHANGED <<web, n, fetched, pc, todo>>
    BY <1>1 DEF Crawl!Fetch
  <2>2. Crawl!Live' = Crawl!Live
    BY <1>1, <2>1 DEF Crawl!Fetch, Crawl!Live, Crawl!TypeOK, Crawl!Senders
  <2>3. Crawl!TypeOK'
    BY <2>1, <2>2 DEF Crawl!TypeOK, Crawl!Senders
  <2>4. \A v \in Crawl!Senders : /\ sender'[v] = "none" <=> sender[v] = "none"
                                 /\ sender'[v] = "gone" <=> sender[v] = "gone"
    BY <1>1, <2>1 DEF Crawl!Fetch, Crawl!TypeOK, Crawl!Senders
  <2>5. sender'[Main] # "none" /\ \A v \in URLs : sender'[v] # "none" <=> v \in fetched'
    BY <2>1, <2>4 DEF Crawl!Senders
  <2>6. \A v \in Crawl!Senders : sender'[v] = "gone" => Crawl!Batch(v) \subseteq (fetched \cup todo)'
    BY <2>1, <2>4
  <2> QED
    BY <1>0, <2>1, <2>3, <2>5, <2>6
<1>2. ASSUME NEW s \in Crawl!Senders, Crawl!Receive(s) PROVE CrawlInv'
  <2>1. sender' = [sender EXCEPT ![s] = "gone"] /\ todo' = Crawl!Batch(s)
        /\ pc' = "spawning" /\ UNCHANGED <<web, n, fetched>>
    BY <1>2 DEF Crawl!Receive
  <2>2. Crawl!Live' = Crawl!Live \ {s} /\ s \in Crawl!Live
    BY <1>2, <2>1 DEF Crawl!Receive, Crawl!Live, Crawl!TypeOK
  <2>3. Cardinality(Crawl!Live') = Cardinality(Crawl!Live) - 1
    BY <1>f, <2>2, FS_RemoveElement, Zenon
  <2>4. Crawl!TypeOK'
    BY <1>2, <1>f, <2>1, <2>3, BatchType, CrawlFiniteSets DEF Crawl!TypeOK, Crawl!Receive
  <2>5. \A v \in Crawl!Senders : sender'[v] = IF v = s THEN "gone" ELSE sender[v]
    BY <2>1 DEF Crawl!TypeOK
  <2>6. sender[s] = "sending" /\ todo = {}
    BY <1>2 DEF Crawl!Receive
  <2>7. \A T \in SUBSET URLs : Crawl!Closed(T) => (fetched \cup todo)' \subseteq T
    <3> SUFFICES ASSUME NEW T \in SUBSET URLs, Crawl!Closed(T) PROVE Crawl!Batch(s) \subseteq T
      BY <2>1
    <3>1. CASE s = Main
      BY <3>1 DEF Crawl!Closed, Crawl!Batch
    <3>2. CASE s # Main
      <4>1. s \in fetched
        BY <2>6, <3>2 DEF Crawl!Senders
      <4> QED
        BY <3>2, <4>1 DEF Crawl!Closed, Crawl!Batch
    <3> QED
      BY <3>1, <3>2
  <2>8. \A v \in Crawl!Senders : sender'[v] = "gone" => Crawl!Batch(v) \subseteq (fetched \cup todo)'
    BY <2>1, <2>5, <2>6
  <2>9. sender'[Main] # "none" /\ \A u \in URLs : sender'[u] # "none" <=> u \in fetched'
    BY <2>1, <2>5, <2>6 DEF Crawl!Senders
  <2> QED
    BY <1>0, <2>1, <2>4, <2>7, <2>8, <2>9
<1>3. ASSUME NEW u \in URLs, Crawl!Spawn(u) PROVE CrawlInv'
  <2>1. CASE u \in fetched
    <3>1. todo' = todo \ {u} /\ UNCHANGED <<web, sender, n, fetched, pc>>
      BY <1>3, <2>1 DEF Crawl!Spawn
    <3>2. Crawl!Live' = Crawl!Live /\ (fetched \cup todo)' = fetched \cup todo
      BY <2>1, <3>1 DEF Crawl!Live
    <3>3. Crawl!TypeOK'
      BY <3>1, <3>2 DEF Crawl!TypeOK
    <3> QED
      BY <1>0, <1>3, <3>1, <3>2, <3>3 DEF Crawl!Spawn
  <2>2. CASE u \notin fetched
    <3>1. /\ todo' = todo \ {u} /\ fetched' = fetched \cup {u} /\ n' = n + 1
          /\ sender' = [sender EXCEPT ![u] = "fetching"] /\ UNCHANGED <<web, pc>>
          /\ pc = "spawning" /\ u \in todo
      BY <1>3, <2>2 DEF Crawl!Spawn
    <3>2. (fetched \cup todo)' = fetched \cup todo
      BY <3>1
    <3>3. sender[u] = "none" /\ u \in Crawl!Senders
      BY <2>2 DEF Crawl!Senders
    <3>4. Crawl!Live' = Crawl!Live \cup {u} /\ u \notin Crawl!Live
      BY <3>1, <3>3 DEF Crawl!Live, Crawl!TypeOK
    <3>5. Cardinality(Crawl!Live') = Cardinality(Crawl!Live) + 1
      BY <1>f, <3>4, FS_AddElement, Zenon
    <3>6. Crawl!TypeOK'
      BY <1>f, <3>1, <3>3, <3>5, CrawlFiniteSets DEF Crawl!TypeOK
    <3>7. \A v \in Crawl!Senders : sender'[v] = IF v = u THEN "fetching" ELSE sender[v]
      BY <3>1 DEF Crawl!TypeOK
    <3>8. sender'[Main] # "none" /\ \A v \in URLs : sender'[v] # "none" <=> v \in fetched'
      BY <3>1, <3>7 DEF Crawl!Senders
    <3> QED
      BY <1>0, <3>1, <3>2, <3>6, <3>7, <3>8
  <2> QED
    BY <2>1, <2>2
<1>4. CASE Crawl!EndBatch
  <2>1. /\ n' = n - 1 /\ pc' = (IF n' = 0 THEN "returned" ELSE "receiving")
        /\ UNCHANGED <<web, sender, fetched, todo>> /\ pc = "spawning" /\ todo = {}
    BY <1>4 DEF Crawl!EndBatch
  <2>2. Crawl!Live' = Crawl!Live
    BY <2>1 DEF Crawl!Live
  <2>3. Crawl!TypeOK'
    BY <1>f, <2>1, <2>2, CrawlFiniteSets DEF Crawl!TypeOK
  <2> QED
    BY <1>0, <2>1, <2>3
<1>5. CASE UNCHANGED Crawl!vars
  <2>1. Crawl!Live' = Crawl!Live
    BY <1>5 DEF Crawl!vars, Crawl!Live
  <2> QED
    BY <1>0, <1>5, <2>1 DEF Crawl!vars, Crawl!TypeOK
<1> QED
  BY <1>1, <1>2, <1>3, <1>4, <1>5 DEF Crawl!Next, Crawl!Coordinator

\* Types, and that n counts the goroutines that are going to send.
THEOREM CrawlTypes ==
  ASSUME Crawl!FiniteWeb
  PROVE  Crawl!Spec => []Crawl!TypeOK
<1>1. CrawlInv => Crawl!TypeOK
  BY DEF CrawlInv
<1> QED
  BY CrawlInitInv, CrawlNextInv, <1>1, PTL DEF Crawl!Spec

\* When the coordinator returns it has fetched exactly what can be reached,
\* and no goroutine is left that waits on the channel for ever.
THEOREM CompleteCrawl ==
  ASSUME Crawl!FiniteWeb
  PROVE  Crawl!Spec => []Crawl!CrawlIsComplete
<1>1. CrawlInv => Crawl!CrawlIsComplete
  <2> SUFFICES ASSUME CrawlInv, pc = "returned" PROVE Crawl!IsReachable(fetched) /\ Crawl!Live = {}
    BY DEF Crawl!CrawlIsComplete
  <2>1. Cardinality(Crawl!Live) = 0
    BY LiveFinite, CrawlFiniteSets DEF CrawlInv, Crawl!TypeOK
  <2>2. Crawl!Live = {} /\ todo = {} /\ fetched \subseteq URLs
    BY <2>1, LiveFinite, FS_EmptySet DEF CrawlInv, Crawl!TypeOK
  <2>3. \A s \in Crawl!Senders : sender[s] # "none" => sender[s] = "gone"
    BY <2>2 DEF Crawl!Live, CrawlInv, Crawl!TypeOK
  <2>4. Start \in fetched
    BY <2>2, <2>3 DEF CrawlInv, Crawl!Senders, Crawl!Batch
  <2>5. \A u \in fetched : Crawl!Found(u) \subseteq fetched
    <3> SUFFICES ASSUME NEW u \in fetched PROVE Crawl!Found(u) \subseteq fetched
      OBVIOUS
    <3>1. u \in Crawl!Senders /\ u # Main /\ sender[u] = "gone"
      BY <2>2, <2>3 DEF Crawl!FiniteWeb, CrawlInv, Crawl!Senders
    <3> QED
      BY <2>2, <3>1 DEF CrawlInv, Crawl!Batch
  <2> QED
    BY <2>2, <2>4, <2>5 DEF CrawlInv, Crawl!IsReachable, Crawl!Closed
<1> QED
  BY CrawlInitInv, CrawlNextInv, <1>1, PTL DEF Crawl!Spec

\* No URL is fetched twice.
THEOREM NoSecondFetch ==
  ASSUME Crawl!FiniteWeb
  PROVE  Crawl!Spec => Crawl!FetchedOnce
<1> DEFINE Once == \A u \in URLs : sender[u] # "none" =>
                     sender'[u] # "fetching" \/ sender[u] = "fetching"
<1>1. CrawlInv /\ [Crawl!Next]_(Crawl!vars) => [Once]_(Crawl!vars)
  <2> SUFFICES ASSUME CrawlInv, [Crawl!Next]_(Crawl!vars), NEW u \in URLs, sender[u] # "none"
               PROVE  sender'[u] # "fetching" \/ sender[u] = "fetching"
    OBVIOUS
  <2>1. /\ u \in fetched /\ u \in Crawl!Senders
        /\ sender \in [Crawl!Senders -> {"none", "fetching", "sending", "gone"}]
    BY DEF CrawlInv, Crawl!TypeOK, Crawl!Senders
  <2>2. ASSUME NEW v \in URLs, Crawl!Fetch(v)
        PROVE  sender'[u] # "fetching" \/ sender[u] = "fetching"
    BY <2>1, <2>2 DEF Crawl!Fetch
  <2>3. ASSUME NEW s \in Crawl!Senders, Crawl!Receive(s)
        PROVE  sender'[u] # "fetching" \/ sender[u] = "fetching"
    BY <2>1, <2>3 DEF Crawl!Receive
  <2>4. ASSUME NEW v \in URLs, Crawl!Spawn(v)
        PROVE  sender'[u] # "fetching" \/ sender[u] = "fetching"
    BY <2>1, <2>4 DEF Crawl!Spawn
  <2>5. CASE Crawl!EndBatch \/ UNCHANGED Crawl!vars
    BY <2>5 DEF Crawl!EndBatch, Crawl!vars
  <2> QED
    BY <2>2, <2>3, <2>4, <2>5 DEF Crawl!Next, Crawl!Coordinator
<1> QED
  BY CrawlInitInv, CrawlNextInv, <1>1, PTL DEF Crawl!Spec, Crawl!FetchedOnce

-----------------------------------------------------------------------------
(* Schedule.  The invariant counts: until the last task is handed out      *)
(* nothing was collected, so every task that was handed out keeps a server *)
(* of its own.                                                             *)

CONSTANT Servers

VARIABLES supply, numTask, schedPc, task, i, schedWorker

Sched == INSTANCE Schedule WITH pc <- schedPc, worker <- schedWorker

SchedInv ==
  /\ Sched!TypeOK
  /\ \A s \in Servers : schedWorker[s] # "absent" => s \in supply
  /\ schedPc = "sending" => i = 0
  /\ schedPc # "sending" => task = numTask /\ numTask <= Cardinality(supply)
  /\ schedPc = "returned" => i = numTask

\* Schedule and CrawlerChannel count with the same operator.
LEMMA SameCardinality == \A S : Sched!Cardinality(S) = Cardinality(S)
  BY Zenon DEF Sched!Cardinality, Cardinality

\* The servers at work are some of those that arrived, and finitely many.
LEMMA BusyFinite ==
  ASSUME IsFiniteSet(Servers), SchedInv
  PROVE  /\ IsFiniteSet(Sched!Busy) /\ Cardinality(Sched!Busy) \in Nat
         /\ Cardinality(supply) \in Nat /\ Cardinality(Sched!Busy) <= Cardinality(supply)
<1>1. Sched!Busy \subseteq supply /\ supply \subseteq Servers
  BY DEF Sched!Busy, SchedInv, Sched!TypeOK
<1>2. IsFiniteSet(supply) /\ Cardinality(supply) \in Nat
  BY <1>1, FS_Subset, FS_CardinalityType
<1>3. IsFiniteSet(Sched!Busy) /\ Cardinality(Sched!Busy) <= Cardinality(supply)
  BY <1>1, <1>2, FS_Subset
<1> QED
  BY <1>2, <1>3, FS_CardinalityType

\* The invariant holds at first: no server has arrived.
LEMMA SchedInitInv == Sched!Init => SchedInv
<1> SUFFICES ASSUME Sched!Init PROVE SchedInv
  OBVIOUS
<1>1. Sched!Busy = {}
  BY DEF Sched!Init, Sched!Busy
<1>2. Cardinality(Sched!Busy) = 0
  BY <1>1, FS_EmptySet, Zenon
<1> QED
  BY <1>2, SameCardinality DEF Sched!Init, SchedInv, Sched!TypeOK

\* Every step keeps the invariant: Send adds a server to Busy, Collect takes
\* one out, and CloseWork finds as many servers at work as there are tasks.
LEMMA SchedNextInv ==
  ASSUME IsFiniteSet(Servers)
  PROVE  SchedInv /\ [Sched!Next]_(Sched!vars) => SchedInv'
<1> SUFFICES ASSUME SchedInv, [Sched!Next]_(Sched!vars) PROVE SchedInv'
  OBVIOUS
<1> USE DEF SchedInv, Sched!TypeOK
<1>0. /\ IsFiniteSet(Sched!Busy) /\ Cardinality(Sched!Busy) \in Nat
      /\ Cardinality(supply) \in Nat /\ Cardinality(Sched!Busy) <= Cardinality(supply)
  BY BusyFinite
<1>1. CASE Sched!CloseWork
  <2>1. Sched!Busy' = Sched!Busy
    BY <1>1 DEF Sched!CloseWork, Sched!Busy
  <2> QED
    BY <1>0, <1>1, <2>1, SameCardinality DEF Sched!CloseWork
<1>2. CASE Sched!Return
  <2>1. Sched!Busy' = Sched!Busy
    BY <1>2 DEF Sched!Return, Sched!Busy
  <2> QED
    BY <1>0, <1>2, <2>1 DEF Sched!Return
<1>3. ASSUME NEW s \in Servers, Sched!Arrive(s) PROVE SchedInv'
  <2>1. Sched!Busy' = Sched!Busy
    BY <1>3 DEF Sched!Arrive, Sched!Busy
  <2> QED
    BY <1>0, <1>3, <2>1 DEF Sched!Arrive
<1>4. ASSUME NEW s \in Servers, Sched!Send(s) PROVE SchedInv'
  <2>1. Sched!Busy' = Sched!Busy \cup {s} /\ s \notin Sched!Busy
    BY <1>4 DEF Sched!Send, Sched!Busy
  <2>2. Cardinality(Sched!Busy') = Cardinality(Sched!Busy) + 1
    BY <1>0, <2>1, FS_AddElement, Zenon
  <2> QED
    BY <1>0, <1>4, <2>2, SameCardinality DEF Sched!Send
<1>5. ASSUME NEW s \in Servers, Sched!Call(s) PROVE SchedInv'
  <2>1. Sched!Busy' = Sched!Busy
    BY <1>5 DEF Sched!Call, Sched!Busy
  <2> QED
    BY <1>0, <1>5, <2>1 DEF Sched!Call
<1>6. ASSUME NEW s \in Servers, Sched!Collect(s) PROVE SchedInv'
  <2>1. Sched!Busy' = Sched!Busy \ {s} /\ s \in Sched!Busy
    BY <1>6 DEF Sched!Collect, Sched!Busy
  <2>2. Cardinality(Sched!Busy') = Cardinality(Sched!Busy) - 1
    BY <1>0, <2>1, FS_RemoveElement, Zenon
  <2> QED
    BY <1>0, <1>6, <2>2, SameCardinality DEF Sched!Collect
<1>7. ASSUME NEW s \in Servers, Sched!Exit(s) PROVE SchedInv'
  <2>1. Sched!Busy' = Sched!Busy
    BY <1>7 DEF Sched!Exit, Sched!Busy
  <2> QED
    BY <1>0, <1>7, <2>1 DEF Sched!Exit
<1>8. CASE UNCHANGED Sched!vars
  BY <1>8 DEF Sched!vars, Sched!Busy
<1> QED
  BY <1>1, <1>2, <1>3, <1>4, <1>5, <1>6, <1>7, <1>8, Zenon DEF Sched!Next

\* Types, and that the tasks handed out are those collected or at a server.
THEOREM ScheduleTypes ==
  ASSUME IsFiniteSet(Servers)
  PROVE  Sched!Spec => []Sched!TypeOK
<1>1. SchedInv => Sched!TypeOK
  BY DEF SchedInv
<1> QED
  BY SchedInitInv, SchedNextInv, <1>1, PTL DEF Sched!Spec

\* Schedule hands out all tasks only if there are as many servers as tasks.
THEOREM HangsIfFew ==
  ASSUME IsFiniteSet(Servers)
  PROVE  Sched!Spec => []Sched!HangsWithFewServers
<1>1. SchedInv => Sched!HangsWithFewServers
  BY SameCardinality DEF SchedInv, Sched!HangsWithFewServers
<1> QED
  BY SchedInitInv, SchedNextInv, <1>1, PTL DEF Sched!Spec

\* When Schedule returns every task was called and no worker is at a task.
THEOREM ReturnIsSound ==
  ASSUME IsFiniteSet(Servers)
  PROVE  Sched!Spec => []Sched!ReturnsWhenDone
<1>1. SchedInv => Sched!ReturnsWhenDone
  <2> SUFFICES ASSUME SchedInv, schedPc = "returned" PROVE task = numTask /\ Sched!Busy = {}
    BY DEF Sched!ReturnsWhenDone
  <2>1. Cardinality(Sched!Busy) = 0 /\ task = numTask
    BY BusyFinite, SameCardinality DEF SchedInv, Sched!TypeOK
  <2> QED
    BY <2>1, BusyFinite, FS_EmptySet
<1> QED
  BY SchedInitInv, SchedNextInv, <1>1, PTL DEF Sched!Spec
=============================================================================
