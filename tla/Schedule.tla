------------------------------ MODULE Schedule ------------------------------
(***************************************************************************)
(* Schedule of src/lecutures/lec-5-go-pattern/deadlock.go: a goroutine for  *)
(* each server takes tasks from one unbuffered channel and says that it is  *)
(* done on another, on which the scheduler listens only after it has handed *)
(* out every task.  A server is not lost and a call returns.                *)
(***************************************************************************)
EXTENDS Naturals, FiniteSets

CONSTANTS
  Servers       \* the servers there may be

VARIABLES
  supply,       \* the servers that are sent on the channel servers
  numTask,
  pc,           \* the scheduler: "sending", "collecting", "returned"
  task, i,      \* its loop counters
  worker        \* runTasks per server: "absent", "receiving", "calling",
                \* "sending" on done, "exited"

vars == <<supply, numTask, pc, task, i, worker>>

Init ==
  /\ supply \in SUBSET Servers /\ numTask \in Nat
  /\ pc = "sending" /\ task = 0 /\ i = 0
  /\ worker = [s \in Servers |-> "absent"]

\* for srv := range servers
Arrive(s) ==
  /\ s \in supply /\ worker[s] = "absent"
  /\ worker' = [worker EXCEPT ![s] = "receiving"]
  /\ UNCHANGED <<supply, numTask, pc, task, i>>

\* work <- task, which a worker receives
Send(s) ==
  /\ pc = "sending" /\ task < numTask /\ worker[s] = "receiving"
  /\ task' = task + 1
  /\ worker' = [worker EXCEPT ![s] = "calling"]
  /\ UNCHANGED <<supply, numTask, pc, i>>

Call(s) ==
  /\ worker[s] = "calling"
  /\ worker' = [worker EXCEPT ![s] = "sending"]
  /\ UNCHANGED <<supply, numTask, pc, task, i>>

CloseWork ==
  /\ pc = "sending" /\ task = numTask
  /\ pc' = "collecting"
  /\ UNCHANGED <<supply, numTask, task, i, worker>>

\* <-done, which a worker sends
Collect(s) ==
  /\ pc = "collecting" /\ i < numTask /\ worker[s] = "sending"
  /\ i' = i + 1
  /\ worker' = [worker EXCEPT ![s] = "receiving"]
  /\ UNCHANGED <<supply, numTask, pc, task>>

Return ==
  /\ pc = "collecting" /\ i = numTask
  /\ pc' = "returned"
  /\ UNCHANGED <<supply, numTask, task, i, worker>>

\* range work ends when work is closed
Exit(s) ==
  /\ pc # "sending" /\ worker[s] = "receiving"
  /\ worker' = [worker EXCEPT ![s] = "exited"]
  /\ UNCHANGED <<supply, numTask, pc, task, i>>

Next ==
  \/ CloseWork \/ Return
  \/ \E s \in Servers : Arrive(s) \/ Send(s) \/ Call(s) \/ Collect(s) \/ Exit(s)

Spec == Init /\ [][Next]_vars

-----------------------------------------------------------------------------
(* Properties.                                                             *)

Busy == {s \in Servers : worker[s] \in {"calling", "sending"}}

\* Types; the servers at work are those whose task was not collected yet.
TypeOK ==
  /\ supply \subseteq Servers /\ numTask \in Nat
  /\ pc \in {"sending", "collecting", "returned"}
  /\ i \in 0..numTask /\ task \in i..numTask
  /\ worker \in [Servers -> {"absent", "receiving", "calling", "sending", "exited"}]
  /\ Cardinality(Busy) + i = task

\* A worker stays at `done <- true` until every task is handed out: Schedule
\* hands out all tasks only if there are as many servers as tasks, and hangs
\* otherwise, as main does with one server and two tasks.
HangsWithFewServers == pc # "sending" => numTask <= Cardinality(supply)

\* Schedule returns when every task has been called and its worker is free.
ReturnsWhenDone == pc = "returned" => task = numTask /\ Busy = {}
=============================================================================
