------------------------------- MODULE LabRPC ------------------------------
(***************************************************************************)
(* RPCs over the simulated network of src/src/labrpc/labrpc.go to a server *)
(* that the tester (src/src/tester1) runs as a process of its own, shuts   *)
(* down and starts again with the state it saved.                          *)
(*                                                                         *)
(* A Call is handled by three goroutines: the caller, Network.processReq   *)
(* and the one that dispatches to the server.  Network.mu is released      *)
(* between the accesses to the network's state, so each access is a step.  *)
(* What the handlers of the server do is abstracted to the Call being      *)
(* recorded in the server's Persister.  Delays are interleavings.          *)
(***************************************************************************)
EXTENDS Integers

CONSTANTS
  Calls,        \* the Calls made, each once
  Ends,         \* the ClientEnds that are connected to the server
  MaxStarts     \* bound: number of times the server is started

ASSUME EndsAssumption == Ends # {}
ASSUME MaxStartsAssumption == MaxStarts \in Nat

VARIABLES
  reliable,     \* Network.reliable
  enabled,      \* Network.enabled, per end
  server,       \* Network.servers[servername]: an incarnation, or 0 for nil
  done,         \* Network.done is closed
  call,         \* the caller and processReq, per Call
  handler,      \* the goroutine that dispatches, per Call
  life,         \* where the tester is in StartServer and ShutdownServer
  starts,       \* number of incarnations so far
  running,      \* the incarnation whose process runs, or 0
  persister,    \* DaemonSrv.persister of the running process
  saved         \* Server.saved of the tester

netVars == <<reliable, enabled, server, done>>
lifeVars == <<life, starts, running, saved>>
vars == <<reliable, enabled, server, done, call, handler, life, starts, running, persister, saved>>

\* Goroutines of a Call: what readEndnameInfo returned is kept in server and
\* reliable, and what the dispatch returned in ok.
CallState ==
  [pc : {"idle", "sent", "routed", "waiting", "answered", "failing", "replying", "true", "false"},
   end : Ends, server : 0 .. MaxStarts, reliable : BOOLEAN, ok : BOOLEAN]

Idle == [pc |-> "idle", end |-> CHOOSE e \in Ends : TRUE, server |-> 0,
         reliable |-> TRUE, ok |-> FALSE]

Init ==
  /\ reliable = TRUE
  /\ enabled = [e \in Ends |-> FALSE]
  /\ server = 0
  /\ done = FALSE
  /\ call = [k \in Calls |-> Idle]
  /\ handler = [k \in Calls |-> "none"]
  /\ life = "stopped"
  /\ starts = 0
  /\ running = 0
  /\ persister = {}
  /\ saved = {}

-----------------------------------------------------------------------------
(* The network's configuration, changed by tests and by the tester.        *)

Reliable(yes) ==
  /\ reliable' = yes
  /\ UNCHANGED <<enabled, server, done, call, handler, lifeVars, persister>>

Enable(e, yes) ==
  /\ enabled' = [enabled EXCEPT ![e] = yes]
  /\ UNCHANGED <<reliable, server, done, call, handler, lifeVars, persister>>

Cleanup ==
  /\ ~done
  /\ done' = TRUE
  /\ UNCHANGED <<reliable, enabled, server, call, handler, lifeVars, persister>>

-----------------------------------------------------------------------------
(* One Call.                                                               *)

\* ClientEnd.Call hands the request to the network, or finds it cleaned up.
Call(k, e) ==
  /\ call[k].pc = "idle"
  /\ \/ call' = [call EXCEPT ![k].pc = "sent", ![k].end = e]
     \/ done /\ call' = [call EXCEPT ![k].pc = "failing", ![k].end = e]
  /\ UNCHANGED <<netVars, handler, lifeVars, persister>>

\* Mutation of ReadEndnameInfo: no reply from a network that has no route.
ReadEndnameInfoSilent(k) ==
  /\ call[k].pc = "sent"
  /\ enabled[call[k].end] /\ server # 0
  /\ call' = [call EXCEPT ![k].pc = "routed", ![k].server = server, ![k].reliable = reliable]
  /\ UNCHANGED <<netVars, handler, lifeVars, persister>>

ReadEndnameInfo(k) ==
  /\ call[k].pc = "sent"
  /\ call' = [call EXCEPT ![k].pc = IF enabled[call[k].end] /\ server # 0 THEN "routed" ELSE "failing",
                          ![k].server = server, ![k].reliable = reliable]
  /\ UNCHANGED <<netVars, handler, lifeVars, persister>>

DropRequest(k) ==
  /\ call[k].pc = "routed" /\ ~call[k].reliable
  /\ call' = [call EXCEPT ![k].pc = "failing"]
  /\ UNCHANGED <<netVars, handler, lifeVars, persister>>

Dispatch(k) ==
  /\ call[k].pc = "routed"
  /\ call' = [call EXCEPT ![k].pc = "waiting"]
  /\ handler' = [handler EXCEPT ![k] = "forwarded"]
  /\ UNCHANGED <<netVars, lifeVars, persister>>

\* The handler in the server's process.
Execute(k) ==
  /\ handler[k] = "forwarded" /\ running = call[k].server
  /\ handler' = [handler EXCEPT ![k] = "executed"]
  /\ persister' = persister \cup {k}
  /\ UNCHANGED <<netVars, call, lifeVars>>

\* Its reply is written to the connection with the tester.
SendReply(k) ==
  /\ handler[k] = "executed" /\ running = call[k].server
  /\ handler' = [handler EXCEPT ![k] = "returned"]
  /\ UNCHANGED <<netVars, call, lifeVars, persister>>

\* The connection is gone with the process: DemuxClnt.reader fails the
\* request, whether its handler ran or not.
ConnectionLost(k) ==
  /\ handler[k] \in {"forwarded", "executed"} /\ running # call[k].server
  /\ handler' = [handler EXCEPT ![k] = IF @ = "forwarded" THEN "failed" ELSE "lost"]
  /\ UNCHANGED <<netVars, call, lifeVars, persister>>

\* processReq receives what the dispatch returned.
ReceiveAnswer(k) ==
  /\ call[k].pc = "waiting" /\ handler[k] \in {"returned", "lost", "failed"}
  /\ call' = [call EXCEPT ![k].pc = "answered", ![k].ok = (handler[k] = "returned")]
  /\ UNCHANGED <<netVars, handler, lifeVars, persister>>

IsServerDead(k) == ~enabled[call[k].end] \/ server # call[k].server

\* Mutation of GiveUp: the request is sent again instead.
GiveUpResends(k) ==
  /\ call[k].pc = "waiting" /\ IsServerDead(k)
  /\ call' = [call EXCEPT ![k].pc = "sent"]
  /\ UNCHANGED <<netVars, handler, lifeVars, persister>>

\* The poll every 100 ms: processReq stops waiting.
GiveUp(k) ==
  /\ call[k].pc = "waiting" /\ IsServerDead(k)
  /\ call' = [call EXCEPT ![k].pc = "failing"]
  /\ UNCHANGED <<netVars, handler, lifeVars, persister>>

\* Mutation of CheckAnswer: no last look at the server.
CheckAnswerUnchecked(k) ==
  /\ call[k].pc = "answered"
  /\ call' = [call EXCEPT ![k].pc = "replying"]
  /\ UNCHANGED <<netVars, handler, lifeVars, persister>>

\* The last look at the server before the reply is passed on.
CheckAnswer(k) ==
  /\ call[k].pc = "answered"
  /\ \/ IsServerDead(k) /\ call' = [call EXCEPT ![k].pc = "failing"]
     \/ ~IsServerDead(k) /\ ~call[k].reliable /\ call' = [call EXCEPT ![k].pc = "failing"]
     \/ ~IsServerDead(k) /\ call' = [call EXCEPT ![k].pc = "replying"]
  /\ UNCHANGED <<netVars, handler, lifeVars, persister>>

\* The caller receives the reply, some time after it was sent.
Return(k) ==
  /\ call[k].pc \in {"failing", "replying"}
  /\ call' = [call EXCEPT ![k].pc = IF @ = "replying" /\ call[k].ok THEN "true" ELSE "false"]
  /\ UNCHANGED <<netVars, handler, lifeVars, persister>>

-----------------------------------------------------------------------------
(* ServerGrp.StartServer and ServerGrp.ShutdownServer.                     *)

\* runDaemon, init and waitInit: a new process with the saved state.
BootDaemon ==
  /\ life = "stopped" /\ starts < MaxStarts
  /\ life' = "booted"
  /\ starts' = starts + 1
  /\ running' = starts + 1
  /\ persister' = saved
  /\ UNCHANGED <<netVars, call, handler, saved>>

AddServer ==
  /\ life = "booted"
  /\ life' = "serving"
  /\ server' = running
  /\ UNCHANGED <<reliable, enabled, done, call, handler, starts, running, persister, saved>>

\* ShutdownServer disconnects the server from its peers first; these are steps
\* Enable(e, FALSE) for the ends of peers, and a client's end stays enabled.
DeleteServer ==
  /\ life = "serving"
  /\ life' = "deleted"
  /\ server' = 0
  /\ UNCHANGED <<reliable, enabled, done, call, handler, starts, running, persister, saved>>

\* DaemonSrv.CheckpointPersister closes the listener of the server's socket
\* and copies the Persister; the connection it has stays open.
CheckpointPersister ==
  /\ life = "deleted"
  /\ life' = "checkpointed"
  /\ saved' = persister
  /\ UNCHANGED <<netVars, call, handler, starts, running, persister>>

Kill ==
  /\ life = "checkpointed"
  /\ life' = "stopped"
  /\ running' = 0
  /\ persister' = {}
  /\ UNCHANGED <<netVars, call, handler, starts, saved>>

-----------------------------------------------------------------------------
Network(k) ==
  \/ ReadEndnameInfo(k) \/ DropRequest(k) \/ Dispatch(k)
  \/ ReceiveAnswer(k) \/ GiveUp(k) \/ CheckAnswer(k) \/ Return(k)

Handler(k) == Execute(k) \/ SendReply(k) \/ ConnectionLost(k)

Tester ==
  \/ \E yes \in BOOLEAN : Reliable(yes) \/ \E e \in Ends : Enable(e, yes)
  \/ Cleanup
  \/ BootDaemon \/ AddServer \/ DeleteServer \/ CheckpointPersister \/ Kill

Next ==
  \/ \E k \in Calls : Network(k) \/ Handler(k) \/ \E e \in Ends : Call(k, e)
  \/ Tester

Spec == Init /\ [][Next]_vars

\* The goroutines of a Call run, and handlers return.
FairSpec == Spec /\ \A k \in Calls : WF_vars(Network(k)) /\ WF_vars(Handler(k))

-----------------------------------------------------------------------------
(* Properties.                                                             *)

\* Types of the network, of the goroutines and of the server's life; the
\* network knows no other server than the process that runs.
TypeOK ==
  /\ reliable \in BOOLEAN /\ done \in BOOLEAN
  /\ enabled \in [Ends -> BOOLEAN]
  /\ server \in {0, running}
  /\ call \in [Calls -> CallState]
  /\ handler \in [Calls -> {"none", "forwarded", "executed", "returned", "lost", "failed"}]
  /\ life \in {"stopped", "booted", "serving", "deleted", "checkpointed"}
  /\ starts \in 0 .. MaxStarts
  /\ running \in 0 .. MaxStarts
  /\ persister \subseteq Calls /\ saved \subseteq Calls

\* The state the next incarnation of the server will have, or has.
DurableState == IF life \in {"checkpointed", "stopped"} THEN saved ELSE persister

\* processReq: "this is needed to avoid situation in which a client gets a
\* positive reply to an Append, but the server persisted the update into the
\* old Persister".  What a Call that returned true did is never lost.
AcknowledgedIsDurable == \A k \in Calls : call[k].pc = "true" => k \in DurableState

\* The contract of ClientEnd.Call, which the clerks rely on.
Contract == INSTANCE AtMostOnceRPC WITH
  result <- [k \in Calls |->
    IF call[k].pc \in {"idle", "true", "false"} THEN call[k].pc ELSE "open"],
  ran <- {k \in Calls : handler[k] \in {"executed", "returned", "lost"}}

ImplementsContract == Contract!Spec

\* "Call() is guaranteed to return (perhaps after a delay) *except* if the
\* handler function on the server side does not return."
CallReturns == \A k \in Calls : call[k].pc = "sent" ~> call[k].pc \in {"true", "false"}

\* DaemonSrv.CheckpointPersister: "Stop server from sending requests and
\* replies (e.g., AppendEntriesReplies)" before the Persister is copied.
NoReplyAfterCheckpoint ==
  [][\A k \in Calls : handler[k] = "executed" /\ handler'[k] = "returned"
                        => life # "checkpointed"]_vars
=============================================================================
