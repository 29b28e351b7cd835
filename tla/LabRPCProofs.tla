---------------------------- MODULE LabRPCProofs ---------------------------
(***************************************************************************)
(* The network keeps the contract of ClientEnd.Call, and what a Call that  *)
(* returned true did is never lost, for any number of Calls, ends and      *)
(* incarnations of the server.                                             *)
(*                                                                         *)
(* The reason is the order of two things.  ShutdownServer takes the server *)
(* from the network before it copies the Persister, and processReq looks   *)
(* at the network after the handler has run: if the incarnation it asked   *)
(* is still there, the copy has not been taken.                            *)
(***************************************************************************)
EXTENDS LabRPC, TLAPS

\* The process that runs is the last one started, and is in the network
\* exactly while it is serving.
Lifecycle ==
  /\ running = IF life = "stopped" THEN 0 ELSE starts
  /\ server = IF life = "serving" THEN starts ELSE 0
  /\ life # "stopped" => starts > 0

\* What a Call has recorded of the incarnation and the handler it uses.
Progress ==
  \A k \in Calls :
    /\ call[k].server <= starts
    /\ handler[k] = "none" \/ call[k].server > 0
    /\ call[k].pc = "routed" => call[k].server > 0
    /\ call[k].pc \in {"idle", "sent", "routed"} => handler[k] = "none"
    /\ call[k].pc \in {"answered", "replying"} /\ call[k].ok => handler[k] = "returned"
    /\ call[k].pc = "true" => handler[k] = "returned"

\* A handler that ran left its mark in the process it ran in, and a positive
\* reply that is on its way is about something durable.
Durability ==
  \A k \in Calls :
    /\ handler[k] \in {"executed", "returned"} /\ call[k].server = running => k \in persister
    /\ call[k].pc = "replying" /\ call[k].ok => k \in DurableState
    /\ call[k].pc = "true" => k \in DurableState

IInv == TypeOK /\ Lifecycle /\ Progress /\ Durability

(* The initial state satisfies the inductive invariant.                    *)
LEMMA InitInvariant == Init => IInv
<1> SUFFICES ASSUME Init PROVE IInv
  OBVIOUS
<1>1. Idle \in CallState
  BY EndsAssumption, MaxStartsAssumption DEF Idle, CallState
<1>2. TypeOK
  <2>1. call \in [Calls -> CallState] /\ enabled \in [Ends -> BOOLEAN]
    BY <1>1, Zenon DEF Init
  <2>2. reliable \in BOOLEAN /\ done \in BOOLEAN
    BY Zenon DEF Init
  <2> QED
    BY <2>1, <2>2, MaxStartsAssumption DEF Init, TypeOK
<1>3. Lifecycle /\ Progress /\ Durability
  BY DEF Init, Idle, Lifecycle, Progress, Durability
<1> QED
  BY <1>2, <1>3 DEF IInv

(* A step of one Call that moves it to another place, perhaps noting the   *)
(* end, the incarnation, the reliability or the answer.                    *)
LEMMA CallMoves ==
  ASSUME TypeOK, NEW k \in Calls, NEW c \in CallState, call' = [call EXCEPT ![k] = c]
  PROVE  /\ call' \in [Calls -> CallState]
         /\ call'[k] = c
         /\ \A j \in Calls : j # k => call'[j] = call[j]
BY DEF TypeOK

(* Every step of the caller or of processReq preserves the invariant.      *)
LEMMA NetworkInv ==
  ASSUME IInv, NEW k \in Calls, Network(k) \/ \E e \in Ends : Call(k, e)
  PROVE  IInv'
<1> USE MaxStartsAssumption DEF IInv
<1> DEFINE me == call[k]
<1>1. me \in CallState
  BY DEF TypeOK
<1>2. ASSUME NEW c \in CallState, call' = [call EXCEPT ![k] = c],
             UNCHANGED <<netVars, handler, lifeVars, persister>>,
             c.server <= starts,
             handler[k] = "none" \/ c.server = me.server,
             c.pc = "routed" => c.server > 0,
             c.pc \in {"idle", "sent", "routed"} => handler[k] = "none",
             c.pc \in {"answered", "replying"} /\ c.ok => handler[k] = "returned",
             c.pc = "true" => handler[k] = "returned",
             c.pc = "replying" /\ c.ok => k \in DurableState,
             c.pc = "true" => k \in DurableState
      PROVE  IInv'
  <2>1. /\ call' \in [Calls -> CallState]
        /\ call'[k] = c
        /\ \A j \in Calls : j # k => call'[j] = call[j]
    BY <1>2, CallMoves, Zenon
  <2>2. /\ reliable' = reliable /\ enabled' = enabled /\ server' = server /\ done' = done
        /\ handler' = handler /\ life' = life /\ starts' = starts /\ running' = running
        /\ saved' = saved /\ persister' = persister
    BY <1>2 DEF netVars, lifeVars
  <2>3. TypeOK' /\ Lifecycle'
    BY <2>1, <2>2 DEF TypeOK, Lifecycle
  <2>4. Progress'
    BY <1>2, <2>1, <2>2 DEF Progress
  <2>5. Durability'
    BY <1>2, <2>1, <2>2 DEF Durability, DurableState
  <2> QED
    BY <2>3, <2>4, <2>5
<1>3. ASSUME NEW e \in Ends, Call(k, e) PROVE IInv'
  <2>1. /\ me.pc = "idle"
        /\ \E p \in {"sent", "failing"} : call' = [call EXCEPT ![k] = [me EXCEPT !.pc = p, !.end = e]]
        /\ UNCHANGED <<netVars, handler, lifeVars, persister>>
    BY <1>3, Zenon DEF Call, TypeOK
  <2>2. PICK p \in {"sent", "failing"} : call' = [call EXCEPT ![k] = [me EXCEPT !.pc = p, !.end = e]]
    BY <2>1, Zenon
  <2>3. [me EXCEPT !.pc = p, !.end = e] \in CallState
    BY <1>1, Zenon DEF CallState
  <2> QED
    BY <1>1, <1>2, <2>1, <2>2, <2>3, Zenon DEF Progress, CallState
<1>4. CASE ReadEndnameInfo(k)
  <2> DEFINE p == IF enabled[me.end] /\ server # 0 THEN "routed" ELSE "failing"
             c == [me EXCEPT !.pc = p, !.server = server, !.reliable = reliable]
  <2>1. /\ me.pc = "sent" /\ call' = [call EXCEPT ![k] = c]
        /\ UNCHANGED <<netVars, handler, lifeVars, persister>>
    BY <1>4, Zenon DEF ReadEndnameInfo, TypeOK
  <2>2. server \in 0 .. MaxStarts /\ server <= starts /\ starts \in Nat
    BY DEF TypeOK, Lifecycle
  <2>3. c \in CallState /\ c.pc = p /\ c.server = server
    BY <1>1, <2>2, Zenon DEF CallState, TypeOK
  <2>4. p \in {"routed", "failing"} /\ (p = "routed" => server > 0) /\ handler[k] = "none"
    BY <2>1, <2>2 DEF Progress
  <2> HIDE DEF p, c
  <2> QED
    BY <1>2, <2>1, <2>2, <2>3, <2>4, Zenon
<1>5. ASSUME NEW p \in {"waiting", "failing", "replying", "true", "false"},
             call' = [call EXCEPT ![k] = [me EXCEPT !.pc = p]],
             UNCHANGED <<netVars, handler, lifeVars, persister>>,
             p \in {"replying", "true"} /\ me.ok => handler[k] = "returned" /\ k \in DurableState,
             p = "true" => me.ok
      PROVE  IInv'
  <2> DEFINE c == [me EXCEPT !.pc = p]
  <2>1. c \in CallState /\ c.pc = p /\ c.server = me.server /\ c.ok = me.ok
    BY <1>1, <1>5 DEF CallState
  <2>2. c.server <= starts
    BY <2>1 DEF Progress
  <2> HIDE DEF c
  <2>3. call' = [call EXCEPT ![k] = c]
    BY <1>5 DEF c
  <2> QED
    BY <1>2, <1>5, <2>1, <2>2, <2>3, Zenon
<1>6. CASE DropRequest(k)
  BY <1>5, <1>6 DEF DropRequest, TypeOK
<1>7. CASE GiveUp(k)
  BY <1>5, <1>7 DEF GiveUp, TypeOK
<1>8. CASE Dispatch(k)
  <2> DEFINE c == [me EXCEPT !.pc = "waiting"]
  <2>1. /\ me.pc = "routed" /\ call' = [call EXCEPT ![k] = c]
        /\ handler' = [handler EXCEPT ![k] = "forwarded"]
        /\ UNCHANGED <<netVars, lifeVars, persister>>
    BY <1>8 DEF Dispatch, TypeOK
  <2>2. c \in CallState /\ c.pc = "waiting" /\ c.server = me.server
    BY <1>1 DEF CallState
  <2>3. /\ call' \in [Calls -> CallState] /\ call'[k] = c
        /\ \A j \in Calls : j # k => call'[j] = call[j]
    BY <2>1, <2>2, CallMoves, Zenon
  <2>4. /\ handler' \in [Calls -> {"none", "forwarded", "executed", "returned", "lost", "failed"}]
        /\ handler'[k] = "forwarded"
        /\ \A j \in Calls : j # k => handler'[j] = handler[j]
    BY <2>1 DEF TypeOK
  <2> HIDE DEF c
  <2>5. TypeOK' /\ Lifecycle'
    BY <2>1, <2>3, <2>4 DEF TypeOK, Lifecycle, netVars, lifeVars
  <2>6. Progress'
    BY <2>1, <2>2, <2>3, <2>4 DEF Progress, lifeVars
  <2>7. Durability'
    BY <2>1, <2>2, <2>3, <2>4 DEF Durability, DurableState, lifeVars
  <2> QED
    BY <2>5, <2>6, <2>7
<1>9. CASE ReceiveAnswer(k)
  <2> DEFINE ok == handler[k] = "returned"
             c == [me EXCEPT !.pc = "answered", !.ok = ok]
  <2>1. /\ me.pc = "waiting" /\ call' = [call EXCEPT ![k] = c]
        /\ UNCHANGED <<netVars, handler, lifeVars, persister>>
    BY <1>9, Zenon DEF ReceiveAnswer, TypeOK
  <2>2. c \in CallState /\ c.pc = "answered" /\ c.server = me.server /\ c.ok = ok
    BY <1>1, Zenon DEF CallState
  <2>3. c.server <= starts /\ (ok => handler[k] = "returned")
    BY <2>2 DEF Progress
  <2> HIDE DEF c, ok
  <2> QED
    BY <1>2, <2>1, <2>2, <2>3, Zenon
<1>10. CASE CheckAnswer(k)
  <2>1. PICK p \in {"failing", "replying"} :
          call' = [call EXCEPT ![k] = [me EXCEPT !.pc = p]] /\ (p = "replying" => ~IsServerDead(k))
    BY <1>10 DEF CheckAnswer, TypeOK
  <2>2. me.pc = "answered" /\ UNCHANGED <<netVars, handler, lifeVars, persister>>
    BY <1>10 DEF CheckAnswer
  <2>3. ASSUME p = "replying", me.ok PROVE handler[k] = "returned" /\ k \in DurableState
    <3>1. handler[k] = "returned" /\ me.server > 0 /\ server = me.server
      BY <2>1, <2>2, <2>3 DEF Progress, IsServerDead
    <3>2. life = "serving" /\ running = me.server
      BY <1>1, <3>1 DEF Lifecycle, CallState
    <3> QED
      BY <3>1, <3>2 DEF Durability, DurableState
  <2> QED
    BY <1>5, <2>1, <2>2, <2>3, Zenon
<1>11. CASE Return(k)
  <2> DEFINE p == IF me.pc = "replying" /\ me.ok THEN "true" ELSE "false"
  <2>1. /\ me.pc \in {"failing", "replying"} /\ call' = [call EXCEPT ![k] = [me EXCEPT !.pc = p]]
        /\ UNCHANGED <<netVars, handler, lifeVars, persister>>
    BY <1>11 DEF Return, TypeOK
  <2>2. /\ p \in {"true", "false"}
        /\ p = "true" => me.ok /\ handler[k] = "returned" /\ k \in DurableState
    BY DEF Progress, Durability
  <2> HIDE DEF p
  <2> QED
    BY <1>5, <2>1, <2>2, Zenon
<1> QED
  BY <1>3, <1>4, <1>6, <1>7, <1>8, <1>9, <1>10, <1>11 DEF Network

(* Every step of a handler preserves the invariant.                        *)
LEMMA HandlerInv ==
  ASSUME IInv, NEW k \in Calls, Handler(k)
  PROVE  IInv'
<1> USE MaxStartsAssumption DEF IInv
<1>1. ASSUME NEW h \in {"executed", "returned", "lost", "failed"},
             handler[k] \in {"forwarded", "executed"},
             handler' = [handler EXCEPT ![k] = h],
             UNCHANGED <<netVars, call, lifeVars>>,
             persister' \subseteq Calls, persister \subseteq persister',
             h \in {"executed", "returned"} /\ call[k].server = running => k \in persister'
      PROVE  IInv'
  <2>1. /\ handler' \in [Calls -> {"none", "forwarded", "executed", "returned", "lost", "failed"}]
        /\ handler'[k] = h
        /\ \A j \in Calls : j # k => handler'[j] = handler[j]
    BY <1>1 DEF TypeOK
  <2>2. /\ reliable' = reliable /\ enabled' = enabled /\ server' = server /\ done' = done
        /\ call' = call /\ life' = life /\ starts' = starts /\ running' = running /\ saved' = saved
    BY <1>1 DEF netVars, lifeVars
  <2>3. TypeOK' /\ Lifecycle'
    BY <1>1, <2>1, <2>2 DEF TypeOK, Lifecycle
  <2>4. Progress'
    BY <1>1, <2>1, <2>2 DEF Progress
  <2>5. Durability'
    BY <1>1, <2>1, <2>2 DEF Durability, DurableState
  <2> QED
    BY <2>3, <2>4, <2>5
<1>2. CASE Execute(k)
  BY <1>1, <1>2 DEF Execute, TypeOK
<1>3. CASE SendReply(k)
  BY <1>1, <1>3 DEF SendReply, TypeOK, Durability
<1>4. CASE ConnectionLost(k)
  <2>1. PICK h \in {"lost", "failed"} : handler' = [handler EXCEPT ![k] = h]
    BY <1>4, Zenon DEF ConnectionLost, TypeOK
  <2> QED
    BY <1>1, <1>4, <2>1, Zenon DEF ConnectionLost, TypeOK
<1> QED
  BY <1>2, <1>3, <1>4 DEF Handler

(* Every step of a test or of the tester preserves the invariant.          *)
LEMMA TesterInv ==
  ASSUME IInv, Tester
  PROVE  IInv'
<1> USE MaxStartsAssumption DEF IInv
<1>1. \A k \in Calls : call[k].server \in 0 .. MaxStarts
  BY DEF TypeOK, CallState
<1>2. ASSUME UNCHANGED <<server, call, handler, lifeVars, persister>>,
             reliable' \in BOOLEAN, done' \in BOOLEAN, enabled' \in [Ends -> BOOLEAN]
      PROVE  IInv'
  BY <1>2 DEF TypeOK, Lifecycle, Progress, Durability, DurableState, lifeVars
<1>3. ASSUME NEW yes \in BOOLEAN, Reliable(yes) PROVE IInv'
  BY <1>2, <1>3 DEF Reliable, TypeOK
<1>4. ASSUME NEW yes \in BOOLEAN, NEW e \in Ends, Enable(e, yes) PROVE IInv'
  BY <1>2, <1>4 DEF Enable, TypeOK
<1>5. CASE Cleanup
  BY <1>2, <1>5 DEF Cleanup, TypeOK
<1>6. CASE BootDaemon
  <2>1. TypeOK' /\ Lifecycle'
    BY <1>6 DEF BootDaemon, netVars, TypeOK, Lifecycle
  <2>2. Progress' /\ Durability'
    BY <1>1, <1>6 DEF BootDaemon, TypeOK, Progress, Durability, DurableState
  <2> QED
    BY <2>1, <2>2
<1>7. CASE AddServer
  BY <1>7 DEF AddServer, TypeOK, Lifecycle, Progress, Durability, DurableState
<1>8. CASE DeleteServer
  BY <1>8 DEF DeleteServer, TypeOK, Lifecycle, Progress, Durability, DurableState
<1>9. CASE CheckpointPersister
  BY <1>9 DEF CheckpointPersister, netVars, TypeOK, Lifecycle, Progress, Durability, DurableState
<1>10. CASE Kill
  <2>1. TypeOK' /\ Lifecycle'
    BY <1>10 DEF Kill, netVars, TypeOK, Lifecycle
  <2>2. Progress' /\ Durability'
    BY <1>1, <1>10 DEF Kill, TypeOK, Progress, Durability, DurableState
  <2> QED
    BY <2>1, <2>2
<1> QED
  BY <1>3, <1>4, <1>5, <1>6, <1>7, <1>8, <1>9, <1>10 DEF Tester

(* IInv holds in every reachable state.                                    *)
THEOREM Invariance == Spec => []IInv
<1>1. IInv /\ [Next]_vars => IInv'
  <2> SUFFICES ASSUME IInv, [Next]_vars PROVE IInv'
    OBVIOUS
  <2>1. CASE UNCHANGED vars
    BY <2>1 DEF vars, IInv, TypeOK, Lifecycle, Progress, Durability, DurableState
  <2> QED
    BY <2>1, NetworkInv, HandlerInv, TesterInv DEF Next
<1> QED
  BY <1>1, InitInvariant, PTL DEF Spec

(* The network, the goroutines and the server's process keep their types,  *)
(* and the network knows no other server than the process that runs.       *)
THEOREM TypeCorrect == Spec => []TypeOK
<1>1. IInv => TypeOK
  BY DEF IInv
<1> QED
  BY <1>1, Invariance, PTL

(* What a Call that returned true did survives every restart.              *)
THEOREM Durable == Spec => []AcknowledgedIsDurable
<1>1. IInv => AcknowledgedIsDurable
  BY DEF IInv, Durability, AcknowledgedIsDurable
<1> QED
  BY <1>1, Invariance, PTL

-----------------------------------------------------------------------------
(* The contract.                                                           *)

Results == [k \in Calls |-> IF call[k].pc \in {"idle", "true", "false"} THEN call[k].pc ELSE "open"]
Ran == {k \in Calls : handler[k] \in {"executed", "returned", "lost"}}

(* Every step of the network is a step of the contract or a stutter.       *)
LEMMA NextContract == IInv /\ [Next]_vars => [Contract!Next]_Contract!vars
<1> SUFFICES ASSUME IInv, [Next]_vars PROVE [Contract!Next]_Contract!vars
  OBVIOUS
<1> USE DEF IInv
<1>1. ASSUME call' = call, Ran' = Ran PROVE UNCHANGED Contract!vars
  <2>1. Results' = Results
    BY <1>1 DEF Results
  <2> QED
    BY <1>1, <2>1 DEF Results, Ran, Contract!vars
<1>2. ASSUME NEW k \in Calls, NEW c, call' = [call EXCEPT ![k] = c], Ran' = Ran,
             c.pc \notin {"idle", "true", "false"}, call[k].pc \notin {"idle", "true", "false"}
      PROVE  UNCHANGED Contract!vars
  <2>1. \A j \in Calls : call'[j] = IF j = k THEN c ELSE call[j]
    BY <1>2 DEF TypeOK
  <2>2. Results' = Results
    BY <1>2, <2>1 DEF Results
  <2> QED
    BY <1>2, <2>2 DEF Results, Ran, Contract!vars
<1>3. ASSUME handler' = handler PROVE Ran' = Ran
  BY <1>3 DEF Ran
<1>4. CASE UNCHANGED vars \/ Tester
  BY <1>1, <1>3, <1>4 DEF vars, Tester, Reliable, Enable, Cleanup, BootDaemon, AddServer, DeleteServer,
                          CheckpointPersister, Kill
<1>5. ASSUME NEW k \in Calls, NEW e \in Ends, Call(k, e) PROVE Contract!Next
  <2>1. /\ call[k].pc = "idle" /\ handler' = handler
        /\ \E p \in {"sent", "failing"} : call' = [call EXCEPT ![k] = [call[k] EXCEPT !.pc = p, !.end = e]]
    BY <1>5, Zenon DEF Call, TypeOK
  <2>2. call[k] \in CallState
    BY DEF TypeOK
  <2>3. \A j \in Calls : /\ j # k => call'[j] = call[j]
                         /\ call'[k].pc \in {"sent", "failing"}
    BY <2>1, <2>2 DEF TypeOK, CallState
  <2>4. Results[k] = "idle" /\ Results' = [Results EXCEPT ![k] = "open"] /\ Ran' = Ran
    BY <1>3, <2>1, <2>3, Zenon DEF Results
  <2> QED
    BY <2>4, Zenon DEF Results, Ran, Contract!Next, Contract!Call
<1>6. ASSUME NEW k \in Calls, Network(k), ~Return(k) PROVE UNCHANGED Contract!vars
  <2>1. call[k] \in CallState
    BY DEF TypeOK
  <2>2. CASE ReadEndnameInfo(k)
    <3> DEFINE c == [call[k] EXCEPT
                 !.pc = IF enabled[call[k].end] /\ server # 0 THEN "routed" ELSE "failing",
                 !.server = server, !.reliable = reliable]
    <3>1. call' = [call EXCEPT ![k] = c] /\ call[k].pc = "sent" /\ c.pc \in {"routed", "failing"}
      BY <2>1, <2>2, Zenon DEF ReadEndnameInfo, TypeOK, CallState
    <3> HIDE DEF c
    <3> QED
      BY <1>2, <1>3, <2>2, <3>1, Zenon DEF ReadEndnameInfo
  <2>3. CASE DropRequest(k) \/ GiveUp(k) \/ CheckAnswer(k)
    <3>1. PICK p \in {"failing", "replying"} : call' = [call EXCEPT ![k] = [call[k] EXCEPT !.pc = p]]
      BY <2>3 DEF DropRequest, GiveUp, CheckAnswer, TypeOK
    <3>2. [call[k] EXCEPT !.pc = p].pc = p
      BY <2>1 DEF CallState
    <3> QED
      BY <1>2, <1>3, <2>3, <3>1, <3>2, Zenon DEF DropRequest, GiveUp, CheckAnswer
  <2>4. CASE Dispatch(k)
    <3>1. Ran' = Ran
      BY <2>4 DEF Dispatch, Ran, Progress, TypeOK
    <3>2. call' = [call EXCEPT ![k] = [call[k] EXCEPT !.pc = "waiting"]]
      BY <2>4 DEF Dispatch, TypeOK
    <3>3. [call[k] EXCEPT !.pc = "waiting"].pc = "waiting"
      BY <2>1 DEF CallState
    <3> QED
      BY <1>2, <2>4, <3>1, <3>2, <3>3, Zenon DEF Dispatch
  <2>5. CASE ReceiveAnswer(k)
    <3> DEFINE c == [call[k] EXCEPT !.pc = "answered", !.ok = (handler[k] = "returned")]
    <3>1. call' = [call EXCEPT ![k] = c] /\ call[k].pc = "waiting" /\ c.pc = "answered"
      BY <2>1, <2>5, Zenon DEF ReceiveAnswer, TypeOK, CallState
    <3> HIDE DEF c
    <3> QED
      BY <1>2, <1>3, <2>5, <3>1, Zenon DEF ReceiveAnswer
  <2> QED
    BY <1>6, <2>2, <2>3, <2>4, <2>5 DEF Network
<1>7. ASSUME NEW k \in Calls, Return(k) PROVE Contract!Next
  <2> DEFINE p == IF call[k].pc = "replying" /\ call[k].ok THEN "true" ELSE "false"
  <2>1. /\ call[k].pc \in {"failing", "replying"} /\ handler' = handler
        /\ call' = [call EXCEPT ![k] = [call[k] EXCEPT !.pc = p]]
    BY <1>7 DEF Return, TypeOK
  <2>2. /\ p \in {"true", "false"}
        /\ p = "true" => k \in Ran
    BY DEF Progress, Ran
  <2>3. call[k] \in CallState
    BY DEF TypeOK
  <2> HIDE DEF p
  <2>4. \A j \in Calls : (j # k => call'[j] = call[j]) /\ call'[k].pc = p
    BY <2>1, <2>3 DEF TypeOK, CallState
  <2>5. Results[k] = "open" /\ Results' = [Results EXCEPT ![k] = p] /\ Ran' = Ran
    BY <1>3, <2>1, <2>2, <2>4, Zenon DEF Results
  <2> QED
    BY <2>2, <2>5, Zenon DEF Results, Ran, Contract!Next, Contract!Return
<1>8. ASSUME NEW k \in Calls, Execute(k) PROVE Contract!Next
  <2>1. /\ handler[k] = "forwarded" /\ handler' = [handler EXCEPT ![k] = "executed"] /\ call' = call
    BY <1>8 DEF Execute
  <2>2. k \notin Ran /\ Ran' = Ran \cup {k}
    BY <2>1 DEF Ran, TypeOK
  <2>3. Results' = Results /\ Results[k] \in {"open", "false"}
    BY <2>1 DEF Results, Progress
  <2> QED
    BY <2>2, <2>3 DEF Results, Ran, Contract!Next, Contract!Run
<1>9. ASSUME NEW k \in Calls, SendReply(k) \/ ConnectionLost(k) PROVE UNCHANGED Contract!vars
  <2>1. call' = call /\ Ran' = Ran
    BY <1>9 DEF SendReply, ConnectionLost, Ran, TypeOK
  <2> QED
    BY <1>1, <2>1
<1> QED
  BY <1>4, <1>5, <1>6, <1>7, <1>8, <1>9 DEF Next, Handler

(* ClientEnd.Call keeps its contract: the handler runs at most once, and   *)
(* Call returns true only if it ran.                                       *)
THEOREM CallContract == Spec => ImplementsContract
<1>1. Init => Contract!Init
  BY DEF Init, Idle, Contract!Init
<1> QED
  BY <1>1, NextContract, Invariance, PTL DEF Spec, ImplementsContract, Contract!Spec
=============================================================================
