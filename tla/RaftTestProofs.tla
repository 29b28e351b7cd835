--------------------------- MODULE RaftTestProofs ---------------------------
(***************************************************************************)
(* The harness of the Raft tests, for any number of servers, commands,     *)
(* kills and wrong deliveries: what the tester holds of a server is        *)
(* committed, one() returns the place of its command, and over a Raft that *)
(* keeps its promises no check of the harness raises an alarm unless a     *)
(* report was overtaken by a restart.                                      *)
(***************************************************************************)
EXTENDS RaftTest, TLAPS

\* Leaves that name no prover are for the SMT solver, then for Zenon.
USE SMTT(20), ZenonT(20)

(* Types, and the RPC protocol between rfsrv and the tester.               *)

Rfsrv == [pc : {"down", "idle", "checking", "checked", "ingesting", "refused", "reporting"},
          index : 0 .. MaxIndex, cmd : Cmds \cup {None}, err : BOOLEAN,
          lastApplied : 0 .. MaxIndex, log : Log]

Call == [kind : {"CheckLogs", "IngestLog", "ApplyErr"}, srv : Servers, index : 0 .. MaxIndex,
         cmd : Cmds \cup {None}, log : Log, live : BOOLEAN]

One == [pc : {"idle", "trying", "waiting", "returned", "applyError", "mismatch", "noAgreement"},
        cmd : Cmds \cup {None}, need : Nat, index : 0 .. MaxIndex, retry : BOOLEAN, n : Nat]

\* Types, as TypeOK, and what one() has when it waits.
Types ==
  /\ snapshots \in BOOLEAN /\ faults \in Nat /\ overtaken \in BOOLEAN
  /\ committed \in Seq(Cmds) /\ Len(committed) <= MaxIndex
  /\ proposed \subseteq Indices \X Cmds
  /\ sent \in [Servers -> 0 .. MaxIndex]
  /\ snap \in [Servers -> [index : 0 .. MaxIndex, log : Log]]
  /\ rf \in [Servers -> Rfsrv]
  /\ calls \subseteq Call
  /\ logs \in [Servers -> Log] /\ applyErr \in [Servers -> BOOLEAN]
  /\ one \in One
  /\ one.pc \in {"waiting", "returned"} => one.index \in Indices
  /\ one.pc # "idle" => one.cmd \in Cmds

\* The applier of server i is inside an RPC of this kind.
Waits(i, kind) ==
  \/ rf[i].pc = "checking" /\ kind = "CheckLogs"
  \/ rf[i].pc = "ingesting" /\ kind = "IngestLog"
  \/ rf[i].pc = "reporting" /\ kind = "ApplyErr"

\* A server has one live RPC exactly while its applier waits for one, and that
\* RPC carries what the applier holds; the others are of dead processes.
Protocol ==
  /\ \A r \in calls : r.kind = "CheckLogs" => r.index \in Indices /\ r.cmd \in Cmds
  /\ \A r \in calls : r.live =>
       /\ Waits(r.srv, r.kind)
       /\ r.kind = "CheckLogs" => r.index = rf[r.srv].index /\ r.cmd = rf[r.srv].cmd
       /\ r.kind = "IngestLog" => r.log = rf[r.srv].log
  /\ \A i \in Servers :
       /\ rf[i].pc = "checking" => \E r \in calls : r.srv = i /\ r.live
       /\ rf[i].pc = "ingesting" => \E r \in calls : r.srv = i /\ r.live
       /\ rf[i].pc = "reporting" => \E r \in calls : r.srv = i /\ r.live
  /\ \A r, q \in calls : r.live /\ q.live /\ r.srv = q.srv => r = q
  /\ \A i \in Servers : rf[i].pc \in {"checking", "checked"} =>
       rf[i].index \in Indices /\ rf[i].cmd \in Cmds

-----------------------------------------------------------------------------
(* Types and the RPC protocol between rfsrv and the tester.                *)

\* The empty log and a server that is down have their types.
LEMMA Basics ==
  /\ EmptyLog \in Log /\ Down \in Rfsrv
  /\ 0 \in 0 .. MaxIndex /\ Indices \subseteq 0 .. MaxIndex
BY RaftTestAssumption DEF EmptyLog, Log, Down, Rfsrv, Indices

\* At first nothing is under way.
LEMMA InitTypes == Init => Types /\ Protocol
<1> SUFFICES ASSUME Init PROVE Types /\ Protocol
  OBVIOUS
<1>1. [Down EXCEPT !.pc = "idle"] \in Rfsrv /\ [Down EXCEPT !.pc = "idle"].pc = "idle"
  BY Basics, Zenon DEF Rfsrv, Down
<1>2. one \in One /\ one.pc = "idle"
  BY Basics DEF Init, NoOne, One
<1>3. committed \in Seq(Cmds) /\ Len(committed) <= MaxIndex
  BY RaftTestAssumption DEF Init
<1>4. Types
  <2>1. /\ rf \in [Servers -> Rfsrv] /\ calls \subseteq Call
        /\ snap \in [Servers -> [index : 0 .. MaxIndex, log : Log]]
        /\ sent \in [Servers -> 0 .. MaxIndex] /\ logs \in [Servers -> Log]
        /\ applyErr \in [Servers -> BOOLEAN]
    BY <1>1, Basics DEF Init
  <2>2. /\ snapshots \in BOOLEAN /\ faults \in Nat /\ overtaken \in BOOLEAN
        /\ proposed \subseteq Indices \X Cmds
    BY Zenon DEF Init
  <2> QED
    BY <1>2, <1>3, <2>1, <2>2 DEF Types
<1>5. Protocol
  BY <1>1, Zenon DEF Init, Protocol
<1> QED
  BY <1>4, <1>5

\* What is typed in rf and in the calls, spelled out.
LEMMA Fields ==
  ASSUME Types
  PROVE  /\ \A i \in Servers :
              /\ rf[i] = [pc |-> rf[i].pc, index |-> rf[i].index, cmd |-> rf[i].cmd, err |-> rf[i].err,
                          lastApplied |-> rf[i].lastApplied, log |-> rf[i].log]
              /\ rf[i].index \in 0 .. MaxIndex /\ rf[i].cmd \in Cmds \cup {None}
              /\ rf[i].err \in BOOLEAN /\ rf[i].lastApplied \in 0 .. MaxIndex /\ rf[i].log \in Log
              /\ sent[i] \in 0 .. MaxIndex /\ snap[i].index \in 0 .. MaxIndex /\ snap[i].log \in Log
              /\ logs[i] \in Log
         /\ \A r \in calls : r.srv \in Servers /\ r.index \in 0 .. MaxIndex /\ r.log \in Log
                             /\ r.live \in BOOLEAN /\ r.cmd \in Cmds \cup {None}
                             /\ r.kind \in {"CheckLogs", "IngestLog", "ApplyErr"}
BY DEF Types, Rfsrv, Call

\* The step of the process at server i, field by field.
Goes(i, pc, index, cmd, err, lastApplied, log) ==
  /\ rf' \in [Servers -> Rfsrv]
  /\ rf'[i].pc = pc /\ rf'[i].index = index /\ rf'[i].cmd = cmd
  /\ rf'[i].err = err /\ rf'[i].lastApplied = lastApplied /\ rf'[i].log = log
  /\ \A j \in Servers \ {i} : rf'[j] = rf[j]

\* Apply: the applier takes a message and asks CheckLogs, or, with snapshots on,
\* notes an entry out of order and asks nothing.
LEMMA ApplyEffect ==
  ASSUME Types, NEW i \in Servers, Apply(i)
  PROVE  \E k \in Indices, v \in Cmds, gap \in BOOLEAN :
           /\ gap = (snapshots /\ k # rf[i].lastApplied + 1)
           /\ Deliverable(i, k, v)
           /\ sent' = [sent EXCEPT ![i] = k]
           /\ Goes(i, IF gap THEN "checked" ELSE "checking", k, v, gap,
                   rf[i].lastApplied, rf[i].log)
           /\ calls' = IF gap THEN calls
                       ELSE calls \cup {Request("CheckLogs", i, k, v, EmptyLog)}
<1>1. PICK k \in Indices, v \in Cmds :
        LET gap == snapshots /\ k # rf[i].lastApplied + 1 IN
        /\ Deliverable(i, k, v)
        /\ sent' = [sent EXCEPT ![i] = k]
        /\ rf' = [rf EXCEPT ![i].pc = IF gap THEN "checked" ELSE "checking",
                            ![i].index = k, ![i].cmd = v, ![i].err = gap]
        /\ calls' = IF gap THEN calls
                    ELSE calls \cup {Request("CheckLogs", i, k, v, EmptyLog)}
  BY Zenon DEF Apply
<1> DEFINE gap == snapshots /\ k # rf[i].lastApplied + 1
           pc == IF gap THEN "checked" ELSE "checking"
<1>2. gap \in BOOLEAN /\ pc \in {"checked", "checking"}
  BY DEF Types
<1>3. Goes(i, pc, k, v, gap, rf[i].lastApplied, rf[i].log)
  <2>1. rf' = [rf EXCEPT ![i].pc = pc, ![i].index = k, ![i].cmd = v, ![i].err = gap]
    BY <1>1
  <2>2. rf \in [Servers -> Rfsrv]
    BY DEF Types
  <2> HIDE DEF gap, pc
  <2>3. rf'[i] = [rf[i] EXCEPT !.pc = pc, !.index = k, !.cmd = v, !.err = gap]
    BY <2>1, <2>2
  <2>4. rf'[i] \in Rfsrv
    BY <1>2, <2>2, <2>3, Basics, ZenonT(40) DEF Rfsrv
  <2>5. rf' \in [Servers -> Rfsrv] /\ \A j \in Servers \ {i} : rf'[j] = rf[j]
    BY <2>1, <2>2, <2>4
  <2>6. rf'[i].pc = pc /\ rf'[i].index = k /\ rf'[i].cmd = v /\ rf'[i].err = gap
        /\ rf'[i].lastApplied = rf[i].lastApplied /\ rf'[i].log = rf[i].log
    BY <2>2, <2>3 DEF Rfsrv
  <2> QED
    BY <2>5, <2>6 DEF Goes
<1> QED
  BY <1>1, <1>2, <1>3, Zenon

\* The record of a server stays one when its log grows.
LEMMA RfsrvExtended ==
  ASSUME NEW me \in Rfsrv, NEW pc \in {"reporting", "idle"}, NEW log \in Log, NEW last \in 0 .. MaxIndex
  PROVE  [me EXCEPT !.pc = pc, !.log = log, !.lastApplied = last] \in Rfsrv
BY Zenon DEF Rfsrv

\* The applier's log when the answer of CheckLogs is in.
LogAfter(i) == IF snapshots THEN [rf[i].log EXCEPT ![rf[i].index] = rf[i].cmd] ELSE rf[i].log

\* Checked: the entry enters the log, a snapshot is taken when it is due, and
\* the applier goes on, or reports what it found.
LEMMA CheckedEffect ==
  ASSUME Types, NEW i \in Servers, Checked(i)
  PROVE  /\ LogAfter(i) \in Log
         /\ Goes(i, IF rf[i].err THEN "reporting" ELSE "idle", rf[i].index, rf[i].cmd, rf[i].err,
                 IF snapshots THEN rf[i].index ELSE rf[i].lastApplied, LogAfter(i))
         /\ snap' = IF snapshots /\ (rf[i].index + 1) % SnapShotInterval = 0
                    THEN [snap EXCEPT ![i] = [index |-> rf[i].index, log |-> LogAfter(i)]] ELSE snap
<1>1. /\ rf' = [rf EXCEPT ![i].pc = IF rf[i].err THEN "reporting" ELSE "idle",
                          ![i].log = LogAfter(i),
                          ![i].lastApplied = IF snapshots THEN rf[i].index ELSE @]
      /\ snap' = IF snapshots /\ (rf[i].index + 1) % SnapShotInterval = 0
                 THEN [snap EXCEPT ![i] = [index |-> rf[i].index, log |-> LogAfter(i)]] ELSE snap
  BY DEF Checked, LogAfter
<1>2. LogAfter(i) \in Log
  BY Fields, Zenon DEF Log, LogAfter
<1>3. Goes(i, IF rf[i].err THEN "reporting" ELSE "idle", rf[i].index, rf[i].cmd, rf[i].err,
           IF snapshots THEN rf[i].index ELSE rf[i].lastApplied, LogAfter(i))
  <2> DEFINE pc == IF rf[i].err THEN "reporting" ELSE "idle"
             last == IF snapshots THEN rf[i].index ELSE rf[i].lastApplied
  <2>1. rf \in [Servers -> Rfsrv]
    BY DEF Types
  <2>2. pc \in {"reporting", "idle"} /\ last \in 0 .. MaxIndex
    BY Fields, Zenon
  <2>3. rf'[i] = [rf[i] EXCEPT !.pc = pc, !.log = LogAfter(i), !.lastApplied = last]
    BY <1>1, <2>1
  <2> HIDE DEF pc, last
  <2>4. rf'[i] \in Rfsrv
    <3>1. rf[i] \in Rfsrv
      BY <2>1
    <3>2. [rf[i] EXCEPT !.pc = pc, !.log = LogAfter(i), !.lastApplied = last] \in Rfsrv
      BY <1>2, <2>2, <3>1, RfsrvExtended, Zenon
    <3> QED
      BY <2>3, <3>2
  <2>5. rf' \in [Servers -> Rfsrv] /\ \A j \in Servers \ {i} : rf'[j] = rf[j]
    BY <1>1, <2>1, <2>4
  <2>6. Goes(i, pc, rf[i].index, rf[i].cmd, rf[i].err, last, LogAfter(i))
    BY <2>1, <2>3, <2>5 DEF Goes, Rfsrv
  <2> QED
    BY <2>6 DEF pc, last
<1> QED
  BY <1>1, <1>2, <1>3

\* The answer to a live RPC moves its server; one to a dead process moves none.
LEMMA AnswerEffect ==
  ASSUME Types, NEW r \in calls, NEW pc \in {"idle", "checked", "refused"}, NEW err \in BOOLEAN,
         Answer(r, pc, err)
  PROVE  IF r.live THEN Goes(r.srv, pc, rf[r.srv].index, rf[r.srv].cmd, err,
                             rf[r.srv].lastApplied, rf[r.srv].log)
                   ELSE rf' = rf
<1>1. CASE r.live
  <2>1. rf' = [rf EXCEPT ![r.srv].pc = pc, ![r.srv].err = err] /\ r.srv \in Servers
    BY <1>1, Fields DEF Answer
  <2>2. rf \in [Servers -> Rfsrv]
    BY DEF Types
  <2> QED
    BY <1>1, <2>1, <2>2 DEF Goes, Rfsrv
<1>2. CASE ~r.live
  BY <1>2 DEF Answer
<1> QED
  BY <1>1, <1>2

Idling(i) == rf[i].pc \in {"down", "idle", "checked", "refused"}

\* A server that waits for nothing has no live RPC.
LEMMA NoLiveCall ==
  ASSUME Protocol, NEW i \in Servers, Idling(i)
  PROVE  \A r \in calls : r.srv = i => ~r.live
BY DEF Protocol, Waits, Idling

\* A server that waits for nothing sends a request.
LEMMA SendsProtocol ==
  ASSUME Types, Protocol, NEW i \in Servers, Idling(i),
         NEW pc, NEW index, NEW cmd, NEW err, NEW last, NEW log,
         Goes(i, pc, index, cmd, err, last, log),
         NEW r \in Call, r.srv = i, r.live, calls' = calls \cup {r},
         \/ pc = "checking" /\ r.kind = "CheckLogs" /\ r.index = index /\ r.cmd = cmd
            /\ index \in Indices /\ cmd \in Cmds
         \/ pc = "ingesting" /\ r.kind = "IngestLog" /\ r.log = log
         \/ pc = "reporting" /\ r.kind = "ApplyErr"
  PROVE  Protocol'
<1>1. \A q \in calls : q.srv = i => ~q.live
  BY NoLiveCall
<1>2. \A q \in calls : q.srv # i => rf'[q.srv] = rf[q.srv]
  BY Fields DEF Goes
<1>3. rf'[i].pc = pc /\ rf'[i].index = index /\ rf'[i].cmd = cmd /\ rf'[i].log = log
  BY DEF Goes
<1>4. \A q \in calls' : q.kind = "CheckLogs" => q.index \in Indices /\ q.cmd \in Cmds
  BY DEF Protocol
<1>5. ASSUME NEW q \in calls', q.live
      PROVE  /\ Waits(q.srv, q.kind)'
             /\ q.kind = "CheckLogs" => q.index = rf'[q.srv].index /\ q.cmd = rf'[q.srv].cmd
             /\ q.kind = "IngestLog" => q.log = rf'[q.srv].log
  <2>1. CASE q = r
    BY <1>3, <2>1 DEF Waits
  <2>2. CASE q # r
    BY <1>1, <1>2, <1>5, <2>2 DEF Waits, Protocol
  <2> QED
    BY <2>1, <2>2
<1>6. ASSUME NEW j \in Servers, rf'[j].pc \in {"checking", "ingesting", "reporting"}
      PROVE  \E q \in calls' : q.srv = j /\ q.live
  <2>1. CASE j = i
    BY <2>1
  <2>2. CASE j # i
    BY <1>6, <2>2 DEF Goes, Protocol
  <2> QED
    BY <2>1, <2>2
<1>7. \A p, q \in calls' : p.live /\ q.live /\ p.srv = q.srv => p = q
  BY <1>1 DEF Protocol
<1>8. \A j \in Servers : rf'[j].pc \in {"checking", "checked"} =>
        rf'[j].index \in Indices /\ rf'[j].cmd \in Cmds
  BY <1>3 DEF Goes, Protocol
<1> QED
  BY <1>4, <1>5, <1>6, <1>7, <1>8 DEF Protocol

\* A server that waits for nothing goes on without a request.
LEMMA MovesProtocol ==
  ASSUME Types, Protocol, NEW i \in Servers, Idling(i),
         NEW pc, NEW index, NEW cmd, NEW err, NEW last, NEW log,
         Goes(i, pc, index, cmd, err, last, log), calls' = calls,
         pc = "idle" \/ (pc = "checked" /\ index \in Indices /\ cmd \in Cmds)
  PROVE  Protocol'
<1>1. \A q \in calls : q.srv = i => ~q.live
  BY NoLiveCall
<1>2. \A q \in calls : q.srv # i => rf'[q.srv] = rf[q.srv]
  BY Fields DEF Goes
<1>3. rf'[i].pc = pc /\ rf'[i].index = index /\ rf'[i].cmd = cmd
  BY DEF Goes
<1>4. ASSUME NEW q \in calls', q.live
      PROVE  /\ Waits(q.srv, q.kind)'
             /\ q.kind = "CheckLogs" => q.index = rf'[q.srv].index /\ q.cmd = rf'[q.srv].cmd
             /\ q.kind = "IngestLog" => q.log = rf'[q.srv].log
  BY <1>1, <1>2, <1>4 DEF Waits, Protocol
<1>5. ASSUME NEW j \in Servers, rf'[j].pc \in {"checking", "ingesting", "reporting"}
      PROVE  \E q \in calls' : q.srv = j /\ q.live
  BY <1>3, <1>5 DEF Goes, Protocol
<1>6. \A j \in Servers : rf'[j].pc \in {"checking", "checked"} =>
        rf'[j].index \in Indices /\ rf'[j].cmd \in Cmds
  BY <1>3 DEF Goes, Protocol
<1> QED
  BY <1>4, <1>5, <1>6 DEF Protocol

\* The tester answers a server that waits, or drops a request of a dead one.
LEMMA AnsweredProtocol ==
  ASSUME Types, Protocol, NEW r \in calls, calls' = calls \ {r},
         IF r.live
         THEN \E pc \in {"idle", "checked", "refused"}, err \in BOOLEAN :
                /\ pc = "checked" => r.kind = "CheckLogs"
                /\ Goes(r.srv, pc, rf[r.srv].index, rf[r.srv].cmd, err,
                        rf[r.srv].lastApplied, rf[r.srv].log)
         ELSE rf' = rf
  PROVE  Protocol'
<1>1. CASE ~r.live
  BY <1>1 DEF Protocol, Waits
<1>2. CASE r.live
  <2>1. PICK pc \in {"idle", "checked", "refused"}, err \in BOOLEAN :
          /\ pc = "checked" => r.kind = "CheckLogs"
          /\ Goes(r.srv, pc, rf[r.srv].index, rf[r.srv].cmd, err,
                  rf[r.srv].lastApplied, rf[r.srv].log)
    BY <1>2
  <2>2. r.srv \in Servers
    BY Fields
  <2>3. \A q \in calls' : q.live => q.srv # r.srv
    BY <1>2 DEF Protocol
  <2>4. \A q \in calls' : q.live => rf'[q.srv] = rf[q.srv]
    BY <2>1, <2>3, Fields DEF Goes
  <2>5. /\ \A q \in calls' : q.kind = "CheckLogs" => q.index \in Indices /\ q.cmd \in Cmds
        /\ \A p, q \in calls' : p.live /\ q.live /\ p.srv = q.srv => p = q
    BY DEF Protocol
  <2>6. ASSUME NEW q \in calls', q.live
        PROVE  /\ Waits(q.srv, q.kind)'
               /\ q.kind = "CheckLogs" => q.index = rf'[q.srv].index /\ q.cmd = rf'[q.srv].cmd
               /\ q.kind = "IngestLog" => q.log = rf'[q.srv].log
    BY <2>4, <2>6 DEF Waits, Protocol
  <2>7. ASSUME NEW j \in Servers, rf'[j].pc \in {"checking", "ingesting", "reporting"}
        PROVE  \E q \in calls' : q.srv = j /\ q.live
    <3>1. j # r.srv /\ rf'[j] = rf[j]
      BY <2>1, <2>2, <2>7 DEF Goes
    <3> QED
      BY <2>7, <3>1 DEF Protocol
  <2>8. ASSUME NEW j \in Servers, rf'[j].pc \in {"checking", "checked"}
        PROVE  rf'[j].index \in Indices /\ rf'[j].cmd \in Cmds
    <3>1. CASE j # r.srv
      BY <2>1, <2>2, <2>8, <3>1 DEF Goes, Protocol
    <3>2. CASE j = r.srv
      BY <1>2, <2>1, <2>2, <2>8, <3>2 DEF Goes, Protocol, Waits
    <3> QED
      BY <3>1, <3>2
  <2> QED
    BY <2>5, <2>6, <2>7, <2>8 DEF Protocol
<1> QED
  BY <1>1, <1>2

Shape == Types /\ Protocol

\* The types of the variables, one by one.
LEMMA StateTypes ==
  ASSUME Shape
  PROVE  /\ committed \in Seq(Cmds) /\ sent \in [Servers -> 0 .. MaxIndex]
         /\ rf \in [Servers -> Rfsrv] /\ calls \subseteq Call
         /\ logs \in [Servers -> [Indices -> Cmds \cup {None}]]
BY Zenon DEF Shape, Types, Log

\* A server that ingests a snapshot has its log and waits for IngestLog.
LEMMA IngestedSnap ==
  ASSUME Types, NEW i \in Servers, NEW j \in Servers, rf' = [rf EXCEPT ![i] = Ingested(i, snap[j])]
  PROVE  Goes(i, "ingesting", 0, None, FALSE, snap[j].index, snap[j].log)
<1>1. /\ rf \in [Servers -> Rfsrv] /\ snap[j].index \in 0 .. MaxIndex /\ snap[j].log \in Log
  BY DEF Types
<1>a. PICK me : me = Ingested(i, snap[j])
  OBVIOUS
<1>2. /\ me \in Rfsrv /\ me.pc = "ingesting" /\ me.index = 0 /\ me.cmd = None
      /\ me.err = FALSE /\ me.lastApplied = snap[j].index /\ me.log = snap[j].log
  BY <1>1, <1>a, Basics, Zenon DEF Ingested, Down, Rfsrv
<1>3. rf' = [rf EXCEPT ![i] = me]
  BY <1>a
<1> QED
  BY <1>1, <1>2, <1>3 DEF Goes

\* Apply keeps types and protocol.
LEMMA ApplyShape ==
  ASSUME Shape, NEW i \in Servers, Apply(i)
  PROVE  Shape'
<1>1. PICK k \in Indices, v \in Cmds, gap \in BOOLEAN :
        /\ Deliverable(i, k, v)
        /\ sent' = [sent EXCEPT ![i] = k]
        /\ Goes(i, IF gap THEN "checked" ELSE "checking", k, v, gap, rf[i].lastApplied, rf[i].log)
        /\ calls' = IF gap THEN calls ELSE calls \cup {Request("CheckLogs", i, k, v, EmptyLog)}
  BY ApplyEffect DEF Shape
<1>2. /\ Idling(i) /\ UNCHANGED <<raftVars, snap, testerVars, one, kills>>
  BY DEF Apply, Idling
<1> DEFINE r == Request("CheckLogs", i, k, v, EmptyLog)
<1>3. r \in Call /\ r.kind = "CheckLogs" /\ r.srv = i /\ r.index = k /\ r.cmd = v /\ r.live
  BY Basics DEF Request, Call
<1> HIDE DEF r
<1>4. Protocol'
  <2>1. CASE gap
    BY <1>1, <1>2, <2>1, MovesProtocol, Zenon DEF Shape
  <2>2. CASE ~gap
    BY <1>1, <1>2, <1>3, <2>2, SendsProtocol DEF Shape, r
  <2> QED
    BY <2>1, <2>2
<1>5. Types'
  <2>1. faults' \in Nat
    BY <1>1 DEF Deliverable, Shape, Types
  <2>2. sent' \in [Servers -> 0 .. MaxIndex]
    BY <1>1, Basics DEF Shape, Types
  <2>3. calls' \subseteq Call
    BY <1>1, <1>3 DEF Shape, Types, r
  <2> QED
    BY <1>1, <1>2, <2>1, <2>2, <2>3 DEF Shape, Types, Goes, raftVars, testerVars
<1> QED
  BY <1>4, <1>5 DEF Shape

\* So does the snapshot case of the applier.
LEMMA ApplySnapshotShape ==
  ASSUME Shape, NEW i \in Servers, ApplySnapshot(i)
  PROVE  Shape'
<1>1. PICK j \in Servers :
        /\ sent' = [sent EXCEPT ![i] = snap[j].index]
        /\ snap' = [snap EXCEPT ![i] = snap[j]]
        /\ rf' = [rf EXCEPT ![i] = Ingested(i, snap[j])]
        /\ calls' = calls \cup {Request("IngestLog", i, 0, None, snap[j].log)}
  BY Zenon DEF ApplySnapshot
<1>2. Idling(i) /\ UNCHANGED <<raftVars, testerVars, one, kills, faults>>
  BY DEF ApplySnapshot, Idling
<1> DEFINE r == Request("IngestLog", i, 0, None, snap[j].log)
<1>3. r \in Call /\ r.kind = "IngestLog" /\ r.srv = i /\ r.log = snap[j].log /\ r.live
  BY Basics, Fields, Zenon DEF Shape, Request, Call
<1>4. Goes(i, "ingesting", 0, None, FALSE, snap[j].index, snap[j].log)
  BY <1>1, IngestedSnap, Zenon DEF Shape
<1> HIDE DEF r
<1>5. Protocol'
  BY <1>1, <1>2, <1>3, <1>4, SendsProtocol, ZenonT(40) DEF Shape, r
<1>6. Types'
  <2>1. sent' \in [Servers -> 0 .. MaxIndex] /\ snap' \in [Servers -> [index : 0 .. MaxIndex, log : Log]]
    BY <1>1 DEF Shape, Types
  <2>2. calls' \subseteq Call
    BY <1>1, <1>3 DEF Shape, Types, r
  <2> QED
    BY <1>2, <1>4, <2>1, <2>2 DEF Shape, Types, Goes, raftVars, testerVars
<1> QED
  BY <1>5, <1>6 DEF Shape

\* A step of a server that changes nothing but its place and its error.
LEMMA MovesGoes ==
  ASSUME Types, NEW i \in Servers, NEW pc \in {"ingesting", "reporting"}, NEW err \in BOOLEAN,
         rf' = [rf EXCEPT ![i].pc = pc, ![i].err = err]
  PROVE  Goes(i, pc, rf[i].index, rf[i].cmd, err, rf[i].lastApplied, rf[i].log)
<1>1. rf \in [Servers -> Rfsrv]
  BY DEF Types
<1> QED
  BY <1>1 DEF Goes, Rfsrv

\* So does the refusal of a snapshot: the server reports the log it has.
LEMMA RefuseShape ==
  ASSUME Shape, NEW i \in Servers, RefuseSnapshot(i)
  PROVE  Shape'
<1> DEFINE r == Request("IngestLog", i, 0, None, rf[i].log)
<1>1. PICK k \in Indices : sent' = [sent EXCEPT ![i] = k]
  BY Zenon DEF RefuseSnapshot
<1>2. /\ Idling(i) /\ UNCHANGED <<raftVars, snap, testerVars, one, kills>>
      /\ faults' = faults + 1 /\ calls' = calls \cup {r}
      /\ rf' = [rf EXCEPT ![i].pc = "ingesting", ![i].err = TRUE]
  BY DEF RefuseSnapshot, Idling
<1>3. r \in Call /\ r.kind = "IngestLog" /\ r.srv = i /\ r.log = rf[i].log /\ r.live
  BY Basics, Fields, Zenon DEF Shape, Request, Call
<1>4. Goes(i, "ingesting", rf[i].index, rf[i].cmd, TRUE, rf[i].lastApplied, rf[i].log)
  BY <1>2, MovesGoes, Zenon DEF Shape
<1> HIDE DEF r
<1>5. Protocol'
  BY <1>2, <1>3, <1>4, SendsProtocol, ZenonT(40) DEF Shape
<1>6. Types'
  <2>1. sent' \in [Servers -> 0 .. MaxIndex] /\ faults' \in Nat
    BY <1>1, <1>2, Basics DEF Shape, Types
  <2>2. calls' \subseteq Call
    BY <1>2, <1>3 DEF Shape, Types
  <2> QED
    BY <1>2, <1>4, <2>1, <2>2 DEF Shape, Types, Goes, raftVars, testerVars
<1> QED
  BY <1>5, <1>6 DEF Shape

\* Then the server reports the error.
LEMMA RefusedGoes ==
  ASSUME Shape, NEW i \in Servers, ReportRefused(i)
  PROVE  Goes(i, "reporting", rf[i].index, rf[i].cmd, rf[i].err, rf[i].lastApplied, rf[i].log)
<1>1. rf \in [Servers -> Rfsrv] /\ rf' = [rf EXCEPT ![i].pc = "reporting"]
  BY DEF Shape, Types, ReportRefused
<1> QED
  BY <1>1 DEF Goes, Rfsrv

\* And so does that report.
LEMMA ReportRefusedShape ==
  ASSUME Shape, NEW i \in Servers, ReportRefused(i)
  PROVE  Shape'
<1> DEFINE r == Request("ApplyErr", i, 0, None, EmptyLog)
<1>1. /\ Idling(i) /\ UNCHANGED <<raftVars, sent, snap, testerVars, one, kills, faults>>
      /\ calls' = calls \cup {r}
  BY DEF ReportRefused, Idling
<1>2. r \in Call /\ r.kind = "ApplyErr" /\ r.srv = i /\ r.live
  BY Basics, Zenon DEF Request, Call
<1> HIDE DEF r
<1>3. Protocol'
  BY <1>1, <1>2, RefusedGoes, SendsProtocol, ZenonT(40) DEF Shape
<1>4. calls' \subseteq Call
  BY <1>1, <1>2 DEF Shape, Types
<1> QED
  BY <1>1, <1>3, <1>4, RefusedGoes DEF Shape, Types, Goes, raftVars, testerVars

\* So does the step after CheckLogs.
LEMMA CheckedShape ==
  ASSUME Shape, NEW i \in Servers, Checked(i)
  PROVE  Shape'
<1> DEFINE k == rf[i].index
           r == Request("ApplyErr", i, k, None, EmptyLog)
           last == IF snapshots THEN k ELSE rf[i].lastApplied
<1>1. /\ LogAfter(i) \in Log
      /\ Goes(i, IF rf[i].err THEN "reporting" ELSE "idle", k, rf[i].cmd, rf[i].err, last, LogAfter(i))
      /\ snap' = IF snapshots /\ (k + 1) % SnapShotInterval = 0
                 THEN [snap EXCEPT ![i] = [index |-> k, log |-> LogAfter(i)]] ELSE snap
  BY CheckedEffect DEF Shape
<1>2. /\ Idling(i) /\ UNCHANGED <<raftVars, sent, testerVars, one, kills, faults>>
      /\ calls' = IF rf[i].err THEN calls \cup {r} ELSE calls
  BY DEF Checked, Idling
<1>3. r \in Call /\ r.kind = "ApplyErr" /\ r.srv = i /\ r.live
  BY Basics, Fields, Zenon DEF Shape, Request, Call
<1> HIDE DEF r, last
<1>4. Protocol'
  <2>1. CASE rf[i].err
    BY <1>1, <1>2, <1>3, <2>1, SendsProtocol, Zenon DEF Shape
  <2>2. CASE ~rf[i].err
    BY <1>1, <1>2, <2>2, MovesProtocol DEF Shape
  <2> QED
    BY <2>1, <2>2
<1>5. Types'
  <2>1. snap' \in [Servers -> [index : 0 .. MaxIndex, log : Log]]
    BY <1>1, Fields DEF Shape, Types
  <2>2. calls' \subseteq Call
    BY <1>2, <1>3 DEF Shape, Types
  <2> QED
    BY <1>1, <1>2, <2>1, <2>2 DEF Shape, Types, Goes, raftVars, testerVars
<1> QED
  BY <1>4, <1>5 DEF Shape

\* So does a handler of the tester, for a live process or a dead one.
LEMMA HandleShape ==
  ASSUME Shape, NEW r \in calls, Handle(r)
  PROVE  Shape'
<1>1. /\ calls' = calls \ {r} /\ r.srv \in Servers
      /\ UNCHANGED <<raftVars, sent, snap, one, kills, faults>>
      /\ overtaken' \in BOOLEAN
  BY Fields DEF Handle, Shape, Types
<1>2. PICK pc \in {"idle", "checked", "refused"}, err \in BOOLEAN :
        /\ Answer(r, pc, err) /\ (pc = "checked" => r.kind = "CheckLogs")
        /\ logs' \in [Servers -> Log] /\ applyErr' \in [Servers -> BOOLEAN]
  <2>1. CASE CheckLogs(r)
    <3>1. r.index \in Indices /\ r.cmd \in Cmds
      BY <2>1 DEF CheckLogs, Shape, Protocol
    <3>2. PICK err \in BOOLEAN : Answer(r, "checked", err)
      BY <2>1, Zenon DEF CheckLogs
    <3>3. logs' \in [Servers -> Log]
      <4>1. [logs[r.srv] EXCEPT ![r.index] = r.cmd] \in Log /\ logs \in [Servers -> Log]
        BY <1>1, <3>1 DEF Shape, Types, Log
      <4>2. logs' = [logs EXCEPT ![r.srv] = [logs[r.srv] EXCEPT ![r.index] = r.cmd]]
        BY <2>1 DEF CheckLogs
      <4> QED
        BY <4>1, <4>2, Zenon
    <3> QED
      BY <2>1, <3>2, <3>3, Zenon DEF CheckLogs, Shape, Types
  <2>2. CASE IngestLog(r)
    <3>1. logs' \in [Servers -> Log]
      BY <1>1, <2>2, Fields DEF IngestLog, Shape, Types
    <3>2. PICK err \in BOOLEAN : Answer(r, IF err THEN "refused" ELSE "idle", err)
      BY <1>1, <2>2, Fields, Zenon DEF IngestLog, Shape
    <3> QED
      BY <2>2, <3>1, <3>2, Zenon DEF IngestLog, Shape, Types
  <2>3. CASE ApplyErr(r)
    BY <1>1, <2>3, Zenon DEF ApplyErr, Shape, Types
  <2> QED
    BY <2>1, <2>2, <2>3 DEF Handle
<1>3. IF r.live THEN Goes(r.srv, pc, rf[r.srv].index, rf[r.srv].cmd, err,
                          rf[r.srv].lastApplied, rf[r.srv].log)
                ELSE rf' = rf
  BY <1>2, AnswerEffect DEF Shape
<1>4. Protocol'
  BY <1>1, <1>2, <1>3, AnsweredProtocol DEF Shape
<1>5. Types'
  <2>1. rf' \in [Servers -> Rfsrv]
    BY <1>3 DEF Goes, Shape, Types
  <2> QED
    BY <1>1, <1>2, <2>1 DEF Shape, Types, raftVars
<1> QED
  BY <1>4, <1>5 DEF Shape

\* So does the loss of an RPC of a dead process.
LEMMA LoseShape ==
  ASSUME Shape, NEW r \in calls, Lose(r)
  PROVE  Shape'
<1>1. /\ calls' = calls \ {r} /\ ~r.live /\ rf' = rf
      /\ UNCHANGED <<raftVars, serverVars, testerVars, one, kills, faults>>
  BY DEF Lose, serverVars
<1>2. Protocol'
  BY <1>1, AnsweredProtocol DEF Shape
<1> QED
  BY <1>1, <1>2 DEF Shape, Types, raftVars, serverVars, testerVars

\* The requests after the death of server i.
Dead(i, r) == IF r.srv = i THEN [r EXCEPT !.live = FALSE] ELSE r

\* A kill changes nothing in an RPC but whether its caller is alive.
LEMMA DeadFields ==
  ASSUME NEW i \in Servers, NEW r \in Call
  PROVE  /\ Dead(i, r) \in Call
         /\ Dead(i, r).kind = r.kind /\ Dead(i, r).srv = r.srv /\ Dead(i, r).index = r.index
         /\ Dead(i, r).cmd = r.cmd /\ Dead(i, r).log = r.log
         /\ Dead(i, r).live = (r.live /\ r.srv # i)
         /\ r.srv # i => Dead(i, r) = r
BY Zenon DEF Dead, Call

\* A kill keeps types and protocol: the RPC of the process is live no more.
LEMMA KillShape ==
  ASSUME Shape, NEW i \in Servers, Kill(i)
  PROVE  Shape'
<1>1. /\ rf' = [rf EXCEPT ![i] = Down] /\ calls' = {Dead(i, r) : r \in calls}
      /\ UNCHANGED <<raftVars, sent, snap, testerVars, one, faults>>
  BY DEF Kill, Dead
<1>2. rf' \in [Servers -> Rfsrv] /\ rf'[i].pc = "down" /\ \A j \in Servers \ {i} : rf'[j] = rf[j]
  <2>1. Down.pc = "down"
    BY DEF Down
  <2> QED
    BY <1>1, <2>1, Basics DEF Shape, Types
<1>3. calls \subseteq Call
  BY DEF Shape, Types
<1>4. calls' \subseteq Call
  BY <1>1, <1>3, DeadFields
<1>5. ASSUME NEW q \in calls', q.live
      PROVE  q \in calls /\ q.srv # i /\ q.srv \in Servers
  <2>1. PICK r \in calls : q = Dead(i, r)
    BY <1>1
  <2>2. r \in Call /\ r.srv \in Servers
    BY <1>3 DEF Call
  <2> QED
    BY <1>5, <2>1, <2>2, DeadFields, ZenonT(40)
<1>6. \A q \in calls : q.srv # i => q \in calls'
  BY <1>1, <1>3, DeadFields
<1>7. Protocol'
  <2>1. ASSUME NEW q \in calls', q.kind = "CheckLogs"
        PROVE  q.index \in Indices /\ q.cmd \in Cmds
    <3>1. PICK r \in calls : q = Dead(i, r)
      BY <1>1, Zenon
    <3>2. q.kind = r.kind /\ q.index = r.index /\ q.cmd = r.cmd
      BY <1>3, <3>1, DeadFields, Zenon
    <3> QED
      BY <2>1, <3>2, Zenon DEF Shape, Protocol
  <2>2. ASSUME NEW q \in calls', q.live
        PROVE  /\ Waits(q.srv, q.kind)'
               /\ q.kind = "CheckLogs" => q.index = rf'[q.srv].index /\ q.cmd = rf'[q.srv].cmd
               /\ q.kind = "IngestLog" => q.log = rf'[q.srv].log
    <3>1. q \in calls /\ rf'[q.srv] = rf[q.srv]
      BY <1>2, <1>5, <2>2
    <3> QED
      BY <2>2, <3>1 DEF Shape, Protocol, Waits
  <2>3. ASSUME NEW j \in Servers, rf'[j].pc \in {"checking", "ingesting", "reporting"}
        PROVE  \E q \in calls' : q.srv = j /\ q.live
    <3>1. j # i /\ rf'[j] = rf[j]
      BY <1>2, <2>3
    <3>2. PICK q \in calls : q.srv = j /\ q.live
      BY <2>3, <3>1 DEF Shape, Protocol
    <3> QED
      BY <1>6, <3>1, <3>2
  <2>4. \A p, q \in calls' : p.live /\ q.live /\ p.srv = q.srv => p = q
    BY <1>5 DEF Shape, Protocol
  <2>5. \A j \in Servers : rf'[j].pc \in {"checking", "checked"} =>
          rf'[j].index \in Indices /\ rf'[j].cmd \in Cmds
    BY <1>2 DEF Shape, Protocol
  <2> QED
    BY <2>1, <2>2, <2>3, <2>4, <2>5 DEF Protocol
<1>8. Types'
  BY <1>1, <1>2, <1>4 DEF Shape, Types, raftVars, testerVars
<1> QED
  BY <1>7, <1>8 DEF Shape

\* So does a restart, with a snapshot or without.
LEMMA RestartShape ==
  ASSUME Shape, NEW i \in Servers, Restart(i)
  PROVE  Shape'
<1>1. /\ Idling(i) /\ sent' = [sent EXCEPT ![i] = snap[i].index]
      /\ UNCHANGED <<raftVars, snap, testerVars, one, kills, faults>>
  BY DEF Restart, Idling
<1>2. sent' \in [Servers -> 0 .. MaxIndex]
  BY <1>1 DEF Shape, Types
<1>3. CASE snap[i].index > 0
  <2>1. /\ rf' = [rf EXCEPT ![i] = Ingested(i, snap[i])]
        /\ calls' = calls \cup {Request("IngestLog", i, 0, None, snap[i].log)}
    BY <1>3 DEF Restart
  <2> DEFINE r == Request("IngestLog", i, 0, None, snap[i].log)
  <2>2. r \in Call /\ r.kind = "IngestLog" /\ r.srv = i /\ r.log = snap[i].log /\ r.live
    BY Basics, Fields, Zenon DEF Shape, Request, Call
  <2>3. Goes(i, "ingesting", 0, None, FALSE, snap[i].index, snap[i].log)
    BY <2>1, IngestedSnap, Zenon DEF Shape
  <2> HIDE DEF r
  <2>4. Protocol'
    BY <1>1, <2>1, <2>2, <2>3, SendsProtocol, ZenonT(40) DEF Shape, r
  <2>5. calls' \subseteq Call
    BY <2>1, <2>2 DEF Shape, Types, r
  <2> QED
    BY <1>1, <1>2, <2>3, <2>4, <2>5 DEF Shape, Types, Goes, raftVars, testerVars
<1>4. CASE ~(snap[i].index > 0)
  <2>1. rf' = [rf EXCEPT ![i].pc = "idle"] /\ calls' = calls
    BY <1>4 DEF Restart
  <2>2. rf \in [Servers -> Rfsrv]
    BY DEF Shape, Types
  <2>3. Goes(i, "idle", rf[i].index, rf[i].cmd, rf[i].err, rf[i].lastApplied, rf[i].log)
    BY <2>1, <2>2 DEF Goes, Rfsrv
  <2>4. Protocol'
    BY <1>1, <2>1, <2>3, MovesProtocol DEF Shape
  <2> QED
    BY <1>1, <1>2, <2>1, <2>3, <2>4 DEF Shape, Types, Goes, raftVars, testerVars
<1> QED
  BY <1>3, <1>4

\* The steps of Raft and of the test's thread leave the servers alone.
TestStep ==
  /\ UNCHANGED <<snapshots, faults, overtaken, sent, snap, rf, calls, logs, applyErr>>
  /\ committed \in Seq(Cmds)
  /\ committed' = committed \/ \E v \in Cmds : committed' = Append(committed, v)

\* So do the steps of Raft's log and of one(), which touch no server.
LEMMA TestStepShape ==
  ASSUME Shape, Commit \/ CallOne \/ StartCmd \/ Poll \/ Timeout \/ OneDone
  PROVE  Shape' /\ TestStep
<1>1. TestStep
  BY Zenon DEF Commit, CallOne, StartCmd, Poll, Timeout, OneDone, TestStep, raftVars, serverVars, testerVars,
         Shape, Types
<1>2. Protocol'
  BY <1>1 DEF TestStep, Shape, Protocol, Waits
<1>3. one \in One /\ MaxIndex \in Nat /\ Len(committed) \in Nat /\ proposed \subseteq Indices \X Cmds
      /\ Len(committed) <= MaxIndex
  BY RaftTestAssumption DEF Shape, Types
<1>4. /\ one' \in One /\ (one'.pc \in {"waiting", "returned"} => one'.index \in Indices)
      /\ (one'.pc # "idle" => one'.cmd \in Cmds)
      /\ committed' \in Seq(Cmds) /\ Len(committed') <= MaxIndex
      /\ proposed' \subseteq Indices \X Cmds
  <2>1. CASE Commit
    <3>1. PICK v \in Cmds : /\ <<Len(committed) + 1, v>> \in proposed
                            /\ committed' = Append(committed, v)
      BY <2>1 DEF Commit
    <3>2. Len(committed) + 1 \in Indices
      BY <1>3, <3>1
    <3>3. Len(committed') = Len(committed) + 1 /\ committed' \in Seq(Cmds)
      BY <3>1 DEF Shape, Types
    <3>4. UNCHANGED <<one, proposed>>
      BY <2>1 DEF Commit
    <3> QED
      BY <1>3, <3>2, <3>3, <3>4 DEF Shape, Types, Indices
  <2>2. CASE CallOne
    <3>1. PICK v \in Cmds, n \in 1 .. Cardinality(Servers), retry \in BOOLEAN :
            one' = [pc |-> "trying", cmd |-> v, need |-> n, index |-> 0, retry |-> retry,
                    n |-> one.n + 1]
      BY <2>2 DEF CallOne
    <3>2. n \in Nat /\ one.n + 1 \in Nat
      BY <1>3 DEF One
    <3>3. one' \in One /\ one'.pc = "trying" /\ one'.cmd \in Cmds
      BY <3>1, <3>2, Basics DEF One
    <3>4. UNCHANGED <<committed, proposed>>
      BY <2>2 DEF CallOne, raftVars
    <3> QED
      BY <3>3, <3>4 DEF Shape, Types
  <2>3. CASE StartCmd
    <3>1. PICK k \in Indices :
            /\ proposed' \subseteq proposed \cup {<<k, one.cmd>>}
            /\ one' = [one EXCEPT !.pc = "waiting", !.index = k]
      BY <2>3, Zenon DEF StartCmd
    <3>2. k \in 0 .. MaxIndex
      BY Basics
    <3>3. one.cmd \in Cmds
      BY <2>3, Zenon DEF StartCmd, Shape, Types
    <3>4. one' \in One /\ one'.index = k /\ one'.pc = "waiting" /\ one'.cmd = one.cmd
      BY <1>3, <3>1, <3>2, Zenon DEF One
    <3>5. UNCHANGED committed
      BY <2>3, Zenon DEF StartCmd
    <3> QED
      BY <1>3, <3>1, <3>2, <3>3, <3>4, <3>5 DEF Shape, Types
  <2>4. CASE Poll
    <3>1. PICK pc \in {"applyError", "mismatch", "returned"} : one' = [one EXCEPT !.pc = pc]
      BY <2>4 DEF Poll
    <3>2. one' \in One /\ one'.index = one.index /\ one'.cmd = one.cmd /\ one.pc = "waiting"
      BY <1>3, <2>4, <3>1 DEF One, Poll
    <3> QED
      BY <2>4, <3>2 DEF Poll, raftVars, Shape, Types
  <2>5. CASE Timeout
    <3>1. PICK pc \in {"trying", "noAgreement"} : one' = [one EXCEPT !.pc = pc, !.index = 0]
      BY <2>5, Zenon DEF Timeout
    <3>2. one' \in One /\ one'.pc = pc /\ one'.cmd = one.cmd /\ one.pc # "idle"
      BY <1>3, <2>5, <3>1, Basics, Zenon DEF One, Timeout
    <3> QED
      BY <2>5, <3>2 DEF Timeout, raftVars, Shape, Types
  <2>6. CASE OneDone
    <3>1. one' = NoOne(one.n) /\ one.n \in Nat
      BY <1>3, <2>6 DEF OneDone, One
    <3>2. one' \in One /\ one'.pc = "idle"
      BY <3>1, Basics DEF NoOne, One
    <3> QED
      BY <2>6, <3>2 DEF OneDone, raftVars, Shape, Types
  <2> QED
    BY <2>1, <2>2, <2>3, <2>4, <2>5, <2>6
<1>5. Types'
  BY <1>1, <1>4 DEF TestStep, Shape, Types
<1> QED
  BY <1>1, <1>2, <1>5 DEF Shape

\* Every step keeps types and protocol.
LEMMA NextShape == Shape /\ [Next]_vars => Shape'
<1> SUFFICES ASSUME Shape, [Next]_vars PROVE Shape'
  OBVIOUS
<1>1. CASE UNCHANGED vars
  BY <1>1, Zenon DEF vars, Shape, Types, Protocol, Waits
<1>2. ASSUME NEW i \in Servers, Server(i) \/ Kill(i) \/ Restart(i) PROVE Shape'
  BY <1>2, ApplyShape, ApplySnapshotShape, RefuseShape, ReportRefusedShape, CheckedShape, KillShape,
     RestartShape, Zenon DEF Server
<1>3. ASSUME NEW r \in calls, Handle(r) \/ Lose(r) PROVE Shape'
  BY <1>3, HandleShape, LoseShape
<1>4. ASSUME Commit \/ CallOne \/ StartCmd \/ Poll \/ Timeout \/ OneDone PROVE Shape'
  BY <1>4, TestStepShape
<1> QED
  BY <1>1, <1>2, <1>3, <1>4 DEF Next

\* They imply TypeOK.
LEMMA ShapeTypeOK == Shape => TypeOK
<1> SUFFICES ASSUME Shape PROVE TypeOK
  OBVIOUS
<1>1. ASSUME NEW i \in Servers, NEW r \in calls, r.srv = i, r.live
      PROVE  rf[i].pc \in {"checking", "ingesting", "reporting"}
  BY <1>1 DEF Shape, Protocol, Waits
<1>2. \A i \in Servers : rf[i].pc \in {"checking", "ingesting", "reporting"} =>
        \E r \in calls : r.srv = i /\ r.live
  BY DEF Shape, Protocol
<1> QED
  BY <1>1, <1>2 DEF Shape, Types, TypeOK

\* The types of the harness, and that an applier waits exactly while one of
\* its RPCs is open: no kill, restart or lost report leaves it waiting for an
\* answer that nobody will give.
THEOREM TypeCorrect == Spec => []TypeOK
<1>1. Init => Shape
  BY InitTypes DEF Shape
<1> QED
  BY <1>1, NextShape, ShapeTypeOK, PTL DEF Spec

-----------------------------------------------------------------------------
(* What the servers and the tester hold of the committed log.              *)

\* The log holds the first n committed entries and no others.
IsPrefix(log, n) ==
  /\ n <= Len(committed)
  /\ \A k \in Indices : log[k] = IF k <= n THEN committed[k] ELSE None

\* v is the committed entry at k.
IsEntry(k, v) == k \in 1 .. Len(committed) /\ v = committed[k]

\* A server follows a Raft that keeps its promises: where it is in the log.
Follows(i) ==
  /\ sent[i] <= Len(committed)
  /\ IsPrefix(snap[i].log, snap[i].index)
  /\ IsPrefix(rf[i].log, rf[i].lastApplied)
  /\ rf[i].pc \in {"checking", "checked"} =>
       /\ rf[i].index = sent[i] /\ IsEntry(rf[i].index, rf[i].cmd)
       /\ snapshots => rf[i].index = rf[i].lastApplied + 1
  /\ rf[i].pc = "ingesting" => sent[i] = rf[i].lastApplied
  /\ snapshots /\ rf[i].pc \in {"idle", "refused", "reporting"} => sent[i] = rf[i].lastApplied
  /\ rf[i].pc = "down" => rf[i].lastApplied = 0

\* A report, even of a dead server, is of committed entries.
Truthful(r) ==
  /\ r.kind = "CheckLogs" => IsEntry(r.index, r.cmd)
  /\ r.kind = "IngestLog" => \E n \in 0 .. MaxIndex : IsPrefix(r.log, n)

\* The tester knows committed entries only.
Known == \A i \in Servers, k \in Indices : logs[i][k] # None => IsEntry(k, logs[i][k])

\* one() found no mismatch, and returns the place of its command.
Decided == one.pc # "mismatch" /\ (one.pc = "returned" => IsEntry(one.index, one.cmd))

Faithful ==
  /\ \A i \in Servers : Follows(i)
  /\ \A r \in calls : Truthful(r)
  /\ Known /\ Decided

\* The tester has the entries up to n of server i.
Reported(i, n) == \A k \in Indices : k <= n => logs[i][k] # None

\* Nothing went wrong at server i, and the tester has what its applier was
\* told before.
Settled(i) ==
  /\ applyErr[i] = FALSE /\ rf[i].err = FALSE /\ rf[i].pc \notin {"refused", "reporting"}
  /\ rf[i].pc \in {"idle", "checked"} => Reported(i, sent[i])
  /\ rf[i].pc = "checking" => Reported(i, sent[i] - 1)

Quiet ==
  /\ \A i \in Servers : Settled(i)
  /\ \A r \in calls : r.kind # "ApplyErr"
  /\ one.pc # "applyError"

-----------------------------------------------------------------------------
(* Over a Raft that keeps its promises the reports are of committed        *)
(* entries.                                                                *)

\* What is committed stays what it is.
LEMMA SameLog ==
  ASSUME committed' = committed
  PROVE  /\ \A log, n : IsPrefix(log, n)' <=> IsPrefix(log, n)
         /\ \A k, v : IsEntry(k, v)' <=> IsEntry(k, v)
BY DEF IsPrefix, IsEntry

\* The committed log only grows.
LEMMA LongerLog ==
  ASSUME TestStep
  PROVE  /\ \A k, v : IsEntry(k, v) => IsEntry(k, v)'
         /\ \A log, n : n \in Nat /\ IsPrefix(log, n) => IsPrefix(log, n)'
         /\ Len(committed) <= Len(committed')
<1>1. /\ Len(committed) \in Nat /\ Len(committed') \in Nat /\ Len(committed) <= Len(committed')
      /\ \A k \in 1 .. Len(committed) : committed'[k] = committed[k]
  BY DEF TestStep
<1>2. ASSUME NEW k, NEW v, IsEntry(k, v) PROVE IsEntry(k, v)'
  BY <1>1, <1>2 DEF IsEntry
<1>3. ASSUME NEW log, NEW n \in Nat, IsPrefix(log, n) PROVE IsPrefix(log, n)'
  <2>1. n <= Len(committed')
    BY <1>1, <1>3 DEF IsPrefix
  <2>2. \A k \in Indices : k <= n => committed'[k] = committed[k]
    BY <1>1, <1>3 DEF IsPrefix, Indices
  <2> QED
    BY <1>3, <2>1, <2>2 DEF IsPrefix
<1> QED
  BY <1>1, <1>2, <1>3

\* A server that does not move goes on following.
LEMMA Others ==
  ASSUME committed' = committed, snapshots' = snapshots, NEW i \in Servers, NEW j \in Servers \ {i},
         rf'[j] = rf[j], sent'[j] = sent[j], snap'[j] = snap[j], Follows(j)
  PROVE  Follows(j)'
BY SameLog DEF Follows

\* The empty log holds the first 0 entries.
LEMMA EmptyPrefix ==
  ASSUME Shape
  PROVE  IsPrefix(EmptyLog, 0)
BY DEF IsPrefix, EmptyLog, Indices, Shape, Types

\* A log with the first n entries and the next one has the first n + 1.
LEMMA NextPrefix ==
  ASSUME NEW log \in Log, NEW n \in Nat, NEW k \in Indices, k = n + 1, NEW v,
         IsPrefix(log, n), IsEntry(k, v), committed \in Seq(Cmds)
  PROVE  IsPrefix([log EXCEPT ![k] = v], k)
BY DEF IsPrefix, IsEntry, Log, Indices

\* At first no log holds anything.
LEMMA InitFaithful == Init => Faithful
<1> SUFFICES ASSUME Init PROVE Faithful
  OBVIOUS
<1>1. Shape
  BY InitTypes DEF Shape
<1>2. IsPrefix(EmptyLog, 0)
  BY <1>1, EmptyPrefix
<1>3. ASSUME NEW i \in Servers PROVE Follows(i)
  <2>1. /\ rf[i].pc = "idle" /\ rf[i].lastApplied = 0 /\ rf[i].log = EmptyLog
        /\ snap[i].index = 0 /\ snap[i].log = EmptyLog /\ sent[i] = 0 /\ Len(committed) = 0
    BY DEF Init, Down
  <2> QED
    BY <1>2, <2>1 DEF Follows
<1>4. Known
  BY DEF Init, Known, EmptyLog
<1> QED
  BY <1>3, <1>4 DEF Faithful, Init, Decided, NoOne

\* Raft delivers the next committed entry.
LEMMA ApplyFaithful ==
  ASSUME Shape, Faithful, NEW i \in Servers, Apply(i), faults' = faults
  PROVE  /\ Faithful' /\ rf'[i].pc = "checking" /\ rf'[i].err = FALSE
         /\ sent[i] + 1 = sent'[i] /\ \A j \in Servers \ {i} : rf'[j] = rf[j] /\ sent'[j] = sent[j]
         /\ \A r \in calls' : r \in calls \/ r.kind = "CheckLogs"
<1>1. PICK k \in Indices, v \in Cmds, gap \in BOOLEAN :
        /\ gap = (snapshots /\ k # rf[i].lastApplied + 1)
        /\ Deliverable(i, k, v)
        /\ sent' = [sent EXCEPT ![i] = k]
        /\ Goes(i, IF gap THEN "checked" ELSE "checking", k, v, gap, rf[i].lastApplied, rf[i].log)
        /\ calls' = IF gap THEN calls ELSE calls \cup {Request("CheckLogs", i, k, v, EmptyLog)}
  BY ApplyEffect DEF Shape
<1>2. rf[i].pc = "idle" /\ UNCHANGED <<snapshots, committed, snap, logs, one>>
  BY DEF Apply, raftVars, testerVars
<1>3. k = sent[i] + 1 /\ IsEntry(k, v) /\ sent[i] \in Nat /\ k <= Len(committed)
  <2>1. faults \in Nat /\ sent[i] \in Nat /\ Len(committed) \in Nat
    BY DEF Shape, Types
  <2>2. k = sent[i] + 1 /\ k <= Len(committed) /\ v = committed[k]
    BY <1>1, <2>1 DEF Deliverable
  <2> QED
    BY <2>1, <2>2 DEF IsEntry, Indices
<1>4. ~gap
  BY <1>1, <1>2, <1>3, Zenon DEF Faithful, Follows
<1>5. /\ rf'[i].pc = "checking" /\ rf'[i].index = k /\ rf'[i].cmd = v /\ rf'[i].err = FALSE
      /\ rf'[i].lastApplied = rf[i].lastApplied /\ rf'[i].log = rf[i].log
      /\ \A j \in Servers \ {i} : rf'[j] = rf[j]
      /\ calls' = calls \cup {Request("CheckLogs", i, k, v, EmptyLog)}
  BY <1>1, <1>4 DEF Goes
<1>6. sent'[i] = k /\ \A j \in Servers \ {i} : sent'[j] = sent[j]
  BY <1>1 DEF Shape, Types
<1>7. Follows(i)'
  <2>1. IsEntry(k, v)' /\ IsPrefix(rf[i].log, rf[i].lastApplied)' /\ IsPrefix(snap[i].log, snap[i].index)'
    BY <1>2, <1>3, <1>5, SameLog, Zenon DEF Faithful, Follows
  <2>2. snapshots => k = rf[i].lastApplied + 1
    BY <1>1, <1>4, Zenon
  <2> QED
    BY <1>2, <1>3, <1>5, <1>6, <2>1, <2>2, Zenon DEF Follows
<1>8. \A j \in Servers : Follows(j)'
  BY <1>2, <1>5, <1>6, <1>7, Others, Zenon DEF Faithful
<1>9. ASSUME NEW r \in calls' PROVE Truthful(r)' /\ (r \in calls \/ r.kind = "CheckLogs")
  <2>1. CASE r \in calls
    <3>1. Truthful(r)
      BY <2>1, Zenon DEF Faithful
    <3> QED
      BY <1>2, <2>1, <3>1, SameLog, Zenon DEF Truthful
  <2>2. CASE r = Request("CheckLogs", i, k, v, EmptyLog)
    <3>1. r.kind = "CheckLogs" /\ r.index = k /\ r.cmd = v
      BY <2>2 DEF Request
    <3> QED
      BY <1>2, <1>3, <3>1, SameLog, Zenon DEF Truthful
  <2> QED
    BY <1>5, <2>1, <2>2, Zenon
<1>10. Known' /\ Decided'
  BY <1>2, SameLog, Zenon DEF Faithful, Known, Decided
<1> QED
  BY <1>3, <1>5, <1>6, <1>8, <1>9, <1>10 DEF Faithful

\* Server i takes in the snapshot of j, received or its own.
LEMMA IngestFaithful ==
  ASSUME Shape, Faithful, NEW i \in Servers, NEW j \in Servers,
         UNCHANGED <<snapshots, committed, logs, one>>,
         Goes(i, "ingesting", 0, None, FALSE, snap[j].index, snap[j].log),
         sent' = [sent EXCEPT ![i] = snap[j].index],
         snap' = [snap EXCEPT ![i] = snap[j]],
         calls' = calls \cup {Request("IngestLog", i, 0, None, snap[j].log)}
  PROVE  Faithful'
<1>1. /\ rf'[i].pc = "ingesting" /\ rf'[i].lastApplied = snap[j].index /\ rf'[i].log = snap[j].log
      /\ \A h \in Servers \ {i} : rf'[h] = rf[h]
  BY DEF Goes
<1>2. /\ sent'[i] = snap[j].index /\ snap'[i] = snap[j]
      /\ \A h \in Servers \ {i} : sent'[h] = sent[h] /\ snap'[h] = snap[h]
  BY DEF Shape, Types
<1>3. IsPrefix(snap[j].log, snap[j].index) /\ snap[j].index <= Len(committed)
      /\ snap[j].index \in 0 .. MaxIndex
  BY Fields, Zenon DEF Faithful, Follows, IsPrefix, Shape
<1>4. Follows(i)'
  <2>1. IsPrefix(snap[i].log, snap[i].index)' /\ IsPrefix(rf[i].log, rf[i].lastApplied)'
    BY <1>1, <1>2, <1>3, SameLog
  <2> QED
    BY <1>1, <1>2, <1>3, <2>1 DEF Follows
<1>5. \A h \in Servers : Follows(h)'
  BY <1>1, <1>2, <1>4, Others DEF Faithful
<1>6. \A r \in calls' : Truthful(r)'
  <2>1. Truthful(Request("IngestLog", i, 0, None, snap[j].log))
    BY <1>3 DEF Truthful, Request
  <2>2. \A r : Truthful(r)' <=> Truthful(r)
    BY SameLog DEF Truthful
  <2> QED
    BY <2>1, <2>2 DEF Faithful
<1>7. Known' /\ Decided'
  BY SameLog DEF Faithful, Known, Decided
<1> QED
  BY <1>5, <1>6, <1>7 DEF Faithful

\* A snapshot of another server is a prefix of what is committed.
LEMMA ApplySnapshotFaithful ==
  ASSUME Shape, Faithful, NEW i \in Servers, ApplySnapshot(i)
  PROVE  Faithful'
<1>1. PICK j \in Servers :
        /\ sent' = [sent EXCEPT ![i] = snap[j].index]
        /\ snap' = [snap EXCEPT ![i] = snap[j]]
        /\ rf' = [rf EXCEPT ![i] = Ingested(i, snap[j])]
        /\ calls' = calls \cup {Request("IngestLog", i, 0, None, snap[j].log)}
  BY Zenon DEF ApplySnapshot
<1>2. UNCHANGED <<snapshots, committed, logs, one>>
  BY DEF ApplySnapshot, raftVars, testerVars
<1>3. Goes(i, "ingesting", 0, None, FALSE, snap[j].index, snap[j].log)
  BY <1>1, IngestedSnap, Zenon DEF Shape
<1> QED
  BY <1>1, <1>2, <1>3, IngestFaithful, Zenon

\* A server starts from its own snapshot, or from nothing.
LEMMA RestartFaithful ==
  ASSUME Shape, Faithful, NEW i \in Servers, Restart(i)
  PROVE  Faithful'
<1>1. /\ sent' = [sent EXCEPT ![i] = snap[i].index] /\ rf[i].pc = "down"
      /\ UNCHANGED <<snapshots, committed, snap, logs, one>>
  BY DEF Restart, raftVars, testerVars
<1>2. CASE snap[i].index > 0
  <2>1. /\ rf' = [rf EXCEPT ![i] = Ingested(i, snap[i])]
        /\ calls' = calls \cup {Request("IngestLog", i, 0, None, snap[i].log)}
    BY <1>2 DEF Restart
  <2>2. Goes(i, "ingesting", 0, None, FALSE, snap[i].index, snap[i].log)
    BY <2>1, IngestedSnap, Zenon DEF Shape
  <2>3. snap' = [snap EXCEPT ![i] = snap[i]]
    BY <1>1 DEF Shape, Types
  <2> QED
    BY <1>1, <2>1, <2>2, <2>3, IngestFaithful, Zenon
<1>3. CASE ~(snap[i].index > 0)
  <2>1. rf' = [rf EXCEPT ![i].pc = "idle"] /\ calls' = calls
    BY <1>3 DEF Restart
  <2>2. rf \in [Servers -> Rfsrv] /\ snap[i].index = 0 /\ Len(committed) \in Nat
    BY <1>3 DEF Shape, Types
  <2>3. /\ rf'[i].pc = "idle" /\ rf'[i].lastApplied = rf[i].lastApplied /\ rf'[i].log = rf[i].log
        /\ \A h \in Servers \ {i} : rf'[h] = rf[h]
    BY <2>1, <2>2 DEF Rfsrv
  <2>4. sent'[i] = 0 /\ \A h \in Servers \ {i} : sent'[h] = sent[h]
    BY <1>1, <2>2 DEF Shape, Types
  <2>5. rf[i].lastApplied = 0 /\ IsPrefix(rf[i].log, rf[i].lastApplied)
        /\ IsPrefix(snap[i].log, snap[i].index)
    BY <1>1 DEF Faithful, Follows
  <2>6. Follows(i)'
    <3>1. IsPrefix(snap[i].log, snap[i].index)' /\ IsPrefix(rf[i].log, rf[i].lastApplied)'
      BY <1>1, <2>3, <2>5, SameLog, Zenon
    <3>2. sent'[i] <= Len(committed')
      BY <1>1, <2>2, <2>4
    <3> QED
      BY <2>3, <2>4, <2>5, <3>1, <3>2, Zenon DEF Follows
  <2>7. \A h \in Servers : Follows(h)'
    BY <1>1, <2>3, <2>4, <2>6, Others, Zenon DEF Faithful
  <2> QED
    BY <1>1, <2>1, <2>7, SameLog, Zenon DEF Faithful, Truthful, Known, Decided
<1> QED
  BY <1>2, <1>3

\* The report of a refused snapshot says nothing about the log.
LEMMA ReportRefusedFaithful ==
  ASSUME Shape, Faithful, NEW i \in Servers, ReportRefused(i)
  PROVE  Faithful'
<1> DEFINE r == Request("ApplyErr", i, 0, None, EmptyLog)
<1>1. /\ rf[i].pc = "refused" /\ UNCHANGED <<snapshots, committed, sent, snap, logs, one>>
      /\ calls' = calls \cup {r} /\ r.kind = "ApplyErr"
  BY DEF ReportRefused, raftVars, testerVars, Request
<1>2. /\ rf'[i].pc = "reporting" /\ rf'[i].lastApplied = rf[i].lastApplied /\ rf'[i].log = rf[i].log
      /\ \A h \in Servers \ {i} : rf'[h] = rf[h]
  BY RefusedGoes DEF Goes
<1>3. Follows(i)'
  <2>1. Follows(i)
    BY DEF Faithful
  <2> QED
    BY <1>1, <1>2, <2>1, SameLog DEF Follows
<1>4. \A h \in Servers : Follows(h)'
  BY <1>1, <1>2, <1>3, Others, Zenon DEF Faithful
<1> HIDE DEF r
<1> QED
  BY <1>1, <1>4, SameLog, Zenon DEF Faithful, Truthful, Known, Decided

\* The entry that was checked extends the log, and a snapshot copies it.
LEMMA CheckedFaithful ==
  ASSUME Shape, Faithful, NEW i \in Servers, Checked(i)
  PROVE  Faithful'
<1> DEFINE k == rf[i].index
           last == IF snapshots THEN k ELSE rf[i].lastApplied
           r == Request("ApplyErr", i, k, None, EmptyLog)
<1>1. /\ LogAfter(i) \in Log
      /\ Goes(i, IF rf[i].err THEN "reporting" ELSE "idle", k, rf[i].cmd, rf[i].err, last, LogAfter(i))
      /\ snap' = IF snapshots /\ (k + 1) % SnapShotInterval = 0
                 THEN [snap EXCEPT ![i] = [index |-> k, log |-> LogAfter(i)]] ELSE snap
  BY CheckedEffect DEF Shape
<1>2. /\ rf[i].pc = "checked" /\ UNCHANGED <<snapshots, committed, sent, logs, one>>
      /\ calls' \subseteq calls \cup {r} /\ r.kind = "ApplyErr"
  BY DEF Checked, raftVars, testerVars, Request
<1>3. /\ k = sent[i] /\ IsEntry(k, rf[i].cmd) /\ (snapshots => k = rf[i].lastApplied + 1)
      /\ IsPrefix(rf[i].log, rf[i].lastApplied) /\ IsPrefix(snap[i].log, snap[i].index)
      /\ sent[i] <= Len(committed)
  BY <1>2 DEF Faithful, Follows
<1>4. /\ k \in Indices /\ rf[i].lastApplied \in Nat /\ rf[i].log \in Log
      /\ committed \in Seq(Cmds)
  BY <1>2, Fields DEF Shape, Types, Protocol
<1>5. IsPrefix(LogAfter(i), last)
  <2>1. CASE snapshots
    BY <1>3, <1>4, <2>1, NextPrefix DEF LogAfter
  <2>2. CASE ~snapshots
    BY <1>3, <2>2 DEF LogAfter
  <2> QED
    BY <2>1, <2>2
<1>6. /\ rf'[i].pc \in {"reporting", "idle"} /\ rf'[i].lastApplied = last /\ rf'[i].log = LogAfter(i)
      /\ \A h \in Servers \ {i} : rf'[h] = rf[h]
  BY <1>1 DEF Goes
<1>7. /\ \/ snap'[i] = snap[i]
         \/ snapshots /\ snap'[i].index = k /\ snap'[i].log = LogAfter(i)
      /\ \A h \in Servers \ {i} : snap'[h] = snap[h]
  BY <1>1 DEF Shape, Types
<1>8. Follows(i)'
  <2>1. IsPrefix(rf[i].log, rf[i].lastApplied)'
    BY <1>2, <1>5, <1>6, SameLog
  <2>2. IsPrefix(snap[i].log, snap[i].index)'
    BY <1>2, <1>3, <1>5, <1>7, SameLog
  <2> QED
    BY <1>2, <1>3, <1>6, <2>1, <2>2 DEF Follows
<1>9. \A h \in Servers : Follows(h)'
  BY <1>2, <1>6, <1>7, <1>8, Others DEF Faithful
<1> HIDE DEF r
<1> QED
  BY <1>2, <1>9, SameLog, Zenon DEF Faithful, Truthful, Known, Decided

\* What the handlers have in common.
LEMMA HandleEffect ==
  ASSUME Shape, NEW r \in calls, Handle(r)
  PROVE  /\ r.srv \in Servers /\ calls' = calls \ {r}
         /\ UNCHANGED <<snapshots, committed, sent, snap, one, faults>>
         /\ \A h \in Servers \ {r.srv} : rf'[h] = rf[h] /\ logs'[h] = logs[h]
         /\ ~r.live => rf' = rf
         /\ r.live =>
              /\ r.kind = "CheckLogs" => rf[r.srv].pc = "checking" /\ rf'[r.srv].pc = "checked"
              /\ r.kind = "IngestLog" =>
                   /\ rf[r.srv].pc = "ingesting" /\ rf'[r.srv].err = rf[r.srv].err
                   /\ rf'[r.srv].pc = IF rf[r.srv].err THEN "refused" ELSE "idle"
              /\ r.kind = "ApplyErr" => rf[r.srv].pc = "reporting" /\ rf'[r.srv].pc = "idle"
              /\ rf'[r.srv].index = rf[r.srv].index /\ rf'[r.srv].cmd = rf[r.srv].cmd
              /\ rf'[r.srv].lastApplied = rf[r.srv].lastApplied /\ rf'[r.srv].log = rf[r.srv].log
         /\ \/ /\ r.kind = "CheckLogs" /\ r.index \in Indices
               /\ logs'[r.srv] = [logs[r.srv] EXCEPT ![r.index] = r.cmd]
            \/ r.kind = "IngestLog" /\ logs'[r.srv] = r.log
            \/ r.kind = "ApplyErr" /\ logs' = logs
<1>1. /\ r.srv \in Servers /\ calls' = calls \ {r} /\ logs \in [Servers -> Log]
      /\ UNCHANGED <<snapshots, committed, sent, snap, one, faults>>
  BY Fields DEF Handle, Shape, Types, raftVars
<1>2. r.live => Waits(r.srv, r.kind)
  BY DEF Shape, Protocol
<1>3. CASE CheckLogs(r)
  <2>1. r.kind = "CheckLogs" /\ r.index \in Indices
    BY <1>3 DEF CheckLogs, Shape, Protocol
  <2>2. PICK err \in BOOLEAN : Answer(r, "checked", err)
    BY <1>3, Zenon DEF CheckLogs
  <2>3. IF r.live THEN Goes(r.srv, "checked", rf[r.srv].index, rf[r.srv].cmd, err,
                            rf[r.srv].lastApplied, rf[r.srv].log)
                  ELSE rf' = rf
    BY <2>2, AnswerEffect DEF Shape
  <2>4. logs' = [logs EXCEPT ![r.srv] = [logs[r.srv] EXCEPT ![r.index] = r.cmd]]
    BY <1>3 DEF CheckLogs
  <2> QED
    BY <1>1, <1>2, <2>1, <2>3, <2>4 DEF Goes, Waits
<1>4. CASE IngestLog(r)
  <2> DEFINE err == rf[r.srv].err
             pc == IF err THEN "refused" ELSE "idle"
  <2>1. Answer(r, pc, err) /\ r.kind = "IngestLog" /\ logs' = [logs EXCEPT ![r.srv] = r.log]
    BY <1>4, Zenon DEF IngestLog
  <2>2. err \in BOOLEAN /\ pc \in {"idle", "checked", "refused"}
    BY <1>1, Fields, Zenon DEF Shape
  <2>3. IF r.live THEN Goes(r.srv, pc, rf[r.srv].index, rf[r.srv].cmd, err,
                            rf[r.srv].lastApplied, rf[r.srv].log)
                  ELSE rf' = rf
    <3> HIDE DEF pc, err
    <3> QED
      BY <2>1, <2>2, AnswerEffect, Zenon DEF Shape
  <2> QED
    BY <1>1, <1>2, <2>1, <2>3 DEF Goes, Waits
<1>5. CASE ApplyErr(r)
  <2>1. Answer(r, "idle", FALSE) /\ r.kind = "ApplyErr" /\ logs' = logs
    BY <1>5, Zenon DEF ApplyErr
  <2>2. IF r.live THEN Goes(r.srv, "idle", rf[r.srv].index, rf[r.srv].cmd, FALSE,
                            rf[r.srv].lastApplied, rf[r.srv].log)
                  ELSE rf' = rf
    BY <2>1, AnswerEffect, Zenon DEF Shape
  <2> QED
    BY <1>1, <1>2, <2>1, <2>2 DEF Goes, Waits
<1> QED
  BY <1>3, <1>4, <1>5, Zenon DEF Handle

\* The tester enters what a truthful report says.
LEMMA HandleFaithful ==
  ASSUME Shape, Faithful, NEW r \in calls, Handle(r)
  PROVE  Faithful'
<1> DEFINE i == r.srv
<1>1. /\ i \in Servers /\ calls' = calls \ {r}
      /\ UNCHANGED <<snapshots, committed, sent, snap, one>>
      /\ \A h \in Servers \ {i} : rf'[h] = rf[h] /\ logs'[h] = logs[h]
  BY HandleEffect, Zenon
<1>2. Follows(i)'
  <2>1. Follows(i)
    BY <1>1 DEF Faithful
  <2>2. CASE r.live
    <3>1. /\ \/ rf[i].pc = "checking" /\ rf'[i].pc = "checked"
             \/ rf[i].pc \in {"ingesting", "reporting"} /\ rf'[i].pc \in {"idle", "refused"}
          /\ rf'[i].index = rf[i].index /\ rf'[i].cmd = rf[i].cmd
          /\ rf'[i].lastApplied = rf[i].lastApplied /\ rf'[i].log = rf[i].log
      BY <2>2, HandleEffect, Fields, Zenon DEF Shape
    <3> HIDE DEF i
    <3> QED
      BY <1>1, <2>1, <3>1, SameLog DEF Follows
  <2>3. CASE ~r.live
    <3>1. rf' = rf
      BY <2>3, HandleEffect, Zenon
    <3> HIDE DEF i
    <3> QED
      BY <1>1, <2>1, <3>1, SameLog DEF Follows
  <2> QED
    BY <2>2, <2>3
<1>3. \A h \in Servers : Follows(h)'
  BY <1>1, <1>2, Others DEF Faithful
<1>4. \A q \in calls' : Truthful(q)'
  BY <1>1, SameLog DEF Faithful, Truthful
<1>5. ASSUME NEW h \in Servers, NEW k \in Indices, logs'[h][k] # None
      PROVE  IsEntry(k, logs'[h][k])
  <2>1. Truthful(r) /\ (logs[h][k] # None => IsEntry(k, logs[h][k]))
    BY DEF Faithful, Known
  <2>2. CASE logs'[h] = logs[h]
    BY <1>5, <2>1, <2>2
  <2>3. CASE h = i /\ r.kind = "CheckLogs" /\ logs'[i] = [logs[i] EXCEPT ![r.index] = r.cmd]
    <3>1. logs[i] \in [Indices -> Cmds \cup {None}]
      BY <1>1, StateTypes, Zenon
    <3>2. logs'[h][k] = IF k = r.index THEN r.cmd ELSE logs[h][k]
      BY <2>3, <3>1, Zenon
    <3> QED
      BY <1>5, <2>1, <2>3, <3>2, Zenon DEF Truthful
  <2>4. CASE h = i /\ r.kind = "IngestLog" /\ logs'[i] = r.log
    <3>1. PICK n \in 0 .. MaxIndex : IsPrefix(r.log, n)
      BY <2>1, <2>4 DEF Truthful
    <3>2. k <= n /\ logs'[h][k] = committed[k] /\ n <= Len(committed)
      BY <1>5, <2>4, <3>1 DEF IsPrefix
    <3>3. k \in 1 .. Len(committed)
      BY <3>2 DEF Indices, Shape, Types
    <3> QED
      BY <3>2, <3>3 DEF IsEntry
  <2> QED
    BY <1>1, <2>2, <2>3, <2>4, HandleEffect, Zenon
<1>6. Known' /\ Decided'
  BY <1>1, <1>5, SameLog DEF Faithful, Known, Decided
<1> QED
  BY <1>3, <1>4, <1>6 DEF Faithful

\* A lost report says nothing.
LEMMA LoseFaithful ==
  ASSUME Shape, Faithful, NEW r \in calls, Lose(r)
  PROVE  Faithful'
<1>1. calls' = calls \ {r} /\ UNCHANGED <<snapshots, committed, sent, snap, rf, logs, one>>
  BY DEF Lose, raftVars, serverVars, testerVars
<1> QED
  BY <1>1, SameLog DEF Faithful, Follows, Truthful, Known, Decided

\* The reports of a killed server remain truthful.
LEMMA KillFaithful ==
  ASSUME Shape, Faithful, NEW i \in Servers, Kill(i)
  PROVE  Faithful'
<1>1. /\ rf' = [rf EXCEPT ![i] = Down] /\ calls' = {Dead(i, r) : r \in calls}
      /\ UNCHANGED <<snapshots, committed, sent, snap, logs, one>>
  BY DEF Kill, Dead, raftVars, testerVars
<1>2. /\ rf'[i].pc = "down" /\ rf'[i].lastApplied = 0 /\ rf'[i].log = EmptyLog
      /\ \A h \in Servers \ {i} : rf'[h] = rf[h]
  <2>1. Down.pc = "down" /\ Down.lastApplied = 0 /\ Down.log = EmptyLog
    BY DEF Down
  <2> QED
    BY <1>1, <2>1, Zenon DEF Shape, Types
<1>3. Follows(i)'
  <2>1. IsPrefix(rf[i].log, rf[i].lastApplied)' /\ IsPrefix(snap[i].log, snap[i].index)'
    BY <1>1, <1>2, SameLog, EmptyPrefix, Zenon DEF Faithful, Follows
  <2>2. sent[i] <= Len(committed)
    BY DEF Faithful, Follows
  <2> QED
    BY <1>1, <1>2, <2>1, <2>2 DEF Follows
<1>4. \A h \in Servers : Follows(h)'
  BY <1>1, <1>2, <1>3, Others, Zenon DEF Faithful
<1>5. ASSUME NEW q \in calls' PROVE Truthful(q)'
  <2>1. PICK r \in calls : q = Dead(i, r)
    BY <1>1
  <2>2. q.kind = r.kind /\ q.index = r.index /\ q.cmd = r.cmd /\ q.log = r.log
    <3>1. r \in Call
      BY StateTypes, Zenon
    <3> QED
      BY <2>1, <3>1, DeadFields, Zenon
  <2>3. Truthful(r)
    BY DEF Faithful
  <2> QED
    BY <1>1, <2>2, <2>3, SameLog DEF Truthful
<1> QED
  BY <1>1, <1>4, <1>5, SameLog, Zenon DEF Faithful, Known, Decided

\* What Cardinality computes of a set with at most one element.
LEMMA AtMostOne ==
  ASSUME NEW v, NEW S, S = {} \/ S = {v}
  PROVE  Cardinality(S) \in {0, 1}
<1> DEFINE Count(f) == [T \in SUBSET S |-> IF T = {} THEN 0 ELSE 1 + f[T \ {CHOOSE x : x \in T}]]
           count == [T \in SUBSET S |-> IF T = {} THEN 0 ELSE 1]
<1>1. \A T \in SUBSET S : T # {} => T = {v} /\ T \ {CHOOSE x : x \in T} = {}
  OBVIOUS
<1>2. count = Count(count)
  BY <1>1
<1>3. ASSUME NEW f, f = Count(f) PROVE f[S] \in {0, 1}
  <2>1. f[{}] = 0
    BY <1>3
  <2>2. S # {} => f[S] = 1 + f[{}]
    BY <1>1, <1>3
  <2> QED
    BY <2>1, <2>2
<1>4. Cardinality(S) = (CHOOSE f : f = Count(f))[S]
  BY DEF Cardinality
<1> HIDE DEF Count, count
<1> QED
  BY <1>2, <1>3, <1>4, Zenon

\* nCommitted finds at most one command at an index.
LEMMA EntriesAgree ==
  ASSUME Known, NEW k \in Indices
  PROVE  /\ \A v \in Entries(k) : IsEntry(k, v)
         /\ ~(Cardinality(Entries(k)) > 1)
<1>1. \A v \in Entries(k) : IsEntry(k, v)
  BY DEF Known, Entries
<1>2. Entries(k) \subseteq {committed[k]}
  BY <1>1 DEF IsEntry
<1>3. Entries(k) = {} \/ Entries(k) = {committed[k]}
  BY <1>2
<1>4. Cardinality(Entries(k)) \in {0, 1}
  BY <1>3, AtMostOne
<1> QED
  BY <1>1, <1>4

\* one() does not return from StartCmd, nor from a timeout.
LEMMA TriesOn ==
  ASSUME Shape, StartCmd \/ Timeout
  PROVE  one'.pc \in {"waiting", "trying", "noAgreement"}
<1>1. one \in One
  BY DEF Shape, Types
<1> QED
  BY <1>1, Zenon DEF StartCmd, Timeout, One

\* one() returns only what a server has reported, hence what is committed.
LEMMA TestStepFaithful ==
  ASSUME Shape, Faithful, Commit \/ CallOne \/ StartCmd \/ Poll \/ Timeout \/ OneDone
  PROVE  Faithful'
<1>1. TestStep
  BY TestStepShape
<1>2. ASSUME NEW i \in Servers PROVE Follows(i)'
  <2>1. UNCHANGED <<snapshots, sent, snap, rf>>
    BY <1>1 DEF TestStep
  <2>2. /\ Follows(i) /\ snap[i].index \in Nat /\ rf[i].lastApplied \in Nat
        /\ sent[i] \in Nat /\ Len(committed) \in Nat /\ Len(committed') \in Nat
    BY <1>1, Fields DEF Faithful, Shape, Types, TestStep
  <2>3. IsPrefix(snap[i].log, snap[i].index)' /\ IsPrefix(rf[i].log, rf[i].lastApplied)'
    BY <1>1, <2>1, <2>2, LongerLog, Zenon DEF Follows
  <2>4. sent[i] <= Len(committed')
    <3>1. Len(committed) <= Len(committed')
      BY <1>1, LongerLog, Zenon
    <3>2. sent[i] <= Len(committed)
      BY <2>2, Zenon DEF Follows
    <3> QED
      BY <2>2, <3>1, <3>2
  <2>5. rf[i].pc \in {"checking", "checked"} => IsEntry(rf[i].index, rf[i].cmd)'
    BY <1>1, <2>1, <2>2, LongerLog DEF Follows
  <2> QED
    BY <2>1, <2>2, <2>3, <2>4, <2>5 DEF Follows
<1>3. ASSUME NEW r \in calls' PROVE Truthful(r)'
  <2>1. r \in calls /\ Truthful(r)
    BY <1>1 DEF TestStep, Faithful
  <2> QED
    BY <1>1, <2>1, LongerLog DEF Truthful
<1>4. Known'
  BY <1>1, LongerLog DEF TestStep, Faithful, Known
<1>5. Decided'
  <2>1. CASE Commit
    <3>1. one' = one
      BY <2>1 DEF Commit
    <3> QED
      BY <1>1, <3>1, LongerLog DEF Faithful, Decided
  <2>2. CASE CallOne \/ OneDone
    BY <2>2 DEF CallOne, OneDone, NoOne, Decided
  <2>3. CASE StartCmd \/ Timeout
    BY <2>3, TriesOn DEF Decided
  <2>4. CASE Poll
    <3>1. /\ one.pc = "waiting" /\ one.index \in Indices /\ one \in One
          /\ committed' = committed
      BY <2>4 DEF Poll, raftVars, Shape, Types
    <3>2. \A v \in Entries(one.index) : IsEntry(one.index, v)
      BY <3>1, EntriesAgree DEF Faithful
    <3>3. ~(Cardinality(Entries(one.index)) > 1)
      BY <3>1, EntriesAgree DEF Faithful
    <3>4. \/ one' = [one EXCEPT !.pc = "applyError"]
          \/ one' = [one EXCEPT !.pc = "returned"] /\ one.cmd \in Entries(one.index)
      BY <2>4, <3>3 DEF Poll, Agreed
    <3>5. CASE one' = [one EXCEPT !.pc = "applyError"]
      BY <3>1, <3>5 DEF One, Decided
    <3>6. CASE one' = [one EXCEPT !.pc = "returned"] /\ one.cmd \in Entries(one.index)
      <4>1. one'.pc = "returned" /\ one'.index = one.index /\ one'.cmd = one.cmd
        BY <3>1, <3>6 DEF One
      <4> QED
        BY <3>1, <3>2, <3>6, <4>1, SameLog DEF Decided
    <3> QED
      BY <3>4, <3>5, <3>6
  <2> QED
    BY <2>1, <2>2, <2>3, <2>4
<1> QED
  BY <1>2, <1>3, <1>4, <1>5 DEF Faithful

\* A delivery against Raft's promises is never undone.
LEMMA FaultsGrow ==
  ASSUME Shape, [Next]_vars
  PROVE  faults' = 0 => faults = 0
<1>1. faults \in Nat
  BY DEF Shape, Types
<1>2. ASSUME NEW i \in Servers, Apply(i) PROVE faults' \in {faults, faults + 1}
  BY <1>2 DEF Apply, Deliverable
<1>3. ASSUME NEW i \in Servers,
             \/ ApplySnapshot(i) \/ ReportRefused(i) \/ Checked(i) \/ Kill(i) \/ Restart(i)
      PROVE  faults' = faults
  BY <1>3, Zenon DEF ApplySnapshot, ReportRefused, Checked, Kill, Restart
<1>4. ASSUME NEW r \in calls, Handle(r) \/ Lose(r) PROVE faults' = faults
  BY <1>4 DEF Handle, Lose
<1>5. ASSUME Commit \/ CallOne \/ StartCmd \/ Poll \/ Timeout \/ OneDone
      PROVE  faults' = faults
  BY <1>5, Zenon DEF Commit, CallOne, StartCmd, Poll, Timeout, OneDone
<1>6. CASE UNCHANGED vars
  BY <1>6 DEF vars
<1>7. ASSUME NEW i \in Servers, RefuseSnapshot(i) PROVE faults' = faults + 1
  BY <1>7 DEF RefuseSnapshot
<1> QED
  BY <1>1, <1>2, <1>3, <1>4, <1>5, <1>6, <1>7 DEF Next, Server

\* Without a wrong delivery every step stays truthful.
LEMMA NextFaithful ==
  ASSUME Shape, faults = 0 => Faithful, [Next]_vars
  PROVE  faults' = 0 => Faithful'
<1> SUFFICES ASSUME faults' = 0, faults = 0, Faithful PROVE Faithful'
  BY FaultsGrow
<1>1. CASE UNCHANGED vars
  BY <1>1, SameLog, Zenon DEF vars, Faithful, Follows, Truthful, Known, Decided
<1>2. ASSUME NEW i \in Servers, Server(i) \/ Kill(i) \/ Restart(i) PROVE Faithful'
  <2>1. ~RefuseSnapshot(i)
    BY DEF RefuseSnapshot
  <2> QED
    BY <1>2, <2>1, ApplyFaithful, ApplySnapshotFaithful, ReportRefusedFaithful, CheckedFaithful,
       KillFaithful, RestartFaithful, Zenon DEF Server
<1>3. ASSUME NEW r \in calls, Handle(r) \/ Lose(r) PROVE Faithful'
  BY <1>3, HandleFaithful, LoseFaithful
<1>4. ASSUME Commit \/ CallOne \/ StartCmd \/ Poll \/ Timeout \/ OneDone PROVE Faithful'
  BY <1>4, TestStepFaithful
<1> QED
  BY <1>1, <1>2, <1>3, <1>4 DEF Next

-----------------------------------------------------------------------------
(* No false alarm.                                                         *)

\* At first no alarm was raised.
LEMMA InitQuiet == Init => Quiet
<1> SUFFICES ASSUME Init, NEW i \in Servers PROVE Settled(i)
  <2>1. Init => calls = {} /\ one.pc # "applyError"
    BY DEF Init, NoOne
  <2> QED
    BY <2>1 DEF Quiet
<1>1. rf[i].pc = "idle" /\ rf[i].err = FALSE /\ sent[i] = 0 /\ applyErr[i] = FALSE
  BY DEF Init, Down
<1> QED
  BY <1>1 DEF Settled, Reported, Indices

\* A server that does not move stays settled.
LEMMA OthersSettled ==
  ASSUME NEW h \in Servers, Settled(h), rf'[h] = rf[h], sent'[h] = sent[h], logs'[h] = logs[h],
         applyErr'[h] = applyErr[h]
  PROVE  Settled(h)'
BY DEF Settled, Reported

\* The entry that is delivered next was not reported before, the others were.
LEMMA ApplyQuiet ==
  ASSUME Shape, Faithful, Quiet, NEW i \in Servers, Apply(i), faults' = faults
  PROVE  Quiet'
<1>1. /\ rf[i].pc = "idle" /\ UNCHANGED <<logs, applyErr, one>>
  BY DEF Apply, testerVars
<1>2. /\ rf'[i].pc = "checking" /\ rf'[i].err = FALSE
      /\ sent[i] + 1 = sent'[i] /\ \A j \in Servers \ {i} : rf'[j] = rf[j] /\ sent'[j] = sent[j]
      /\ \A r \in calls' : r \in calls \/ r.kind = "CheckLogs"
  BY ApplyFaithful, Zenon
<1>3. Settled(i)'
  <2>1. Reported(i, sent[i]) /\ applyErr[i] = FALSE /\ sent'[i] - 1 = sent[i]
    <3>1. sent[i] \in 0 .. MaxIndex
      BY DEF Shape, Types
    <3>2. sent'[i] - 1 = sent[i]
      BY <1>2, <3>1
    <3> QED
      BY <1>1, <3>2 DEF Quiet, Settled
  <2> QED
    BY <1>1, <1>2, <2>1 DEF Settled, Reported
<1>4. \A j \in Servers : Settled(j)'
  BY <1>1, <1>2, <1>3, OthersSettled, Zenon DEF Quiet
<1> QED
  BY <1>1, <1>2, <1>4 DEF Quiet

\* A server that ingests waits for the tester to have its log.
LEMMA IngestQuiet ==
  ASSUME Shape, Quiet, NEW i \in Servers, NEW k, NEW log, UNCHANGED <<logs, applyErr, one>>,
         Goes(i, "ingesting", 0, None, FALSE, k, log), sent' = [sent EXCEPT ![i] = k],
         calls' = calls \cup {Request("IngestLog", i, 0, None, log)}
  PROVE  Quiet'
<1>1. Settled(i)'
  BY DEF Goes, Settled, Quiet
<1>2. \A j \in Servers : Settled(j)'
  BY <1>1, OthersSettled, Zenon DEF Goes, Quiet, Shape, Types
<1>3. \A r \in calls' : r.kind # "ApplyErr"
  BY DEF Quiet, Request
<1> QED
  BY <1>2, <1>3 DEF Quiet

\* So it is when the snapshot comes from another server.
LEMMA ApplySnapshotQuiet ==
  ASSUME Shape, Quiet, NEW i \in Servers, ApplySnapshot(i)
  PROVE  Quiet'
<1>1. PICK j \in Servers :
        /\ sent' = [sent EXCEPT ![i] = snap[j].index]
        /\ rf' = [rf EXCEPT ![i] = Ingested(i, snap[j])]
        /\ calls' = calls \cup {Request("IngestLog", i, 0, None, snap[j].log)}
  BY Zenon DEF ApplySnapshot
<1>2. UNCHANGED <<logs, applyErr, one>>
  BY DEF ApplySnapshot, testerVars
<1>3. Goes(i, "ingesting", 0, None, FALSE, snap[j].index, snap[j].log)
  BY <1>1, IngestedSnap, Zenon DEF Shape
<1> QED
  BY <1>1, <1>2, <1>3, IngestQuiet, Zenon

\* So it is when the server starts from its own.
LEMMA RestartQuiet ==
  ASSUME Shape, Quiet, NEW i \in Servers, Restart(i)
  PROVE  Quiet'
<1>1. sent' = [sent EXCEPT ![i] = snap[i].index] /\ UNCHANGED <<logs, applyErr, one>>
  BY DEF Restart, testerVars
<1>2. CASE snap[i].index > 0
  <2>1. /\ rf' = [rf EXCEPT ![i] = Ingested(i, snap[i])]
        /\ calls' = calls \cup {Request("IngestLog", i, 0, None, snap[i].log)}
    BY <1>2 DEF Restart
  <2>2. Goes(i, "ingesting", 0, None, FALSE, snap[i].index, snap[i].log)
    BY <2>1, IngestedSnap, Zenon DEF Shape
  <2> QED
    BY <1>1, <2>1, <2>2, IngestQuiet, Zenon
<1>3. CASE ~(snap[i].index > 0)
  <2>1. rf' = [rf EXCEPT ![i].pc = "idle"] /\ calls' = calls
    BY <1>3 DEF Restart
  <2>2. rf \in [Servers -> Rfsrv] /\ snap[i].index = 0
    BY <1>3 DEF Shape, Types
  <2>3. /\ rf'[i].pc = "idle" /\ rf'[i].err = rf[i].err
        /\ \A h \in Servers \ {i} : rf'[h] = rf[h]
    BY <2>1, <2>2 DEF Rfsrv
  <2>4. sent'[i] = 0 /\ \A h \in Servers \ {i} : sent'[h] = sent[h]
    BY <1>1, <2>2 DEF Shape, Types
  <2>5. Settled(i)'
    <3>1. Settled(i)
      BY Zenon DEF Quiet
    <3>2. \A k \in Indices : ~(k <= 0)
      BY DEF Indices
    <3>3. Reported(i, sent[i])'
      BY <2>4, <3>2, Zenon DEF Reported
    <3> QED
      BY <1>1, <2>3, <3>1, <3>3, Zenon DEF Settled
  <2>6. \A h \in Servers : Settled(h)'
    BY <1>1, <2>3, <2>4, <2>5, OthersSettled, Zenon DEF Quiet
  <2> QED
    BY <1>1, <2>1, <2>6 DEF Quiet
<1> QED
  BY <1>2, <1>3

\* An entry that passed its check is in the tester's log.
LEMMA CheckedQuiet ==
  ASSUME Shape, Quiet, NEW i \in Servers, Checked(i)
  PROVE  Quiet'
<1>1. /\ rf[i].pc = "checked" /\ UNCHANGED <<sent, logs, applyErr, one>>
      /\ rf[i].err = FALSE /\ Settled(i)
  BY DEF Checked, testerVars, Quiet, Settled
<1>2. calls' = calls
  BY <1>1 DEF Checked
<1>3. /\ rf'[i].pc = "idle" /\ rf'[i].err = FALSE
      /\ \A h \in Servers \ {i} : rf'[h] = rf[h]
  BY <1>1, CheckedEffect DEF Goes, Shape
<1>4. Settled(i)'
  BY <1>1, <1>3 DEF Settled, Reported
<1>5. \A h \in Servers : Settled(h)'
  BY <1>1, <1>3, <1>4, OthersSettled DEF Quiet
<1> QED
  BY <1>1, <1>2, <1>5 DEF Quiet

\* A kill raises no alarm.
LEMMA KillQuiet ==
  ASSUME Shape, Quiet, NEW i \in Servers, Kill(i)
  PROVE  Quiet'
<1>1. /\ rf' = [rf EXCEPT ![i] = Down] /\ calls' = {Dead(i, r) : r \in calls}
      /\ UNCHANGED <<sent, logs, applyErr, one>>
  BY DEF Kill, Dead, testerVars
<1>2. /\ rf'[i].pc = "down" /\ rf'[i].err = FALSE
      /\ \A h \in Servers \ {i} : rf'[h] = rf[h]
  <2>1. Down.pc = "down" /\ Down.err = FALSE
    BY DEF Down
  <2> QED
    BY <1>1, <2>1 DEF Shape, Types
<1>3. Settled(i)'
  BY <1>1, <1>2 DEF Quiet, Settled
<1>4. \A h \in Servers : Settled(h)'
  BY <1>1, <1>2, <1>3, OthersSettled DEF Quiet
<1>5. ASSUME NEW q \in calls' PROVE q.kind # "ApplyErr"
  <2>1. PICK r \in calls : q = Dead(i, r)
    BY <1>1
  <2>2. q.kind = r.kind
    BY <2>1, DeadFields DEF Shape, Types
  <2> QED
    BY <2>2 DEF Quiet
<1> QED
  BY <1>1, <1>4, <1>5 DEF Quiet

\* A live CheckLogs finds the entry before its own, and no other command.
LEMMA CheckPasses ==
  ASSUME Shape, Faithful, Quiet, NEW r \in calls, r.live, CheckLogs(r)
  PROVE  rf'[r.srv].err = FALSE
<1> DEFINE i == r.srv
<1>1. /\ i \in Servers /\ r.kind = "CheckLogs" /\ r.index \in Indices
      /\ rf[i].pc = "checking" /\ r.index = rf[i].index
  BY Fields DEF CheckLogs, Shape, Protocol, Waits
<1>2. rf[i].index = sent[i] /\ IsEntry(r.index, r.cmd) /\ Reported(i, sent[i] - 1)
  BY <1>1 DEF Faithful, Follows, Truthful, Quiet, Settled
<1>3. ~Differs(r.index, r.cmd)
  BY <1>1, <1>2, Zenon DEF Differs, Faithful, Known, IsEntry
<1>4. r.index > 1 => logs[i][r.index - 1] # None
  <2>1. r.index > 1 => r.index - 1 \in Indices /\ r.index - 1 <= sent[i] - 1
    BY <1>1, <1>2, RaftTestAssumption DEF Indices
  <2> QED
    BY <1>2, <2>1 DEF Reported
<1>5. Answer(r, "checked", FALSE)
  BY <1>3, <1>4, Zenon DEF CheckLogs
<1> QED
  BY <1>5, AnswerEffect, Zenon DEF Shape, Goes

\* The checks of the tester pass unless a restart has overtaken the report.
LEMMA HandleQuiet ==
  ASSUME Shape, Faithful, Quiet, NEW r \in calls, Handle(r), overtaken' = FALSE
  PROVE  Quiet'
<1> DEFINE i == r.srv
<1>1. /\ i \in Servers /\ calls' = calls \ {r} /\ UNCHANGED <<sent, one>>
      /\ \A h \in Servers \ {i} : rf'[h] = rf[h] /\ logs'[h] = logs[h]
  BY HandleEffect, Zenon
<1>2. /\ r.kind \in {"CheckLogs", "IngestLog"} /\ applyErr' = applyErr
      /\ Settled(i) /\ Follows(i)
  BY <1>1, Fields, Zenon DEF Handle, CheckLogs, IngestLog, ApplyErr, Quiet, Faithful, Shape
<1>3. CASE ~r.live
  <2>1. rf' = rf
    BY <1>3, HandleEffect, Zenon
  <2>2. rf[i].pc = "down"
    BY <1>3, Zenon DEF Handle
  <2> HIDE DEF i
  <2>3. Settled(i)'
    BY <1>2, <2>1, <2>2 DEF Settled
  <2>4. \A h \in Servers : Settled(h)'
    BY <1>1, <1>2, <2>1, <2>3, OthersSettled DEF Quiet
  <2> QED
    BY <1>1, <2>4 DEF Quiet
<1>4. CASE r.live /\ r.kind = "CheckLogs"
  <2>1. CheckLogs(r)
    BY <1>4 DEF Handle, IngestLog, ApplyErr
  <2>2. /\ rf[i].pc = "checking" /\ rf'[i].pc = "checked" /\ rf'[i].err = FALSE
        /\ r.index \in Indices /\ logs'[i] = [logs[i] EXCEPT ![r.index] = r.cmd]
    BY <1>4, <2>1, HandleEffect, CheckPasses, Zenon
  <2>3. r.cmd # None /\ r.index = sent[i] /\ Reported(i, sent[i] - 1)
    BY <1>1, <1>2, <1>4, <2>2, RaftTestAssumption, Zenon DEF Shape, Protocol, Follows, Settled
  <2>4. Reported(i, sent[i])'
    <3>1. logs[i] \in Log /\ sent[i] \in 0 .. MaxIndex
      BY <1>1 DEF Shape, Types
    <3> HIDE DEF i
    <3>2. ASSUME NEW k \in Indices, k <= sent[i] PROVE logs'[i][k] # None
      <4>1. CASE k = r.index
        BY <2>2, <2>3, <3>1, <4>1 DEF Log
      <4>2. CASE k # r.index
        <5>1. logs'[i][k] = logs[i][k] /\ k <= sent[i] - 1
          BY <2>2, <2>3, <3>1, <3>2, <4>2 DEF Log, Indices
        <5> QED
          BY <2>3, <5>1 DEF Reported
      <4> QED
        BY <4>1, <4>2
    <3> QED
      BY <1>1, <3>2 DEF Reported
  <2> HIDE DEF i
  <2>5. Settled(i)'
    BY <1>2, <2>2, <2>4 DEF Settled
  <2>6. \A h \in Servers : Settled(h)'
    BY <1>1, <1>2, <2>5, OthersSettled DEF Quiet
  <2> QED
    BY <1>1, <2>6 DEF Quiet
<1>5. CASE r.live /\ r.kind = "IngestLog"
  <2>1. /\ rf[i].pc = "ingesting" /\ rf'[i].pc = "idle" /\ rf'[i].err = FALSE
        /\ logs'[i] = r.log /\ r.log = rf[i].log
    BY <1>2, <1>5, HandleEffect, Zenon DEF Shape, Protocol, Settled
  <2>2. IsPrefix(r.log, sent[i])
    BY <1>2, <2>1, Zenon DEF Follows, Settled
  <2>3. Reported(i, sent[i])'
    <3>1. committed \in Seq(Cmds) /\ sent[i] \in 0 .. MaxIndex
      BY <1>1, StateTypes, Zenon
    <3> HIDE DEF i
    <3>2. \A k \in 1 .. Len(committed) : committed[k] \in Cmds
      BY <3>1
    <3>3. sent[i] <= Len(committed) /\ Len(committed) \in Nat
      BY <2>2, <3>1 DEF IsPrefix
    <3>4. \A k \in Indices : k <= sent[i] => k \in 1 .. Len(committed)
      BY <3>1, <3>3, RaftTestAssumption DEF Indices
    <3>5. \A k \in Indices : k <= sent[i] => r.log[k] = committed[k]
      BY <2>2, Zenon DEF IsPrefix
    <3> QED
      BY <1>1, <2>1, <3>2, <3>4, <3>5, RaftTestAssumption, Zenon DEF Reported
  <2> HIDE DEF i
  <2>4. Settled(i)'
    BY <1>2, <2>1, <2>3 DEF Settled
  <2>5. \A h \in Servers : Settled(h)'
    BY <1>1, <1>2, <2>4, OthersSettled DEF Quiet
  <2> QED
    BY <1>1, <2>5 DEF Quiet
<1> QED
  BY <1>2, <1>3, <1>4, <1>5

\* one() sees no error of the applier.
LEMMA TestStepQuiet ==
  ASSUME Shape, Quiet, Commit \/ CallOne \/ StartCmd \/ Poll \/ Timeout \/ OneDone
  PROVE  Quiet'
<1>1. UNCHANGED <<sent, rf, calls, logs, applyErr>>
  BY TestStepShape DEF TestStep
<1>2. \A i \in Servers : Settled(i)'
  BY <1>1, OthersSettled DEF Quiet
<1>3. one'.pc # "applyError"
  <2>1. CASE Commit
    BY <2>1 DEF Commit, Quiet
  <2>2. CASE CallOne \/ OneDone
    BY <2>2 DEF CallOne, OneDone, NoOne
  <2>3. CASE StartCmd \/ Timeout
    BY <2>3, TriesOn
  <2>4. CASE Poll
    <3>1. \A i \in Servers : ~applyErr[i]
      BY DEF Quiet, Settled
    <3>2. one' = [one EXCEPT !.pc = "mismatch"] \/ one' = [one EXCEPT !.pc = "returned"]
      BY <2>4, <3>1 DEF Poll
    <3> QED
      BY <3>2 DEF Shape, Types, One
  <2> QED
    BY <2>1, <2>2, <2>3, <2>4
<1> QED
  BY <1>1, <1>2, <1>3 DEF Quiet

\* Without a wrong delivery and an overtaken report no alarm is raised.
LEMMA NextQuiet ==
  ASSUME Shape, faults = 0 => Faithful, faults = 0 /\ ~overtaken => Quiet, [Next]_vars
  PROVE  faults' = 0 /\ ~overtaken' => Quiet'
<1>1. overtaken \in BOOLEAN /\ (~overtaken' => overtaken = FALSE /\ overtaken' = FALSE)
  <2>1. overtaken \in BOOLEAN /\ overtaken' \in BOOLEAN
    BY NextShape DEF Shape, Types
  <2>2. ASSUME NEW r \in calls, Handle(r) PROVE overtaken => overtaken'
    BY <2>2, Zenon DEF Handle
  <2>3. ASSUME NEW r \in calls, Lose(r) PROVE overtaken' = overtaken
    BY <2>3 DEF Lose, testerVars
  <2>4. ASSUME NEW i \in Servers, Server(i) \/ Kill(i) \/ Restart(i) PROVE overtaken' = overtaken
    BY <2>4, Zenon DEF Server, Apply, ApplySnapshot, RefuseSnapshot, ReportRefused, Checked, Kill,
       Restart, testerVars
  <2>5. ASSUME Commit \/ CallOne \/ StartCmd \/ Poll \/ Timeout \/ OneDone
        PROVE  overtaken' = overtaken
    BY <2>5, TestStepShape DEF TestStep
  <2>6. CASE UNCHANGED vars
    BY <2>1, <2>6 DEF vars
  <2> QED
    BY <2>1, <2>2, <2>3, <2>4, <2>5, <2>6, Zenon DEF Next
<1> SUFFICES ASSUME faults' = 0, faults = 0, overtaken' = FALSE, Faithful, Quiet PROVE Quiet'
  BY <1>1, FaultsGrow, Zenon
<1>2. CASE UNCHANGED vars
  BY <1>2 DEF vars, Quiet, Settled, Reported
<1>3. ASSUME NEW i \in Servers, Server(i) \/ Kill(i) \/ Restart(i) PROVE Quiet'
  <2>1. ~RefuseSnapshot(i)
    BY DEF RefuseSnapshot
  <2>2. ~ReportRefused(i)
    BY DEF ReportRefused, Quiet, Settled
  <2> QED
    BY <1>3, <2>1, <2>2, ApplyQuiet, ApplySnapshotQuiet, CheckedQuiet, KillQuiet, RestartQuiet
       DEF Server
<1>4. ASSUME NEW r \in calls, Handle(r) PROVE Quiet'
  BY <1>4, HandleQuiet, Zenon
<1>5. ASSUME NEW r \in calls, Lose(r) PROVE Quiet'
  <2>1. calls' = calls \ {r} /\ UNCHANGED <<sent, rf, logs, applyErr, one>>
    BY <1>5 DEF Lose, serverVars, testerVars
  <2> QED
    BY <2>1, OthersSettled DEF Quiet
<1>6. ASSUME Commit \/ CallOne \/ StartCmd \/ Poll \/ Timeout \/ OneDone PROVE Quiet'
  BY <1>6, TestStepQuiet
<1> QED
  BY <1>2, <1>3, <1>4, <1>5, <1>6 DEF Next

-----------------------------------------------------------------------------
(* The inductive invariant, and what it implies.                           *)

IInv ==
  /\ Shape
  /\ faults = 0 => Faithful
  /\ faults = 0 /\ ~overtaken => Quiet

\* The inductive invariant holds.
LEMMA Invariance == Spec => []IInv
<1>1. Init => IInv
  BY InitTypes, InitFaithful, InitQuiet DEF IInv, Shape
<1>2. IInv /\ [Next]_vars => IInv'
  BY NextShape, NextFaithful, NextQuiet DEF IInv
<1> QED
  BY <1>1, <1>2, PTL DEF Spec

\* "copy of server's committed entries": whatever kills, restarts, snapshots
\* and late reports, over a Raft that keeps its promises the tester's log of a
\* server holds committed entries only.
THEOREM TesterLogs == Spec => []LogsAreCommitted
<1>1. IInv => LogsAreCommitted
  <2>1. IInv /\ faults = 0 =>
          \A i \in Servers, k \in Indices :
            logs[i][k] # None => k \in 1 .. Len(committed) /\ logs[i][k] = committed[k]
    BY Zenon DEF IInv, Faithful, Known, IsEntry
  <2>2. IInv => Len(committed) \in Nat
    BY StateTypes DEF IInv
  <2> QED
    BY <2>1, <2>2 DEF LogsAreCommitted
<1> QED
  BY <1>1, Invariance, PTL

\* one() returns the index at which its command is committed, however often
\* it started the command and gave up.
THEOREM OneIsRight == Spec => []AgreementIsReal
<1>1. IInv => AgreementIsReal
  <2>1. IInv /\ faults = 0 /\ one.pc = "returned" =>
          one.index \in 1 .. Len(committed) /\ one.cmd = committed[one.index]
    BY Zenon DEF IInv, Faithful, Decided, IsEntry
  <2>2. IInv => Len(committed) \in Nat
    BY StateTypes DEF IInv
  <2> QED
    BY <2>1, <2>2 DEF AgreementIsReal
<1> QED
  BY <1>1, Invariance, PTL

\* Over a Raft that keeps its promises no check of the appliers, of CheckLogs
\* or of nCommitted fails, unless a report was handled after its server's
\* restart.
THEOREM NoAlarm == Spec => []NoFalseAlarm
<1>1. IInv => NoFalseAlarm
  BY DEF IInv, NoFalseAlarm, Faithful, Decided, Quiet, Settled
<1> QED
  BY <1>1, Invariance, PTL
=============================================================================
