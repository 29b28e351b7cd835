------------------------------ MODULE GroupNet -----------------------------
(***************************************************************************)
(* The links between the servers of a group, as the tests cut and restore  *)
(* them: ServerGrp and Server of src/src/tester1/group.go and srv.go.      *)
(*                                                                         *)
(* A link from i to j is the end with which server i calls server j.  The  *)
(* group keeps one flag per server beside the links, and connect consults  *)
(* only the flags.  One step is one call of StartServer, ConnectOne,       *)
(* DisconnectAll or ShutdownServer, or one iteration of the loops of       *)
(* Partition; ConnectAll, StartSrvs, StartServers and Kill are loops of    *)
(* such calls.  The tests start a server that is down, connect servers     *)
(* that are up, and partition a group all of whose servers are up.         *)
(***************************************************************************)
EXTENDS Integers, FiniteSets

CONSTANT N      \* number of servers of the group

ASSUME NAssumption == N \in Nat /\ N > 1

Servers == 0 .. N - 1

VARIABLES
  up,           \* the servers that run
  connected,    \* the servers whose flag ServerGrp.connected is set
  enabled,      \* the links that carry messages
  split,        \* the servers that took part in the last Partition and were
                \* not connected or disconnected since
  op            \* the Partition in progress: its groups, the servers of each
                \* still to do, and the leader if MakePartition made it

vars == <<up, connected, enabled, split, op>>

NoLeader == -1
Idle == [p1 |-> {}, p2 |-> {}, left |-> {}, leader |-> NoLeader]

Init ==
  /\ up = {}
  /\ connected = {}
  /\ enabled = {}
  /\ split = {}
  /\ op = Idle

\* The links between i and the servers of S, both ways.
Between(i, S) == ({i} \X S) \cup (S \X {i})

-----------------------------------------------------------------------------
(* Servers start, stop, join and leave.                                    *)

\* A started server has fresh ends, none of them enabled.
StartServer(i) ==
  /\ op = Idle /\ i \notin up
  /\ up' = up \cup {i}
  /\ enabled' = enabled \ ({i} \X Servers)
  /\ UNCHANGED <<connected, split, op>>

\* Mutation of Attach: only the outgoing links are connected.
AttachOneWay(i, to) ==
  /\ connected' = connected \cup {i}
  /\ enabled' = enabled \cup ({i} \X (to \cap (connected \cup {i})))

Attach(i, to) ==
  /\ connected' = connected \cup {i}
  /\ enabled' = enabled \cup Between(i, to \cap (connected \cup {i}))

ConnectOne(i) ==
  /\ op = Idle /\ i \in up
  /\ Attach(i, Servers)
  /\ split' = split \ {i}
  /\ UNCHANGED <<up, op>>

Detach(i) ==
  /\ connected' = connected \ {i}
  /\ enabled' = enabled \ Between(i, Servers)
  /\ split' = split \ {i}

DisconnectAll(i) ==
  /\ op = Idle /\ i \in up
  /\ Detach(i)
  /\ UNCHANGED <<up, op>>

ShutdownServer(i) ==
  /\ op = Idle /\ i \in up
  /\ Detach(i)
  /\ up' = up \ {i}
  /\ UNCHANGED op

-----------------------------------------------------------------------------
(* Partitions.                                                             *)

\* The servers other than l in order; a slot of p1 or p2 that the loop of
\* MakePartition does not reach keeps its zero.
Slot(l, j) == IF j >= N - 1 THEN 0 ELSE IF j < l THEN j ELSE j + 1

\* Mutation of MajorityOf: len(p1) is n/2.
MajorityOfShort(l) == {Slot(l, j) : j \in 0 .. N \div 2 - 1}

MajorityOf(l) == {Slot(l, j) : j \in 0 .. N \div 2}

MinorityOf(l) == {Slot(l, j) : j \in N \div 2 + 1 .. 2 * (N \div 2) - 1} \cup {l}

Begin(p1, p2, l) ==
  /\ op = Idle /\ up = Servers
  /\ op' = [p1 |-> p1, p2 |-> p2, left |-> Servers, leader |-> l]
  /\ split' = Servers
  /\ UNCHANGED <<up, connected, enabled>>

\* The Partitioner of kvtest puts every server into one of the groups.
PartitionRandomly == \E p1 \in SUBSET Servers : Begin(p1, Servers \ p1, NoLeader)

MakePartition(l) == Begin(MajorityOf(l), MinorityOf(l), l)

\* Mutation of PartitionOne: a server is not disconnected from the other group.
PartitionOneJoins(i, own, other) == Attach(i, own)

\* disconnect(i, other); connect(i, own)
PartitionOne(i, own, other) ==
  /\ connected' = connected \cup {i}
  /\ enabled' = (enabled \ Between(i, other))
                \cup Between(i, own \cap (connected \cup {i}))

\* The loop over p1, then the loop over p2, for groups that share no server.
PartitionStep(i) ==
  /\ i \in op.left
  /\ IF op.left \cap op.p1 # {}
     THEN i \in op.p1 /\ PartitionOne(i, op.p1, op.p2)
     ELSE PartitionOne(i, op.p2, op.p1)
  /\ op' = IF op.left = {i} THEN Idle ELSE [op EXCEPT !.left = @ \ {i}]
  /\ UNCHANGED <<up, split>>

Next ==
  \/ \E i \in Servers : \/ StartServer(i) \/ ConnectOne(i) \/ DisconnectAll(i)
                        \/ ShutdownServer(i) \/ MakePartition(i) \/ PartitionStep(i)
  \/ PartitionRandomly

Spec == Init /\ [][Next]_vars

-----------------------------------------------------------------------------
(* Properties.                                                             *)

\* Types; what is cut off or being partitioned is up or flagged accordingly.
TypeOK ==
  /\ up \subseteq Servers /\ connected \subseteq up
  /\ enabled \subseteq Servers \X Servers
  /\ split \subseteq Servers
  /\ op \in [p1 : SUBSET Servers, p2 : SUBSET Servers, left : SUBSET Servers,
             leader : Servers \cup {NoLeader}]

\* annotation.go, of ServerGrp.connected: it "is precise if and only if the
\* ServerGrp.Partition is not used".  Whatever servers were shut down,
\* restarted, disconnected and connected, in whatever order, the links that
\* work are those between flagged servers, except that two servers which have
\* stayed apart since a Partition may be flagged and not linked.
ConnectedIsPrecise ==
  /\ enabled \subseteq connected \X connected
  /\ (connected \X connected) \ (split \X split) \subseteq enabled

\* connect and disconnect treat both directions of a link alike, so that no
\* server hears from a server it cannot reach, even half way through Partition.
LinksSymmetric == \A e \in enabled : <<e[2], e[1]>> \in enabled

\* Partition: when the loops are done every server is linked to all of its
\* own group and to none of the other, whatever links there were before.
PartitionIsolates ==
  [][op # Idle /\ op' = Idle => enabled' = (op.p1 \X op.p1) \cup (op.p2 \X op.p2)]_vars

\* MakePartition: "Partition servers into 2 groups and put current leader in
\* minority".
LeaderInMinority ==
  op.leader # NoLeader =>
    /\ op.p1 \cap op.p2 = {} /\ op.p1 \cup op.p2 = Servers
    /\ op.leader \in op.p2 /\ Cardinality(op.p2) < Cardinality(op.p1)
=============================================================================
