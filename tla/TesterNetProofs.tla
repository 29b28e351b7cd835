--------------------------- MODULE TesterNetProofs --------------------------
(***************************************************************************)
(* The network of a test.  First the links of a group, for a group of any  *)
(* size: the flags are precise and every link works both ways; and, for    *)
(* groups of odd size, Partition isolates its two groups from each other   *)
(* and MakePartition leaves the leader with a minority.  Then the clerks:  *)
(* what they reach, what a deleted one leaves, and that beside a partition *)
(* they stay on their side.                                                *)
(***************************************************************************)
EXTENDS TesterNet, FiniteSetTheorems, TLAPS

\* A Partition is of a group that is up; the flags may miss its cuts.
Busy == op # Idle => up = Servers /\ split = Servers

Links == TypeOK /\ ConnectedIsPrecise /\ LinksSymmetric /\ Busy

\* The links between i and a group, both ways.
LEMMA BetweenMember ==
  ASSUME NEW i, NEW S
  PROVE  /\ \A a, b : <<a, b>> \in Between(i, S) <=> (a = i /\ b \in S) \/ (a \in S /\ b = i)
         /\ \A e \in Between(i, S) : e = <<e[1], e[2]>>
BY DEF Between

\* At first no link is enabled.
LEMMA InitLinks == Init => Links
BY DEF Init, Links, TypeOK, ConnectedIsPrecise, LinksSymmetric, Busy, Idle

\* StartServer enables none.
LEMMA StartLinks ==
  ASSUME Links, NEW i \in Servers, StartServer(i)
  PROVE  Links'
<1>1. enabled' = enabled
  BY DEF Links, TypeOK, ConnectedIsPrecise, StartServer
<1> QED
  BY <1>1 DEF Links, TypeOK, ConnectedIsPrecise, LinksSymmetric, Busy, StartServer

\* enabled' and connected' after links between i and S are made.
LEMMA AttachLinks ==
  ASSUME Links, NEW i \in Servers, NEW cut \in SUBSET enabled, NEW to \in SUBSET Servers,
         \A e \in cut : <<e[2], e[1]>> \in cut,
         connected' = connected \cup {i},
         enabled' = cut \cup Between(i, to \cap (connected \cup {i}))
  PROVE  /\ enabled' \subseteq Servers \X Servers
         /\ enabled' \subseteq connected' \X connected'
         /\ LinksSymmetric'
<1>1. enabled \subseteq connected \X connected /\ connected \subseteq Servers
  BY DEF Links, TypeOK, ConnectedIsPrecise
<1>2. \A e \in cut : e \in connected \X connected
  BY <1>1
<1>3. \A e \in Between(i, to \cap (connected \cup {i})) :
        /\ e \in connected' \X connected'
        /\ <<e[2], e[1]>> \in Between(i, to \cap (connected \cup {i}))
  BY Zenon DEF Between
<1>4. enabled' \subseteq connected' \X connected'
  BY <1>2, <1>3, Zenon
<1>5. LinksSymmetric'
  BY <1>3, Zenon DEF LinksSymmetric
<1> QED
  BY <1>1, <1>4, <1>5, Zenon

\* ConnectOne enables the links to the connected servers, both ways.
LEMMA ConnectLinks ==
  ASSUME Links, NEW i \in Servers, ConnectOne(i)
  PROVE  Links'
<1>1. /\ connected' = connected \cup {i} /\ split' = split \ {i} /\ i \in up
      /\ enabled' = enabled \cup Between(i, Servers \cap (connected \cup {i}))
      /\ UNCHANGED <<up, op>> /\ op = Idle
  BY DEF ConnectOne, Attach
<1>2. /\ enabled' \subseteq Servers \X Servers /\ LinksSymmetric'
      /\ enabled' \subseteq connected' \X connected'
  BY <1>1, AttachLinks, Zenon DEF Links, LinksSymmetric
<1>3. connected \subseteq Servers
  BY DEF Links, TypeOK
<1>4. ASSUME NEW a \in connected', NEW b \in connected', <<a, b>> \notin split' \X split'
      PROVE  <<a, b>> \in enabled'
  <2>1. CASE a = i \/ b = i
    BY <1>1, <1>3, <1>4, <2>1, BetweenMember
  <2>2. CASE a # i /\ b # i
    BY <1>1, <1>4, <2>2 DEF Links, ConnectedIsPrecise
  <2> QED
    BY <2>1, <2>2
<1>5. ConnectedIsPrecise'
  BY <1>2, <1>4 DEF ConnectedIsPrecise
<1>6. TypeOK'
  BY <1>1, <1>2, Zenon DEF Links, TypeOK
<1> QED
  BY <1>1, <1>2, <1>5, <1>6 DEF Links, Busy

\* DisconnectAll and ShutdownServer disable all links of a server.
LEMMA DetachLinks ==
  ASSUME Links, NEW i \in Servers, DisconnectAll(i) \/ ShutdownServer(i)
  PROVE  Links'
<1>1. /\ connected' = connected \ {i} /\ split' = split \ {i}
      /\ enabled' = enabled \ Between(i, Servers)
      /\ up' \in {up, up \ {i}} /\ UNCHANGED op /\ op = Idle
  BY DEF DisconnectAll, ShutdownServer, Detach
<1>2. \A e \in enabled' : e \in connected' \X connected' /\ <<e[2], e[1]>> \in enabled'
  <2>1. \A a, b : <<a, b>> \in enabled' <=> <<a, b>> \in enabled /\ a # i /\ b # i
    BY <1>1, BetweenMember, Zenon DEF Links, TypeOK
  <2>2. ASSUME NEW a, NEW b, <<a, b>> \in enabled'
        PROVE  a \in connected' /\ b \in connected' /\ <<b, a>> \in enabled'
    <3>1. <<a, b>> \in enabled /\ a # i /\ b # i
      BY <2>1, <2>2
    <3>2. a \in connected /\ b \in connected
      BY <3>1 DEF Links, ConnectedIsPrecise
    <3>3. <<b, a>> \in enabled
      BY <3>1 DEF Links, LinksSymmetric
    <3> QED
      BY <1>1, <2>1, <3>1, <3>2, <3>3
  <2>3. \A e \in enabled' : e = <<e[1], e[2]>>
    BY <1>1 DEF Links, TypeOK
  <2> QED
    BY <2>2, <2>3
<1>3. ASSUME NEW a \in connected', NEW b \in connected', <<a, b>> \notin split' \X split'
      PROVE  <<a, b>> \in enabled'
  BY <1>1, <1>3, BetweenMember DEF Links, ConnectedIsPrecise
<1>4. ConnectedIsPrecise' /\ LinksSymmetric'
  <2>1. enabled' \subseteq connected' \X connected'
    BY <1>2, Zenon
  <2>2. (connected' \X connected') \ (split' \X split') \subseteq enabled'
    BY <1>3
  <2>3. LinksSymmetric'
    BY <1>2, Zenon DEF LinksSymmetric
  <2> QED
    BY <2>1, <2>2, <2>3 DEF ConnectedIsPrecise
<1>5. connected' \subseteq up'
  BY <1>1 DEF Links, TypeOK
<1>6. TypeOK'
  BY <1>1, <1>5 DEF Links, TypeOK
<1> QED
  BY <1>1, <1>4, <1>6 DEF Links, Busy

\* Nothing is rewired when a partition begins.
LEMMA BeginLinks ==
  ASSUME Links, NEW p1 \in SUBSET Servers, NEW p2 \in SUBSET Servers,
         NEW l \in Servers \cup {NoLeader}, Begin(p1, p2, l)
  PROVE  Links'
BY DEF Links, TypeOK, ConnectedIsPrecise, LinksSymmetric, Busy, Begin

\* A turn of Partition rewires one server.
LEMMA PartitionLinks ==
  ASSUME Links, NEW i \in Servers, PartitionStep(i)
  PROVE  Links'
<1>1. PICK own \in SUBSET Servers, other \in SUBSET Servers : PartitionOne(i, own, other)
  BY DEF PartitionStep, Links, TypeOK
<1>2. op # Idle
  BY DEF PartitionStep, Idle
<1>3. up = Servers /\ split = Servers /\ UNCHANGED <<up, split>>
  BY <1>2 DEF Links, Busy, PartitionStep
<1>4. ASSUME NEW e \in enabled \ Between(i, other)
      PROVE  <<e[2], e[1]>> \in enabled \ Between(i, other)
  BY DEF Links, TypeOK, LinksSymmetric, Between
<1>5. /\ enabled' \subseteq Servers \X Servers /\ LinksSymmetric'
      /\ enabled' \subseteq connected' \X connected'
  BY <1>1, <1>4, AttachLinks, Zenon DEF PartitionOne
<1>6. connected' \subseteq up' /\ connected' \subseteq Servers
  BY <1>1, <1>3 DEF PartitionOne, Links, TypeOK
<1>7. op' \in [p1 : SUBSET Servers, p2 : SUBSET Servers, left : SUBSET Servers,
               leader : Servers \cup {NoLeader}]
  <2>1. CASE op.left = {i}
    BY <2>1 DEF PartitionStep, Idle
  <2>2. CASE op.left # {i}
    BY <2>2 DEF PartitionStep, Links, TypeOK
  <2> QED
    BY <2>1, <2>2
<1> QED
  BY <1>3, <1>5, <1>6, <1>7 DEF Links, TypeOK, ConnectedIsPrecise, Busy

\* Counting on from the leader around the group gives servers.
LEMMA SlotServer ==
  ASSUME NEW l \in Servers, NEW j \in Nat
  PROVE  Slot(l, j) \in Servers
BY NAssumption DEF Slot, Servers

\* So the two groups of MakePartition are groups of servers.
LEMMA GroupsAreServers ==
  ASSUME NEW l \in Servers
  PROVE  MajorityOf(l) \in SUBSET Servers /\ MinorityOf(l) \in SUBSET Servers
<1>1. N \div 2 \in Nat
  BY NAssumption
<1>2. MajorityOf(l) \subseteq Servers
  BY <1>1, SlotServer DEF MajorityOf
<1>3. MinorityOf(l) \subseteq Servers
  BY <1>1, SlotServer DEF MinorityOf
<1> QED
  BY <1>2, <1>3

\* Every step keeps the flags precise and the links symmetric.
LEMMA NextLinks == Links /\ [Next]_vars => Links'
<1> SUFFICES ASSUME Links, [Next]_vars PROVE Links'
  OBVIOUS
<1>1. ASSUME NEW i \in Servers, MakePartition(i) PROVE Links'
  BY <1>1, GroupsAreServers, BeginLinks DEF MakePartition
<1>2. CASE PartitionRandomly
  BY <1>2, BeginLinks DEF PartitionRandomly
<1>3. CASE UNCHANGED vars
  BY <1>3 DEF vars, Links, TypeOK, ConnectedIsPrecise, LinksSymmetric, Busy
<1> QED
  BY <1>1, <1>2, <1>3, StartLinks, ConnectLinks, DetachLinks, PartitionLinks DEF Next

\* The types of the group's state.
THEOREM TypeCorrect == Spec => []TypeOK
<1>1. Links => TypeOK
  BY DEF Links
<1> QED
  BY <1>1, InitLinks, NextLinks, PTL DEF Spec

\* ServerGrp.connected says which links work, for groups of any size and any
\* order of starts, shutdowns, connects, disconnects and partitions.
THEOREM FlagsArePrecise == Spec => []ConnectedIsPrecise
<1>1. Links => ConnectedIsPrecise
  BY DEF Links
<1> QED
  BY <1>1, InitLinks, NextLinks, PTL DEF Spec

\* No server hears from a server that it cannot reach.
THEOREM BothWays == Spec => []LinksSymmetric
<1>1. Links => LinksSymmetric
  BY DEF Links
<1> QED
  BY <1>1, InitLinks, NextLinks, PTL DEF Spec

-----------------------------------------------------------------------------
(* Groups of odd size: MakePartition makes two disjoint groups.            *)

Odd == N % 2 = 1

\* The majority of an odd group has one server more than the minority.
LEMMA Half ==
  ASSUME Odd
  PROVE  N \div 2 \in Nat /\ N = 2 * (N \div 2) + 1 /\ N \div 2 >= 1
BY NAssumption DEF Odd

\* MakePartition divides an odd group, with the leader among the fewer.
LEMMA MadeGroups ==
  ASSUME Odd, NEW l \in Servers
  PROVE  /\ MajorityOf(l) \cap MinorityOf(l) = {}
         /\ MajorityOf(l) \cup MinorityOf(l) = Servers
         /\ l \in MinorityOf(l)
<1> DEFINE m == N \div 2
<1>1. m \in Nat /\ N = 2 * m + 1 /\ m >= 1
  BY Half
<1>2. MajorityOf(l) = {Slot(l, j) : j \in 0 .. m}
  BY DEF MajorityOf
<1>3. MinorityOf(l) = {Slot(l, j) : j \in m + 1 .. 2 * m - 1} \cup {l}
  BY DEF MinorityOf
<1> HIDE DEF m
<1>4. \A j \in 0 .. 2 * m - 1 : Slot(l, j) = IF j < l THEN j ELSE j + 1
  BY <1>1 DEF Slot
<1>5. l \in 0 .. 2 * m /\ Servers = 0 .. 2 * m
  BY <1>1 DEF Servers
<1>6. MajorityOf(l) \cap MinorityOf(l) = {}
  <2> SUFFICES ASSUME NEW j \in 0 .. m, NEW k \in m + 1 .. 2 * m - 1
               PROVE  Slot(l, j) # l /\ Slot(l, j) # Slot(l, k)
    BY <1>2, <1>3, <1>1, <1>4, <1>5
  <2> QED
    BY <1>1, <1>4, <1>5
<1>7. ASSUME NEW s \in Servers PROVE s \in MajorityOf(l) \cup MinorityOf(l)
  <2>1. CASE s = l
    BY <1>3, <2>1
  <2>2. CASE s < l
    <3>1. s \in 0 .. 2 * m - 1 /\ s = Slot(l, s)
      BY <1>1, <1>4, <1>5, <2>2
    <3>2. s \in 0 .. m \/ s \in m + 1 .. 2 * m - 1
      BY <1>1, <3>1
    <3> QED
      BY <1>2, <1>3, <3>1, <3>2
  <2>3. CASE s > l
    <3>1. s - 1 \in 0 .. 2 * m - 1 /\ s = Slot(l, s - 1)
      BY <1>1, <1>4, <1>5, <2>3
    <3>2. s - 1 \in 0 .. m \/ s - 1 \in m + 1 .. 2 * m - 1
      BY <1>1, <3>1
    <3> QED
      BY <1>2, <1>3, <3>1, <3>2
  <2> QED
    BY <1>1, <1>5, <2>1, <2>2, <2>3
<1>8. MajorityOf(l) \cup MinorityOf(l) \subseteq Servers
  BY GroupsAreServers
<1>9. l \in MinorityOf(l)
  BY <1>3
<1> QED
  BY <1>6, <1>7, <1>8, <1>9

\* And they are the fewer.
LEMMA MadeSizes ==
  ASSUME Odd, NEW l \in Servers
  PROVE  Cardinality(MinorityOf(l)) < Cardinality(MajorityOf(l))
<1> DEFINE m == N \div 2
           slot == [j \in 0 .. m |-> Slot(l, j)]
<1>1. m \in Nat /\ N = 2 * m + 1 /\ m >= 1
  BY Half
<1>2. MajorityOf(l) = {Slot(l, j) : j \in 0 .. m}
  BY DEF MajorityOf
<1> HIDE DEF m
<1>3. \A j \in 0 .. m : Slot(l, j) = IF j < l THEN j ELSE j + 1
  BY <1>1 DEF Slot
<1>4. l \in 0 .. 2 * m /\ Servers = 0 .. 2 * m
  BY <1>1 DEF Servers
<1>5. \A j, k \in 0 .. m : Slot(l, j) = Slot(l, k) => j = k
  BY <1>1, <1>3, <1>4
<1>6. slot \in Bijection(0 .. m, MajorityOf(l))
  BY <1>2, <1>5 DEF Bijection, Injection, Surjection, IsInjective
<1>7. IsFiniteSet(0 .. m) /\ Cardinality(0 .. m) = m + 1
  BY <1>1, FS_Interval
<1>8. Cardinality(MajorityOf(l)) = m + 1
  <2>1. ExistsBijection(0 .. m, MajorityOf(l))
    BY <1>6 DEF ExistsBijection
  <2> QED
    BY <1>7, <2>1, FS_Bijection
<1>9. IsFiniteSet(Servers) /\ Cardinality(Servers) = 2 * m + 1
  BY <1>1, <1>4, FS_Interval
<1>10. MinorityOf(l) = Servers \ MajorityOf(l) /\ Servers \cap MajorityOf(l) = MajorityOf(l)
  BY MadeGroups
<1>11. Cardinality(MinorityOf(l)) = m
  <2>1. Cardinality(Servers \ MajorityOf(l))
          = Cardinality(Servers) - Cardinality(Servers \cap MajorityOf(l))
    BY <1>9, FS_Difference
  <2>2. Cardinality(MinorityOf(l)) = (2 * m + 1) - (m + 1)
    BY <1>8, <1>9, <1>10, <2>1, Zenon
  <2> QED
    BY <1>1, <2>2
<1> QED
  BY <1>1, <1>8, <1>11

\* While Partition runs: its groups share no server, and the servers whose
\* turn is over have their links as Partition wants them.
Same(a, b) == (a \in op.p1 /\ b \in op.p1) \/ (a \in op.p2 /\ b \in op.p2)

Progress ==
  op # Idle =>
    /\ op.p1 \cap op.p2 = {} /\ op.p1 \cup op.p2 = Servers
    /\ Servers \ op.left \subseteq connected
    /\ \A a, b \in Servers \ op.left : Same(a, b) => <<a, b>> \in enabled
    /\ \A a, b \in Servers : <<a, b>> \in enabled /\ ~(a \in op.left /\ b \in op.left) => Same(a, b)

Inv == Links /\ Progress /\ LeaderInMinority

\* A partition begins with every server still to be rewired.
LEMMA BeginInv ==
  ASSUME Inv, NEW p1 \in SUBSET Servers, NEW p2 \in SUBSET Servers, NEW l,
         p1 \cap p2 = {}, p1 \cup p2 = Servers, Begin(p1, p2, l),
         l # NoLeader => l \in p2 /\ Cardinality(p2) < Cardinality(p1)
  PROVE  Progress' /\ LeaderInMinority'
<1>1. /\ op'.p1 = p1 /\ op'.p2 = p2 /\ op'.left = Servers /\ op'.leader = l
      /\ UNCHANGED <<connected, enabled>>
  BY DEF Begin
<1>2. LeaderInMinority'
  BY <1>1 DEF LeaderInMinority
<1>3. Progress'
  BY <1>1 DEF Progress
<1> QED
  BY <1>2, <1>3

(* One server's turn in the loops of Partition.                            *)
LEMMA Turn ==
  ASSUME Inv, NEW i \in Servers, PartitionStep(i)
  PROVE  /\ i \in op.left /\ op # Idle
         /\ \E own, other : /\ PartitionOne(i, own, other) /\ i \in own
                            /\ \A a \in Servers : /\ a \in own <=> Same(i, a)
                                                  /\ a \in other <=> ~Same(i, a)
                                                  /\ Same(i, a) <=> Same(a, i)
         /\ op' = IF op.left = {i} THEN Idle ELSE [op EXCEPT !.left = @ \ {i}]
<1>1. i \in op.left /\ op # Idle
  BY DEF PartitionStep, Idle
<1>2. op.p1 \cap op.p2 = {} /\ op.p1 \cup op.p2 = Servers
  BY <1>1 DEF Inv, Progress
<1>3. CASE op.left \cap op.p1 # {}
  <2>1. i \in op.p1 /\ PartitionOne(i, op.p1, op.p2)
    BY <1>3 DEF PartitionStep
  <2> QED
    BY <1>1, <1>2, <2>1 DEF Same, PartitionStep
<1>4. CASE op.left \cap op.p1 = {}
  <2>1. i \in op.p2 /\ PartitionOne(i, op.p2, op.p1)
    BY <1>1, <1>2, <1>4 DEF PartitionStep
  <2> QED
    BY <1>1, <1>2, <2>1 DEF Same, PartitionStep
<1> QED
  BY <1>3, <1>4

(* After the turn of i the servers done and i are as Partition wants them. *)
LEMMA TurnLinks ==
  ASSUME Inv, NEW i \in Servers, PartitionStep(i)
  PROVE  /\ (Servers \ op.left) \cup {i} \subseteq connected'
         /\ \A a, b \in (Servers \ op.left) \cup {i} : Same(a, b) => <<a, b>> \in enabled'
         /\ \A a, b \in Servers :
              <<a, b>> \in enabled' /\ ~(a \in op.left \ {i} /\ b \in op.left \ {i}) => Same(a, b)
<1>1. PICK own, other : /\ PartitionOne(i, own, other) /\ i \in own
                        /\ \A a \in Servers : /\ a \in own <=> Same(i, a)
                                              /\ a \in other <=> ~Same(i, a)
                                              /\ Same(i, a) <=> Same(a, i)
  BY Turn
<1>2. /\ op # Idle /\ i \in op.left /\ Servers \ op.left \subseteq connected
      /\ \A a, b \in Servers \ op.left : Same(a, b) => <<a, b>> \in enabled
      /\ \A a, b \in Servers : <<a, b>> \in enabled /\ ~(a \in op.left /\ b \in op.left)
                                 => Same(a, b)
  BY Turn DEF Inv, Progress
<1>3. connected' = connected \cup {i}
  BY <1>1 DEF PartitionOne
<1>4. \A a, b \in Servers :
        <<a, b>> \in enabled' <=>
          \/ /\ <<a, b>> \in enabled
             /\ ~((a = i /\ b \in other) \/ (a \in other /\ b = i))
          \/ a = i /\ b \in own /\ b \in connected \cup {i}
          \/ b = i /\ a \in own /\ a \in connected \cup {i}
  BY <1>1 DEF PartitionOne, Between
<1>5. ASSUME NEW a \in (Servers \ op.left) \cup {i}, NEW b \in (Servers \ op.left) \cup {i}, Same(a, b)
      PROVE  <<a, b>> \in enabled'
  BY <1>1, <1>2, <1>4, <1>5
<1>6. ASSUME NEW a \in Servers, NEW b \in Servers, <<a, b>> \in enabled',
             ~(a \in op.left \ {i} /\ b \in op.left \ {i})
      PROVE  Same(a, b)
  <2>1. CASE a = i
    BY <1>1, <1>4, <1>6, <2>1
  <2>2. CASE b = i
    BY <1>1, <1>4, <1>6, <2>2
  <2>3. CASE a # i /\ b # i
    BY <1>2, <1>4, <1>6, <2>3
  <2> QED
    BY <2>1, <2>2, <2>3
<1> QED
  BY <1>2, <1>3, <1>5, <1>6

\* After the last turn the enabled links are those inside the two parts.
LEMMA TurnInv ==
  ASSUME Inv, NEW i \in Servers, PartitionStep(i)
  PROVE  /\ Progress' /\ LeaderInMinority'
         /\ op' = Idle => enabled' = (op.p1 \X op.p1) \cup (op.p2 \X op.p2)
<1>1. /\ op' = IF op.left = {i} THEN Idle ELSE [op EXCEPT !.left = @ \ {i}]
      /\ i \in op.left /\ op # Idle /\ op.left \in SUBSET Servers
  BY Turn DEF Inv, Links, TypeOK
<1>2. op.p1 \cap op.p2 = {} /\ op.p1 \cup op.p2 = Servers
  BY <1>1 DEF Inv, Progress
<1>3. CASE op.left = {i}
  <2>1. op' = Idle
    BY <1>1, <1>3
  <2>2. \A a, b \in Servers : <<a, b>> \in enabled' <=> Same(a, b)
    BY <1>3, TurnLinks, Zenon
  <2>3. enabled' \subseteq Servers \X Servers
    BY PartitionLinks DEF Inv, Links, TypeOK
  <2>4. enabled' = (op.p1 \X op.p1) \cup (op.p2 \X op.p2)
    BY <1>2, <2>2, <2>3 DEF Same
  <2> QED
    BY <2>1, <2>4 DEF Progress, LeaderInMinority, Idle
<1>4. CASE op.left # {i}
  <2>1. /\ op'.p1 = op.p1 /\ op'.p2 = op.p2 /\ op'.leader = op.leader
        /\ op'.left = op.left \ {i} /\ op' # Idle
    BY <1>1, <1>4 DEF Inv, Links, TypeOK, Idle
  <2>2. \A a, b : Same(a, b)' <=> Same(a, b)
    BY <2>1 DEF Same
  <2>3. Servers \ op'.left = (Servers \ op.left) \cup {i}
    BY <1>1, <2>1
  <2>4. /\ Servers \ op'.left \subseteq connected'
        /\ \A a, b \in Servers \ op'.left : Same(a, b) => <<a, b>> \in enabled'
        /\ \A a, b \in Servers :
             <<a, b>> \in enabled' /\ ~(a \in op'.left /\ b \in op'.left) => Same(a, b)
    BY <2>1, <2>3, TurnLinks
  <2>5. Progress'
    BY <1>2, <2>1, <2>4 DEF Progress, Same
  <2>6. LeaderInMinority'
    BY <2>1 DEF Inv, LeaderInMinority
  <2> QED
    BY <2>1, <2>5, <2>6
<1> QED
  BY <1>3, <1>4

\* Every step keeps the progress of a partition.
LEMMA NextInv ==
  ASSUME Odd
  PROVE  Inv /\ [Next]_vars =>
           /\ Inv'
           /\ op # Idle /\ op' = Idle => enabled' = (op.p1 \X op.p1) \cup (op.p2 \X op.p2)
<1> SUFFICES ASSUME Inv, [Next]_vars
             PROVE  /\ Progress' /\ LeaderInMinority'
                    /\ op # Idle /\ op' = Idle
                         => enabled' = (op.p1 \X op.p1) \cup (op.p2 \X op.p2)
  BY NextLinks DEF Inv
<1>1. ASSUME NEW i \in Servers,
             StartServer(i) \/ ConnectOne(i) \/ DisconnectAll(i) \/ ShutdownServer(i)
      PROVE  op = Idle /\ op' = Idle
  BY <1>1 DEF StartServer, ConnectOne, DisconnectAll, ShutdownServer
<1>2. op' = Idle => Progress' /\ LeaderInMinority'
  BY DEF Progress, LeaderInMinority, Idle
<1>3. ASSUME NEW i \in Servers, MakePartition(i)
      PROVE  Progress' /\ LeaderInMinority' /\ op = Idle
  <2>1. op = Idle /\ Begin(MajorityOf(i), MinorityOf(i), i)
    BY <1>3 DEF MakePartition, Begin
  <2> QED
    BY <2>1, BeginInv, GroupsAreServers, MadeGroups, MadeSizes
<1>4. CASE PartitionRandomly
  <2>1. PICK p1 \in SUBSET Servers : Begin(p1, Servers \ p1, NoLeader)
    BY <1>4 DEF PartitionRandomly
  <2>2. op = Idle
    BY <2>1 DEF Begin
  <2>3. p1 \cap (Servers \ p1) = {} /\ p1 \cup (Servers \ p1) = Servers
        /\ Servers \ p1 \in SUBSET Servers
    OBVIOUS
  <2> QED
    BY <2>1, <2>2, <2>3, BeginInv
<1>5. CASE UNCHANGED vars
  BY <1>5 DEF vars, Inv, Progress, LeaderInMinority, Same
<1> QED
  BY <1>1, <1>2, <1>3, <1>4, <1>5, TurnInv DEF Next

\* At first there is no partition under way.
LEMMA InitInv == Init => Inv
BY InitLinks DEF Init, Inv, Progress, LeaderInMinority, Idle

\* MakePartition on a group of odd size leaves the leader in the smaller of
\* two disjoint groups that cover all servers.
THEOREM MinorityOfOdd ==
  ASSUME Odd
  PROVE  Spec => []LeaderInMinority
<1>1. Inv => LeaderInMinority
  BY DEF Inv
<1>2. Inv /\ [Next]_vars => Inv'
  BY NextInv
<1> QED
  BY <1>1, <1>2, InitInv, PTL DEF Spec

\* When the loops of Partition are done, in a group of odd size, the servers
\* are linked within their groups and not across them, whatever the links
\* were before.
THEOREM Isolation ==
  ASSUME Odd
  PROVE  Spec => PartitionIsolates
<1>1. Inv /\ [Next]_vars => Inv'
  BY NextInv
<1>2. Inv /\ [Next]_vars =>
        [op # Idle /\ op' = Idle => enabled' = (op.p1 \X op.p1) \cup (op.p2 \X op.p2)]_vars
  BY NextInv
<1> QED
  BY <1>1, <1>2, InitInv, PTL DEF Spec, PartitionIsolates

-----------------------------------------------------------------------------
(* The clerks.                                                             *)

\* NetSpec is the group and the clerks side by side.
LEMMA GroupOrClerk ==
  ASSUME [NetNext]_netVars
  PROVE  [Next]_vars /\ [Clerks!Next]_clerkVars
<1>1. CASE GroupStep
  BY <1>1 DEF GroupStep, Next
<1>2. CASE ClerkStep
  BY <1>2 DEF ClerkStep
<1>3. CASE UNCHANGED netVars
  BY <1>3 DEF netVars
<1> QED
  BY <1>1, <1>2, <1>3 DEF NetNext

\* The tests' network behaves as a group and as a set of clerks: Cleanup, which
\* leaves only shutdowns, adds no behaviour to the group's.
THEOREM Composition == NetSpec => Spec /\ Clerks!Spec
<1>1. NetInit => Init /\ Clerks!Init
  BY DEF NetInit
<1>2. [NetNext]_netVars => [Next]_vars /\ [Clerks!Next]_(Clerks!vars)
  BY GroupOrClerk DEF clerkVars, Clerks!vars
<1> QED
  BY <1>1, <1>2, PTL DEF NetSpec, Spec, Clerks!Spec

ClerkTypes ==
  /\ state \in [Clients -> {"unmade", "made", "gone"}]
  /\ srvs \in [Clients -> {Everybody} \cup SUBSET Servers]
  /\ ends \in [Clients -> SUBSET Servers] /\ inNet \in [Clients -> SUBSET Servers]
  /\ on \in [Clients -> SUBSET Servers] /\ deleted \in [Clients -> SUBSET Servers]
  /\ cleaned \in BOOLEAN /\ narrowed \in [Clients -> BOOLEAN]

\* The network holds the ends in the map of a client that it did not delete; it
\* deleted ends of clients that were removed only, and has flags of no others.
Registered(c) ==
  /\ state[c] = "unmade" => ends[c] = {}
  /\ state[c] # "gone" => deleted[c] = {}
  /\ deleted[c] \subseteq ends[c] /\ inNet[c] = ends[c] \ deleted[c] /\ on[c] \subseteq ends[c]

\* ReachesAllowed of one client.
Reaches(c) ==
  ~narrowed[c] => on[c] \cap inNet[c] = {s \in ends[c] \ deleted[c] : Clerks!Allowed(s, srvs[c])}

ClerkInv == ClerkTypes /\ \A c \in Clients : Registered(c) /\ Reaches(c)

\* At first there is no client.
LEMMA ClerkInit == Clerks!Init => ClerkInv
<1> SUFFICES ASSUME Clerks!Init PROVE ClerkInv
  OBVIOUS
<1>1. ClerkTypes
  BY Zenon DEF Clerks!Init, ClerkTypes
<1>2. ASSUME NEW c \in Clients PROVE Registered(c) /\ Reaches(c)
  <2>1. ends[c] = {} /\ inNet[c] = {} /\ deleted[c] = {} /\ on[c] = {}
    BY DEF Clerks!Init
  <2> QED
    BY <2>1 DEF Registered, Reaches
<1> QED
  BY <1>1, <1>2 DEF ClerkInv

\* What a step of another client, or of none, leaves alone.
LEMMA SameClient ==
  ASSUME NEW c \in Clients, Registered(c), Reaches(c),
         state'[c] = state[c], srvs'[c] = srvs[c], ends'[c] = ends[c], inNet'[c] = inNet[c],
         on'[c] = on[c], deleted'[c] = deleted[c], narrowed'[c] = narrowed[c]
  PROVE  (Registered(c) /\ Reaches(c))'
BY DEF Registered, Reaches

\* A new client has no ends yet.
LEMMA MakeClientInv ==
  ASSUME ClerkInv, NEW c \in Clients, NEW list \in {Everybody} \cup SUBSET Servers,
         Clerks!MakeClientTo(c, list)
  PROVE  ClerkInv'
<1>1. /\ state' = [state EXCEPT ![c] = "made"] /\ srvs' = [srvs EXCEPT ![c] = list]
      /\ UNCHANGED <<ends, inNet, on, deleted, cleaned, narrowed>> /\ state[c] = "unmade"
  BY DEF Clerks!MakeClientTo
<1>2. ClerkTypes'
  BY <1>1 DEF ClerkInv, ClerkTypes
<1>3. ASSUME NEW d \in Clients PROVE (Registered(d) /\ Reaches(d))'
  <2>1. CASE d # c
    BY <1>1, <2>1, SameClient DEF ClerkInv, ClerkTypes
  <2>2. CASE d = c
    <3>1. state'[c] = "made" /\ UNCHANGED <<ends, inNet, on, deleted>>
      BY <1>1 DEF ClerkInv, ClerkTypes
    <3>2. ends[c] = {} /\ inNet[c] = {} /\ deleted[c] = {} /\ on[c] = {}
      BY <1>1 DEF ClerkInv, Registered
    <3> QED
      BY <2>2, <3>1, <3>2 DEF Registered, Reaches
  <2> QED
    BY <2>1, <2>2
<1> QED
  BY <1>2, <1>3 DEF ClerkInv

\* An end is connected when it is made if its server is allowed; the client
\* had none to that server, neither in the network nor deleted.
LEMMA MakeEndInv ==
  ASSUME ClerkInv, NEW c \in Clients, NEW s \in Servers, Clerks!MakeEnd(c, s)
  PROVE  ClerkInv'
<1> DEFINE grown == IF Clerks!Allowed(s, srvs[c]) THEN on[c] \cup {s} ELSE on[c]
<1>1. /\ state[c] # "unmade" /\ s \notin ends[c]
      /\ ends' = [ends EXCEPT ![c] = ends[c] \cup {s}]
      /\ inNet' = [inNet EXCEPT ![c] = inNet[c] \cup {s}]
      /\ on' = [on EXCEPT ![c] = grown]
      /\ UNCHANGED <<state, srvs, deleted, cleaned, narrowed>>
  BY Zenon DEF Clerks!MakeEnd, Clerks!InUse, ClerkInv, ClerkTypes
<1>2. grown \subseteq Servers
  BY DEF ClerkInv, ClerkTypes
<1>3. ClerkTypes'
  <2> HIDE DEF grown
  <2> QED
    BY <1>1, <1>2 DEF ClerkInv, ClerkTypes
<1>4. ASSUME NEW d \in Clients PROVE (Registered(d) /\ Reaches(d))'
  <2>1. CASE d # c
    <3> HIDE DEF grown
    <3> QED
      BY <1>1, <2>1, SameClient DEF ClerkInv, ClerkTypes
  <2>2. CASE d = c
    <3>1. /\ ends'[c] = ends[c] \cup {s} /\ inNet'[c] = inNet[c] \cup {s} /\ on'[c] = grown
          /\ UNCHANGED <<state, srvs, deleted, narrowed>>
      <4> HIDE DEF grown
      <4> QED
        BY <1>1 DEF ClerkInv, ClerkTypes
    <3>2. Registered(c) /\ Reaches(c)
      BY DEF ClerkInv
    <3>3. Registered(c)'
      <4>1. grown \subseteq on[c] \cup {s}
        OBVIOUS
      <4> HIDE DEF grown
      <4> QED
        BY <1>1, <3>1, <3>2, <4>1 DEF Registered
    <3>4. Reaches(c)'
      <4> SUFFICES ASSUME ~narrowed[c]
                   PROVE  on'[c] \cap inNet'[c] =
                            {t \in ends'[c] \ deleted[c] : Clerks!Allowed(t, srvs[c])}
        BY <3>1, Zenon DEF Reaches
      <4>1. /\ on[c] \cap inNet[c] = {t \in ends[c] \ deleted[c] : Clerks!Allowed(t, srvs[c])}
            /\ inNet[c] = ends[c] \ deleted[c]
            /\ s \notin inNet[c] /\ s \notin deleted[c] /\ s \notin on[c]
        BY <1>1, <3>2 DEF Reaches, Registered
      <4>2. ASSUME NEW t
            PROVE  t \in on'[c] \cap inNet'[c] <=>
                     t \in ends'[c] \ deleted[c] /\ Clerks!Allowed(t, srvs[c])
        <5>1. CASE t = s
          BY <3>1, <4>1, <5>1
        <5>2. CASE t # s
          <6>1. t \in on'[c] \cap inNet'[c] <=> t \in on[c] \cap inNet[c]
            BY <3>1, <5>2
          <6> QED
            BY <3>1, <4>1, <5>2, <6>1
        <5> QED
          BY <5>1, <5>2
      <4> QED
        BY <4>2
    <3> QED
      BY <2>2, <3>3, <3>4
  <2> QED
    BY <2>1, <2>2
<1> QED
  BY <1>3, <1>4 DEF ClerkInv

\* ConnectAll, ConnectTo and the disconnects switch the ends of the map.
LEMMA ConnectInv ==
  ASSUME ClerkInv, NEW c \in Clients,
         \/ Clerks!ConnectAll(c) \/ Clerks!DisconnectAll(c)
         \/ \E list \in SUBSET Servers : Clerks!ConnectTo(c, list)
         \/ \E s \in Servers : Clerks!Disconnect(c, s)
  PROVE  ClerkInv'
<1>1. PICK now \in SUBSET Servers, list \in {Everybody} \cup SUBSET Servers, part \in BOOLEAN :
        /\ on' = [on EXCEPT ![c] = now] /\ srvs' = [srvs EXCEPT ![c] = list]
        /\ narrowed' = [narrowed EXCEPT ![c] = part]
        /\ UNCHANGED <<state, ends, inNet, deleted, cleaned>>
        /\ now \subseteq on[c] \cup ends[c]
        /\ part \/ (list = Everybody /\ now = on[c] \cup ends[c]) \/ (list = {} /\ now = {})
  <2> USE DEF ClerkInv, ClerkTypes
  <2>1. CASE Clerks!ConnectAll(c)
    <3>1. on[c] \cup ends[c] \in SUBSET Servers
      OBVIOUS
    <3> QED
      BY <2>1, <3>1, Zenon DEF Clerks!ConnectAll
  <2>2. CASE Clerks!DisconnectAll(c)
    BY <2>2, Zenon DEF Clerks!DisconnectAll
  <2>3. ASSUME NEW list \in SUBSET Servers, Clerks!ConnectTo(c, list)
        PROVE  \E now \in SUBSET Servers :
                 /\ on' = [on EXCEPT ![c] = now] /\ srvs' = [srvs EXCEPT ![c] = list]
                 /\ narrowed' = [narrowed EXCEPT ![c] = TRUE]
                 /\ UNCHANGED <<state, ends, inNet, deleted, cleaned>>
                 /\ now \subseteq on[c] \cup ends[c]
    <3> DEFINE now == on[c] \cup {s \in ends[c] : Clerks!Allowed(s, list)}
    <3>1. now \in SUBSET Servers /\ now \subseteq on[c] \cup ends[c]
      OBVIOUS
    <3> QED
      BY <2>3, <3>1, Zenon DEF Clerks!ConnectTo
  <2>4. ASSUME NEW s \in Servers, Clerks!Disconnect(c, s)
        PROVE  \E now \in SUBSET Servers :
                 /\ on' = [on EXCEPT ![c] = now] /\ srvs' = [srvs EXCEPT ![c] = srvs[c]]
                 /\ narrowed' = [narrowed EXCEPT ![c] = TRUE]
                 /\ UNCHANGED <<state, ends, inNet, deleted, cleaned>>
                 /\ now \subseteq on[c] \cup ends[c]
    <3>1. on[c] \ {s} \in SUBSET Servers /\ on[c] \ {s} \subseteq on[c] \cup ends[c]
      OBVIOUS
    <3>2. srvs = [srvs EXCEPT ![c] = srvs[c]]
      OBVIOUS
    <3> HIDE DEF ClerkInv, ClerkTypes
    <3> QED
      BY <2>4, <3>1, <3>2, Zenon DEF Clerks!Disconnect
  <2>5. srvs[c] \in {Everybody} \cup SUBSET Servers
    OBVIOUS
  <2>6. SUBSET Servers \subseteq {Everybody} \cup SUBSET Servers
    OBVIOUS
  <2> HIDE DEF ClerkInv, ClerkTypes
  <2> QED
    BY <2>1, <2>2, <2>3, <2>4, <2>5, <2>6, Zenon
<1>2. ClerkTypes'
  BY <1>1 DEF ClerkInv, ClerkTypes
<1>3. ASSUME NEW d \in Clients PROVE (Registered(d) /\ Reaches(d))'
  <2>1. CASE d # c
    BY <1>1, <2>1, SameClient DEF ClerkInv, ClerkTypes
  <2>2. CASE d = c
    <3>1. /\ on'[c] = now /\ srvs'[c] = list /\ narrowed'[c] = part
          /\ UNCHANGED <<state, ends, inNet, deleted>>
      BY <1>1 DEF ClerkInv, ClerkTypes
    <3>2. Registered(c)
      BY DEF ClerkInv
    <3>3. Registered(c)'
      BY <1>1, <3>1, <3>2 DEF Registered
    <3>4. Reaches(c)'
      <4>1. {} # Everybody
        BY EverybodyAssumption
      <4> QED
        BY <1>1, <3>1, <3>2, <4>1 DEF Reaches, Registered, Clerks!Allowed
    <3> QED
      BY <2>2, <3>3, <3>4
  <2> QED
    BY <2>1, <2>2
<1> QED
  BY <1>2, <1>3 DEF ClerkInv

\* Clients that are removed leave none of the ends in their maps in the network.
LEMMA RemoveInv ==
  ASSUME ClerkInv, NEW C \in SUBSET Clients, Clerks!Remove(C),
         state' = [c \in Clients |-> IF c \in C THEN "gone" ELSE state[c]],
         UNCHANGED <<srvs, ends, narrowed>>, cleaned' \in BOOLEAN
  PROVE  ClerkInv'
<1>1. ClerkTypes'
  BY DEF ClerkInv, ClerkTypes, Clerks!Remove
<1>2. ASSUME NEW d \in Clients PROVE (Registered(d) /\ Reaches(d))'
  <2>1. Registered(d) /\ Reaches(d)
    BY DEF ClerkInv
  <2>2. CASE d \in C
    <3>1. state'[d] = "gone" /\ inNet'[d] = inNet[d] \ ends[d] /\ deleted'[d] = ends[d]
          /\ on'[d] = on[d] \ ends[d]
      BY <2>2 DEF Clerks!Remove
    <3>2. inNet'[d] = {} /\ on'[d] \subseteq ends[d]
      BY <2>1, <3>1 DEF Registered
    <3> QED
      BY <3>1, <3>2 DEF Registered, Reaches
  <2>3. CASE d \notin C
    <3>1. state'[d] = state[d] /\ inNet'[d] = inNet[d] /\ on'[d] = on[d] /\ deleted'[d] = deleted[d]
      BY <2>3 DEF Clerks!Remove
    <3> QED
      BY <2>1, <3>1, SameClient
  <2> QED
    BY <2>2, <2>3
<1> QED
  BY <1>1, <1>2 DEF ClerkInv

\* Every step of the clients keeps their invariant.
LEMMA ClerkNext == ClerkInv /\ [Clerks!Next]_clerkVars => ClerkInv'
<1> SUFFICES ASSUME ClerkInv, [Clerks!Next]_clerkVars PROVE ClerkInv'
  OBVIOUS
<1>1. CASE UNCHANGED clerkVars
  BY <1>1 DEF clerkVars, ClerkInv, ClerkTypes, Registered, Reaches
<1>2. ASSUME NEW c \in Clients, Clerks!DeleteClient(c) PROVE ClerkInv'
  <2>1. /\ Clerks!Remove({c}) /\ UNCHANGED <<srvs, ends, cleaned, narrowed>>
        /\ state' = [state EXCEPT ![c] = "gone"]
    BY <1>2 DEF Clerks!DeleteClient
  <2>2. state' = [d \in Clients |-> IF d \in {c} THEN "gone" ELSE state[d]]
    BY <2>1 DEF ClerkInv, ClerkTypes
  <2> QED
    BY <2>1, <2>2, RemoveInv DEF ClerkInv, ClerkTypes
<1>3. CASE Clerks!Cleanup
  <2> DEFINE made == {c \in Clients : state[c] = "made"}
  <2>1. /\ Clerks!Remove(made) /\ cleaned' = TRUE /\ UNCHANGED <<srvs, ends, narrowed>>
        /\ state' = [c \in Clients |-> IF state[c] = "made" THEN "gone" ELSE state[c]]
    BY <1>3 DEF Clerks!Cleanup
  <2>2. state' = [c \in Clients |-> IF c \in made THEN "gone" ELSE state[c]]
    BY <2>1
  <2>3. made \in SUBSET Clients
    OBVIOUS
  <2> HIDE DEF made
  <2> QED
    BY <2>1, <2>2, <2>3, RemoveInv
<1>4. ASSUME NEW c \in Clients, NEW list \in {Everybody} \cup SUBSET Servers,
             Clerks!MakeClientTo(c, list)
      PROVE  ClerkInv'
  BY <1>4, MakeClientInv
<1>5. ASSUME NEW c \in Clients, NEW s \in Servers, Clerks!MakeEnd(c, s) PROVE ClerkInv'
  BY <1>5, MakeEndInv
<1>6. ASSUME NEW c \in Clients,
             \/ Clerks!ConnectAll(c) \/ Clerks!DisconnectAll(c)
             \/ \E list \in SUBSET Servers : Clerks!ConnectTo(c, list)
             \/ \E s \in Servers : Clerks!Disconnect(c, s)
      PROVE  ClerkInv'
  BY <1>6, ConnectInv
<1> QED
  BY <1>1, <1>2, <1>3, <1>4, <1>5, <1>6 DEF Clerks!Next

\* So it holds in the composition.
LEMMA ClerkInvariance == NetSpec => []ClerkInv
<1>1. NetInit => ClerkInv
  BY ClerkInit DEF NetInit
<1>2. ClerkInv /\ [NetNext]_netVars => ClerkInv'
  BY GroupOrClerk, ClerkNext
<1> QED
  BY <1>1, <1>2, PTL DEF NetSpec

\* Clnt.srvs and MakeClientTo: a client that was not narrowed reaches exactly
\* the servers srvs allows, through ends made before or after ConnectAll and
\* DisconnectAll, or, if it was deleted, after that, whatever happens to the
\* servers.
THEOREM ClerksReach == NetSpec => []ReachesAllowed
<1>1. ClerkInv => ReachesAllowed
  BY DEF ClerkInv, Reaches, ReachesAllowed, Clerks!ReachesAllowed, Clerks!Reach
<1> QED
  BY <1>1, ClerkInvariance, PTL

\* Clnt.remove: DeleteClient and cleanup find every end they delete in the
\* network, and none of them is ever there again, whatever the clerk calls and
\* the test connects afterwards.
THEOREM DeletedOnce == NetSpec => []EndsDeletedOnce
<1>1. ClerkInv => EndsDeletedOnce
  BY DEF ClerkInv, Registered, EndsDeletedOnce, Clerks!EndsDeletedOnce
<1> QED
  BY <1>1, ClerkInvariance, PTL

-----------------------------------------------------------------------------
(* The clerks beside a partition.                                          *)

\* The sides of a Partition divide the servers; once its loops are done the
\* links are those within the sides.
Divided(p1, p2) ==
  /\ sides = {p1, p2} /\ p1 \cap p2 = {} /\ p1 \cup p2 = Servers
  /\ op # Idle => op.p1 = p1 /\ op.p2 = p2
  /\ op = Idle => enabled = (p1 \X p1) \cup (p2 \X p2)

Partitioned ==
  /\ split \subseteq up
  /\ sides # {} => split = Servers /\ \E p1, p2 \in SUBSET Servers : Divided(p1, p2)

\* The beginning of Partition.
LEMMA BeginPartitioned ==
  ASSUME Inv, Partitioned, NEW p1 \in SUBSET Servers, NEW p2 \in SUBSET Servers, NEW l,
         p1 \cap p2 = {}, p1 \cup p2 = Servers, Begin(p1, p2, l), GroupStep
  PROVE  Partitioned'
<1>1. /\ op'.p1 = p1 /\ op'.p2 = p2 /\ op'.left = Servers /\ split' = Servers
      /\ up' = Servers
  BY DEF Begin
<1>2. sides' = {p1, p2}
  BY <1>1 DEF GroupStep
<1>3. op' # Idle
  <2>1. 0 \in Servers
    BY NAssumption DEF Servers
  <2> QED
    BY <1>1, <2>1 DEF Idle
<1>4. Divided(p1, p2)'
  BY <1>1, <1>2, <1>3 DEF Divided
<1> QED
  BY <1>1, <1>4 DEF Partitioned

\* A turn of its loops.
LEMMA TurnPartitioned ==
  ASSUME Inv, Partitioned, NEW i \in Servers, PartitionStep(i), GroupStep
  PROVE  Partitioned'
<1>1. /\ i \in op.left /\ op # Idle /\ UNCHANGED <<up, split>>
      /\ op' = IF op.left = {i} THEN Idle ELSE [op EXCEPT !.left = @ \ {i}]
  BY Turn DEF PartitionStep
<1>2. split = Servers
  BY <1>1 DEF Inv, Links, Busy
<1>3. /\ op'.left # Servers
      /\ op' # Idle => op'.p1 = op.p1 /\ op'.p2 = op.p2
  BY <1>1 DEF Inv, Links, TypeOK, Idle
<1>4. sides' = sides
  BY <1>1, <1>2, <1>3 DEF GroupStep
<1>5. ASSUME NEW p1 \in SUBSET Servers, NEW p2 \in SUBSET Servers, Divided(p1, p2)
      PROVE  Divided(p1, p2)'
  <2>1. op' = Idle => enabled' = (op.p1 \X op.p1) \cup (op.p2 \X op.p2)
    BY TurnInv
  <2> QED
    BY <1>1, <1>3, <1>4, <1>5, <2>1 DEF Divided
<1> QED
  BY <1>1, <1>2, <1>4, <1>5 DEF Partitioned

\* A server that leaves, joins or starts ends the partition.
LEMMA OtherPartitioned ==
  ASSUME Inv, Partitioned, NEW i \in Servers, GroupStep,
         StartServer(i) \/ ConnectOne(i) \/ DisconnectAll(i) \/ ShutdownServer(i)
  PROVE  Partitioned'
<1>1. op' = op /\ op = Idle /\ op'.left # Servers
  <2>1. 0 \in Servers
    BY NAssumption DEF Servers
  <2>2. op' = op /\ op = Idle
    BY Zenon DEF StartServer, ConnectOne, DisconnectAll, ShutdownServer
  <2> QED
    BY <2>1, <2>2 DEF Idle
<1>2. split' \subseteq up' /\ split' # Servers
  <2>1. CASE StartServer(i)
    BY <2>1 DEF Partitioned, StartServer
  <2>2. CASE ConnectOne(i)
    BY <2>2 DEF Partitioned, ConnectOne
  <2>3. CASE DisconnectAll(i) \/ ShutdownServer(i)
    BY <2>3 DEF Partitioned, DisconnectAll, ShutdownServer, Detach
  <2> QED
    BY <2>1, <2>2, <2>3
<1>3. sides' = {}
  BY <1>1, <1>2 DEF GroupStep
<1> QED
  BY <1>2, <1>3 DEF Partitioned

\* The groups of the last partition stay what it made them until the group is
\* rewired.
LEMMA NextPartitioned ==
  ASSUME Odd, Inv, Partitioned, [NetNext]_netVars
  PROVE  Partitioned'
<1>1. CASE GroupStep
  <2>1. Next
    BY <1>1 DEF GroupStep, Next
  <2>2. ASSUME NEW l \in Servers, MakePartition(l) PROVE Partitioned'
    BY <1>1, <2>2, GroupsAreServers, MadeGroups, BeginPartitioned DEF MakePartition
  <2>3. CASE PartitionRandomly
    <3>1. PICK p1 \in SUBSET Servers : Begin(p1, Servers \ p1, NoLeader)
      BY <2>3, Zenon DEF PartitionRandomly
    <3>2. p1 \cap (Servers \ p1) = {} /\ p1 \cup (Servers \ p1) = Servers
      OBVIOUS
    <3> QED
      BY <1>1, <3>1, <3>2, BeginPartitioned
  <2>4. ASSUME NEW i \in Servers, PartitionStep(i) PROVE Partitioned'
    BY <1>1, <2>4, TurnPartitioned
  <2>5. ASSUME NEW i \in Servers,
               StartServer(i) \/ ConnectOne(i) \/ DisconnectAll(i) \/ ShutdownServer(i)
        PROVE  Partitioned'
    BY <1>1, <2>5, OtherPartitioned
  <2> QED
    BY <2>1, <2>2, <2>3, <2>4, <2>5 DEF Next
<1>2. CASE ClerkStep \/ UNCHANGED netVars
  BY <1>2 DEF ClerkStep, netVars, vars, Partitioned, Divided
<1> QED
  BY <1>1, <1>2 DEF NetNext

\* Then a client of one group reaches that group only, and its links are on.
LEMMA OnTheirSide ==
  ASSUME ClerkInv, Partitioned
  PROVE  ClerksStayOnTheirSide
<1> SUFFICES ASSUME NEW c \in Clients, NEW side \in sides,
                    op = Idle, ~narrowed[c], srvs[c] = side
             PROVE  /\ Clerks!Reach(c) = (ends[c] \ deleted[c]) \cap side
                    /\ Clerks!Reach(c) \X Clerks!Reach(c) \subseteq enabled
                    /\ enabled \cap (Clerks!Reach(c) \X (Servers \ side)) = {}
  BY DEF ClerksStayOnTheirSide
<1>1. PICK p1 \in SUBSET Servers, p2 \in SUBSET Servers : Divided(p1, p2)
  BY DEF Partitioned
<1>2. /\ side \in SUBSET Servers /\ (side = p1 \/ side = p2) /\ p1 \cap p2 = {}
      /\ enabled = (p1 \X p1) \cup (p2 \X p2)
  BY <1>1 DEF Divided
<1>3. Clerks!Reach(c) = (ends[c] \ deleted[c]) \cap side
  <2>1. Clerks!Reach(c) = {s \in ends[c] \ deleted[c] : Clerks!Allowed(s, srvs[c])}
    BY DEF ClerkInv, Reaches, Clerks!Reach
  <2>2. side # Everybody
    BY <1>2, EverybodyAssumption
  <2> QED
    BY <2>1, <2>2 DEF Clerks!Allowed
<1> QED
  BY <1>2, <1>3

\* TestPartition and the other tests with MakeClerkTo, in a group of odd size:
\* while the servers are split, a clerk made for the servers of one side
\* reaches those it called, which hear from each other, and none that is
\* linked to the other side.
THEOREM ClerksStay ==
  ASSUME Odd
  PROVE  NetSpec => []ClerksStayOnTheirSide
<1> DEFINE All == Inv /\ ClerkInv /\ Partitioned
<1>1. NetInit => All
  <2>1. NetInit => Inv /\ ClerkInv
    BY InitInv, ClerkInit DEF NetInit
  <2>2. NetInit => Partitioned
    BY DEF NetInit, Init, Partitioned
  <2> QED
    BY <2>1, <2>2
<1>2. All /\ [NetNext]_netVars => All'
  <2> SUFFICES ASSUME All, [NetNext]_netVars PROVE All'
    OBVIOUS
  <2>1. [Next]_vars /\ [Clerks!Next]_clerkVars
    BY GroupOrClerk
  <2>2. Inv'
    BY <2>1, NextInv
  <2>3. ClerkInv'
    BY <2>1, ClerkNext
  <2>4. Partitioned'
    BY NextPartitioned
  <2> QED
    BY <2>2, <2>3, <2>4
<1>3. All => ClerksStayOnTheirSide
  BY OnTheirSide
<1> QED
  BY <1>1, <1>2, <1>3, PTL DEF NetSpec

=============================================================================
