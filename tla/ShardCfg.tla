------------------------------ MODULE ShardCfg -----------------------------
(***************************************************************************)
(* The shard configurations of src/src/shardkv1/shardcfg/shardcfg.go: an   *)
(* assignment of shards to replica groups that Join and Leave change and   *)
(* Rebalance evens out.  Group 0 stands for "no group".  The servers of a  *)
(* group are left out: groups have no servers in common.                   *)
(***************************************************************************)
EXTENDS Integers, Sequences, FiniteSets, FiniteSetsExt, Functions

CONSTANTS
  NShards,      \* number of shards (12 in the code)
  Gids,         \* the group ids in use
  MaxNum,       \* bound: configuration number
  MaxLeave      \* bound: groups in the list of one Leave

\* analyze starts its search for the least loaded group at 257 shards.
ASSUME NShardsAssumption == NShards \in Nat /\ NShards < 257
ASSUME GidsAssumption == Gids \subseteq Nat \ {0}
ASSUME MaxNumAssumption == MaxNum \in Nat
ASSUME MaxLeaveAssumption == MaxLeave \in Nat

VARIABLES
  Num,          \* ShardConfig.Num
  Shards,       \* ShardConfig.Shards
  Groups,       \* the keys of ShardConfig.Groups
  ok            \* what the last JoinBalance or LeaveBalance returned

vars == <<Num, Shards, Groups, ok>>

ShardIds == 0 .. NShards - 1

Init ==
  /\ Num = 0
  /\ Shards = [s \in ShardIds |-> 0]
  /\ Groups = {}
  /\ ok = TRUE

-----------------------------------------------------------------------------
(* Rebalance, on an assignment A of shards to groups and a set G of groups. *)

counts(A, g) == Cardinality({s \in ShardIds : A[s] = g})

\* analyze: of several groups with the most or the least shards, the first
\* in the order of their ids.
Most(A, G) ==
  Min({g \in G : \A h \in G : counts(A, h) <= counts(A, g)})

Least(A, G) ==
  Min({g \in G : \A h \in G : counts(A, g) <= counts(A, h)})

\* The loop that gives each shard without a group to the least loaded one.
AssignUnassigned(A, G) ==
  LET After[n \in 0 .. NShards] ==
        IF n = 0 THEN A
        ELSE LET B == After[n - 1]
                 s == n - 1
             IN IF B[s] \in G THEN B ELSE [B EXCEPT ![s] = Least(B, G)]
  IN After[NShards]

MoveOne(A, G) ==
  [A EXCEPT ![Min({s \in ShardIds : A[s] = Most(A, G)})] = Least(A, G)]

\* Mutation of EvenOut: a difference of two shards is left.
EvenOutLess(A, G) ==
  LET Even[B \in [ShardIds -> G]] ==
        IF counts(B, Most(B, G)) <= counts(B, Least(B, G)) + 2 THEN B ELSE Even[MoveOne(B, G)]
  IN Even[A]

\* The loop that moves shards from the most to the least loaded group.
EvenOut(A, G) ==
  LET Even[B \in [ShardIds -> G]] ==
        IF counts(B, Most(B, G)) < counts(B, Least(B, G)) + 2 THEN B ELSE Even[MoveOne(B, G)]
  IN Even[A]

\* Mutation of Rebalance: shards are dealt out anew, round-robin.
RebalanceAnew(A, G) ==
  IF G = {} THEN [s \in ShardIds |-> 0]
  ELSE [s \in ShardIds |-> CHOOSE g \in G : Cardinality({h \in G : h < g}) = s % Cardinality(G)]

\* Mutation of Rebalance: with no groups left the shards keep theirs.
RebalanceKeep(A, G) == IF G = {} THEN A ELSE EvenOut(AssignUnassigned(A, G), G)

Rebalance(A, G) ==
  IF G = {} THEN [s \in ShardIds |-> 0] ELSE EvenOut(AssignUnassigned(A, G), G)

-----------------------------------------------------------------------------
(* JoinBalance and LeaveBalance.                                           *)

\* Join goes through the new groups in any order (that of a Go map) and
\* stops at one that is there already; what it added before stays.
JoinBalance(new) ==
  IF new \cap Groups = {}
    THEN /\ Num < MaxNum
         /\ Groups' = Groups \cup new
         /\ Num' = Num + 1
         /\ Shards' = Rebalance(Shards, Groups')
         /\ ok' = TRUE
    ELSE /\ \E added \in SUBSET (new \ Groups) : Groups' = Groups \cup added
         /\ ok' = FALSE
         /\ UNCHANGED <<Num, Shards>>

\* Leave goes through its list and stops at a group that is not there (any
\* more); what it removed before stays removed.
LeaveBalance(gids) ==
  LET missing == {i \in DOMAIN gids : gids[i] \notin Groups \ {gids[j] : j \in 1 .. i - 1}} IN
  IF missing = {}
    THEN /\ Num < MaxNum
         /\ Groups' = Groups \ Range(gids)
         /\ Num' = Num + 1
         /\ Shards' = Rebalance(Shards, Groups')
         /\ ok' = TRUE
    ELSE /\ Groups' = Groups \ {gids[j] : j \in 1 .. Min(missing) - 1}
         /\ ok' = FALSE
         /\ UNCHANGED <<Num, Shards>>

\* An empty list of groups ends the program (log.Fatalf).  Lists of two are
\* enough for a group that is named twice or after one that is not there.
Next ==
  \/ \E new \in SUBSET Gids \ {{}} : JoinBalance(new)
  \/ \E gids \in UNION {[1 .. n -> Gids] : n \in 1 .. MaxLeave} : LeaveBalance(gids)

Spec == Init /\ [][Next]_vars

-----------------------------------------------------------------------------
(* Properties.                                                             *)

\* Types, and that without groups a configuration that Rebalance left assigns
\* no shard.
TypeOK ==
  /\ Num \in 0 .. MaxNum
  /\ Shards \in [ShardIds -> Gids \cup {0}]
  /\ Groups \subseteq Gids
  /\ ok \in BOOLEAN
  /\ ok /\ Groups = {} => \A s \in ShardIds : Shards[s] = 0

\* The assignments of shards to the groups G that CheckConfig accepts: every
\* shard has a group, and no group has two shards more than another.
Balanced(G) ==
  {A \in [ShardIds -> G] : \A g, h \in G : counts(A, g) <= counts(A, h) + 1}

\* After a JoinBalance or LeaveBalance that returned true, CheckConfig finds
\* every shard in a group and the groups evenly loaded, also if calls that
\* returned false changed the groups before.
CheckConfig == ok /\ Groups # {} => Shards \in Balanced(Groups)

Moved(A, B) == Cardinality({s \in ShardIds : A[s] # B[s]})

\* Rebalance moves as few shards as any balanced assignment of them needs.
MinimalTransfer ==
  [][ok' /\ Num' # Num /\ Groups' # {} =>
       \A B \in Balanced(Groups') : Moved(Shards, Shards') <= Moved(Shards, B)]_vars
=============================================================================
