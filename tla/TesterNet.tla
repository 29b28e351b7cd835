----------------------------- MODULE TesterNet -----------------------------
(***************************************************************************)
(* The network of a test: the links between the servers (GroupNet) and the *)
(* ends of the clerks (Clnts), which the test and the clerks change side   *)
(* by side.  A partition test splits the servers, makes clerks for the     *)
(* servers of either side (MakeClerkTo of src/src/kvraft1/test.go), and    *)
(* later connects the group and the clerks again; Config.Cleanup deletes   *)
(* the clients and then shuts the servers down.                            *)
(***************************************************************************)
EXTENDS GroupNet

CONSTANTS
  Clients,      \* the clerks' Clnts
  Everybody     \* a nil srvs

\* A nil list is no list of servers, not even the empty one (allowedL).
ASSUME EverybodyAssumption == \A list \in SUBSET Servers : list # Everybody

VARIABLES
  state, srvs, ends, inNet, on, deleted, cleaned, narrowed, \* see Clnts
  sides         \* the sides of the last Partition, while no server was
                \* connected, disconnected, or shut down since

Clerks == INSTANCE Clnts

clerkVars == <<state, srvs, ends, inNet, on, deleted, cleaned, narrowed>>
netVars == <<vars, clerkVars, sides>>

NetInit == Init /\ Clerks!Init /\ sides = {}

GroupStep ==
  /\ IF cleaned THEN \E i \in Servers : ShutdownServer(i) ELSE Next
  /\ sides' = CASE op'.left = Servers -> {op'.p1, op'.p2}
                [] split' # Servers -> {}
                [] OTHER -> sides
  /\ UNCHANGED clerkVars

ClerkStep == Clerks!Next /\ UNCHANGED <<vars, sides>>

NetNext == GroupStep \/ ClerkStep

NetSpec == NetInit /\ [][NetNext]_netVars

-----------------------------------------------------------------------------
(* Properties.                                                             *)

\* Clnt.srvs and MakeClientTo: whatever the test does to the links of the
\* servers, a clerk reaches a server it has an end to exactly if srvs allows
\* it, also through ends that makeEnd makes between the test's calls, and, once
\* it was deleted, through those it made since.
ReachesAllowed == Clerks!ReachesAllowed

\* Clnt.remove, DeleteEnd: no end of a client is deleted twice, which would be
\* fatal, and none comes back after DeleteClient or cleanup, though the clerk
\* may go on calling and the test may connect it again.
EndsDeletedOnce == Clerks!EndsDeletedOnce

\* What TestPartition and the other tests with MakeClerkTo rely on ("connect
\* ckp1 to p1"): while the servers are split, a clerk that was made for the
\* servers of one side reaches those it called, which hear from each other,
\* and no server from which a message could get to the other side, whether it
\* was made before, during or after Partition, and even after it was deleted.
ClerksStayOnTheirSide ==
  \A c \in Clients, side \in sides :
    op = Idle /\ ~narrowed[c] /\ srvs[c] = side =>
      LET reach == Clerks!Reach(c) IN
      /\ reach = (ends[c] \ deleted[c]) \cap side
      /\ reach \X reach \subseteq enabled
      /\ enabled \cap (reach \X (Servers \ side)) = {}
=============================================================================
