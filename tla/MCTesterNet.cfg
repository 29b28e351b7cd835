\* A group of three servers, in which a side of a partition can have a
\* majority, and a clerk.
SPECIFICATION NetSpec
CONSTANTS
  N = 3
  Clients = {c1}
  Everybody = Everybody
\* After Cleanup nothing has to happen.
CHECK_DEADLOCK FALSE
INVARIANTS
  ConnectedIsPrecise
  LeaderInMinority
  ReachesAllowed
  EndsDeletedOnce
  ClerksStayOnTheirSide
PROPERTIES
  PartitionIsolates
