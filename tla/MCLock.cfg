\* Two clients, one round each, over a network that loses and delays.
SPECIFICATION FairSpec
CONSTANTS
  Clients = {c1, c2}
  Keys = {l}
  Values <- MCValues
  Empty = empty
  lockname = l
  MaxRounds = 1
  Disciplined = TRUE
INVARIANTS
  MutualExclusion
  ReleaseReleases
PROPERTIES
  ImplementsLock
  AcquireReturns
