\* Two clients with two iterations each, in every kind of test, with and
\* without losses.
SPECIFICATION FairSpec
CONSTANTS
  Clients = {c1, c2, t}
  Keys = {k1, k2}
  Values <- MCValues
  Empty = empty
  Tester = t
  Shared = k1
  OwnKey <- MCOwnKey
  MaxIters = 2
  MaxVersion = 2
CHECK_DEADLOCK FALSE
INVARIANTS
  ChecksPass
  MaybeHappened
PROPERTIES
  TestEnds
