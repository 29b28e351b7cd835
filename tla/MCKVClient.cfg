\* Two clients, two operations each on one key: retries, lost replies and
\* late requests of one client interleave with the Puts of the other.
SPECIFICATION Spec
CONSTANTS
  c1 = c1
  c2 = c2
  empty = empty
  Clients <- MCClients
  Keys = {k1}
  Values <- MCValues
  Empty = empty
  MaxOps = 2
  MaxVersion = 2
INVARIANTS
  AtMostOnce
  ResultsAreDefinite
PROPERTIES
  Linearizable
