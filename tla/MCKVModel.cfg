\* Two clients, one operation each: results outside the sequential model.
SPECIFICATION Spec
CONSTANTS
  c1 = c1
  c2 = c2
  empty = empty
  Clients <- MCClients
  Keys = {k1}
  Values <- MCValues
  Empty = empty
  MaxOps = 1
  MaxVersion = 1
INVARIANTS
  KvModelAccepts
