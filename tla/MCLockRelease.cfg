\* Two clients that may call Release without holding the lock.
SPECIFICATION Spec
CONSTANTS
  Clients = {c1, c2}
  Keys = {l}
  Values <- MCValues
  Empty = empty
  lockname = l
  MaxRounds = 2
  Disciplined = FALSE
PROPERTIES
  ReleaseFreesOnlyOwn
