\* Six shards and up to three groups that join and leave.
SPECIFICATION Spec
CONSTANTS
  NShards = 6
  Gids = {1, 2, 3}
  MaxNum = 4
  MaxLeave = 2
INVARIANTS
  TypeOK
  CheckConfig
PROPERTIES
  MinimalTransfer
