------------------------------ MODULE MCKVTest -----------------------------
(* TLC instance of KVTest: a key that all clients share, and a key each.   *)
EXTENDS KVTest, TLC

MCOwnKey == CHOOSE f \in [Clients -> Keys] : \A c, d \in Workers : c # d => f[c] # f[d]

MaxPuts == Cardinality(Workers) * MaxIters
MCValues ==
  {Empty} \cup (Workers \X (0 .. 2 * MaxPuts))
          \cup UNION {[1 .. n -> Workers \X (0 .. MaxIters - 1)] : n \in 0 .. MaxPuts}
=============================================================================
