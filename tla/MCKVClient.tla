----------------------------- MODULE MCKVClient ----------------------------
(* TLC instances of KVClient: the values are the identities of the Puts.   *)
EXTENDS KVClient, TLC

CONSTANTS c1, c2, empty
MCClients == {c1, c2}
MCValues == (MCClients \X (1 .. 3)) \cup {empty}
=============================================================================
