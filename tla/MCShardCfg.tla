----------------------------- MODULE MCShardCfg ----------------------------
(* TLC instances of ShardCfg.                                              *)
EXTENDS ShardCfg
=============================================================================
