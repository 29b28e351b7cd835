---------------------------- MODULE MCMapReduce ----------------------------
(* TLC instance of MapReduce.                                              *)
EXTENDS MapReduce
=============================================================================
