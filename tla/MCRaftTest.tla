----------------------------- MODULE MCRaftTest ----------------------------
(* TLC instance of RaftTest.                                               *)
EXTENDS RaftTest
=============================================================================
