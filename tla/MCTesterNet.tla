---------------------------- MODULE MCTesterNet ----------------------------
(* TLC instance of TesterNet.                                              *)
EXTENDS TesterNet
=============================================================================
