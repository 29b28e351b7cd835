------------------------------ MODULE MCDemux ------------------------------
(* TLC instance of Demux.                                                  *)
EXTENDS Demux
=============================================================================
