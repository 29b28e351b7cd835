------------------------------ MODULE MCLabRPC -----------------------------
(* TLC instances of LabRPC.                                                *)
EXTENDS LabRPC
=============================================================================
