------------------------------ MODULE MCLock -------------------------------
(* TLC instances of Lock: a value is a client's identity or empty.         *)
EXTENDS Lock

MCValues == Clients \cup {Empty}
=============================================================================
