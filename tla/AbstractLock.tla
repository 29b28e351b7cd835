--------------------------- MODULE AbstractLock ----------------------------
(***************************************************************************)
(* What Lock.Acquire and Lock.Release promise: a lock has at most one      *)
(* owner; Acquire returns only to the owner; Release returns only once the *)
(* lock has been taken from its caller, exactly once per Release.          *)
(***************************************************************************)
CONSTANTS Clients, Free

VARIABLES
  owner,    \* the client that owns the lock, or Free
  stage     \* where each client is

vars == <<owner, stage>>

Init == owner = Free /\ stage = [c \in Clients |-> "outside"]

Move(c, from, to) == stage[c] = from /\ stage' = [stage EXCEPT ![c] = to]

CallAcquire(c) == Move(c, "outside", "acquiring") /\ UNCHANGED owner
Grant(c) == stage[c] = "acquiring" /\ owner = Free /\ owner' = c /\ UNCHANGED stage
AcquireReturns(c) == owner = c /\ Move(c, "acquiring", "inside") /\ UNCHANGED owner
CallRelease(c) == Move(c, "inside", "releasing") /\ UNCHANGED owner
GiveUp(c) == stage[c] = "releasing" /\ owner = c /\ owner' = Free /\ UNCHANGED stage
ReleaseReturns(c) == owner # c /\ Move(c, "releasing", "outside") /\ UNCHANGED owner

Next == \E c \in Clients : \/ CallAcquire(c) \/ Grant(c) \/ AcquireReturns(c)
                           \/ CallRelease(c) \/ GiveUp(c) \/ ReleaseReturns(c)

Spec == Init /\ [][Next]_vars
=============================================================================
