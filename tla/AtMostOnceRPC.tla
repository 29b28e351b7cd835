--------------------------- MODULE AtMostOnceRPC ---------------------------
(***************************************************************************)
(* What ClientEnd.Call promises (the comment at the head of                *)
(* src/src/labrpc/labrpc.go): the handler runs at most once for a Call;    *)
(* true says that it ran and that the reply is its reply; false says       *)
(* nothing: the handler ran, will never run, or runs after the return.     *)
(***************************************************************************)
CONSTANT Calls

VARIABLES
  result,     \* "idle", "open", "true" or "false" for each Call
  ran         \* the Calls whose handler ran

vars == <<result, ran>>

Init == result = [k \in Calls |-> "idle"] /\ ran = {}

Call(k) ==
  /\ result[k] = "idle"
  /\ result' = [result EXCEPT ![k] = "open"]
  /\ UNCHANGED ran

Run(k) ==
  /\ result[k] \in {"open", "false"}
  /\ k \notin ran
  /\ ran' = ran \cup {k}
  /\ UNCHANGED result

Return(k) ==
  /\ result[k] = "open"
  /\ \E ok \in {"true", "false"} :
       /\ ok = "true" => k \in ran
       /\ result' = [result EXCEPT ![k] = ok]
  /\ UNCHANGED ran

Next == \E k \in Calls : Call(k) \/ Run(k) \/ Return(k)

Spec == Init /\ [][Next]_vars
=============================================================================
