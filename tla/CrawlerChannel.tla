--------------------------- MODULE CrawlerChannel ---------------------------
(***************************************************************************)
(* ConcurrentChannel of src/lecutures/crawler.go: a coordinator starts one  *)
(* worker for each new URL and receives the URLs each finds from one        *)
(* unbuffered channel, so a worker that sends waits for the coordinator.    *)
(* n counts the batches that are still to come.  A sender is the goroutine  *)
(* that sends the first URL (Main) or the worker of a URL.                  *)
(***************************************************************************)
EXTENDS Web, Integers, FiniteSets

CONSTANT Main   \* the goroutine that sends the first URL

\* Main is nobody's URL, and a web has finitely many.
FiniteWeb == Start \in URLs /\ Main \notin URLs /\ IsFiniteSet(URLs)

VARIABLES
  sender,       \* per goroutine: "none", "fetching", "sending", "gone"
  n, fetched,   \* the variables of coordinator
  pc,           \* the coordinator: "receiving", "spawning", "returned"
  todo          \* the URLs of the batch it has not looked at yet

vars == <<web, sender, n, fetched, pc, todo>>

Senders == URLs \cup {Main}

Init ==
  /\ web \in Webs
  /\ sender = [s \in Senders |-> IF s = Main THEN "sending" ELSE "none"]
  /\ n = 1 /\ fetched = {}
  /\ pc = "receiving" /\ todo = {}

\* worker: Fetch, then send.
Fetch(u) ==
  /\ sender[u] = "fetching"
  /\ sender' = [sender EXCEPT ![u] = "sending"]
  /\ UNCHANGED <<web, n, fetched, pc, todo>>

Batch(s) == IF s = Main THEN {Start} ELSE Found(s)

Receive(s) ==
  /\ pc = "receiving" /\ sender[s] = "sending"
  /\ sender' = [sender EXCEPT ![s] = "gone"]
  /\ pc' = "spawning" /\ todo' = Batch(s)
  /\ UNCHANGED <<web, n, fetched>>

\* One URL of the batch; the order of the slice does not matter.
Spawn(u) ==
  /\ pc = "spawning" /\ u \in todo
  /\ todo' = todo \ {u}
  /\ IF u \in fetched THEN UNCHANGED <<sender, n, fetched>>
     ELSE /\ fetched' = fetched \cup {u}
          /\ n' = n + 1
          /\ sender' = [sender EXCEPT ![u] = "fetching"]
  /\ UNCHANGED <<web, pc>>

EndBatch ==
  /\ pc = "spawning" /\ todo = {}
  /\ n' = n - 1
  /\ pc' = IF n' = 0 THEN "returned" ELSE "receiving"
  /\ UNCHANGED <<web, sender, fetched, todo>>

Coordinator == (\E s \in Senders : Receive(s)) \/ (\E u \in URLs : Spawn(u)) \/ EndBatch

Next == Coordinator \/ \E u \in URLs : Fetch(u)

Spec == Init /\ [][Next]_vars

-----------------------------------------------------------------------------
(* Properties.                                                             *)

Live == {s \in Senders : sender[s] \in {"fetching", "sending"}}

\* Types; n is the number of batches to come, the one at hand included: it is
\* the number of goroutines that are going to send.
TypeOK ==
  /\ web \in Webs
  /\ sender \in [Senders -> {"none", "fetching", "sending", "gone"}]
  /\ n = Cardinality(Live) + (IF pc = "spawning" THEN 1 ELSE 0)
  /\ fetched \subseteq URLs /\ todo \subseteq URLs
  /\ pc \in {"receiving", "spawning", "returned"}

\* coordinator: when it returns it has fetched exactly the URLs that can be
\* reached from the first one, and it leaves no goroutine behind that waits
\* on the channel for ever.
CrawlIsComplete ==
  pc = "returned" => IsReachable(fetched) /\ Live = {}

\* fetched[u]: no URL is fetched twice.
FetchedOnce ==
  [][\A u \in URLs : sender[u] # "none" => sender'[u] # "fetching" \/ sender[u] = "fetching"]_vars
=============================================================================
