------------------------------- MODULE Clnts -------------------------------
(***************************************************************************)
(* Which servers a clerk can reach: Clnt and Clnts of                      *)
(* src/src/tester1/clnts.go.  A Clnt makes an end to a server when it      *)
(* first calls it and keeps it in a map; the network has maps of its own,  *)
(* from the names of ends to servers and to enabled flags.  Every method   *)
(* holds the lock of its Clnt, and is one step; the goroutine of the clerk *)
(* calls servers while the test connects, disconnects and deletes clients. *)
(* Nothing in a Clnt says that it was deleted: its goroutine may go on     *)
(* calling, as the old controller of killCtrler in shardkv1/test.go, and   *)
(* the test may connect and disconnect it.                                 *)
(***************************************************************************)
CONSTANTS
  Clients,      \* the Clnts
  Servers,      \* the server names
  Everybody     \* a nil srvs: every server is allowed

VARIABLES
  state,        \* per client: not made yet, in Clnts.clerks, or out of it
  srvs,         \* Clnt.srvs
  ends,         \* Clnt.ends: the servers with an entry
  inNet,        \* the servers whose end is in ends and connections of Network
  on,           \* the servers whose end has its flag in Network.enabled set
  deleted,      \* history: the servers in ends when the client was removed
  cleaned,      \* Clnts.cleanup has run
  narrowed      \* ConnectTo or Disconnect ran since the last ConnectAll or
                \* DisconnectAll of the client

vars == <<state, srvs, ends, inNet, on, deleted, cleaned, narrowed>>

Init ==
  /\ state = [c \in Clients |-> "unmade"]
  /\ srvs = [c \in Clients |-> Everybody]
  /\ ends = [c \in Clients |-> {}]
  /\ inNet = [c \in Clients |-> {}]
  /\ on = [c \in Clients |-> {}]
  /\ deleted = [c \in Clients |-> {}]
  /\ cleaned = FALSE
  /\ narrowed = [c \in Clients |-> FALSE]

\* allowedL
Allowed(s, list) == list = Everybody \/ s \in list

\* MakeClient is MakeClientTo(nil).
MakeClientTo(c, list) ==
  /\ state[c] = "unmade" /\ ~cleaned
  /\ state' = [state EXCEPT ![c] = "made"]
  /\ srvs' = [srvs EXCEPT ![c] = list]
  /\ UNCHANGED <<ends, inNet, on, deleted, cleaned, narrowed>>

\* Somebody has a pointer to the Clnt.
InUse(c) == state[c] # "unmade"

\* Mutation of MakeEnd: a new end is enabled.
MakeEndOpen(c, s) ==
  /\ InUse(c) /\ s \notin ends[c]
  /\ ends' = [ends EXCEPT ![c] = @ \cup {s}]
  /\ inNet' = [inNet EXCEPT ![c] = @ \cup {s}]
  /\ on' = [on EXCEPT ![c] = @ \cup {s}]
  /\ UNCHANGED <<state, srvs, deleted, cleaned, narrowed>>

\* Mutation of MakeEnd: an end that the network lost is made again.
MakeEndAgain(c, s) ==
  /\ InUse(c) /\ s \notin inNet[c]
  /\ ends' = [ends EXCEPT ![c] = @ \cup {s}]
  /\ inNet' = [inNet EXCEPT ![c] = @ \cup {s}]
  /\ on' = IF Allowed(s, srvs[c]) THEN [on EXCEPT ![c] = @ \cup {s}] ELSE on
  /\ UNCHANGED <<state, srvs, deleted, cleaned, narrowed>>

\* The first Call to a server; later ones find the end in the map, also if
\* the network holds it no more.
MakeEnd(c, s) ==
  /\ InUse(c) /\ s \notin ends[c]
  /\ ends' = [ends EXCEPT ![c] = @ \cup {s}]
  /\ inNet' = [inNet EXCEPT ![c] = @ \cup {s}]
  /\ on' = IF Allowed(s, srvs[c]) THEN [on EXCEPT ![c] = @ \cup {s}] ELSE on
  /\ UNCHANGED <<state, srvs, deleted, cleaned, narrowed>>

\* Enable does not look whether the network holds the end.
ConnectAll(c) ==
  /\ InUse(c)
  /\ on' = [on EXCEPT ![c] = @ \cup ends[c]]
  /\ srvs' = [srvs EXCEPT ![c] = Everybody]
  /\ narrowed' = [narrowed EXCEPT ![c] = FALSE]
  /\ UNCHANGED <<state, ends, inNet, deleted, cleaned>>

\* The ends to other servers keep what they were.
ConnectTo(c, list) ==
  /\ InUse(c)
  /\ srvs' = [srvs EXCEPT ![c] = list]
  /\ on' = [on EXCEPT ![c] = @ \cup {s \in ends[c] : Allowed(s, list)}]
  /\ narrowed' = [narrowed EXCEPT ![c] = TRUE]
  /\ UNCHANGED <<state, ends, inNet, deleted, cleaned>>

\* srvs keeps what it was.
Disconnect(c, s) ==
  /\ InUse(c)
  /\ on' = [on EXCEPT ![c] = @ \ {s}]
  /\ narrowed' = [narrowed EXCEPT ![c] = TRUE]
  /\ UNCHANGED <<state, srvs, ends, inNet, deleted, cleaned>>

DisconnectAll(c) ==
  /\ InUse(c)
  /\ on' = [on EXCEPT ![c] = {}]
  /\ srvs' = [srvs EXCEPT ![c] = {}]
  /\ narrowed' = [narrowed EXCEPT ![c] = FALSE]
  /\ UNCHANGED <<state, ends, inNet, deleted, cleaned>>

\* Clnt.remove of every client of C: DeleteEnd of the ends in its map, which
\* keeps its entries.  DeleteEnd of an end that is not there is fatal.
Remove(C) ==
  /\ inNet' = [c \in Clients |-> IF c \in C THEN inNet[c] \ ends[c] ELSE inNet[c]]
  /\ on' = [c \in Clients |-> IF c \in C THEN on[c] \ ends[c] ELSE on[c]]
  /\ deleted' = [c \in Clients |-> IF c \in C THEN ends[c] ELSE deleted[c]]

\* A client that is not in clerks (any more) is left alone.
DeleteClient(c) ==
  /\ state[c] = "made"
  /\ Remove({c})
  /\ state' = [state EXCEPT ![c] = "gone"]
  /\ UNCHANGED <<srvs, ends, cleaned, narrowed>>

Cleanup ==
  /\ ~cleaned
  /\ cleaned' = TRUE
  /\ Remove({c \in Clients : state[c] = "made"})
  /\ state' = [c \in Clients |-> IF state[c] = "made" THEN "gone" ELSE state[c]]
  /\ UNCHANGED <<srvs, ends, narrowed>>

Next ==
  \/ \E c \in Clients :
       \/ \E list \in {Everybody} \cup SUBSET Servers : MakeClientTo(c, list)
       \/ \E s \in Servers : MakeEnd(c, s) \/ Disconnect(c, s)
       \/ \E list \in SUBSET Servers : ConnectTo(c, list)
       \/ ConnectAll(c) \/ DisconnectAll(c) \/ DeleteClient(c)
  \/ Cleanup

Spec == Init /\ [][Next]_vars

-----------------------------------------------------------------------------
(* Properties.                                                             *)

\* The servers a Call of c gets through to: readEndnameInfo wants the flag and
\* the connection.
Reach(c) == on[c] \cap inNet[c]

\* The comments of srvs and MakeClientTo: a client reaches a server it has an
\* end to exactly if srvs allows it, whether the end was made before or after
\* the last ConnectAll or DisconnectAll; if the client was deleted, through the
\* ends it made since.
ReachesAllowed ==
  \A c \in Clients : ~narrowed[c] =>
    Reach(c) = {s \in ends[c] \ deleted[c] : Allowed(s, srvs[c])}

\* Every end is deleted once.  remove never meets an end the network does not
\* hold, which DeleteEnd answers with log.Fatalf: neither cleanup after
\* DeleteClient, nor after calls that a deleted client still made.  And what
\* was deleted stays deleted: a client that goes on calling, or is connected
\* again, gets no new end to a server it had called.
EndsDeletedOnce ==
  \A c \in Clients :
    /\ state[c] = "made" => ends[c] \subseteq inNet[c]
    /\ inNet[c] \cap deleted[c] = {}
=============================================================================
