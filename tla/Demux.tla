------------------------------- MODULE Demux -------------------------------
(***************************************************************************)
(* The demultiplexer that carries the RPCs between the tester and a server *)
(* process over one socket: DemuxClnt and its callMap, DemuxSrv, and the   *)
(* RPCs of sockrpc on top (src/src/tester1/demux, src/src/tester1/sockrpc).*)
(*                                                                         *)
(* A caller enters its tag in the call map, writes its request and waits;  *)
(* one reader goroutine hands the replies out and, when the connection     *)
(* breaks, fails what is still in the map.  Meanwhile others call, close   *)
(* the connection, or kill the server.  A message is the tag it carries    *)
(* and the caller whose request it is or answers; the order of messages on *)
(* the stream is left open, since the server answers in any order.         *)
(***************************************************************************)
EXTENDS Naturals

CONSTANTS
  Callers,      \* the activations of SendReceive
  Closers,      \* the activations of DemuxClnt.Close
  MaxTag,       \* bound: number of tags used on the connection, below 2^32
  Nobody        \* not a caller

ASSUME MaxTagAssumption == MaxTag \in Nat
ASSUME NobodyAssumption == Nobody \notin Callers

VARIABLES
  nextTag,      \* DemuxClnt.nextTag
  closed,       \* callMap.closed
  calls,        \* callMap.calls: the caller whose channel a tag leads to
  caller,       \* the goroutine in SendReceive, per caller
  reader,       \* the goroutine in DemuxClnt.reader
  closer,       \* the goroutine in Close, per closer
  clntOpen,     \* the client's end of the connection is open
  srvOpen,      \* the server's end is open
  srvReader,    \* DemuxSrv.reader is in its loop
  srvClosed,    \* DemuxSrv.closed
  reqs,         \* requests written and not read
  reps,         \* replies written and not read
  serving,      \* requests whose ServeRequest runs
  replying,     \* requests whose reply is to be written
  ran           \* the callers whose request was dispatched

clntVars == <<nextTag, closed, calls, caller, reader, closer, clntOpen>>
srvVars == <<srvOpen, srvReader, srvClosed, reqs, serving, replying, ran>>
vars == <<clntVars, srvVars, reps>>

Tags == 0 .. MaxTag
Message == [tag : Tags, from : Callers]

CallerState ==
  [pc : {"idle", "tagged", "entered", "waiting", "done", "refused"},
   tag : Tags, got : Callers \cup {Nobody}]

ReaderState ==
  [pc : {"reading", "closed", "draining", "sending", "failing", "exited", "fatal"},
   to : Callers \cup {Nobody}, got : Callers \cup {Nobody}, outstanding : SUBSET Tags]

\* The connection after NewDemuxClnt and NewDemuxSrv: tag 0 went to InitMsg.
Init ==
  /\ nextTag = 1
  /\ closed = FALSE
  /\ calls = [t \in Tags |-> Nobody]
  /\ caller = [c \in Callers |-> [pc |-> "idle", tag |-> 0, got |-> Nobody]]
  /\ reader = [pc |-> "reading", to |-> Nobody, got |-> Nobody, outstanding |-> {}]
  /\ closer = [k \in Closers |-> "idle"]
  /\ clntOpen = TRUE
  /\ srvOpen = TRUE
  /\ srvReader = TRUE
  /\ srvClosed = FALSE
  /\ reqs = {}
  /\ reps = {}
  /\ serving = {}
  /\ replying = {}
  /\ ran = {}

-----------------------------------------------------------------------------
(* SendReceive.                                                            *)

\* Mutation of Tag: the tag is not used up.
TagAgain(c) ==
  /\ caller[c].pc = "idle" /\ nextTag <= MaxTag
  /\ caller' = [caller EXCEPT ![c].pc = "tagged", ![c].tag = nextTag]
  /\ UNCHANGED <<nextTag, closed, calls, reader, closer, clntOpen, srvVars, reps>>

Tag(c) ==
  /\ caller[c].pc = "idle" /\ nextTag <= MaxTag
  /\ caller' = [caller EXCEPT ![c].pc = "tagged", ![c].tag = nextTag]
  /\ nextTag' = nextTag + 1
  /\ UNCHANGED <<closed, calls, reader, closer, clntOpen, srvVars, reps>>

\* Mutation of Put: a call is entered in a map that is closed.
PutAlways(c) ==
  /\ caller[c].pc = "tagged"
  /\ calls' = [calls EXCEPT ![caller[c].tag] = c]
  /\ caller' = [caller EXCEPT ![c].pc = "entered"]
  /\ UNCHANGED <<nextTag, closed, reader, closer, clntOpen, srvVars, reps>>

Put(c) ==
  /\ caller[c].pc = "tagged"
  /\ \/ /\ closed
        /\ caller' = [caller EXCEPT ![c].pc = "refused"]
        /\ UNCHANGED calls
     \/ /\ ~closed
        /\ calls' = [calls EXCEPT ![caller[c].tag] = c]
        /\ caller' = [caller EXCEPT ![c].pc = "entered"]
  /\ UNCHANGED <<nextTag, closed, reader, closer, clntOpen, srvVars, reps>>

\* Mutation of WriteRequest: SendReceive returns when WriteCall fails.
WriteRequestGivesUp(c) ==
  /\ caller[c].pc = "entered"
  /\ caller' = [caller EXCEPT ![c].pc = IF clntOpen /\ srvOpen THEN "waiting" ELSE "refused"]
  /\ reqs' = IF clntOpen /\ srvOpen
             THEN reqs \cup {[tag |-> caller[c].tag, from |-> c]} ELSE reqs
  /\ UNCHANGED <<nextTag, closed, calls, reader, closer, clntOpen,
                 srvOpen, srvReader, srvClosed, serving, replying, ran, reps>>

\* WriteCall under DemuxClnt.mu; the caller waits whether or not it failed.
WriteRequest(c) ==
  /\ caller[c].pc = "entered"
  /\ caller' = [caller EXCEPT ![c].pc = "waiting"]
  /\ reqs' = IF clntOpen /\ srvOpen
             THEN reqs \cup {[tag |-> caller[c].tag, from |-> c]} ELSE reqs
  /\ UNCHANGED <<nextTag, closed, calls, reader, closer, clntOpen,
                 srvOpen, srvReader, srvClosed, serving, replying, ran, reps>>

-----------------------------------------------------------------------------
(* DemuxClnt.reader.                                                       *)

\* reply takes the call from the map, and ends the process if it is not there.
TakeCall(t, pc, got, rest) ==
  /\ calls' = [calls EXCEPT ![t] = Nobody]
  /\ reader' = IF calls[t] = Nobody
               THEN [reader EXCEPT !.pc = "fatal"]
               ELSE [pc |-> pc, to |-> calls[t], got |-> got, outstanding |-> rest]

\* After Close a reply may still be in the reader's buffer.
ReadReply ==
  /\ reader.pc = "reading"
  /\ \E m \in reps :
       /\ reps' = reps \ {m}
       /\ TakeCall(m.tag, "sending", m.from, {})
  /\ UNCHANGED <<nextTag, closed, caller, closer, clntOpen, srvVars>>

ReadFails ==
  /\ reader.pc = "reading"
  /\ ~clntOpen \/ (~srvOpen /\ reps = {})
  /\ closed' = TRUE
  /\ reader' = [reader EXCEPT !.pc = "closed"]
  /\ UNCHANGED <<nextTag, calls, caller, closer, clntOpen, srvVars, reps>>

\* Mutation of Outstanding: without the map's lock, a part of the calls.
OutstandingPart ==
  /\ reader.pc = "closed"
  /\ \E ts \in SUBSET {t \in Tags : calls[t] # Nobody} :
       reader' = [reader EXCEPT !.pc = "draining", !.outstanding = ts]
  /\ UNCHANGED <<nextTag, closed, calls, caller, closer, clntOpen, srvVars, reps>>

Outstanding ==
  /\ reader.pc = "closed"
  /\ reader' = [reader EXCEPT !.pc = "draining",
                              !.outstanding = {t \in Tags : calls[t] # Nobody}]
  /\ UNCHANGED <<nextTag, closed, calls, caller, closer, clntOpen, srvVars, reps>>

FailNext ==
  /\ reader.pc = "draining"
  /\ \E t \in reader.outstanding :
       TakeCall(t, "failing", Nobody, reader.outstanding \ {t})
  /\ UNCHANGED <<nextTag, closed, caller, closer, clntOpen, srvVars, reps>>

ReaderExits ==
  /\ reader.pc = "draining" /\ reader.outstanding = {}
  /\ reader' = [reader EXCEPT !.pc = "exited"]
  /\ UNCHANGED <<nextTag, closed, calls, caller, closer, clntOpen, srvVars, reps>>

\* The channel has no buffer: reader and caller meet.
Deliver(c) ==
  /\ reader.pc \in {"sending", "failing"} /\ reader.to = c
  /\ caller[c].pc = "waiting"
  /\ caller' = [caller EXCEPT ![c].pc = "done", ![c].got = reader.got]
  /\ reader' = [reader EXCEPT !.pc = IF @ = "sending" THEN "reading" ELSE "draining",
                              !.to = Nobody, !.got = Nobody]
  /\ UNCHANGED <<nextTag, closed, calls, closer, clntOpen, srvVars, reps>>

-----------------------------------------------------------------------------
(* DemuxClnt.Close.                                                        *)

CheckClosed(k) ==
  /\ closer[k] = "idle"
  /\ closer' = [closer EXCEPT ![k] = IF closed THEN "done" ELSE "closing"]
  /\ UNCHANGED <<nextTag, closed, calls, caller, reader, clntOpen, srvVars, reps>>

CloseTransport(k) ==
  /\ closer[k] = "closing"
  /\ clntOpen' = FALSE
  /\ closer' = [closer EXCEPT ![k] = "shut"]
  /\ UNCHANGED <<nextTag, closed, calls, caller, reader, srvVars, reps>>

CloseMap(k) ==
  /\ closer[k] = "shut"
  /\ closed' = TRUE
  /\ closer' = [closer EXCEPT ![k] = "done"]
  /\ UNCHANGED <<nextTag, calls, caller, reader, clntOpen, srvVars, reps>>

-----------------------------------------------------------------------------
(* DemuxSrv, a goroutine per request, and the end of the server process.   *)

SrvRead ==
  /\ srvReader
  /\ \E m \in reqs : reqs' = reqs \ {m} /\ serving' = serving \cup {m}
  /\ UNCHANGED <<clntVars, srvOpen, srvReader, srvClosed, replying, ran, reps>>

SrvReadFails ==
  /\ srvReader
  /\ \/ ~clntOpen /\ reqs = {} /\ srvClosed' = TRUE
     \/ ~srvOpen /\ UNCHANGED srvClosed
  /\ srvReader' = FALSE
  /\ UNCHANGED <<clntVars, srvOpen, reqs, serving, replying, ran, reps>>

ServeRequest(m) ==
  /\ m \in serving
  /\ serving' = serving \ {m}
  /\ replying' = replying \cup {m}
  /\ ran' = ran \cup {m.from}
  /\ UNCHANGED <<clntVars, srvOpen, srvReader, srvClosed, reqs, reps>>

WriteReply(m) ==
  /\ m \in replying
  /\ replying' = replying \ {m}
  /\ reps' = IF clntOpen /\ srvOpen THEN reps \cup {m} ELSE reps
  /\ UNCHANGED <<clntVars, srvOpen, srvReader, srvClosed, reqs, serving, ran>>

SrvClose ==
  /\ ~srvClosed
  /\ srvClosed' = TRUE
  /\ srvOpen' = FALSE
  /\ UNCHANGED <<clntVars, srvReader, reqs, serving, replying, ran, reps>>

\* DaemonClnt.kill, or a crash: the process and its goroutines are gone.
SrvDies ==
  /\ srvOpen' = FALSE
  /\ srvReader' = FALSE
  /\ serving' = {}
  /\ replying' = {}
  /\ UNCHANGED <<clntVars, srvClosed, reqs, ran, reps>>

-----------------------------------------------------------------------------
SendReceive(c) == Put(c) \/ WriteRequest(c)
Reader ==
  ReadReply \/ ReadFails \/ Outstanding \/ FailNext \/ ReaderExits \/ \E c \in Callers : Deliver(c)
Close(k) == CloseTransport(k) \/ CloseMap(k)
Handlers == SrvRead \/ SrvReadFails \/ \E m \in Message : ServeRequest(m) \/ WriteReply(m)

Next ==
  \/ \E c \in Callers : Tag(c) \/ SendReceive(c)
  \/ Reader
  \/ \E k \in Closers : CheckClosed(k) \/ Close(k)
  \/ Handlers
  \/ SrvClose \/ SrvDies

Spec == Init /\ [][Next]_vars

\* Goroutines run, and what the server dispatches to returns.
FairSpec ==
  /\ Spec
  /\ \A c \in Callers : WF_vars(SendReceive(c))
  /\ \A k \in Closers : WF_vars(Close(k))
  /\ WF_vars(Reader) /\ WF_vars(Handlers)

-----------------------------------------------------------------------------
(* Properties.                                                             *)

\* Types of both ends of the connection.
TypeOK ==
  /\ nextTag \in 1 .. MaxTag + 1
  /\ closed \in BOOLEAN /\ clntOpen \in BOOLEAN
  /\ srvOpen \in BOOLEAN /\ srvReader \in BOOLEAN /\ srvClosed \in BOOLEAN
  /\ calls \in [Tags -> Callers \cup {Nobody}]
  /\ caller \in [Callers -> CallerState]
  /\ reader \in ReaderState
  /\ closer \in [Closers -> {"idle", "closing", "shut", "done"}]
  /\ reqs \subseteq Message /\ reps \subseteq Message
  /\ serving \subseteq Message /\ replying \subseteq Message
  /\ ran \subseteq Callers

\* DemuxClnt.reply: the reader never meets a tag that is not in the call map,
\* neither in a reply nor while it fails the outstanding calls; log.Fatalf
\* would end the tester.
ReplyHasMatchingReq == reader.pc # "fatal"

\* DemuxClnt.reader: when it has left, no caller is in the map or waits on a
\* channel that nobody will send to, however Put, Close and the break of the
\* connection interleaved.
NobodyLeftBehind ==
  reader.pc = "exited" =>
    /\ \A t \in Tags : calls[t] = Nobody
    /\ \A c \in Callers : caller[c].pc \notin {"entered", "waiting"}

\* SendReceive: a caller gets the reply to its own request, which the server
\* served, and a call refused by the closed map never reached the server.
AnswersAreOwn ==
  \A c \in Callers :
    /\ caller[c].pc = "done" /\ caller[c].got # Nobody => caller[c].got = c /\ c \in ran
    /\ caller[c].pc = "refused" => c \notin ran

\* What the caller knows.
Outcome(me) ==
  CASE me.pc = "idle" -> "idle"
    [] me.pc = "done" -> IF me.got = Nobody THEN "false" ELSE "true"
    [] me.pc = "refused" -> "false"
    [] OTHER -> "open"

RPC == INSTANCE AtMostOnceRPC WITH
  Calls <- Callers, result <- [c \in Callers |-> Outcome(caller[c])], ran <- ran

\* RPCClnt.RPC is a call in the sense of the network's contract.
ImplementsRPC == RPC!Spec

\* SendReceive: "Listen to the reply channel regardless of error status, so
\* the reader thread doesn't block indefinitely": every call returns.
CallsReturn ==
  \A c \in Callers : caller[c].pc = "tagged" ~> caller[c].pc \in {"done", "refused"}

\* The reader goroutine does not outlive its connection.
ReaderLeaves == ~clntOpen \/ ~srvOpen ~> reader.pc = "exited"
=============================================================================
