---------------------------- MODULE DemuxProofs ----------------------------
(***************************************************************************)
(* Proofs about the demultiplexer, for any number of callers, closers and  *)
(* tags.  The argument follows the call map: the entry of a call is in the *)
(* map, or in the reader's hands, from put until the caller is answered;   *)
(* while the reader reads, every message on its way leads to an entry; and *)
(* the map is closed before the reader looks for outstanding calls, so     *)
(* that what it found is all there will ever be.                           *)
(***************************************************************************)
EXTENDS Demux, TLAPS

\* A call is in the hands of the reader.
InHand == reader.pc \in {"sending", "failing"}

\* tag() gives each call a tag of its own.
InUse == \A c \in Callers : caller[c].pc # "idle" => caller[c].tag \in 1 .. nextTag - 1

Unique ==
  \A c, d \in Callers :
    c # d /\ caller[c].pc # "idle" /\ caller[d].pc # "idle" => caller[c].tag # caller[d].tag

\* An entry of the map is the entry of a caller that will wait for it.
Mapped ==
  \A t \in Tags : calls[t] # Nobody =>
    caller[calls[t]].tag = t /\ caller[calls[t]].pc \in {"entered", "waiting"}

\* A caller that waits is in the map or the reader is about to send to it.
Awaited ==
  \A c \in Callers : caller[c].pc \in {"entered", "waiting"} =>
    calls[caller[c].tag] = c \/ (InHand /\ reader.to = c)

\* The call in the reader's hands is out of the map.
Handing ==
  /\ InHand =>
       /\ reader.to \in Callers
       /\ caller[reader.to].pc \in {"entered", "waiting"}
       /\ calls[caller[reader.to].tag] = Nobody
  /\ reader.pc = "sending" =>
       reader.got = reader.to /\ reader.to \in ran /\ caller[reader.to].pc = "waiting"
  /\ reader.pc = "failing" => reader.got = Nobody

\* A message on its way belongs to a caller that has written its request and,
\* as long as the reader reads, waits for it in the map.
Aboard(m) ==
  /\ m.tag = caller[m.from].tag
  /\ caller[m.from].pc \in {"waiting", "done"}
  /\ reader.pc \in {"reading", "sending"} =>
       caller[m.from].pc = "waiting" /\ calls[m.tag] = m.from

\* Every message is in one place; its request ran if it is an answer.
InFlight ==
  /\ \A m \in reqs : Aboard(m) /\ m.from \notin ran /\ m \notin serving
  /\ \A m \in serving : Aboard(m) /\ m.from \notin ran
  /\ \A m \in replying : Aboard(m) /\ m.from \in ran /\ m \notin reps
  /\ \A m \in reps : Aboard(m) /\ m.from \in ran

\* The map is closed before the reader drains it, and it drains all of it.
Drained ==
  /\ reader.pc # "fatal"
  /\ reader.pc \in {"closed", "draining", "failing", "exited"} => closed
  /\ reader.pc \in {"draining", "failing"} =>
       reader.outstanding = {t \in Tags : calls[t] # Nobody}
  /\ reader.pc = "exited" => \A t \in Tags : calls[t] = Nobody

\* What ran was written, and an answer is the caller's own.
Answered ==
  /\ \A c \in ran : caller[c].pc \in {"waiting", "done"}
  /\ \A c \in Callers : caller[c].pc = "done" /\ caller[c].got # Nobody =>
       caller[c].got = c /\ c \in ran

Inv ==
  /\ TypeOK /\ InUse /\ Unique /\ Mapped /\ Awaited /\ Handing
  /\ InFlight /\ Drained /\ Answered

-----------------------------------------------------------------------------
(* Every step preserves the invariant.                                     *)

\* A new tag is above all tags in use.
LEMMA TagInv ==
  ASSUME Inv, NEW c \in Callers, Tag(c)
  PROVE  Inv'
<1>0. /\ TypeOK /\ InUse /\ Unique /\ Mapped /\ Awaited
      /\ Handing /\ InFlight /\ Drained /\ Answered
  BY DEF Inv
<1>1. nextTag \in Nat /\ nextTag + 1 \in 1 .. MaxTag + 1 /\ nextTag \in Tags
  BY <1>0, MaxTagAssumption DEF TypeOK, Tags, Tag
<1>2. /\ caller' \in [Callers -> CallerState] /\ \A d \in Callers : d # c => caller'[d] = caller[d]
     /\ caller'[c].pc = "tagged" /\ caller'[c].tag = nextTag /\ caller'[c].got = caller[c].got
  BY <1>0, <1>1, Zenon DEF TypeOK, Tag, CallerState, ReaderState
<1>3. caller[c].pc = "idle" /\ nextTag' = nextTag + 1
  BY DEF Tag
<1>4. UNCHANGED <<closed, calls, reader, closer, clntOpen,
                 srvOpen, srvReader, srvClosed, reqs, serving, replying, ran, reps>>
  BY DEF Tag, srvVars, clntVars
<1>5. \A d \in Callers : d # c /\ caller[d].pc # "idle" => caller[d].tag # nextTag
  BY <1>0, <1>1 DEF InUse, TypeOK, Tags, CallerState
<1>6. TypeOK'
  BY <1>0, <1>1, <1>2, <1>3, <1>4, <1>5 DEF TypeOK
<1>7. InUse'
  BY <1>0, <1>1, <1>2, <1>3, <1>4, <1>5 DEF InUse, TypeOK, CallerState, ReaderState
<1>8. Unique'
  BY <1>0, <1>2, <1>3, <1>5 DEF Unique
<1>9. Mapped'
  BY <1>0, <1>1, <1>2, <1>3, <1>4, <1>5 DEF Mapped, TypeOK, CallerState, ReaderState
<1>10. Awaited'
  BY <1>0, <1>1, <1>2, <1>3, <1>4, <1>5 DEF Awaited, InHand
<1>11. Handing'
  BY <1>0, <1>1, <1>2, <1>3, <1>4, <1>5 DEF Handing, InHand
<1>12. InFlight'
  <2> SUFFICES ASSUME NEW m \in Message, Aboard(m)
               PROVE  Aboard(m)'
    BY <1>0, <1>4 DEF InFlight, TypeOK
  <2> QED
    BY <1>0, <1>2, <1>3, <1>4 DEF Aboard, Message
<1>13. Drained'
  BY <1>0, <1>1, <1>2, <1>3, <1>4, <1>5 DEF Drained
<1>14. Answered'
  BY <1>0, <1>1, <1>2, <1>3, <1>4, <1>5 DEF Answered, TypeOK, CallerState, ReaderState
<1>15. QED
  BY <1>6, <1>7, <1>8, <1>9, <1>10, <1>11, <1>12, <1>13, <1>14 DEF Inv

\* A call refused by the closed map is not in it.
LEMMA RefusedInv ==
  ASSUME Inv, NEW c \in Callers, Put(c), closed
  PROVE  Inv'
<1>0. /\ TypeOK /\ InUse /\ Unique /\ Mapped /\ Awaited
      /\ Handing /\ InFlight /\ Drained /\ Answered
  BY DEF Inv
<1>1. /\ caller' \in [Callers -> CallerState] /\ \A d \in Callers : d # c => caller'[d] = caller[d]
     /\ caller'[c].pc = "refused" /\ caller'[c].tag = caller[c].tag /\ caller'[c].got = caller[c].got
  BY <1>0 DEF TypeOK, Put, CallerState, ReaderState
<1>2. caller[c].pc = "tagged" /\ UNCHANGED calls
  BY DEF Put
<1>3. UNCHANGED <<nextTag, closed, reader, closer, clntOpen,
                 srvOpen, srvReader, srvClosed, reqs, serving, replying, ran, reps>>
  BY DEF Put, srvVars, clntVars
<1>4. TypeOK'
  BY <1>0, <1>1, <1>2, <1>3 DEF TypeOK
<1>5. InUse'
  BY <1>0, <1>1, <1>2, <1>3 DEF InUse
<1>6. Unique'
  BY <1>0, <1>1, <1>2, <1>3 DEF Unique
<1>7. Mapped'
  BY <1>0, <1>1, <1>2, <1>3 DEF Mapped, TypeOK, CallerState, ReaderState
<1>8. Awaited'
  BY <1>0, <1>1, <1>2, <1>3 DEF Awaited, InHand
<1>9. Handing'
  BY <1>0, <1>1, <1>2, <1>3 DEF Handing, InHand
<1>10. InFlight'
  BY <1>0, <1>1, <1>2, <1>3 DEF TypeOK, InFlight, Aboard, CallerState, ReaderState, Message, Tags
<1>11. Drained'
  BY <1>0, <1>1, <1>2, <1>3 DEF Drained
<1>12. Answered'
  BY <1>0, <1>1, <1>2, <1>3 DEF Answered, TypeOK, CallerState, ReaderState
<1>13. QED
  BY <1>4, <1>5, <1>6, <1>7, <1>8, <1>9, <1>10, <1>11, <1>12 DEF Inv

\* A call is entered only while the reader has not begun to drain the map.
LEMMA EnteredInv ==
  ASSUME Inv, NEW c \in Callers, Put(c), ~closed
  PROVE  Inv'
<1>0. /\ TypeOK /\ InUse /\ Unique /\ Mapped /\ Awaited
      /\ Handing /\ InFlight /\ Drained /\ Answered
  BY DEF Inv
<1>1. /\ caller' \in [Callers -> CallerState] /\ \A d \in Callers : d # c => caller'[d] = caller[d]
     /\ caller'[c].pc = "entered" /\ caller'[c].tag = caller[c].tag /\ caller'[c].got = caller[c].got
  BY <1>0 DEF TypeOK, Put, CallerState, ReaderState
<1>2. /\ caller[c].pc = "tagged" /\ caller[c].tag \in Tags
     /\ calls' = [calls EXCEPT ![caller[c].tag] = c]
  BY <1>0 DEF TypeOK, Put, CallerState
<1>3. UNCHANGED <<nextTag, closed, reader, closer, clntOpen,
                 srvOpen, srvReader, srvClosed, reqs, serving, replying, ran, reps>>
  BY DEF Put, srvVars, clntVars
<1>4. reader.pc \in {"reading", "sending"}
  BY <1>0 DEF Drained, TypeOK, ReaderState
<1>5. \A d \in Callers : d # c /\ caller[d].pc # "idle" =>
        calls'[caller[d].tag] = calls[caller[d].tag]
  BY <1>0, <1>2 DEF Unique, TypeOK, CallerState
<1>6. TypeOK'
  BY <1>0, <1>1, <1>2, <1>3, <1>4, <1>5 DEF TypeOK
<1>7. InUse'
  BY <1>0, <1>1, <1>2, <1>3, <1>4, <1>5 DEF InUse
<1>8. Unique'
  BY <1>0, <1>1, <1>2, <1>3, <1>4, <1>5 DEF Unique
<1>9. Mapped'
  BY <1>0, <1>1, <1>2, <1>3, <1>4, <1>5 DEF Mapped, TypeOK, CallerState, ReaderState
<1>10. Awaited'
  BY <1>0, <1>1, <1>2, <1>3, <1>4, <1>5 DEF Awaited, InHand, TypeOK, CallerState, ReaderState
<1>11. Handing'
  BY <1>0, <1>1, <1>2, <1>3, <1>5 DEF Handing, InHand
<1>12. InFlight'
  <2> SUFFICES ASSUME NEW m \in Message, Aboard(m)
               PROVE  Aboard(m)'
    BY <1>0, <1>3 DEF InFlight, TypeOK
  <2> QED
    BY <1>0, <1>1, <1>2, <1>3, <1>5 DEF Aboard, Message
<1>13. Drained'
  BY <1>0, <1>1, <1>2, <1>3, <1>4, <1>5 DEF Drained
<1>14. Answered'
  BY <1>0, <1>1, <1>2, <1>3, <1>4, <1>5 DEF Answered, TypeOK, CallerState, ReaderState
<1>15. QED
  BY <1>6, <1>7, <1>8, <1>9, <1>10, <1>11, <1>12, <1>13, <1>14 DEF Inv

\* A request goes out while its caller is in the map, if the reader reads.
LEMMA WriteRequestInv ==
  ASSUME Inv, NEW c \in Callers, WriteRequest(c)
  PROVE  Inv'
<1>0. /\ TypeOK /\ InUse /\ Unique /\ Mapped /\ Awaited
      /\ Handing /\ InFlight /\ Drained /\ Answered
  BY DEF Inv
<1>1. /\ caller' \in [Callers -> CallerState] /\ \A d \in Callers : d # c => caller'[d] = caller[d]
     /\ caller'[c].pc = "waiting" /\ caller'[c].tag = caller[c].tag /\ caller'[c].got = caller[c].got
  BY <1>0 DEF TypeOK, WriteRequest, CallerState, ReaderState
<1>2. caller[c].pc = "entered" /\ c \notin ran
  BY <1>0 DEF Answered, WriteRequest
<1>3. \/ UNCHANGED reqs
     \/ reqs' = reqs \cup {[tag |-> caller[c].tag, from |-> c]}
  BY DEF WriteRequest
<1>4. UNCHANGED <<nextTag, closed, calls, reader, closer, clntOpen,
                 srvOpen, srvReader, srvClosed, serving, replying, ran, reps>>
  BY DEF WriteRequest, srvVars, clntVars
<1>5. TypeOK'
  BY <1>0, <1>1, <1>2, <1>3, <1>4 DEF TypeOK, CallerState, ReaderState, Message, Tags
<1>6. InUse'
  BY <1>0, <1>1, <1>2, <1>3, <1>4 DEF InUse
<1>7. Unique'
  BY <1>0, <1>1, <1>2, <1>3, <1>4 DEF Unique
<1>8. Mapped'
  BY <1>0, <1>1, <1>2, <1>3, <1>4 DEF Mapped, TypeOK, CallerState, ReaderState
<1>9. Awaited'
  BY <1>0, <1>1, <1>2, <1>3, <1>4 DEF Awaited, InHand
<1>10. Handing'
  BY <1>0, <1>1, <1>2, <1>3, <1>4 DEF Handing, InHand
<1>11. InFlight'
  <2>1. ASSUME NEW m \in Message, Aboard(m)
        PROVE  Aboard(m)' /\ m.from # c
    BY <1>0, <1>1, <1>2, <1>4, <2>1 DEF Aboard, Message
  <2>2. ASSUME NEW m, m = [tag |-> caller[c].tag, from |-> c] PROVE Aboard(m)'
    BY <1>0, <1>1, <1>2, <1>4, <2>2 DEF Aboard, Awaited, Handing, InHand, TypeOK, ReaderState
  <2>3. \A m \in serving \cup replying \cup reps : Aboard(m)' /\ m.from # c
    BY <1>0, <2>1 DEF InFlight, TypeOK
  <2>4. \A m \in reqs : Aboard(m)' /\ m.from # c
    BY <1>0, <2>1 DEF InFlight, TypeOK
  <2>5. \A m \in reqs' : m \in reqs \/ m = [tag |-> caller[c].tag, from |-> c]
    BY <1>3
  <2>6. ASSUME NEW m \in reqs' PROVE Aboard(m)' /\ m.from \notin ran /\ m \notin serving
    <3>1. CASE m \in reqs
      BY <1>0, <2>4, <3>1 DEF InFlight
    <3>2. CASE m = [tag |-> caller[c].tag, from |-> c]
      <4>1. m.from = c
        BY <3>2
      <4>2. m \notin serving
        BY <2>3, <4>1
      <4> QED
        BY <1>2, <2>2, <3>2, <4>1, <4>2
    <3> QED
      BY <2>5, <3>1, <3>2
  <2> QED
    BY <1>0, <1>4, <2>3, <2>6 DEF InFlight
<1>12. Drained'
  BY <1>0, <1>4 DEF Drained
<1>13. Answered'
  BY <1>0, <1>1, <1>2, <1>3, <1>4 DEF Answered, TypeOK, CallerState, ReaderState
<1>14. QED
  BY <1>5, <1>6, <1>7, <1>8, <1>9, <1>10, <1>11, <1>12, <1>13 DEF Inv

\* While the reader reads, each reply leads to a call in the map.
LEMMA ReadReplyInv ==
  ASSUME Inv, ReadReply
  PROVE  Inv'
<1>0. /\ TypeOK /\ InUse /\ Unique /\ Mapped /\ Awaited
      /\ Handing /\ InFlight /\ Drained /\ Answered
  BY DEF Inv
<1>1. PICK m \in reps : reps' = reps \ {m} /\ TakeCall(m.tag, "sending", m.from, {})
  BY DEF ReadReply
<1>2. /\ reader.pc = "reading" /\ m \in Message /\ m.from \in ran /\ m \notin replying
     /\ m.tag = caller[m.from].tag /\ caller[m.from].pc = "waiting" /\ calls[m.tag] = m.from
  BY <1>0 DEF ReadReply, TypeOK, InFlight, Aboard
<1>3. /\ calls' = [calls EXCEPT ![m.tag] = Nobody]
     /\ reader' = [pc |-> "sending", to |-> m.from, got |-> m.from, outstanding |-> {}]
  BY <1>1, <1>2, NobodyAssumption DEF TakeCall, Message
<1>4. UNCHANGED <<nextTag, closed, caller, closer, clntOpen, srvOpen, srvReader,
                 srvClosed, reqs, serving, replying, ran>>
  BY DEF ReadReply, srvVars, clntVars
<1>5. TypeOK'
  BY <1>0, <1>1, <1>2, <1>3, <1>4 DEF TypeOK, CallerState, ReaderState
<1>6. InUse'
  BY <1>0, <1>4 DEF InUse
<1>7. Unique'
  BY <1>0, <1>4 DEF Unique
<1>8. Mapped'
  BY <1>0, <1>1, <1>2, <1>3, <1>4 DEF Mapped
<1>9. Awaited'
  BY <1>0, <1>1, <1>2, <1>3, <1>4 DEF Awaited, InHand
<1>10. Handing'
  BY <1>0, <1>1, <1>2, <1>3, <1>4 DEF Handing, InHand, TypeOK, CallerState, ReaderState
<1>11. InFlight'
  <2>1. ASSUME NEW n \in Message, Aboard(n), n # m PROVE Aboard(n)'
    <3>1. n.tag # m.tag
      BY <1>2, <2>1 DEF Aboard, Message
    <3> QED
      BY <1>0, <1>2, <1>3, <1>4, <2>1, <3>1 DEF Aboard, Message, TypeOK
  <2>2. m \notin reqs /\ m \notin serving /\ m \notin replying /\ m \notin reps'
    BY <1>0, <1>1, <1>2 DEF InFlight
  <2> QED
    BY <1>0, <1>1, <1>4, <2>1, <2>2 DEF InFlight, TypeOK
<1>12. Drained'
  BY <1>0, <1>1, <1>2, <1>3, <1>4 DEF Drained
<1>13. Answered'
  BY <1>0, <1>4 DEF Answered
<1>14. QED
  BY <1>5, <1>6, <1>7, <1>8, <1>9, <1>10, <1>11, <1>12, <1>13 DEF Inv

\* The reader closes the map first.
LEMMA ReadFailsInv ==
  ASSUME Inv, ReadFails
  PROVE  Inv'
<1>0. /\ TypeOK /\ InUse /\ Unique /\ Mapped /\ Awaited
      /\ Handing /\ InFlight /\ Drained /\ Answered
  BY DEF Inv
<1>1. reader.pc = "reading" /\ closed' = TRUE /\ reader' = [reader EXCEPT !.pc = "closed"]
  BY DEF ReadFails
<1>2. UNCHANGED <<nextTag, calls, caller, closer, clntOpen,
                 srvOpen, srvReader, srvClosed, reqs, serving, replying, ran, reps>>
  BY DEF ReadFails, srvVars, clntVars
<1>3. TypeOK'
  BY <1>0, <1>1, <1>2 DEF TypeOK, CallerState, ReaderState
<1>4. InUse'
  BY <1>0, <1>2 DEF InUse
<1>5. Unique'
  BY <1>0, <1>2 DEF Unique
<1>6. Mapped'
  BY <1>0, <1>2 DEF Mapped
<1>7. Awaited'
  BY <1>0, <1>1, <1>2 DEF Awaited, InHand
<1>8. Handing'
  BY <1>0, <1>1, <1>2 DEF Handing, InHand
<1>9. InFlight'
  BY <1>0, <1>1, <1>2 DEF InFlight, Aboard
<1>10. Drained'
  BY <1>0, <1>1, <1>2 DEF Drained
<1>11. Answered'
  BY <1>0, <1>2 DEF Answered
<1>12. QED
  BY <1>3, <1>4, <1>5, <1>6, <1>7, <1>8, <1>9, <1>10, <1>11 DEF Inv

\* Nothing enters the map any more: the outstanding calls are all of it.
LEMMA OutstandingInv ==
  ASSUME Inv, Outstanding
  PROVE  Inv'
<1>0. /\ TypeOK /\ InUse /\ Unique /\ Mapped /\ Awaited
      /\ Handing /\ InFlight /\ Drained /\ Answered
  BY DEF Inv
<1>1. reader.pc = "closed"
     /\ reader' = [reader EXCEPT !.pc = "draining", !.outstanding = {t \in Tags : calls[t] # Nobody}]
  BY DEF Outstanding
<1>2. UNCHANGED <<nextTag, closed, calls, caller, closer, clntOpen,
                 srvOpen, srvReader, srvClosed, reqs, serving, replying, ran, reps>>
  BY DEF Outstanding, srvVars, clntVars
<1>3. TypeOK'
  BY <1>0, <1>1, <1>2, Zenon DEF TypeOK, CallerState, ReaderState
<1>4. InUse'
  BY <1>0, <1>2 DEF InUse
<1>5. Unique'
  BY <1>0, <1>2 DEF Unique
<1>6. Mapped'
  BY <1>0, <1>2 DEF Mapped
<1>7. Awaited'
  BY <1>0, <1>1, <1>2 DEF Awaited, InHand
<1>8. Handing'
  BY <1>0, <1>1, <1>2 DEF Handing, InHand
<1>9. InFlight'
  BY <1>0, <1>1, <1>2 DEF InFlight, Aboard
<1>10. Drained'
  BY <1>0, <1>1, <1>2 DEF Drained
<1>11. Answered'
  BY <1>0, <1>2 DEF Answered
<1>12. QED
  BY <1>3, <1>4, <1>5, <1>6, <1>7, <1>8, <1>9, <1>10, <1>11 DEF Inv

\* A call that is failed is one of the map, and leaves it.
LEMMA FailNextInv ==
  ASSUME Inv, FailNext
  PROVE  Inv'
<1>0. /\ TypeOK /\ InUse /\ Unique /\ Mapped /\ Awaited
      /\ Handing /\ InFlight /\ Drained /\ Answered
  BY DEF Inv
<1>1. PICK t \in reader.outstanding : TakeCall(t, "failing", Nobody, reader.outstanding \ {t})
  BY DEF FailNext
<1>2. reader.pc = "draining" /\ t \in Tags /\ calls[t] # Nobody /\ calls[t] \in Callers
  BY <1>0 DEF FailNext, TypeOK, Drained
<1>3. /\ calls' = [calls EXCEPT ![t] = Nobody]
     /\ reader' = [pc |-> "failing", to |-> calls[t], got |-> Nobody,
                    outstanding |-> reader.outstanding \ {t}]
  BY <1>1, <1>2 DEF TakeCall
<1>4. UNCHANGED <<nextTag, closed, caller, closer, clntOpen,
                 srvOpen, srvReader, srvClosed, reqs, serving, replying, ran, reps>>
  BY DEF FailNext, srvVars, clntVars
<1>5. caller[calls[t]].tag = t /\ caller[calls[t]].pc \in {"entered", "waiting"} /\ calls'[t] = Nobody
  BY <1>0, <1>2, <1>3 DEF Mapped, TypeOK
<1>6. reader'.pc = "failing" /\ reader'.to = calls[t] /\ reader'.got = Nobody
  BY <1>3
<1>7. TypeOK'
  BY <1>0, <1>1, <1>2, <1>3, <1>4, <1>5, <1>6 DEF TypeOK, CallerState, ReaderState
<1>8. InUse'
  BY <1>0, <1>1, <1>2, <1>3, <1>4, <1>5, <1>6 DEF InUse
<1>9. Unique'
  BY <1>0, <1>1, <1>2, <1>3, <1>4, <1>5, <1>6 DEF Unique
<1>10. Mapped'
  BY <1>0, <1>1, <1>2, <1>3, <1>4, <1>5, <1>6 DEF Mapped
<1>11. Awaited'
  BY <1>0, <1>1, <1>2, <1>3, <1>4, <1>5, <1>6 DEF Awaited, InHand
<1>12. Handing'
  BY <1>2, <1>4, <1>5, <1>6 DEF Handing, InHand
<1>13. InFlight'
  BY <1>0, <1>1, <1>2, <1>3, <1>4, <1>5, <1>6 DEF InFlight, Aboard
<1>14. Drained'
  BY <1>0, <1>1, <1>2, <1>3, <1>4, <1>5, <1>6 DEF Drained
<1>15. Answered'
  BY <1>0, <1>1, <1>2, <1>3, <1>4, <1>5, <1>6 DEF Answered
<1>16. QED
  BY <1>7, <1>8, <1>9, <1>10, <1>11, <1>12, <1>13, <1>14, <1>15 DEF Inv

\* The reader leaves an empty map behind.
LEMMA ReaderExitsInv ==
  ASSUME Inv, ReaderExits
  PROVE  Inv'
<1>0. /\ TypeOK /\ InUse /\ Unique /\ Mapped /\ Awaited
      /\ Handing /\ InFlight /\ Drained /\ Answered
  BY DEF Inv
<1>1. /\ reader.pc = "draining" /\ reader.outstanding = {}
     /\ reader' = [reader EXCEPT !.pc = "exited"]
  BY DEF ReaderExits
<1>2. UNCHANGED <<nextTag, closed, calls, caller, closer, clntOpen,
                 srvOpen, srvReader, srvClosed, reqs, serving, replying, ran, reps>>
  BY DEF ReaderExits, srvVars, clntVars
<1>3. TypeOK'
  BY <1>0, <1>1, <1>2 DEF TypeOK, CallerState, ReaderState
<1>4. InUse'
  BY <1>0, <1>2 DEF InUse
<1>5. Unique'
  BY <1>0, <1>2 DEF Unique
<1>6. Mapped'
  BY <1>0, <1>2 DEF Mapped
<1>7. Awaited'
  BY <1>0, <1>1, <1>2 DEF Awaited, InHand
<1>8. Handing'
  BY <1>0, <1>1, <1>2 DEF Handing, InHand
<1>9. InFlight'
  BY <1>0, <1>1, <1>2 DEF InFlight, Aboard
<1>10. Drained'
  BY <1>0, <1>1, <1>2 DEF Drained
<1>11. Answered'
  BY <1>0, <1>2 DEF Answered
<1>12. QED
  BY <1>3, <1>4, <1>5, <1>6, <1>7, <1>8, <1>9, <1>10, <1>11 DEF Inv

\* The caller in the reader's hands gets its own reply, or none.
LEMMA DeliverInv ==
  ASSUME Inv, NEW c \in Callers, Deliver(c)
  PROVE  Inv'
<1>0. /\ TypeOK /\ InUse /\ Unique /\ Mapped /\ Awaited
      /\ Handing /\ InFlight /\ Drained /\ Answered
  BY DEF Inv
<1>1. reader.pc \in {"sending", "failing"} /\ reader.to = c /\ caller[c].pc = "waiting"
  BY DEF Deliver
<1>2. reader.got \in Callers \cup {Nobody} /\ reader.outstanding \in SUBSET Tags
  BY <1>0 DEF TypeOK, ReaderState
<1>3. /\ caller' \in [Callers -> CallerState] /\ \A d \in Callers : d # c => caller'[d] = caller[d]
     /\ caller'[c].pc = "done" /\ caller'[c].tag = caller[c].tag /\ caller'[c].got = reader.got
  <2> DEFINE me == [caller[c] EXCEPT !.pc = "done", !.got = reader.got]
  <2>1. me \in CallerState /\ me.pc = "done" /\ me.tag = caller[c].tag /\ me.got = reader.got
    BY <1>0, <1>2, Zenon DEF TypeOK, CallerState
  <2>2. caller' = [caller EXCEPT ![c] = me]
    BY <1>0, Zenon DEF Deliver, TypeOK
  <2> HIDE DEF me
  <2> QED
    BY <1>0, <2>1, <2>2 DEF TypeOK
<1>4. reader'.pc \in {"reading", "draining"} /\ (reader'.pc = "reading" <=> reader.pc = "sending")
  BY <1>0, <1>1 DEF Deliver, TypeOK, ReaderState
<1>5. reader' \in ReaderState /\ reader'.outstanding = reader.outstanding
  BY <1>0, <1>1, NobodyAssumption, Zenon DEF Deliver, TypeOK, ReaderState
<1>6. UNCHANGED <<nextTag, closed, calls, closer, clntOpen,
                 srvOpen, srvReader, srvClosed, reqs, serving, replying, ran, reps>>
  BY DEF Deliver, srvVars, clntVars
<1>7. \A t \in Tags : calls[t] # c
  BY <1>0, <1>1, NobodyAssumption DEF Mapped, Handing, InHand, TypeOK
<1>8. reader.got # Nobody => reader.got = c /\ c \in ran
  BY <1>0, <1>1 DEF Handing
<1>9. TypeOK'
  BY <1>0, <1>1, <1>2, <1>3, <1>4, <1>5, <1>6, <1>7, <1>8 DEF TypeOK
<1>10. InUse'
  BY <1>0, <1>1, <1>2, <1>3, <1>4, <1>5, <1>6, <1>7, <1>8, Zenon DEF InUse
<1>11. Unique'
  BY <1>0, <1>1, <1>2, <1>3, <1>4, <1>5, <1>6, <1>7, <1>8 DEF Unique
<1>12. Mapped'
  BY <1>0, <1>3, <1>6, <1>7 DEF Mapped, TypeOK
<1>13. Awaited'
  BY <1>0, <1>1, <1>2, <1>3, <1>4, <1>5, <1>6, <1>7, <1>8 DEF Awaited, InHand
<1>14. Handing'
  BY <1>0, <1>1, <1>2, <1>3, <1>4, <1>5, <1>6, <1>7, <1>8 DEF Handing, InHand
<1>15. InFlight'
  <2> SUFFICES ASSUME NEW m \in Message, Aboard(m)
               PROVE  Aboard(m)'
    BY <1>0, <1>6 DEF InFlight, TypeOK
  <2>1. m.from \in Callers /\ m.tag \in Tags
    BY DEF Message
  <2>2. CASE m.from = c
    <3>1. reader.pc = "failing"
      BY <1>1, <1>7, <2>1, <2>2 DEF Aboard
    <3> QED
      BY <1>3, <1>4, <2>2, <3>1 DEF Aboard
  <2>3. CASE m.from # c
    BY <1>1, <1>3, <1>4, <1>6, <2>1, <2>3 DEF Aboard
  <2> QED
    BY <2>2, <2>3
<1>16. Drained'
  BY <1>0, <1>1, <1>2, <1>3, <1>4, <1>5, <1>6, <1>7, <1>8 DEF Drained
<1>17. Answered'
  <2>1. ran' = ran /\ ran \subseteq Callers
    BY <1>0, <1>6 DEF TypeOK
  <2>2. \A d \in ran : caller'[d].pc \in {"waiting", "done"}
    BY <1>0, <1>3, <2>1 DEF Answered
  <2>3. \A d \in Callers : caller'[d].pc = "done" /\ caller'[d].got # Nobody =>
          caller'[d].got = d /\ d \in ran
    BY <1>0, <1>3, <1>8 DEF Answered
  <2> QED
    BY <2>1, <2>2, <2>3 DEF Answered
<1>18. QED
  BY <1>9, <1>10, <1>11, <1>12, <1>13, <1>14, <1>15, <1>16, <1>17 DEF Inv

\* Close touches neither the map's entries nor the reader.
LEMMA CloserInv ==
  ASSUME Inv, NEW k \in Closers, CheckClosed(k) \/ CloseTransport(k) \/ CloseMap(k)
  PROVE  Inv'
<1>0. /\ TypeOK /\ InUse /\ Unique /\ Mapped /\ Awaited
      /\ Handing /\ InFlight /\ Drained /\ Answered
  BY DEF Inv
<1>1. /\ closed' \in BOOLEAN /\ clntOpen' \in BOOLEAN /\ (closed => closed')
     /\ closer' \in [Closers -> {"idle", "closing", "shut", "done"}]
  BY <1>0, Zenon DEF TypeOK, CheckClosed, CloseTransport, CloseMap
<1>2. UNCHANGED <<nextTag, calls, caller, reader,
                 srvOpen, srvReader, srvClosed, reqs, serving, replying, ran, reps>>
  BY DEF CheckClosed, CloseTransport, CloseMap, srvVars
<1>3. TypeOK'
  BY <1>0, <1>1, <1>2 DEF TypeOK
<1>4. InUse'
  BY <1>0, <1>2 DEF InUse
<1>5. Unique'
  BY <1>0, <1>2 DEF Unique
<1>6. Mapped'
  BY <1>0, <1>2 DEF Mapped
<1>7. Awaited'
  BY <1>0, <1>2 DEF Awaited, InHand
<1>8. Handing'
  BY <1>0, <1>2 DEF Handing, InHand
<1>9. InFlight'
  BY <1>0, <1>2 DEF InFlight, Aboard
<1>10. Drained'
  BY <1>0, <1>1, <1>2 DEF Drained
<1>11. Answered'
  BY <1>0, <1>2 DEF Answered
<1>12. QED
  BY <1>3, <1>4, <1>5, <1>6, <1>7, <1>8, <1>9, <1>10, <1>11 DEF Inv

\* A request that is read is served.
LEMMA SrvReadInv ==
  ASSUME Inv, SrvRead
  PROVE  Inv'
<1>0. /\ TypeOK /\ InUse /\ Unique /\ Mapped /\ Awaited
      /\ Handing /\ InFlight /\ Drained /\ Answered
  BY DEF Inv
<1>1. PICK m \in reqs : reqs' = reqs \ {m} /\ serving' = serving \cup {m}
  BY DEF SrvRead
<1>2. UNCHANGED <<nextTag, closed, calls, caller, reader, closer, clntOpen,
                 srvOpen, srvReader, srvClosed, replying, ran, reps>>
  BY <1>0 DEF SrvRead, clntVars
<1>3. TypeOK'
  BY <1>0, <1>1, <1>2 DEF TypeOK
<1>4. InUse'
  BY <1>0, <1>2 DEF InUse
<1>5. Unique'
  BY <1>0, <1>2 DEF Unique
<1>6. Mapped'
  BY <1>0, <1>2 DEF Mapped
<1>7. Awaited'
  BY <1>0, <1>2 DEF Awaited, InHand
<1>8. Handing'
  BY <1>0, <1>2 DEF Handing, InHand
<1>9. InFlight'
  <2>1. \A q \in Message : Aboard(q)' <=> Aboard(q)
    BY <1>2 DEF Aboard
  <2> QED
    BY <1>0, <1>1, <1>2, <2>1 DEF InFlight, TypeOK
<1>10. Drained'
  BY <1>0, <1>2 DEF Drained
<1>11. Answered'
  BY <1>0, <1>2 DEF Answered
<1>12. QED
  BY <1>3, <1>4, <1>5, <1>6, <1>7, <1>8, <1>9, <1>10, <1>11 DEF Inv

\* A server that stops loses messages and makes none.
LEMMA SrvStopsInv ==
  ASSUME Inv, SrvReadFails \/ SrvClose \/ SrvDies
  PROVE  Inv'
<1>0. /\ TypeOK /\ InUse /\ Unique /\ Mapped /\ Awaited
      /\ Handing /\ InFlight /\ Drained /\ Answered
  BY DEF Inv
<1>1. /\ srvOpen' \in BOOLEAN /\ srvReader' \in BOOLEAN /\ srvClosed' \in BOOLEAN
     /\ serving' \subseteq serving /\ replying' \subseteq replying
  BY <1>0, Zenon DEF TypeOK, SrvReadFails, SrvClose, SrvDies
<1>2. UNCHANGED <<nextTag, closed, calls, caller, reader, closer, clntOpen, reqs, ran, reps>>
  BY DEF SrvReadFails, SrvClose, SrvDies, clntVars
<1>3. TypeOK'
  BY <1>0, <1>1, <1>2 DEF TypeOK
<1>4. InUse'
  BY <1>0, <1>2 DEF InUse
<1>5. Unique'
  BY <1>0, <1>2 DEF Unique
<1>6. Mapped'
  BY <1>0, <1>2 DEF Mapped
<1>7. Awaited'
  BY <1>0, <1>2 DEF Awaited, InHand
<1>8. Handing'
  BY <1>0, <1>2 DEF Handing, InHand
<1>9. InFlight'
  <2>1. \A m \in Message : Aboard(m)' <=> Aboard(m)
    BY <1>2 DEF Aboard
  <2> QED
    BY <1>0, <1>1, <1>2, <2>1 DEF InFlight, TypeOK
<1>10. Drained'
  BY <1>0, <1>2 DEF Drained
<1>11. Answered'
  BY <1>0, <1>2 DEF Answered
<1>12. QED
  BY <1>3, <1>4, <1>5, <1>6, <1>7, <1>8, <1>9, <1>10, <1>11 DEF Inv

\* A request that is served has run, and only it.
LEMMA ServeRequestInv ==
  ASSUME Inv, NEW m \in Message, ServeRequest(m)
  PROVE  Inv'
<1>0. /\ TypeOK /\ InUse /\ Unique /\ Mapped /\ Awaited
      /\ Handing /\ InFlight /\ Drained /\ Answered
  BY DEF Inv
<1>1. m \in serving /\ serving' = serving \ {m} /\ replying' = replying \cup {m} /\ ran' = ran \cup {m.from}
  BY DEF ServeRequest
<1>2. UNCHANGED <<nextTag, closed, calls, caller, reader, closer, clntOpen,
                 srvOpen, srvReader, srvClosed, reqs, reps>>
  BY <1>0 DEF ServeRequest, clntVars
<1>3. TypeOK'
  BY <1>0, <1>1, <1>2 DEF TypeOK, CallerState, ReaderState, Message, Tags
<1>4. InUse'
  BY <1>0, <1>2 DEF InUse
<1>5. Unique'
  BY <1>0, <1>2 DEF Unique
<1>6. Mapped'
  BY <1>0, <1>2 DEF Mapped
<1>7. Awaited'
  BY <1>0, <1>2 DEF Awaited, InHand
<1>8. Handing'
  BY <1>0, <1>1, <1>2 DEF Handing, InHand
<1>9. InFlight'
  <2>1. \A n \in Message : Aboard(n)' <=> Aboard(n)
    BY <1>2 DEF Aboard
  <2>2. \A n \in reqs \cup serving : n # m => n.from # m.from
    BY <1>0, <1>1 DEF InFlight, Aboard, Message, TypeOK
  <2>3. m \notin reqs /\ m \notin reps /\ Aboard(m)
    BY <1>0, <1>1 DEF InFlight
  <2> QED
    BY <1>0, <1>1, <1>2, <2>1, <2>2, <2>3 DEF InFlight, TypeOK
<1>10. Drained'
  BY <1>0, <1>2 DEF Drained
<1>11. Answered'
  BY <1>0, <1>1, <1>2 DEF Answered, InFlight, Aboard, TypeOK, Message
<1>12. QED
  BY <1>3, <1>4, <1>5, <1>6, <1>7, <1>8, <1>9, <1>10, <1>11 DEF Inv

\* A reply that is written leaves the server.
LEMMA WriteReplyInv ==
  ASSUME Inv, NEW m \in Message, WriteReply(m)
  PROVE  Inv'
<1>0. /\ TypeOK /\ InUse /\ Unique /\ Mapped /\ Awaited
      /\ Handing /\ InFlight /\ Drained /\ Answered
  BY DEF Inv
<1>1. m \in replying /\ replying' = replying \ {m} /\ (reps' = reps \/ reps' = reps \cup {m})
  BY DEF WriteReply
<1>2. UNCHANGED <<nextTag, closed, calls, caller, reader, closer, clntOpen,
                 srvOpen, srvReader, srvClosed, reqs, serving, ran>>
  BY <1>0 DEF WriteReply, clntVars
<1>3. TypeOK'
  BY <1>0, <1>1, <1>2 DEF TypeOK
<1>4. InUse'
  BY <1>0, <1>2 DEF InUse
<1>5. Unique'
  BY <1>0, <1>2 DEF Unique
<1>6. Mapped'
  BY <1>0, <1>2 DEF Mapped
<1>7. Awaited'
  BY <1>0, <1>2 DEF Awaited, InHand
<1>8. Handing'
  BY <1>0, <1>2 DEF Handing, InHand
<1>9. InFlight'
  <2>1. \A q \in Message : Aboard(q)' <=> Aboard(q)
    BY <1>2, Zenon DEF Aboard
  <2> QED
    BY <1>0, <1>1, <1>2, <2>1 DEF InFlight, TypeOK
<1>10. Drained'
  BY <1>0, <1>2 DEF Drained
<1>11. Answered'
  BY <1>0, <1>2 DEF Answered
<1>12. QED
  BY <1>3, <1>4, <1>5, <1>6, <1>7, <1>8, <1>9, <1>10, <1>11 DEF Inv

\* The invariant holds at first: nothing was called.
LEMMA InitInv == Init => Inv
<1> SUFFICES ASSUME Init PROVE Inv
  OBVIOUS
<1>1. /\ nextTag = 1 /\ nextTag \in 1 .. MaxTag + 1 /\ 0 \in Tags
      /\ reqs = {} /\ reps = {} /\ serving = {} /\ replying = {} /\ ran = {}
  BY MaxTagAssumption DEF Init, Tags
<1>2. /\ \A t \in Tags : calls[t] = Nobody
      /\ \A c \in Callers : caller[c].pc = "idle"
      /\ reader.pc = "reading"
  BY DEF Init
<1>3. TypeOK
  BY <1>1, Zenon DEF Init, TypeOK, CallerState, ReaderState
<1>4. InUse /\ Unique /\ Mapped /\ Awaited /\ Answered
  BY <1>1, <1>2 DEF InUse, Unique, Mapped, Awaited, Answered
<1>5. Handing /\ InFlight /\ Drained
  BY <1>1, <1>2 DEF Handing, InHand, InFlight, Drained
<1>6. QED
  BY <1>3, <1>4, <1>5 DEF Inv

\* Every step keeps the invariant.
LEMMA NextInv == Inv /\ [Next]_vars => Inv'
<1> SUFFICES ASSUME Inv, [Next]_vars PROVE Inv'
  OBVIOUS
<1>1. ASSUME NEW c \in Callers, Tag(c) \/ SendReceive(c) PROVE Inv'
  <2>1. CASE Tag(c)
    BY <2>1, TagInv
  <2>2. CASE Put(c)
    BY <2>2, RefusedInv, EnteredInv
  <2>3. CASE WriteRequest(c)
    BY <2>3, WriteRequestInv
  <2> QED
    BY <1>1, <2>1, <2>2, <2>3 DEF SendReceive
<1>2. CASE Reader
  BY <1>2, ReadReplyInv, ReadFailsInv, OutstandingInv, FailNextInv, ReaderExitsInv, DeliverInv
     DEF Reader
<1>3. ASSUME NEW k \in Closers, CheckClosed(k) \/ Close(k) PROVE Inv'
  BY <1>3, CloserInv DEF Close
<1>4. CASE Handlers \/ SrvClose \/ SrvDies
  BY <1>4, SrvReadInv, SrvStopsInv, ServeRequestInv, WriteReplyInv DEF Handlers
<1>5. CASE UNCHANGED vars
  <2>1. UNCHANGED <<nextTag, closed, calls, caller, reader, closer, clntOpen,
                    srvOpen, srvReader, srvClosed, reqs, serving, replying, ran, reps>>
    BY <1>5 DEF vars, clntVars, srvVars
  <2>2. TypeOK' /\ InUse' /\ Unique' /\ Mapped'
    BY <2>1 DEF Inv, TypeOK, InUse, Unique, Mapped
  <2>3. Awaited' /\ Handing' /\ Drained' /\ Answered'
    BY <2>1 DEF Inv, Awaited, Handing, InHand, Drained, Answered
  <2>4. InFlight'
    BY <2>1 DEF Inv, InFlight, Aboard
  <2> QED
    BY <2>2, <2>3, <2>4 DEF Inv
<1>6. QED
  BY <1>1, <1>2, <1>3, <1>4, <1>5 DEF Next

-----------------------------------------------------------------------------
\* The state of both ends of the connection keeps its type.
THEOREM TypeCorrect == Spec => []TypeOK
<1>1. Inv => TypeOK
  BY DEF Inv
<1> QED
  BY InitInv, NextInv, <1>1, PTL DEF Spec

\* However calls, Close and the end of the server interleave, DemuxClnt.reply
\* finds the call of every tag it is given: log.Fatalf is never reached.
THEOREM NoUnknownTag == Spec => []ReplyHasMatchingReq
<1>1. Inv => ReplyHasMatchingReq
  BY DEF Inv, Drained, ReplyHasMatchingReq
<1> QED
  BY InitInv, NextInv, <1>1, PTL DEF Spec

\* When DemuxClnt.reader has left, nobody is in the map or waits for it.
THEOREM NobodyWaits == Spec => []NobodyLeftBehind
<1>1. Inv => NobodyLeftBehind
  <2> SUFFICES ASSUME Inv, reader.pc = "exited" PROVE
        /\ \A t \in Tags : calls[t] = Nobody
        /\ \A c \in Callers : caller[c].pc \notin {"entered", "waiting"}
    BY DEF NobodyLeftBehind
  <2>1. \A t \in Tags : calls[t] = Nobody
    BY DEF Inv, Drained
  <2>2. \A c \in Callers : caller[c].tag \in Tags /\ c # Nobody
    BY NobodyAssumption DEF Inv, TypeOK, CallerState
  <2> QED
    BY <2>1, <2>2 DEF Inv, Awaited, InHand
<1> QED
  BY InitInv, NextInv, <1>1, PTL DEF Spec

\* SendReceive returns the reply to the caller's own request, or none; what
\* the closed map refused was not served.
THEOREM OwnAnswers == Spec => []AnswersAreOwn
<1>1. Inv => AnswersAreOwn
  BY Zenon DEF Inv, Answered, AnswersAreOwn
<1> QED
  BY InitInv, NextInv, <1>1, PTL DEF Spec

-----------------------------------------------------------------------------
\* A step of a call, or of the server that serves it, is a step of the call
\* that the contract allows; all other steps change nothing it speaks of.
LEMMA NextRPC == Inv /\ [Next]_vars => [RPC!Next]_RPC!vars
<1> SUFFICES ASSUME Inv, [Next]_vars PROVE [RPC!Next]_RPC!vars
  OBVIOUS
<1> DEFINE res == [c \in Callers |-> Outcome(caller[c])]
<1>0. TypeOK /\ InFlight /\ Handing /\ Answered
  BY DEF Inv
<1>1. ASSUME UNCHANGED <<caller, ran>> PROVE UNCHANGED RPC!vars
  BY <1>1 DEF RPC!vars
<1>3. ASSUME NEW c \in Callers, Tag(c) PROVE RPC!Next
  <2> DEFINE me == [caller[c] EXCEPT !.pc = "tagged", !.tag = nextTag]
  <2>1. caller' = [caller EXCEPT ![c] = me] /\ UNCHANGED ran /\ caller[c].pc = "idle"
    BY <1>0, <1>3, Zenon DEF Tag, TypeOK, srvVars
  <2>2. \A d \in Callers : res'[d] = IF d = c THEN "open" ELSE res[d]
    BY <1>0, <2>1 DEF TypeOK, CallerState, Outcome
  <2>3. res' = [res EXCEPT ![c] = "open"] /\ res[c] = "idle"
    BY <2>1, <2>2, Zenon DEF Outcome
  <2> QED
    BY <2>1, <2>3, Zenon DEF RPC!Next, RPC!Call
<1>4. ASSUME NEW c \in Callers, Put(c) PROVE [RPC!Next]_RPC!vars
  <2>0. caller[c].pc = "tagged" /\ UNCHANGED ran
    BY <1>4 DEF Put, srvVars
  <2>1. CASE closed
    <3>1. caller' = [caller EXCEPT ![c].pc = "refused"]
      BY <1>4, <2>1 DEF Put
    <3>2. \A d \in Callers : res'[d] = IF d = c THEN "false" ELSE res[d]
      BY <1>0, <3>1 DEF TypeOK, CallerState, Outcome
    <3>3. res' = [res EXCEPT ![c] = "false"] /\ res[c] = "open"
      BY <2>0, <3>2, Zenon DEF Outcome
    <3> QED
      BY <2>0, <3>3, Zenon DEF RPC!Next, RPC!Return
  <2>2. CASE ~closed
    <3>1. caller' = [caller EXCEPT ![c].pc = "entered"]
      BY <1>4, <2>2 DEF Put
    <3>2. \A d \in Callers : Outcome(caller[d])' = Outcome(caller[d])
      BY <1>0, <2>0, <3>1 DEF TypeOK, CallerState, Outcome
    <3> QED
      BY <2>0, <3>2 DEF RPC!vars
  <2> QED
    BY <2>1, <2>2
<1>5. ASSUME NEW c \in Callers, WriteRequest(c) PROVE UNCHANGED RPC!vars
  <2>1. /\ caller[c].pc = "entered" /\ UNCHANGED ran
        /\ caller' = [caller EXCEPT ![c].pc = "waiting"]
    BY <1>5 DEF WriteRequest
  <2>2. \A d \in Callers : Outcome(caller[d])' = Outcome(caller[d])
    BY <1>0, <2>1 DEF TypeOK, CallerState, Outcome
  <2> QED
    BY <2>1, <2>2 DEF RPC!vars
<1>6. ASSUME NEW c \in Callers, Deliver(c) PROVE RPC!Next
  <2> DEFINE ok == IF reader.got = Nobody THEN "false" ELSE "true"
  <2>1. /\ caller[c].pc = "waiting" /\ UNCHANGED ran
        /\ caller' = [caller EXCEPT ![c].pc = "done", ![c].got = reader.got]
    BY <1>6 DEF Deliver, srvVars
  <2>2. ok = "true" => c \in ran
    BY <1>0, <1>6 DEF Handing, Deliver
  <2>3. \A d \in Callers : res'[d] = IF d = c THEN ok ELSE res[d]
    BY <1>0, <2>1 DEF TypeOK, CallerState, ReaderState, Outcome
  <2>4. ok \in {"true", "false"} /\ res[c] = "open"
    BY <2>1 DEF Outcome
  <2> HIDE DEF ok
  <2>5. res' = [res EXCEPT ![c] = ok]
    BY <2>3, Zenon
  <2> QED
    BY <2>1, <2>2, <2>4, <2>5, Zenon DEF RPC!Next, RPC!Return
<1>7. ASSUME NEW m \in Message, ServeRequest(m) PROVE RPC!Next
  <2>1. m.from \in Callers /\ caller' = caller /\ ran' = ran \cup {m.from}
    BY <1>7 DEF ServeRequest, clntVars, Message
  <2>2. caller[m.from].pc \in {"waiting", "done"} /\ m.from \notin ran
    BY <1>0, <1>7 DEF ServeRequest, InFlight, Aboard
  <2>3. res[m.from] \in {"open", "false"} /\ UNCHANGED res
    BY <1>0, <2>1, <2>2 DEF Answered, Outcome
  <2> QED
    BY <2>1, <2>2, <2>3 DEF RPC!Next, RPC!Run
<1>8. ASSUME NEW m \in Message, WriteReply(m) PROVE UNCHANGED RPC!vars
  BY <1>1, <1>8 DEF WriteReply, clntVars
<1>9. ASSUME ReadReply \/ ReadFails \/ Outstanding \/ FailNext \/ ReaderExits
      PROVE  UNCHANGED RPC!vars
  BY <1>1, <1>9 DEF ReadReply, ReadFails, Outstanding, FailNext, ReaderExits, srvVars
<1>10. ASSUME NEW k \in Closers, CheckClosed(k) \/ Close(k) PROVE UNCHANGED RPC!vars
  BY <1>1, <1>10 DEF CheckClosed, Close, CloseTransport, CloseMap, srvVars
<1>11. ASSUME SrvRead \/ SrvReadFails \/ SrvClose \/ SrvDies PROVE UNCHANGED RPC!vars
  BY <1>1, <1>11 DEF SrvRead, SrvReadFails, SrvClose, SrvDies, clntVars
<1>12. ASSUME UNCHANGED vars PROVE UNCHANGED RPC!vars
  BY <1>1, <1>12 DEF vars, clntVars, srvVars
<1>13. QED
  BY <1>3, <1>4, <1>5, <1>6, <1>7, <1>8, <1>9, <1>10, <1>11, <1>12
     DEF Next, SendReceive, Reader, Handlers

\* The demultiplexer keeps the contract of ClientEnd.Call: a request runs at
\* most once, and a call that returns true was run.
THEOREM DemuxContract == Spec => ImplementsRPC
<1>1. Init => RPC!Init
  BY DEF Init, RPC!Init, Outcome
<1> QED
  BY <1>1, InitInv, NextInv, NextRPC, PTL DEF Spec, ImplementsRPC, RPC!Spec
=============================================================================
