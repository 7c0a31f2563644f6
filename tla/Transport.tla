------------------------------ MODULE Transport ------------------------------
(***************************************************************************)
(* One connection: src/asm/application_transport.asm with connection.asm,  *)
(* and what server.asm does to accept and close it.                        *)
(*                                                                         *)
(* A call of application_transport_handle_once is cut at its system calls  *)
(* and around the dispatch callback, so the peer acts in between.  Bytes   *)
(* are reduced to positions in the peer's stream: the input buffer holds   *)
(* the input bytes after the first consumed ones, and a byte of output is  *)
(* known by the request it answers and its place in that response.         *)
(***************************************************************************)
EXTENDS Integers, Sequences, FiniteSets, FiniteSetsExt

CONSTANTS
  Streams,          \* what a peer may send: sequences of requests
  InputCapacity, OutputCapacity,   \* the two buffers of a slot
  RequestBudget,    \* SERVER_REQUEST_BUDGET
  SendSpace,        \* bound: bytes the kernel keeps for the peer to read
  MaxConnections    \* bound: connections that use the slot one after another

\* A request takes the positions after start up to end, its header up to head.
RequestSpan ==
  [start : Nat, head : Nat, end : Nat, wellFormed : BOOLEAN, close : BOOLEAN]

IsStream(stream) ==
  /\ stream \in Seq(RequestSpan)
  /\ \A i \in 1 .. Len(stream) :
       LET r == stream[i] IN
       /\ r.start = (IF i = 1 THEN 0 ELSE stream[i - 1].end)
       /\ r.start < r.head /\ r.head <= r.end

ASSUME TransportAssumption ==
  /\ \A stream \in Streams : IsStream(stream)
  /\ {InputCapacity, OutputCapacity, RequestBudget, SendSpace, MaxConnections}
       \subseteq Nat \ {0}

VARIABLES
  state, headersReady, writeArmed, appKeepAlive,    \* the connection,
  frameScan, frameNeeded, writeBytes, requestCount, lastError,
  input, output, arenaUsed,   \* its buffers: lengths, and arena.offset > 0
  messageLength,              \* of the request parsed last
  fdOpen, interest,           \* the descriptor and what epoll watches it for
  pc, budget, atEntry, ret,   \* the call in progress, or the last result
  stream, arrived, fin, unread,   \* the peer and the kernel's queues
  consumed, answering, wire, connections    \* history

framing == <<headersReady, frameScan, frameNeeded>>
conn == <<state, framing, writeArmed, appKeepAlive, writeBytes, requestCount,
          lastError>>
buffers == <<input, output, arenaUsed>>
epoll == <<fdOpen, interest>>
locals == <<budget, atEntry>>
peer == <<stream, arrived, fin, unread>>
history == <<consumed, answering, wire, connections>>
vars == <<conn, buffers, messageLength, epoll, pc, locals, ret, peer, history>>

States == {"NONE", "READING", "DISPATCHING", "WRITING", "CLOSING", "CLOSED"}
Errors == {"einval", "enospc", "reset", "fail"}
StreamLength == IF stream = <<>> THEN 0 ELSE stream[Len(stream)].end
Mark == [request : DOMAIN stream, unit : 1 .. OutputCapacity, last : BOOLEAN]

TypeOK ==
  /\ state \in States /\ lastError \in Errors \cup {"none"}
  /\ {headersReady, writeArmed, appKeepAlive, arenaUsed, fdOpen, fin}
       \subseteq BOOLEAN
  /\ frameScan \in 0 .. InputCapacity /\ frameNeeded \in 0 .. StreamLength
  /\ input \in 0 .. InputCapacity /\ output \in 0 .. OutputCapacity
  /\ writeBytes \in 0 .. output /\ requestCount \in 0 .. Len(stream)
  /\ messageLength \in Nat
  /\ interest \in {"none", "in", "out"}
  /\ pc \in {"caller", "frame", "parse", "dispatch", "read", "write"}
  /\ budget \in 0 .. RequestBudget /\ atEntry \in 0 .. requestCount
  /\ ret \in Errors \cup {"none", "ok", "more", "again"}
  /\ stream \in Streams \cup {<<>>} /\ arrived \in 0 .. StreamLength
  /\ unread \in 0 .. SendSpace
  /\ consumed + input <= arrived
  /\ answering \in 0 .. Len(stream) /\ wire \in Seq(Mark)
  /\ connections \in 0 .. MaxConnections

Init ==
  /\ state = "NONE" /\ headersReady = FALSE /\ frameScan = 0 /\ frameNeeded = 0
  /\ writeArmed = FALSE /\ appKeepAlive = FALSE
  /\ writeBytes = 0 /\ requestCount = 0 /\ lastError = "none"
  /\ input = 0 /\ output = 0 /\ arenaUsed = FALSE /\ messageLength = 0
  /\ fdOpen = FALSE /\ interest = "none"
  /\ pc = "caller" /\ budget = 0 /\ atEntry = 0 /\ ret = "none"
  /\ stream = <<>> /\ arrived = 0 /\ fin = FALSE /\ unread = 0
  /\ consumed = 0 /\ answering = 0 /\ wire = <<>> /\ connections = 0
-----------------------------------------------------------------------------
(***************************************************************************)
(* Common parts                                                            *)
(***************************************************************************)
Return(status) == pc' = "caller" /\ ret' = status /\ UNCHANGED locals
Goto(label) == pc' = label /\ UNCHANGED <<locals, ret>>

\* The connection is left for the caller to close.
StateAfterFatal == IF state = "CLOSED" THEN state ELSE "CLOSING"

FatalOf(error) ==
  /\ lastError' = error /\ state' = StateAfterFatal
  /\ Return(error)
  /\ UNCHANGED <<framing, writeArmed, appKeepAlive, writeBytes, requestCount,
                 buffers, epoll, peer, history>>

Fatal(error) == FatalOf(error) /\ UNCHANGED messageLength

\* server_close_connection: whatever close says, the descriptor is gone.
Released == state' = "CLOSED" /\ fdOpen' = FALSE /\ interest' = "none"
-----------------------------------------------------------------------------
(***************************************************************************)
(* accept and close                                                        *)
(***************************************************************************)
Accept ==
  /\ pc = "caller" /\ state \in {"NONE", "CLOSED"}
  /\ connections < MaxConnections /\ connections' = connections + 1
  /\ input' = 0 /\ output' = 0 /\ arenaUsed' = FALSE /\ UNCHANGED messageLength
  /\ \E sent \in Streams :
       /\ stream' = sent /\ arrived' = 0 /\ fin' = FALSE /\ unread' = 0
       /\ consumed' = 0 /\ answering' = 0 /\ wire' = <<>>
  /\ headersReady' = FALSE /\ frameScan' = 0 /\ frameNeeded' = 0
  /\ writeArmed' = FALSE /\ appKeepAlive' = FALSE
  /\ writeBytes' = 0 /\ requestCount' = 0
  /\ budget' = 0 /\ atEntry' = 0 /\ pc' = "caller"
  /\ \/ /\ state' = "READING" /\ fdOpen' = TRUE /\ interest' = "in"
        /\ lastError' = "none" /\ ret' = "none"
     \/ Released /\ lastError' = "fail" /\ ret' = "fail"

Close ==
  /\ pc = "caller" /\ state \in States \ {"NONE", "CLOSED"}
  /\ Released
  /\ \E status \in {"ok", "fail"} : Return(status)
  /\ UNCHANGED <<framing, writeArmed, appKeepAlive, writeBytes, requestCount,
                 lastError, buffers, messageLength, peer, history>>
-----------------------------------------------------------------------------
(***************************************************************************)
(* handle_once                                                             *)
(***************************************************************************)
HandleOnce ==
  /\ pc = "caller" /\ state # "NONE"
  /\ IF state \in {"READING", "WRITING"}
     THEN /\ pc' = IF state = "READING" THEN "frame" ELSE "write"
          /\ budget' = RequestBudget /\ atEntry' = requestCount
          /\ UNCHANGED ret
     ELSE Return("einval")
  /\ UNCHANGED <<conn, buffers, messageLength, epoll, peer, history>>

\* http_frame_scan (that it keeps back a final CR is abstracted): ends of headers between the scan's offset and the input's.
HeaderEndsSeen ==
  {h \in {stream[i].head : i \in DOMAIN stream} :
     consumed + frameScan < h /\ h <= consumed + input}

\* Some byte of a malformed header is in front of the scan, and nothing that
\* would end it earlier.
BadHeaderSeen ==
  \E i \in DOMAIN stream :
    /\ ~stream[i].wellFormed
    /\ stream[i].start < consumed + input
    /\ consumed + frameScan < stream[i].head
    /\ \A h \in HeaderEndsSeen : stream[i].head <= h

Scan ==
  \/ frameScan > input /\ Fatal("einval")
  \/ frameScan <= input /\ BadHeaderSeen /\ Fatal("einval")
  \/ /\ frameScan <= input
     /\ IF HeaderEndsSeen = {}
        THEN frameScan' = input /\ Goto("read") /\ UNCHANGED headersReady
        ELSE /\ frameScan' = Min(HeaderEndsSeen) - consumed
             /\ headersReady' = TRUE /\ Goto("parse")
     /\ UNCHANGED <<state, frameNeeded, writeArmed, appKeepAlive, writeBytes,
                    requestCount, lastError, buffers, messageLength, epoll, peer,
                    history>>

\* What of the request at the front of the buffer is known decides what to do.
Frame ==
  /\ pc = "frame"
  /\ \/ /\ \/ frameNeeded # 0 /\ input < frameNeeded
           \/ frameNeeded = 0 /\ ~headersReady /\ input = 0
        /\ Goto("read")
        /\ UNCHANGED <<conn, buffers, messageLength, epoll, peer, history>>
     \/ /\ \/ frameNeeded # 0 /\ input >= frameNeeded
           \/ frameNeeded = 0 /\ headersReady
        /\ Goto("parse")
        /\ UNCHANGED <<conn, buffers, messageLength, epoll, peer, history>>
     \/ /\ frameNeeded = 0 /\ ~headersReady /\ input # 0
        /\ Scan

Length(i) == stream[i].end - stream[i].start

\* The request the buffer begins with.
FrontRequest == {i \in DOMAIN stream : stream[i].start = consumed}

\* Mutant: the body is thought to be one byte longer.
NeededForMore(i) == Length(i) + 1

\* What http_parse_request says a request with a complete header needs.
Needed(i) == Length(i)

\* Mutant: the header is enough.
CompleteAtHeader(i) == TRUE

Complete(i) == input >= Length(i)

\* http_parse_request, and on to the callback when it has a whole request.
Parse ==
  /\ pc = "parse"
  /\ \/ /\ \A i \in FrontRequest : ~stream[i].wellFormed
        /\ FatalOf("einval") /\ messageLength' = 0
     \/ \E i \in FrontRequest :
          /\ stream[i].wellFormed
          /\ \/ /\ ~Complete(i)
                /\ frameNeeded' = IF stream[i].head <= consumed + input
                                  THEN Needed(i) ELSE frameNeeded
                /\ messageLength' = 0 /\ Goto("read")
                /\ UNCHANGED <<state, headersReady, frameScan, writeArmed,
                               appKeepAlive, writeBytes, requestCount,
                               lastError, buffers, epoll, peer, history>>
             \/ /\ Complete(i)
                /\ messageLength' = Length(i) /\ output' = 0
                /\ state' = "DISPATCHING" /\ answering' = i /\ Goto("dispatch")
                /\ UNCHANGED <<framing, writeArmed, appKeepAlive, writeBytes,
                               requestCount, lastError, input, arenaUsed, epoll,
                               peer, consumed, wire, connections>>

\* The callback: an error, or a whole response and whether to keep the
\* connection; a request that asks to close is never kept.
Dispatch ==
  /\ pc = "dispatch"
  /\ \/ Fatal("fail")
     \/ arenaUsed /\ Fatal("einval")
     \/ /\ ~arenaUsed /\ arenaUsed' \in BOOLEAN
        /\ output' \in 1 .. OutputCapacity
        /\ appKeepAlive' \in (IF stream[answering].close THEN {FALSE} ELSE BOOLEAN)
        /\ state' = "WRITING" /\ Goto("write")
        /\ UNCHANGED <<framing, writeArmed, writeBytes, requestCount, lastError,
                       input, messageLength, epoll, peer, history>>

Room == InputCapacity - input

Available == arrived - (consumed + input)

Read ==
  /\ pc = "read"
  /\ \/ Room = 0 /\ Fatal("enospc")
     \/ Room # 0 /\ Fatal("fail")
     \/ Room # 0 /\ Available = 0 /\ fin /\ Fatal("reset")
     \/ /\ Room # 0 /\ Available = 0 /\ ~fin
        /\ Return(IF requestCount # atEntry THEN "ok" ELSE "again")
        /\ UNCHANGED <<conn, buffers, messageLength, epoll, peer, history>>
     \/ \E k \in 1 .. Min({Room, Available}) :
          /\ input' = input + k /\ Goto("frame")
          /\ UNCHANGED <<conn, output, arenaUsed, messageLength, epoll, peer,
                         history>>

Unit(k) ==
  [request |-> answering, unit |-> writeBytes + k, last |-> writeBytes + k = output]

\* The socket takes some bytes.
WriteSome ==
  /\ pc = "write" /\ writeBytes < output
  /\ \E k \in 1 .. Min({output - writeBytes, SendSpace - unread}) :
       /\ writeBytes' = writeBytes + k /\ unread' = unread + k
       /\ wire' = wire \o [j \in 1 .. k |-> Unit(j)]
  /\ Goto("write")
  /\ UNCHANGED <<state, framing, writeArmed, appKeepAlive, requestCount,
                 lastError, buffers, messageLength, epoll, stream, arrived, fin,
                 consumed, answering, connections>>

\* Mutant: the socket is still watched for input.
ArmNever == interest

Armed == "out"

\* The socket is full: EPOLLOUT is armed, once for each response.
WriteWaits ==
  /\ pc = "write" /\ writeBytes < output /\ unread = SendSpace
  /\ \/ writeArmed /\ UNCHANGED <<writeArmed, interest>>
     \/ ~writeArmed /\ writeArmed' = TRUE /\ interest' = Armed
  /\ Return("again")
  /\ UNCHANGED <<state, framing, appKeepAlive, writeBytes, requestCount,
                 lastError, buffers, messageLength, fdOpen, peer, history>>

\* The write fails, or arming EPOLLOUT does.
WriteFails ==
  /\ pc = "write" /\ writeBytes < output
  /\ Fatal("fail")

\* connection_complete_request, the part that frames the next request.
ResetFraming == headersReady' = FALSE /\ frameScan' = 0 /\ frameNeeded' = 0

\* Mutant: the next response begins where this one ended.
KeepWritten == UNCHANGED writeBytes

ResetWritten == writeBytes' = 0

\* Mutant: EPOLLOUT stays armed after the response.
RearmNever == "out"

\* The interest after a response that had to wait.
Rearmed == "in"

\* buffer_consume and connection_complete_request.
RequestComplete ==
  /\ consumed' = consumed + messageLength /\ input' = input - messageLength
  /\ output' = 0 /\ arenaUsed' = FALSE
  /\ ResetFraming /\ ResetWritten
  /\ requestCount' = requestCount + 1
  /\ writeArmed' = FALSE /\ appKeepAlive' = FALSE
  /\ UNCHANGED <<messageLength, peer, answering, wire, connections>>

CloseAfterResponse ==
  /\ pc = "write" /\ writeBytes = output /\ ~appKeepAlive
  /\ RequestComplete /\ Released /\ UNCHANGED lastError
  /\ \E status \in {"ok", "fail"} : Return(status)

\* After a kept connection's response, with the next request.
KeepAlive ==
  /\ pc = "write" /\ writeBytes = output /\ appKeepAlive
  /\ RequestComplete
  /\ \/ /\ writeArmed /\ state' = "CLOSING" /\ lastError' = "fail"
        /\ Return("fail") /\ UNCHANGED epoll
     \/ /\ state' = "READING" /\ UNCHANGED <<lastError, fdOpen, atEntry>>
        /\ interest' = IF writeArmed THEN Rearmed ELSE interest
        /\ budget' = budget - 1
        /\ IF budget = 1 THEN pc' = "caller" /\ ret' = "more"
                         ELSE pc' = "frame" /\ UNCHANGED ret
-----------------------------------------------------------------------------
(***************************************************************************)
(* The peer                                                                *)
(***************************************************************************)
Send ==
  /\ fdOpen /\ ~fin /\ arrived < StreamLength /\ arrived' = arrived + 1
  /\ UNCHANGED <<conn, buffers, messageLength, epoll, pc, locals, ret, stream, fin,
                 unread, history>>

Finish ==
  /\ fdOpen /\ ~fin /\ fin' = TRUE
  /\ UNCHANGED <<conn, buffers, messageLength, epoll, pc, locals, ret, stream,
                 arrived, unread, history>>

Receive ==
  /\ unread > 0 /\ unread' = unread - 1
  /\ UNCHANGED <<conn, buffers, messageLength, epoll, pc, locals, ret, stream,
                 arrived, fin, history>>

Steps ==
  \/ Frame \/ Parse \/ Dispatch \/ Read
  \/ WriteSome \/ WriteWaits \/ WriteFails \/ CloseAfterResponse \/ KeepAlive

Next == Accept \/ Close \/ HandleOnce \/ Steps \/ Send \/ Finish \/ Receive

Spec == Init /\ [][Next]_vars

\* epoll reports the descriptor, or the last call asked to be called again.
Event ==
  \/ ret = "more"
  \/ fdOpen /\ \/ interest = "in" /\ Available > 0
               \/ interest = "out" /\ unread < SendSpace
               \/ fin

\* The host comes back for every event and closes what failed (Host), a call
\* goes on to its end, and a peer reads what was sent to it.
FairSpec ==
  /\ Spec /\ WF_vars(Steps) /\ WF_vars(Event /\ HandleOnce)
  /\ WF_vars(state = "CLOSING" /\ Close) /\ WF_vars(Receive)
-----------------------------------------------------------------------------
(***************************************************************************)
(* Properties                                                              *)
(***************************************************************************)
\* The wire carries whole responses in the order of the requests, whatever
\* the sizes of partial writes: no byte twice, none left out, none of a
\* response before the previous one has ended.
ResponsesInOrder ==
  \A i \in DOMAIN wire :
    LET mark == wire[i] IN
    IF i = 1 \/ wire[i - 1].last
    THEN /\ mark.unit = 1
         /\ mark.request = (IF i = 1 THEN 1 ELSE wire[i - 1].request + 1)
    ELSE /\ mark.unit = wire[i - 1].unit + 1
         /\ mark.request = wire[i - 1].request

WholeRequestBuffered == \E i \in FrontRequest : Complete(i)

\* What the host relies on when a call has returned: it keeps a connection
\* after "again", "more" and "ok" only in a state the next call accepts or
\* closed, and after an error no call would find it at work.
HostContract ==
  pc = "caller" =>
    /\ ret = "more" => state = "READING"
    /\ ret = "again" => state \in {"READING", "WRITING"}
    /\ ret = "ok" => state \in {"READING", "CLOSED"}
    /\ ret \in Errors => state \in {"CLOSING", "CLOSED"}

\* Between two calls nothing waits for an event that does not come: a reading
\* connection is watched for input and no whole request is in its buffer,
\* unless the call said so; a writing one is watched for room and has output;
\* and what the call returned fits the state it left.
NoLostWakeup ==
  /\ HostContract
  /\ pc = "caller" /\ fdOpen =>
       /\ state = "READING" =>
            interest = "in" /\ (WholeRequestBuffered => ret = "more")
       /\ state = "WRITING" => interest = "out" /\ writeBytes < output

\* A connection is given up for a cause the peer gave, if no system call or
\* callback failed: for syntax only at a malformed request, for space only at
\* a request larger than the buffer, for the end of input only when the peer
\* closed in front of a request that did not arrive as a whole.
HasCause(error) ==
  /\ error = "einval" => \E i \in FrontRequest : ~stream[i].wellFormed
  /\ error = "enospc" => \E i \in FrontRequest : Length(i) > InputCapacity
  /\ error = "reset" =>
       fin /\ Available = 0 /\ \A i \in FrontRequest : stream[i].end > arrived

RefusedForCause == state = "CLOSING" => HasCause(lastError)
-----------------------------------------------------------------------------
(***************************************************************************)
(* The inductive invariant behind the three                                *)
(***************************************************************************)
PointMatchesState ==
  /\ pc \in {"frame", "parse", "read"} => state = "READING"
  /\ pc = "dispatch" <=> state = "DISPATCHING"
  /\ pc = "write" => state = "WRITING"
  /\ pc # "caller" => budget > 0
  /\ pc = "parse" => headersReady
  /\ pc = "read" => ~WholeRequestBuffered

\* The interest follows writeArmed as long as the connection is in use.
EpollMatchesState ==
  /\ state \in {"NONE", "CLOSED"} <=> ~fdOpen
  /\ state \in {"READING", "DISPATCHING"} => ~writeArmed
  /\ state \in {"READING", "DISPATCHING", "WRITING"} =>
       interest = IF writeArmed THEN "out" ELSE "in"

Current == requestCount + 1

\* What was consumed are the requests that were answered.
ConsumedWhatWasAnswered ==
  consumed = IF requestCount = 0 THEN 0 ELSE stream[requestCount].end

\* The request in the callback or being answered is the next one, and whole.
RequestInHand ==
  /\ state \in {"READING", "DISPATCHING"} => writeBytes = 0 /\ ~arenaUsed
  /\ state = "WRITING" => output > 0
  /\ state \in {"DISPATCHING", "WRITING"} =>
       /\ answering = Current /\ Current <= Len(stream)
       /\ messageLength = Length(Current) /\ Complete(Current)

\* What the framing state says of the request at the front.
FramingSound ==
  /\ frameScan <= input
  /\ headersReady =>
       Current <= Len(stream) /\ stream[Current].head <= consumed + input
  /\ ~headersReady =>
       /\ frameNeeded = 0
       /\ Current <= Len(stream) => consumed + frameScan < stream[Current].head
  /\ frameNeeded # 0 => frameNeeded = Length(Current)

\* Where the wire ends: after a response, or within the one being sent.
WireEndsWhereWritten ==
  IF writeBytes = 0
  THEN IF requestCount = 0 THEN wire = <<>>
       ELSE /\ wire # <<>> /\ wire[Len(wire)].last
            /\ wire[Len(wire)].request = requestCount
  ELSE /\ wire # <<>> /\ wire[Len(wire)].request = Current
       /\ wire[Len(wire)].unit = writeBytes
       /\ wire[Len(wire)].last <=> writeBytes = output

TransportInvariant ==
  /\ TypeOK /\ PointMatchesState /\ EpollMatchesState /\ ConsumedWhatWasAnswered
  /\ RequestInHand /\ FramingSound /\ WireEndsWhereWritten
  /\ ResponsesInOrder /\ NoLostWakeup /\ RefusedForCause
-----------------------------------------------------------------------------
\* The exchange seen from outside: one request at a time, begun only when it
\* has arrived as a whole, answered in order.
Exchange ==
  INSTANCE RequestExchange WITH
    open <- state \in {"READING", "DISPATCHING", "WRITING"},
    busy <- state \in {"DISPATCHING", "WRITING"},
    served <- requestCount,
    asked <- Cardinality({i \in DOMAIN stream : stream[i].end <= arrived})

ImplementsExchange == Exchange!Spec

\* A request that has arrived as a whole is answered, or the connection ends,
\* however the bytes came and however slowly the peer takes the responses.
EveryRequestAnswered ==
  \A i \in 1 .. InputCapacity :
    (i \in DOMAIN stream /\ stream[i].end <= arrived)
      ~> (requestCount >= i \/ state = "CLOSED")
=============================================================================
