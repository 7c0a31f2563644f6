-------------------------- MODULE TransportProofs --------------------------
(***************************************************************************)
(* Proofs about Transport for every stream of requests, every size of the  *)
(* buffers and of the socket, and every request budget.                    *)
(***************************************************************************)
EXTENDS Transport, LibraryFacts

(***************************************************************************)
(* Streams                                                                 *)
(***************************************************************************)

(* The requests of a stream follow each other, none is empty.  That each   *)
(* begins where the one before ends is what IsStream says; that it begins  *)
(* behind all earlier ones is shown at the least request that does not.    *)
LEMMA StreamOrder ==
  ASSUME NEW s, IsStream(s)
  PROVE  /\ \A i \in 1 .. Len(s) :
              /\ s[i] \in RequestSpan /\ s[i].start < s[i].head
              /\ s[i].head <= s[i].end
         /\ \A i, j \in 1 .. Len(s) : i < j => s[i].end <= s[j].start
<1>1. Len(s) \in Nat /\ \A i \in 1 .. Len(s) : s[i] \in RequestSpan
  BY DEF IsStream
<1>2. \A i \in 1 .. Len(s) : s[i].start < s[i].head /\ s[i].head <= s[i].end
  BY DEF IsStream
<1>3. /\ \A i \in 2 .. Len(s) : s[i].start = s[i - 1].end
      /\ \A i \in 1 .. Len(s) : s[i].start \in Nat /\ s[i].head \in Nat /\ s[i].end \in Nat
  BY <1>1 DEF IsStream, RequestSpan
<1> DEFINE wrong == {j \in 1 .. Len(s) : \E i \in 1 .. Len(s) : i < j /\ s[i].end > s[j].start}
<1>4. wrong = {}
  <2> SUFFICES ASSUME wrong # {}
               PROVE  FALSE
    OBVIOUS
  <2>1. wrong \subseteq Nat
    BY <1>1
  <2>2. PICK j \in wrong : \A k \in wrong : j <= k
    BY <2>1, LeastElement
  <2>3. PICK i \in 1 .. Len(s) : i < j /\ s[i].end > s[j].start
    BY <2>2
  <2>4. j \in 2 .. Len(s) /\ j - 1 \in 1 .. Len(s) /\ i \in 1 .. j - 1
    BY <1>1, <2>2, <2>3
  <2>5. s[j].start = s[j - 1].end /\ i # j - 1
    BY <1>3, <2>3, <2>4
  <2>6. i < j - 1 /\ j - 1 \notin wrong
    BY <1>1, <2>2, <2>4, <2>5
  <2>7. s[i].end <= s[j - 1].start
    <3>1. ~(s[i].end > s[j - 1].start)
      BY <1>1, <2>3, <2>4, <2>6
    <3>2. i \in 1 .. Len(s) /\ j - 1 \in 1 .. Len(s)
      BY <2>3, <2>4
    <3>3. s[i].end \in Nat /\ s[j - 1].start \in Nat
      BY <1>3, <3>2
    <3> QED BY <3>1, <3>3
  <2>8. s[j - 1].start < s[j - 1].head /\ s[j - 1].head <= s[j - 1].end
    BY <1>2, <2>4
  <2>9. /\ s[i].end \in Nat /\ s[j].start \in Nat /\ s[j - 1].start \in Nat
        /\ s[j - 1].head \in Nat /\ s[j - 1].end \in Nat
    <3>1. i \in 1 .. Len(s) /\ j \in 1 .. Len(s) /\ j - 1 \in 1 .. Len(s)
      BY <2>2, <2>3, <2>4
    <3> QED BY <1>3, <3>1
  <2>10. s[j].start = s[j - 1].end
    BY <2>5
  <2> DEFINE earlier == s[i].end
             before == s[j - 1].start
             head == s[j - 1].head
             here == s[j].start
  <2>11. /\ earlier \in Nat /\ before \in Nat /\ head \in Nat /\ here \in Nat
         /\ earlier > here /\ earlier <= before /\ before < head /\ head <= here
    BY <2>3, <2>7, <2>8, <2>9, <2>10
  <2> HIDE DEF earlier, before, head, here
  <2> QED BY <2>11
<1>5. ASSUME NEW i \in 1 .. Len(s), NEW j \in 1 .. Len(s), i < j
      PROVE  s[i].end <= s[j].start
  <2>1. j \notin wrong
    BY <1>4
  <2>2. ~(s[i].end > s[j].start)
    BY <1>5, <2>1
  <2> QED BY <1>3, <2>2
<1> QED BY <1>1, <1>2, <1>5

(* The stream of a connection is one, or is empty. *)
LEMMA EmptyIsStream == IsStream(<<>>)
BY DEF IsStream

LEMMA StreamInUse ==
  ASSUME TypeOK
  PROVE  /\ IsStream(stream) /\ Len(stream) \in Nat
         /\ \A i : i \in DOMAIN stream <=> i \in 1 .. Len(stream)
<1>1. IsStream(stream)
  BY TransportAssumption, EmptyIsStream DEF TypeOK
<1> QED BY <1>1 DEF IsStream

(* Where the front of the buffer lies in the stream. *)
LEMMA AtFront ==
  ASSUME TypeOK, ConsumedWhatWasAnswered
  PROVE  /\ consumed \in Nat /\ StreamLength \in Nat /\ requestCount \in Nat
         /\ Current <= Len(stream) =>
              /\ FrontRequest = {Current} /\ stream[Current] \in RequestSpan
              /\ stream[Current].start = consumed
              /\ consumed < stream[Current].head
              /\ stream[Current].head <= stream[Current].end
              /\ Length(Current) \in Nat \ {0}
              /\ stream[Current].end = consumed + Length(Current)
              /\ stream[Current].end <= StreamLength
         /\ Current > Len(stream) => FrontRequest = {} /\ consumed = StreamLength
         /\ \A i \in 1 .. Len(stream) :
              /\ i < Current => stream[i].end <= consumed
              /\ i > Current => Current <= Len(stream) /\ stream[Current].end <= stream[i].start
<1>0. \A i : i \in DOMAIN stream <=> i \in 1 .. Len(stream)
  BY StreamInUse
<1>1. /\ IsStream(stream) /\ Len(stream) \in Nat
      /\ requestCount \in 0 .. Len(stream) /\ Current \in Nat /\ Current = requestCount + 1
  BY StreamInUse DEF TypeOK, Current
<1>2. /\ \A i \in 1 .. Len(stream) :
           /\ stream[i] \in RequestSpan /\ stream[i].start < stream[i].head
           /\ stream[i].head <= stream[i].end
      /\ \A i, j \in 1 .. Len(stream) : i < j => stream[i].end <= stream[j].start
  BY <1>1, StreamOrder
<1>3. \A i \in 1 .. Len(stream) :
        /\ stream[i].start \in Nat /\ stream[i].head \in Nat /\ stream[i].end \in Nat
  BY <1>2 DEF RequestSpan
<1>4. consumed \in Nat /\ StreamLength \in Nat
  BY <1>1, <1>3 DEF ConsumedWhatWasAnswered, StreamLength
<1>5. ASSUME Current <= Len(stream)
      PROVE  stream[Current].start = consumed
  BY <1>1, <1>5 DEF IsStream, Current, ConsumedWhatWasAnswered
<1>6. \A i \in 1 .. Len(stream) : i < Current => stream[i].end <= consumed
  <2> SUFFICES ASSUME NEW i \in 1 .. Len(stream), i < Current
               PROVE  stream[i].end <= consumed
    OBVIOUS
  <2>1. i \in 1 .. requestCount /\ requestCount # 0
    BY <1>1 DEF Current
  <2>2. consumed = stream[requestCount].end
    BY <2>1 DEF ConsumedWhatWasAnswered
  <2>3. CASE i = requestCount
    BY <1>1, <1>3, <2>2, <2>3
  <2>4. CASE i < requestCount
    <3>1. requestCount \in 1 .. Len(stream)
      BY <1>1, <2>1
    <3>2. stream[i].end <= stream[requestCount].start
      BY <1>1, <1>2, <2>4, <3>1
    <3> QED BY <1>1, <1>2, <1>3, <2>2, <3>1, <3>2
  <2> QED BY <1>1, <2>1, <2>3, <2>4
<1>7. \A i \in 1 .. Len(stream) : i > Current =>
        Current <= Len(stream) /\ stream[Current].end <= stream[i].start
  BY <1>1, <1>2 DEF Current
<1>8. ASSUME Current <= Len(stream)
      PROVE  /\ FrontRequest = {Current} /\ stream[Current] \in RequestSpan
             /\ consumed < stream[Current].head
             /\ stream[Current].head <= stream[Current].end
             /\ Length(Current) \in Nat \ {0}
             /\ stream[Current].end = consumed + Length(Current)
             /\ stream[Current].end <= StreamLength
  <2>1. \A i \in 1 .. Len(stream) : stream[i].start = consumed => i = Current
    <3> SUFFICES ASSUME NEW i \in 1 .. Len(stream), stream[i].start = consumed, i # Current
                 PROVE  FALSE
      OBVIOUS
    <3>1. CASE i < Current
      BY <1>1, <1>2, <1>3, <1>4, <1>6, <3>1
    <3>2. CASE i > Current
      BY <1>1, <1>2, <1>3, <1>4, <1>5, <1>7, <1>8, <3>2
    <3> QED BY <1>1, <3>1, <3>2 DEF Current
  <2>2. FrontRequest = {Current}
    BY <1>0, <1>1, <1>5, <1>8, <2>1 DEF FrontRequest
  <2>3. /\ stream[Current] \in RequestSpan /\ consumed < stream[Current].head
        /\ stream[Current].head <= stream[Current].end
    BY <1>1, <1>2, <1>5, <1>8
  <2>4. /\ Length(Current) \in Nat \ {0}
        /\ stream[Current].end = consumed + Length(Current)
    BY <1>1, <1>3, <1>4, <1>5, <1>8, <2>3 DEF Length
  <2>5. stream[Current].end <= StreamLength
    <3>1. stream # <<>> /\ Len(stream) \in 1 .. Len(stream) /\ Current <= Len(stream)
      BY <1>1, <1>8
    <3>2. CASE Current = Len(stream)
      BY <1>1, <1>3, <1>8, <3>1, <3>2 DEF StreamLength
    <3>3. CASE Current < Len(stream)
      <4>1. stream[Current].end <= stream[Len(stream)].start
        BY <1>1, <1>2, <1>8, <3>1, <3>3
      <4> QED BY <1>1, <1>2, <1>3, <1>8, <3>1, <4>1 DEF StreamLength
    <3> QED BY <1>1, <3>1, <3>2, <3>3
  <2> QED BY <2>2, <2>3, <2>4, <2>5
<1>9. ASSUME Current > Len(stream)
      PROVE  FrontRequest = {} /\ consumed = StreamLength
  <2>1. requestCount = Len(stream)
    BY <1>1, <1>9
  <2>2. consumed = StreamLength
    BY <1>1, <2>1 DEF ConsumedWhatWasAnswered, StreamLength
  <2>3. ASSUME NEW i \in 1 .. Len(stream)
        PROVE  stream[i].start # consumed
    <3>1. stream[i].end <= consumed
      BY <1>1, <1>6, <2>1 DEF Current
    <3>2. stream[i].start < stream[i].head /\ stream[i].head <= stream[i].end
      BY <1>1, <1>2
    <3> QED BY <1>1, <1>3, <1>4, <3>1, <3>2
  <2> QED BY <1>0, <2>2, <2>3 DEF FrontRequest
<1> QED BY <1>1, <1>4, <1>5, <1>6, <1>7, <1>8, <1>9

(***************************************************************************)
(* What several steps have in common                                       *)
(***************************************************************************)

(* The buffers and what they are compared with stay as they are. *)
UnchangedBuffers ==
  UNCHANGED <<stream, consumed, requestCount, input, framing, writeBytes, output,
              answering, wire>>

LEMMA BuffersKept ==
  ASSUME UnchangedBuffers
  PROVE  /\ ConsumedWhatWasAnswered => ConsumedWhatWasAnswered'
         /\ FramingSound => FramingSound'
         /\ WireEndsWhereWritten => WireEndsWhereWritten'
         /\ ResponsesInOrder => ResponsesInOrder'
         /\ WholeRequestBuffered' = WholeRequestBuffered
         /\ FrontRequest' = FrontRequest /\ Mark' = Mark /\ StreamLength' = StreamLength
         /\ Current' = Current /\ Available' = arrived' - (consumed + input)
<1>1. /\ stream' = stream /\ consumed' = consumed /\ requestCount' = requestCount
      /\ input' = input /\ headersReady' = headersReady /\ frameScan' = frameScan
      /\ frameNeeded' = frameNeeded /\ writeBytes' = writeBytes /\ output' = output
      /\ answering' = answering /\ wire' = wire
  BY DEF UnchangedBuffers, framing
<1>2. ConsumedWhatWasAnswered => ConsumedWhatWasAnswered'
  BY <1>1 DEF ConsumedWhatWasAnswered
<1>3. FramingSound => FramingSound'
  BY <1>1 DEF FramingSound, Current, Length
<1>4. WireEndsWhereWritten => WireEndsWhereWritten'
  BY <1>1 DEF WireEndsWhereWritten, Current
<1>5. ResponsesInOrder => ResponsesInOrder'
  BY <1>1 DEF ResponsesInOrder
<1>6. WholeRequestBuffered' = WholeRequestBuffered
  BY <1>1 DEF WholeRequestBuffered, FrontRequest, Complete, Length
<1>7. /\ FrontRequest' = FrontRequest /\ Mark' = Mark /\ StreamLength' = StreamLength
      /\ Current' = Current /\ Available' = arrived' - (consumed + input)
  BY <1>1 DEF FrontRequest, Mark, StreamLength, Current, Available
<1> QED BY <1>2, <1>3, <1>4, <1>5, <1>6, <1>7

(* A call at work finds the connection open. *)
LEMMA AtWork ==
  ASSUME TransportInvariant, pc # "caller"
  PROVE  state \in {"READING", "DISPATCHING", "WRITING"} /\ fdOpen
BY DEF TransportInvariant, TypeOK, PointMatchesState, EpollMatchesState

(* A call gives the connection up, for a cause. *)
LEMMA FatalKeeps ==
  ASSUME TransportInvariant, pc # "caller", NEW error \in Errors, FatalOf(error),
         messageLength' \in Nat, HasCause(error)
  PROVE  TransportInvariant'
<1>1. /\ state' = "CLOSING" /\ lastError' = error /\ pc' = "caller" /\ ret' = error
      /\ UNCHANGED <<framing, writeArmed, appKeepAlive, writeBytes, requestCount,
                     buffers, epoll, peer, history, locals>>
  BY AtWork DEF FatalOf, StateAfterFatal, Return
<1>2. UnchangedBuffers
  BY <1>1 DEF UnchangedBuffers, buffers, peer, history
<1>3. TypeOK'
  BY <1>1, <1>2, BuffersKept DEF TypeOK, TransportInvariant, States, framing, buffers, epoll,
     peer, history, locals
<1>4. PointMatchesState' /\ EpollMatchesState' /\ RequestInHand'
  BY <1>1, AtWork DEF PointMatchesState, EpollMatchesState, RequestInHand, epoll
<1>5. /\ ConsumedWhatWasAnswered' /\ FramingSound' /\ WireEndsWhereWritten'
      /\ ResponsesInOrder'
  BY <1>2, BuffersKept DEF TransportInvariant
<1>6. NoLostWakeup'
  BY <1>1 DEF NoLostWakeup, HostContract, Errors
<1>7. RefusedForCause'
  <2>1. HasCause(error)' = HasCause(error)
    BY <1>1, <1>2, BuffersKept DEF HasCause, peer, Length, Available, UnchangedBuffers, framing
  <2> QED BY <1>1, <2>1 DEF RefusedForCause
<1> QED BY <1>3, <1>4, <1>5, <1>6, <1>7 DEF TransportInvariant

(***************************************************************************)
(* accept and close                                                        *)
(***************************************************************************)
LEMMA AcceptKeeps ==
  ASSUME TransportInvariant, Accept
  PROVE  TransportInvariant'
<1>0. PICK sent \in Streams :
        stream' = sent /\ arrived' = 0 /\ fin' = FALSE /\ unread' = 0
          /\ consumed' = 0 /\ answering' = 0 /\ wire' = <<>>
  BY DEF Accept
<1>1. /\ IsStream(sent) /\ Len(sent) \in Nat
      /\ \A i \in 1 .. Len(sent) : /\ sent[i].start \in Nat /\ sent[i].end \in Nat
                                   /\ 0 < sent[i].head /\ sent[i].start < sent[i].end
      /\ (IF sent = <<>> THEN 0 ELSE sent[Len(sent)].end) \in Nat
  <2>1. IsStream(sent)
    BY TransportAssumption
  <2>2. Len(sent) \in Nat /\ \A i \in 1 .. Len(sent) : sent[i] \in RequestSpan
    BY <2>1 DEF IsStream
  <2>3. \A i \in 1 .. Len(sent) : sent[i].start < sent[i].head /\ sent[i].head <= sent[i].end
    BY <2>1 DEF IsStream
  <2>4. \A i \in 1 .. Len(sent) :
          sent[i].start \in Nat /\ sent[i].head \in Nat /\ sent[i].end \in Nat
    BY <2>2 DEF RequestSpan
  <2>5. sent # <<>> => Len(sent) \in 1 .. Len(sent)
    BY <2>1, <2>2 DEF IsStream
  <2> QED BY <2>1, <2>2, <2>3, <2>4, <2>5
<1>2. \A i : i \in DOMAIN sent <=> i \in 1 .. Len(sent)
  BY <1>1 DEF IsStream
<1>9. /\ input' = 0 /\ output' = 0 /\ arenaUsed' = FALSE /\ messageLength' = messageLength
      /\ headersReady' = FALSE /\ frameScan' = 0 /\ frameNeeded' = 0
      /\ writeArmed' = FALSE /\ appKeepAlive' = FALSE
      /\ writeBytes' = 0 /\ requestCount' = 0
      /\ budget' = 0 /\ atEntry' = 0 /\ pc' = "caller"
      /\ connections' = connections + 1 /\ connections < MaxConnections
      /\ \/ /\ state' = "READING" /\ fdOpen' = TRUE /\ interest' = "in"
            /\ lastError' = "none" /\ ret' = "none"
         \/ /\ state' = "CLOSED" /\ fdOpen' = FALSE /\ interest' = "none"
            /\ lastError' = "fail" /\ ret' = "fail"
  BY DEF Accept, Released
<1>3. TypeOK'
  <2>1. /\ StreamLength' \in Nat /\ stream' \in Streams /\ Len(stream') \in Nat
        /\ connections' \in 0 .. MaxConnections /\ messageLength' \in Nat
    <3>1. StreamLength' \in Nat
      BY <1>0, <1>1 DEF StreamLength
    <3>2. stream' \in Streams /\ Len(stream') \in Nat
      BY <1>0, <1>1
    <3>3. connections \in 0 .. MaxConnections /\ messageLength \in Nat /\ MaxConnections \in Nat
      BY TransportAssumption DEF TypeOK, TransportInvariant
    <3> QED BY <1>9, <3>1, <3>2, <3>3
  <2>2. wire' \in Seq(Mark')
    BY <1>0
  <2>3. /\ InputCapacity \in Nat /\ OutputCapacity \in Nat /\ RequestBudget \in Nat
        /\ SendSpace \in Nat
    BY TransportAssumption
  <2>4. /\ requestCount' \in 0 .. Len(stream') /\ answering' \in 0 .. Len(stream')
        /\ atEntry' \in 0 .. requestCount' /\ writeBytes' \in 0 .. output'
        /\ frameNeeded' \in 0 .. StreamLength' /\ arrived' \in 0 .. StreamLength'
        /\ consumed' + input' <= arrived'
        /\ frameScan' \in 0 .. InputCapacity /\ input' \in 0 .. InputCapacity
        /\ output' \in 0 .. OutputCapacity /\ budget' \in 0 .. RequestBudget
        /\ unread' \in 0 .. SendSpace
    BY <1>0, <1>9, <2>1, <2>3
  <2> QED BY <1>0, <1>9, <2>1, <2>2, <2>4 DEF TypeOK, States, Errors
<1>4. PointMatchesState' /\ EpollMatchesState' /\ RequestInHand' /\ ConsumedWhatWasAnswered'
  BY DEF Accept, Released, PointMatchesState, EpollMatchesState, RequestInHand,
     ConsumedWhatWasAnswered
<1>5. FramingSound'
  BY <1>0, <1>1, <1>9 DEF FramingSound, Current
<1>6. WireEndsWhereWritten' /\ ResponsesInOrder'
  BY DEF Accept, WireEndsWhereWritten, ResponsesInOrder
<1>7. NoLostWakeup'
  <2>1. ~WholeRequestBuffered'
    BY <1>0, <1>1, <1>2, <1>9 DEF WholeRequestBuffered, FrontRequest, Complete, Length
  <2> QED BY <2>1 DEF Accept, Released, NoLostWakeup, HostContract, Errors
<1>8. RefusedForCause'
  BY DEF Accept, Released, RefusedForCause
<1> QED BY <1>3, <1>4, <1>5, <1>6, <1>7, <1>8 DEF TransportInvariant

LEMMA CloseKeeps ==
  ASSUME TransportInvariant, Close
  PROVE  TransportInvariant'
<1>1. /\ state' = "CLOSED" /\ fdOpen' = FALSE /\ interest' = "none" /\ pc' = "caller"
      /\ ret' \in {"ok", "fail"}
      /\ UNCHANGED <<framing, writeArmed, appKeepAlive, writeBytes, requestCount,
                     lastError, buffers, messageLength, peer, history, locals>>
  BY DEF Close, Released, Return
<1>2. UnchangedBuffers
  BY <1>1 DEF UnchangedBuffers, buffers, peer, history
<1>3. TypeOK'
  BY <1>1, <1>2, BuffersKept DEF TypeOK, TransportInvariant, States, Errors, framing, buffers,
     peer, history, locals
<1>4. PointMatchesState' /\ EpollMatchesState' /\ RequestInHand'
  BY <1>1 DEF PointMatchesState, EpollMatchesState, RequestInHand
<1>5. /\ ConsumedWhatWasAnswered' /\ FramingSound' /\ WireEndsWhereWritten'
      /\ ResponsesInOrder'
  BY <1>2, BuffersKept DEF TransportInvariant
<1>6. NoLostWakeup' /\ RefusedForCause'
  BY <1>1 DEF NoLostWakeup, HostContract, Errors, RefusedForCause
<1> QED BY <1>3, <1>4, <1>5, <1>6 DEF TransportInvariant

(***************************************************************************)
(* handle_once                                                             *)
(***************************************************************************)

(* The sizes are numbers. *)
LEMMA Sizes ==
  /\ InputCapacity \in Nat \ {0} /\ OutputCapacity \in Nat \ {0}
  /\ RequestBudget \in Nat \ {0} /\ SendSpace \in Nat \ {0} /\ MaxConnections \in Nat \ {0}
BY TransportAssumption

LEMMA HandleOnceKeeps ==
  ASSUME TransportInvariant, HandleOnce
  PROVE  TransportInvariant'
<1>1. /\ UNCHANGED <<conn, buffers, messageLength, epoll, peer, history>>
      /\ pc = "caller" /\ state # "NONE"
      /\ \/ /\ state = "READING" /\ pc' = "frame"
            /\ budget' = RequestBudget /\ atEntry' = requestCount /\ ret' = ret
         \/ /\ state = "WRITING" /\ pc' = "write"
            /\ budget' = RequestBudget /\ atEntry' = requestCount /\ ret' = ret
         \/ /\ state \notin {"READING", "WRITING"} /\ pc' = "caller" /\ ret' = "einval"
            /\ UNCHANGED locals
  BY DEF HandleOnce, Return
<1>2. UnchangedBuffers
  BY <1>1 DEF UnchangedBuffers, conn, buffers, peer, history
<1>3. TypeOK'
  BY <1>1, <1>2, BuffersKept, Sizes DEF TypeOK, TransportInvariant, Errors, conn, framing, buffers,
     epoll, peer, history, locals
<1>4. PointMatchesState' /\ EpollMatchesState' /\ RequestInHand'
  <2>1. EpollMatchesState' /\ RequestInHand'
    BY <1>1, <1>2, BuffersKept DEF TransportInvariant, EpollMatchesState, RequestInHand, conn,
       framing, buffers, epoll, peer, history, Length, Complete
  <2>2. PointMatchesState'
    BY <1>1, Sizes DEF TransportInvariant, PointMatchesState, conn
  <2> QED BY <2>1, <2>2
<1>5. /\ ConsumedWhatWasAnswered' /\ FramingSound' /\ WireEndsWhereWritten'
      /\ ResponsesInOrder'
  BY <1>2, BuffersKept DEF TransportInvariant
<1>6. NoLostWakeup'
  BY <1>1 DEF TransportInvariant, TypeOK, States, PointMatchesState, NoLostWakeup, HostContract,
     Errors, conn
<1>7. RefusedForCause'
  BY <1>1, <1>2, BuffersKept DEF TransportInvariant, RefusedForCause, HasCause, Length, Available,
     conn, buffers, peer, history
<1> QED BY <1>3, <1>4, <1>5, <1>6, <1>7 DEF TransportInvariant

(* A step of the call that moves on within handle_once, with the buffers,   *)
(* the state and the history as they were.                                 *)
MovesOn ==
  /\ pc = "frame" /\ pc' \in {"read", "parse"}
  /\ UNCHANGED <<state, frameNeeded, writeArmed, appKeepAlive, writeBytes, requestCount,
                 lastError, buffers, messageLength, epoll, locals, ret, peer, history>>

LEMMA MovesOnKeeps ==
  ASSUME TransportInvariant, MovesOn, frameScan' \in 0 .. InputCapacity,
         headersReady' \in BOOLEAN, FramingSound',
         pc' = "parse" => headersReady', pc' = "read" => ~WholeRequestBuffered
  PROVE  TransportInvariant'
<1>1. /\ pc = "frame" /\ pc' \in {"read", "parse"}
      /\ UNCHANGED <<state, frameNeeded, writeArmed, appKeepAlive, writeBytes, requestCount,
                 lastError, input, output, arenaUsed, messageLength, fdOpen, interest,
                 budget, atEntry, ret, stream, arrived, fin, unread,
                 consumed, answering, wire, connections>>
  BY DEF MovesOn, buffers, epoll, locals, peer, history
<1>2. FrontRequest' = FrontRequest /\ Mark' = Mark /\ StreamLength' = StreamLength
  BY <1>1 DEF FrontRequest, Mark, StreamLength
<1>3. WholeRequestBuffered' = WholeRequestBuffered
  BY <1>1 DEF WholeRequestBuffered, FrontRequest, Complete, Length
<1>4. TypeOK'
  BY <1>1, <1>2 DEF TypeOK, TransportInvariant
<1>5. PointMatchesState' /\ EpollMatchesState'
  BY <1>1, <1>3 DEF TransportInvariant, PointMatchesState, EpollMatchesState
<1>6. RequestInHand'
  BY <1>1 DEF TransportInvariant, PointMatchesState, RequestInHand
<1>7. ConsumedWhatWasAnswered' /\ WireEndsWhereWritten' /\ ResponsesInOrder'
  BY <1>1 DEF TransportInvariant, ConsumedWhatWasAnswered, WireEndsWhereWritten, ResponsesInOrder,
     Current
<1>8. NoLostWakeup' /\ RefusedForCause'
  BY <1>1 DEF TransportInvariant, PointMatchesState, NoLostWakeup, HostContract, RefusedForCause
<1> QED BY <1>4, <1>5, <1>6, <1>7, <1>8 DEF TransportInvariant

(* What the scan saw belongs to the request at the front: a header end in   *)
(* sight means that its own is in sight, and a malformed byte in sight is   *)
(* its own.                                                                *)
LEMMA ScanSeesFront ==
  ASSUME TransportInvariant, ~headersReady
  PROVE  /\ HeaderEndsSeen = {} /\ Current <= Len(stream) =>
              consumed + input < stream[Current].head
         /\ HeaderEndsSeen # {} =>
              /\ Current <= Len(stream) /\ stream[Current].head <= consumed + input
              /\ Min(HeaderEndsSeen) - consumed \in 0 .. input
         /\ BadHeaderSeen => HasCause("einval")
<1>1. /\ \A i : i \in DOMAIN stream <=> i \in 1 .. Len(stream)
      /\ IsStream(stream) /\ Len(stream) \in Nat /\ Current \in Nat \ {0}
      /\ consumed \in Nat /\ frameScan \in Nat /\ input \in Nat
  BY StreamInUse, AtFront, Sizes DEF TransportInvariant, TypeOK, Current
<1>2. \A i \in 1 .. Len(stream) : stream[i].start < stream[i].head /\ stream[i].head <= stream[i].end
  BY <1>1, StreamOrder
<1>3. \A i \in 1 .. Len(stream) :
        stream[i].start \in Nat /\ stream[i].head \in Nat /\ stream[i].end \in Nat
  <2>1. \A i \in 1 .. Len(stream) : stream[i] \in RequestSpan
    BY <1>1, StreamOrder
  <2> QED BY <2>1 DEF RequestSpan
<1>4. /\ Current <= Len(stream) => consumed + frameScan < stream[Current].head /\ FrontRequest = {Current}
      /\ \A i \in 1 .. Len(stream) :
           /\ i < Current => stream[i].end <= consumed
           /\ i > Current => Current <= Len(stream) /\ stream[Current].end <= stream[i].start
  BY AtFront DEF TransportInvariant, FramingSound
<1>5. ASSUME NEW i \in 1 .. Len(stream), consumed + frameScan < stream[i].head
      PROVE  Current <= Len(stream) /\ Current <= i
  <2>1. ~(i < Current)
    BY <1>1, <1>2, <1>3, <1>4, <1>5
  <2> QED BY <1>1, <2>1
<1>6. \A h \in HeaderEndsSeen :
        /\ h \in Nat /\ consumed + frameScan < h /\ h <= consumed + input
        /\ \E i \in 1 .. Len(stream) : h = stream[i].head
  BY <1>1, <1>3 DEF HeaderEndsSeen
<1>7. Current <= Len(stream) /\ stream[Current].head <= consumed + input =>
        stream[Current].head \in HeaderEndsSeen
  BY <1>1, <1>4 DEF HeaderEndsSeen
<1>8. HeaderEndsSeen = {} /\ Current <= Len(stream) => consumed + input < stream[Current].head
  BY <1>1, <1>3, <1>7
<1>9. ASSUME HeaderEndsSeen # {}
      PROVE  /\ Current <= Len(stream) /\ stream[Current].head <= consumed + input
             /\ Min(HeaderEndsSeen) - consumed \in 0 .. input
  <2>1. Min(HeaderEndsSeen) \in HeaderEndsSeen
    <3>1. HeaderEndsSeen \subseteq Nat
      BY <1>6
    <3> QED BY <1>9, <3>1, MinIsLeast
  <2> DEFINE m == Min(HeaderEndsSeen)
  <2>2. m \in Nat /\ consumed + frameScan < m /\ m <= consumed + input
    BY <1>6, <2>1
  <2>3. PICK i \in 1 .. Len(stream) : m = stream[i].head
    BY <1>6, <2>1
  <2>4. Current <= Len(stream) /\ Current <= i
    BY <1>5, <2>2, <2>3
  <2>5. stream[Current].head <= m
    <3>1. CASE i = Current
      BY <1>3, <2>3, <3>1
    <3>2. CASE i # Current
      <4>1. i > Current /\ Current \in 1 .. Len(stream)
        BY <1>1, <2>4, <3>2
      <4>2. stream[Current].end <= stream[i].start
        BY <1>4, <4>1
      <4> QED BY <1>2, <1>3, <2>3, <4>1, <4>2
    <3> QED BY <3>1, <3>2
  <2>6. stream[Current].head \in Nat
    BY <1>1, <1>3, <2>4
  <2> QED BY <1>1, <2>2, <2>4, <2>5, <2>6
<1>10. ASSUME BadHeaderSeen
       PROVE  HasCause("einval")
  <2>1. PICK i \in 1 .. Len(stream) :
          /\ ~stream[i].wellFormed /\ stream[i].start < consumed + input
          /\ consumed + frameScan < stream[i].head
          /\ \A h \in HeaderEndsSeen : stream[i].head <= h
    BY <1>1, <1>10 DEF BadHeaderSeen
  <2>2. Current <= Len(stream) /\ Current <= i
    BY <1>5, <2>1
  <2>3. i = Current
    <3> SUFFICES ASSUME i # Current
                 PROVE  FALSE
      OBVIOUS
    <3>1. i > Current /\ Current \in 1 .. Len(stream)
      BY <1>1, <2>2
    <3>2. stream[Current].end <= stream[i].start
      BY <1>4, <3>1
    <3>3. stream[Current].head <= consumed + input
      BY <1>1, <1>2, <1>3, <2>1, <3>1, <3>2
    <3>4. stream[i].head <= stream[Current].head
      BY <1>7, <2>1, <2>2, <3>3
    <3> QED BY <1>2, <1>3, <3>1, <3>2, <3>4
  <2> QED BY <1>4, <2>1, <2>2, <2>3 DEF HasCause
<1> QED BY <1>8, <1>9, <1>10

(* Whether the request at the front is in the buffer as a whole. *)
LEMMA WholeAtFront ==
  ASSUME TransportInvariant
  PROVE  WholeRequestBuffered <=> Current <= Len(stream) /\ input >= Length(Current)
<1>1. /\ Current <= Len(stream) => FrontRequest = {Current}
      /\ Current > Len(stream) => FrontRequest = {}
      /\ Current \in Nat /\ Len(stream) \in Nat
  BY AtFront, StreamInUse DEF TransportInvariant, TypeOK, Current
<1> QED BY <1>1 DEF WholeRequestBuffered, Complete

LEMMA FrameKeeps ==
  ASSUME TransportInvariant, Frame
  PROVE  TransportInvariant'
<1>0. /\ pc = "frame" /\ input \in Nat /\ frameScan \in Nat /\ frameNeeded \in Nat
      /\ frameScan \in 0 .. InputCapacity /\ input \in 0 .. InputCapacity
      /\ headersReady \in BOOLEAN /\ messageLength \in Nat /\ consumed \in Nat
      /\ Current <= Len(stream) => /\ Length(Current) \in Nat \ {0}
                                   /\ stream[Current].head <= consumed + Length(Current)
                                   /\ stream[Current].head \in Nat
      /\ InputCapacity \in Nat
  <2>1. TypeOK /\ pc = "frame"
    BY DEF TransportInvariant, Frame
  <2>2. frameNeeded \in Nat /\ consumed \in Nat
    BY <2>1, AtFront DEF TransportInvariant, TypeOK
  <2>3. Current <= Len(stream) => stream[Current].head \in Nat
    BY AtFront DEF TransportInvariant, RequestSpan
  <2>4. Current <= Len(stream) => /\ Length(Current) \in Nat \ {0}
                                  /\ stream[Current].head <= consumed + Length(Current)
    BY AtFront DEF TransportInvariant
  <2> QED BY <2>1, <2>2, <2>3, <2>4, Sizes DEF TypeOK
<1>1. ASSUME \/ frameNeeded # 0 /\ input < frameNeeded
             \/ frameNeeded = 0 /\ ~headersReady /\ input = 0,
             Goto("read"), UNCHANGED <<conn, buffers, messageLength, epoll, peer, history>>
      PROVE  TransportInvariant'
  <2>1. ~WholeRequestBuffered
    BY <1>0, <1>1, WholeAtFront DEF TransportInvariant, FramingSound
  <2>2. MovesOn /\ pc' = "read" /\ UnchangedBuffers /\ frameScan' = frameScan
          /\ headersReady' = headersReady
    BY <1>0, <1>1 DEF MovesOn, Goto, conn, framing, UnchangedBuffers, buffers, peer, history
  <2>3. FramingSound'
    BY <2>2, BuffersKept DEF TransportInvariant
  <2> QED BY <1>0, <2>1, <2>2, <2>3, MovesOnKeeps
<1>2. ASSUME \/ frameNeeded # 0 /\ input >= frameNeeded
             \/ frameNeeded = 0 /\ headersReady,
             Goto("parse"), UNCHANGED <<conn, buffers, messageLength, epoll, peer, history>>
      PROVE  TransportInvariant'
  <2>1. headersReady
    BY <1>0, <1>2 DEF TransportInvariant, FramingSound
  <2>2. MovesOn /\ pc' = "parse" /\ UnchangedBuffers /\ frameScan' = frameScan
          /\ headersReady' = headersReady
    BY <1>0, <1>2 DEF MovesOn, Goto, conn, framing, UnchangedBuffers, buffers, peer, history
  <2>3. FramingSound'
    BY <2>2, BuffersKept DEF TransportInvariant
  <2> QED BY <1>0, <2>1, <2>2, <2>3, MovesOnKeeps
<1>3. ASSUME frameNeeded = 0, ~headersReady, input # 0, Scan
      PROVE  TransportInvariant'
  <2>1. frameScan <= input
    BY DEF TransportInvariant, FramingSound
  <2>2. ASSUME BadHeaderSeen, Fatal("einval")
        PROVE  TransportInvariant'
    <3>1. HasCause("einval")
      BY <1>3, <2>2, ScanSeesFront
    <3> QED BY <1>0, <2>2, <3>1, FatalKeeps DEF Fatal, Errors
  <2>3. ASSUME HeaderEndsSeen = {}, frameScan' = input, Goto("read"), UNCHANGED headersReady,
               UNCHANGED <<state, frameNeeded, writeArmed, appKeepAlive, writeBytes,
                    requestCount, lastError, buffers, messageLength, epoll, peer, history>>
        PROVE  TransportInvariant'
    <3>1. MovesOn /\ pc' = "read"
      BY <1>0, <2>3 DEF MovesOn, Goto
    <3>2. /\ stream' = stream /\ consumed' = consumed /\ input' = input
          /\ requestCount' = requestCount /\ frameNeeded' = frameNeeded
      BY <2>3 DEF buffers, peer, history
    <3>3. Current <= Len(stream) => consumed + input < stream[Current].head
      BY <1>3, <2>3, ScanSeesFront
    <3>4. FramingSound'
      BY <1>0, <1>3, <2>3, <3>2, <3>3 DEF FramingSound, Current
    <3>5. ~WholeRequestBuffered
      BY <1>0, <3>3, WholeAtFront
    <3> QED BY <1>0, <2>3, <3>1, <3>4, <3>5, MovesOnKeeps
  <2>4. ASSUME HeaderEndsSeen # {}, frameScan' = Min(HeaderEndsSeen) - consumed,
               headersReady' = TRUE, Goto("parse"),
               UNCHANGED <<state, frameNeeded, writeArmed, appKeepAlive, writeBytes,
                    requestCount, lastError, buffers, messageLength, epoll, peer, history>>
        PROVE  TransportInvariant'
    <3>1. MovesOn /\ pc' = "parse"
      BY <1>0, <2>4 DEF MovesOn, Goto
    <3>2. /\ stream' = stream /\ consumed' = consumed /\ input' = input
          /\ requestCount' = requestCount /\ frameNeeded' = frameNeeded
      BY <2>4 DEF buffers, peer, history
    <3>3. /\ Current <= Len(stream) /\ stream[Current].head <= consumed + input
          /\ frameScan' \in 0 .. input
      BY <1>3, <2>4, ScanSeesFront
    <3>4. FramingSound'
      BY <1>0, <1>3, <2>4, <3>2, <3>3 DEF FramingSound, Current
    <3> QED BY <1>0, <2>4, <3>1, <3>3, <3>4, MovesOnKeeps
  <2>5. ~(frameScan > input)
    BY <1>0, <2>1
  <2>6. CASE HeaderEndsSeen = {}
    BY <1>3, <2>2, <2>3, <2>5, <2>6, Zenon DEF Scan
  <2>7. CASE HeaderEndsSeen # {}
    BY <1>3, <2>2, <2>4, <2>5, <2>7, Zenon DEF Scan
  <2> QED BY <2>6, <2>7
<1> QED BY <1>1, <1>2, <1>3 DEF Frame

LEMMA ParseKeeps ==
  ASSUME TransportInvariant, Parse
  PROVE  TransportInvariant'
<1>0. /\ pc = "parse" /\ state = "READING" /\ headersReady /\ budget > 0
      /\ writeBytes = 0 /\ ~arenaUsed /\ ~writeArmed
      /\ Current <= Len(stream) /\ stream[Current].head <= consumed + input
      /\ FrontRequest = {Current} /\ Length(Current) \in Nat \ {0}
      /\ Length(Current) <= StreamLength /\ consumed \in Nat
      /\ Current \in 1 .. Len(stream) /\ StreamLength \in Nat
  <2>1. /\ pc = "parse" /\ state = "READING" /\ headersReady /\ budget > 0
        /\ Current <= Len(stream) /\ stream[Current].head <= consumed + input
        /\ writeBytes = 0 /\ ~arenaUsed /\ ~writeArmed
    BY DEF Parse, TransportInvariant, PointMatchesState, FramingSound, RequestInHand,
       EpollMatchesState
  <2>2. /\ FrontRequest = {Current} /\ Length(Current) \in Nat \ {0}
        /\ consumed + Length(Current) <= StreamLength
        /\ consumed \in Nat /\ StreamLength \in Nat /\ requestCount \in Nat
    BY <2>1, AtFront DEF TransportInvariant
  <2>3. Len(stream) \in Nat
    BY StreamInUse DEF TransportInvariant
  <2> QED BY <2>1, <2>2, <2>3 DEF Current
<1>1. ASSUME \A i \in FrontRequest : ~stream[i].wellFormed, FatalOf("einval"), messageLength' = 0
      PROVE  TransportInvariant'
  <2>1. HasCause("einval")
    BY <1>0, <1>1 DEF HasCause
  <2> QED BY <1>0, <1>1, <2>1, FatalKeeps DEF Errors
<1>2. ASSUME ~Complete(Current), frameNeeded' = Needed(Current), messageLength' = 0, Goto("read"),
             UNCHANGED <<state, headersReady, frameScan, writeArmed,
                         appKeepAlive, writeBytes, requestCount,
                         lastError, buffers, epoll, peer, history>>
      PROVE  TransportInvariant'
  <2>1. /\ pc' = "read" /\ messageLength' = 0 /\ frameNeeded' = Length(Current)
        /\ UNCHANGED <<state, headersReady, frameScan, writeArmed, appKeepAlive, writeBytes,
             requestCount, lastError, input, output, arenaUsed, fdOpen, interest, budget, atEntry,
             ret, stream, arrived, fin, unread, consumed, answering, wire, connections>>
    BY <1>2 DEF Goto, Needed, buffers, epoll, peer, history, locals
  <2>2. FrontRequest' = FrontRequest /\ Mark' = Mark /\ StreamLength' = StreamLength /\ Current' = Current
          /\ Length(Current)' = Length(Current)
    BY <2>1 DEF FrontRequest, Mark, StreamLength, Current, Length
  <2>3. TypeOK'
    BY <1>0, <2>1, <2>2 DEF TypeOK, TransportInvariant
  <2>4. ~WholeRequestBuffered'
    <3>1. WholeRequestBuffered' = WholeRequestBuffered
      BY <2>1 DEF WholeRequestBuffered, FrontRequest, Complete, Length
    <3> QED BY <1>0, <1>2, <3>1 DEF WholeRequestBuffered
  <2>5. PointMatchesState' /\ EpollMatchesState' /\ RequestInHand'
    BY <1>0, <2>1, <2>4 DEF TransportInvariant, PointMatchesState, EpollMatchesState, RequestInHand
  <2>6. ConsumedWhatWasAnswered' /\ WireEndsWhereWritten' /\ ResponsesInOrder'
    BY <2>1 DEF TransportInvariant, ConsumedWhatWasAnswered, WireEndsWhereWritten, ResponsesInOrder,
       Current
  <2>7. FramingSound'
    BY <1>0, <2>1, <2>2 DEF TransportInvariant, FramingSound
  <2>8. NoLostWakeup' /\ RefusedForCause'
    BY <1>0, <2>1 DEF NoLostWakeup, HostContract, RefusedForCause
  <2> QED BY <2>3, <2>5, <2>6, <2>7, <2>8 DEF TransportInvariant
<1>3. ASSUME Complete(Current), messageLength' = Length(Current), output' = 0,
             state' = "DISPATCHING", answering' = Current, Goto("dispatch"),
             UNCHANGED <<framing, writeArmed, appKeepAlive, writeBytes,
                         requestCount, lastError, input, arenaUsed, epoll,
                         peer, consumed, wire, connections>>
      PROVE  TransportInvariant'
  <2>1. /\ pc' = "dispatch"
        /\ UNCHANGED <<headersReady, frameScan, frameNeeded, writeArmed, appKeepAlive, writeBytes,
             requestCount, lastError, input, arenaUsed, fdOpen, interest, budget, atEntry,
             ret, stream, arrived, fin, unread, consumed, wire, connections>>
    BY <1>3 DEF Goto, framing, epoll, peer, locals
  <2>2. Mark' = Mark /\ StreamLength' = StreamLength /\ Current' = Current
          /\ Length(Current)' = Length(Current)
    BY <2>1 DEF Mark, StreamLength, Current, Length
  <2>3. TypeOK'
    BY <1>0, <1>3, <2>1, <2>2, Sizes DEF TypeOK, TransportInvariant, States
  <2>4. PointMatchesState' /\ EpollMatchesState'
    BY <1>0, <1>3, <2>1 DEF TransportInvariant, PointMatchesState, EpollMatchesState
  <2>5. RequestInHand'
    BY <1>0, <1>3, <2>1, <2>2 DEF RequestInHand, Complete
  <2>6. ConsumedWhatWasAnswered' /\ WireEndsWhereWritten' /\ ResponsesInOrder'
    BY <1>0, <2>1 DEF TransportInvariant, ConsumedWhatWasAnswered, WireEndsWhereWritten,
       ResponsesInOrder, Current
  <2>7. FramingSound'
    BY <1>0, <2>1, <2>2 DEF TransportInvariant, FramingSound
  <2>8. NoLostWakeup' /\ RefusedForCause'
    BY <1>3, <2>1 DEF NoLostWakeup, HostContract, RefusedForCause
  <2> QED BY <2>3, <2>4, <2>5, <2>6, <2>7, <2>8 DEF TransportInvariant
<1> QED BY <1>0, <1>1, <1>2, <1>3 DEF Parse

LEMMA DispatchKeeps ==
  ASSUME TransportInvariant, Dispatch
  PROVE  TransportInvariant'
<1>0. /\ pc = "dispatch" /\ state = "DISPATCHING" /\ budget > 0 /\ ~arenaUsed
      /\ writeBytes = 0 /\ ~writeArmed /\ messageLength \in Nat
  BY DEF Dispatch, TransportInvariant, TypeOK, PointMatchesState, RequestInHand, EpollMatchesState
<1>1. ASSUME Fatal("fail")
      PROVE  TransportInvariant'
  BY <1>0, <1>1, FatalKeeps DEF Fatal, Errors, HasCause
<1>2. ASSUME arenaUsed' \in BOOLEAN, output' \in 1 .. OutputCapacity,
             appKeepAlive' \in (IF stream[answering].close THEN {FALSE} ELSE BOOLEAN),
             state' = "WRITING", Goto("write"),
             UNCHANGED <<framing, writeArmed, writeBytes, requestCount, lastError,
                         input, messageLength, epoll, peer, history>>
      PROVE  TransportInvariant'
  <2>1. /\ pc' = "write" /\ appKeepAlive' \in BOOLEAN
        /\ UNCHANGED <<headersReady, frameScan, frameNeeded, writeArmed, writeBytes,
             requestCount, lastError, input, messageLength, fdOpen, interest, budget, atEntry,
             ret, stream, arrived, fin, unread, consumed, answering, wire, connections>>
    BY <1>2 DEF Goto, framing, epoll, peer, history, locals
  <2>2. Mark' = Mark /\ StreamLength' = StreamLength /\ Current' = Current
          /\ Length(Current)' = Length(Current)
    BY <2>1 DEF Mark, StreamLength, Current, Length
  <2>3. TypeOK'
    <3>1. output' \in 0 .. OutputCapacity /\ writeBytes' \in 0 .. output'
      BY <1>0, <1>2, <2>1, Sizes
    <3> QED BY <1>0, <1>2, <2>1, <2>2, <3>1 DEF TypeOK, TransportInvariant, States
  <2>4. PointMatchesState' /\ EpollMatchesState'
    BY <1>0, <1>2, <2>1 DEF TransportInvariant, PointMatchesState, EpollMatchesState
  <2>5. RequestInHand'
    <3>1. output' > 0
      BY <1>2, Sizes
    <3> QED BY <1>0, <1>2, <2>1, <2>2, <3>1 DEF TransportInvariant, RequestInHand, Complete
  <2>6. ConsumedWhatWasAnswered' /\ WireEndsWhereWritten' /\ ResponsesInOrder'
    BY <1>0, <2>1 DEF TransportInvariant, ConsumedWhatWasAnswered, WireEndsWhereWritten,
       ResponsesInOrder, Current
  <2>7. FramingSound'
    BY <1>0, <2>1, <2>2 DEF TransportInvariant, FramingSound
  <2>8. NoLostWakeup' /\ RefusedForCause'
    BY <1>2, <2>1 DEF NoLostWakeup, HostContract, RefusedForCause
  <2> QED BY <2>3, <2>4, <2>5, <2>6, <2>7, <2>8 DEF TransportInvariant
<1> QED BY <1>0, <1>1, <1>2 DEF Dispatch

LEMMA ReadKeeps ==
  ASSUME TransportInvariant, Read
  PROVE  TransportInvariant'
<1>0. /\ pc = "read" /\ state = "READING" /\ budget > 0 /\ ~WholeRequestBuffered
      /\ interest = "in" /\ input \in 0 .. InputCapacity /\ InputCapacity \in Nat \ {0}
      /\ consumed \in Nat /\ arrived \in 0 .. StreamLength /\ StreamLength \in Nat
      /\ consumed + input <= arrived /\ messageLength \in Nat
      /\ ~writeArmed /\ fdOpen
  <2>1. consumed \in Nat /\ StreamLength \in Nat
    BY AtFront DEF TransportInvariant
  <2>2. /\ pc = "read" /\ state = "READING" /\ budget > 0 /\ ~WholeRequestBuffered
        /\ interest = "in" /\ ~writeArmed /\ fdOpen
    BY DEF Read, TransportInvariant, PointMatchesState, EpollMatchesState
  <2>3. /\ input \in 0 .. InputCapacity /\ arrived \in 0 .. StreamLength
        /\ consumed + input <= arrived /\ messageLength \in Nat
    BY DEF TransportInvariant, TypeOK
  <2> QED BY <2>1, <2>2, <2>3, Sizes
<1>1. Room \in Nat /\ Available \in Nat /\ Room = InputCapacity - input
        /\ Available = arrived - (consumed + input)
  BY <1>0 DEF Room, Available
<1>2. /\ Current <= Len(stream) =>
           /\ FrontRequest = {Current} /\ Length(Current) \in Nat /\ input < Length(Current)
           /\ stream[Current].end = consumed + Length(Current)
      /\ Current > Len(stream) => FrontRequest = {} /\ consumed = StreamLength
      /\ Current <= Len(stream) \/ Current > Len(stream)
  <2>1. Current \in Nat /\ Len(stream) \in Nat
    BY AtFront, StreamInUse DEF TransportInvariant, Current
  <2>2. Current <= Len(stream) => input < Length(Current) /\ Length(Current) \in Nat
    BY <1>0, WholeAtFront, AtFront DEF TransportInvariant
  <2> QED BY <2>1, <2>2, AtFront DEF TransportInvariant
<1>3. ASSUME Room = 0
      PROVE  HasCause("enospc")
  BY <1>0, <1>1, <1>2, <1>3 DEF HasCause
<1>4. ASSUME Available = 0, fin
      PROVE  HasCause("reset")
  BY <1>0, <1>1, <1>2, <1>4 DEF HasCause
<1>5. ASSUME Room = 0, Fatal("enospc")
      PROVE  TransportInvariant'
  BY <1>0, <1>3, <1>5, FatalKeeps DEF Fatal, Errors
<1>6. ASSUME Fatal("fail")
      PROVE  TransportInvariant'
  BY <1>0, <1>6, FatalKeeps DEF Fatal, Errors, HasCause
<1>7. ASSUME Available = 0, fin, Fatal("reset")
      PROVE  TransportInvariant'
  BY <1>0, <1>4, <1>7, FatalKeeps DEF Fatal, Errors
<1>8. ASSUME Return(IF requestCount # atEntry THEN "ok" ELSE "again"),
             UNCHANGED <<conn, buffers, messageLength, epoll, peer, history>>
      PROVE  TransportInvariant'
  <2>1. /\ pc' = "caller" /\ ret' \in {"ok", "again"} /\ UnchangedBuffers
        /\ UNCHANGED <<state, headersReady, frameScan, frameNeeded, writeArmed, appKeepAlive,
             writeBytes, requestCount, lastError, input, output, arenaUsed, messageLength,
             fdOpen, interest, budget, atEntry,
             stream, arrived, fin, unread, consumed, answering, wire, connections>>
    BY <1>8 DEF Return, UnchangedBuffers, conn, framing, buffers, epoll, peer, history, locals
  <2>2. TypeOK'
    BY <2>1, BuffersKept DEF TypeOK, TransportInvariant
  <2>3. PointMatchesState' /\ EpollMatchesState' /\ RequestInHand'
    BY <1>0, <2>1 DEF TransportInvariant, PointMatchesState, EpollMatchesState, RequestInHand
  <2>4. /\ ConsumedWhatWasAnswered' /\ FramingSound' /\ WireEndsWhereWritten'
        /\ ResponsesInOrder'
    BY <2>1, BuffersKept DEF TransportInvariant
  <2>5. NoLostWakeup' /\ RefusedForCause'
    BY <1>0, <2>1, BuffersKept DEF NoLostWakeup, HostContract, Errors, RefusedForCause
  <2> QED BY <2>2, <2>3, <2>4, <2>5 DEF TransportInvariant
<1>9. ASSUME NEW k \in 1 .. Min({Room, Available}), input' = input + k, Goto("frame"),
             UNCHANGED <<conn, output, arenaUsed, messageLength, epoll, peer, history>>
      PROVE  TransportInvariant'
  <2>1. /\ pc' = "frame"
        /\ UNCHANGED <<state, headersReady, frameScan, frameNeeded, writeArmed, appKeepAlive,
             writeBytes, requestCount, lastError, output, arenaUsed, messageLength,
             fdOpen, interest, budget, atEntry, ret,
             stream, arrived, fin, unread, consumed, answering, wire, connections>>
    BY <1>9 DEF Goto, conn, framing, epoll, peer, history, locals
  <2>2. Min({Room, Available}) <= Room /\ Min({Room, Available}) <= Available
          /\ Min({Room, Available}) \in Nat
    BY <1>1, MinOfTwo
  <2>3. /\ input' \in 0 .. InputCapacity /\ consumed' + input' <= arrived'
        /\ input' >= input
    BY <1>0, <1>1, <1>9, <2>1, <2>2
  <2>4. Mark' = Mark /\ StreamLength' = StreamLength /\ Current' = Current
          /\ Length(Current)' = Length(Current)
    BY <2>1 DEF Mark, StreamLength, Current, Length
  <2>5. TypeOK'
    BY <2>1, <2>3, <2>4 DEF TypeOK, TransportInvariant
  <2>6. PointMatchesState' /\ EpollMatchesState' /\ RequestInHand'
    BY <1>0, <2>1 DEF TransportInvariant, PointMatchesState, EpollMatchesState, RequestInHand
  <2>7. ConsumedWhatWasAnswered' /\ WireEndsWhereWritten' /\ ResponsesInOrder'
    BY <2>1 DEF TransportInvariant, ConsumedWhatWasAnswered, WireEndsWhereWritten,
       ResponsesInOrder, Current
  <2>8. FramingSound'
    <3>1. frameScan \in Nat /\ (Current <= Len(stream) => stream[Current].head \in Nat)
      BY AtFront, Sizes DEF TransportInvariant, TypeOK, RequestSpan
    <3> QED BY <1>0, <2>1, <2>3, <2>4, <3>1 DEF TransportInvariant, FramingSound
  <2>9. NoLostWakeup' /\ RefusedForCause'
    BY <1>0, <2>1 DEF NoLostWakeup, HostContract, RefusedForCause
  <2> QED BY <2>5, <2>6, <2>7, <2>8, <2>9 DEF TransportInvariant
<1> QED BY <1>5, <1>6, <1>7, <1>8, <1>9 DEF Read

(* What a step at the socket finds. *)
LEMMA AtSocket ==
  ASSUME TransportInvariant, pc = "write"
  PROVE  /\ state = "WRITING" /\ budget \in 1 .. RequestBudget /\ fdOpen
         /\ output \in 1 .. OutputCapacity /\ writeBytes \in 0 .. output
         /\ answering = Current /\ Current \in 1 .. Len(stream)
         /\ Current = requestCount + 1 /\ requestCount \in Nat /\ Len(stream) \in Nat
         /\ messageLength = Length(Current) /\ messageLength \in Nat \ {0}
         /\ input \in 0 .. InputCapacity /\ input >= messageLength
         /\ interest = (IF writeArmed THEN "out" ELSE "in")
<1>1. /\ state = "WRITING" /\ budget > 0 /\ fdOpen /\ output > 0
      /\ answering = Current /\ Current <= Len(stream)
      /\ messageLength = Length(Current) /\ input >= Length(Current)
      /\ interest = (IF writeArmed THEN "out" ELSE "in")
  BY DEF TransportInvariant, PointMatchesState, EpollMatchesState, RequestInHand, Complete
<1>2. /\ budget \in 0 .. RequestBudget /\ output \in 0 .. OutputCapacity
      /\ writeBytes \in 0 .. output /\ input \in 0 .. InputCapacity
  BY DEF TransportInvariant, TypeOK
<1>3. Length(Current) \in Nat \ {0} /\ requestCount \in Nat /\ Len(stream) \in Nat
  BY <1>1, AtFront, StreamInUse DEF TransportInvariant
<1>4. RequestBudget \in Nat /\ OutputCapacity \in Nat /\ InputCapacity \in Nat
  BY Sizes
<1> QED BY <1>1, <1>2, <1>3, <1>4 DEF Current

(* What a sequence holds after others were appended to it. *)
LEMMA Appended ==
  ASSUME NEW T, NEW s \in Seq(T), NEW t \in Seq(T)
  PROVE  /\ s \o t \in Seq(T) /\ Len(s \o t) = Len(s) + Len(t)
         /\ \A i \in 1 .. Len(s) : (s \o t)[i] = s[i]
         /\ \A j \in 1 .. Len(t) : (s \o t)[Len(s) + j] = t[j]
OBVIOUS

LEMMA WriteSomeKeeps ==
  ASSUME TransportInvariant, WriteSome
  PROVE  TransportInvariant'
<1>0. PICK k \in 1 .. Min({output - writeBytes, SendSpace - unread}) :
        /\ writeBytes' = writeBytes + k /\ unread' = unread + k
        /\ wire' = wire \o [j \in 1 .. k |-> Unit(j)]
  BY DEF WriteSome
<1>1. /\ pc = "write" /\ pc' = "write"
      /\ UNCHANGED <<state, headersReady, frameScan, frameNeeded, writeArmed, appKeepAlive,
           requestCount, lastError, input, output, arenaUsed, messageLength,
           fdOpen, interest, budget, atEntry, ret,
           stream, arrived, fin, consumed, answering, connections>>
  BY DEF WriteSome, Goto, framing, buffers, epoll, locals
<1>2. /\ state = "WRITING" /\ budget \in 1 .. RequestBudget
      /\ output \in 1 .. OutputCapacity /\ writeBytes \in 0 .. output
      /\ answering = Current /\ Current \in 1 .. Len(stream) /\ OutputCapacity \in Nat
      /\ Current = requestCount + 1 /\ requestCount \in Nat /\ Len(stream) \in Nat
      /\ unread \in 0 .. SendSpace /\ SendSpace \in Nat /\ writeBytes < output
  BY <1>1, AtSocket, Sizes DEF TransportInvariant, TypeOK, WriteSome
<1>3. k \in Nat \ {0} /\ writeBytes + k <= output /\ unread + k <= SendSpace
  <2>1. /\ Min({output - writeBytes, SendSpace - unread}) \in Nat
        /\ Min({output - writeBytes, SendSpace - unread}) <= output - writeBytes
        /\ Min({output - writeBytes, SendSpace - unread}) <= SendSpace - unread
    BY <1>2, MinOfTwo
  <2> QED BY <1>2, <2>1
<1> DEFINE n == Len(wire)
           part == [j \in 1 .. k |-> Unit(j)]
<1>4. \A j \in 1 .. k : /\ Unit(j).request = Current /\ Unit(j).unit = writeBytes + j
                        /\ Unit(j).last <=> writeBytes + j = output
                        /\ Unit(j) \in Mark
  <2> TAKE j \in 1 .. k
  <2>1. Unit(j) = [request |-> Current, unit |-> writeBytes + j, last |-> writeBytes + j = output]
    BY <1>2 DEF Unit
  <2>2. Current \in DOMAIN stream
    BY <1>2, StreamInUse DEF TransportInvariant
  <2>3. writeBytes + j \in 1 .. OutputCapacity
    BY <1>2, <1>3
  <2>4. Unit(j) \in Mark
    BY <1>2, <2>1, <2>2, <2>3 DEF Mark
  <2>5. Unit(j).last = (writeBytes + j = output)
    BY <2>1
  <2>6. Unit(j).request = Current /\ Unit(j).unit = writeBytes + j
    BY <2>1
  <2> QED BY <2>4, <2>5, <2>6, Zenon
<1>5. /\ wire \in Seq(Mark) /\ n \in Nat
      /\ part \in Seq(Mark) /\ Len(part) = k
      /\ wire' = wire \o part
  <2>1. wire \in Seq(Mark)
    BY DEF TransportInvariant, TypeOK
  <2>2. part \in [1 .. k -> Mark]
    BY <1>4
  <2>3. part \in Seq(Mark) /\ Len(part) = k
    BY <1>3, <2>2
  <2> QED BY <1>0, <2>1, <2>3
<1>6. /\ wire' \in Seq(Mark) /\ Len(wire') = n + k
      /\ \A i : i \in DOMAIN wire' <=> i \in 1 .. n + k
      /\ \A i : i \in DOMAIN wire <=> i \in 1 .. n
      /\ \A i \in 1 .. n : wire'[i] = wire[i]
      /\ \A j \in 1 .. k : wire'[n + j] = Unit(j)
  <2> HIDE DEF part
  <2>1. /\ wire' \in Seq(Mark) /\ Len(wire') = n + k
        /\ \A i \in 1 .. n : wire'[i] = wire[i]
        /\ \A j \in 1 .. k : wire'[n + j] = part[j]
    BY <1>3, <1>5, Appended
  <2>2. \A j \in 1 .. k : part[j] = Unit(j)
    BY DEF part
  <2>3. /\ \A i : i \in DOMAIN wire' <=> i \in 1 .. n + k
        /\ \A i : i \in DOMAIN wire <=> i \in 1 .. n
    BY <1>5, <2>1
  <2> QED BY <2>1, <2>2, <2>3
<1> HIDE DEF part, n
<1>7. Mark' = Mark /\ StreamLength' = StreamLength /\ Current' = Current
        /\ Length(Current)' = Length(Current)
  BY <1>1 DEF Mark, StreamLength, Current, Length
<1>8. TypeOK'
  <2>1. writeBytes' \in 0 .. output' /\ unread' \in 0 .. SendSpace
    BY <1>0, <1>1, <1>2, <1>3
  <2> QED BY <1>1, <1>6, <1>7, <2>1 DEF TypeOK, TransportInvariant
<1>9. PointMatchesState' /\ EpollMatchesState' /\ RequestInHand'
  <2>1. PointMatchesState' /\ EpollMatchesState'
    BY <1>1, <1>2 DEF TransportInvariant, PointMatchesState, EpollMatchesState
  <2> QED BY <1>1, <1>2, <1>7, <2>1 DEF TransportInvariant, RequestInHand, Complete
<1>10. ConsumedWhatWasAnswered' /\ FramingSound'
  BY <1>1, <1>7 DEF TransportInvariant, ConsumedWhatWasAnswered, FramingSound
<1>11. WireEndsWhereWritten'
  <2>1. writeBytes' # 0 /\ wire' # <<>> /\ wire'[Len(wire')] = Unit(k) /\ k \in 1 .. k
    <3>1. Len(wire') # 0 /\ k \in 1 .. k /\ wire'[n + k] = Unit(k)
      BY <1>3, <1>5, <1>6
    <3>2. writeBytes' # 0
      BY <1>0, <1>2, <1>3
    <3> QED BY <1>6, <3>1, <3>2
  <2>2. /\ wire'[Len(wire')].request = Current' /\ wire'[Len(wire')].unit = writeBytes'
        /\ wire'[Len(wire')].last <=> writeBytes' = output'
    BY <1>0, <1>1, <1>4, <1>7, <2>1
  <2> QED BY <2>1, <2>2 DEF WireEndsWhereWritten
<1>12. ResponsesInOrder'
  <2> SUFFICES ASSUME NEW i \in 1 .. n + k
               PROVE  IF i = 1 \/ wire'[i - 1].last
                      THEN /\ wire'[i].unit = 1
                           /\ wire'[i].request = (IF i = 1 THEN 1 ELSE wire'[i - 1].request + 1)
                      ELSE /\ wire'[i].unit = wire'[i - 1].unit + 1
                           /\ wire'[i].request = wire'[i - 1].request
    BY <1>6 DEF ResponsesInOrder
  <2>1. CASE i \in 1 .. n
    <3>1. IF i = 1 \/ wire[i - 1].last
          THEN /\ wire[i].unit = 1
               /\ wire[i].request = (IF i = 1 THEN 1 ELSE wire[i - 1].request + 1)
          ELSE /\ wire[i].unit = wire[i - 1].unit + 1
               /\ wire[i].request = wire[i - 1].request
      BY <1>6, <2>1 DEF TransportInvariant, ResponsesInOrder
    <3>2. wire'[i] = wire[i] /\ (i # 1 => wire'[i - 1] = wire[i - 1])
      BY <1>5, <1>6, <2>1
    <3> QED BY <3>1, <3>2
  <2>2. CASE i = n + 1
    <3>1. wire'[i] = Unit(1) /\ Unit(1).request = Current /\ Unit(1).unit = writeBytes + 1
      BY <1>3, <1>4, <1>6, <2>2
    <3>2. CASE n = 0
      <4>1. wire = <<>>
        BY <1>5, <3>2 DEF n
      <4>2. writeBytes = 0 /\ requestCount = 0
        BY <4>1 DEF TransportInvariant, WireEndsWhereWritten
      <4> QED BY <1>2, <2>2, <3>1, <3>2, <4>2
    <3>3. CASE n # 0
      <4>1. wire # <<>> /\ wire'[i - 1] = wire[Len(wire)] /\ i # 1
        BY <1>5, <1>6, <2>2, <3>3 DEF n
      <4>2. CASE writeBytes = 0
        <5>1. wire[Len(wire)].last /\ wire[Len(wire)].request = requestCount
          BY <4>1, <4>2 DEF TransportInvariant, WireEndsWhereWritten
        <5> QED BY <1>2, <3>1, <4>1, <4>2, <5>1
      <4>3. CASE writeBytes # 0
        <5>1. /\ ~wire[Len(wire)].last /\ wire[Len(wire)].request = Current
              /\ wire[Len(wire)].unit = writeBytes
          BY <1>2, <4>1, <4>3 DEF TransportInvariant, WireEndsWhereWritten
        <5> QED BY <1>2, <3>1, <4>1, <4>3, <5>1
      <4> QED BY <4>2, <4>3
    <3> QED BY <3>2, <3>3
  <2>3. CASE i \in n + 2 .. n + k
    <3>1. PICK j \in 2 .. k : i = n + j
      <4>1. i - n \in 2 .. k /\ i = n + (i - n)
        BY <1>3, <1>5, <2>3
      <4> QED BY <4>1
    <3>2. /\ j \in 1 .. k /\ j - 1 \in 1 .. k /\ i - 1 = n + (j - 1) /\ i # 1
          /\ writeBytes + (j - 1) # output
      BY <1>2, <1>3, <1>5, <3>1
    <3>3. wire'[i] = Unit(j) /\ wire'[i - 1] = Unit(j - 1)
      BY <1>6, <3>1, <3>2
    <3>4. /\ ~wire'[i - 1].last
          /\ wire'[i].request = Current /\ wire'[i - 1].request = Current
          /\ wire'[i].unit = writeBytes + j /\ wire'[i - 1].unit = writeBytes + (j - 1)
      BY <1>4, <3>2, <3>3
    <3>5. wire'[i].unit = wire'[i - 1].unit + 1
      BY <1>2, <3>1, <3>4
    <3> QED BY <3>2, <3>4, <3>5
  <2>4. i \in 1 .. n \/ i = n + 1 \/ i \in n + 2 .. n + k
    BY <1>3, <1>5
  <2> QED BY <2>1, <2>2, <2>3, <2>4
<1>13. NoLostWakeup' /\ RefusedForCause'
  BY <1>1, <1>2 DEF NoLostWakeup, HostContract, RefusedForCause
<1> QED BY <1>8, <1>9, <1>10, <1>11, <1>12, <1>13 DEF TransportInvariant

LEMMA WriteWaitsKeeps ==
  ASSUME TransportInvariant, WriteWaits
  PROVE  TransportInvariant'
<1>1. /\ pc = "write" /\ pc' = "caller" /\ ret' = "again" /\ writeBytes < output
      /\ interest' = "out" /\ writeArmed' = TRUE /\ UnchangedBuffers
      /\ UNCHANGED <<state, headersReady, frameScan, frameNeeded, appKeepAlive, writeBytes,
           requestCount, lastError, input, output, arenaUsed, messageLength, fdOpen, budget,
           atEntry, stream, arrived, fin, unread, consumed, answering, wire, connections>>
  <2>1. writeArmed \in BOOLEAN /\ (writeArmed => interest = "out")
    BY AtSocket DEF WriteWaits, TransportInvariant, TypeOK
  <2> QED BY <2>1 DEF WriteWaits, Armed, Return, UnchangedBuffers, framing, buffers, peer, history,
         locals
<1>2. state = "WRITING" /\ fdOpen
  BY <1>1, AtSocket
<1>3. TypeOK'
  BY <1>1, BuffersKept DEF TypeOK, TransportInvariant
<1>4. PointMatchesState' /\ EpollMatchesState'
  BY <1>1, <1>2 DEF PointMatchesState, EpollMatchesState
<1>5. RequestInHand'
  BY <1>1, <1>2, BuffersKept DEF TransportInvariant, RequestInHand, Length, Complete
<1>6. /\ ConsumedWhatWasAnswered' /\ FramingSound' /\ WireEndsWhereWritten'
      /\ ResponsesInOrder'
  BY <1>1, BuffersKept DEF TransportInvariant
<1>7. NoLostWakeup' /\ RefusedForCause'
  BY <1>1, <1>2 DEF NoLostWakeup, HostContract, Errors, RefusedForCause
<1> QED BY <1>3, <1>4, <1>5, <1>6, <1>7 DEF TransportInvariant

LEMMA WriteFailsKeeps ==
  ASSUME TransportInvariant, WriteFails
  PROVE  TransportInvariant'
BY FatalKeeps DEF WriteFails, Fatal, Errors, HasCause, TransportInvariant, TypeOK

(* A response has been written as a whole: the request it answers is        *)
(* consumed, and the framing begins at the next.                            *)
LEMMA RequestCompleteKeeps ==
  ASSUME TransportInvariant, pc = "write", writeBytes = output, RequestComplete
  PROVE  /\ ConsumedWhatWasAnswered' /\ FramingSound' /\ WireEndsWhereWritten'
         /\ ResponsesInOrder' /\ Mark' = Mark /\ StreamLength' = StreamLength
         /\ consumed' + input' <= arrived' /\ input' \in 0 .. InputCapacity
         /\ requestCount' \in 0 .. Len(stream') /\ requestCount <= requestCount'
         /\ writeBytes' = 0 /\ output' = 0 /\ arenaUsed' = FALSE
         /\ headersReady' = FALSE /\ frameScan' = 0 /\ frameNeeded' = 0
         /\ writeArmed' = FALSE /\ appKeepAlive' = FALSE
<1>1. /\ consumed' = consumed + messageLength /\ input' = input - messageLength
      /\ output' = 0 /\ arenaUsed' = FALSE /\ writeBytes' = 0
      /\ headersReady' = FALSE /\ frameScan' = 0 /\ frameNeeded' = 0
      /\ writeArmed' = FALSE /\ appKeepAlive' = FALSE /\ requestCount' = requestCount + 1
      /\ UNCHANGED <<messageLength, stream, arrived, fin, unread, answering, wire, connections>>
  BY DEF RequestComplete, ResetFraming, ResetWritten, peer
<1>2. /\ answering = Current /\ Current \in 1 .. Len(stream) /\ Current = requestCount + 1
      /\ requestCount \in Nat /\ Len(stream) \in Nat
      /\ messageLength = Length(Current) /\ messageLength \in Nat \ {0}
      /\ input \in 0 .. InputCapacity /\ input >= messageLength /\ output > 0
  BY AtSocket, Sizes
<1>3. consumed \in Nat /\ stream[Current].end = consumed + Length(Current)
  BY <1>2, AtFront DEF TransportInvariant
<1>4. consumed' = stream'[requestCount'].end /\ requestCount' # 0 /\ requestCount' = Current
  BY <1>1, <1>2, <1>3
<1>5. ConsumedWhatWasAnswered'
  BY <1>4 DEF ConsumedWhatWasAnswered
<1>6. FramingSound'
  <2>1. input' \in Nat
    BY <1>1, <1>2, Sizes
  <2>2. ASSUME Current + 1 <= Len(stream)
        PROVE  stream[Current].end < stream[Current + 1].head
    <3>1. /\ \A i \in 1 .. Len(stream) : stream[i] \in RequestSpan /\ stream[i].start < stream[i].head
          /\ \A i, j \in 1 .. Len(stream) : i < j => stream[i].end <= stream[j].start
      BY StreamInUse, StreamOrder DEF TransportInvariant
    <3>2. Current \in 1 .. Len(stream) /\ Current + 1 \in 1 .. Len(stream) /\ Current < Current + 1
      BY <1>2, <2>2
    <3>3. /\ stream[Current].end \in Nat /\ stream[Current + 1].start \in Nat
          /\ stream[Current + 1].head \in Nat
      BY <3>1, <3>2 DEF RequestSpan
    <3>4. /\ stream[Current].end <= stream[Current + 1].start
          /\ stream[Current + 1].start < stream[Current + 1].head
      BY <3>1, <3>2
    <3> QED BY <3>3, <3>4
  <2>3. Current' = Current + 1
    BY <1>4 DEF Current
  <2>4. consumed' + frameScan' = stream[Current].end
    BY <1>1, <1>2, <1>3
  <2> QED BY <1>1, <2>1, <2>2, <2>3, <2>4 DEF FramingSound
<1>7. WireEndsWhereWritten'
  <2>1. /\ wire # <<>> /\ wire[Len(wire)].request = Current
        /\ wire[Len(wire)].last
    BY <1>2, AtSocket DEF TransportInvariant, WireEndsWhereWritten
  <2> QED BY <1>1, <1>4, <2>1 DEF WireEndsWhereWritten
<1>8. ResponsesInOrder' /\ Mark' = Mark /\ StreamLength' = StreamLength
  BY <1>1 DEF TransportInvariant, ResponsesInOrder, Mark, StreamLength
<1>9. consumed' + input' <= arrived' /\ input' \in 0 .. InputCapacity
  <2>1. consumed + input <= arrived /\ InputCapacity \in Nat /\ arrived \in Nat
    BY AtFront, Sizes DEF TransportInvariant, TypeOK
  <2> QED BY <1>1, <1>2, <1>3, <2>1
<1>10. requestCount' \in 0 .. Len(stream') /\ requestCount <= requestCount'
  BY <1>1, <1>2
<1> QED BY <1>1, <1>5, <1>6, <1>7, <1>8, <1>9, <1>10

LEMMA CloseAfterResponseKeeps ==
  ASSUME TransportInvariant, CloseAfterResponse
  PROVE  TransportInvariant'
<1>1. /\ pc = "write" /\ pc' = "caller" /\ writeBytes = output /\ RequestComplete
      /\ state' = "CLOSED" /\ fdOpen' = FALSE /\ interest' = "none" /\ ret' \in {"ok", "fail"}
      /\ UNCHANGED <<lastError, messageLength, budget, atEntry, stream, arrived, fin, unread,
                     answering, wire, connections>>
  BY DEF CloseAfterResponse, Released, Return, RequestComplete, peer, locals
<1>2. /\ ConsumedWhatWasAnswered' /\ FramingSound' /\ WireEndsWhereWritten'
      /\ ResponsesInOrder' /\ Mark' = Mark /\ StreamLength' = StreamLength
      /\ consumed' + input' <= arrived' /\ input' \in 0 .. InputCapacity
      /\ requestCount' \in 0 .. Len(stream') /\ requestCount <= requestCount'
      /\ writeBytes' = 0 /\ output' = 0 /\ arenaUsed' = FALSE
      /\ headersReady' = FALSE /\ frameScan' = 0 /\ frameNeeded' = 0
      /\ writeArmed' = FALSE /\ appKeepAlive' = FALSE
  BY <1>1, RequestCompleteKeeps
<1>3. TypeOK'
  <2>1. /\ frameScan' \in 0 .. InputCapacity /\ frameNeeded' \in 0 .. StreamLength'
        /\ output' \in 0 .. OutputCapacity /\ writeBytes' \in 0 .. output'
        /\ atEntry' \in 0 .. requestCount'
    <3>1. StreamLength \in Nat /\ requestCount \in Nat /\ requestCount' \in Nat
            /\ atEntry \in 0 .. requestCount
      BY <1>1, <1>2, AtFront DEF TransportInvariant, TypeOK, RequestComplete
    <3> QED BY <1>1, <1>2, <3>1, Sizes
  <2> QED BY <1>1, <1>2, <2>1 DEF TypeOK, TransportInvariant, States, Errors
<1>4. PointMatchesState' /\ EpollMatchesState' /\ RequestInHand'
  BY <1>1 DEF PointMatchesState, EpollMatchesState, RequestInHand
<1>5. NoLostWakeup' /\ RefusedForCause'
  BY <1>1 DEF NoLostWakeup, HostContract, Errors, RefusedForCause
<1> QED BY <1>2, <1>3, <1>4, <1>5 DEF TransportInvariant

LEMMA KeepAliveKeeps ==
  ASSUME TransportInvariant, KeepAlive
  PROVE  TransportInvariant'
<1>0. /\ fdOpen /\ budget \in 1 .. RequestBudget /\ RequestBudget \in Nat
      /\ interest = (IF writeArmed THEN "out" ELSE "in")
  BY AtSocket, Sizes DEF KeepAlive
<1>1. /\ pc = "write" /\ writeBytes = output /\ RequestComplete
      /\ UNCHANGED <<messageLength, fdOpen, atEntry, stream, arrived, fin, unread,
                     answering, wire, connections>>
      /\ \/ /\ state' = "CLOSING" /\ lastError' = "fail" /\ pc' = "caller" /\ ret' = "fail"
            /\ UNCHANGED <<interest, budget>>
         \/ /\ state' = "READING" /\ lastError' = lastError /\ interest' = "in"
            /\ budget' \in 0 .. RequestBudget
            /\ \/ pc' = "caller" /\ ret' = "more"
               \/ pc' = "frame" /\ ret' = ret /\ budget' > 0
  <2>1. /\ pc = "write" /\ writeBytes = output /\ RequestComplete
        /\ UNCHANGED <<messageLength, fdOpen, atEntry, stream, arrived, fin, unread,
                       answering, wire, connections>>
    BY DEF KeepAlive, Return, RequestComplete, peer, locals, epoll
  <2>2. CASE state' = "CLOSING" /\ lastError' = "fail" /\ Return("fail") /\ UNCHANGED epoll
    BY <2>1, <2>2 DEF Return, locals, epoll
  <2>3. CASE /\ state' = "READING" /\ UNCHANGED <<lastError, fdOpen, atEntry>>
             /\ interest' = IF writeArmed THEN Rearmed ELSE interest
             /\ budget' = budget - 1
             /\ IF budget = 1 THEN pc' = "caller" /\ ret' = "more"
                              ELSE pc' = "frame" /\ UNCHANGED ret
    <3>1. interest' = "in"
      BY <1>0, <2>3 DEF Rearmed
    <3>2. budget' \in 0 .. RequestBudget /\ (budget # 1 => budget' > 0)
      BY <1>0, <2>3
    <3> QED BY <2>1, <2>3, <3>1, <3>2
  <2> QED BY <2>2, <2>3 DEF KeepAlive
<1>2. /\ ConsumedWhatWasAnswered' /\ FramingSound' /\ WireEndsWhereWritten'
      /\ ResponsesInOrder' /\ Mark' = Mark /\ StreamLength' = StreamLength
      /\ consumed' + input' <= arrived' /\ input' \in 0 .. InputCapacity
      /\ requestCount' \in 0 .. Len(stream') /\ requestCount <= requestCount'
      /\ writeBytes' = 0 /\ output' = 0 /\ arenaUsed' = FALSE
      /\ headersReady' = FALSE /\ frameScan' = 0 /\ frameNeeded' = 0
      /\ writeArmed' = FALSE /\ appKeepAlive' = FALSE
  BY <1>1, RequestCompleteKeeps
<1>3. TypeOK'
  <2>1. /\ frameScan' \in 0 .. InputCapacity /\ frameNeeded' \in 0 .. StreamLength'
        /\ output' \in 0 .. OutputCapacity /\ writeBytes' \in 0 .. output'
        /\ atEntry' \in 0 .. requestCount'
    <3>1. StreamLength \in Nat /\ requestCount \in Nat /\ requestCount' \in Nat
            /\ atEntry \in 0 .. requestCount
      BY <1>1, <1>2, AtFront DEF TransportInvariant, TypeOK, RequestComplete
    <3> QED BY <1>1, <1>2, <3>1, Sizes
  <2> QED BY <1>0, <1>1, <1>2, <2>1 DEF TypeOK, TransportInvariant, States, Errors
<1>4. PointMatchesState' /\ EpollMatchesState' /\ RequestInHand'
  BY <1>0, <1>1, <1>2 DEF PointMatchesState, EpollMatchesState, RequestInHand
<1>5. NoLostWakeup'
  BY <1>1 DEF NoLostWakeup, HostContract, Errors
<1>6. RefusedForCause'
  BY <1>1 DEF RefusedForCause, HasCause
<1> QED BY <1>2, <1>3, <1>4, <1>5, <1>6 DEF TransportInvariant

(***************************************************************************)
(* The peer                                                                *)
(***************************************************************************)
LEMMA PeerKeeps ==
  ASSUME TransportInvariant,
         \/ Send \/ Finish \/ Receive
  PROVE  TransportInvariant'
<1>1. /\ UnchangedBuffers
      /\ UNCHANGED <<state, headersReady, frameScan, frameNeeded, writeArmed, appKeepAlive,
           writeBytes, requestCount, lastError, input, output, arenaUsed, messageLength,
           fdOpen, interest, pc, budget, atEntry, ret, stream,
           consumed, answering, wire, connections>>
  BY DEF Send, Finish, Receive, UnchangedBuffers, conn, framing, buffers, epoll, locals, history
<1>2. /\ fin' \in BOOLEAN /\ arrived' \in 0 .. StreamLength /\ unread' \in 0 .. SendSpace
      /\ consumed + input <= arrived'
      /\ \/ ~fin
         \/ fin' = fin /\ arrived' = arrived
  <2>1. /\ fin \in BOOLEAN /\ arrived \in 0 .. StreamLength /\ unread \in 0 .. SendSpace
        /\ consumed + input <= arrived /\ input \in Nat
        /\ consumed \in Nat /\ StreamLength \in Nat /\ SendSpace \in Nat
    BY AtFront, Sizes DEF TransportInvariant, TypeOK
  <2>2. CASE Send
    BY <2>1, <2>2 DEF Send
  <2>3. CASE Finish
    BY <2>1, <2>3 DEF Finish
  <2>4. CASE Receive
    BY <2>1, <2>4 DEF Receive
  <2> QED BY <2>2, <2>3, <2>4
<1>3. TypeOK'
  BY <1>1, <1>2, BuffersKept DEF TypeOK, TransportInvariant
<1>4. PointMatchesState' /\ EpollMatchesState' /\ RequestInHand'
  <2>1. RequestInHand'
    BY <1>1, BuffersKept DEF TransportInvariant, RequestInHand, Length, Complete
  <2>2. PointMatchesState' /\ EpollMatchesState'
    BY <1>1, BuffersKept DEF TransportInvariant, PointMatchesState, EpollMatchesState
  <2> QED BY <2>1, <2>2
<1>5. /\ ConsumedWhatWasAnswered' /\ FramingSound' /\ WireEndsWhereWritten'
      /\ ResponsesInOrder'
  BY <1>1, BuffersKept DEF TransportInvariant
<1>6. NoLostWakeup'
  BY <1>1, BuffersKept DEF TransportInvariant, NoLostWakeup, HostContract
<1>7. RefusedForCause'
  BY <1>1, <1>2, BuffersKept DEF TransportInvariant, RefusedForCause, HasCause, Length, Available
<1> QED BY <1>3, <1>4, <1>5, <1>6, <1>7 DEF TransportInvariant

(***************************************************************************)
(* The theorems                                                            *)
(***************************************************************************)
LEMMA InitEstablishes ==
  ASSUME Init
  PROVE  TransportInvariant
<1>1. /\ Len(<<>>) = 0 /\ StreamLength = 0 /\ wire \in Seq(Mark)
      /\ FrontRequest = {} /\ ~WholeRequestBuffered
  BY DEF Init, StreamLength, FrontRequest, WholeRequestBuffered
<1>2. TypeOK
  <2>1. /\ frameScan \in 0 .. InputCapacity /\ frameNeeded \in 0 .. StreamLength
        /\ input \in 0 .. InputCapacity /\ output \in 0 .. OutputCapacity
        /\ writeBytes \in 0 .. output /\ requestCount \in 0 .. Len(stream)
        /\ budget \in 0 .. RequestBudget /\ atEntry \in 0 .. requestCount
        /\ arrived \in 0 .. StreamLength /\ unread \in 0 .. SendSpace
        /\ consumed + input <= arrived /\ answering \in 0 .. Len(stream)
        /\ connections \in 0 .. MaxConnections /\ messageLength \in Nat
    BY <1>1, Sizes DEF Init
  <2>2. /\ state \in States /\ lastError \in Errors \cup {"none"}
        /\ {headersReady, writeArmed, appKeepAlive, arenaUsed, fdOpen, fin} \subseteq BOOLEAN
        /\ interest \in {"none", "in", "out"}
        /\ pc \in {"caller", "frame", "parse", "dispatch", "read", "write"}
        /\ ret \in Errors \cup {"none", "ok", "more", "again"}
        /\ stream \in Streams \cup {<<>>}
    BY DEF Init, States, Errors
  <2> QED BY <1>1, <2>1, <2>2 DEF TypeOK
<1>3. /\ PointMatchesState /\ EpollMatchesState /\ RequestInHand
      /\ ConsumedWhatWasAnswered /\ WireEndsWhereWritten /\ ResponsesInOrder
  BY DEF Init, PointMatchesState, EpollMatchesState, RequestInHand, ConsumedWhatWasAnswered,
     WireEndsWhereWritten, ResponsesInOrder
<1>4. FramingSound
  BY <1>1 DEF Init, FramingSound, Current
<1>5. NoLostWakeup /\ RefusedForCause
  BY DEF Init, NoLostWakeup, HostContract, Errors, RefusedForCause
<1> QED BY <1>2, <1>3, <1>4, <1>5 DEF TransportInvariant

LEMMA StutterKeeps ==
  ASSUME TransportInvariant, UNCHANGED vars
  PROVE  TransportInvariant'
<1>1. /\ UnchangedBuffers
      /\ UNCHANGED <<state, headersReady, frameScan, frameNeeded, writeArmed, appKeepAlive,
           writeBytes, requestCount, lastError, input, output, arenaUsed, messageLength,
           fdOpen, interest, pc, budget, atEntry, ret, stream, arrived, fin, unread,
           consumed, answering, wire, connections>>
  BY DEF vars, UnchangedBuffers, conn, framing, buffers, epoll, locals, peer, history
<1>2. TypeOK'
  BY <1>1, BuffersKept DEF TypeOK, TransportInvariant
<1>3. PointMatchesState' /\ EpollMatchesState'
  BY <1>1, BuffersKept DEF TransportInvariant, PointMatchesState, EpollMatchesState
<1>4. RequestInHand'
  BY <1>1, BuffersKept DEF TransportInvariant, RequestInHand, Length, Complete
<1>5. /\ ConsumedWhatWasAnswered' /\ FramingSound' /\ WireEndsWhereWritten'
      /\ ResponsesInOrder'
  BY <1>1, BuffersKept DEF TransportInvariant
<1>6. NoLostWakeup'
  BY <1>1, BuffersKept DEF TransportInvariant, NoLostWakeup, HostContract
<1>7. RefusedForCause'
  BY <1>1, BuffersKept DEF TransportInvariant, RefusedForCause, HasCause, Length, Available
<1> QED BY <1>2, <1>3, <1>4, <1>5, <1>6, <1>7 DEF TransportInvariant

(* The inductive invariant: the buffer begins where the next request does,  *)
(* the framing says only what is known of that request, the wire ends where *)
(* the connection says, and the call in progress fits the state.            *)
THEOREM InvariantHolds == Spec => []TransportInvariant
<1>1. Init => TransportInvariant
  BY InitEstablishes
<1>2. ASSUME TransportInvariant, [Next]_vars
      PROVE  TransportInvariant'
  <2>1. CASE Accept
    BY <1>2, <2>1, AcceptKeeps
  <2>2. CASE Close
    BY <1>2, <2>2, CloseKeeps
  <2>3. CASE HandleOnce
    BY <1>2, <2>3, HandleOnceKeeps
  <2>4. CASE Steps
    BY <1>2, <2>4, FrameKeeps, ParseKeeps, DispatchKeeps, ReadKeeps, WriteSomeKeeps,
       WriteWaitsKeeps, WriteFailsKeeps, CloseAfterResponseKeeps, KeepAliveKeeps DEF Steps
  <2>5. CASE Send \/ Finish \/ Receive
    BY <1>2, <2>5, PeerKeeps
  <2>6. CASE UNCHANGED vars
    BY <1>2, <2>6, StutterKeeps
  <2> QED BY <1>2, <2>1, <2>2, <2>3, <2>4, <2>5, <2>6 DEF Next
<1> QED BY <1>1, <1>2, PTL DEF Spec

(* The wire carries whole responses in the order of the requests, for every *)
(* stream, every size of the buffers and the socket, however the writes of  *)
(* application_transport_handle_once were cut.                              *)
THEOREM ResponsesTheorem == Spec => []ResponsesInOrder
<1>1. TransportInvariant => ResponsesInOrder
  BY DEF TransportInvariant
<1> QED BY <1>1, InvariantHolds, PTL

(* Between two calls no connection waits for an event that does not come,   *)
(* and what the last call returned fits the state it left.                  *)
THEOREM WakeupTheorem == Spec => []NoLostWakeup
<1>1. TransportInvariant => NoLostWakeup
  BY DEF TransportInvariant
<1> QED BY <1>1, InvariantHolds, PTL

(* A connection that no system call or callback failed is given up only for *)
(* what the peer sent: a malformed request, one larger than the buffer, or  *)
(* one it did not send as a whole.                                          *)
THEOREM RefusalTheorem == Spec => []RefusedForCause
<1>1. TransportInvariant => RefusedForCause
  BY DEF TransportInvariant
<1> QED BY <1>1, InvariantHolds, PTL

(***************************************************************************)
(* The exchange                                                            *)
(***************************************************************************)

(* The requests that have arrived as a whole, and how many they are. *)
Arrived == {i \in DOMAIN stream : stream[i].end <= arrived}

InUse == state \in {"READING", "DISPATCHING", "WRITING"}
Busy == state \in {"DISPATCHING", "WRITING"}

(* The steps of the exchange, said of the connection. *)
LEMMA ExchangeStutters ==
  ASSUME UNCHANGED <<InUse, Cardinality(Arrived), requestCount, Busy>>
  PROVE  UNCHANGED Exchange!vars
BY DEF Exchange!vars, InUse, Arrived, Busy

LEMMA ExchangeOpens ==
  ASSUME ~InUse, Cardinality(Arrived)' = 0, requestCount' = 0, ~Busy'
  PROVE  Exchange!Open
BY DEF Exchange!Open, InUse, Arrived, Busy

LEMMA ExchangeAsks ==
  ASSUME Cardinality(Arrived)' = Cardinality(Arrived) + 1,
         UNCHANGED <<InUse, requestCount, Busy>>
  PROVE  Exchange!Ask
BY DEF Exchange!Ask, InUse, Arrived, Busy

LEMMA ExchangeBegins ==
  ASSUME InUse, ~Busy, requestCount < Cardinality(Arrived), Busy',
         UNCHANGED <<InUse, Cardinality(Arrived), requestCount>>
  PROVE  Exchange!Begin
BY DEF Exchange!Begin, InUse, Arrived, Busy

LEMMA ExchangeAnswers ==
  ASSUME Busy, ~Busy', requestCount' = requestCount + 1, UNCHANGED Cardinality(Arrived)
  PROVE  Exchange!Answer
BY DEF Exchange!Answer, InUse, Arrived, Busy

LEMMA ExchangeFails ==
  ASSUME InUse, ~InUse', ~Busy', UNCHANGED <<Cardinality(Arrived), requestCount>>
  PROVE  Exchange!Fail
BY DEF Exchange!Fail, InUse, Arrived, Busy

(* How many have arrived: at least those before and including the one at    *)
(* the front that is whole; and none that was never sent.                   *)
LEMMA ArrivedFinite ==
  ASSUME TransportInvariant
  PROVE  IsFiniteSet(Arrived) /\ Cardinality(Arrived) \in Nat
<1>1. Arrived \subseteq 1 .. Len(stream) /\ Len(stream) \in Nat
  BY StreamInUse DEF TransportInvariant, Arrived
<1>2. IsFiniteSet(1 .. Len(stream))
  BY <1>1, FS_Interval
<1> QED BY <1>1, <1>2, FS_Subset, FS_CardinalityType

LEMMA ArrivedEnough ==
  ASSUME TransportInvariant, WholeRequestBuffered
  PROVE  requestCount < Cardinality(Arrived)
<1>1. /\ Current <= Len(stream) /\ input >= Length(Current)
      /\ Current \in Nat /\ Current = requestCount + 1 /\ requestCount \in Nat
      /\ Len(stream) \in Nat
  BY WholeAtFront, AtFront, StreamInUse DEF TransportInvariant, Current
<1>2. stream[Current].end <= arrived
  <2>1. /\ stream[Current].end = consumed + Length(Current) /\ Length(Current) \in Nat
        /\ consumed \in Nat
    BY <1>1, AtFront DEF TransportInvariant
  <2>2. consumed + input <= arrived /\ input \in Nat /\ arrived \in Nat
    BY AtFront, Sizes DEF TransportInvariant, TypeOK
  <2> QED BY <1>1, <2>1, <2>2
<1>3. 1 .. Current \subseteq Arrived
  <2> SUFFICES ASSUME NEW i \in 1 .. Current
               PROVE  i \in Arrived
    OBVIOUS
  <2>1. i \in 1 .. Len(stream)
    BY <1>1
  <2>2. stream[i].end <= arrived
    <3>1. CASE i = Current
      BY <1>2, <3>1
    <3>2. CASE i # Current
      <4>1. stream[i].end <= consumed
        BY <1>1, <2>1, <3>2, AtFront DEF TransportInvariant
      <4>2. /\ consumed + input <= arrived /\ input \in Nat /\ arrived \in Nat
            /\ consumed \in Nat
        BY AtFront, Sizes DEF TransportInvariant, TypeOK
      <4>3. stream[i].end \in Nat
        <5>1. stream[i] \in RequestSpan
          BY <2>1, StreamInUse, StreamOrder DEF TransportInvariant
        <5> QED BY <5>1 DEF RequestSpan
      <4> QED BY <4>1, <4>2, <4>3
    <3> QED BY <3>1, <3>2
  <2> QED BY <2>1, <2>2, StreamInUse DEF TransportInvariant, Arrived
<1>4. Cardinality(1 .. Current) <= Cardinality(Arrived)
  BY <1>3, ArrivedFinite, FS_Subset
<1>5. Cardinality(1 .. Current) = Current
  BY <1>1, FS_Interval
<1> QED BY <1>1, <1>4, <1>5, ArrivedFinite

(* One more byte completes at most one request. *)
LEMMA SendAsks ==
  ASSUME TransportInvariant, Send
  PROVE  Cardinality(Arrived)' \in {Cardinality(Arrived), Cardinality(Arrived) + 1}
<1>1. /\ stream' = stream /\ arrived' = arrived + 1 /\ arrived \in Nat
      /\ IsStream(stream) /\ \A i : i \in DOMAIN stream <=> i \in 1 .. Len(stream)
      /\ Len(stream) \in Nat
  BY StreamInUse, AtFront DEF TransportInvariant, TypeOK, Send
<1>2. /\ \A i \in 1 .. Len(stream) : stream[i].start < stream[i].head /\ stream[i].head <= stream[i].end
      /\ \A i, j \in 1 .. Len(stream) : i < j => stream[i].end <= stream[j].start
      /\ \A i \in 1 .. Len(stream) : stream[i] \in RequestSpan
  BY <1>1, StreamOrder
<1>3. \A i \in 1 .. Len(stream) :
        stream[i].start \in Nat /\ stream[i].head \in Nat /\ stream[i].end \in Nat
  BY <1>2 DEF RequestSpan
<1>4. \A i \in 1 .. Len(stream) : stream[i].end <= arrived + 1 <=>
        stream[i].end <= arrived \/ stream[i].end = arrived + 1
  BY <1>1, <1>3
<1>5. Arrived' = Arrived \cup {i \in 1 .. Len(stream) : stream[i].end = arrived + 1}
  BY <1>1, <1>4 DEF Arrived
<1>6. CASE \A i \in 1 .. Len(stream) : stream[i].end # arrived + 1
  <2>1. Arrived' = Arrived
    BY <1>5, <1>6
  <2> QED BY <2>1
<1>7. CASE \E i \in 1 .. Len(stream) : stream[i].end = arrived + 1
  <2>1. PICK i \in 1 .. Len(stream) : stream[i].end = arrived + 1
    BY <1>7
  <2>2. ASSUME NEW j \in 1 .. Len(stream), stream[j].end = arrived + 1
        PROVE  j = i
    <3>1. ~(i < j) /\ ~(j < i)
      BY <1>1, <1>2, <1>3, <2>1, <2>2
    <3> QED BY <1>1, <3>1
  <2>3. Arrived' = Arrived \cup {i} /\ i \notin Arrived
    <3>1. ~(stream[i].end <= arrived)
      BY <1>1, <2>1
    <3> QED BY <1>5, <2>1, <2>2, <3>1 DEF Arrived
  <2>4. Cardinality(Arrived \cup {i}) = Cardinality(Arrived) + 1
    BY <2>3, ArrivedFinite, FS_AddElement
  <2> QED BY <2>3, <2>4
<1> QED BY <1>6, <1>7

(* No request has arrived when the connection begins. *)
LEMMA AcceptAsksNothing ==
  ASSUME Accept
  PROVE  Cardinality(Arrived)' = 0
<1>1. PICK sent \in Streams : stream' = sent /\ arrived' = 0
  BY DEF Accept
<1>2. IsStream(sent)
  BY TransportAssumption
<1>3. /\ \A i : i \in DOMAIN sent <=> i \in 1 .. Len(sent)
      /\ \A i \in 1 .. Len(sent) : /\ sent[i] \in RequestSpan /\ sent[i].start < sent[i].head
                                   /\ sent[i].head <= sent[i].end
  BY <1>2, StreamOrder DEF IsStream
<1>4. \A i \in 1 .. Len(sent) : ~(sent[i].end <= 0)
  <2>1. \A i \in 1 .. Len(sent) :
          sent[i].start \in Nat /\ sent[i].head \in Nat /\ sent[i].end \in Nat
    BY <1>3 DEF RequestSpan
  <2> QED BY <1>3, <2>1
<1>5. Arrived' = {}
  BY <1>1, <1>3, <1>4 DEF Arrived
<1> QED BY <1>5, FS_EmptySet

(* Whatever a call does, the requests that have arrived have.               *)
LEMMA SameArrived ==
  ASSUME stream' = stream, arrived' = arrived
  PROVE  Cardinality(Arrived)' = Cardinality(Arrived)
BY DEF Arrived

(* A call that gives the connection up fails the exchange. *)
LEMMA FatalFails ==
  ASSUME TransportInvariant, pc # "caller", NEW error \in Errors, FatalOf(error)
  PROVE  Exchange!Fail
<1>1. /\ state' = "CLOSING" /\ InUse
      /\ stream' = stream /\ arrived' = arrived /\ requestCount' = requestCount
  BY AtWork DEF FatalOf, StateAfterFatal, InUse, peer
<1> QED BY <1>1, SameArrived, ExchangeFails DEF InUse, Busy

(* A step that changes neither the state nor the number of answers.         *)
LEMMA QuietStep ==
  ASSUME UNCHANGED <<state, requestCount, stream, arrived>>
  PROVE  UNCHANGED Exchange!vars
BY SameArrived, ExchangeStutters DEF InUse, Busy

LEMMA StepsImplement ==
  ASSUME TransportInvariant, Steps
  PROVE  [Exchange!Next]_(Exchange!vars)
<1> USE DEF Exchange!Next
<1>1. CASE Frame
  <2>1. CASE \E error \in Errors : pc # "caller" /\ FatalOf(error)
    BY <2>1, FatalFails
  <2>2. CASE UNCHANGED <<state, requestCount, stream, arrived>>
    BY <2>2, QuietStep
  <2> QED BY <1>1, <2>1, <2>2 DEF Frame, Scan, Fatal, Errors, conn, peer
<1>2. CASE Parse
  <2>1. CASE \E error \in Errors : pc # "caller" /\ FatalOf(error)
    BY <2>1, FatalFails
  <2>2. CASE UNCHANGED <<state, requestCount, stream, arrived>>
    BY <2>2, QuietStep
  <2>3. ASSUME NEW i \in FrontRequest, Complete(i), state' = "DISPATCHING",
               UNCHANGED <<requestCount, stream, arrived>>
        PROVE  Exchange!Begin
    <3>1. WholeRequestBuffered
      BY <2>3 DEF WholeRequestBuffered
    <3>2. state = "READING"
      BY <1>2 DEF Parse, TransportInvariant, PointMatchesState
    <3> QED BY <2>3, <3>1, <3>2, ArrivedEnough, SameArrived, ExchangeBegins DEF InUse, Busy
  <2> QED BY <1>2, <2>1, <2>2, <2>3 DEF Parse, Errors, peer
<1>3. CASE Dispatch
  <2>1. CASE \E error \in Errors : pc # "caller" /\ FatalOf(error)
    BY <2>1, FatalFails
  <2>2. CASE state' = "WRITING" /\ UNCHANGED <<requestCount, stream, arrived>>
    <3>1. state = "DISPATCHING"
      BY <1>3 DEF Dispatch, TransportInvariant, PointMatchesState
    <3> QED BY <2>2, <3>1, SameArrived, ExchangeStutters DEF InUse, Busy
  <2> QED BY <1>3, <2>1, <2>2 DEF Dispatch, Fatal, Errors, peer
<1>4. CASE Read
  <2>1. CASE \E error \in Errors : pc # "caller" /\ FatalOf(error)
    BY <2>1, FatalFails
  <2>2. CASE UNCHANGED <<state, requestCount, stream, arrived>>
    BY <2>2, QuietStep
  <2> QED BY <1>4, <2>1, <2>2 DEF Read, Fatal, Errors, conn, peer
<1>5. CASE WriteSome \/ WriteWaits
  BY <1>5, QuietStep DEF WriteSome, WriteWaits, peer
<1>6. CASE WriteFails
  BY <1>6, FatalFails DEF WriteFails, Fatal, Errors
<1>7. CASE CloseAfterResponse \/ KeepAlive
  <2>1. /\ pc = "write" /\ state' \in {"CLOSED", "CLOSING", "READING"}
        /\ requestCount' = requestCount + 1 /\ UNCHANGED <<stream, arrived>>
    BY <1>7 DEF CloseAfterResponse, KeepAlive, Released, RequestComplete, peer
  <2>2. state = "WRITING"
    BY <2>1 DEF TransportInvariant, PointMatchesState
  <2> QED BY <2>1, <2>2, SameArrived, ExchangeAnswers DEF Busy
<1> QED BY <1>1, <1>2, <1>3, <1>4, <1>5, <1>6, <1>7 DEF Steps

LEMMA NextImplements ==
  ASSUME TransportInvariant, [Next]_vars
  PROVE  [Exchange!Next]_(Exchange!vars)
<1>1. CASE Accept
  <2>1. ~InUse /\ ~Busy' /\ requestCount' = 0
    BY <1>1 DEF Accept, Released, InUse, Busy
  <2> QED BY <1>1, <2>1, AcceptAsksNothing, ExchangeOpens DEF Exchange!Next
<1>2. CASE Close
  <2>1. /\ pc = "caller" /\ state' = "CLOSED" /\ state \in States \ {"NONE", "CLOSED"}
        /\ UNCHANGED <<requestCount, stream, arrived>>
    BY <1>2 DEF Close, Released, peer
  <2>2. CASE InUse
    BY <2>1, <2>2, SameArrived, ExchangeFails DEF InUse, Busy, Exchange!Next
  <2>3. CASE ~InUse
    BY <2>1, <2>3, SameArrived, ExchangeStutters DEF InUse, Busy
  <2> QED BY <2>2, <2>3
<1>3. CASE HandleOnce \/ Finish \/ Receive
  BY <1>3, QuietStep DEF HandleOnce, Finish, Receive, conn, peer
<1>4. CASE Steps
  BY <1>4, StepsImplement
<1>5. CASE Send
  <2>1. UNCHANGED <<InUse, requestCount, Busy>>
    BY <1>5 DEF Send, conn, InUse, Busy
  <2>2. CASE Cardinality(Arrived)' = Cardinality(Arrived)
    BY <2>1, <2>2, ExchangeStutters
  <2>3. CASE Cardinality(Arrived)' = Cardinality(Arrived) + 1
    BY <2>1, <2>3, ExchangeAsks DEF Exchange!Next
  <2> QED BY <1>5, <2>2, <2>3, SendAsks
<1>6. CASE UNCHANGED vars
  BY <1>6, QuietStep DEF vars, conn, peer
<1> QED BY <1>1, <1>2, <1>3, <1>4, <1>5, <1>6 DEF Next

(* A connection is an exchange: requests are answered one at a time, in     *)
(* order, none before it has arrived as a whole, however the bytes come and *)
(* the responses are taken.                                                 *)
THEOREM ExchangeImplemented == Spec => ImplementsExchange
<1>1. Init => Exchange!Init
  <2> SUFFICES ASSUME Init
               PROVE  Exchange!Init
    OBVIOUS
  <2>1. {i \in DOMAIN stream : stream[i].end <= arrived} = {}
    BY DEF Init
  <2>2. Cardinality({i \in DOMAIN stream : stream[i].end <= arrived}) = 0
    BY <2>1, FS_EmptySet
  <2> QED BY <2>2 DEF Init, Exchange!Init
<1>2. TransportInvariant /\ [Next]_vars => [Exchange!Next]_(Exchange!vars)
  BY NextImplements
<1> QED BY <1>1, <1>2, InvariantHolds, PTL DEF Spec, ImplementsExchange, Exchange!Spec
=============================================================================
