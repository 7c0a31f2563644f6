----------------------------- MODULE HostProofs -----------------------------
(***************************************************************************)
(* Proofs about Host for every number of slots, batch length, wait, drain  *)
(* timeout and clock range.                                                *)
(***************************************************************************)
EXTENDS Host, FiniteSetTheorems, TLAPS

(***************************************************************************)
(* Counting slots                                                          *)
(***************************************************************************)

(* A set of slots is finite and never larger than the array. *)
LEMMA SlotSets ==
  ASSUME NEW S \in SUBSET Slots
  PROVE  IsFiniteSet(S) /\ Cardinality(S) \in 0 .. SlotCount
<1>1. IsFiniteSet(Slots) /\ Cardinality(Slots) = SlotCount
  BY FS_Interval, HostAssumption DEF Slots
<1>2. IsFiniteSet(S) /\ Cardinality(S) <= Cardinality(Slots)
  BY <1>1, FS_Subset
<1>3. Cardinality(S) \in Nat
  BY <1>2, FS_CardinalityType
<1> QED BY <1>1, <1>2, <1>3, HostAssumption

(* A set of slots counts nothing exactly when it is empty. *)
LEMMA NoSlots ==
  ASSUME NEW S \in SUBSET Slots
  PROVE  Cardinality(S) = 0 <=> S = {}
BY SlotSets, FS_EmptySet

(* One slot less, one connection less. *)
LEMMA SlotRemoved ==
  ASSUME NEW S \in SUBSET Slots, NEW s \in S
  PROVE  Cardinality(S \ {s}) = Cardinality(S) - 1
BY SlotSets, FS_RemoveElement

(* One slot more, one connection more. *)
LEMMA SlotAdded ==
  ASSUME NEW S \in SUBSET Slots, NEW s \in Slots \ S
  PROVE  Cardinality(S \cup {s}) = Cardinality(S) + 1
BY SlotSets, FS_AddElement

LEMMA StatusNoted ==
  ASSUME NEW first \in Statuses, NEW status \in Statuses
  PROVE  NoteFailure(first, status) \in Statuses
BY DEF NoteFailure

LEMMA FailureStatuses ==
  /\ \A c \in MayFail("close") : c \in Statuses
  /\ \A c \in MayFail("clock") : c \in Statuses
BY DEF MayFail, Statuses, Failures

-----------------------------------------------------------------------------
(***************************************************************************)
(* finish_drain: whatever it is told, it leaves no connection, no slot     *)
(* with work, no epoll instance, and has counted what it cut off.          *)
(***************************************************************************)
LEMMA FinishDrainEffect ==
  ASSUME HostInvariant,
         NEW first \in Statuses, NEW open \in SUBSET Fds,
         NEW expired \in BOOLEAN, NEW force \in BOOLEAN,
         NEW capture \in BOOLEAN,
         force \/ active = {},
         FinishDrain(first, open, expired, force, capture)
  PROVE  /\ phase' = "CLOSED" /\ active' = {} /\ moreWork' = {} /\ ready' = {}
         /\ dirty' \in SUBSET Slots
         /\ forcedAtDeadline' = forcedAtDeadline + Cardinality(active)
         /\ connFd' \in [Slots -> Fds \cup {NoFd}]
         /\ openFds' \in SUBSET Fds /\ epollFd' = NoFd
         /\ firstFailure' \in Statuses /\ deadlineExpired' \in BOOLEAN
         /\ drainFinish' \in 0 .. ClockMax
<1> DEFINE closed == IF force THEN active ELSE {}
<1>1. PICK slotClose \in MayFail("close"), epollClose \in MayFail("close"),
           clock \in MayFail("clock"), left \in SUBSET closed :
    /\ firstFailure' = NoteFailure(NoteFailure(NoteFailure(first, slotClose),
                                               epollClose), clock)
    /\ deadlineExpired' = (deadlineExpired \/ expired)
    /\ forcedAtDeadline' = forcedAtDeadline + Cardinality(closed)
    /\ active' = active \ closed /\ moreWork' = moreWork \ closed
    /\ dirty' = dirty \cup left
    /\ ready' = ready \ closed
    /\ connFd' = [s \in Slots |-> IF s \in closed THEN NoFd ELSE connFd[s]]
    /\ openFds' = open \ ({epollFd} \cup {connFd[s] : s \in closed})
    /\ epollFd' = NoFd
    /\ drainFinish' = IF capture /\ clock = "ok" THEN now ELSE drainFinish
    /\ phase' = "CLOSED"
  BY DEF FinishDrain
<1>2. closed = active
  OBVIOUS
<1>3. TypeOK
  BY DEF HostInvariant
<1>4. firstFailure' \in Statuses
  BY <1>1, FailureStatuses, StatusNoted
<1>5. active' = {} /\ moreWork' = {} /\ ready' = {} /\ dirty' \in SUBSET Slots
  BY <1>1, <1>2, <1>3 DEF TypeOK, HostTypes, SlotTypes, ResultTypes, EnvTypes
<1>6. connFd' \in [Slots -> Fds \cup {NoFd}] /\ openFds' \in SUBSET Fds
  BY <1>1, <1>3 DEF TypeOK, HostTypes, SlotTypes, ResultTypes, EnvTypes
<1>7. deadlineExpired' \in BOOLEAN /\ drainFinish' \in 0 .. ClockMax
  BY <1>1, <1>3 DEF TypeOK, HostTypes, SlotTypes, ResultTypes, EnvTypes
<1>8. forcedAtDeadline' = forcedAtDeadline + Cardinality(active)
  BY <1>1, <1>2
<1> QED BY <1>1, <1>4, <1>5, <1>6, <1>7, <1>8

(* A drain that begins and finishes at once forces everyone it found. *)
LEMMA DrainAtOnceEffect ==
  ASSUME HostInvariant, phase = "ACCEPTING",
         NEW before \in Statuses, NEW after \in Statuses,
         NEW expired \in BOOLEAN, NEW capture \in BOOLEAN,
         DrainAtOnce(before, after, expired, capture)
  PROVE  /\ phase' = "CLOSED" /\ active' = {} /\ moreWork' = {} /\ ready' = {}
         /\ dirty' \in SUBSET Slots
         /\ listenerFd' = NoFd /\ listenerReadable' = FALSE /\ backlog' = 0
         /\ activeAtDrainStart' = Cardinality(active)
         /\ forcedAtDeadline' = Cardinality(active)
         /\ inactiveBeforeDeadline' = 0
         /\ connFd' \in [Slots -> Fds \cup {NoFd}]
         /\ openFds' \in SUBSET Fds /\ epollFd' = NoFd
         /\ firstFailure' \in Statuses /\ deadlineExpired' \in BOOLEAN
         /\ drainFinish' \in 0 .. ClockMax
         /\ UNCHANGED <<now, stop, lag>>
<1>1. PICK listenerClose \in MayFail("close") :
    /\ CloseListener
    /\ activeAtDrainStart' = Cardinality(active)
    /\ FinishDrain(NoteFailure(NoteFailure(NoteFailure(firstFailure, before),
                                           listenerClose), after),
                   openFds \ {listenerFd}, expired, TRUE, capture)
    /\ UNCHANGED <<inactiveBeforeDeadline, now, stop, lag>>
  BY DEF DrainAtOnce
<1>2. inactiveBeforeDeadline = 0 /\ forcedAtDeadline = 0 /\ TypeOK
  BY DEF HostInvariant, DrainAccounting
<1> DEFINE noted == NoteFailure(NoteFailure(NoteFailure(firstFailure, before),
                                            listenerClose), after)
<1>3. noted \in Statuses
  BY <1>2, FailureStatuses, StatusNoted DEF TypeOK, HostTypes, SlotTypes, ResultTypes, EnvTypes
<1>4. openFds \ {listenerFd} \in SUBSET Fds
  BY <1>2 DEF TypeOK, HostTypes, SlotTypes, ResultTypes, EnvTypes
<1> HIDE DEF noted
<1>5. FinishDrain(noted, openFds \ {listenerFd}, expired, TRUE, capture)
  BY <1>1 DEF noted
<1>6. Cardinality(active) \in Nat
  BY <1>2, SlotSets DEF TypeOK, HostTypes, SlotTypes, ResultTypes, EnvTypes
<1>7. /\ phase' = "CLOSED" /\ active' = {} /\ moreWork' = {} /\ ready' = {}
      /\ dirty' \in SUBSET Slots
      /\ forcedAtDeadline' = forcedAtDeadline + Cardinality(active)
      /\ connFd' \in [Slots -> Fds \cup {NoFd}]
      /\ openFds' \in SUBSET Fds /\ epollFd' = NoFd
      /\ firstFailure' \in Statuses /\ deadlineExpired' \in BOOLEAN
      /\ drainFinish' \in 0 .. ClockMax
  BY <1>3, <1>4, <1>5, FinishDrainEffect
<1>8. forcedAtDeadline' = Cardinality(active)
  BY <1>2, <1>6, <1>7
<1> QED BY <1>1, <1>2, <1>7, <1>8 DEF CloseListener

(* Every other finish forces who is left of a drain already begun. *)
LEMMA FinishBegunEffect ==
  ASSUME HostInvariant, phase = "DRAINING",
         NEW failure \in Statuses, NEW expired \in BOOLEAN,
         NEW force \in BOOLEAN, NEW capture \in BOOLEAN,
         force \/ active = {},
         FinishBegunDrain(failure, expired, force, capture)
  PROVE  /\ phase' = "CLOSED" /\ active' = {} /\ moreWork' = {} /\ ready' = {}
         /\ dirty' \in SUBSET Slots
         /\ forcedAtDeadline' = Cardinality(active)
         /\ connFd' \in [Slots -> Fds \cup {NoFd}]
         /\ openFds' \in SUBSET Fds /\ epollFd' = NoFd
         /\ firstFailure' \in Statuses /\ deadlineExpired' \in BOOLEAN
         /\ drainFinish' \in 0 .. ClockMax
         /\ UNCHANGED <<listenerFd, listenerReadable, drainDeadline, drainStart,
                        activeAtDrainStart, inactiveBeforeDeadline, backlog,
                        now, stop, lag>>
<1>1. TypeOK /\ forcedAtDeadline = 0
  BY DEF HostInvariant, DrainAccounting
<1>2. NoteFailure(firstFailure, failure) \in Statuses
  BY <1>1, StatusNoted DEF TypeOK, HostTypes, SlotTypes, ResultTypes, EnvTypes
<1>3. openFds \in SUBSET Fds /\ Cardinality(active) \in Nat
  BY <1>1, SlotSets DEF TypeOK, HostTypes, SlotTypes, ResultTypes, EnvTypes
<1> DEFINE noted == NoteFailure(firstFailure, failure)
<1>4. FinishDrain(noted, openFds, expired, force, capture)
  BY DEF FinishBegunDrain
<1> HIDE DEF noted
<1>5. noted \in Statuses
  BY <1>2 DEF noted
<1>6. /\ phase' = "CLOSED" /\ active' = {} /\ moreWork' = {} /\ ready' = {}
      /\ dirty' \in SUBSET Slots
      /\ forcedAtDeadline' = forcedAtDeadline + Cardinality(active)
      /\ connFd' \in [Slots -> Fds \cup {NoFd}]
      /\ openFds' \in SUBSET Fds /\ epollFd' = NoFd
      /\ firstFailure' \in Statuses /\ deadlineExpired' \in BOOLEAN
      /\ drainFinish' \in 0 .. ClockMax
  BY <1>3, <1>4, <1>5, FinishDrainEffect
<1>7. forcedAtDeadline' = Cardinality(active)
  BY <1>1, <1>3, <1>6
<1> QED BY <1>6, <1>7 DEF FinishBegunDrain
-----------------------------------------------------------------------------
(***************************************************************************)
(* How a call ends: nothing but the locals changed, or the host is closed. *)
(***************************************************************************)
CoreUnchanged == UNCHANGED <<hostVars, slotVars, shutdownResult>>
HostUnchanged == UNCHANGED <<hostVars, slotVars, shutdownResult, envVars, lag>>

LEMMA CoreEach ==
  ASSUME CoreUnchanged
  PROVE  /\ phase' = phase /\ listenerFd' = listenerFd /\ epollFd' = epollFd
         /\ listenerReadable' = listenerReadable
         /\ drainDeadline' = drainDeadline
         /\ active' = active /\ moreWork' = moreWork /\ connFd' = connFd
         /\ dirty' = dirty
         /\ activeAtDrainStart' = activeAtDrainStart
         /\ inactiveBeforeDeadline' = inactiveBeforeDeadline
         /\ forcedAtDeadline' = forcedAtDeadline
         /\ drainStart' = drainStart /\ drainFinish' = drainFinish
         /\ firstFailure' = firstFailure
         /\ deadlineExpired' = deadlineExpired
BY DEF CoreUnchanged, hostVars, slotVars, shutdownResult

LEMMA UnchangedEach ==
  ASSUME HostUnchanged
  PROVE  /\ CoreUnchanged
         /\ phase' = phase /\ active' = active
         /\ drainDeadline' = drainDeadline
         /\ openFds' = openFds /\ backlog' = backlog /\ ready' = ready
         /\ now' = now /\ stop' = stop /\ lag' = lag
BY CoreEach DEF HostUnchanged, CoreUnchanged, envVars

\* What does not mention the loop's own variables.
OutsideLoop ==
  /\ HostTypes /\ SlotTypes /\ ResultTypes /\ EnvTypes
  /\ DrainAccounting /\ RuntimeValid

LEMMA InvariantParts ==
  HostInvariant <=> /\ OutsideLoop /\ LoopTypes
                    /\ PointMatchesPhase /\ DeadlineArithmetic
BY DEF HostInvariant, OutsideLoop, TypeOK

\* The parts about the host itself, without loop and environment.
Core == HostTypes /\ SlotTypes /\ ResultTypes /\ DrainAccounting /\ RuntimeValid

LEMMA CoreKept ==
  ASSUME Core, CoreUnchanged
  PROVE  Core'
<1> USE CoreEach
<1>1. HostTypes' /\ SlotTypes' /\ ResultTypes'
  BY DEF Core, HostTypes, SlotTypes, ResultTypes
<1>2. DrainAccounting'
  BY DEF Core, DrainAccounting
<1>3. RuntimeValid'
  BY DEF Core, RuntimeValid, ResultUntouched
<1> QED BY <1>1, <1>2, <1>3 DEF Core

(* A step that leaves the host alone keeps everything outside the loop. *)
LEMMA FrameKeepsOutside ==
  ASSUME OutsideLoop, HostUnchanged
  PROVE  OutsideLoop'
<1>1. Core'
  BY CoreKept, UnchangedEach DEF OutsideLoop, Core
<1>2. EnvTypes'
  BY UnchangedEach DEF OutsideLoop, EnvTypes
<1> QED BY <1>1, <1>2 DEF OutsideLoop, Core

\* The locals after a return, from a call or from a step.
LocalsDropped ==
  /\ pending' = {} /\ listenerEvent' = FALSE /\ remaining' = 0 /\ wakeAt' = 0
  /\ ret' \in [call : Calls, status : Statuses]
  /\ \/ pc' = "caller" /\ running' = FALSE
     \/ pc' = "stepped" /\ running' = TRUE

LEMMA ReturnDropsLocals ==
  ASSUME NEW call \in Calls, NEW status \in Statuses, Return(call, status)
  PROVE  LocalsDropped
BY DEF LocalsDropped, Return

LEMMA StepDropsLocals ==
  ASSUME LoopTypes, NEW status \in Statuses, StepReturns(status)
  PROVE  LocalsDropped
BY DEF LocalsDropped, StepReturns, LoopTypes, Calls

LEMMA DroppedLocalsTyped ==
  ASSUME LocalsDropped
  PROVE  LoopTypes'
<1>1. 0 \in 0 .. ClockMax
  BY HostAssumption
<1>2. pc' \in Points /\ running' \in BOOLEAN /\ listenerEvent' \in BOOLEAN
  BY DEF LocalsDropped, Points
<1>3. pending' \in SUBSET active'
  BY DEF LocalsDropped
<1>4. /\ remaining' \in 0 .. ClockMax /\ wakeAt' \in 0 .. ClockMax
      /\ ret' \in [call : Calls, status : Statuses]
  BY <1>1 DEF LocalsDropped
<1> QED BY <1>2, <1>3, <1>4 DEF LoopTypes

(* A call that changed nothing returns: the invariant holds as before. *)
LEMMA QuietReturn ==
  ASSUME HostInvariant, HostUnchanged, LocalsDropped,
         pc' = "stepped" => phase # "PREPARED"
  PROVE  HostInvariant'
<1>1. OutsideLoop' /\ LoopTypes'
  BY FrameKeepsOutside, DroppedLocalsTyped, InvariantParts
<1>2. PointMatchesPhase'
  BY UnchangedEach DEF PointMatchesPhase, LocalsDropped
<1>3. DeadlineArithmetic'
  BY UnchangedEach DEF DeadlineArithmetic, LocalsDropped, HostInvariant
<1> QED BY <1>1, <1>2, <1>3 DEF HostInvariant, OutsideLoop, TypeOK

\* What every way of closing the host has done by the time it returns.
HostCloses ==
  /\ phase' = "CLOSED" /\ active' = {} /\ moreWork' = {} /\ ready' = {}
  /\ dirty' \in SUBSET Slots
  /\ connFd' \in [Slots -> Fds \cup {NoFd}] /\ openFds' \in SUBSET Fds
  /\ listenerFd' = NoFd /\ epollFd' = NoFd /\ listenerReadable' = FALSE
  /\ activeAtDrainStart' \in 0 .. SlotCount
  /\ inactiveBeforeDeadline' \in 0 .. SlotCount
  /\ forcedAtDeadline' \in 0 .. SlotCount
  /\ inactiveBeforeDeadline' + forcedAtDeadline' = activeAtDrainStart'
  /\ drainDeadline' \in 0 .. ClockMax /\ drainStart' \in 0 .. ClockMax
  /\ drainFinish' \in 0 .. ClockMax
  /\ firstFailure' \in Statuses /\ deadlineExpired' \in BOOLEAN
  /\ backlog' \in 0 .. MaxBacklog
  /\ now' = now /\ stop' = stop /\ lag' = lag

(* A call that closed the host returns. *)
LEMMA ClosingKeepsInvariant ==
  ASSUME HostInvariant, HostCloses, LocalsDropped
  PROVE  HostInvariant'
<1>1. EnvTypes /\ lag <= now
  BY DEF HostInvariant, DeadlineArithmetic, TypeOK
<1>2. HostTypes' /\ SlotTypes'
  BY DEF HostCloses, HostTypes, SlotTypes, Phases
<1>3. ResultTypes'
  BY DEF HostCloses, ResultTypes
<1>4. EnvTypes'
  BY <1>1 DEF HostCloses, EnvTypes
<1>5. LoopTypes'
  BY DroppedLocalsTyped
<1>6. DrainAccounting'
  BY DEF DrainAccounting, HostCloses
<1>7. RuntimeValid'
  <2>1. inactiveBeforeDeadline' + forcedAtDeadline' <= activeAtDrainStart'
    <3>1. activeAtDrainStart' \in Int
      BY HostAssumption DEF HostCloses
    <3>2. inactiveBeforeDeadline' + forcedAtDeadline' = activeAtDrainStart'
      BY DEF HostCloses
    <3> QED BY <3>1, <3>2
  <2> QED BY <2>1 DEF RuntimeValid, HostCloses
<1>8. PointMatchesPhase' /\ DeadlineArithmetic'
  BY <1>1 DEF PointMatchesPhase, DeadlineArithmetic, HostCloses, LocalsDropped
<1> QED BY <1>2, <1>3, <1>4, <1>5, <1>6, <1>7, <1>8 DEF HostInvariant, TypeOK

LEMMA DrainAtOnceCloses ==
  ASSUME HostInvariant, phase = "ACCEPTING",
         NEW before \in Statuses, NEW after \in Statuses,
         NEW expired \in BOOLEAN, NEW capture \in BOOLEAN,
         DrainAtOnce(before, after, expired, capture),
         drainStart' \in 0 .. ClockMax, drainDeadline' \in 0 .. ClockMax
  PROVE  HostCloses
<1>1. SlotTypes
  BY DEF HostInvariant, TypeOK
<1>2. Cardinality(active) \in 0 .. SlotCount
  BY <1>1, SlotSets DEF SlotTypes
<1>3. 0 \in 0 .. MaxBacklog /\ 0 \in 0 .. SlotCount
  BY HostAssumption
<1>4. 0 + Cardinality(active) = Cardinality(active)
  BY <1>2
<1> QED BY <1>2, <1>3, <1>4, DrainAtOnceEffect DEF HostCloses

LEMMA FinishBegunCloses ==
  ASSUME HostInvariant, phase = "DRAINING",
         NEW failure \in Statuses, NEW expired \in BOOLEAN,
         NEW force \in BOOLEAN, NEW capture \in BOOLEAN,
         force \/ active = {},
         FinishBegunDrain(failure, expired, force, capture)
  PROVE  HostCloses
<1>1. /\ HostTypes /\ ResultTypes /\ SlotTypes /\ EnvTypes
      /\ listenerFd = NoFd /\ listenerReadable = FALSE
  BY DEF HostInvariant, RuntimeValid, TypeOK, HostTypes
<1>2. inactiveBeforeDeadline + Cardinality(active) = activeAtDrainStart
  BY DEF HostInvariant, DrainAccounting
<1>3. Cardinality(active) \in 0 .. SlotCount
  BY <1>1, SlotSets DEF SlotTypes
<1>4. /\ drainDeadline \in 0 .. ClockMax /\ drainStart \in 0 .. ClockMax
      /\ activeAtDrainStart \in 0 .. SlotCount
      /\ inactiveBeforeDeadline \in 0 .. SlotCount
      /\ backlog \in 0 .. MaxBacklog
  BY <1>1 DEF HostTypes, ResultTypes, EnvTypes
<1> QED BY <1>1, <1>2, <1>3, <1>4, FinishBegunEffect DEF HostCloses
-----------------------------------------------------------------------------
(***************************************************************************)
(* The calls                                                               *)
(***************************************************************************)
LEMMA StatusConstants ==
  /\ {"ok", "listen", "epoll_create", "epoll", "accept", "conn", "clock",
      "overflow", "close", "einval"} \subseteq Statuses
  /\ {"prepare", "open", "begin_drain", "step", "close", "run"} \subseteq Calls
BY DEF Statuses, Failures, Calls

LEMMA RefuseKeeps ==
  ASSUME HostInvariant, NEW call \in Calls, Refuse(call)
  PROVE  HostInvariant'
<1>1. HostUnchanged /\ Return(call, "einval")
  BY DEF Refuse, HostUnchanged
<1>2. LocalsDropped /\ pc' = "caller"
  BY <1>1, ReturnDropsLocals, StatusConstants DEF Return
<1> QED BY <1>1, <1>2, QuietReturn

(* What is left to show when only the loop moved. *)
LEMMA LoopMoves ==
  ASSUME HostInvariant, HostUnchanged, LoopTypes', PointMatchesPhase',
         phase = "DRAINING" =>
           /\ pc' = "enter" => now + remaining' <= drainDeadline + lag
           /\ pc' = "wait" => wakeAt' <= drainDeadline + lag
  PROVE  HostInvariant'
<1>1. OutsideLoop'
  BY FrameKeepsOutside, InvariantParts
<1>2. DeadlineArithmetic'
  BY UnchangedEach DEF HostInvariant, DeadlineArithmetic
<1> QED BY <1>1, <1>2 DEF HostInvariant, OutsideLoop, TypeOK

LEMMA OpenKeeps ==
  ASSUME HostInvariant, Open
  PROVE  HostInvariant'
<1>1. CASE ~(Validate /\ phase = "PREPARED")
  BY <1>1, RefuseKeeps, StatusConstants DEF Open
<1>2. CASE OpenFails("listen") \/ OpenFails("epoll_create")
  <2>1. PICK status \in Statuses : OpenFails(status)
    BY <1>2, StatusConstants
  <2>2. HostUnchanged /\ LocalsDropped /\ pc' = "caller"
    BY <2>1, ReturnDropsLocals, StatusConstants
       DEF OpenFails, HostUnchanged, Return
  <2> QED BY <2>2, QuietReturn
<1>3. CASE phase = "PREPARED" /\ OpenSucceeds
  <2>1. PICK lfd \in Fds, efd \in Fds :
      /\ openFds' = openFds \cup {lfd, efd}
      /\ listenerFd' = lfd /\ epollFd' = efd
      /\ listenerReadable' = TRUE /\ phase' = "ACCEPTING"
      /\ Return("open", "ok")
      /\ UNCHANGED <<drainDeadline, slotVars, shutdownResult, backlog, ready,
                     now, stop, lag>>
    BY <1>3 DEF OpenSucceeds
  <2>2. LocalsDropped /\ pc' = "caller"
    BY <2>1, ReturnDropsLocals, StatusConstants DEF Return
  <2>3. lfd # NoFd /\ efd # NoFd
    BY HostAssumption DEF Fds, NoFd
  <2>4. HostTypes'
    BY <2>1 DEF HostInvariant, TypeOK, HostTypes, Phases
  <2>5. SlotTypes' /\ EnvTypes'
    BY <2>1 DEF HostInvariant, TypeOK, SlotTypes, EnvTypes, slotVars
  <2>6. ResultTypes'
    BY <2>1 DEF HostInvariant, TypeOK, ResultTypes, shutdownResult
  <2>7. DrainAccounting'
    BY <1>3, <2>1 DEF HostInvariant, DrainAccounting, slotVars, shutdownResult
  <2>8. RuntimeValid'
    BY <1>3, <2>1, <2>3
       DEF HostInvariant, RuntimeValid, ResultUntouched, shutdownResult
  <2>9. PointMatchesPhase' /\ DeadlineArithmetic'
    BY <2>1, <2>2
       DEF HostInvariant, PointMatchesPhase, DeadlineArithmetic, LocalsDropped
  <2>10. LoopTypes'
    BY <2>2, DroppedLocalsTyped
  <2> QED BY <2>4, <2>5, <2>6, <2>7, <2>8, <2>9, <2>10
          DEF HostInvariant, TypeOK
<1> QED BY <1>1, <1>2, <1>3 DEF Open

(* The drain that waits: the host before it, with the listener gone. *)
LEMMA BeginWaitsEffect ==
  ASSUME HostInvariant, phase = "ACCEPTING", BeginWaits
  PROVE  /\ phase' = "DRAINING" /\ lag' = 0
         /\ now' = now /\ drainDeadline' = now + DrainTimeout
         /\ active' = active
         /\ HostTypes' /\ SlotTypes' /\ ResultTypes' /\ EnvTypes'
         /\ DrainAccounting' /\ RuntimeValid'
<1>1. PICK listenerClose \in MayFail("close") :
    /\ now + DrainTimeout <= ClockMax
    /\ CloseListener
    /\ openFds' = openFds \ {listenerFd}
    /\ firstFailure' = NoteFailure(firstFailure, listenerClose)
    /\ activeAtDrainStart' = Cardinality(active)
    /\ drainStart' = now /\ drainDeadline' = now + DrainTimeout
    /\ phase' = "DRAINING" /\ lag' = 0
    /\ epollFd' = epollFd
    /\ active' = active /\ moreWork' = moreWork /\ connFd' = connFd
    /\ dirty' = dirty
    /\ inactiveBeforeDeadline' = inactiveBeforeDeadline
    /\ forcedAtDeadline' = forcedAtDeadline
    /\ drainFinish' = drainFinish /\ deadlineExpired' = deadlineExpired
    /\ ready' = ready /\ now' = now /\ stop' = stop
  BY DEF BeginWaits, slotVars
<1>2. TypeOK /\ RuntimeValid /\ epollFd # NoFd /\ ResultUntouched
  BY DEF HostInvariant, RuntimeValid
<1>3. Cardinality(active) \in 0 .. SlotCount
  BY <1>2, SlotSets DEF TypeOK, SlotTypes
<1>4. firstFailure' \in Statuses
  BY <1>1, <1>2, FailureStatuses, StatusNoted DEF TypeOK, ResultTypes
<1>5. now + DrainTimeout \in 0 .. ClockMax /\ 0 \in 0 .. ClockMax
      /\ 0 \in 0 .. MaxBacklog
  BY <1>1, <1>2, HostAssumption DEF TypeOK, EnvTypes
<1>6. HostTypes'
  BY <1>1, <1>2, <1>5 DEF TypeOK, HostTypes, CloseListener, Phases
<1>7. SlotTypes'
  BY <1>1, <1>2 DEF TypeOK, SlotTypes
<1>8. ResultTypes'
  BY <1>1, <1>2, <1>3, <1>4 DEF TypeOK, ResultTypes, EnvTypes
<1>9. EnvTypes'
  BY <1>1, <1>2, <1>5 DEF TypeOK, EnvTypes, CloseListener
<1>10. DrainAccounting'
  BY <1>1, <1>2, <1>3 DEF DrainAccounting, ResultUntouched
<1>11. RuntimeValid'
  BY <1>1, <1>2, <1>3 DEF RuntimeValid, ResultUntouched, CloseListener
<1> QED BY <1>1, <1>6, <1>7, <1>8, <1>9, <1>10, <1>11

(* begin_drain on an accepting host closes it or leaves it draining. *)
LEMMA BeginDrainSplits ==
  ASSUME HostInvariant, phase = "ACCEPTING", BeginDrainAccepting
  PROVE  HostCloses \/ BeginWaits
<1> USE StatusConstants
<1>1. /\ drainStart \in 0 .. ClockMax /\ drainDeadline \in 0 .. ClockMax
      /\ now \in 0 .. ClockMax
  BY DEF HostInvariant, TypeOK, ResultTypes, HostTypes, EnvTypes
<1>2. CASE BeginClockFails
  BY <1>1, <1>2, DrainAtOnceCloses DEF BeginClockFails
<1>3. CASE BeginOverflows
  BY <1>1, <1>3, DrainAtOnceCloses DEF BeginOverflows
<1>4. CASE BeginFinishes
  <2>1. now + DrainTimeout \in 0 .. ClockMax
    BY <1>1, <1>4, HostAssumption DEF BeginFinishes
  <2> DEFINE expired == DrainTimeout = 0
  <2>2. expired \in BOOLEAN
    OBVIOUS
  <2>3. /\ DrainAtOnce("ok", "ok", expired, TRUE)
        /\ drainStart' = now /\ drainDeadline' = now + DrainTimeout
    BY <1>4 DEF BeginFinishes
  <2> HIDE DEF expired
  <2> QED BY <1>1, <2>1, <2>2, <2>3, DrainAtOnceCloses
<1> QED BY <1>2, <1>3, <1>4 DEF BeginDrainAccepting

(* What a call that has closed the host returns is a status. *)
LEMMA DrainStatusTyped ==
  ASSUME ResultTypes'
  PROVE  DrainStatus \in Statuses
BY StatusConstants DEF DrainStatus, ResultTypes

LEMMA BeginDrainKeeps ==
  ASSUME HostInvariant, BeginDrain
  PROVE  HostInvariant'
<1> USE StatusConstants
<1>1. CASE Validate /\ phase = "ACCEPTING"
  <2>1. BeginDrainAccepting /\ Return("begin_drain", DrainStatus)
    BY <1>1 DEF BeginDrain
  <2>2. ASSUME ResultTypes'
        PROVE  LocalsDropped /\ pc' = "caller"
    BY <2>1, <2>2, DrainStatusTyped, ReturnDropsLocals DEF Return
  <2>3. CASE HostCloses
    BY <2>2, <2>3, ClosingKeepsInvariant DEF HostCloses, ResultTypes
  <2>4. CASE BeginWaits
    <3>1. /\ phase' = "DRAINING" /\ lag' = 0
          /\ now' = now /\ drainDeadline' = now + DrainTimeout
          /\ HostTypes' /\ SlotTypes' /\ ResultTypes' /\ EnvTypes'
          /\ DrainAccounting' /\ RuntimeValid'
      BY <1>1, <2>4, BeginWaitsEffect
    <3>2. LocalsDropped /\ pc' = "caller"
      BY <2>2, <3>1
    <3>3. PointMatchesPhase'
      BY <3>1, <3>2 DEF PointMatchesPhase, LocalsDropped
    <3>4. now \in Nat
      BY DEF HostInvariant, TypeOK, EnvTypes
    <3>5. DeadlineArithmetic'
      BY <3>1, <3>2, <3>4, HostAssumption DEF DeadlineArithmetic
    <3> QED BY <3>1, <3>2, <3>3, <3>5, DroppedLocalsTyped
            DEF HostInvariant, TypeOK
  <2> QED BY <1>1, <2>1, <2>3, <2>4, BeginDrainSplits
<1>2. CASE Validate /\ phase = "DRAINING"
  <2>1. HostUnchanged /\ Return("begin_drain", "ok")
    BY <1>2 DEF BeginDrain, HostUnchanged
  <2> QED BY <2>1, ReturnDropsLocals, QuietReturn DEF Return
<1>3. CASE Refuse("begin_drain")
  BY <1>3, RefuseKeeps
<1> QED BY <1>1, <1>2, <1>3 DEF BeginDrain

LEMMA CloseKeeps ==
  ASSUME HostInvariant, Close
  PROVE  HostInvariant'
<1> USE StatusConstants
<1>1. CASE ~Validate
  BY <1>1, RefuseKeeps DEF Close
<1>2. CASE Validate /\ phase = "CLOSED"
  <2>1. HostUnchanged /\ Return("close", "ok")
    BY <1>2 DEF Close, HostUnchanged
  <2> QED BY <2>1, ReturnDropsLocals, QuietReturn DEF Return
<1>3. CASE Validate /\ phase # "CLOSED"
  <2>0. Return("close", DrainStatus)
    BY <1>3 DEF Close
  <2>1. ASSUME phase = "PREPARED" PROVE HostCloses
    <3>1. /\ phase' = "CLOSED"
          /\ UNCHANGED <<listenerFd, epollFd, listenerReadable, drainDeadline,
                         slotVars, shutdownResult, envVars, lag>>
      BY <1>3, <2>1 DEF Close, ClosePrepared
    <3>2. /\ ResultUntouched /\ active = {} /\ TypeOK
          /\ listenerFd = NoFd /\ epollFd = NoFd /\ ~listenerReadable
      BY <2>1 DEF HostInvariant, RuntimeValid, DrainAccounting
    <3>3. 0 \in 0 .. SlotCount /\ 0 \in 0 .. ClockMax
      BY HostAssumption
    <3>4. /\ active' = {} /\ moreWork' = {} /\ ready' = {}
          /\ dirty' \in SUBSET Slots
          /\ connFd' \in [Slots -> Fds \cup {NoFd}] /\ openFds' \in SUBSET Fds
          /\ backlog' \in 0 .. MaxBacklog
      BY <3>1, <3>2 DEF TypeOK, SlotTypes, EnvTypes, slotVars, envVars
    <3>5. /\ activeAtDrainStart' = 0 /\ inactiveBeforeDeadline' = 0
          /\ forcedAtDeadline' = 0 /\ drainStart' = 0 /\ drainFinish' = 0
          /\ firstFailure' = "ok" /\ deadlineExpired' = FALSE
          /\ drainDeadline' = 0
      BY <3>1, <3>2 DEF ResultUntouched, shutdownResult, TypeOK, ResultTypes
    <3>6. /\ now' = now /\ stop' = stop /\ lag' = lag
          /\ listenerFd' = NoFd /\ epollFd' = NoFd /\ listenerReadable' = FALSE
      BY <3>1, <3>2 DEF envVars, TypeOK, HostTypes
    <3>7. inactiveBeforeDeadline' + forcedAtDeadline' = activeAtDrainStart'
      BY <3>5
    <3> QED BY <3>1, <3>3, <3>4, <3>5, <3>6, <3>7 DEF HostCloses
  <2>2. ASSUME phase = "ACCEPTING" PROVE HostCloses
    <3>1. /\ DrainAtOnce("ok", "ok", FALSE, FALSE)
          /\ drainStart' = drainStart /\ drainDeadline' = drainDeadline
      BY <1>3, <2>2 DEF Close
    <3>2. drainStart \in 0 .. ClockMax /\ drainDeadline \in 0 .. ClockMax
      BY DEF HostInvariant, TypeOK, ResultTypes, HostTypes
    <3> QED BY <2>2, <3>1, <3>2, DrainAtOnceCloses
  <2>3. ASSUME phase = "DRAINING" PROVE HostCloses
    BY <1>3, <2>3, FinishBegunCloses DEF Close
  <2>4. HostCloses
    BY <1>3, <2>1, <2>2, <2>3 DEF HostInvariant, TypeOK, HostTypes, Phases
  <2>5. ResultTypes'
    BY <2>4 DEF HostCloses, ResultTypes
  <2> QED BY <2>0, <2>4, <2>5, DrainStatusTyped, ReturnDropsLocals,
             ClosingKeepsInvariant
<1> QED BY <1>1, <1>2, <1>3
-----------------------------------------------------------------------------
(***************************************************************************)
(* The loop of run and the entry of a step                                 *)
(***************************************************************************)
LEMMA RunKeeps ==
  ASSUME HostInvariant, Run
  PROVE  HostInvariant'
<1>1. CASE Refuse("run")
  BY <1>1, RefuseKeeps, StatusConstants
<1>2. CASE ~Refuse("run")
  <2>1. /\ phase \in {"ACCEPTING", "DRAINING"}
        /\ pc' = "loop" /\ running' = TRUE
        /\ HostUnchanged
        /\ UNCHANGED <<pending, listenerEvent, remaining, wakeAt, ret>>
    BY <1>2 DEF Run, HostUnchanged
  <2>2. LoopTypes'
    BY <2>1, UnchangedEach DEF HostInvariant, TypeOK, LoopTypes, Points
  <2>3. PointMatchesPhase'
    BY <2>1, UnchangedEach DEF PointMatchesPhase
  <2> QED BY <2>1, <2>2, <2>3, LoopMoves
<1> QED BY <1>1, <1>2

LEMMA StepBodyKeeps ==
  ASSUME HostInvariant, StepBody, pc \in {"caller", "loop"}
  PROVE  HostInvariant'
<1>1. CASE RuntimeValid /\ phase \in {"ACCEPTING", "DRAINING"}
  <2>1. /\ pc' = IF phase = "ACCEPTING" THEN "advance" ELSE "check"
        /\ pending' = IF phase = "ACCEPTING" THEN active \cap moreWork ELSE {}
        /\ UNCHANGED <<running, listenerEvent, remaining, wakeAt, ret>>
        /\ HostUnchanged
    BY <1>1 DEF StepBody, KeepLocals, HostUnchanged
  <2>2. LoopTypes'
    BY <2>1, UnchangedEach DEF HostInvariant, TypeOK, LoopTypes, Points
  <2>3. PointMatchesPhase'
    BY <1>1, <2>1, UnchangedEach DEF PointMatchesPhase
  <2> QED BY <2>1, <2>2, <2>3, LoopMoves
<1>2. CASE ~(RuntimeValid /\ phase \in {"ACCEPTING", "DRAINING"})
  <2>1. StepReturns("einval") /\ HostUnchanged
    BY <1>2 DEF StepBody, HostUnchanged
  <2>2. LocalsDropped
    BY <2>1, StepDropsLocals, StatusConstants DEF HostInvariant, TypeOK
  <2>3. pc' = "stepped" => phase # "PREPARED"
    BY <1>2, <2>1 DEF StepReturns, HostInvariant, PointMatchesPhase
  <2> QED BY <2>1, <2>2, <2>3, QuietReturn
<1> QED BY <1>1, <1>2

LEMMA RunDrainsKeeps ==
  ASSUME HostInvariant, RunDrains
  PROVE  HostInvariant'
<1> USE StatusConstants
<1>0. phase = "ACCEPTING" /\ pc = "loop" /\ running
  BY DEF RunDrains, HostInvariant, PointMatchesPhase
<1>1. CASE ~Validate
  BY <1>1, RefuseKeeps DEF RunDrains
<1>2. CASE Validate
  <2>1. CASE HostCloses
    <3>1. ResultTypes' /\ phase' = "CLOSED"
      BY <2>1 DEF HostCloses, ResultTypes
    <3>2. Return("run", DrainStatus)
      BY <1>2, <3>1 DEF RunDrains
    <3> QED BY <2>1, <3>1, <3>2, DrainStatusTyped, ReturnDropsLocals,
               ClosingKeepsInvariant
  <2>2. CASE BeginWaits
    <3>1. /\ phase' = "DRAINING" /\ lag' = 0 /\ active' = active
          /\ now' = now /\ drainDeadline' = now + DrainTimeout
          /\ HostTypes' /\ SlotTypes' /\ ResultTypes' /\ EnvTypes'
          /\ DrainAccounting' /\ RuntimeValid'
      BY <1>0, <2>2, BeginWaitsEffect
    <3>2. /\ pc' = pc /\ running' = running /\ pending' = pending
          /\ listenerEvent' = listenerEvent /\ remaining' = remaining
          /\ wakeAt' = wakeAt /\ ret' = ret
      BY <1>2, <3>1 DEF RunDrains, loopVars
    <3>3. LoopTypes'
      BY <3>1, <3>2 DEF HostInvariant, TypeOK, LoopTypes
    <3>4. PointMatchesPhase'
      BY <1>0, <3>1, <3>2 DEF PointMatchesPhase
    <3>5. now \in Nat
      BY DEF HostInvariant, TypeOK, EnvTypes
    <3>6. DeadlineArithmetic'
      BY <1>0, <3>1, <3>2, <3>5, HostAssumption DEF DeadlineArithmetic
    <3> QED BY <3>1, <3>3, <3>4, <3>6 DEF HostInvariant, TypeOK
  <2> QED BY <1>0, <1>2, <2>1, <2>2, BeginDrainSplits DEF RunDrains
<1> QED BY <1>1, <1>2

LEMMA RunLooksKeeps ==
  ASSUME HostInvariant, RunLooks
  PROVE  HostInvariant'
<1> USE StatusConstants
<1>0. /\ ret.status \in Statuses /\ firstFailure \in Statuses
      /\ phase \in Phases /\ phase # "PREPARED" /\ running
  BY DEF HostInvariant, TypeOK, LoopTypes, ResultTypes, HostTypes, RunLooks,
         PointMatchesPhase
<1>1. CASE /\ phase = "CLOSED" /\ HostUnchanged
           /\ Return("run", IF ret.status = "ok" THEN firstFailure
                                                 ELSE ret.status)
  <2>1. LocalsDropped /\ pc' = "caller"
    BY <1>0, <1>1, ReturnDropsLocals DEF Return
  <2> QED BY <1>1, <2>1, QuietReturn
<1>2. CASE /\ phase # "CLOSED" /\ Return("run", DrainStatus)
           /\ IF phase = "ACCEPTING"
              THEN /\ DrainAtOnce(ret.status, "ok", FALSE, FALSE)
                   /\ UNCHANGED <<drainStart, drainDeadline>>
              ELSE FinishBegunDrain(ret.status, FALSE, TRUE, FALSE)
  <2>1. drainStart \in 0 .. ClockMax /\ drainDeadline \in 0 .. ClockMax
    BY DEF HostInvariant, TypeOK, ResultTypes, HostTypes
  <2>2. ASSUME phase = "ACCEPTING" PROVE HostCloses
    BY <1>0, <1>2, <2>1, <2>2, DrainAtOnceCloses
  <2>3. ASSUME phase = "DRAINING" PROVE HostCloses
    BY <1>0, <1>2, <2>3, FinishBegunCloses
  <2>4. HostCloses
    BY <1>0, <1>2, <2>2, <2>3 DEF Phases
  <2>5. ResultTypes'
    BY <2>4 DEF HostCloses, ResultTypes
  <2> QED BY <1>2, <2>4, <2>5, DrainStatusTyped, ReturnDropsLocals,
             ClosingKeepsInvariant
<1>3. CASE /\ phase # "CLOSED" /\ pc' = "loop" /\ HostUnchanged
           /\ UNCHANGED <<pending, running, listenerEvent, remaining, wakeAt,
                          ret>>
  <2>1. LoopTypes'
    BY <1>3, UnchangedEach DEF HostInvariant, TypeOK, LoopTypes, Points
  <2>2. PointMatchesPhase'
    BY <1>0, <1>3, UnchangedEach DEF PointMatchesPhase, Phases
  <2> QED BY <1>3, <2>1, <2>2, LoopMoves
<1> QED BY <1>1, <1>2, <1>3 DEF RunLooks, HostUnchanged, KeepLocals
-----------------------------------------------------------------------------
(***************************************************************************)
(* The deadline                                                            *)
(***************************************************************************)

(* Whatever drain_now_or_enforce finds, a host it finishes is closed. *)
LEMMA EnforceCloses ==
  ASSUME HostInvariant, phase = "DRAINING", EnforceFinishes
  PROVE  HostCloses
BY StatusConstants, FinishBegunCloses DEF EnforceFinishes

(* A step that closes the host. *)
LEMMA StepCloses ==
  ASSUME HostInvariant, HostCloses, StepReturns(DrainStatus)
  PROVE  HostInvariant'
<1>1. ResultTypes'
  BY DEF HostCloses, ResultTypes
<1>2. LocalsDropped
  BY <1>1, DrainStatusTyped, StepDropsLocals DEF HostInvariant, TypeOK
<1> QED BY <1>2, ClosingKeepsInvariant

(* Comparing the deadline with the clock sets lag back to zero; what follows
   is the same for the three places of draining_step that do it. *)
LEMMA TimeRemainsKeeps ==
  ASSUME HostInvariant, phase = "DRAINING", TimeRemains, LoopTypes',
         PointMatchesPhase',
         pc' = "enter" => now + remaining' <= drainDeadline,
         pc' # "wait"
  PROVE  HostInvariant'
<1>1. /\ CoreUnchanged /\ lag' = 0 /\ now < drainDeadline
      /\ openFds' = openFds /\ backlog' = backlog /\ ready' = ready
      /\ now' = now /\ stop' = stop
  BY DEF TimeRemains, CoreUnchanged, envVars
<1>2. Core'
  BY <1>1, CoreKept DEF HostInvariant, TypeOK, Core
<1>3. now \in Nat /\ drainDeadline \in Nat /\ 0 \in 0 .. ClockMax
  BY HostAssumption DEF HostInvariant, TypeOK, EnvTypes, HostTypes
<1>4. EnvTypes'
  BY <1>1, <1>3, CoreEach DEF HostInvariant, TypeOK, EnvTypes
<1>5. DeadlineArithmetic'
  BY <1>1, <1>3, CoreEach DEF DeadlineArithmetic
<1> QED BY <1>2, <1>4, <1>5 DEF HostInvariant, TypeOK, Core

LEMMA DrainCheckKeeps ==
  ASSUME HostInvariant, DrainCheck
  PROVE  HostInvariant'
<1>0. phase = "DRAINING"
  BY DEF DrainCheck, HostInvariant, PointMatchesPhase
<1>1. CASE EnforceFinishes /\ StepReturns(DrainStatus)
  BY <1>0, <1>1, EnforceCloses, StepCloses
<1>2. CASE /\ TimeRemains
           /\ pc' = "advance" /\ pending' = active \cap moreWork /\ KeepLocals
  <2>1. active' = active /\ phase' = phase
    BY <1>2 DEF TimeRemains, hostVars, slotVars
  <2>2. LoopTypes'
    BY <1>2, <2>1 DEF HostInvariant, TypeOK, LoopTypes, KeepLocals, Points
  <2>3. PointMatchesPhase'
    BY <1>0, <1>2, <2>1 DEF PointMatchesPhase
  <2> QED BY <1>0, <1>2, <2>2, <2>3, TimeRemainsKeeps
<1> QED BY <1>1, <1>2 DEF DrainCheck

LEMMA DrainCountKeeps ==
  ASSUME HostInvariant, DrainCountAndCheck
  PROVE  HostInvariant'
<1>0. phase = "DRAINING"
  BY DEF DrainCountAndCheck
<1>1. CASE /\ active = {} /\ FinishBegunDrain("ok", FALSE, FALSE, TRUE)
           /\ StepReturns(DrainStatus)
  BY <1>0, <1>1, StatusConstants, FinishBegunCloses, StepCloses
<1>2. CASE EnforceFinishes /\ StepReturns(DrainStatus)
  BY <1>0, <1>2, EnforceCloses, StepCloses
<1>3. CASE /\ TimeRemains
           /\ remaining' = drainDeadline - now /\ pc' = "enter"
           /\ UNCHANGED <<pending, running, listenerEvent, wakeAt, ret>>
  <2>1. active' = active /\ phase' = phase /\ now < drainDeadline
    BY <1>3 DEF TimeRemains, hostVars, slotVars
  <2>2. now \in Nat /\ drainDeadline \in 0 .. ClockMax /\ ClockMax \in Nat
    BY HostAssumption DEF HostInvariant, TypeOK, EnvTypes, HostTypes
  <2>3. remaining' \in 0 .. ClockMax /\ now + remaining' <= drainDeadline
    BY <1>3, <2>1, <2>2
  <2>4. LoopTypes'
    BY <1>3, <2>1, <2>3 DEF HostInvariant, TypeOK, LoopTypes, Points
  <2>5. PointMatchesPhase'
    BY <1>0, <1>3, <2>1 DEF PointMatchesPhase
  <2> QED BY <1>0, <1>3, <2>3, <2>4, <2>5, TimeRemainsKeeps
<1> QED BY <1>1, <1>2, <1>3 DEF DrainCountAndCheck

LEMMA DrainBatchKeeps ==
  ASSUME HostInvariant, DrainBatchDone
  PROVE  HostInvariant'
<1>0. phase = "DRAINING"
  BY DEF DrainBatchDone
<1>1. CASE /\ active = {} /\ FinishBegunDrain("ok", FALSE, FALSE, TRUE)
           /\ StepReturns(DrainStatus)
  BY <1>0, <1>1, StatusConstants, FinishBegunCloses, StepCloses
<1>2. CASE EnforceFinishes /\ StepReturns(DrainStatus)
  BY <1>0, <1>2, EnforceCloses, StepCloses
<1>3. CASE TimeRemains /\ StepReturns("ok")
  <2>1. phase' = phase
    BY <1>3 DEF TimeRemains, hostVars
  <2>2. LocalsDropped
    BY <1>3, StepDropsLocals, StatusConstants DEF HostInvariant, TypeOK
  <2>3. PointMatchesPhase'
    BY <1>0, <2>1, <2>2 DEF PointMatchesPhase, LocalsDropped
  <2>4. pc' # "enter" /\ pc' # "wait"
    BY <2>2 DEF LocalsDropped
  <2> QED BY <1>0, <1>3, <2>2, <2>3, <2>4, DroppedLocalsTyped,
             TimeRemainsKeeps
<1> QED BY <1>1, <1>2, <1>3 DEF DrainBatchDone

LEMMA EnterWaitKeeps ==
  ASSUME HostInvariant, EnterWait
  PROVE  HostInvariant'
<1>1. /\ HostUnchanged /\ pc = "enter" /\ pc' = "wait" /\ remaining' = 0
      /\ wakeAt' = Smaller(now + WaitTimeout, ClockMax)
      /\ UNCHANGED <<running, pending, listenerEvent, ret>>
  BY DEF EnterWait, HostUnchanged
<1>2. /\ now \in 0 .. ClockMax /\ remaining \in 0 .. ClockMax
      /\ EventWait \in Nat /\ ClockMax \in Nat
      /\ lag \in 0 .. ClockMax /\ drainDeadline \in 0 .. ClockMax
  BY HostAssumption DEF HostInvariant, TypeOK, EnvTypes, LoopTypes, HostTypes
<1>3. /\ WaitTimeout \in Nat
      /\ phase = "DRAINING" => WaitTimeout <= remaining
  BY <1>2 DEF WaitTimeout, Smaller
<1>4. wakeAt' \in 0 .. ClockMax /\ wakeAt' <= now + WaitTimeout
  BY <1>1, <1>2, <1>3 DEF Smaller
<1>5. LoopTypes'
  <2>1. 0 \in 0 .. ClockMax
    BY <1>2
  <2> QED BY <1>1, <1>4, <2>1, UnchangedEach
          DEF HostInvariant, TypeOK, LoopTypes, Points
<1>6. PointMatchesPhase'
  BY <1>1, UnchangedEach DEF HostInvariant, PointMatchesPhase
<1>7. phase = "DRAINING" => wakeAt' <= drainDeadline + lag
  <2>1. phase = "DRAINING" => now + remaining <= drainDeadline + lag
    BY <1>1 DEF HostInvariant, DeadlineArithmetic
  <2> QED BY <1>2, <1>3, <1>4, <2>1
<1> QED BY <1>1, <1>5, <1>6, <1>7, LoopMoves
-----------------------------------------------------------------------------
(***************************************************************************)
(* A connection is advanced: it stays, with more or less to do, or it is   *)
(* gone, counted exactly when the host drains.                             *)
(***************************************************************************)
LEMMA AdvanceSlotEffect ==
  ASSUME HostInvariant, phase \in {"ACCEPTING", "DRAINING"},
         NEW s \in active, AdvanceSlot(s)
  PROVE  /\ \/ active' = active
                /\ inactiveBeforeDeadline' = inactiveBeforeDeadline
            \/ active' = active \ {s}
                /\ inactiveBeforeDeadline' =
                     IF phase = "DRAINING" THEN inactiveBeforeDeadline + 1
                                           ELSE inactiveBeforeDeadline
         /\ SlotTypes' /\ openFds' \in SUBSET Fds /\ ready' \in SUBSET active'
         /\ firstFailure' \in Statuses
         /\ phase = "ACCEPTING" => firstFailure' = firstFailure
<1>1. /\ active \in SUBSET Slots /\ moreWork \in SUBSET active
      /\ dirty \in SUBSET (Slots \ active)
      /\ connFd \in [Slots -> Fds \cup {NoFd}]
      /\ openFds \in SUBSET Fds /\ ready \in SUBSET active
      /\ firstFailure \in Statuses
  BY DEF HostInvariant, TypeOK, SlotTypes, EnvTypes, ResultTypes
<1>2. CASE SlotWaits(s)
  BY <1>1, <1>2 DEF SlotWaits, SlotTypes
<1>3. CASE SlotHasMoreWork(s)
  BY <1>1, <1>3 DEF SlotHasMoreWork, SlotTypes
<1>4. ASSUME NEW failure \in {"ok", "conn", "close"}, SlotEnds(s, failure)
      PROVE  /\ active' = active \ {s}
             /\ inactiveBeforeDeadline' =
                  IF phase = "DRAINING" THEN inactiveBeforeDeadline + 1
                                        ELSE inactiveBeforeDeadline
             /\ SlotTypes' /\ openFds' \in SUBSET Fds
             /\ ready' \in SUBSET active'
             /\ firstFailure' \in Statuses
             /\ phase = "ACCEPTING" => firstFailure' = firstFailure
  <2>1. /\ active' = active \ {s} /\ moreWork' = moreWork \ {s}
        /\ ready' = ready \ {s} /\ dirty' \in {dirty, dirty \cup {s}}
        /\ connFd' = [connFd EXCEPT ![s] = NoFd]
        /\ openFds' = openFds \ {connFd[s]}
    BY <1>4 DEF SlotEnds, CloseSlot
  <2>2. SlotTypes'
    BY <1>1, <2>1 DEF SlotTypes
  <2>3. failure \in Statuses
    BY StatusConstants
  <2>4. /\ firstFailure' \in Statuses
        /\ phase = "ACCEPTING" => firstFailure' = firstFailure
    BY <1>1, <1>4, <2>3, StatusNoted DEF SlotEnds
  <2> QED BY <1>1, <1>4, <2>1, <2>2, <2>4
          DEF SlotEnds, MarkInactiveBeforeDeadline
<1> QED BY <1>2, <1>3, <1>4 DEF AdvanceSlot

LEMMA AdvanceKeeps ==
  ASSUME HostInvariant, phase \in {"ACCEPTING", "DRAINING"},
         NEW s \in pending, AdvanceSlot(s), pending' = pending \ {s},
         UNCHANGED <<hostVars, activeAtDrainStart, forcedAtDeadline, drainStart,
                     drainFinish, deadlineExpired, pc, backlog, now, stop, lag>>,
         KeepLocals
  PROVE  HostInvariant'
<1>1. /\ phase' = phase /\ listenerFd' = listenerFd /\ epollFd' = epollFd
      /\ listenerReadable' = listenerReadable
      /\ drainDeadline' = drainDeadline
      /\ activeAtDrainStart' = activeAtDrainStart
      /\ forcedAtDeadline' = forcedAtDeadline /\ drainStart' = drainStart
      /\ drainFinish' = drainFinish /\ deadlineExpired' = deadlineExpired
      /\ pc' = pc /\ backlog' = backlog /\ now' = now /\ stop' = stop
      /\ lag' = lag /\ running' = running /\ listenerEvent' = listenerEvent
      /\ remaining' = remaining /\ wakeAt' = wakeAt /\ ret' = ret
  BY DEF hostVars, KeepLocals
<1>2. /\ HostTypes /\ SlotTypes /\ ResultTypes /\ LoopTypes /\ EnvTypes
      /\ DrainAccounting /\ RuntimeValid
      /\ PointMatchesPhase /\ DeadlineArithmetic
  BY DEF HostInvariant, TypeOK
<1>3. s \in active /\ pending \in SUBSET active /\ active \in SUBSET Slots
  BY <1>2 DEF LoopTypes, SlotTypes
<1>4. /\ \/ active' = active
             /\ inactiveBeforeDeadline' = inactiveBeforeDeadline
         \/ active' = active \ {s}
             /\ inactiveBeforeDeadline' =
                  IF phase = "DRAINING" THEN inactiveBeforeDeadline + 1
                                        ELSE inactiveBeforeDeadline
      /\ SlotTypes' /\ openFds' \in SUBSET Fds /\ ready' \in SUBSET active'
      /\ firstFailure' \in Statuses
      /\ phase = "ACCEPTING" => firstFailure' = firstFailure
  BY <1>3, AdvanceSlotEffect
<1>5. Cardinality(active \ {s}) = Cardinality(active) - 1
  BY <1>3, SlotRemoved
<1>6. Cardinality(active) \in 0 .. SlotCount /\ SlotCount \in Nat
      /\ Cardinality(active \ {s}) \in 0 .. SlotCount
  BY <1>3, SlotSets, HostAssumption
<1>7. HostTypes'
  BY <1>1, <1>2 DEF HostTypes
<1>8. /\ phase = "DRAINING" =>
           inactiveBeforeDeadline' + Cardinality(active') = activeAtDrainStart
      /\ phase = "ACCEPTING" =>
           inactiveBeforeDeadline' = inactiveBeforeDeadline
  <2>1. inactiveBeforeDeadline \in Nat /\ activeAtDrainStart \in Nat
    BY <1>2, <1>6 DEF ResultTypes
  <2>2. phase = "DRAINING" =>
          inactiveBeforeDeadline + Cardinality(active) = activeAtDrainStart
    BY <1>2 DEF DrainAccounting
  <2>3. CASE /\ active' = active
             /\ inactiveBeforeDeadline' = inactiveBeforeDeadline
    BY <2>2, <2>3
  <2>4. CASE /\ active' = active \ {s}
             /\ inactiveBeforeDeadline' =
                  IF phase = "DRAINING" THEN inactiveBeforeDeadline + 1
                                        ELSE inactiveBeforeDeadline
    <3>1. Cardinality(active') = Cardinality(active) - 1
      BY <1>5, <2>4
    <3>2. Cardinality(active) \in Int
      BY <1>6
    <3> QED BY <2>1, <2>2, <2>4, <3>1, <3>2
  <2> QED BY <1>4, <2>3, <2>4
<1>9. inactiveBeforeDeadline' \in 0 .. SlotCount
  <2>1. inactiveBeforeDeadline \in 0 .. SlotCount
        /\ activeAtDrainStart \in 0 .. SlotCount
    BY <1>2 DEF ResultTypes
  <2>2. CASE phase = "ACCEPTING"
    BY <1>8, <2>1, <2>2
  <2>3. CASE phase = "DRAINING"
    <3>1. inactiveBeforeDeadline' + Cardinality(active') = activeAtDrainStart
      BY <1>8, <2>3
    <3>2. Cardinality(active') \in 0 .. SlotCount
      BY <1>4, <1>6
    <3>3. inactiveBeforeDeadline' \in Nat
      BY <1>4, <2>1
    <3> QED BY <1>6, <2>1, <3>1, <3>2, <3>3
  <2> QED BY <2>2, <2>3
<1>10. ResultTypes'
  BY <1>1, <1>2, <1>4, <1>9 DEF ResultTypes
<1>11. LoopTypes'
  BY <1>1, <1>2, <1>3, <1>4 DEF LoopTypes
<1>12. EnvTypes'
  BY <1>1, <1>2, <1>4 DEF EnvTypes
<1>13. DrainAccounting'
  BY <1>1, <1>2, <1>8 DEF DrainAccounting
<1>14. RuntimeValid'
  <2>1. CASE phase = "ACCEPTING"
    <3>1. ResultUntouched /\ listenerFd # NoFd /\ epollFd # NoFd
      BY <1>2, <2>1 DEF RuntimeValid
    <3>2. ResultUntouched'
      BY <1>1, <1>4, <1>8, <2>1, <3>1 DEF ResultUntouched
    <3>3. inactiveBeforeDeadline' + forcedAtDeadline' <= activeAtDrainStart'
      BY <3>2 DEF ResultUntouched
    <3> QED BY <1>1, <2>1, <3>1, <3>2, <3>3 DEF RuntimeValid
  <2>2. CASE phase = "DRAINING"
    <3>1. forcedAtDeadline = 0
      BY <1>2, <2>2 DEF DrainAccounting
    <3>2. Cardinality(active') \in Nat /\ inactiveBeforeDeadline' \in Nat
      <4>1. Cardinality(active') \in 0 .. SlotCount
        BY <1>4, <1>6
      <4>2. inactiveBeforeDeadline' \in Nat
        BY <1>9
      <4> QED BY <4>1, <4>2
    <3>3. inactiveBeforeDeadline' + forcedAtDeadline' <= activeAtDrainStart'
      <4>1. inactiveBeforeDeadline' + Cardinality(active') = activeAtDrainStart
        BY <1>8, <2>2
      <4> QED BY <1>1, <3>1, <3>2, <4>1
    <3> QED BY <1>1, <1>2, <2>2, <3>3 DEF RuntimeValid
  <2> QED BY <2>1, <2>2
<1>15. PointMatchesPhase' /\ DeadlineArithmetic'
  BY <1>1, <1>2 DEF PointMatchesPhase, DeadlineArithmetic
<1> QED BY <1>4, <1>7, <1>10, <1>11, <1>12, <1>13, <1>14, <1>15
        DEF HostInvariant, TypeOK

LEMMA AdvanceBufferedKeeps ==
  ASSUME HostInvariant, AdvanceBuffered
  PROVE  HostInvariant'
<1>1. phase \in {"ACCEPTING", "DRAINING"}
  BY DEF AdvanceBuffered, HostInvariant, PointMatchesPhase
<1> QED BY <1>1, AdvanceKeeps DEF AdvanceBuffered

LEMMA HandleEventKeeps ==
  ASSUME HostInvariant, HandleEvent
  PROVE  HostInvariant'
<1>1. phase \in {"ACCEPTING", "DRAINING"}
  BY DEF HandleEvent, HostInvariant, PointMatchesPhase
<1> QED BY <1>1, AdvanceKeeps DEF HandleEvent
-----------------------------------------------------------------------------
(***************************************************************************)
(* The rest of a step: the listener, the wait, the accept                  *)
(***************************************************************************)

(* set_listener_readable on an accepting host changes nothing else. *)
LEMMA ListenerFlagKept ==
  ASSUME HostInvariant, phase = "ACCEPTING",
         NEW readable \in BOOLEAN, SetListenerReadable(readable)
  PROVE  OutsideLoop' /\ phase' = phase /\ active' = active
         /\ now' = now /\ lag' = lag
<1>1. /\ phase' = phase /\ listenerFd' = listenerFd /\ epollFd' = epollFd
      /\ listenerReadable' = readable /\ drainDeadline' = drainDeadline
      /\ active' = active /\ moreWork' = moreWork /\ connFd' = connFd
      /\ dirty' = dirty
      /\ activeAtDrainStart' = activeAtDrainStart
      /\ inactiveBeforeDeadline' = inactiveBeforeDeadline
      /\ forcedAtDeadline' = forcedAtDeadline
      /\ drainStart' = drainStart /\ drainFinish' = drainFinish
      /\ firstFailure' = firstFailure /\ deadlineExpired' = deadlineExpired
      /\ openFds' = openFds /\ backlog' = backlog /\ ready' = ready
      /\ now' = now /\ stop' = stop /\ lag' = lag
  BY DEF SetListenerReadable, slotVars, shutdownResult, envVars
<1>2. HostTypes' /\ SlotTypes' /\ ResultTypes' /\ EnvTypes'
  BY <1>1 DEF HostInvariant, TypeOK, HostTypes, SlotTypes, ResultTypes, EnvTypes
<1>3. DrainAccounting'
  BY <1>1 DEF HostInvariant, DrainAccounting
<1>4. RuntimeValid'
  BY <1>1 DEF HostInvariant, RuntimeValid, ResultUntouched
<1> QED BY <1>1, <1>2, <1>3, <1>4 DEF OutsideLoop

(* A loop that moved on an accepting host: no deadline to keep. *)
LEMMA AcceptingMoves ==
  ASSUME HostInvariant, OutsideLoop', phase' = "ACCEPTING",
         now' = now, lag' = lag, LoopTypes', PointMatchesPhase'
  PROVE  HostInvariant'
<1>1. DeadlineArithmetic'
  BY DEF HostInvariant, DeadlineArithmetic
<1> QED BY <1>1 DEF HostInvariant, OutsideLoop, TypeOK

(* A step of an accepting host that returns, with or without a change. *)
LEMMA AcceptingReturns ==
  ASSUME HostInvariant, phase = "ACCEPTING", OutsideLoop', phase' = phase,
         now' = now, lag' = lag, NEW status \in Statuses, StepReturns(status)
  PROVE  HostInvariant'
<1>1. LocalsDropped
  BY StepDropsLocals DEF HostInvariant, TypeOK
<1>2. PointMatchesPhase'
  BY <1>1 DEF PointMatchesPhase, LocalsDropped
<1> QED BY <1>1, <1>2, DroppedLocalsTyped, AcceptingMoves

LEMMA RearmKeeps ==
  ASSUME HostInvariant, RearmOrEnter
  PROVE  HostInvariant'
<1>0. phase = "ACCEPTING" /\ OutsideLoop
  BY InvariantParts DEF RearmOrEnter
<1>1. CASE /\ SetListenerReadable(TRUE) \/ HostUnchanged
           /\ pc' = "enter" /\ UNCHANGED pending /\ KeepLocals
  <2>1. OutsideLoop' /\ phase' = phase /\ active' = active
        /\ now' = now /\ lag' = lag
    BY <1>0, <1>1, ListenerFlagKept, FrameKeepsOutside, UnchangedEach
  <2>2. LoopTypes'
    BY <1>1, <2>1 DEF HostInvariant, TypeOK, LoopTypes, KeepLocals, Points
  <2>3. PointMatchesPhase'
    BY <1>0, <1>1, <2>1 DEF PointMatchesPhase
  <2> QED BY <1>0, <2>1, <2>2, <2>3, AcceptingMoves
<1>2. CASE StepReturns("epoll") /\ HostUnchanged
  BY <1>0, <1>2, FrameKeepsOutside, UnchangedEach, StatusConstants,
     AcceptingReturns
<1> QED BY <1>1, <1>2 DEF RearmOrEnter, HostUnchanged

LEMMA AcceptFullKeeps ==
  ASSUME HostInvariant, AcceptFull
  PROVE  HostInvariant'
<1>0. phase = "ACCEPTING" /\ OutsideLoop
  BY InvariantParts DEF AcceptFull, HostInvariant, PointMatchesPhase
<1>1. CASE SetListenerReadable(FALSE) /\ StepReturns("ok")
  BY <1>0, <1>1, ListenerFlagKept, StatusConstants, AcceptingReturns
<1>2. CASE StepReturns("epoll") /\ HostUnchanged
  BY <1>0, <1>2, FrameKeepsOutside, UnchangedEach, StatusConstants,
     AcceptingReturns
<1> QED BY <1>1, <1>2 DEF AcceptFull, HostUnchanged

LEMMA BatchDoneKeeps ==
  ASSUME HostInvariant, BatchDone
  PROVE  HostInvariant'
<1>0. /\ phase = "ACCEPTING" /\ HostUnchanged
      /\ OutsideLoop' /\ phase' = phase /\ active' = active
      /\ now' = now /\ lag' = lag
  BY InvariantParts, FrameKeepsOutside, UnchangedEach
     DEF BatchDone, HostUnchanged
<1>1. CASE pc' = "accept" /\ UNCHANGED pending /\ KeepLocals
  <2>1. LoopTypes'
    BY <1>0, <1>1 DEF HostInvariant, TypeOK, LoopTypes, KeepLocals, Points
  <2>2. PointMatchesPhase'
    BY <1>0, <1>1 DEF PointMatchesPhase
  <2> QED BY <1>0, <2>1, <2>2, AcceptingMoves
<1>2. CASE StepReturns("ok")
  BY <1>0, <1>2, StatusConstants, AcceptingReturns
<1> QED BY <1>1, <1>2 DEF BatchDone

LEMMA WaitReturnsKeeps ==
  ASSUME HostInvariant, WaitReturns
  PROVE  HostInvariant'
<1>1. /\ HostUnchanged /\ pc = "wait" /\ pc' = "events" /\ wakeAt' = 0
      /\ running' = running /\ remaining' = remaining /\ ret' = ret
  BY DEF WaitReturns, HostUnchanged
<1>2. PICK batch \in SUBSET ready, listener \in {FALSE, ListenerReady} :
        pending' = batch /\ listenerEvent' = listener
  BY DEF WaitReturns
<1>3. ready \in SUBSET active /\ backlog \in 0 .. MaxBacklog
      /\ listenerReadable \in BOOLEAN /\ 0 \in 0 .. ClockMax
  BY HostAssumption DEF HostInvariant, TypeOK, EnvTypes, HostTypes
<1>4. ListenerReady \in BOOLEAN
  BY <1>3 DEF ListenerReady
<1>5. LoopTypes'
  BY <1>1, <1>2, <1>3, <1>4, UnchangedEach
     DEF HostInvariant, TypeOK, LoopTypes, Points
<1>6. PointMatchesPhase'
  BY <1>1, UnchangedEach DEF HostInvariant, PointMatchesPhase
<1> QED BY <1>1, <1>5, <1>6, LoopMoves

LEMMA WaitFailsKeeps ==
  ASSUME HostInvariant, WaitFails
  PROVE  HostInvariant'
<1>0. phase \in {"ACCEPTING", "DRAINING"} /\ OutsideLoop
  BY InvariantParts DEF WaitFails, HostInvariant, PointMatchesPhase
<1>1. CASE phase = "ACCEPTING"
  <2>1. StepReturns("epoll") /\ HostUnchanged
    BY <1>1 DEF WaitFails, HostUnchanged
  <2> QED BY <1>0, <1>1, <2>1, FrameKeepsOutside, UnchangedEach,
             StatusConstants, AcceptingReturns
<1>2. CASE phase = "DRAINING"
  <2>1. FinishBegunDrain("epoll", FALSE, TRUE, TRUE) /\ StepReturns(DrainStatus)
    BY <1>2 DEF WaitFails
  <2> QED BY <1>2, <2>1, StatusConstants, FinishBegunCloses, StepCloses
<1> QED BY <1>0, <1>1, <1>2

(* A free slot is reset, and takes a connection if there is one. *)
LEMMA AcceptReadyKeeps ==
  ASSUME HostInvariant, AcceptReady
  PROVE  HostInvariant'
<1>1. PICK s \in Slots \ active : AcceptInto(s)
  BY DEF AcceptReady
<1>2. /\ phase = "ACCEPTING" /\ pc = "accept"
      /\ phase' = phase /\ listenerFd' = listenerFd /\ epollFd' = epollFd
      /\ listenerReadable' = listenerReadable
      /\ drainDeadline' = drainDeadline
      /\ activeAtDrainStart' = activeAtDrainStart
      /\ inactiveBeforeDeadline' = inactiveBeforeDeadline
      /\ forcedAtDeadline' = forcedAtDeadline
      /\ drainStart' = drainStart /\ drainFinish' = drainFinish
      /\ firstFailure' = firstFailure /\ deadlineExpired' = deadlineExpired
      /\ ready' = ready /\ now' = now /\ stop' = stop /\ lag' = lag
  BY DEF AcceptReady, HostInvariant, PointMatchesPhase, hostVars, shutdownResult
<1>3. /\ active \in SUBSET Slots /\ moreWork \in SUBSET active
      /\ dirty \in SUBSET (Slots \ active)
      /\ connFd \in [Slots -> Fds \cup {NoFd}]
      /\ openFds \in SUBSET Fds /\ ready \in SUBSET active
      /\ backlog \in 0 .. MaxBacklog /\ MaxBacklog \in Nat
      /\ pending \in SUBSET active
  BY HostAssumption
     DEF HostInvariant, TypeOK, SlotTypes, EnvTypes, LoopTypes
<1>4. HostTypes' /\ ResultTypes'
  BY <1>2 DEF HostInvariant, TypeOK, HostTypes, ResultTypes
<1>5. RuntimeValid' /\ DrainAccounting'
  BY <1>2 DEF HostInvariant, RuntimeValid, ResultUntouched, DrainAccounting
<1>6. ASSUME NEW status \in Statuses, StepReturns(status),
             dirty' = dirty \ {s}, backlog' \in {backlog, backlog - 1} \cap Nat,
             UNCHANGED <<active, moreWork, connFd, openFds>>
      PROVE  HostInvariant'
  <2>1. backlog' \in 0 .. MaxBacklog
    BY <1>3, <1>6
  <2>2. SlotTypes'
    BY <1>3, <1>6 DEF SlotTypes
  <2>3. EnvTypes'
    BY <1>2, <1>3, <1>6, <2>1 DEF HostInvariant, TypeOK, EnvTypes
  <2> QED BY <1>2, <1>4, <1>5, <1>6, <2>2, <2>3, AcceptingReturns
          DEF OutsideLoop
<1>7. CASE backlog = 0 /\ StepReturns("ok") /\ dirty' = dirty \ {s}
           /\ UNCHANGED <<active, moreWork, connFd, openFds, backlog>>
  BY <1>6, <1>7, StatusConstants
<1>8. CASE StepReturns("accept") /\ dirty' = dirty \ {s}
           /\ backlog' \in {backlog, backlog - 1} \cap Nat
           /\ UNCHANGED <<active, moreWork, connFd, openFds>>
  BY <1>6, <1>8, StatusConstants
<1>9. ASSUME NEW fd \in Fds,
             backlog > 0, backlog' = backlog - 1,
             openFds' = openFds \cup {fd},
             connFd' = [connFd EXCEPT ![s] = fd],
             active' = active \cup {s}, moreWork' = moreWork \ {s},
             dirty' = dirty \ {s},
             UNCHANGED <<pc, pending>>, KeepLocals
      PROVE  HostInvariant'
  <2>1. SlotTypes'
    BY <1>3, <1>9 DEF SlotTypes
  <2>2. backlog' \in 0 .. MaxBacklog
    BY <1>3, <1>9
  <2>3. EnvTypes'
    BY <1>2, <1>3, <1>9, <2>2 DEF HostInvariant, TypeOK, EnvTypes
  <2>4. LoopTypes'
    BY <1>3, <1>9 DEF HostInvariant, TypeOK, LoopTypes, KeepLocals
  <2>5. PointMatchesPhase'
    BY <1>2, <1>9 DEF PointMatchesPhase
  <2> QED BY <1>2, <1>4, <1>5, <2>1, <2>3, <2>4, <2>5, AcceptingMoves
          DEF OutsideLoop
<1> QED BY <1>1, <1>7, <1>8, <1>9 DEF AcceptInto
-----------------------------------------------------------------------------
(***************************************************************************)
(* The environment                                                         *)
(***************************************************************************)

(* Peers and the stop signal touch neither the host, its loop nor the clock. *)
LEMMA PeersKeep ==
  ASSUME HostInvariant, CoreUnchanged, UNCHANGED <<loopVars, ret, now, lag>>,
         EnvTypes'
  PROVE  HostInvariant'
<1>1. /\ pc' = pc /\ running' = running /\ pending' = pending
      /\ listenerEvent' = listenerEvent /\ remaining' = remaining
      /\ wakeAt' = wakeAt /\ ret' = ret /\ now' = now /\ lag' = lag
  BY DEF loopVars
<1>2. Core'
  BY CoreKept DEF HostInvariant, TypeOK, Core
<1>3. LoopTypes'
  BY <1>1, CoreEach DEF HostInvariant, TypeOK, LoopTypes
<1>4. PointMatchesPhase' /\ DeadlineArithmetic'
  BY <1>1, CoreEach DEF HostInvariant, PointMatchesPhase, DeadlineArithmetic
<1> QED BY <1>2, <1>3, <1>4 DEF HostInvariant, TypeOK, Core

LEMMA ConnectKeeps ==
  ASSUME HostInvariant, Connect
  PROVE  HostInvariant'
<1>1. CoreUnchanged
  BY DEF Connect, CoreUnchanged
<1>2. EnvTypes'
  BY <1>1, CoreEach, HostAssumption
     DEF Connect, HostInvariant, TypeOK, EnvTypes
<1> QED BY <1>1, <1>2, PeersKeep DEF Connect

LEMMA PeerActsKeeps ==
  ASSUME HostInvariant, NEW s \in Slots, PeerActs(s)
  PROVE  HostInvariant'
<1>1. CoreUnchanged
  BY DEF PeerActs, CoreUnchanged
<1>2. EnvTypes'
  BY <1>1, CoreEach DEF PeerActs, HostInvariant, TypeOK, EnvTypes
<1> QED BY <1>1, <1>2, PeersKeep DEF PeerActs

LEMMA StopSignalKeeps ==
  ASSUME HostInvariant, StopSignal
  PROVE  HostInvariant'
<1>1. CoreUnchanged
  BY DEF StopSignal, CoreUnchanged
<1>2. EnvTypes'
  BY <1>1, CoreEach DEF StopSignal, HostInvariant, TypeOK, EnvTypes
<1> QED BY <1>1, <1>2, PeersKeep DEF StopSignal

(* Time moves the clock and, outside the wait, lag with it; inside the wait it
   stops at the wait's end, which is not past the deadline. *)
LEMMA TickKeeps ==
  ASSUME HostInvariant, Tick
  PROVE  HostInvariant'
<1>1. /\ CoreUnchanged /\ now < ClockMax /\ now' = now + 1
      /\ ~(pc = "wait" /\ now >= wakeAt)
      /\ lag' = IF phase = "DRAINING" /\ pc # "wait" THEN lag + 1 ELSE lag
      /\ pc' = pc /\ running' = running /\ pending' = pending
      /\ listenerEvent' = listenerEvent /\ remaining' = remaining
      /\ wakeAt' = wakeAt /\ ret' = ret
      /\ openFds' = openFds /\ backlog' = backlog /\ ready' = ready
      /\ stop' = stop
  BY DEF Tick, CoreUnchanged, loopVars
<1>2. /\ now \in 0 .. ClockMax /\ lag \in 0 .. ClockMax /\ ClockMax \in Nat
      /\ wakeAt \in 0 .. ClockMax /\ remaining \in 0 .. ClockMax
      /\ drainDeadline \in 0 .. ClockMax
      /\ DeadlineArithmetic
  BY HostAssumption
     DEF HostInvariant, TypeOK, EnvTypes, LoopTypes, HostTypes
<1>3. lag' \in 0 .. ClockMax /\ now' \in 0 .. ClockMax /\ lag' <= now'
  BY <1>1, <1>2 DEF DeadlineArithmetic
<1>4. Core'
  BY <1>1, CoreKept DEF HostInvariant, TypeOK, Core
<1>5. LoopTypes' /\ PointMatchesPhase'
  BY <1>1, CoreEach DEF HostInvariant, TypeOK, LoopTypes, PointMatchesPhase
<1>6. EnvTypes'
  BY <1>1, <1>3, CoreEach DEF HostInvariant, TypeOK, EnvTypes
<1>7. DeadlineArithmetic'
  <2>1. phase' = phase /\ drainDeadline' = drainDeadline
    BY <1>1, CoreEach
  <2>2. CASE phase = "DRAINING" /\ pc = "wait"
    BY <1>1, <1>2, <1>3, <2>1, <2>2 DEF DeadlineArithmetic
  <2>3. CASE phase = "DRAINING" /\ pc # "wait"
    BY <1>1, <1>2, <1>3, <2>1, <2>3 DEF DeadlineArithmetic
  <2>4. CASE phase # "DRAINING"
    BY <1>3, <2>1, <2>4 DEF DeadlineArithmetic
  <2> QED BY <2>2, <2>3, <2>4
<1> QED BY <1>4, <1>5, <1>6, <1>7 DEF HostInvariant, TypeOK, Core
-----------------------------------------------------------------------------
(***************************************************************************)
(* The invariant                                                           *)
(***************************************************************************)
LEMMA InitEstablishes ==
  ASSUME Init
  PROVE  HostInvariant
<1>1. /\ 0 \in 0 .. SlotCount /\ 0 \in 0 .. ClockMax /\ 0 \in 0 .. MaxBacklog
  BY HostAssumption
<1>2. HostTypes /\ SlotTypes
  BY <1>1 DEF Init, HostTypes, SlotTypes, Phases
<1>3. ResultTypes
  BY <1>1, StatusConstants DEF Init, ResultTypes
<1>4. LoopTypes
  BY <1>1, StatusConstants DEF Init, LoopTypes, Points
<1>5. EnvTypes
  BY <1>1 DEF Init, EnvTypes
<1>6. DrainAccounting /\ RuntimeValid
  BY DEF Init, DrainAccounting, RuntimeValid, ResultUntouched
<1>7. PointMatchesPhase /\ DeadlineArithmetic
  BY DEF Init, PointMatchesPhase, DeadlineArithmetic
<1> QED BY <1>2, <1>3, <1>4, <1>5, <1>6, <1>7 DEF HostInvariant, TypeOK

LEMMA StutterKeeps ==
  ASSUME HostInvariant, UNCHANGED vars
  PROVE  HostInvariant'
<1>1. CoreUnchanged /\ UNCHANGED <<loopVars, ret, now, lag>>
  BY DEF vars, CoreUnchanged, envVars
<1>2. EnvTypes'
  BY <1>1, CoreEach DEF vars, envVars, HostInvariant, TypeOK, EnvTypes
<1> QED BY <1>1, <1>2, PeersKeep

(* The inductive invariant survives every step. *)
LEMMA NextKeeps ==
  ASSUME HostInvariant, [Next]_vars
  PROVE  HostInvariant'
<1>1. CASE CallerActs
  <2>1. CASE Step
    BY <2>1, StepBodyKeeps DEF Step
  <2> QED BY <1>1, <2>1, OpenKeeps, BeginDrainKeeps, CloseKeeps, RunKeeps
          DEF CallerActs
<1>2. CASE HostActs
  <2>1. CASE RunSteps
    BY <2>1, StepBodyKeeps DEF RunSteps
  <2>2. CASE RunDrains \/ RunLooks \/ DrainCheck \/ AdvanceBuffered
    BY <2>2, RunDrainsKeeps, RunLooksKeeps, DrainCheckKeeps, AdvanceBufferedKeeps
  <2>3. CASE RearmOrEnter \/ DrainCountAndCheck \/ EnterWait \/ WaitReturns
    BY <2>3, RearmKeeps, DrainCountKeeps, EnterWaitKeeps, WaitReturnsKeeps
  <2>4. CASE WaitFails \/ HandleEvent \/ BatchDone \/ DrainBatchDone
    BY <2>4, WaitFailsKeeps, HandleEventKeeps, BatchDoneKeeps, DrainBatchKeeps
  <2>5. CASE AcceptFull \/ AcceptReady
    BY <2>5, AcceptFullKeeps, AcceptReadyKeeps
  <2> QED BY <1>2, <2>1, <2>2, <2>3, <2>4, <2>5 DEF HostActs
<1>3. CASE Environment
  BY <1>3, ConnectKeeps, PeerActsKeeps, StopSignalKeeps, TickKeeps
     DEF Environment
<1>4. CASE UNCHANGED vars
  BY <1>4, StutterKeeps
<1> QED BY <1>1, <1>2, <1>3, <1>4 DEF Next

(* HostInvariant is an invariant of the host: Init establishes it and every
   handler keeps it. *)
THEOREM InvariantHolds == Spec => []HostInvariant
<1>1. Init => HostInvariant
  BY InitEstablishes
<1>2. HostInvariant /\ [Next]_vars => HostInvariant'
  BY NextKeeps
<1> QED BY <1>1, <1>2, PTL DEF Spec

(* Every variable of the host keeps its type. *)
THEOREM TypeCorrect == Spec => []TypeOK
<1>1. HostInvariant => TypeOK
  BY DEF HostInvariant
<1> QED BY <1>1, InvariantHolds, PTL

(* Every connection present when a drain begins is counted once: departed,
   forced, or still there; finish_drain loses none. *)
THEOREM AccountingHolds == Spec => []DrainAccounting
<1>1. HostInvariant => DrainAccounting
  BY DEF HostInvariant
<1> QED BY <1>1, InvariantHolds, PTL

(* host_runtime_validate accepts the host wherever its handlers leave it, so a
   step is never refused for the state it finds. *)
THEOREM HostValidHolds == Spec => []HostStaysValid
<1>1. HostInvariant => HostStaysValid
  BY DEF HostInvariant, HostStaysValid, DrainAccounting, TypeOK, HostTypes,
         Phases
<1> QED BY <1>1, InvariantHolds, PTL

(* The wait of draining_step never sleeps through the deadline. *)
THEOREM DeadlineHolds == Spec => []WaitRespectsDeadline
<1>1. HostInvariant => WaitRespectsDeadline
  BY DEF HostInvariant, WaitRespectsDeadline, DeadlineArithmetic
<1> QED BY <1>1, InvariantHolds, PTL
-----------------------------------------------------------------------------
(***************************************************************************)
(* What a step can be.  The rest needs no more of a step than this: it     *)
(* leaves the connections, the descriptors and the drain alone, or it      *)
(* opens the host, or takes in or loses one connection, or begins a drain, *)
(* or closes the host.                                                     *)
(***************************************************************************)
StepQuiet ==
  UNCHANGED <<phase, listenerFd, epollFd, drainDeadline, active, connFd, openFds,
              activeAtDrainStart, inactiveBeforeDeadline, forcedAtDeadline, drainStart,
              firstFailure>>

StepOpens ==
  /\ phase = "PREPARED" /\ phase' = "ACCEPTING"
  /\ \E lfd, efd \in Fds :
       /\ lfd # efd /\ listenerFd' = lfd /\ epollFd' = efd
       /\ openFds' = openFds \cup {lfd, efd}
  /\ UNCHANGED <<active, connFd, activeAtDrainStart, inactiveBeforeDeadline,
                 forcedAtDeadline, firstFailure>>

StepArrives ==
  /\ phase = "ACCEPTING"
  /\ \E s \in Slots \ active, fd \in Fds \ openFds :
       /\ active' = active \cup {s} /\ connFd' = [connFd EXCEPT ![s] = fd]
       /\ openFds' = openFds \cup {fd}
  /\ UNCHANGED <<phase, listenerFd, epollFd, activeAtDrainStart, inactiveBeforeDeadline,
                 forcedAtDeadline, firstFailure>>

StepLeaves ==
  /\ phase \in {"ACCEPTING", "DRAINING"}
  /\ \E s \in active :
       /\ active' = active \ {s} /\ connFd' = [connFd EXCEPT ![s] = NoFd]
       /\ openFds' = openFds \ {connFd[s]}
  /\ inactiveBeforeDeadline' =
       IF phase = "DRAINING" THEN inactiveBeforeDeadline + 1 ELSE inactiveBeforeDeadline
  /\ phase = "ACCEPTING" \/ firstFailure # "ok" => UNCHANGED firstFailure
  /\ UNCHANGED <<phase, listenerFd, epollFd, drainDeadline, drainStart, activeAtDrainStart,
                 forcedAtDeadline>>

\* What every way of closing an open host has in common.
ClosesOpen ==
  /\ phase' = "CLOSED" /\ active' = {}
  /\ listenerFd' = NoFd /\ epollFd' = NoFd
  /\ openFds' = {} /\ connFd' = [s \in Slots |-> NoFd]
  /\ forcedAtDeadline' = Cardinality(active)
  /\ UNCHANGED inactiveBeforeDeadline
  /\ \/ ~running
     \/ active = {}
     \/ deadlineExpired' /\ now >= drainDeadline'
     \/ firstFailure' # "ok"

StepShuts ==
  \/ /\ phase = "PREPARED" /\ phase' = "CLOSED"
     /\ UNCHANGED <<listenerFd, epollFd, active, connFd, openFds, activeAtDrainStart,
                    inactiveBeforeDeadline, forcedAtDeadline, firstFailure>>
  \/ /\ phase = "ACCEPTING" /\ ClosesOpen
     /\ activeAtDrainStart' = Cardinality(active)
  \/ /\ phase = "DRAINING" /\ ClosesOpen
     /\ firstFailure # "ok" => UNCHANGED firstFailure
     /\ UNCHANGED <<drainDeadline, drainStart, activeAtDrainStart>>

StepKind ==
  \/ StepQuiet \/ StepOpens \/ StepArrives \/ StepLeaves
  \/ phase = "ACCEPTING" /\ BeginWaits
  \/ StepShuts

(* finish_drain closes every descriptor that is still open, and keeps the  *)
(* failure it was called with.                                             *)
LEMMA FinishDrainFrees ==
  ASSUME HostInvariant, DescriptorsOwned,
         NEW first \in Statuses, NEW expired \in BOOLEAN, NEW force \in BOOLEAN,
         NEW capture \in BOOLEAN, NEW open, open = openFds \ {listenerFd},
         force \/ active = {},
         FinishDrain(first, open, expired, force, capture)
  PROVE  /\ openFds' = {} /\ connFd' = [s \in Slots |-> NoFd] /\ epollFd' = NoFd
         /\ first # "ok" => firstFailure' = first
         /\ expired => deadlineExpired'
<1> DEFINE closed == IF force THEN active ELSE {}
<1>1. PICK slotClose \in MayFail("close"), epollClose \in MayFail("close"),
           clock \in MayFail("clock"), left \in SUBSET closed :
    /\ firstFailure' = NoteFailure(NoteFailure(NoteFailure(first, slotClose),
                                               epollClose), clock)
    /\ deadlineExpired' = (deadlineExpired \/ expired)
    /\ connFd' = [s \in Slots |-> IF s \in closed THEN NoFd ELSE connFd[s]]
    /\ openFds' = open \ ({epollFd} \cup {connFd[s] : s \in closed})
    /\ epollFd' = NoFd
  BY DEF FinishDrain
<1>2. closed = active
  OBVIOUS
<1>3. /\ \A s \in Slots : s \notin active => connFd[s] = NoFd
      /\ openFds = ({connFd[s] : s \in active} \cup {listenerFd, epollFd}) \ {NoFd}
  BY DEF DescriptorsOwned
<1>4. connFd' = [s \in Slots |-> NoFd]
  BY <1>1, <1>2, <1>3
<1>5. openFds' = {}
  BY <1>1, <1>2, <1>3
<1>6. first # "ok" => firstFailure' = first
  BY <1>1 DEF NoteFailure
<1> QED BY <1>1, <1>4, <1>5, <1>6

LEMMA DrainAtOnceKind ==
  ASSUME HostInvariant, DescriptorsOwned, phase = "ACCEPTING",
         NEW before \in Statuses, NEW after \in Statuses,
         NEW expired \in BOOLEAN, NEW capture \in BOOLEAN,
         DrainAtOnce(before, after, expired, capture),
         \/ ~running \/ active = {}
         \/ expired /\ now >= drainDeadline'
         \/ before # "ok" \/ after # "ok"
  PROVE  StepShuts
<1>1. PICK listenerClose \in MayFail("close") :
    /\ CloseListener
    /\ FinishDrain(NoteFailure(NoteFailure(NoteFailure(firstFailure, before),
                                           listenerClose), after),
                   openFds \ {listenerFd}, expired, TRUE, capture)
  BY DEF DrainAtOnce
<1> DEFINE noted == NoteFailure(NoteFailure(NoteFailure(firstFailure, before),
                                            listenerClose), after)
           open == openFds \ {listenerFd}
<1>2. noted \in Statuses
  BY FailureStatuses, StatusNoted DEF HostInvariant, TypeOK, ResultTypes
<1>3. before # "ok" \/ after # "ok" => noted # "ok"
  BY DEF NoteFailure
<1> HIDE DEF noted
<1>4. FinishDrain(noted, open, expired, TRUE, capture)
  BY <1>1 DEF noted
<1>5. /\ openFds' = {} /\ connFd' = [s \in Slots |-> NoFd] /\ epollFd' = NoFd
      /\ noted # "ok" => firstFailure' = noted
      /\ expired => deadlineExpired'
  <2> HIDE DEF open
  <2>1. open = openFds \ {listenerFd}
    BY DEF open
  <2> QED BY <1>2, <1>4, <2>1, FinishDrainFrees
<1>6. /\ phase' = "CLOSED" /\ active' = {}
      /\ listenerFd' = NoFd
      /\ activeAtDrainStart' = Cardinality(active)
      /\ forcedAtDeadline' = Cardinality(active)
      /\ inactiveBeforeDeadline' = 0
  BY DrainAtOnceEffect
<1>7. inactiveBeforeDeadline = 0
  BY DEF HostInvariant, DrainAccounting
<1> QED BY <1>3, <1>5, <1>6, <1>7 DEF StepShuts, ClosesOpen

LEMMA FinishBegunKind ==
  ASSUME HostInvariant, DescriptorsOwned, phase = "DRAINING",
         NEW failure \in Statuses, NEW expired \in BOOLEAN,
         NEW force \in BOOLEAN, NEW capture \in BOOLEAN,
         force \/ active = {},
         FinishBegunDrain(failure, expired, force, capture),
         \/ ~running \/ active = {}
         \/ expired /\ now >= drainDeadline
         \/ failure # "ok"
  PROVE  StepShuts
<1> DEFINE noted == NoteFailure(firstFailure, failure)
<1>1. FinishDrain(noted, openFds, expired, force, capture)
  BY DEF FinishBegunDrain
<1>2. noted \in Statuses /\ listenerFd = NoFd
  BY StatusNoted DEF HostInvariant, TypeOK, ResultTypes, RuntimeValid
<1>3. /\ firstFailure # "ok" => noted = firstFailure
      /\ failure # "ok" => noted # "ok"
  BY DEF NoteFailure
<1> HIDE DEF noted
<1>4. openFds = openFds \ {listenerFd}
  BY <1>2 DEF DescriptorsOwned
<1>5. /\ openFds' = {} /\ connFd' = [s \in Slots |-> NoFd] /\ epollFd' = NoFd
      /\ noted # "ok" => firstFailure' = noted
      /\ expired => deadlineExpired'
  BY <1>1, <1>2, <1>4, FinishDrainFrees
<1>6. /\ phase' = "CLOSED" /\ active' = {}
      /\ forcedAtDeadline' = Cardinality(active)
      /\ UNCHANGED <<listenerFd, drainDeadline, drainStart, activeAtDrainStart,
                     inactiveBeforeDeadline>>
  BY FinishBegunEffect
<1> QED BY <1>2, <1>3, <1>5, <1>6 DEF StepShuts, ClosesOpen

(* A drain begun on an accepting host closes it, with a cause, or waits. *)
LEMMA BeginDrainKind ==
  ASSUME HostInvariant, DescriptorsOwned, phase = "ACCEPTING", BeginDrainAccepting
  PROVE  StepShuts \/ BeginWaits
<1> USE StatusConstants
<1>1. CASE BeginClockFails
  BY <1>1, DrainAtOnceKind DEF BeginClockFails
<1>2. CASE BeginOverflows
  BY <1>2, DrainAtOnceKind DEF BeginOverflows
<1>3. CASE BeginFinishes
  <2> DEFINE expired == DrainTimeout = 0
  <2>1. /\ DrainAtOnce("ok", "ok", expired, TRUE) /\ drainDeadline' = now + DrainTimeout
        /\ expired \/ active = {}
    BY <1>3 DEF BeginFinishes
  <2>2. expired => now >= drainDeadline'
    <3>1. now \in Nat
      BY DEF HostInvariant, TypeOK, EnvTypes
    <3> QED BY <2>1, <3>1
  <2>3. expired \in BOOLEAN
    OBVIOUS
  <2> HIDE DEF expired
  <2> QED BY <2>1, <2>2, <2>3, DrainAtOnceKind
<1> QED BY <1>1, <1>2, <1>3 DEF BeginDrainAccepting

LEMMA EnforceKind ==
  ASSUME HostInvariant, DescriptorsOwned, phase = "DRAINING", EnforceFinishes
  PROVE  StepShuts
BY StatusConstants, FinishBegunKind DEF EnforceFinishes

(* What leaves the core of the host and its descriptors alone is quiet. *)
LEMMA QuietKind ==
  ASSUME CoreUnchanged, openFds' = openFds
  PROVE  StepQuiet
BY CoreEach DEF StepQuiet

(* Advancing a connection keeps it, or it leaves. *)
LEMMA AdvanceKind ==
  ASSUME HostInvariant, DescriptorsOwned, phase \in {"ACCEPTING", "DRAINING"},
         NEW s \in pending, AdvanceSlot(s),
         UNCHANGED <<hostVars, activeAtDrainStart, forcedAtDeadline, drainStart>>
  PROVE  StepQuiet \/ StepLeaves
<1>1. s \in active
  BY DEF HostInvariant, TypeOK, LoopTypes
<1>2. UNCHANGED <<phase, listenerFd, epollFd, drainDeadline, activeAtDrainStart,
                  forcedAtDeadline, drainStart>>
  BY DEF hostVars
<1>3. CASE SlotWaits(s) \/ SlotHasMoreWork(s)
  BY <1>2, <1>3 DEF StepQuiet, SlotWaits, SlotHasMoreWork
<1>4. ASSUME NEW failure \in Statuses, SlotEnds(s, failure)
      PROVE  StepLeaves
  <2>1. phase = "ACCEPTING" \/ firstFailure # "ok" => UNCHANGED firstFailure
    BY <1>4 DEF SlotEnds, NoteFailure
  <2>2. inactiveBeforeDeadline' =
          IF phase = "DRAINING" THEN inactiveBeforeDeadline + 1 ELSE inactiveBeforeDeadline
    BY <1>4 DEF SlotEnds, MarkInactiveBeforeDeadline
  <2>3. /\ active' = active \ {s} /\ connFd' = [connFd EXCEPT ![s] = NoFd]
        /\ openFds' = openFds \ {connFd[s]}
    BY <1>4 DEF SlotEnds, CloseSlot
  <2> QED BY <1>1, <1>2, <2>1, <2>2, <2>3 DEF StepLeaves
<1> QED BY <1>3, <1>4, StatusConstants DEF AdvanceSlot

LEMMA AcceptKind ==
  ASSUME HostInvariant, AcceptReady
  PROVE  StepQuiet \/ StepArrives
<1>1. PICK s \in Slots \ active : AcceptInto(s)
  BY DEF AcceptReady
<1>2. /\ phase = "ACCEPTING"
      /\ UNCHANGED <<phase, listenerFd, epollFd, drainDeadline, activeAtDrainStart,
                     inactiveBeforeDeadline, forcedAtDeadline, drainStart, firstFailure>>
  BY DEF AcceptReady, HostInvariant, PointMatchesPhase, hostVars, shutdownResult
<1>3. CASE UNCHANGED <<active, connFd, openFds>>
  BY <1>2, <1>3 DEF StepQuiet
<1>4. CASE \E fd \in Fds : /\ LowestFree(fd, openFds) /\ openFds' = openFds \cup {fd}
                           /\ connFd' = [connFd EXCEPT ![s] = fd]
                           /\ active' = active \cup {s}
  <2>1. PICK fd \in Fds : /\ LowestFree(fd, openFds) /\ openFds' = openFds \cup {fd}
                          /\ connFd' = [connFd EXCEPT ![s] = fd]
                          /\ active' = active \cup {s}
    BY <1>4
  <2>2. fd \in Fds \ openFds
    BY <2>1 DEF LowestFree
  <2> QED BY <1>2, <2>1, <2>2 DEF StepArrives
<1> QED BY <1>1, <1>3, <1>4 DEF AcceptInto

LEMMA OpenKind ==
  ASSUME Open
  PROVE  StepQuiet \/ StepOpens
<1>1. CASE ~(Validate /\ phase = "PREPARED") \/ OpenFails("listen") \/ OpenFails("epoll_create")
  <2>1. HostUnchanged
    BY <1>1 DEF Open, Refuse, OpenFails, HostUnchanged
  <2> QED BY <2>1, UnchangedEach, QuietKind
<1>2. CASE phase = "PREPARED" /\ OpenSucceeds
  <2>1. PICK lfd \in Fds, efd \in Fds :
      /\ LowestFree(efd, openFds \cup {lfd})
      /\ openFds' = openFds \cup {lfd, efd}
      /\ listenerFd' = lfd /\ epollFd' = efd
      /\ phase' = "ACCEPTING"
      /\ UNCHANGED <<slotVars, shutdownResult>>
    BY <1>2 DEF OpenSucceeds
  <2>2. lfd # efd
    BY <2>1 DEF LowestFree
  <2> QED BY <1>2, <2>1, <2>2 DEF StepOpens, slotVars, shutdownResult
<1> QED BY <1>1, <1>2 DEF Open

LEMMA CallKind ==
  ASSUME HostInvariant, DescriptorsOwned, BeginDrain \/ Close \/ Run \/ Step
  PROVE  StepQuiet \/ (phase = "ACCEPTING" /\ BeginWaits) \/ StepShuts
<1>0. ~running
  BY DEF BeginDrain, Close, Run, Step, HostInvariant, PointMatchesPhase
<1>1. CASE HostUnchanged
  BY <1>1, UnchangedEach, QuietKind
<1>2. CASE BeginDrain
  BY <1>1, <1>2, BeginDrainKind DEF BeginDrain, Refuse, HostUnchanged
<1>3. CASE Close
  <2>1. CASE ~Validate \/ phase = "CLOSED"
    BY <1>1, <1>3, <2>1 DEF Close, Refuse, HostUnchanged
  <2>2. CASE Validate /\ phase = "PREPARED"
    BY <1>3, <2>2 DEF Close, ClosePrepared, StepShuts, slotVars, shutdownResult, envVars
  <2>3. CASE Validate /\ phase = "ACCEPTING"
    BY <1>0, <1>3, <2>3, StatusConstants, DrainAtOnceKind DEF Close
  <2>4. CASE Validate /\ phase = "DRAINING"
    BY <1>0, <1>3, <2>4, StatusConstants, FinishBegunKind DEF Close
  <2> QED BY <2>1, <2>2, <2>3, <2>4 DEF HostInvariant, TypeOK, HostTypes, Phases
<1>4. CASE Run \/ Step
  BY <1>1, <1>4 DEF Run, Step, StepBody, Refuse, HostUnchanged
<1> QED BY <1>2, <1>3, <1>4

(* What HostUnchanged leaves, with the flag of the listener as the only    *)
(* other thing that may change.                                            *)
LEMMA ListenerFlagKind ==
  ASSUME NEW readable, SetListenerReadable(readable)
  PROVE  StepQuiet
BY DEF SetListenerReadable, StepQuiet, slotVars, shutdownResult, envVars

LEMMA HostActsKind ==
  ASSUME HostInvariant, DescriptorsOwned, HostActs
  PROVE  StepKind
<1> USE StatusConstants
<1>1. CASE HostUnchanged
  BY <1>1, UnchangedEach, QuietKind DEF StepKind
<1>2. CASE RunDrains
  <2>1. CASE ~Validate
    BY <1>1, <1>2, <2>1 DEF RunDrains, Refuse, HostUnchanged
  <2>2. CASE Validate
    BY <1>2, <2>2, BeginDrainKind DEF RunDrains, StepKind
  <2> QED BY <2>1, <2>2
<1>3. CASE RunSteps
  BY <1>1, <1>3 DEF RunSteps, StepBody, HostUnchanged
<1>4. CASE RunLooks
  <2>1. ret.status \in Statuses /\ phase \in Phases /\ phase # "PREPARED"
    BY <1>4 DEF RunLooks, HostInvariant, TypeOK, LoopTypes, HostTypes, PointMatchesPhase
  <2>2. CASE phase = "ACCEPTING" /\ DrainAtOnce(ret.status, "ok", FALSE, FALSE)
             /\ ret.status # "ok"
    BY <2>1, <2>2, DrainAtOnceKind DEF StepKind
  <2>3. CASE phase = "DRAINING" /\ FinishBegunDrain(ret.status, FALSE, TRUE, FALSE)
             /\ ret.status # "ok"
    BY <2>1, <2>3, FinishBegunKind DEF StepKind
  <2> QED BY <1>1, <1>4, <2>1, <2>2, <2>3 DEF RunLooks, HostUnchanged, Phases
<1>5. CASE DrainCheck \/ DrainCountAndCheck \/ DrainBatchDone
  <2>1. phase = "DRAINING"
    BY <1>5 DEF DrainCheck, DrainCountAndCheck, DrainBatchDone, HostInvariant, PointMatchesPhase
  <2>2. CASE TimeRemains
    BY <2>2, QuietKind DEF TimeRemains, StepKind, CoreUnchanged, envVars
  <2>3. CASE EnforceFinishes
    BY <2>1, <2>3, EnforceKind DEF StepKind
  <2>4. CASE active = {} /\ FinishBegunDrain("ok", FALSE, FALSE, TRUE)
    BY <2>1, <2>4, FinishBegunKind DEF StepKind
  <2> QED BY <1>5, <2>2, <2>3, <2>4 DEF DrainCheck, DrainCountAndCheck, DrainBatchDone
<1>6. CASE AdvanceBuffered \/ HandleEvent
  <2>1. PICK s \in pending : AdvanceSlot(s)
    BY <1>6 DEF AdvanceBuffered, HandleEvent
  <2>2. phase \in {"ACCEPTING", "DRAINING"}
    BY <1>6 DEF AdvanceBuffered, HandleEvent, HostInvariant, PointMatchesPhase
  <2>3. UNCHANGED <<hostVars, activeAtDrainStart, forcedAtDeadline, drainStart>>
    BY <1>6 DEF AdvanceBuffered, HandleEvent
  <2> QED BY <2>1, <2>2, <2>3, AdvanceKind DEF StepKind
<1>7. CASE RearmOrEnter \/ AcceptFull
  BY <1>1, <1>7, ListenerFlagKind DEF RearmOrEnter, AcceptFull, HostUnchanged, StepKind
<1>8. CASE EnterWait \/ WaitReturns \/ BatchDone
  BY <1>1, <1>8 DEF EnterWait, WaitReturns, BatchDone, HostUnchanged
<1>9. CASE WaitFails
  <2>1. CASE phase = "ACCEPTING"
    BY <1>1, <1>9, <2>1 DEF WaitFails, HostUnchanged
  <2>2. CASE phase = "DRAINING"
    BY <1>9, <2>2, FinishBegunKind DEF WaitFails, StepKind
  <2> QED BY <1>9, <2>1, <2>2 DEF WaitFails, HostInvariant, PointMatchesPhase
<1>10. CASE AcceptReady
  BY <1>10, AcceptKind DEF StepKind
<1> QED BY <1>2, <1>3, <1>4, <1>5, <1>6, <1>7, <1>8, <1>9, <1>10 DEF HostActs

LEMMA NextKind ==
  ASSUME HostInvariant, DescriptorsOwned, [Next]_vars
  PROVE  StepKind
<1>1. CASE CallerActs
  BY <1>1, OpenKind, CallKind DEF CallerActs, StepKind
<1>2. CASE HostActs
  BY <1>2, HostActsKind
<1>3. CASE Environment
  <2>1. CoreUnchanged /\ openFds' = openFds
    BY <1>3 DEF Environment, Connect, PeerActs, StopSignal, Tick, CoreUnchanged
  <2> QED BY <2>1, QuietKind DEF StepKind
<1>4. CASE UNCHANGED vars
  BY <1>4, QuietKind DEF vars, CoreUnchanged, envVars, StepKind
<1> QED BY <1>1, <1>2, <1>3, <1>4 DEF Next
-----------------------------------------------------------------------------
(***************************************************************************)
(* The descriptors                                                         *)
(***************************************************************************)
LEMMA DescriptorsKept ==
  ASSUME HostInvariant, DescriptorsOwned, StepKind
  PROVE  DescriptorsOwned'
<1>1. /\ active \in SUBSET Slots /\ connFd \in [Slots -> Fds \cup {NoFd}]
      /\ NoFd \notin Fds
      /\ phase = "ACCEPTING" => listenerFd # NoFd /\ epollFd # NoFd
      /\ phase = "PREPARED" => active = {} /\ listenerFd = NoFd /\ epollFd = NoFd
  BY HostAssumption DEF HostInvariant, TypeOK, SlotTypes, RuntimeValid, DrainAccounting, Fds, NoFd
<1>2. /\ \A s \in Slots : connFd[s] # NoFd <=> s \in active
      /\ \A s, t \in active : connFd[s] = connFd[t] => s = t
      /\ \A s \in active : connFd[s] # listenerFd /\ connFd[s] # epollFd
      /\ listenerFd = epollFd => listenerFd = NoFd
      /\ openFds = ({connFd[s] : s \in active} \cup {listenerFd, epollFd}) \ {NoFd}
  BY DEF DescriptorsOwned
<1>3. CASE StepQuiet
  BY <1>3 DEF StepQuiet, DescriptorsOwned
<1>4. CASE StepOpens
  <2>1. PICK lfd, efd \in Fds :
          /\ lfd # efd /\ listenerFd' = lfd /\ epollFd' = efd
          /\ openFds' = openFds \cup {lfd, efd}
    BY <1>4 DEF StepOpens
  <2>2. active' = {} /\ connFd' = connFd /\ openFds = {} /\ active = {}
    BY <1>1, <1>2, <1>4 DEF StepOpens
  <2>3. \A s \in Slots : connFd[s] = NoFd
    BY <1>2, <2>2
  <2> QED BY <1>1, <2>1, <2>2, <2>3 DEF DescriptorsOwned
<1>5. CASE StepArrives
  <2>1. PICK s \in Slots \ active, fd \in Fds \ openFds :
          /\ active' = active \cup {s} /\ connFd' = [connFd EXCEPT ![s] = fd]
          /\ openFds' = openFds \cup {fd}
    BY <1>5 DEF StepArrives
  <2>2. /\ listenerFd' = listenerFd /\ epollFd' = epollFd
        /\ fd # NoFd /\ fd # listenerFd /\ fd # epollFd
        /\ \A t \in active : connFd[t] # fd
    BY <1>1, <1>2, <1>5, <2>1 DEF StepArrives
  <2>3. /\ connFd'[s] = fd /\ \A t \in active : connFd'[t] = connFd[t]
        /\ \A t \in Slots \ {s} : connFd'[t] = connFd[t]
    BY <1>1, <2>1
  <2>4. {connFd'[t] : t \in active'} = {connFd[t] : t \in active} \cup {fd}
    BY <2>1, <2>3
  <2>5. openFds' = ({connFd'[t] : t \in active'} \cup {listenerFd', epollFd'}) \ {NoFd}
    BY <1>2, <2>1, <2>2, <2>4
  <2>6. /\ \A t \in Slots : connFd'[t] # NoFd <=> t \in active'
        /\ \A t, u \in active' : connFd'[t] = connFd'[u] => t = u
        /\ \A t \in active' : connFd'[t] # listenerFd' /\ connFd'[t] # epollFd'
    BY <1>1, <1>2, <2>1, <2>2, <2>3
  <2> QED BY <1>2, <2>2, <2>5, <2>6 DEF DescriptorsOwned
<1>6. CASE StepLeaves
  <2>1. PICK s \in active :
          /\ active' = active \ {s} /\ connFd' = [connFd EXCEPT ![s] = NoFd]
          /\ openFds' = openFds \ {connFd[s]}
    BY <1>6 DEF StepLeaves
  <2>2. listenerFd' = listenerFd /\ epollFd' = epollFd
    BY <1>6 DEF StepLeaves
  <2>3. /\ connFd'[s] = NoFd /\ \A t \in active' : connFd'[t] = connFd[t]
        /\ \A t \in Slots \ {s} : connFd'[t] = connFd[t]
    BY <1>1, <2>1
  <2>4. {connFd'[t] : t \in active'} = {connFd[t] : t \in active} \ {connFd[s]}
    BY <1>2, <2>1, <2>3
  <2>5. openFds' = ({connFd'[t] : t \in active'} \cup {listenerFd', epollFd'}) \ {NoFd}
    BY <1>2, <2>1, <2>2, <2>4
  <2>6. /\ \A t \in Slots : connFd'[t] # NoFd <=> t \in active'
        /\ \A t, u \in active' : connFd'[t] = connFd'[u] => t = u
        /\ \A t \in active' : connFd'[t] # listenerFd' /\ connFd'[t] # epollFd'
    BY <1>1, <1>2, <2>1, <2>2, <2>3
  <2> QED BY <1>2, <2>2, <2>5, <2>6 DEF DescriptorsOwned
<1>7. CASE phase = "ACCEPTING" /\ BeginWaits
  <2>1. /\ active' = active /\ connFd' = connFd /\ epollFd' = epollFd
        /\ listenerFd' = NoFd /\ openFds' = openFds \ {listenerFd}
    BY <1>7 DEF BeginWaits, CloseListener, slotVars
  <2> QED BY <1>1, <1>2, <1>7, <2>1 DEF DescriptorsOwned
<1>8. CASE StepShuts
  <2>1. CASE ClosesOpen
    <3>1. \A s \in Slots : connFd'[s] = NoFd
      BY <2>1 DEF ClosesOpen
    <3> QED BY <2>1, <3>1 DEF ClosesOpen, DescriptorsOwned
  <2>2. CASE UNCHANGED <<listenerFd, epollFd, active, connFd, openFds>>
    BY <2>2 DEF DescriptorsOwned
  <2> QED BY <1>8, <2>1, <2>2 DEF StepShuts
<1> QED BY <1>3, <1>4, <1>5, <1>6, <1>7, <1>8 DEF StepKind

(* The process holds open exactly the descriptors of the host, each in one  *)
(* place: the listener, epoll and the connections, in every order in which  *)
(* they are opened, closed and handed out again.                            *)
THEOREM DescriptorsTheorem == Spec => []DescriptorsOwned
<1>1. Init => DescriptorsOwned
  BY HostAssumption DEF Init, DescriptorsOwned, NoFd
<1>2. HostInvariant /\ DescriptorsOwned /\ [Next]_vars => DescriptorsOwned'
  BY NextKind, DescriptorsKept
<1> QED BY <1>1, <1>2, InvariantHolds, PTL DEF Spec

(* A drain is fixed once: nobody joins it, its deadline and the first       *)
(* failure stay, and run cuts a connection off only with a cause.           *)
THEOREM DrainIsFixed == Spec => DrainFixedOnce
<1>1. ASSUME HostInvariant, DescriptorsOwned, [Next]_vars
      PROVE  [/\ phase = "DRAINING" =>
                   /\ UNCHANGED <<drainDeadline, drainStart, activeAtDrainStart>>
                   /\ active' \subseteq active
                   /\ firstFailure # "ok" => UNCHANGED firstFailure
              /\ running /\ forcedAtDeadline' > forcedAtDeadline =>
                   (deadlineExpired' /\ now >= drainDeadline') \/ firstFailure' # "ok"]_vars
  <2>1. StepKind
    BY <1>1, NextKind
  <2>2. forcedAtDeadline \in Nat /\ SlotCount \in Nat
    BY <1>1, HostAssumption DEF HostInvariant, TypeOK, ResultTypes
  <2>3. phase = "DRAINING" =>
          /\ UNCHANGED <<drainDeadline, drainStart, activeAtDrainStart>>
          /\ active' \subseteq active
          /\ firstFailure # "ok" => UNCHANGED firstFailure
    BY <2>1 DEF StepKind, StepQuiet, StepOpens, StepArrives, StepLeaves, StepShuts, ClosesOpen
  <2>4. CASE ClosesOpen
    <3>1. active = {} => forcedAtDeadline' = 0
      BY <2>4, FS_EmptySet DEF ClosesOpen
    <3> QED BY <2>2, <2>3, <2>4, <3>1 DEF ClosesOpen
  <2>5. CASE forcedAtDeadline' = forcedAtDeadline
    BY <2>2, <2>3, <2>5
  <2> QED BY <2>1, <2>4, <2>5
          DEF StepKind, StepQuiet, StepOpens, StepArrives, StepLeaves, StepShuts, BeginWaits
<1> QED BY <1>1, InvariantHolds, DescriptorsTheorem, PTL DEF Spec, DrainFixedOnce
-----------------------------------------------------------------------------
(***************************************************************************)
(* The lifecycle                                                           *)
(***************************************************************************)
LEMMA KindImplements ==
  ASSUME HostInvariant, StepKind
  PROVE  [Lifecycle!Next]_(Lifecycle!vars)
<1> USE DEF Lifecycle!Next
<1>1. /\ active \in SUBSET Slots /\ Cardinality(active) \in 0 .. SlotCount /\ SlotCount \in Nat
      /\ phase = "ACCEPTING" => firstFailure = "ok"
  BY SlotSets, HostAssumption
     DEF HostInvariant, TypeOK, SlotTypes, RuntimeValid, ResultUntouched
<1>2. CASE StepQuiet
  BY <1>2 DEF StepQuiet, Lifecycle!vars
<1>3. CASE StepOpens
  <2>1. Lifecycle!Open
    BY <1>3 DEF StepOpens, Lifecycle!Open
  <2> QED BY <2>1
<1>4. CASE StepArrives
  <2>1. PICK s \in Slots \ active : active' = active \cup {s}
    BY <1>4 DEF StepArrives
  <2>2. Cardinality(active \cup {s}) = Cardinality(active) + 1
    BY <1>1, SlotAdded
  <2>3. Cardinality(active \cup {s}) \in 0 .. SlotCount
    BY <1>1, SlotSets
  <2>4. Cardinality(active) < SlotCount
    BY <1>1, <2>2, <2>3
  <2>5. Cardinality(active)' = Cardinality(active) + 1
    BY <2>1, <2>2
  <2>6. Lifecycle!Arrive
    BY <1>4, <2>4, <2>5 DEF StepArrives, Lifecycle!Arrive
  <2> QED BY <2>6
<1>5. CASE StepLeaves
  <2>1. PICK s \in active : active' = active \ {s}
    BY <1>5 DEF StepLeaves
  <2>2. Cardinality(active \ {s}) = Cardinality(active) - 1
    BY <1>1, SlotRemoved
  <2>3. Cardinality(active) > 0
    BY <1>1, <2>1, NoSlots
  <2>4. Cardinality(active)' = Cardinality(active) - 1
    BY <2>1, <2>2
  <2>5. CASE phase = "ACCEPTING"
    <3>1. Lifecycle!LeaveAccepting
      BY <1>5, <2>3, <2>4, <2>5 DEF StepLeaves, Lifecycle!LeaveAccepting
    <3> QED BY <3>1
  <2>6. CASE phase = "DRAINING"
    <3>1. (firstFailure # "ok")' \in {firstFailure # "ok", TRUE}
      BY <1>5 DEF StepLeaves
    <3>2. Lifecycle!LeaveDraining
      BY <1>5, <2>3, <2>4, <2>6, <3>1 DEF StepLeaves, Lifecycle!LeaveDraining
    <3> QED BY <3>2
  <2> QED BY <1>5, <2>5, <2>6 DEF StepLeaves
<1>6. CASE phase = "ACCEPTING" /\ BeginWaits
  <2>1. /\ phase' = "DRAINING" /\ active' = active /\ active # {}
        /\ activeAtDrainStart' = Cardinality(active)
        /\ UNCHANGED <<inactiveBeforeDeadline, forcedAtDeadline>>
    BY <1>6 DEF BeginWaits, slotVars
  <2>2. Cardinality(active) > 0
    BY <1>1, <2>1, NoSlots
  <2>3. Lifecycle!BeginDrain
    BY <1>6, <2>1, <2>2 DEF Lifecycle!BeginDrain
  <2> QED BY <2>3
<1>7. CASE StepShuts
  <2>1. Cardinality({}) = 0
    BY FS_EmptySet
  <2>2. CASE phase = "PREPARED"
    <3>1. Lifecycle!ClosePrepared
      BY <1>7, <2>2 DEF StepShuts, Lifecycle!ClosePrepared
    <3> QED BY <3>1
  <2>3. CASE phase = "ACCEPTING"
    <3>1. Lifecycle!CloseAccepting
      BY <1>7, <2>1, <2>3 DEF StepShuts, ClosesOpen, Lifecycle!CloseAccepting
    <3> QED BY <3>1
  <2>4. CASE phase = "DRAINING"
    <3>1. (firstFailure # "ok")' \in {firstFailure # "ok", TRUE}
      BY <1>7, <2>4 DEF StepShuts
    <3>2. Lifecycle!Finish
      BY <1>7, <2>1, <2>4, <3>1 DEF StepShuts, ClosesOpen, Lifecycle!Finish
    <3> QED BY <3>2
  <2> QED BY <1>7, <2>2, <2>3, <2>4 DEF StepShuts
<1> QED BY <1>2, <1>3, <1>4, <1>5, <1>6, <1>7 DEF StepKind

(* The host is a lifecycle: connections come while it accepts, a drain      *)
(* fixes their number, each leaves or is forced out at the end, and a       *)
(* failure noted by the drain is never forgotten.                           *)
THEOREM LifecycleImplemented == Spec => ImplementsLifecycle
<1>1. Init => Lifecycle!Init
  BY FS_EmptySet DEF Init, Lifecycle!Init
<1>2. HostInvariant /\ DescriptorsOwned /\ [Next]_vars => [Lifecycle!Next]_(Lifecycle!vars)
  BY NextKind, KindImplements
<1> QED BY <1>1, <1>2, InvariantHolds, DescriptorsTheorem, PTL
        DEF Spec, ImplementsLifecycle, Lifecycle!Spec
=============================================================================
