-------------------------------- MODULE Host --------------------------------
(***************************************************************************)
(* The Linux HTTP/MVC host of src/c/linux_http_mvc_host.c: a single        *)
(* threaded epoll loop over a fixed array of connection slots, with the    *)
(* lifecycle PREPARED -> ACCEPTING -> DRAINING -> CLOSED.                  *)
(*                                                                         *)
(* The host runs between system calls without interruption, so a step of   *)
(* the loop is cut exactly where something outside the host may intervene: *)
(* at a clock read, at the epoll wait, between two connections that are    *)
(* advanced, at an accept.  pc names the cut.  Peers, the kernel's clock   *)
(* and the stop signal are the environment.                                *)
(*                                                                         *)
(* What one call of arbor_http_mvc_server_step does to a connection is     *)
(* reduced to what the host can tell of it (AdvanceSlot); the module       *)
(* Transport models that call.                                             *)
(***************************************************************************)
EXTENDS Integers, FiniteSets

CONSTANTS
  SlotCount,       \* host->slot_count
  EventCapacity,   \* host->event_capacity, the longest batch of one wait
  EventWait,       \* host->event_wait_ms
  DrainTimeout,    \* host->drain_timeout_ms
  ClockMax,        \* bound: stands for INT64_MAX, the last value of the clock
  MaxBacklog       \* bound: connections the listener queues

ASSUME HostAssumption ==
  /\ SlotCount \in Nat \ {0}
  /\ EventCapacity \in Nat \ {0}
  /\ EventWait \in Nat
  /\ DrainTimeout \in Nat
  /\ ClockMax \in Nat
  /\ MaxBacklog \in Nat

Slots == 1 .. SlotCount

\* Descriptors: enough for the listener, the epoll instance and every slot.
NoFd == 0
Fds  == 1 .. SlotCount + 2

Phases == {"PREPARED", "ACCEPTING", "DRAINING", "CLOSED"}

\* A negative native status, named for the call that produced it.
Failures == {"listen", "epoll_create", "epoll", "accept", "conn", "clock",
             "overflow", "close", "einval"}
Statuses == Failures \cup {"ok"}

Calls == {"prepare", "open", "begin_drain", "step", "close", "run"}

\* Where the host is between two system calls; "caller" is outside it.
Points == {"caller", "loop", "stepped", "check", "advance", "enter", "wait",
           "events", "accept"}

VARIABLES
  phase, listenerFd, epollFd, listenerReadable, drainDeadline,
  active, moreWork, connFd,
  dirty,            \* inactive slots whose buffers or arena are not empty
  activeAtDrainStart, inactiveBeforeDeadline, forcedAtDeadline,
  drainStart, drainFinish, firstFailure, deadlineExpired,
  pc, running,      \* running: the call in progress is run, not step
  pending,          \* slots the current loop has still to advance
  listenerEvent,    \* the batch held the listener
  remaining,        \* the local of draining_step
  wakeAt,           \* when the epoll wait in progress times out
  ret,              \* the last call that returned, and its status
  openFds, backlog, ready, now, stop,    \* the environment
  lag               \* history: time spent outside the wait since the
                    \* deadline was last compared with the clock

shutdownResult == <<activeAtDrainStart, inactiveBeforeDeadline,
                    forcedAtDeadline, drainStart, drainFinish, firstFailure,
                    deadlineExpired>>
slotVars  == <<active, moreWork, connFd, dirty>>
hostVars  == <<phase, listenerFd, epollFd, listenerReadable, drainDeadline>>
loopVars  == <<pc, running, pending, listenerEvent, remaining, wakeAt>>
envVars   == <<openFds, backlog, ready, now, stop>>
vars == <<hostVars, slotVars, shutdownResult, loopVars, ret, envVars, lag>>

HostTypes ==
  /\ phase \in Phases
  /\ listenerFd \in Fds \cup {NoFd} /\ epollFd \in Fds \cup {NoFd}
  /\ listenerReadable \in BOOLEAN
  /\ drainDeadline \in 0 .. ClockMax

SlotTypes ==
  /\ active \in SUBSET Slots /\ moreWork \in SUBSET active
  /\ dirty \in SUBSET (Slots \ active)
  /\ connFd \in [Slots -> Fds \cup {NoFd}]

ResultTypes ==
  /\ activeAtDrainStart \in 0 .. SlotCount
  /\ inactiveBeforeDeadline \in 0 .. SlotCount
  /\ forcedAtDeadline \in 0 .. SlotCount
  /\ drainStart \in 0 .. ClockMax /\ drainFinish \in 0 .. ClockMax
  /\ firstFailure \in Statuses
  /\ deadlineExpired \in BOOLEAN

LoopTypes ==
  /\ pc \in Points /\ running \in BOOLEAN
  /\ pending \in SUBSET active /\ listenerEvent \in BOOLEAN
  /\ remaining \in 0 .. ClockMax /\ wakeAt \in 0 .. ClockMax
  /\ ret \in [call : Calls, status : Statuses]

EnvTypes ==
  /\ openFds \in SUBSET Fds /\ backlog \in 0 .. MaxBacklog
  /\ ready \in SUBSET active
  /\ now \in 0 .. ClockMax /\ stop \in BOOLEAN
  /\ lag \in 0 .. ClockMax

TypeOK == HostTypes /\ SlotTypes /\ ResultTypes /\ LoopTypes /\ EnvTypes

\* The state prepare leaves: every slot has been accepted as pristine.
Init ==
  /\ phase = "PREPARED" /\ listenerFd = NoFd /\ epollFd = NoFd
  /\ listenerReadable = FALSE /\ drainDeadline = 0
  /\ active = {} /\ moreWork = {} /\ dirty = {}
  /\ connFd = [s \in Slots |-> NoFd]
  /\ activeAtDrainStart = 0 /\ inactiveBeforeDeadline = 0
  /\ forcedAtDeadline = 0 /\ drainStart = 0 /\ drainFinish = 0
  /\ firstFailure = "ok" /\ deadlineExpired = FALSE
  /\ pc = "caller" /\ running = FALSE
  /\ pending = {} /\ listenerEvent = FALSE /\ remaining = 0 /\ wakeAt = 0
  /\ ret = [call |-> "prepare", status |-> "ok"]
  /\ openFds = {} /\ backlog = 0 /\ ready = {} /\ now = 0 /\ stop = FALSE
  /\ lag = 0
-----------------------------------------------------------------------------
(***************************************************************************)
(* Validation                                                              *)
(***************************************************************************)

\* An inactive slot is valid only with empty buffers and an unused arena.
SlotStorageValid(s) == s \notin active \cup moreWork \cup dirty

\* The shutdown result of a host that has not begun to drain.
ResultUntouched ==
  /\ activeAtDrainStart = 0 /\ inactiveBeforeDeadline = 0
  /\ forcedAtDeadline = 0 /\ drainStart = 0 /\ drainFinish = 0
  /\ firstFailure = "ok" /\ ~deadlineExpired /\ drainDeadline = 0

RuntimeValid ==
  LET completed == inactiveBeforeDeadline + forcedAtDeadline IN
  /\ completed <= activeAtDrainStart
  /\ \/ /\ phase = "PREPARED" /\ ResultUntouched
        /\ listenerFd = NoFd /\ epollFd = NoFd /\ ~listenerReadable
     \/ /\ phase = "ACCEPTING" /\ ResultUntouched
        /\ listenerFd # NoFd /\ epollFd # NoFd
     \/ /\ phase = "DRAINING"
        /\ listenerFd = NoFd /\ epollFd # NoFd /\ ~listenerReadable
        /\ forcedAtDeadline = 0 /\ drainFinish = 0 /\ ~deadlineExpired
     \/ /\ phase = "CLOSED"
        /\ listenerFd = NoFd /\ epollFd = NoFd /\ ~listenerReadable
        /\ completed = activeAtDrainStart

Validate ==
  /\ RuntimeValid
  /\ active # {} => phase \in {"ACCEPTING", "DRAINING"}
  /\ phase # "CLOSED" => \A s \in Slots \ active : SlotStorageValid(s)
  /\ moreWork \subseteq active
-----------------------------------------------------------------------------
(***************************************************************************)
(* Shared pieces of the handlers                                           *)
(***************************************************************************)

Smaller(a, b) == IF a <= b THEN a ELSE b

\* Mutant: the last failure wins.
NoteFailureLast(first, status) == IF status = "ok" THEN first ELSE status

\* host_note_failure: only the first failure is kept.
NoteFailure(first, status) == IF first = "ok" THEN status ELSE first

\* A native status that some call may or may not produce.
MayFail(status) == {"ok", status}

\* The kernel hands out the lowest free descriptor.
LowestFree(fd, open) == fd \in Fds \ open /\ \A f \in Fds \ open : fd <= f

\* A call returns to its caller and leaves no local behind.
Return(call, status) ==
  /\ ret' = [call |-> call, status |-> status]
  /\ pc' = "caller" /\ running' = FALSE
  /\ pending' = {} /\ listenerEvent' = FALSE /\ remaining' = 0 /\ wakeAt' = 0

\* A step returns: to run, which looks at its status, or to the caller.
StepReturns(status) ==
  /\ ret' = [call |-> "step", status |-> status]
  /\ pc' = IF running THEN "stepped" ELSE "caller"
  /\ UNCHANGED running
  /\ pending' = {} /\ listenerEvent' = FALSE /\ remaining' = 0 /\ wakeAt' = 0

\* A call that refuses its arguments or the phase changes nothing.
Refuse(call) ==
  /\ Return(call, "einval")
  /\ UNCHANGED <<hostVars, slotVars, shutdownResult, envVars, lag>>

(***************************************************************************)
(* finish_drain: closes the active slots if told to, then epoll, takes the *)
(* finish time if told to, and reaches CLOSED.  first and open are the     *)
(* first failure and the open descriptors when it is called.  Linux        *)
(* releases a descriptor even when close reports an error.                 *)
(***************************************************************************)
FinishDrain(first, open, expired, force, capture) ==
  LET closed == IF force THEN active ELSE {} IN
  \E slotClose \in MayFail("close"), epollClose \in MayFail("close"),
     clock \in MayFail("clock"), left \in SUBSET closed :
    /\ slotClose # "ok" => closed # {}
    /\ clock # "ok" => capture
    /\ firstFailure' = NoteFailure(NoteFailure(NoteFailure(first, slotClose),
                                               epollClose), clock)
    /\ deadlineExpired' = (deadlineExpired \/ expired)
    /\ forcedAtDeadline' = forcedAtDeadline + Cardinality(closed)
    /\ active' = active \ closed /\ moreWork' = moreWork \ closed
    /\ dirty' = dirty \cup left
    /\ ready' = ready \ closed
    /\ connFd' = [s \in Slots |-> IF s \in closed THEN NoFd ELSE connFd[s]]
    /\ openFds' = open \ ({epollFd} \cup {connFd[s] : s \in closed})
    /\ epollFd' = NoFd
    /\ drainFinish' = IF capture /\ clock = "ok" THEN now ELSE drainFinish
    /\ phase' = "CLOSED"

\* Mutant: the cached flag survives the listener.
CloseListenerKeepsArmed ==
  listenerFd' = NoFd /\ backlog' = 0 /\ UNCHANGED listenerReadable

\* close_listener: the descriptor is forgotten before it is closed.
CloseListener ==
  listenerFd' = NoFd /\ listenerReadable' = FALSE /\ backlog' = 0

(***************************************************************************)
(* advance_slot(s): one call of arbor_http_mvc_server_step.  It may leave  *)
(* work for later (MORE_WORK), wait for the socket, close the connection   *)
(* after a response, or fail; when it fails the connection is left CLOSING *)
(* for the host to close, or is already CLOSED if the transport's own      *)
(* close was what failed.  Whatever ends a connection may leave bytes in   *)
(* the slot's buffers.                                                     *)
(***************************************************************************)
SlotWaits(s) ==
  /\ moreWork' = moreWork \ {s}
  /\ ready' = ready \ {s}
  /\ UNCHANGED <<active, connFd, dirty, openFds,
                 inactiveBeforeDeadline, firstFailure>>

SlotHasMoreWork(s) ==
  /\ moreWork' = moreWork \cup {s}
  /\ ready' \in {ready, ready \ {s}}
  /\ UNCHANGED <<active, connFd, dirty, openFds,
                 inactiveBeforeDeadline, firstFailure>>

\* Mutant: the slot is freed, its descriptor is not.
CloseSlotLeaks(s) ==
  /\ active' = active \ {s} /\ moreWork' = moreWork \ {s}
  /\ ready' = ready \ {s} /\ dirty' \in {dirty, dirty \cup {s}}
  /\ connFd' = [connFd EXCEPT ![s] = NoFd] /\ UNCHANGED openFds

\* close_slot: the connection's descriptor is closed, by the transport or here.
CloseSlot(s) ==
  /\ active' = active \ {s} /\ moreWork' = moreWork \ {s}
  /\ ready' = ready \ {s} /\ dirty' \in {dirty, dirty \cup {s}}
  /\ connFd' = [connFd EXCEPT ![s] = NoFd]
  /\ openFds' = openFds \ {connFd[s]}

\* Mutant: departures count before the drain too.
MarkInactiveAlways == inactiveBeforeDeadline' = inactiveBeforeDeadline + 1

MarkInactiveBeforeDeadline ==
  inactiveBeforeDeadline' =
    IF phase = "DRAINING" THEN inactiveBeforeDeadline + 1
                          ELSE inactiveBeforeDeadline

SlotEnds(s, failure) ==
  /\ CloseSlot(s)
  /\ MarkInactiveBeforeDeadline
  /\ firstFailure' = IF phase = "DRAINING"
                     THEN NoteFailure(firstFailure, failure) ELSE firstFailure

AdvanceSlot(s) ==
  \/ SlotWaits(s)
  \/ SlotHasMoreWork(s)
  \/ SlotEnds(s, "ok")
  \/ SlotEnds(s, "conn")
  \/ SlotEnds(s, "close")
-----------------------------------------------------------------------------
(***************************************************************************)
(* open, begin_drain, close, run                                           *)
(***************************************************************************)
OpenFails(status) ==
  /\ Return("open", status)
  /\ UNCHANGED <<hostVars, slotVars, shutdownResult, envVars, lag>>

OpenSucceeds ==
  \E lfd, efd \in Fds :
    /\ LowestFree(lfd, openFds) /\ LowestFree(efd, openFds \cup {lfd})
    /\ openFds' = openFds \cup {lfd, efd}
    /\ listenerFd' = lfd /\ epollFd' = efd
    /\ listenerReadable' = TRUE /\ phase' = "ACCEPTING"
    /\ Return("open", "ok")
    /\ UNCHANGED <<drainDeadline, slotVars, shutdownResult, backlog, ready,
                   now, stop, lag>>

Open ==
  /\ pc = "caller"
  /\ IF Validate /\ phase = "PREPARED"
     THEN OpenSucceeds \/ OpenFails("listen") \/ OpenFails("epoll_create")
     ELSE Refuse("open")

\* What begin_drain, close and close_after_failure share when nothing is left
\* to wait for: close the listener, fix the participants, finish.  before and
\* after are failures noted ahead of and behind the listener's own.
DrainAtOnce(before, after, expired, capture) ==
  \E listenerClose \in MayFail("close") :
    /\ CloseListener
    /\ activeAtDrainStart' = Cardinality(active)
    /\ FinishDrain(NoteFailure(NoteFailure(NoteFailure(firstFailure, before),
                                           listenerClose), after),
                   openFds \ {listenerFd}, expired, TRUE, capture)
    /\ UNCHANGED <<inactiveBeforeDeadline, now, stop, lag>>

\* begin_drain once validate and the phase let it pass: the clock may fail,
\* the deadline may overflow, and with no time or no connection it finishes.
BeginClockFails ==
  /\ DrainAtOnce("ok", "clock", FALSE, FALSE)
  /\ UNCHANGED <<drainStart, drainDeadline>>

BeginOverflows ==
  /\ now + DrainTimeout > ClockMax
  /\ DrainAtOnce("ok", "overflow", FALSE, TRUE)
  /\ drainStart' = now /\ UNCHANGED drainDeadline

BeginFinishes ==
  /\ now + DrainTimeout <= ClockMax
  /\ DrainTimeout = 0 \/ active = {}
  /\ DrainAtOnce("ok", "ok", DrainTimeout = 0, TRUE)
  /\ drainStart' = now /\ drainDeadline' = now + DrainTimeout

BeginWaits ==
  \E listenerClose \in MayFail("close") :
    /\ now + DrainTimeout <= ClockMax
    /\ DrainTimeout # 0 /\ active # {}
    /\ CloseListener
    /\ openFds' = openFds \ {listenerFd}
    /\ firstFailure' = NoteFailure(firstFailure, listenerClose)
    /\ activeAtDrainStart' = Cardinality(active)
    /\ drainStart' = now /\ drainDeadline' = now + DrainTimeout
    /\ phase' = "DRAINING" /\ lag' = 0
    /\ UNCHANGED <<epollFd, slotVars, inactiveBeforeDeadline,
                   forcedAtDeadline, drainFinish, deadlineExpired, ready,
                   now, stop>>

BeginDrainAccepting ==
  BeginClockFails \/ BeginOverflows \/ BeginFinishes \/ BeginWaits

\* The status of a call that has noted its failures: finish_drain returns
\* the first one, a drain that goes on returns success.
DrainStatus == IF phase' = "CLOSED" THEN firstFailure' ELSE "ok"

BeginDrain ==
  /\ pc = "caller"
  /\ IF Validate /\ phase = "ACCEPTING"
     THEN BeginDrainAccepting /\ Return("begin_drain", DrainStatus)
     ELSE IF Validate /\ phase = "DRAINING"
     THEN /\ Return("begin_drain", "ok")
          /\ UNCHANGED <<hostVars, slotVars, shutdownResult, envVars, lag>>
     ELSE Refuse("begin_drain")

\* close from DRAINING, and every finish of a drain already begun.
FinishBegunDrain(failure, expired, force, capture) ==
  /\ FinishDrain(NoteFailure(firstFailure, failure), openFds, expired, force,
                 capture)
  /\ UNCHANGED <<listenerFd, listenerReadable, drainDeadline, drainStart,
                 activeAtDrainStart, inactiveBeforeDeadline, backlog, now,
                 stop, lag>>

ClosePrepared ==
  /\ phase' = "CLOSED"
  /\ UNCHANGED <<listenerFd, epollFd, listenerReadable, drainDeadline,
                 slotVars, shutdownResult, envVars, lag>>

Close ==
  /\ pc = "caller"
  /\ IF ~Validate THEN Refuse("close") ELSE
     /\ CASE phase = "PREPARED"  -> ClosePrepared
          [] phase = "ACCEPTING" -> /\ DrainAtOnce("ok", "ok", FALSE, FALSE)
                                    /\ UNCHANGED <<drainStart, drainDeadline>>
          [] phase = "DRAINING"  -> FinishBegunDrain("ok", FALSE, TRUE, TRUE)
          [] phase = "CLOSED"    -> UNCHANGED <<hostVars, slotVars,
                                        shutdownResult, envVars, lag>>
     /\ Return("close", IF phase = "CLOSED" THEN "ok" ELSE DrainStatus)

Run ==
  /\ pc = "caller"
  /\ IF Validate /\ phase \in {"ACCEPTING", "DRAINING"}
     THEN /\ pc' = "loop" /\ running' = TRUE
          /\ UNCHANGED <<hostVars, slotVars, shutdownResult, pending,
                         listenerEvent, remaining, wakeAt, ret, envVars, lag>>
     ELSE Refuse("run")
-----------------------------------------------------------------------------
(***************************************************************************)
(* run's loop and the entry of a step                                      *)
(***************************************************************************)
KeepLocals == UNCHANGED <<running, listenerEvent, remaining, wakeAt, ret>>

\* step dispatches on the phase.
StepBody ==
  IF RuntimeValid /\ phase \in {"ACCEPTING", "DRAINING"}
  THEN /\ pc' = IF phase = "ACCEPTING" THEN "advance" ELSE "check"
       /\ pending' = IF phase = "ACCEPTING" THEN active \cap moreWork ELSE {}
       /\ KeepLocals
       /\ UNCHANGED <<hostVars, slotVars, shutdownResult, envVars, lag>>
  ELSE /\ StepReturns("einval")
       /\ UNCHANGED <<hostVars, slotVars, shutdownResult, envVars, lag>>

Step == pc = "caller" /\ StepBody

\* The top of run's loop: the stop callback is asked only while ACCEPTING.
RunDrains ==
  /\ pc = "loop" /\ phase = "ACCEPTING" /\ stop
  /\ IF Validate
     THEN /\ BeginDrainAccepting
          /\ IF phase' = "CLOSED"
             THEN Return("run", DrainStatus)
             ELSE UNCHANGED loopVars /\ UNCHANGED ret
     ELSE Refuse("run")

RunSteps == pc = "loop" /\ ~(phase = "ACCEPTING" /\ stop) /\ StepBody

\* run looks at the step that returned; a failure closes the host.
RunLooks ==
  /\ pc = "stepped"
  /\ \/ /\ phase = "CLOSED"
        /\ Return("run", IF ret.status = "ok" THEN firstFailure
                                              ELSE ret.status)
        /\ UNCHANGED <<hostVars, slotVars, shutdownResult, envVars, lag>>
     \/ /\ phase # "CLOSED" /\ ret.status # "ok"
        /\ IF phase = "ACCEPTING"
           THEN /\ DrainAtOnce(ret.status, "ok", FALSE, FALSE)
                /\ UNCHANGED <<drainStart, drainDeadline>>
           ELSE FinishBegunDrain(ret.status, FALSE, TRUE, FALSE)
        /\ Return("run", DrainStatus)
     \/ /\ phase # "CLOSED" /\ ret.status = "ok"
        /\ pc' = "loop" /\ KeepLocals
        /\ UNCHANGED <<pending, hostVars, slotVars, shutdownResult, envVars,
                       lag>>
-----------------------------------------------------------------------------
(***************************************************************************)
(* The body of a step, one stage between two cuts                          *)
(***************************************************************************)

\* drain_now_or_enforce up to its result: the clock fails, the deadline has
\* come, or some time remains.
EnforceFinishes ==
  \/ FinishBegunDrain("clock", FALSE, TRUE, FALSE)
  \/ now >= drainDeadline /\ FinishBegunDrain("ok", TRUE, TRUE, TRUE)

\* Mutant: the clock is not compared with the deadline.
TimeRemainsAlways ==
  /\ lag' = 0
  /\ UNCHANGED <<hostVars, slotVars, shutdownResult, envVars>>

TimeRemains ==
  /\ now < drainDeadline
  /\ lag' = 0
  /\ UNCHANGED <<hostVars, slotVars, shutdownResult, envVars>>

\* The first lines of draining_step.
DrainCheck ==
  /\ pc = "check"
  /\ \/ EnforceFinishes /\ StepReturns(DrainStatus)
     \/ /\ TimeRemains
        /\ pc' = "advance" /\ pending' = active \cap moreWork /\ KeepLocals

\* One iteration of the loop over the slots with buffered work.
AdvanceBuffered ==
  /\ pc = "advance"
  /\ \E s \in pending :
       /\ \A t \in pending : s <= t
       /\ AdvanceSlot(s)
       /\ pending' = pending \ {s}
  /\ UNCHANGED <<hostVars, activeAtDrainStart, forcedAtDeadline, drainStart,
                 drainFinish, deadlineExpired, pc, backlog, now, stop, lag>>
  /\ KeepLocals

\* set_listener_readable: the cached flag follows epoll only on success.
SetListenerReadable(readable) ==
  /\ listenerReadable' = readable
  /\ UNCHANGED <<phase, listenerFd, epollFd, drainDeadline, slotVars,
                 shutdownResult, envVars, lag>>

HasFreeSlot == active # Slots

\* Mutant: a freed slot does not re-arm the listener.
EnterWithoutRearm ==
  /\ pc = "advance" /\ pending = {} /\ phase = "ACCEPTING"
  /\ pc' = "enter" /\ UNCHANGED pending /\ KeepLocals
  /\ UNCHANGED <<hostVars, slotVars, shutdownResult, envVars, lag>>

\* accepting_step between its loop and the wait: re-arm the listener.
RearmOrEnter ==
  /\ pc = "advance" /\ pending = {} /\ phase = "ACCEPTING"
  /\ IF ~listenerReadable /\ HasFreeSlot
     THEN \/ /\ SetListenerReadable(TRUE)
             /\ pc' = "enter" /\ UNCHANGED pending /\ KeepLocals
          \/ /\ StepReturns("epoll")
             /\ UNCHANGED <<hostVars, slotVars, shutdownResult, envVars, lag>>
     ELSE /\ pc' = "enter" /\ UNCHANGED pending /\ KeepLocals
          /\ UNCHANGED <<hostVars, slotVars, shutdownResult, envVars, lag>>

\* draining_step between its loop and the wait: count, then enforce again.
DrainCountAndCheck ==
  /\ pc = "advance" /\ pending = {} /\ phase = "DRAINING"
  /\ IF active = {}
     THEN /\ FinishBegunDrain("ok", FALSE, FALSE, TRUE)
          /\ StepReturns(DrainStatus)
     ELSE \/ EnforceFinishes /\ StepReturns(DrainStatus)
          \/ /\ TimeRemains
             /\ remaining' = drainDeadline - now /\ pc' = "enter"
             /\ UNCHANGED <<pending, running, listenerEvent, wakeAt, ret>>

AnyMoreWork == active \cap moreWork # {}

\* Mutant: a drain waits like an ordinary step.
WaitTimeoutIgnoresDeadline == IF AnyMoreWork THEN 0 ELSE EventWait

\* The timeout both steps hand to epoll_wait.
WaitTimeout ==
  IF AnyMoreWork THEN 0
  ELSE IF phase = "DRAINING" THEN Smaller(EventWait, remaining) ELSE EventWait

EnterWait ==
  /\ pc = "enter"
  /\ wakeAt' = Smaller(now + WaitTimeout, ClockMax)
  /\ pc' = "wait" /\ remaining' = 0
  /\ UNCHANGED <<hostVars, slotVars, shutdownResult, envVars, lag, running,
                 pending, listenerEvent, ret>>

\* What epoll would report: level triggered, so everything still pending.
ListenerReady == listenerReadable /\ backlog > 0
ReadyCount == Cardinality(ready) + (IF ListenerReady THEN 1 ELSE 0)

\* event_epoll_wait returns a full batch, or an empty one at its timeout; a
\* signal restarts it and is not a return.
WaitReturns ==
  /\ pc = "wait"
  /\ now >= wakeAt \/ ReadyCount > 0
  /\ \E batch \in SUBSET ready, listener \in {FALSE, ListenerReady} :
       /\ Cardinality(batch) + (IF listener THEN 1 ELSE 0)
            = Smaller(EventCapacity, ReadyCount)
       /\ pending' = batch /\ listenerEvent' = listener
  /\ pc' = "events" /\ wakeAt' = 0
  /\ UNCHANGED <<hostVars, slotVars, shutdownResult, envVars, lag, running,
                 remaining, ret>>

WaitFails ==
  /\ pc = "wait"
  /\ IF phase = "ACCEPTING"
     THEN /\ StepReturns("epoll")
          /\ UNCHANGED <<hostVars, slotVars, shutdownResult, envVars, lag>>
     ELSE /\ FinishBegunDrain("epoll", FALSE, TRUE, TRUE)
          /\ StepReturns(DrainStatus)

\* One connection event of the batch; the batch's order is the kernel's.
HandleEvent ==
  /\ pc = "events"
  /\ \E s \in pending : AdvanceSlot(s) /\ pending' = pending \ {s}
  /\ UNCHANGED <<hostVars, activeAtDrainStart, forcedAtDeadline, drainStart,
                 drainFinish, deadlineExpired, pc, backlog, now, stop, lag>>
  /\ KeepLocals

\* accepting_step after its batch: accept only now, if the listener was in it.
BatchDone ==
  /\ pc = "events" /\ pending = {} /\ phase = "ACCEPTING"
  /\ IF listenerEvent /\ listenerReadable
     THEN pc' = "accept" /\ UNCHANGED pending /\ KeepLocals
     ELSE StepReturns("ok")
  /\ UNCHANGED <<hostVars, slotVars, shutdownResult, envVars, lag>>

\* draining_step after its batch: count, then enforce.
DrainBatchDone ==
  /\ pc = "events" /\ pending = {} /\ phase = "DRAINING"
  /\ IF active = {}
     THEN FinishBegunDrain("ok", FALSE, FALSE, TRUE) /\ StepReturns(DrainStatus)
     ELSE \/ EnforceFinishes /\ StepReturns(DrainStatus)
          \/ TimeRemains /\ StepReturns("ok")
\* accept_ready with every slot taken: stop listening for the listener.
AcceptFull ==
  /\ pc = "accept" /\ ~HasFreeSlot
  /\ \/ /\ SetListenerReadable(FALSE)
        /\ StepReturns("ok")
     \/ /\ StepReturns("epoll")
        /\ UNCHANGED <<hostVars, slotVars, shutdownResult, envVars, lag>>

(***************************************************************************)
(* One iteration of accept_ready on the first free slot.  The slot's       *)
(* buffers are reset before the kernel is asked for a connection, so also  *)
(* when there is none or the call fails.  A failed accept or a failed      *)
(* registration may or may not have consumed the queued connection.        *)
(***************************************************************************)
AcceptInto(s) ==
  /\ dirty' = dirty \ {s}
  /\ \/ /\ backlog = 0
        /\ StepReturns("ok")
        /\ UNCHANGED <<active, moreWork, connFd, openFds, backlog>>
     \/ /\ StepReturns("accept")
        /\ backlog' \in {backlog, backlog - 1} \cap Nat
        /\ UNCHANGED <<active, moreWork, connFd, openFds>>
     \/ \E fd \in Fds :
        /\ backlog > 0 /\ backlog' = backlog - 1
        /\ LowestFree(fd, openFds)
        /\ openFds' = openFds \cup {fd}
        /\ connFd' = [connFd EXCEPT ![s] = fd]
        /\ active' = active \cup {s} /\ moreWork' = moreWork \ {s}
        /\ UNCHANGED <<pc, pending>> /\ KeepLocals

AcceptReady ==
  /\ pc = "accept"
  /\ \E s \in Slots \ active : /\ \A t \in Slots \ active : s <= t
                               /\ AcceptInto(s)
  /\ UNCHANGED <<hostVars, shutdownResult, ready, now, stop, lag>>
-----------------------------------------------------------------------------
(***************************************************************************)
(* The environment                                                         *)
(***************************************************************************)
Connect ==
  /\ listenerFd # NoFd /\ backlog < MaxBacklog
  /\ backlog' = backlog + 1
  /\ UNCHANGED <<hostVars, slotVars, shutdownResult, loopVars, ret, openFds,
                 ready, now, stop, lag>>

PeerActs(s) ==
  /\ s \in active \ ready /\ ready' = ready \cup {s}
  /\ UNCHANGED <<hostVars, slotVars, shutdownResult, loopVars, ret, openFds,
                 backlog, now, stop, lag>>

StopSignal ==
  /\ ~stop /\ stop' = TRUE
  /\ UNCHANGED <<hostVars, slotVars, shutdownResult, loopVars, ret, openFds,
                 backlog, ready, now, lag>>

\* Time passes; a wait that has timed out ends before it passes further.
Tick ==
  /\ now < ClockMax /\ ~(pc = "wait" /\ now >= wakeAt)
  /\ now' = now + 1
  /\ lag' = IF phase = "DRAINING" /\ pc # "wait" THEN lag + 1 ELSE lag
  /\ UNCHANGED <<hostVars, slotVars, shutdownResult, loopVars, ret, openFds,
                 backlog, ready, stop>>

CallerActs == Open \/ BeginDrain \/ Close \/ Run \/ Step

HostActs ==
  \/ RunDrains \/ RunSteps \/ RunLooks
  \/ DrainCheck \/ AdvanceBuffered \/ RearmOrEnter \/ DrainCountAndCheck
  \/ EnterWait \/ WaitReturns \/ WaitFails
  \/ HandleEvent \/ BatchDone \/ DrainBatchDone
  \/ AcceptFull \/ AcceptReady

Environment == Connect \/ (\E s \in Slots : PeerActs(s)) \/ StopSignal \/ Tick

Next == CallerActs \/ HostActs \/ Environment

Spec == Init /\ [][Next]_vars

\* The thread that called the host keeps running it, and time keeps passing: an
\* infinite run takes infinite time, also when each of its waits has timed out
\* on entry (which disables Tick for that moment, hence strong fairness).
\* Nothing is assumed of callers, peers or the stop signal.
FairSpec == Spec /\ WF_vars(HostActs) /\ SF_vars(Tick)
-----------------------------------------------------------------------------
(***************************************************************************)
(* Safety                                                                  *)
(***************************************************************************)

(* Every connection that took part in the drain is counted exactly once: as
   gone on its own, as forced, or as still active; a host that is not open
   yet, or closed, has none. *)
DrainAccounting ==
  /\ phase = "PREPARED" => active = {}
  /\ phase \in {"PREPARED", "ACCEPTING"} =>
       inactiveBeforeDeadline = 0 /\ forcedAtDeadline = 0
  /\ phase = "DRAINING" =>
       /\ inactiveBeforeDeadline + Cardinality(active) = activeAtDrainStart
       /\ forcedAtDeadline = 0
  /\ phase = "CLOSED" =>
       /\ active = {}
       /\ inactiveBeforeDeadline + forcedAtDeadline = activeAtDrainStart

(* The descriptors open in the process are exactly those the host holds, each
   held once: none leaks, none is closed twice and then closed again as some
   other connection's. *)
DescriptorsOwned ==
  LET conns == {connFd[s] : s \in active} IN
  /\ \A s \in Slots : connFd[s] # NoFd <=> s \in active
  /\ \A s, t \in active : connFd[s] = connFd[t] => s = t
  /\ listenerFd \notin conns /\ epollFd \notin conns
  /\ listenerFd = epollFd => listenerFd = NoFd
  /\ openFds = (conns \cup {listenerFd, epollFd}) \ {NoFd}

(* host_runtime_validate accepts every state the host reaches, so a step is
   never refused with EINVAL in the middle of a host's life. *)
HostStaysValid ==
  /\ RuntimeValid
  /\ active # {} => phase \in {"ACCEPTING", "DRAINING"}

(* The epoll wait of a drain never carries the host past the deadline: what it
   overran is the time it spent outside the wait since it last compared the
   deadline with the clock. *)
WaitRespectsDeadline == phase = "DRAINING" => now <= drainDeadline + lag

(***************************************************************************)
(* What a step may never do                                                *)
(***************************************************************************)

(* A drain is fixed once: its deadline, start and participants never move, no
   connection joins it, the failure reported is the first one noted, and under
   run a connection is only cut off once the deadline has passed or after a
   mechanism failed, never because the drain merely began. *)
DrainFixedOnce ==
  [][/\ phase = "DRAINING" =>
          /\ UNCHANGED <<drainDeadline, drainStart, activeAtDrainStart>>
          /\ active' \subseteq active
          /\ firstFailure # "ok" => UNCHANGED firstFailure
     /\ running /\ forcedAtDeadline' > forcedAtDeadline =>
          (deadlineExpired' /\ now >= drainDeadline') \/ firstFailure' # "ok"]_vars

(* As docs/LINUX_HTTP_MVC_HOST_HOST1.md has it, beginning a drain changes the
   phase and closes the listener.  It does not: see the README. *)
BeginDrainClosesListener ==
  [][phase = "ACCEPTING" /\ ret' # ret /\ ret'.call = "begin_drain" =>
       phase' # "ACCEPTING" /\ listenerFd' = NoFd]_vars

(***************************************************************************)
(* Liveness, under FairSpec                                                *)
(***************************************************************************)

(* A drain under run ends, however long its connections stay, and a stop
   request makes run return. *)
DrainTerminates ==
  /\ running /\ phase = "DRAINING" ~> phase = "CLOSED"
  /\ running /\ stop ~> ~running

(* A queued connection does not wait for ever beside a free slot, whatever
   the other connections do. *)
BacklogServed ==
  running /\ phase = "ACCEPTING" /\ backlog > 0 /\ HasFreeSlot
    ~> backlog = 0 \/ ~HasFreeSlot \/ phase # "ACCEPTING" \/ ~running
-----------------------------------------------------------------------------
(***************************************************************************)
(* The inductive invariant: types, accounting and validity, and what links *)
(* the point the host is at to its phase and its clock arithmetic.         *)
(***************************************************************************)

(* A step in progress belongs to a phase that steps; only a draining host
   compares deadlines, only an accepting one accepts. *)
PointMatchesPhase ==
  /\ pc \in {"check", "loop", "advance", "enter", "wait", "events"} =>
       phase \in {"ACCEPTING", "DRAINING"}
  /\ pc = "check" => phase = "DRAINING"
  /\ pc = "accept" => phase = "ACCEPTING"
  /\ pc = "stepped" => phase # "PREPARED"
  /\ pc \in {"loop", "stepped"} => running
  /\ pc = "caller" => ~running

(* The two locals that carry the deadline into the wait. *)
DeadlineArithmetic ==
  /\ lag <= now
  /\ phase = "DRAINING" =>
       /\ now <= drainDeadline + lag
       /\ pc = "enter" => now + remaining <= drainDeadline + lag
       /\ pc = "wait" => wakeAt <= drainDeadline + lag

HostInvariant ==
  /\ TypeOK /\ DrainAccounting /\ RuntimeValid
  /\ PointMatchesPhase /\ DeadlineArithmetic
-----------------------------------------------------------------------------
(***************************************************************************)
(* What the host promises, forgetting slots, descriptors and clocks.       *)
(***************************************************************************)
Lifecycle == INSTANCE HostLifecycle WITH
  MaxConnections <- SlotCount,
  live     <- Cardinality(active),
  started  <- activeAtDrainStart,
  departed <- inactiveBeforeDeadline,
  forced   <- forcedAtDeadline,
  failed   <- firstFailure # "ok"

(* The host implements the lifecycle of HostLifecycle. *)
ImplementsLifecycle == Lifecycle!Spec
=============================================================================
