---------------------------- MODULE HostLifecycle ----------------------------
(***************************************************************************)
(* What the host of Host.tla promises: connections come while it accepts,  *)
(* a drain fixes the number of those present, each of them leaves on its   *)
(* own or is forced out when the host closes, and none joins meanwhile.    *)
(* A host closes once; a failure noted by a drain is never forgotten.      *)
(***************************************************************************)
EXTENDS Naturals

CONSTANT MaxConnections     \* how many connections fit, at least one

VARIABLES
  phase,
  live,       \* connections present
  started,    \* connections present when the drain began
  departed,   \* those that left on their own since
  forced,     \* those the host cut off
  failed      \* some mechanism failed during the drain

vars == <<phase, live, started, departed, forced, failed>>

Init ==
  /\ phase = "PREPARED" /\ live = 0
  /\ started = 0 /\ departed = 0 /\ forced = 0 /\ failed = FALSE

Open ==
  /\ phase = "PREPARED" /\ phase' = "ACCEPTING"
  /\ UNCHANGED <<live, started, departed, forced, failed>>

Arrive ==
  /\ phase = "ACCEPTING" /\ live < MaxConnections /\ live' = live + 1
  /\ UNCHANGED <<phase, started, departed, forced, failed>>

LeaveAccepting ==
  /\ phase = "ACCEPTING" /\ live > 0 /\ live' = live - 1
  /\ UNCHANGED <<phase, started, departed, forced, failed>>

LeaveDraining ==
  /\ phase = "DRAINING" /\ live > 0 /\ live' = live - 1
  /\ departed' = departed + 1
  /\ failed' \in {failed, TRUE}
  /\ UNCHANGED <<phase, started, forced>>

BeginDrain ==
  /\ phase = "ACCEPTING" /\ phase' = "DRAINING"
  /\ live > 0 /\ started' = live
  /\ failed' \in BOOLEAN
  /\ UNCHANGED <<live, departed, forced>>

\* Whoever is still there is cut off, and counted.
Finish ==
  /\ phase = "DRAINING" /\ phase' = "CLOSED"
  /\ forced' = live /\ live' = 0
  /\ failed' \in {failed, TRUE}
  /\ UNCHANGED <<started, departed>>

\* A drain that begins and finishes in one call.
CloseAccepting ==
  /\ phase = "ACCEPTING" /\ phase' = "CLOSED"
  /\ started' = live /\ forced' = live /\ live' = 0
  /\ failed' \in BOOLEAN
  /\ UNCHANGED departed

ClosePrepared ==
  /\ phase = "PREPARED" /\ phase' = "CLOSED"
  /\ UNCHANGED <<live, started, departed, forced, failed>>

Next ==
  \/ Open \/ Arrive \/ LeaveAccepting \/ LeaveDraining
  \/ BeginDrain \/ Finish \/ CloseAccepting \/ ClosePrepared

Spec == Init /\ [][Next]_vars
=============================================================================
