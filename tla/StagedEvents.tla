---------------------------- MODULE StagedEvents ----------------------------
(***************************************************************************)
(* What a unit of work promises about domain events: those recorded while  *)
(* it is open are staged behind the kept ones, and are kept or dropped     *)
(* together, as the verdict says.  Outside of a unit the owner may cut the *)
(* log.  A unit that never began leaves its events to the log.             *)
(***************************************************************************)
EXTENDS Naturals, Sequences

VARIABLES open, kept, staged, verdict

vars == <<open, kept, staged, verdict>>

Init == open = FALSE /\ kept = <<>> /\ staged = <<>> /\ verdict = "none"

OneMore(log, next) == Len(next) = Len(log) + 1 /\ SubSeq(next, 1, Len(log)) = log

Record ==
  /\ \/ open /\ OneMore(staged, staged') /\ UNCHANGED kept
     \/ ~open /\ OneMore(kept, kept') /\ UNCHANGED staged
  /\ UNCHANGED <<open, verdict>>

Open ==
  /\ ~open /\ verdict = "none" /\ open' = TRUE
  /\ UNCHANGED <<kept, staged, verdict>>

Close == open /\ open' = FALSE /\ staged' = <<>>

Keep == Close /\ kept' = kept \o staged /\ verdict' \in {"none", "kept"}

Drop == Close /\ UNCHANGED kept /\ verdict' = "dropped"

Forget == ~open /\ verdict' = "none" /\ UNCHANGED <<open, kept, staged>>

Cut ==
  /\ ~open /\ \E n \in 0 .. Len(kept) : kept' = SubSeq(kept, 1, n)
  /\ UNCHANGED <<open, staged, verdict>>

Next == Record \/ Open \/ Keep \/ Drop \/ Forget \/ Cut

Spec == Init /\ [][Next]_vars
=============================================================================
