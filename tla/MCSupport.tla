----------------------------- MODULE MCSupport -----------------------------
(***************************************************************************)
(* The parts that are called on their own, in one run: Profiling,          *)
(* Configuration and ConformanceCheck share no memory and call nothing in  *)
(* common, so a behaviour exercises one of them and leaves the others at a *)
(* first state of theirs.                                                  *)
(*                                                                         *)
(* Profiling: two regions, two tokens for three spans, a clock that stands *)
(* still, jumps, runs back and fails, and counters that are full at two.   *)
(* The other two: what MCConfiguration and MCConformanceCheck give them.   *)
(***************************************************************************)
EXTENDS Profiling, MCConfiguration, MCConformanceCheck

VARIABLE part       \* the part that this behaviour calls

MCTimes == {-1, 0, 2}
MCSymmetry == Permutations(Tokens)

\* What the configuration has when others are called.
Resting == [input |-> Nothing, memory |-> Memory(1, 2, 2, 2, {}, TRUE)]

SupportInit ==
  /\ part \in {"profiling", "configuration", "conformance"}
  /\ Init /\ CheckInit /\ ConfigInit
  /\ part # "configuration" => input = Resting.input /\ memory = Resting.memory

\* A call of the checker has returned; there is one to a behaviour.
Returned == pc = "idle" /\ call.entry # "none" /\ UNCHANGED checkVars

SupportNext ==
  \/ /\ part = "profiling" /\ Next
     /\ UNCHANGED <<part, configVars, checkVars>>
  \/ /\ part = "configuration" /\ ConfigNext
     /\ UNCHANGED <<part, vars, checkVars>>
  \/ /\ part = "conformance" /\ (CheckNext \/ Returned)
     /\ UNCHANGED <<part, vars, configVars>>

SupportSpec == SupportInit /\ [][SupportNext]_<<part, vars, configVars, checkVars>>
=============================================================================
