-------------------------- MODULE OrderedResources --------------------------
(***************************************************************************)
(* What an application may rely on when its modules are prepared and torn  *)
(* down: a module is set up only while everything it needs is, and nothing *)
(* is torn down while something still needs it.                            *)
(***************************************************************************)
VARIABLES
  needs,    \* needs[m]: the modules that m depends on, fixed
  held      \* the modules set up and not yet torn down

vars == <<needs, held>>

Init == held = {}

Acquire(m) ==
  /\ m \notin held /\ needs[m] \subseteq held
  /\ held' = held \cup {m}
  /\ UNCHANGED needs

Release(m) ==
  /\ m \in held /\ \A n \in held : m \notin needs[n]
  /\ held' = held \ {m}
  /\ UNCHANGED needs

Next == \E m \in DOMAIN needs : Acquire(m) \/ Release(m)

Spec == Init /\ [][Next]_vars
=============================================================================
