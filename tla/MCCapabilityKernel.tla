------------------------- MODULE MCCapabilityKernel -------------------------
(* Module sets for TLC: every graph of requirements among three modules, and  *)
(* two modules over versions, sizes, duplicates and malformed declarations.   *)
EXTENDS CapabilityKernel

Cap(id, major, minor, size) ==
  [id |-> id, major |-> major, minor |-> minor, size |-> size]
Plain(id) == Cap(id, 1, 0, 1)

\* The module that provides each capability, if any.
Placements ==
  {<<1, 2, 3>>, <<2, 3, 1>>, <<1, 1, 2>>, <<3, 1, 1>>, <<0, 1, 2>>}

List(ids) == SetToSeq({Plain(id) : id \in ids})

\* Three modules, every graph of who requires what, in several placements of
\* the capabilities.
Topologies ==
  {<<>>} \cup
  {[m \in 1 .. 3 |->
      [id |-> m, provides |-> List({c \in 1 .. 3 : at[c] = m}),
       consumes |-> List(takes[m])]] :
     at \in Placements, takes \in [1 .. 3 -> SUBSET (1 .. 3)]}

\* What may be wrong with two modules, one requirement and its answer.
Declarations ==
  LET provided == {<<>>, <<Plain(1)>>, <<Cap(1, 1, 1, 2)>>, <<Cap(1, 2, 0, 1)>>,
                   <<Cap(1, 0, 0, 1)>>, <<Plain(1), Plain(1)>>,
                   <<Plain(2), Cap(1, 1, 1, 1)>>}
      required == {<<>>, <<Plain(1)>>, <<Cap(1, 1, 1, 1)>>, <<Cap(1, 1, 0, 2)>>,
                   <<Cap(0, 1, 0, 1)>>, <<Plain(1), Cap(1, 2, 0, 1)>>,
                   <<Plain(2), Plain(1)>>}
  IN {<<[id |-> a, provides |-> p, consumes |-> <<>>],
        [id |-> b, provides |-> q, consumes |-> r]>> :
        a \in {1, 2}, b \in {0, 1, 3}, p \in provided, q \in provided, r \in required}

\* Every pair of regions over each other, with all there is or with parts missing.
Layouts == {{a, b} : a \in Outputs, b \in Outputs \cup Inputs} \cup {{"provides", "consumes"}}
Laid ==
  {<<>>, <<[id |-> 1, provides |-> <<Plain(1)>>, consumes |-> <<>>]>>,
   <<[id |-> 2, provides |-> <<>>, consumes |-> <<Plain(1)>>],
     [id |-> 1, provides |-> <<Plain(1)>>, consumes |-> <<>>]>>}

AllCalls ==
  [modules : Topologies \cup Declarations, shares : {{}}]
  \cup [modules : Laid, shares : {{pair} : pair \in Layouts}]
=============================================================================
