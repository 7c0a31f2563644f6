-------------------------- MODULE MCServiceRuntime --------------------------
(* Catalogs and descriptors for TLC: three modules, each providing one       *)
(* capability, in dependency graphs and orders that CapabilityKernel         *)
(* publishes, and lists of descriptors over them.                            *)
EXTENDS ServiceRuntime

Catalog(order, requires) ==
  [order |-> order, provider |-> [c \in 1 .. 4 |-> IF c = 4 THEN 1 ELSE c],
   interface |-> [c \in 1 .. 4 |-> IF c = 4 THEN "eproto" ELSE "ok"], requires |-> requires]

\* A chain, a fork, a join, and modules that do not depend on each other.
SmallCatalogs ==
  {Catalog(<<3, 2, 1>>, <<<<2>>, <<3>>, <<>>>>),
   Catalog(<<2, 1, 3>>, <<<<2>>, <<>>, <<2>>>>),
   Catalog(<<1, 3, 2>>, <<<<>>, <<3, 4>>, <<>>>>),
   Catalog(<<1, 2, 3>>, <<<<>>, <<>>, <<>>>>)}

Service(m, callbacks) ==
  [module |-> m, callbacks |-> callbacks, declares |-> {m}]

SmallDescriptorLists ==
  {<<>>} \cup
  {<<Service(1, a), Service(2, b), Service(3, c)>> :
      a, b, c \in {"active", "passive"}} \cup
  {<<Service(3, "active"), Service(1, "active")>>,
   <<Service(2, "active"), Service(2, "active")>>,
   <<Service(1, "partial"), Service(2, "active")>>,
   <<Service(2, "active"), [module |-> 1, callbacks |-> "active", declares |-> {2}]>>,
   <<[module |-> 1, callbacks |-> "active", declares |-> {1, 4}]>>,
   <<[module |-> 3, callbacks |-> "passive", declares |-> {}]>>,
   <<[module |-> 4, callbacks |-> "active", declares |-> {1}]>>}

\* Every pair of regions over each other, with services, without, and without
\* requirements.
Layouts ==
  {{a, b} : a \in Mutable, b \in Mutable \cup Immutable} \cup {{"provides", "consumes"}}
Fork == Catalog(<<2, 1, 3>>, <<<<2>>, <<>>, <<2>>>>)
Apart == Catalog(<<1, 2, 3>>, <<<<>>, <<>>, <<>>>>)

AllCalls ==
  [catalog : SmallCatalogs, descriptors : SmallDescriptorLists, shares : {{}}]
  \cup [catalog : {Fork, Apart}, shares : {{pair} : pair \in Layouts},
        descriptors : {<<>>, <<Service(1, "active"), Service(2, "passive")>>}]
=============================================================================
