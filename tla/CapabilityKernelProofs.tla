----------------------- MODULE CapabilityKernelProofs -----------------------
(***************************************************************************)
(* The proofs about CapabilityKernel: prepare orders providers before      *)
(* their consumers, refuses exactly what has a cycle, publishes a catalog  *)
(* that validation accepts and queries agree on, and writes nowhere else,  *)
(* for every set of descriptors and every layout of the memory.            *)
(***************************************************************************)
EXTENDS CapabilityKernel, LibraryFacts
-----------------------------------------------------------------------------
(***************************************************************************)
(* The descriptors                                                         *)
(***************************************************************************)

(* What prepare is given. *)
Given == [modules |-> modules, shares |-> shares] \in Calls /\ roomy \in BOOLEAN

LEMMA GivenTypes ==
  ASSUME Given
  PROVE  /\ modules \in Seq(Descriptor) /\ shares \subseteq SUBSET (Outputs \union Inputs)
         /\ Len(modules) \in Nat /\ \A m : m \in Modules <=> m \in 1 .. Len(modules)
         /\ \A m \in Modules :
              /\ modules[m].id \in Nat
              /\ modules[m].provides \in Seq(Capability)
              /\ modules[m].consumes \in Seq(Capability)
<1>1. modules \in Seq(Descriptor) /\ shares \subseteq SUBSET (Outputs \union Inputs)
  BY CallsAssumption DEF Given
<1>2. Len(modules) \in Nat /\ \A m : m \in Modules <=> m \in 1 .. Len(modules)
  BY <1>1 DEF Modules
<1>3. ASSUME NEW m \in Modules
      PROVE  /\ modules[m].id \in Nat
             /\ modules[m].provides \in Seq(Capability)
             /\ modules[m].consumes \in Seq(Capability)
  <2>1. modules[m] \in Descriptor
    BY <1>1, <1>2
  <2> QED BY <2>1 DEF Descriptor
<1> QED BY <1>1, <1>2, <1>3

LEMMA RowTypes ==
  ASSUME Given, NEW m \in Modules
  PROVE  /\ Len(modules[m].provides) \in Nat /\ Len(modules[m].consumes) \in Nat
         /\ \A e : e \in Exports(m) <=> e \in 1 .. Len(modules[m].provides)
         /\ \A r : r \in Requirements(m) <=> r \in 1 .. Len(modules[m].consumes)
<1>1. modules[m].provides \in Seq(Capability) /\ modules[m].consumes \in Seq(Capability)
  BY GivenTypes
<1> QED BY <1>1 DEF Exports, Requirements

LEMMA RowsAreFinite ==
  ASSUME Given, NEW m \in Modules
  PROVE  /\ IsFiniteSet(Requirements(m)) /\ IsFiniteSet(Modules)
         /\ Cardinality(Modules) = Len(modules)
<1>1. Requirements(m) = 1 .. Len(modules[m].consumes) /\ Len(modules[m].consumes) \in Nat
  BY RowTypes
<1>2. Modules = 1 .. Len(modules) /\ Len(modules) \in Nat
  BY GivenTypes
<1>3. \A n \in Nat : IsFiniteSet(1 .. n) /\ Cardinality(1 .. n) = n
  BY FS_Interval
<1> QED BY <1>1, <1>2, <1>3

(* A walk over an array that stops at the first fault ends well only if there *)
(* is none, and with a fault of the array otherwise.                          *)
LEMMA RequirementWalk ==
  ASSUME Given, NEW m \in Modules
  PROVE  LET walk == FirstFault(Requirements(m), LAMBDA r : RequirementFault(m, r))
         IN /\ walk = "ok" <=> \A r \in Requirements(m) : RequirementFault(m, r) = "ok"
            /\ walk # "ok" => \E r \in Requirements(m) : walk = RequirementFault(m, r)
<1> DEFINE faulty == {r \in Requirements(m) : RequirementFault(m, r) # "ok"}
           walk == FirstFault(Requirements(m), LAMBDA r : RequirementFault(m, r))
<1>1. faulty \subseteq Nat
  BY RowTypes
<1>2. CASE faulty = {}
  <2>1. \A r \in Requirements(m) : RequirementFault(m, r) = "ok"
    BY <1>2
  <2>2. walk = "ok"
    BY <2>1, Zenon DEF FirstFault
  <2> QED BY <2>1, <2>2
<1>3. CASE faulty # {}
  <2>1. Min(faulty) \in faulty
    BY <1>1, <1>3, MinIsLeast
  <2>2. ~ \A r \in Requirements(m) : RequirementFault(m, r) = "ok"
    BY <1>3
  <2>3. walk = RequirementFault(m, Min(faulty))
    BY <2>2, Zenon DEF FirstFault
  <2> HIDE DEF walk
  <2>4. Min(faulty) \in Requirements(m) /\ RequirementFault(m, Min(faulty)) # "ok"
    BY <2>1
  <2> HIDE DEF faulty
  <2>5. /\ walk # "ok" /\ \E r \in Requirements(m) : walk = RequirementFault(m, r)
    BY <2>3, <2>4
  <2> QED BY <2>2, <2>5 DEF walk
<1> QED BY <1>2, <1>3

LEMMA ModuleWalk ==
  ASSUME Given
  PROVE  LET walk == FirstFault(Modules, ModuleFault)
         IN /\ walk = "ok" <=> \A m \in Modules : ModuleFault(m) = "ok"
            /\ walk # "ok" => \E m \in Modules : walk = ModuleFault(m)
<1> DEFINE faulty == {m \in Modules : ModuleFault(m) # "ok"}
           walk == FirstFault(Modules, ModuleFault)
<1>1. faulty \subseteq Nat
  BY GivenTypes
<1>2. CASE faulty = {}
  <2>1. \A m \in Modules : ModuleFault(m) = "ok"
    BY <1>2
  <2>2. walk = "ok"
    BY <2>1, Zenon DEF FirstFault
  <2> QED BY <2>1, <2>2
<1>3. CASE faulty # {}
  <2>1. Min(faulty) \in faulty
    BY <1>1, <1>3, MinIsLeast
  <2>2. ~ \A m \in Modules : ModuleFault(m) = "ok"
    BY <1>3
  <2>3. walk = ModuleFault(Min(faulty))
    BY <2>2, Zenon DEF FirstFault
  <2> HIDE DEF walk
  <2>4. Min(faulty) \in Modules /\ ModuleFault(Min(faulty)) # "ok"
    BY <2>1
  <2> HIDE DEF faulty
  <2>5. walk # "ok" /\ \E m \in Modules : walk = ModuleFault(m)
    BY <2>3, <2>4
  <2> QED BY <2>2, <2>5 DEF walk
<1> QED BY <1>2, <1>3

(* What the validation of the descriptors asks of them, without an order of tests. *)
DescriptorsGood ==
  /\ \A m, n \in Modules : n < m => modules[n].id # modules[m].id
  /\ \A m \in Modules : \A e \in Exports(m) : WellFormed(modules[m].provides[e])
  /\ \A m \in Modules : \A r \in Requirements(m) : RequirementFault(m, r) = "ok"
  /\ ~ProvidedTwice

LEMMA ModuleFaultMeans ==
  ASSUME Given, NEW m \in Modules
  PROVE  /\ ModuleFault(m) = "ok" <=>
              (/\ \A n \in Modules : n < m => modules[n].id # modules[m].id
               /\ \A e \in Exports(m) : WellFormed(modules[m].provides[e])
               /\ \A r \in Requirements(m) : RequirementFault(m, r) = "ok")
         /\ ModuleFault(m) = "einval" =>
              \/ \E e \in Exports(m) : ~WellFormed(modules[m].provides[e])
              \/ \E r \in Requirements(m) : ~WellFormed(modules[m].consumes[r])
<1> DEFINE walk == FirstFault(Requirements(m), LAMBDA r : RequirementFault(m, r))
<1>1. /\ walk = "ok" <=> \A r \in Requirements(m) : RequirementFault(m, r) = "ok"
      /\ walk # "ok" => \E r \in Requirements(m) : walk = RequirementFault(m, r)
  BY RequirementWalk
<1>2. ModuleFault(m) =
        IF \E earlier \in 1 .. m - 1 : modules[earlier].id = modules[m].id THEN "eexist"
        ELSE IF \E e \in Exports(m) : ~WellFormed(modules[m].provides[e]) THEN "einval"
        ELSE walk
  BY Zenon DEF ModuleFault
<1> HIDE DEF walk
<1>3. \A n : n \in 1 .. m - 1 <=> n \in Modules /\ n < m
  BY GivenTypes
<1>4. walk = "einval" => \E r \in Requirements(m) : ~WellFormed(modules[m].consumes[r])
  BY <1>1 DEF RequirementFault
<1> QED BY <1>1, <1>2, <1>3, <1>4

LEMMA DescriptorsDecide ==
  ASSUME Given
  PROVE  DescriptorSetFault = "ok" <=> DescriptorsGood
<1> DEFINE walk == FirstFault(Modules, ModuleFault)
<1>1. walk = "ok" <=> \A m \in Modules : ModuleFault(m) = "ok"
  BY ModuleWalk
<1>2. DescriptorSetFault = "ok" <=> walk = "ok" /\ ~ProvidedTwice
  BY Zenon DEF DescriptorSetFault
<1> HIDE DEF walk
<1>3. (\A m \in Modules : ModuleFault(m) = "ok") /\ ~ProvidedTwice <=> DescriptorsGood
  BY ModuleFaultMeans DEF DescriptorsGood
<1> QED BY <1>1, <1>2, <1>3

(* What an input has wrong with it when prepare calls it invalid. *)
Malformed ==
  \/ \E pair \in shares : pair \intersect Outputs # {}
  \/ \E m \in Modules :
       \/ modules[m].id = 0
       \/ \E e \in Exports(m) : ~WellFormed(modules[m].provides[e])
       \/ \E r \in Requirements(m) : ~WellFormed(modules[m].consumes[r])

RegionsClear == \A a \in Outputs, b \in Outputs \union Inputs : ~Overlap(a, b)

Accepted == DescriptorsGood /\ RegionsClear

LEMMA InputsDecide ==
  ASSUME Given
  PROVE  /\ InputFault \in {"ok", "einval", "eexist", "enospc"}
         /\ InputFault = "ok" => Accepted
         /\ InputFault = "einval" => Malformed
<1> DEFINE walk == FirstFault(Modules, ModuleFault)
<1>1. /\ walk = "ok" <=> \A m \in Modules : ModuleFault(m) = "ok"
      /\ walk # "ok" => \E m \in Modules : walk = ModuleFault(m)
  BY ModuleWalk
<1>2. DescriptorSetFault = IF walk # "ok" THEN walk ELSE IF ProvidedTwice THEN "eexist" ELSE "ok"
  BY Zenon DEF DescriptorSetFault
<1> HIDE DEF walk
<1>3. ASSUME NEW m \in Modules
      PROVE  ModuleFault(m) \in {"ok", "einval", "eexist"}
  <2> DEFINE inner == FirstFault(Requirements(m), LAMBDA r : RequirementFault(m, r))
  <2>1. inner # "ok" => \E r \in Requirements(m) : inner = RequirementFault(m, r)
    BY RequirementWalk
  <2>2. ModuleFault(m) \in {"eexist", "einval", inner}
    BY Zenon DEF ModuleFault
  <2> HIDE DEF inner
  <2>3. inner \in {"ok", "einval", "eexist"}
    BY <2>1 DEF RequirementFault
  <2> QED BY <2>2, <2>3
<1>4. /\ DescriptorSetFault \in {"ok", "einval", "eexist"}
      /\ DescriptorSetFault = "einval" => Malformed
  BY <1>1, <1>2, <1>3, ModuleFaultMeans DEF Malformed
<1>5. /\ RegionFault \in {"ok", "einval"}
      /\ RegionFault = "ok" => RegionsClear
      /\ RegionFault = "einval" => Malformed
  <2>1. RegionFault \in {"ok", "einval"} /\ (RegionFault = "ok" <=> RegionsClear)
    BY DEF RegionFault, RegionsClear
  <2>2. ~RegionsClear => \E pair \in shares : pair \intersect Outputs # {}
    BY DEF RegionsClear, Overlap
  <2> QED BY <2>1, <2>2 DEF Malformed
<1> QED BY <1>4, <1>5, DescriptorsDecide DEF InputFault, Accepted, Malformed
-----------------------------------------------------------------------------
(***************************************************************************)
(* Requirements and who meets them                                         *)
(***************************************************************************)

LEMMA CompatibleMeans ==
  ASSUME NEW c, NEW r, NEW offer
  PROVE  offer \in Compatible(c, r) <=>
           \E m \in Modules : \E e \in Exports(m) :
             /\ offer = <<m, e>>
             /\ modules[m].provides[e].id = modules[c].consumes[r].id
             /\ Satisfies(modules[m].provides[e], modules[c].consumes[r])
BY DEF Compatible, Offers

(* No capability is provided twice, so a requirement has one provider at most. *)
LEMMA OneOffer ==
  ASSUME DescriptorsGood, NEW c, NEW r, NEW x \in Compatible(c, r), NEW y \in Compatible(c, r)
  PROVE  x = y
<1>1. PICK m \in Modules : \E e \in Exports(m) :
        x = <<m, e>> /\ modules[m].provides[e].id = modules[c].consumes[r].id
  BY CompatibleMeans
<1>2. PICK e \in Exports(m) :
        x = <<m, e>> /\ modules[m].provides[e].id = modules[c].consumes[r].id
  BY <1>1
<1>3. PICK n \in Modules : \E f \in Exports(n) :
        y = <<n, f>> /\ modules[n].provides[f].id = modules[c].consumes[r].id
  BY CompatibleMeans
<1>4. PICK f \in Exports(n) :
        y = <<n, f>> /\ modules[n].provides[f].id = modules[c].consumes[r].id
  BY <1>3
<1> QED BY <1>2, <1>4 DEF DescriptorsGood, ProvidedTwice

LEMMA OfferIsCompatible ==
  ASSUME NEW c, NEW r, Compatible(c, r) # {}
  PROVE  Offer(c, r) \in Compatible(c, r)
BY DEF Offer

(* What an offer is made of. *)
LEMMA OfferParts ==
  ASSUME NEW c, NEW r, NEW offer \in Compatible(c, r)
  PROVE  /\ offer[1] \in Modules /\ offer[2] \in Exports(offer[1])
         /\ offer = <<offer[1], offer[2]>>
         /\ modules[offer[1]].provides[offer[2]].id = modules[c].consumes[r].id
         /\ Satisfies(modules[offer[1]].provides[offer[2]], modules[c].consumes[r])
<1>1. PICK m \in Modules : \E e \in Exports(m) :
        /\ offer = <<m, e>>
        /\ modules[m].provides[e].id = modules[c].consumes[r].id
        /\ Satisfies(modules[m].provides[e], modules[c].consumes[r])
  BY CompatibleMeans
<1> QED BY <1>1

Resolved == \A c \in Modules : \A r \in Requirements(c) : Compatible(c, r) # {}
-----------------------------------------------------------------------------
(***************************************************************************)
(* While prepare runs its inputs stay                                      *)
(***************************************************************************)

LEMMA SameRows ==
  ASSUME modules' = modules
  PROVE  /\ Modules' = Modules
         /\ \A m : Exports(m)' = Exports(m) /\ Requirements(m)' = Requirements(m)
         /\ \A c, r : Compatible(c, r)' = Compatible(c, r)
         /\ \A m, e : BindingIndex(m, e)' = BindingIndex(m, e) /\ Binding(m, e)' = Binding(m, e)
         /\ ExportCounts' = ExportCounts
<1>1. /\ Modules' = Modules
      /\ \A m : Exports(m)' = Exports(m) /\ Requirements(m)' = Requirements(m)
      /\ \A m, e : Binding(m, e)' = Binding(m, e)
  BY DEF Modules, Exports, Requirements, Binding
<1>2. ASSUME NEW c, NEW r
      PROVE  Compatible(c, r)' = Compatible(c, r)
  BY <1>1 DEF Compatible, Offers
<1>3. ExportCounts' = ExportCounts
  BY <1>1 DEF ExportCounts
<1>4. \A m, e : BindingIndex(m, e)' = BindingIndex(m, e)
  BY <1>3 DEF BindingIndex
<1> QED BY <1>1, <1>2, <1>3, <1>4

LEMMA SameInputs ==
  ASSUME Given, modules' = modules, shares' = shares, roomy' = roomy
  PROVE  /\ Given' /\ (DescriptorsGood' <=> DescriptorsGood)
         /\ (RegionsClear' <=> RegionsClear)
         /\ (Malformed' <=> Malformed) /\ (Cyclic' <=> Cyclic) /\ (Resolved' <=> Resolved)
<1>1. Given'
  BY DEF Given
<1>2. DescriptorsGood' <=> DescriptorsGood
  <2>1. \A m, r : RequirementFault(m, r)' = RequirementFault(m, r)
    BY DEF RequirementFault
  <2>2. ProvidedTwice' <=> ProvidedTwice
    BY SameRows DEF ProvidedTwice
  <2> QED BY <2>1, <2>2, SameRows DEF DescriptorsGood
<1>3. RegionsClear' <=> RegionsClear
  <2>1. \A region : Present(region)' <=> Present(region)
    BY SameRows DEF Present
  <2>2. \A a, b : Overlap(a, b)' <=> Overlap(a, b)
    BY <2>1 DEF Overlap
  <2> QED BY <2>2 DEF RegionsClear
<1>4. Malformed' <=> Malformed
  BY SameRows DEF Malformed
<1>5. Cyclic' <=> Cyclic
  <2> DEFINE Loop(S) == \A m \in S : \E r \in Requirements(m) : \E offer \in Compatible(m, r) :
                          offer[1] \in S
  <2>1. \A S : Loop(S)' <=> Loop(S)
    BY SameRows
  <2>2. Cyclic <=> \E S \in (SUBSET Modules) \ {{}} : Loop(S)
    BY Zenon DEF Cyclic
  <2>3. Cyclic' <=> \E S \in (SUBSET Modules') \ {{}} : Loop(S)'
    BY Zenon DEF Cyclic
  <2>4. Modules' = Modules
    BY SameRows
  <2> HIDE DEF Loop
  <2> QED BY <2>1, <2>2, <2>3, <2>4
<1>6. Resolved' <=> Resolved
  BY SameRows DEF Resolved
<1> QED BY <1>1, <1>2, <1>3, <1>4, <1>5, <1>6
-----------------------------------------------------------------------------
(***************************************************************************)
(* The canonical order                                                     *)
(***************************************************************************)

Placed(o, n) == {o[i] : i \in 1 .. n}

(* Some requirement of m is met by a module that is not placed. *)
Waits(m, placed) ==
  \E r \in Requirements(m) : \E offer \in Compatible(m, r) : offer[1] \notin placed

IsNext(m, placed) ==
  /\ m \in Modules \ placed /\ ~Waits(m, placed)
  /\ \A n \in Modules \ placed : ~Waits(n, placed) => m <= n

(* Every module of o is the lowest one that could come where it comes. *)
Canonical(o) ==
  o \in Seq(Modules) /\ \A j \in 1 .. Len(o) : IsNext(o[j], Placed(o, j - 1))

LEMMA CanonicalTypes ==
  ASSUME NEW o, Canonical(o)
  PROVE  /\ o \in Seq(Modules) /\ Len(o) \in Nat /\ DOMAIN o = 1 .. Len(o)
         /\ \A j \in 1 .. Len(o) : o[j] \in Modules
BY DEF Canonical

LEMMA CanonicalDiffer ==
  ASSUME NEW o, Canonical(o)
  PROVE  \A i, j \in 1 .. Len(o) : o[i] = o[j] => i = j
<1>1. Len(o) \in Nat
  BY DEF Canonical
<1>2. ASSUME NEW i \in 1 .. Len(o), NEW j \in 1 .. Len(o), i < j
      PROVE  o[i] # o[j]
  <2>1. o[j] \notin Placed(o, j - 1)
    BY DEF Canonical, IsNext
  <2>2. i \in 1 .. j - 1
    BY <1>1, <1>2
  <2> QED BY <2>1, <2>2 DEF Placed
<1> TAKE i, j \in 1 .. Len(o)
<1> HAVE o[i] = o[j]
<1>3. ~(i < j) /\ ~(j < i)
  BY <1>2
<1> QED BY <1>3, <1>1

(* As many modules as there are places, since none comes twice. *)
LEMMA PlacedCount ==
  ASSUME Given, NEW o, Canonical(o)
  PROVE  /\ IsFiniteSet(Placed(o, Len(o))) /\ Cardinality(Placed(o, Len(o))) = Len(o)
         /\ Placed(o, Len(o)) \subseteq Modules
         /\ Len(o) <= Len(modules)
         /\ Placed(o, Len(o)) = Modules <=> Len(o) = Len(modules)
<1> DEFINE S == 1 .. Len(o)
           T == Placed(o, Len(o))
           f == [i \in S |-> o[i]]
<1>1. Len(o) \in Nat /\ \A i \in S : o[i] \in Modules
  BY CanonicalTypes
<1>2. IsFiniteSet(S) /\ Cardinality(S) = Len(o)
  BY <1>1, FS_Interval
<1>3. f \in Surjection(S, T)
  BY DEF Surjection, Placed
<1>4. f \in Injection(S, T)
  <2>1. \A i, j \in S : f[i] = f[j] => i = j
    BY CanonicalDiffer
  <2>2. f \in [S -> T]
    BY <1>3 DEF Surjection
  <2> QED BY <2>1, <2>2 DEF Injection, IsInjective
<1>5. T \subseteq Modules
  BY <1>1 DEF Placed
<1> HIDE DEF S, T, f
<1>6. IsFiniteSet(T) /\ Cardinality(T) = Cardinality(S)
  BY <1>2, <1>3, <1>4, FS_Surjection
<1>7. IsFiniteSet(Modules) /\ Cardinality(Modules) = Len(modules)
  <2>1. CASE Modules = {}
    <3>1. Len(modules) = 0
      <4>1. Len(modules) \in Nat /\ \A m : m \in Modules <=> m \in 1 .. Len(modules)
        BY GivenTypes
      <4>2. ~(1 <= Len(modules))
        BY <4>1, <2>1
      <4> QED BY <4>1, <4>2
    <3> QED BY <2>1, <3>1, FS_EmptySet
  <2>2. CASE Modules # {}
    BY <2>2, RowsAreFinite
  <2> QED BY <2>1, <2>2
<1>8. Cardinality(T) <= Cardinality(Modules) /\ (Cardinality(Modules) = Cardinality(T) => Modules = T)
  BY <1>5, <1>7, FS_Subset
<1>9. Len(o) <= Len(modules) /\ (T = Modules <=> Len(o) = Len(modules))
  BY <1>2, <1>6, <1>7, <1>8
<1> QED BY <1>2, <1>5, <1>6, <1>9 DEF T

(* One module more. *)
LEMMA CanonicalGrows ==
  ASSUME Given, NEW o, Canonical(o), NEW m, IsNext(m, Placed(o, Len(o)))
  PROVE  /\ Canonical(Append(o, m))
         /\ Placed(Append(o, m), Len(Append(o, m))) = Placed(o, Len(o)) \union {m}
<1> DEFINE q == Append(o, m)
<1>1. m \in Modules
  BY DEF IsNext
<1>2. /\ o \in Seq(Modules) /\ Len(o) \in Nat /\ q \in Seq(Modules) /\ Len(q) = Len(o) + 1
      /\ q[Len(o) + 1] = m /\ \A i \in 1 .. Len(o) : q[i] = o[i]
  BY <1>1 DEF Canonical
<1> HIDE DEF q
<1>3. ASSUME NEW n \in 0 .. Len(o)
      PROVE  Placed(q, n) = Placed(o, n)
  <2>1. \A i \in 1 .. n : q[i] = o[i]
    BY <1>2
  <2> QED BY <2>1 DEF Placed
<1>4. ASSUME NEW j \in 1 .. Len(q)
      PROVE  IsNext(q[j], Placed(q, j - 1))
  <2>1. CASE j \in 1 .. Len(o)
    <3>1. j - 1 \in 0 .. Len(o)
      BY <2>1, <1>2
    <3>2. q[j] = o[j] /\ Placed(q, j - 1) = Placed(o, j - 1)
      BY <3>1, <2>1, <1>2, <1>3
    <3> QED BY <3>2, <2>1 DEF Canonical
  <2>2. CASE j = Len(o) + 1
    <3>1. j - 1 = Len(o) /\ Len(o) \in 0 .. Len(o)
      BY <2>2, <1>2
    <3>2. q[j] = m /\ Placed(q, j - 1) = Placed(o, Len(o))
      BY <3>1, <2>2, <1>2, <1>3
    <3> QED BY <3>2
  <2> QED BY <2>1, <2>2, <1>2
<1>5. Canonical(q)
  BY <1>2, <1>4 DEF Canonical
<1>6. Placed(q, Len(q)) = Placed(o, Len(o)) \union {m}
  <2>1. \A i : i \in 1 .. Len(q) <=> i \in 1 .. Len(o) \/ i = Len(o) + 1
    BY <1>2
  <2> QED BY <2>1, <1>2 DEF Placed
<1> QED BY <1>5, <1>6 DEF q

(* What an order in which every module is placed says about cycles: the first *)
(* of a set of modules to be placed waits for none of the others.             *)
LEMMA OrderedNotCyclic ==
  ASSUME Given, DescriptorsGood, Resolved, NEW o, Canonical(o), Len(o) = Len(modules)
  PROVE  ~Cyclic
<1> SUFFICES ASSUME NEW S \in SUBSET Modules, S # {},
                    \A m \in S : \E r \in Requirements(m) : \E offer \in Compatible(m, r) :
                      offer[1] \in S
             PROVE  FALSE
  BY Zenon DEF Cyclic
<1> DEFINE places == {j \in 1 .. Len(o) : o[j] \in S}
<1>1. places # {}
  <2>1. PICK m \in S : TRUE
    OBVIOUS
  <2>2. m \in Placed(o, Len(o))
    BY <2>1, PlacedCount
  <2> QED BY <2>1, <2>2 DEF Placed
<1>2. places \subseteq Nat
  OBVIOUS
<1>3. PICK j \in places : \A i \in places : j <= i
  BY <1>1, <1>2, LeastElement
<1>4. j \in 1 .. Len(o) /\ o[j] \in S /\ Len(o) \in Nat
  BY <1>3, CanonicalTypes
<1>5. PICK r \in Requirements(o[j]) : \E offer \in Compatible(o[j], r) : offer[1] \in S
  BY <1>4
<1>6. PICK offer \in Compatible(o[j], r) : offer[1] \in S
  BY <1>5
<1>7. ~Waits(o[j], Placed(o, j - 1))
  BY <1>4 DEF Canonical, IsNext
<1>8. offer[1] \in Placed(o, j - 1)
  BY <1>7 DEF Waits
<1>9. PICK i \in 1 .. j - 1 : o[i] = offer[1]
  BY <1>8 DEF Placed
<1>10. i \in places /\ ~(j <= i)
  BY <1>4, <1>6, <1>9
<1> QED BY <1>3, <1>10

(* Modules that all wait when none is ready wait for one another. *)
LEMMA StuckIsCyclic ==
  ASSUME Given, NEW placed, Modules \ placed # {},
         \A m \in Modules \ placed : Waits(m, placed)
  PROVE  Cyclic
<1> DEFINE S == Modules \ placed
<1>1. \A m \in S : \E r \in Requirements(m) : \E offer \in Compatible(m, r) : offer[1] \in S
  BY OfferParts DEF Waits
<1>2. S \in (SUBSET Modules) \ {{}}
  OBVIOUS
<1> HIDE DEF S
<1> QED BY <1>1, <1>2, Zenon DEF Cyclic

(* While the descriptors stay, what comes next in an order does. *)
LEMMA SameOrder ==
  ASSUME modules' = modules
  PROVE  /\ \A m, placed : Waits(m, placed)' <=> Waits(m, placed)
         /\ \A m, placed : IsNext(m, placed)' <=> IsNext(m, placed)
         /\ \A o : Canonical(o)' <=> Canonical(o)
<1>1. \A m, placed : Waits(m, placed)' <=> Waits(m, placed)
  BY SameRows DEF Waits
<1>2. \A m, placed : IsNext(m, placed)' <=> IsNext(m, placed)
  BY <1>1, SameRows DEF IsNext
<1>3. \A o : Canonical(o)' <=> Canonical(o)
  BY <1>2, SameRows DEF Canonical, Placed
<1> QED BY <1>1, <1>2, <1>3

LEMMA NextOrder ==
  ASSUME modules' = modules, NEW o, order' = o
  PROVE  Canonical(order)' <=> Canonical(o)
<1>1. Canonical(o)' <=> Canonical(o)
  BY SameOrder
<1>2. Canonical(order)' <=> Canonical(o)'
  OBVIOUS
<1> QED BY <1>1, <1>2

(* Once every module is placed, providers are placed before their consumers. *)
LEMMA WholeOrder ==
  ASSUME Given, NEW o, Canonical(o), Len(o) = Len(modules)
  PROVE  /\ \A m \in Modules : \E i \in 1 .. Len(o) : o[i] = m
         /\ \A j \in 1 .. Len(o) : \A r \in Requirements(o[j]) :
              \A offer \in Compatible(o[j], r) : \E i \in 1 .. j - 1 : o[i] = offer[1]
<1>1. Placed(o, Len(o)) = Modules
  BY PlacedCount
<1>2. \A j \in 1 .. Len(o) : ~Waits(o[j], Placed(o, j - 1))
  BY DEF Canonical, IsNext
<1>3. \A m \in Modules : \E i \in 1 .. Len(o) : o[i] = m
  BY <1>1 DEF Placed
<1>4. ASSUME NEW j \in 1 .. Len(o), NEW r \in Requirements(o[j]), NEW offer \in Compatible(o[j], r)
      PROVE  \E i \in 1 .. j - 1 : o[i] = offer[1]
  <2>1. offer[1] \in Placed(o, j - 1)
    BY <1>2, <1>4 DEF Waits
  <2> QED BY <2>1 DEF Placed
<1> QED BY <1>3, <1>4
-----------------------------------------------------------------------------
(***************************************************************************)
(* The workspace                                                           *)
(***************************************************************************)

(* Every requirement has the provider, and the binding, of its one offer. *)
Wired ==
  \A c \in Modules :
    /\ provider[c] \in [Requirements(c) -> Modules]
    /\ \A r \in Requirements(c) : \E e \in Exports(provider[c][r]) :
         /\ <<provider[c][r], e>> \in Compatible(c, r)
         /\ bound[c][r] = BindingIndex(provider[c][r], e)

UnmetBy(c, placed) == {r \in Requirements(c) : provider[c][r] \notin placed}

(* The indegrees count what the modules selected so far leave unmet. *)
Counted ==
  /\ indegree \in [Modules -> Nat]
  /\ \A c \in Modules : indegree[c] = Cardinality(UnmetBy(c, Selected))

LEMMA SelectedIsPlaced ==
  ASSUME NEW o, order = o, o \in Seq(Modules)
  PROVE  Selected = Placed(o, Len(o))
<1>1. DOMAIN o = 1 .. Len(o)
  OBVIOUS
<1> QED BY <1>1 DEF Selected, Placed

LEMMA WiredResolves ==
  ASSUME Wired
  PROVE  Resolved
BY DEF Wired, Resolved

LEMMA UnmetIsFinite ==
  ASSUME Given, NEW c \in Modules, NEW placed
  PROVE  IsFiniteSet(UnmetBy(c, placed)) /\ Cardinality(UnmetBy(c, placed)) \in Nat
<1>1. UnmetBy(c, placed) \in SUBSET Requirements(c)
  BY DEF UnmetBy
<1> QED BY <1>1, RowsAreFinite, FS_Subset, FS_CardinalityType

(* A module with requirements unmet waits, and no other. *)
LEMMA UnmetWaits ==
  ASSUME Given, DescriptorsGood, Wired, NEW c \in Modules, NEW placed
  PROVE  Waits(c, placed) <=> UnmetBy(c, placed) # {}
<1>1. ASSUME NEW r \in Requirements(c), NEW offer \in Compatible(c, r)
      PROVE  offer[1] = provider[c][r]
  <2>1. PICK e \in Exports(provider[c][r]) : <<provider[c][r], e>> \in Compatible(c, r)
    BY DEF Wired
  <2>2. offer = <<provider[c][r], e>>
    BY <2>1, OneOffer
  <2> QED BY <2>2
<1>2. \A r \in Requirements(c) : \E offer \in Compatible(c, r) : TRUE
  BY DEF Wired
<1> QED BY <1>1, <1>2 DEF Waits, UnmetBy

LEMMA ReadyMeans ==
  ASSUME Given, DescriptorsGood, Wired, Counted, NEW m
  PROVE  m \in Ready <=> m \in Modules \ Selected /\ ~Waits(m, Selected)
<1>1. ASSUME m \in Modules
      PROVE  indegree[m] = 0 <=> ~Waits(m, Selected)
  <2>1. IsFiniteSet(UnmetBy(m, Selected))
    BY <1>1, UnmetIsFinite
  <2>2. Cardinality(UnmetBy(m, Selected)) = 0 <=> UnmetBy(m, Selected) = {}
    BY <2>1, FS_EmptySet
  <2> QED BY <1>1, <2>2, UnmetWaits DEF Counted
<1> QED BY <1>1 DEF Ready

(* Selecting m takes from each count what m supplies: it never runs short. *)
LEMMA LeftIsUnmet ==
  ASSUME Given, Wired, Counted, NEW c \in Modules, NEW m \in Modules \ Selected
  PROVE  /\ LeftAfter(c, m) \in Nat
         /\ LeftAfter(c, m) = Cardinality(UnmetBy(c, Selected \union {m}))
<1> DEFINE left == UnmetBy(c, Selected \union {m})
<1>1. UnmetBy(c, Selected) = left \union Supplied(c, m) /\ left \intersect Supplied(c, m) = {}
  BY DEF UnmetBy, Supplied
<1>2. IsFiniteSet(left) /\ Cardinality(left) \in Nat
  BY UnmetIsFinite
<1>3. IsFiniteSet(Supplied(c, m)) /\ Cardinality(Supplied(c, m)) \in Nat
  <2>1. Supplied(c, m) \in SUBSET Requirements(c)
    BY DEF Supplied
  <2> QED BY <2>1, RowsAreFinite, FS_Subset, FS_CardinalityType
<1> HIDE DEF left
<1>4. Cardinality(left \union Supplied(c, m))
        = Cardinality(left) + Cardinality(Supplied(c, m)) - Cardinality(left \intersect Supplied(c, m))
  BY <1>2, <1>3, FS_Union
<1>5. Cardinality(left \intersect Supplied(c, m)) = 0
  BY <1>1, FS_EmptySet
<1>6. indegree[c] = Cardinality(left) + Cardinality(Supplied(c, m))
  <2>1. indegree[c] = Cardinality(UnmetBy(c, Selected))
    BY DEF Counted
  <2>2. Cardinality(UnmetBy(c, Selected)) = Cardinality(left \union Supplied(c, m))
    BY <1>1
  <2> QED BY <2>1, <2>2, <1>2, <1>3, <1>4, <1>5
<1>7. LeftAfter(c, m) = Cardinality(left)
  BY <1>2, <1>3, <1>6 DEF LeftAfter
<1> QED BY <1>2, <1>7 DEF left
-----------------------------------------------------------------------------
(***************************************************************************)
(* The arrays that are published                                           *)
(***************************************************************************)

LEMMA FunctionIsSeq ==
  ASSUME NEW n \in Nat, NEW S, NEW f \in [1 .. n -> S]
  PROVE  f \in Seq(S) /\ Len(f) = n /\ \A i \in 1 .. n : f[i] \in S
<1>1. f \in Seq(S)
  BY SeqDef
<1>2. DOMAIN f = 1 .. n /\ DOMAIN f = 1 .. Len(f) /\ Len(f) \in Nat
  BY <1>1
<1> QED BY <1>1, <1>2

(* The bindings lie module after module where binding_index_for_export looks. *)
LEMMA BindingPlaces ==
  ASSUME Given
  PROVE  LET flat == FlattenSeq([m \in Modules |-> [e \in Exports(m) |-> Binding(m, e)]])
         IN /\ DOMAIN flat \subseteq Nat
            /\ Len(flat) = SumFunction(ExportCounts)
            /\ \A m \in Modules : \A e \in Exports(m) :
                 BindingIndex(m, e) \in DOMAIN flat /\ flat[BindingIndex(m, e)] = Binding(m, e)
            /\ \A k \in DOMAIN flat : \E m \in Modules : \E e \in Exports(m) : k = BindingIndex(m, e)
<1> DEFINE rows == [m \in Modules |-> [e \in Exports(m) |-> Binding(m, e)]]
           flat == FlattenSeq(rows)
           S == [capability : Capability, module : Modules]
           N == Len(modules)
<1>1. N \in Nat /\ Modules = 1 .. N /\ \A m : m \in Modules <=> m \in 1 .. N
  BY GivenTypes
<1>2. ASSUME NEW m \in Modules
      PROVE  /\ rows[m] \in Seq(S) /\ Len(rows[m]) = Len(modules[m].provides)
             /\ Len(modules[m].provides) \in Nat
             /\ \A e \in Exports(m) : rows[m][e] = Binding(m, e)
             /\ \A e : e \in Exports(m) <=> e \in 1 .. Len(modules[m].provides)
  <2>1. /\ Len(modules[m].provides) \in Nat
        /\ \A e : e \in Exports(m) <=> e \in 1 .. Len(modules[m].provides)
        /\ modules[m].provides \in Seq(Capability)
    BY RowTypes, GivenTypes
  <2>2. \A e \in Exports(m) : Binding(m, e) \in S
    BY <2>1 DEF Binding
  <2>3. rows[m] = [e \in Exports(m) |-> Binding(m, e)]
    OBVIOUS
  <2>4. Exports(m) = 1 .. Len(modules[m].provides)
    BY <2>1
  <2>5. rows[m] \in [1 .. Len(modules[m].provides) -> S]
    BY <2>2, <2>3, <2>4
  <2> HIDE DEF rows, S
  <2> QED BY <2>1, <2>3, <2>5, FunctionIsSeq
<1>3. rows \in Seq(Seq(S)) /\ Len(rows) = N
  <2>1. rows \in [1 .. N -> Seq(S)]
    BY <1>1, <1>2
  <2> HIDE DEF rows, S, N
  <2> QED BY <1>1, <2>1, FunctionIsSeq
<1> HIDE DEF rows, S, N
<1>4. flat \in Seq(S) /\ \E start : LaysOut(start, rows, flat)
  BY <1>3, FlattenFacts, Zenon
<1> HIDE DEF flat
<1>5. PICK start : LaysOut(start, rows, flat)
  BY <1>4
<1>6. /\ start \in [1 .. Len(rows) + 1 -> Nat] /\ start[1] = 0
      /\ \A m \in 1 .. Len(rows) : start[m + 1] = start[m] + Len(rows[m])
      /\ Len(flat) = start[Len(rows) + 1]
      /\ \A m \in 1 .. Len(rows) : \A e \in 1 .. Len(rows[m]) :
           start[m] + e \in 1 .. Len(flat) /\ flat[start[m] + e] = rows[m][e]
      /\ \A k \in 1 .. Len(flat) :
           \E m \in 1 .. Len(rows) : \E e \in 1 .. Len(rows[m]) : k = start[m] + e
  BY <1>5, Zenon DEF LaysOut
<1>7. \A m \in 1 .. N + 1 : SumFunctionOnSet(ExportCounts, 1 .. m - 1) = start[m]
  <2>1. \A m \in 1 .. N : ExportCounts[m] = Len(rows[m]) /\ ExportCounts[m] \in Nat
    BY <1>1, <1>2 DEF ExportCounts
  <2>2. \A m \in 1 .. N : start[m + 1] = start[m] + ExportCounts[m]
    BY <2>1, <1>3, <1>6
  <2>3. start[1] = 0 /\ \A m \in 1 .. N : ExportCounts[m] \in Nat
    BY <2>1, <1>6
  <2>4. SumsBefore(start, ExportCounts, N)
    BY <1>1, <2>2, <2>3, PartialSums DEF Accumulates
  <2> QED BY <2>4 DEF SumsBefore
<1>8. \A m \in Modules : \A e : BindingIndex(m, e) = start[m] + e
  BY <1>1, <1>7 DEF BindingIndex
<1>9. \A k : k \in DOMAIN flat <=> k \in 1 .. Len(flat)
  BY <1>4
<1>10. DOMAIN flat \subseteq Nat
  BY <1>4
<1>11. Len(flat) = SumFunction(ExportCounts)
  <2>1. DOMAIN ExportCounts = 1 .. (N + 1) - 1 /\ N + 1 \in 1 .. N + 1
    BY <1>1 DEF ExportCounts
  <2>2. SumFunction(ExportCounts) = SumFunctionOnSet(ExportCounts, 1 .. (N + 1) - 1)
    BY <2>1 DEF SumFunction
  <2> QED BY <2>1, <2>2, <1>3, <1>6, <1>7
<1>12. ASSUME NEW m \in Modules, NEW e \in Exports(m)
       PROVE  BindingIndex(m, e) \in DOMAIN flat /\ flat[BindingIndex(m, e)] = Binding(m, e)
  <2>1. m \in 1 .. Len(rows) /\ e \in 1 .. Len(rows[m]) /\ rows[m][e] = Binding(m, e)
    BY <1>1, <1>2, <1>3
  <2>2. start[m] + e \in 1 .. Len(flat) /\ flat[start[m] + e] = rows[m][e]
    BY <2>1, <1>6
  <2> QED BY <2>1, <2>2, <1>8, <1>9
<1>13. ASSUME NEW k \in DOMAIN flat
       PROVE  \E m \in Modules : \E e \in Exports(m) : k = BindingIndex(m, e)
  <2>1. PICK m \in 1 .. Len(rows) : \E e \in 1 .. Len(rows[m]) : k = start[m] + e
    BY <1>6, <1>9
  <2>2. PICK e \in 1 .. Len(rows[m]) : k = start[m] + e
    BY <2>1
  <2>3. m \in Modules
    BY <1>1, <1>3, <2>1
  <2>4. e \in Exports(m)
    BY <1>2, <2>2, <2>3
  <2> QED BY <2>2, <2>3, <2>4, <1>8
<1> QED BY <1>10, <1>11, <1>12, <1>13 DEF flat, rows

(* The resolutions lie consumer after consumer, one for each requirement. *)
LEMMA ResolutionPlaces ==
  ASSUME Given
  PROVE  LET flat == FlattenSeq([c \in Modules |-> [r \in Requirements(c) |->
                        [consumer |-> c, requirement |-> r, binding |-> bound[c][r]]]])
         IN /\ DOMAIN flat \subseteq Nat
            /\ \A k \in DOMAIN flat : \E c \in Modules : \E r \in Requirements(c) :
                 flat[k] = [consumer |-> c, requirement |-> r, binding |-> bound[c][r]]
            /\ \A c \in Modules : \A r \in Requirements(c) : \E k \in DOMAIN flat :
                 flat[k].consumer = c /\ flat[k].requirement = r
            /\ \A k, l \in DOMAIN flat :
                 flat[k].consumer = flat[l].consumer /\ flat[k].requirement = flat[l].requirement
                   => k = l
<1> DEFINE entry(c, r) == [consumer |-> c, requirement |-> r, binding |-> bound[c][r]]
           rows == [c \in Modules |-> [r \in Requirements(c) |-> entry(c, r)]]
           flat == FlattenSeq(rows)
           S == {entry(c, r) : c \in Modules, r \in Nat}
           N == Len(modules)
<1>1. N \in Nat /\ Modules = 1 .. N /\ \A m : m \in Modules <=> m \in 1 .. N
  BY GivenTypes
<1>2. ASSUME NEW m \in Modules
      PROVE  /\ rows[m] \in Seq(S) /\ Len(rows[m]) = Len(modules[m].consumes)
             /\ Len(modules[m].consumes) \in Nat
             /\ \A r \in Requirements(m) : rows[m][r] = entry(m, r)
             /\ \A r : r \in Requirements(m) <=> r \in 1 .. Len(modules[m].consumes)
  <2>1. /\ Len(modules[m].consumes) \in Nat
        /\ \A r : r \in Requirements(m) <=> r \in 1 .. Len(modules[m].consumes)
    BY RowTypes
  <2>2. \A r \in Requirements(m) : entry(m, r) \in S
    BY <2>1
  <2>3. rows[m] = [r \in Requirements(m) |-> entry(m, r)]
    OBVIOUS
  <2>4. Requirements(m) = 1 .. Len(modules[m].consumes)
    BY <2>1
  <2> HIDE DEF S
  <2>5. rows[m] \in [1 .. Len(modules[m].consumes) -> S]
    BY <2>2, <2>3, <2>4
  <2>6. \A r \in Requirements(m) : rows[m][r] = entry(m, r)
    BY <2>3
  <2> HIDE DEF rows
  <2> QED BY <2>1, <2>5, <2>6, FunctionIsSeq
<1>3. rows \in Seq(Seq(S)) /\ Len(rows) = N
  <2> HIDE DEF S
  <2>1. rows \in [1 .. N -> Seq(S)]
    BY <1>1, <1>2
  <2> HIDE DEF rows, N
  <2> QED BY <1>1, <2>1, FunctionIsSeq
<1> HIDE DEF rows, S, N
<1>4. flat \in Seq(S) /\ \E start : LaysOut(start, rows, flat)
  BY <1>3, FlattenFacts, Zenon
<1> HIDE DEF flat
<1>5. PICK start : LaysOut(start, rows, flat)
  BY <1>4
<1>6. /\ start \in [1 .. Len(rows) + 1 -> Nat] /\ start[1] = 0
      /\ \A m \in 1 .. Len(rows) : start[m + 1] = start[m] + Len(rows[m])
      /\ Len(flat) = start[Len(rows) + 1]
      /\ \A m \in 1 .. Len(rows) : \A e \in 1 .. Len(rows[m]) :
           start[m] + e \in 1 .. Len(flat) /\ flat[start[m] + e] = rows[m][e]
      /\ \A k \in 1 .. Len(flat) :
           \E m \in 1 .. Len(rows) : \E e \in 1 .. Len(rows[m]) : k = start[m] + e
  BY <1>5, Zenon DEF LaysOut
<1>7. \A k : k \in DOMAIN flat <=> k \in 1 .. Len(flat)
  BY <1>4
<1>8. DOMAIN flat \subseteq Nat
  BY <1>4
<1>9. ASSUME NEW c \in Modules, NEW r \in Requirements(c)
      PROVE  start[c] + r \in DOMAIN flat /\ flat[start[c] + r] = entry(c, r)
  <2>1. c \in 1 .. Len(rows) /\ r \in 1 .. Len(rows[c]) /\ rows[c][r] = entry(c, r)
    BY <1>1, <1>2, <1>3
  <2>2. start[c] + r \in 1 .. Len(flat) /\ flat[start[c] + r] = rows[c][r]
    BY <2>1, <1>6
  <2> QED BY <2>1, <2>2, <1>7
<1>10. ASSUME NEW k \in DOMAIN flat
      PROVE  \E c \in Modules : \E r \in Requirements(c) :
               k = start[c] + r /\ flat[k] = entry(c, r)
  <2>1. PICK c \in 1 .. Len(rows) : \E r \in 1 .. Len(rows[c]) : k = start[c] + r
    BY <1>6, <1>7
  <2>2. PICK r \in 1 .. Len(rows[c]) : k = start[c] + r
    BY <2>1
  <2>3. c \in Modules
    BY <1>1, <1>3, <2>1
  <2>4. r \in Requirements(c)
    BY <1>2, <2>2, <2>3
  <2> QED BY <2>2, <2>3, <2>4, <1>9
<1>11. \A c \in Modules : \A r \in Requirements(c) : \E k \in DOMAIN flat :
        flat[k].consumer = c /\ flat[k].requirement = r
  <2> TAKE c \in Modules
  <2> TAKE r \in Requirements(c)
  <2> DEFINE k == start[c] + r
  <2>1. k \in DOMAIN flat /\ flat[k] = entry(c, r)
    BY <1>9
  <2>2. flat[k].consumer = c /\ flat[k].requirement = r
    BY <2>1
  <2> HIDE DEF k
  <2> QED BY <2>1, <2>2
<1>12. ASSUME NEW k \in DOMAIN flat, NEW l \in DOMAIN flat,
              flat[k].consumer = flat[l].consumer, flat[k].requirement = flat[l].requirement
       PROVE  k = l
  <2>1. PICK c \in Modules : \E r \in Requirements(c) : k = start[c] + r /\ flat[k] = entry(c, r)
    BY <1>10
  <2>2. PICK r \in Requirements(c) : k = start[c] + r /\ flat[k] = entry(c, r)
    BY <2>1
  <2>3. PICK d \in Modules : \E q \in Requirements(d) : l = start[d] + q /\ flat[l] = entry(d, q)
    BY <1>10
  <2>4. PICK q \in Requirements(d) : l = start[d] + q /\ flat[l] = entry(d, q)
    BY <2>3
  <2>5. c = d /\ r = q
    BY <2>2, <2>4, <1>12
  <2> QED BY <2>2, <2>4, <2>5
<1>13. \A k \in DOMAIN flat : \E c \in Modules : \E r \in Requirements(c) : flat[k] = entry(c, r)
  BY <1>10
<1> QED BY <1>8, <1>11, <1>12, <1>13 DEF flat, rows
-----------------------------------------------------------------------------
(***************************************************************************)
(* The catalog                                                             *)
(***************************************************************************)

(* The bindings of a catalog lie where binding_index_for_export looks, and the *)
(* resolutions record for every requirement the binding of an offer, once.     *)
LaidOut(cat) ==
  /\ DOMAIN cat.bindings \subseteq Nat /\ DOMAIN cat.resolutions \subseteq Nat
  /\ Len(cat.bindings) = SumFunction(ExportCounts)
  /\ \A m \in Modules : \A e \in Exports(m) :
       /\ BindingIndex(m, e) \in DOMAIN cat.bindings
       /\ cat.bindings[BindingIndex(m, e)] = Binding(m, e)
  /\ \A k \in DOMAIN cat.bindings : \E m \in Modules : \E e \in Exports(m) : k = BindingIndex(m, e)
  /\ \A k \in DOMAIN cat.resolutions :
       \E c \in Modules : \E r \in Requirements(c) : \E offer \in Compatible(c, r) :
         cat.resolutions[k] = [consumer |-> c, requirement |-> r,
                               binding |-> BindingIndex(offer[1], offer[2])]
  /\ \A c \in Modules : \A r \in Requirements(c) : \E k \in DOMAIN cat.resolutions :
       cat.resolutions[k].consumer = c /\ cat.resolutions[k].requirement = r
  /\ \A k, l \in DOMAIN cat.resolutions :
       /\ cat.resolutions[k].consumer = cat.resolutions[l].consumer
       /\ cat.resolutions[k].requirement = cat.resolutions[l].requirement
       => k = l

Complete(cat) ==
  /\ DescriptorsGood /\ Resolved /\ LaidOut(cat)
  /\ Canonical(cat.order) /\ Len(cat.order) = Len(modules)

(* A complete catalog stays one: prepare may run again, the descriptors stay. *)
LEMMA SameCatalog ==
  ASSUME Given, modules' = modules, shares' = shares, roomy' = roomy, NEW cat
  PROVE  Complete(cat)' <=> Complete(cat)
<1>1. LaidOut(cat)' <=> LaidOut(cat)
  <2> DEFINE Sizes == /\ DOMAIN cat.bindings \subseteq Nat /\ DOMAIN cat.resolutions \subseteq Nat
                      /\ Len(cat.bindings) = SumFunction(ExportCounts)
             Bindings ==
               \A m \in Modules : \A e \in Exports(m) :
                 /\ BindingIndex(m, e) \in DOMAIN cat.bindings
                 /\ cat.bindings[BindingIndex(m, e)] = Binding(m, e)
             NoOthers == \A k \in DOMAIN cat.bindings :
                           \E m \in Modules : \E e \in Exports(m) : k = BindingIndex(m, e)
             Records ==
               \A k \in DOMAIN cat.resolutions :
                 \E c \in Modules : \E r \in Requirements(c) : \E offer \in Compatible(c, r) :
                   cat.resolutions[k] = [consumer |-> c, requirement |-> r,
                                         binding |-> BindingIndex(offer[1], offer[2])]
             Every ==
               /\ \A c \in Modules : \A r \in Requirements(c) : \E k \in DOMAIN cat.resolutions :
                    cat.resolutions[k].consumer = c /\ cat.resolutions[k].requirement = r
               /\ \A k, l \in DOMAIN cat.resolutions :
                    /\ cat.resolutions[k].consumer = cat.resolutions[l].consumer
                    /\ cat.resolutions[k].requirement = cat.resolutions[l].requirement
                    => k = l
  <2>1. Sizes' <=> Sizes
    BY SameRows
  <2>2. Bindings' <=> Bindings
    BY SameRows
  <2>3. NoOthers' <=> NoOthers
    BY SameRows
  <2>4. Records' <=> Records
    BY SameRows
  <2>5. Every' <=> Every
    BY SameRows
  <2>6. LaidOut(cat) <=> Sizes /\ Bindings /\ NoOthers /\ Records /\ Every
    BY Zenon DEF LaidOut
  <2>7. LaidOut(cat)' <=> Sizes' /\ Bindings' /\ NoOthers' /\ Records' /\ Every'
    BY Zenon DEF LaidOut
  <2> QED BY <2>1, <2>2, <2>3, <2>4, <2>5, <2>6, <2>7, Zenon
<1> QED BY <1>1, SameInputs, SameOrder DEF Complete

LEMMA PositionMeans ==
  ASSUME Given, NEW cat, cat = catalog, Complete(cat), NEW i \in 1 .. Len(cat.order)
  PROVE  Position(cat.order[i]) = i
<1>1. \A j : j \in DOMAIN cat.order <=> j \in 1 .. Len(cat.order)
  BY CanonicalTypes DEF Complete
<1>2. \A j \in DOMAIN cat.order : cat.order[j] = cat.order[i] => j = i
  BY <1>1, CanonicalDiffer DEF Complete
<1>3. i \in DOMAIN cat.order
  BY <1>1
<1>4. Position(cat.order[i]) = CHOOSE j \in DOMAIN cat.order : cat.order[j] = cat.order[i]
  BY DEF Position
<1> QED BY <1>2, <1>3, <1>4

LEMMA ProviderPlaced ==
  ASSUME Given, NEW cat, cat = catalog, Complete(cat),
         NEW c \in Modules, NEW r \in Requirements(c), NEW offer \in Compatible(c, r)
  PROVE  Position(offer[1]) < Position(c)
<1> USE DEF Complete
<1>1. PICK j \in 1 .. Len(cat.order) : cat.order[j] = c
  BY WholeOrder
<1>2. PICK i \in 1 .. j - 1 : cat.order[i] = offer[1]
  BY <1>1, WholeOrder
<1>3. Len(cat.order) \in Nat
  BY CanonicalTypes
<1>4. i \in 1 .. Len(cat.order) /\ i < j
  BY <1>1, <1>2, <1>3
<1>5. Position(c) = j /\ Position(offer[1]) = i
  <2>1. Position(cat.order[j]) = j /\ Position(cat.order[i]) = i
    BY <1>4, PositionMeans
  <2> QED BY <2>1, <1>1, <1>2
<1> QED BY <1>4, <1>5

LEMMA BindingParts ==
  ASSUME NEW m, NEW e
  PROVE  Binding(m, e).capability = modules[m].provides[e] /\ Binding(m, e).module = m
BY DEF Binding

(* What is recorded for a requirement is the binding of its offer. *)
LEMMA Recorded ==
  ASSUME Given, NEW cat, Complete(cat), NEW k \in DOMAIN cat.resolutions, NEW c, NEW r,
         cat.resolutions[k].consumer = c, cat.resolutions[k].requirement = r
  PROVE  /\ c \in Modules /\ r \in Requirements(c)
         /\ \A offer \in Compatible(c, r) :
              cat.bindings[cat.resolutions[k].binding] = Binding(offer[1], offer[2])
<1>1. PICK d \in Modules : \E q \in Requirements(d) : \E taken \in Compatible(d, q) :
        cat.resolutions[k] = [consumer |-> d, requirement |-> q,
                              binding |-> BindingIndex(taken[1], taken[2])]
  BY DEF Complete, LaidOut
<1>2. PICK q \in Requirements(d) : \E taken \in Compatible(d, q) :
        cat.resolutions[k] = [consumer |-> d, requirement |-> q,
                              binding |-> BindingIndex(taken[1], taken[2])]
  BY <1>1
<1>3. PICK taken \in Compatible(d, q) :
        cat.resolutions[k] = [consumer |-> d, requirement |-> q,
                              binding |-> BindingIndex(taken[1], taken[2])]
  BY <1>2
<1>4. d = c /\ q = r /\ cat.resolutions[k].binding = BindingIndex(taken[1], taken[2])
  BY <1>3
<1>5. taken[1] \in Modules /\ taken[2] \in Exports(taken[1])
  BY OfferParts
<1>6. cat.bindings[BindingIndex(taken[1], taken[2])] = Binding(taken[1], taken[2])
  BY <1>5 DEF Complete, LaidOut
<1>7. \A offer \in Compatible(c, r) : offer = taken
  BY <1>4, OneOffer DEF Complete
<1> QED BY <1>1, <1>2, <1>3, <1>4, <1>6, <1>7

(* The modules of the bindings that are recorded for m are its providers. *)
LEMMA RecordedProviders ==
  ASSUME Given, NEW cat, Complete(cat), NEW m \in Modules, NEW placed
  PROVE  {cat.bindings[cat.resolutions[k].binding].module :
            k \in {k \in DOMAIN cat.resolutions : cat.resolutions[k].consumer = m}}
           \subseteq placed
         <=> ~Waits(m, placed)
<1> DEFINE module(k) == cat.bindings[cat.resolutions[k].binding].module
           mine == {k \in DOMAIN cat.resolutions : cat.resolutions[k].consumer = m}
<1>1. ASSUME NEW k \in mine
      PROVE  \E r \in Requirements(m) : \E offer \in Compatible(m, r) : module(k) = offer[1]
  <2>1. PICK r : r = cat.resolutions[k].requirement
    OBVIOUS
  <2>2. /\ r \in Requirements(m)
        /\ \A offer \in Compatible(m, r) :
             cat.bindings[cat.resolutions[k].binding] = Binding(offer[1], offer[2])
    BY <2>1, Recorded
  <2>3. PICK offer \in Compatible(m, r) : TRUE
    BY <2>2 DEF Complete, Resolved
  <2>4. module(k) = offer[1]
    <3>1. cat.bindings[cat.resolutions[k].binding] = Binding(offer[1], offer[2])
      BY <2>2
    <3> QED BY <3>1, BindingParts
  <2> QED BY <2>2, <2>4
<1>2. ASSUME NEW r \in Requirements(m), NEW offer \in Compatible(m, r)
      PROVE  \E k \in mine : module(k) = offer[1]
  <2>1. PICK k \in DOMAIN cat.resolutions :
          cat.resolutions[k].consumer = m /\ cat.resolutions[k].requirement = r
    BY DEF Complete, LaidOut
  <2>2. cat.bindings[cat.resolutions[k].binding] = Binding(offer[1], offer[2])
    BY <2>1, Recorded
  <2>3. module(k) = offer[1]
    BY <2>2, BindingParts
  <2> QED BY <2>1, <2>3
<1>3. {module(k) : k \in mine} \subseteq placed <=> ~Waits(m, placed)
  <2> HIDE DEF module, mine
  <2> QED BY <1>1, <1>2 DEF Waits
<1> QED BY <1>3

(* The order that is published is the one validation computes anew. *)
LEMMA OrderIsCanonical ==
  ASSUME Given, Complete(catalog), NEW position \in Modules
  PROVE  CanonicalAt(position)
<1> DEFINE placed == {catalog.order[i] : i \in 1 .. position - 1}
           needs(m) == {catalog.bindings[catalog.resolutions[k].binding].module :
                          k \in {k \in DOMAIN catalog.resolutions : catalog.resolutions[k].consumer = m}}
           ready == {m \in Modules \ placed : needs(m) \subseteq placed}
           first == catalog.order[position]
<1>1. CanonicalAt(position) <=> ready # {} /\ first = Min(ready)
  BY Zenon DEF CanonicalAt
<1>2. \A m \in Modules : needs(m) \subseteq placed <=> ~Waits(m, placed)
  <2> TAKE m \in Modules
  <2> HIDE DEF placed
  <2> QED BY RecordedProviders
<1>3. placed = Placed(catalog.order, position - 1)
  BY DEF Placed
<1> HIDE DEF needs
<1>4. \A m : m \in ready <=> m \in Modules \ placed /\ ~Waits(m, placed)
  BY <1>2
<1>5. ready \subseteq Nat
  BY GivenTypes
<1>6. first \in Modules /\ IsNext(first, placed)
  <2>1. position \in 1 .. Len(catalog.order)
    BY GivenTypes DEF Complete
  <2> QED BY <2>1, <1>3 DEF Complete, Canonical, IsNext
<1> HIDE DEF placed, ready, first
<1>7. first \in ready /\ \A n \in ready : first <= n
  BY <1>4, <1>6 DEF IsNext
<1>8. Min(ready) \in ready /\ Min(ready) <= first
  BY <1>5, <1>7, MinIsLeast
<1>9. first = Min(ready)
  <2>1. first <= Min(ready) /\ first \in Nat /\ Min(ready) \in Nat
    BY <1>5, <1>7, <1>8
  <2> QED BY <2>1, <1>8
<1> QED BY <1>1, <1>7, <1>9

(* catalog_validate accepts a complete catalog. *)
LEMMA CompleteIsValid ==
  ASSUME Given, Complete(catalog)
  PROVE  CatalogValid
<1>1. DescriptorSetFault = "ok"
  BY DescriptorsDecide DEF Complete
<1>2. {catalog.order[i] : i \in DOMAIN catalog.order} = Modules
  <2>1. \A i : i \in DOMAIN catalog.order <=> i \in 1 .. Len(catalog.order)
    BY CanonicalTypes DEF Complete
  <2>2. {catalog.order[i] : i \in DOMAIN catalog.order} = Placed(catalog.order, Len(catalog.order))
    BY <2>1 DEF Placed
  <2> QED BY <2>2, PlacedCount DEF Complete
<1>3. ASSUME NEW k \in DOMAIN catalog.resolutions
      PROVE  LET consumer == catalog.resolutions[k].consumer
                 binding  == catalog.bindings[catalog.resolutions[k].binding]
             IN /\ Satisfies(binding.capability,
                             modules[consumer].consumes[catalog.resolutions[k].requirement])
                /\ Position(binding.module) < Position(consumer)
  <2>1. PICK c, r : c = catalog.resolutions[k].consumer /\ r = catalog.resolutions[k].requirement
    OBVIOUS
  <2>2. /\ c \in Modules /\ r \in Requirements(c)
        /\ \A offer \in Compatible(c, r) :
             catalog.bindings[catalog.resolutions[k].binding] = Binding(offer[1], offer[2])
    BY <2>1, Recorded
  <2>3. PICK offer \in Compatible(c, r) : TRUE
    BY <2>2 DEF Complete, Resolved
  <2> DEFINE binding == catalog.bindings[catalog.resolutions[k].binding]
  <2>4. binding.capability = modules[offer[1]].provides[offer[2]] /\ binding.module = offer[1]
    <3>1. binding = Binding(offer[1], offer[2])
      BY <2>2
    <3> HIDE DEF binding
    <3> QED BY <3>1, BindingParts
  <2>5. Satisfies(modules[offer[1]].provides[offer[2]], modules[c].consumes[r])
    BY OfferParts
  <2>6. Position(offer[1]) < Position(c)
    BY <2>2, ProviderPlaced
  <2> HIDE DEF binding
  <2>7. Satisfies(binding.capability, modules[c].consumes[r])
    BY <2>4, <2>5
  <2>8. Position(binding.module) < Position(c)
    BY <2>4, <2>6
  <2> QED BY <2>1, <2>7, <2>8 DEF binding
<1>4. \A position \in Modules : CanonicalAt(position)
  BY OrderIsCanonical
<1>5. /\ Len(catalog.order) = Len(modules) /\ Len(catalog.bindings) = SumFunction(ExportCounts)
      /\ \A m \in Modules : \A e \in Exports(m) : catalog.bindings[BindingIndex(m, e)] = Binding(m, e)
  BY DEF Complete, LaidOut
<1> QED BY <1>1, <1>2, <1>3, <1>4, <1>5 DEF CatalogValid

LEMMA MinOfOne ==
  ASSUME NEW x \in Nat
  PROVE  Min({x}) = x
BY MinIsLeast

(* No two modules have an id. *)
LEMMA ModuleIsFound ==
  ASSUME Given, DescriptorsGood, NEW m \in Modules
  PROVE  FindModule(modules[m].id) = [status |-> "ok", module |-> m]
<1> DEFINE named == {n \in Modules : modules[n].id = modules[m].id}
<1>1. named = {m}
  <2>1. ASSUME NEW n \in Modules, modules[n].id = modules[m].id
        PROVE  n = m
    <3>1. ~(n < m) /\ ~(m < n)
      BY <2>1 DEF DescriptorsGood
    <3> QED BY <3>1, GivenTypes
  <2> QED BY <2>1
<1>2. FindModule(modules[m].id) =
        IF named = {} THEN [status |-> "enoent"] ELSE [status |-> "ok", module |-> Min(named)]
  BY Zenon DEF FindModule
<1> HIDE DEF named
<1>3. Min(named) = m
  BY <1>1, GivenTypes, MinOfOne
<1> QED BY <1>1, <1>2, <1>3

(* A requirement's capability is found by its id alone, where its offer lies. *)
LEMMA CapabilityIsFound ==
  ASSUME Given, Complete(catalog), NEW c \in Modules, NEW r \in Requirements(c),
         NEW offer \in Compatible(c, r)
  PROVE  Find(modules[c].consumes[r])
           = [status |-> "ok", binding |-> Binding(offer[1], offer[2])]
<1> DEFINE required == modules[c].consumes[r]
           named == {k \in DOMAIN catalog.bindings :
                       catalog.bindings[k].capability.id = required.id}
           place == BindingIndex(offer[1], offer[2])
<1>1. /\ offer[1] \in Modules /\ offer[2] \in Exports(offer[1])
      /\ offer = <<offer[1], offer[2]>>
      /\ modules[offer[1]].provides[offer[2]].id = required.id
      /\ Satisfies(modules[offer[1]].provides[offer[2]], required)
  BY OfferParts
<1>2. place \in DOMAIN catalog.bindings /\ catalog.bindings[place] = Binding(offer[1], offer[2])
  BY <1>1 DEF Complete, LaidOut
<1>3. place \in Nat
  BY <1>2 DEF Complete, LaidOut
<1>4. catalog.bindings[place].capability = modules[offer[1]].provides[offer[2]]
  BY <1>2, BindingParts
<1> HIDE DEF place
<1>5. ASSUME NEW k \in DOMAIN catalog.bindings, catalog.bindings[k].capability.id = required.id
      PROVE  k = place
  <2>1. PICK m \in Modules : \E e \in Exports(m) : k = BindingIndex(m, e)
    BY DEF Complete, LaidOut
  <2>2. PICK e \in Exports(m) : k = BindingIndex(m, e)
    BY <2>1
  <2>3. catalog.bindings[k] = Binding(m, e)
    BY <2>1, <2>2 DEF Complete, LaidOut
  <2>4. modules[m].provides[e].id = required.id
    BY <2>3, <1>5, BindingParts
  <2>5. <<m, e>> = <<offer[1], offer[2]>>
    BY <1>1, <2>4 DEF Complete, DescriptorsGood, ProvidedTwice
  <2>6. m = offer[1] /\ e = offer[2]
    BY <2>5
  <2> QED BY <2>2, <2>6 DEF place
<1>6. named = {place}
  BY <1>1, <1>2, <1>4, <1>5
<1>7. Find(required) =
        IF named = {} THEN [status |-> "enoent"]
        ELSE IF ~Satisfies(catalog.bindings[Min(named)].capability, required)
        THEN [status |-> "eproto"]
        ELSE [status |-> "ok", binding |-> catalog.bindings[Min(named)]]
  BY Zenon DEF Find
<1> HIDE DEF named, required
<1>8. Min(named) = place
  BY <1>3, <1>6, MinOfOne
<1>9. Satisfies(catalog.bindings[Min(named)].capability, required)
  BY <1>1, <1>4, <1>8
<1>10. Find(required) = [status |-> "ok", binding |-> catalog.bindings[place]]
  BY <1>6, <1>7, <1>8, <1>9
<1> QED BY <1>2, <1>10 DEF required

(* And the record of the requirement names the same binding. *)
LEMMA RequirementIsResolved ==
  ASSUME Given, Complete(catalog), NEW c \in Modules, NEW r \in Requirements(c),
         NEW offer \in Compatible(c, r)
  PROVE  ResolveRequirement(c, r)
           = [status |-> "ok", binding |-> Binding(offer[1], offer[2])]
<1> DEFINE recorded == {k \in DOMAIN catalog.resolutions :
                          /\ catalog.resolutions[k].consumer = c
                          /\ catalog.resolutions[k].requirement = r}
<1>1. PICK k \in DOMAIN catalog.resolutions :
        catalog.resolutions[k].consumer = c /\ catalog.resolutions[k].requirement = r
  BY DEF Complete, LaidOut
<1>2. recorded = {k}
  BY <1>1 DEF Complete, LaidOut
<1>3. k \in Nat
  BY DEF Complete, LaidOut
<1>4. catalog.bindings[catalog.resolutions[k].binding] = Binding(offer[1], offer[2])
  BY <1>1, Recorded
<1>5. ResolveRequirement(c, r) =
        IF recorded = {} THEN [status |-> "enoent"]
        ELSE [status |-> "ok", binding |->
                catalog.bindings[catalog.resolutions[Min(recorded)].binding]]
  BY Zenon DEF ResolveRequirement
<1> HIDE DEF recorded
<1>6. Min(recorded) = k
  BY <1>2, <1>3, MinOfOne
<1> QED BY <1>2, <1>4, <1>5, <1>6

(* What a complete catalog promises those who query it. *)
LEMMA CompleteAnswers ==
  ASSUME Given, Complete(catalog)
  PROVE  /\ CatalogValid
         /\ \A m \in Modules : FindModule(modules[m].id) = [status |-> "ok", module |-> m]
         /\ \A c \in Modules : \A r \in Requirements(c) :
              LET found == Find(modules[c].consumes[r]) IN
              /\ found.status = "ok"
              /\ ResolveRequirement(c, r) = found
              /\ Position(found.binding.module) < Position(c)
<1>1. CatalogValid
  BY CompleteIsValid
<1>2. \A m \in Modules : FindModule(modules[m].id) = [status |-> "ok", module |-> m]
  BY ModuleIsFound DEF Complete
<1>3. ASSUME NEW c \in Modules, NEW r \in Requirements(c)
      PROVE  LET found == Find(modules[c].consumes[r]) IN
             /\ found.status = "ok"
             /\ ResolveRequirement(c, r) = found
             /\ Position(found.binding.module) < Position(c)
  <2> DEFINE found == Find(modules[c].consumes[r])
  <2>1. PICK offer \in Compatible(c, r) : TRUE
    BY DEF Complete, Resolved
  <2>2. found = [status |-> "ok", binding |-> Binding(offer[1], offer[2])]
    BY CapabilityIsFound
  <2>3. ResolveRequirement(c, r) = [status |-> "ok", binding |-> Binding(offer[1], offer[2])]
    BY RequirementIsResolved
  <2> HIDE DEF found
  <2>4. found.status = "ok" /\ found.binding = Binding(offer[1], offer[2])
    BY <2>2
  <2>5. found.binding.module = offer[1]
    BY <2>4, BindingParts
  <2>6. Position(found.binding.module) < Position(c)
    BY <2>5, ProviderPlaced
  <2>7. ResolveRequirement(c, r) = found
    BY <2>2, <2>3
  <2> QED BY <2>4, <2>6, <2>7 DEF found
<1> QED BY <1>1, <1>2, <1>3

(* Before it is published, the order already puts providers first. *)
LEMMA OrderedIsRight ==
  ASSUME Given, Wired, Canonical(order), Len(order) = Len(modules)
  PROVE  ProvidersFirst
<1>1. PICK o : o = order
  OBVIOUS
<1>2. Canonical(o) /\ Len(o) = Len(modules)
  BY <1>1
<1>3. \A i : i \in DOMAIN o <=> i \in 1 .. Len(o)
  BY <1>2, CanonicalTypes
<1>4. {o[i] : i \in DOMAIN o} = Modules
  <2>1. {o[i] : i \in DOMAIN o} = Placed(o, Len(o))
    BY <1>3 DEF Placed
  <2> QED BY <2>1, <1>2, PlacedCount
<1>5. \A i, j \in DOMAIN o : o[i] = o[j] => i = j
  BY <1>2, <1>3, CanonicalDiffer
<1>6. ASSUME NEW j \in DOMAIN o, NEW r \in Requirements(o[j])
      PROVE  \E i \in 1 .. j - 1 : o[i] = provider[o[j]][r]
  <2>1. PICK c \in Modules : c = o[j]
    BY <1>4
  <2>2. PICK e : <<provider[c][r], e>> \in Compatible(c, r)
    BY <2>1 DEF Wired
  <2>3. j \in 1 .. Len(o)
    BY <1>3
  <2>4. <<provider[c][r], e>> \in Compatible(o[j], r) /\ <<provider[c][r], e>>[1] = provider[c][r]
    BY <2>1, <2>2
  <2>5. \E i \in 1 .. j - 1 : o[i] = <<provider[c][r], e>>[1]
    BY <1>2, <2>3, <2>4, WholeOrder
  <2> QED BY <2>1, <2>4, <2>5
<1> QED BY <1>1, <1>4, <1>5, <1>6 DEF ProvidersFirst, Selected
-----------------------------------------------------------------------------
(***************************************************************************)
(* The invariant                                                           *)
(***************************************************************************)

(* What is written while the caller's regions are clear goes nowhere else. *)
LEMMA WritesStay ==
  ASSUME RegionsClear, touched = {}, NEW regions, regions \subseteq Outputs, Write(regions)
  PROVE  touched' = {}
BY DEF Write, RegionsClear

(* Once the descriptors are accepted and each requirement has its offer, the  *)
(* indegrees count what is unmet and the order is canonical as far as it goes. *)
KernelInvariant ==
  /\ Given /\ pc \in {"caller", "resolve", "order", "publish"}
  /\ ret \in Statuses \union {"none"} /\ order \in Seq(Modules)
  /\ touched = {}
  /\ catalog.published => Complete(catalog)
  /\ pc # "caller" => Accepted
  /\ pc \in {"order", "publish"} => Wired /\ Counted /\ Canonical(order)
  /\ pc = "publish" => Len(order) = Len(modules)
  /\ LoopIffCyclic

LEMMA LoopMeans ==
  LoopIffCyclic <=> /\ ret = "eloop" => Cyclic
                    /\ ret = "ok" => ~Cyclic
                    /\ ret = "einval" => Malformed
BY DEF LoopIffCyclic, Malformed

(* What the steps leave alone stays true. *)
LEMMA InputsStay ==
  ASSUME KernelInvariant, UNCHANGED <<modules, shares, roomy>>
  PROVE  /\ Given' /\ (Accepted' <=> Accepted) /\ (Resolved' <=> Resolved)
         /\ (Cyclic' <=> Cyclic) /\ (Malformed' <=> Malformed)
BY SameInputs DEF KernelInvariant, Accepted

LEMMA CatalogStays ==
  ASSUME KernelInvariant, UNCHANGED <<modules, shares, roomy, catalog>>
  PROVE  catalog'.published => Complete(catalog)'
<1>1. PICK cat : cat = catalog
  OBVIOUS
<1>2. Complete(cat)' <=> Complete(cat)
  BY SameCatalog DEF KernelInvariant
<1>3. Complete(catalog)' <=> Complete(cat)'
  BY <1>1
<1> QED BY <1>1, <1>2, <1>3 DEF KernelInvariant

LEMMA WiredStays ==
  ASSUME UNCHANGED <<modules, provider, bound>>
  PROVE  Wired' <=> Wired
<1> DEFINE Met(c, r) == \E e \in Exports(provider[c][r]) :
                          /\ <<provider[c][r], e>> \in Compatible(c, r)
                          /\ bound[c][r] = BindingIndex(provider[c][r], e)
<1>1. \A c, r : Met(c, r)' <=> Met(c, r)
  BY SameRows
<1>2. Wired <=> \A c \in Modules :
                  /\ provider[c] \in [Requirements(c) -> Modules]
                  /\ \A r \in Requirements(c) : Met(c, r)
  BY DEF Wired
<1>3. Wired' <=> \A c \in Modules' :
                  /\ provider'[c] \in [Requirements(c)' -> Modules']
                  /\ \A r \in Requirements(c)' : Met(c, r)'
  BY DEF Wired
<1> HIDE DEF Met
<1> QED BY <1>1, <1>2, <1>3, SameRows

LEMMA WorkspaceStays ==
  ASSUME KernelInvariant, UNCHANGED <<modules, provider, bound, indegree, order>>
  PROVE  /\ order' \in Seq(Modules') /\ (Wired' <=> Wired) /\ (Counted' <=> Counted)
         /\ (Canonical(order)' <=> Canonical(order))
<1>1. order' \in Seq(Modules')
  BY SameRows DEF KernelInvariant
<1>2. Wired' <=> Wired
  BY WiredStays
<1>3. Counted' <=> Counted
  <2>1. Selected' = Selected
    BY DEF Selected
  <2>2. \A c : UnmetBy(c, Selected)' = UnmetBy(c, Selected)
    BY <2>1, SameRows DEF UnmetBy
  <2> QED BY <2>2, SameRows DEF Counted
<1>4. Canonical(order)' <=> Canonical(order)
  <2>1. PICK o : o = order
    OBVIOUS
  <2>2. Canonical(order)' <=> Canonical(o)
    BY <2>1, NextOrder
  <2> QED BY <2>1, <2>2
<1> QED BY <1>1, <1>2, <1>3, <1>4

(* A status that is returned says what is the matter. *)
LEMMA Returned ==
  ASSUME KernelInvariant, UNCHANGED <<modules, shares, roomy>>,
         ret' \in Statuses \union {"none"},
         ret' # ret => /\ ret' = "eloop" => Cyclic
                       /\ ret' = "ok" => ~Cyclic
                       /\ ret' = "einval" => Malformed
  PROVE  LoopIffCyclic'
<1>1. /\ ret' = "eloop" => Cyclic
      /\ ret' = "ok" => ~Cyclic
      /\ ret' = "einval" => Malformed
  BY LoopMeans DEF KernelInvariant
<1>2. LoopIffCyclic' <=> /\ ret' = "eloop" => Cyclic'
                         /\ ret' = "ok" => ~Cyclic'
                         /\ ret' = "einval" => Malformed'
  BY DEF LoopIffCyclic, Malformed
<1> QED BY <1>1, <1>2, InputsStay

LEMMA InitHolds == Init => KernelInvariant
<1> SUFFICES ASSUME Init PROVE KernelInvariant
  OBVIOUS
<1>1. Given
  <2>1. PICK call \in Calls : modules = call.modules /\ shares = call.shares
    BY DEF Init
  <2>2. call = [modules |-> modules, shares |-> shares]
    BY <2>1, CallsAssumption
  <2> QED BY <2>1, <2>2 DEF Init, Given
<1>2. ~catalog.published
  BY DEF Init, Nothing
<1> QED BY <1>1, <1>2 DEF Init, KernelInvariant, LoopIffCyclic

LEMMA PrepareKeeps == KernelInvariant /\ Prepare => KernelInvariant'
<1> SUFFICES ASSUME KernelInvariant, Prepare PROVE KernelInvariant'
  OBVIOUS
<1>1. UNCHANGED <<modules, shares, roomy, provider, bound, indegree, order, catalog, touched>>
  BY DEF Prepare, workspace
<1>2. /\ InputFault \in {"ok", "einval", "eexist", "enospc"}
      /\ InputFault = "ok" => Accepted
      /\ InputFault = "einval" => Malformed
  BY InputsDecide DEF KernelInvariant
<1>3. \/ InputFault # "ok" /\ pc' = "caller" /\ ret' = InputFault
      \/ InputFault = "ok" /\ pc' = "resolve" /\ ret' = ret
  BY DEF Prepare, Return
<1>4. ret' \in Statuses \union {"none"} /\ LoopIffCyclic'
  <2>1. ret' \in Statuses \union {"none"}
    BY <1>2, <1>3 DEF Statuses, KernelInvariant
  <2> QED BY <1>1, <1>2, <1>3, <2>1, Returned
<1>5. pc' # "caller" => Accepted'
  BY <1>1, <1>2, <1>3, InputsStay
<1>6. Given' /\ order' \in Seq(Modules') /\ (catalog'.published => Complete(catalog)')
  BY <1>1, InputsStay, CatalogStays, WorkspaceStays
<1> QED BY <1>1, <1>3, <1>4, <1>5, <1>6 DEF KernelInvariant

LEMMA OrderedKeeps == KernelInvariant /\ Ordered => KernelInvariant'
<1> SUFFICES ASSUME KernelInvariant, Ordered PROVE KernelInvariant'
  OBVIOUS
<1>1. /\ UNCHANGED <<modules, shares, roomy, provider, bound, indegree, order, catalog, touched>>
      /\ ret' = ret /\ pc = "order" /\ pc' = "publish" /\ Len(order) = Len(modules)
  BY DEF Ordered, workspace
<1>2. LoopIffCyclic' /\ ret' \in Statuses \union {"none"}
  BY <1>1, Returned DEF KernelInvariant
<1>3. Given' /\ Accepted' /\ (catalog'.published => Complete(catalog)')
  BY <1>1, InputsStay, CatalogStays DEF KernelInvariant
<1>4. order' \in Seq(Modules') /\ Wired' /\ Counted' /\ Canonical(order)'
  BY <1>1, WorkspaceStays DEF KernelInvariant
<1> QED BY <1>1, <1>2, <1>3, <1>4 DEF KernelInvariant

LEMMA StutterKeeps == KernelInvariant /\ UNCHANGED vars => KernelInvariant'
<1> SUFFICES ASSUME KernelInvariant, UNCHANGED vars PROVE KernelInvariant'
  OBVIOUS
<1>1. /\ UNCHANGED <<modules, shares, roomy, provider, bound, indegree, order, catalog, touched>>
      /\ ret' = ret /\ pc' = pc
  BY DEF vars, workspace
<1>2. LoopIffCyclic' /\ ret' \in Statuses \union {"none"}
  BY <1>1, Returned DEF KernelInvariant
<1>3. Given' /\ (Accepted' <=> Accepted) /\ (catalog'.published => Complete(catalog)')
  BY <1>1, InputsStay, CatalogStays
<1>4. /\ order' \in Seq(Modules') /\ (Wired' <=> Wired) /\ (Counted' <=> Counted)
      /\ (Canonical(order)' <=> Canonical(order))
  BY <1>1, WorkspaceStays
<1> QED BY <1>1, <1>2, <1>3, <1>4 DEF KernelInvariant

(* The walk over every requirement ends well only if each has an offer. *)
LEMMA ResolveWalk ==
  ASSUME Given
  PROVE  LET fault == FirstFault(Modules, LAMBDA c :
                        FirstFault(Requirements(c), LAMBDA r : ResolveFault(c, r)))
         IN fault \in {"ok", "enoent", "eproto"} /\ (fault = "ok" => Resolved)
<1> DEFINE Row(c) == FirstFault(Requirements(c), LAMBDA r : ResolveFault(c, r))
           fault == FirstFault(Modules, Row)
           faulty == {c \in Modules : Row(c) # "ok"}
<1>1. ASSUME NEW c \in Modules
      PROVE  /\ Row(c) \in {"ok", "enoent", "eproto"}
             /\ Row(c) = "ok" => \A r \in Requirements(c) : Compatible(c, r) # {}
  <2> DEFINE inRow == {r \in Requirements(c) : ResolveFault(c, r) # "ok"}
             row == FirstFault(Requirements(c), LAMBDA r : ResolveFault(c, r))
  <2>1. CASE inRow = {}
    <3>1. \A r \in Requirements(c) : ResolveFault(c, r) = "ok"
      BY <2>1
    <3>2. row = "ok"
      BY <3>1, Zenon DEF FirstFault
    <3>3. \A r \in Requirements(c) : Compatible(c, r) # {}
      BY <3>1 DEF ResolveFault
    <3> QED BY <3>2, <3>3
  <2>2. CASE inRow # {}
    <3>1. Min(inRow) \in inRow
      <4>1. inRow \subseteq Nat
        BY RowTypes
      <4> QED BY <2>2, <4>1, MinIsLeast
    <3>2. ~ \A r \in Requirements(c) : ResolveFault(c, r) = "ok"
      BY <2>2
    <3>3. row = ResolveFault(c, Min(inRow))
      BY <3>2, Zenon DEF FirstFault
    <3>4. ResolveFault(c, Min(inRow)) \in {"enoent", "eproto"}
      BY <3>1 DEF ResolveFault
    <3> HIDE DEF row
    <3>5. row \in {"ok", "enoent", "eproto"} /\ row # "ok"
      BY <3>3, <3>4
    <3> QED BY <3>5 DEF row
  <2> QED BY <2>1, <2>2
<1> SUFFICES fault \in {"ok", "enoent", "eproto"} /\ (fault = "ok" => Resolved)
  OBVIOUS
<1> HIDE DEF Row
<1>2. CASE faulty = {}
  <2>1. \A c \in Modules : Row(c) = "ok"
    BY <1>2
  <2>2. fault = "ok"
    BY <2>1, Zenon DEF FirstFault
  <2>3. Resolved
    BY <1>1, <2>1 DEF Resolved
  <2> QED BY <2>2, <2>3
<1>3. CASE faulty # {}
  <2>1. Min(faulty) \in faulty
    <3>1. faulty \subseteq Nat
      BY GivenTypes
    <3> QED BY <1>3, <3>1, MinIsLeast
  <2>2. ~ \A c \in Modules : Row(c) = "ok"
    BY <1>3
  <2>3. fault = Row(Min(faulty))
    BY <2>2, Zenon DEF FirstFault
  <2>4. Min(faulty) \in Modules /\ Row(Min(faulty)) # "ok"
    BY <2>1
  <2> HIDE DEF faulty, fault
  <2>5. fault \in {"ok", "enoent", "eproto"} /\ fault # "ok"
    BY <1>1, <2>3, <2>4
  <2> QED BY <2>5 DEF fault
<1> QED BY <1>2, <1>3

LEMMA OfferTaken ==
  ASSUME Resolved, NEW c \in Modules, NEW r \in Requirements(c)
  PROVE  /\ Offer(c, r) \in Compatible(c, r)
         /\ Offer(c, r)[1] \in Modules /\ Offer(c, r)[2] \in Exports(Offer(c, r)[1])
         /\ Offer(c, r) = <<Offer(c, r)[1], Offer(c, r)[2]>>
<1>1. Offer(c, r) \in Compatible(c, r)
  BY OfferIsCompatible DEF Resolved
<1>2. PICK offer \in Compatible(c, r) : offer = Offer(c, r)
  BY <1>1
<1> QED BY <1>1, <1>2, OfferParts

LEMMA ResolveKeeps == KernelInvariant /\ Resolve => KernelInvariant'
<1> SUFFICES ASSUME KernelInvariant, Resolve PROVE KernelInvariant'
  OBVIOUS
<1> DEFINE fault == FirstFault(Modules, LAMBDA c :
                      FirstFault(Requirements(c), LAMBDA r : ResolveFault(c, r)))
<1>1. fault \in {"ok", "enoent", "eproto"} /\ (fault = "ok" => Resolved)
  BY ResolveWalk DEF KernelInvariant
<1>2. /\ pc = "resolve" /\ UNCHANGED <<modules, shares, roomy, catalog>>
      /\ Write(WorkspaceRegions)
      /\ \/ fault # "ok" /\ pc' = "caller" /\ ret' = fault /\ UNCHANGED workspace
         \/ /\ fault = "ok" /\ pc' = "order" /\ ret' = ret /\ order' = <<>>
            /\ provider' = [c \in Modules |-> [r \in Requirements(c) |-> Offer(c, r)[1]]]
            /\ bound' = [c \in Modules |-> [r \in Requirements(c) |->
                           BindingIndex(Offer(c, r)[1], Offer(c, r)[2])]]
            /\ indegree' = [c \in Modules |-> Len(modules[c].consumes)]
  BY Zenon DEF Resolve, Return
<1> HIDE DEF fault
<1>3. Accepted
  BY <1>2 DEF KernelInvariant
<1>4. touched' = {}
  <2>1. WorkspaceRegions \subseteq Outputs
    BY DEF Outputs
  <2> QED BY <1>2, <1>3, <2>1, WritesStay DEF Accepted, KernelInvariant
<1>5. ret' \in Statuses \union {"none"} /\ LoopIffCyclic'
  <2>1. ret' \in Statuses \union {"none"}
    BY <1>1, <1>2 DEF Statuses, KernelInvariant
  <2> QED BY <1>1, <1>2, <2>1, Returned
<1>6. Given' /\ Accepted' /\ (catalog'.published => Complete(catalog)')
  BY <1>2, <1>3, InputsStay, CatalogStays
<1>7. CASE fault # "ok"
  <2>1. pc' = "caller" /\ UNCHANGED <<modules, provider, bound, indegree, order>>
    BY <1>2, <1>7 DEF workspace
  <2>2. order' \in Seq(Modules')
    BY <2>1, WorkspaceStays
  <2> QED BY <1>4, <1>5, <1>6, <2>1, <2>2 DEF KernelInvariant
<1>8. CASE fault = "ok"
  <2>1. /\ pc' = "order" /\ order' = <<>>
        /\ provider' = [c \in Modules |-> [r \in Requirements(c) |-> Offer(c, r)[1]]]
        /\ bound' = [c \in Modules |-> [r \in Requirements(c) |->
                       BindingIndex(Offer(c, r)[1], Offer(c, r)[2])]]
        /\ indegree' = [c \in Modules |-> Len(modules[c].consumes)]
    BY <1>2, <1>8
  <2>2. Resolved /\ modules' = modules
    BY <1>1, <1>2, <1>8
  <2>3. Wired'
    <3>1. PICK p, b : p = provider' /\ b = bound'
      OBVIOUS
    <3>2. ASSUME NEW c \in Modules
          PROVE  /\ p[c] \in [Requirements(c) -> Modules]
                 /\ \A r \in Requirements(c) : \E e \in Exports(p[c][r]) :
                      /\ <<p[c][r], e>> \in Compatible(c, r)
                      /\ b[c][r] = BindingIndex(p[c][r], e)
      <4>1. /\ p[c] = [r \in Requirements(c) |-> Offer(c, r)[1]]
            /\ b[c] = [r \in Requirements(c) |-> BindingIndex(Offer(c, r)[1], Offer(c, r)[2])]
        BY <2>1, <3>1
      <4>2. p[c] \in [Requirements(c) -> Modules]
        BY <2>2, <4>1, OfferTaken
      <4>3. ASSUME NEW r \in Requirements(c)
            PROVE  \E e \in Exports(p[c][r]) :
                     /\ <<p[c][r], e>> \in Compatible(c, r)
                     /\ b[c][r] = BindingIndex(p[c][r], e)
        <5>1. p[c][r] = Offer(c, r)[1]
              /\ b[c][r] = BindingIndex(Offer(c, r)[1], Offer(c, r)[2])
          BY <4>1
        <5>2. /\ Offer(c, r)[2] \in Exports(Offer(c, r)[1])
              /\ <<Offer(c, r)[1], Offer(c, r)[2]>> \in Compatible(c, r)
          BY <2>2, OfferTaken
        <5> QED BY <5>1, <5>2
      <4> QED BY <4>2, <4>3
    <3>3. \A c \in Modules' :
            /\ provider'[c] \in [Requirements(c)' -> Modules']
            /\ \A r \in Requirements(c)' : \E e \in Exports(provider[c][r])' :
                 /\ <<provider'[c][r], e>> \in Compatible(c, r)'
                 /\ bound'[c][r] = BindingIndex(provider[c][r], e)'
      BY <2>2, <3>1, <3>2, SameRows
    <3> QED BY <3>3 DEF Wired
  <2>4. Counted'
    <3>1. Selected' = {}
      BY <2>1 DEF Selected
    <3>2. ASSUME NEW c \in Modules
          PROVE  /\ indegree'[c] \in Nat
                 /\ indegree'[c] = Cardinality(Requirements(c))
      <4>1. Len(modules[c].consumes) \in Nat
            /\ Requirements(c) = 1 .. Len(modules[c].consumes)
        BY RowTypes DEF KernelInvariant
      <4>2. \A n \in Nat : Cardinality(1 .. n) = n
        BY FS_Interval
      <4> QED BY <2>1, <4>1, <4>2
    <3>3. \A c : UnmetBy(c, Selected)' = Requirements(c)
      BY <2>2, <3>1, SameRows DEF UnmetBy
    <3>4. indegree' \in [Modules -> Nat]
      BY <2>1, <3>2
    <3> QED BY <2>2, <3>2, <3>3, <3>4, SameRows DEF Counted
  <2>5. order' \in Seq(Modules') /\ Canonical(order)'
    <3>1. Canonical(<<>>)
      BY DEF Canonical
    <3> QED BY <2>1, <2>2, <3>1, NextOrder
  <2> QED BY <1>4, <1>5, <1>6, <2>1, <2>3, <2>4, <2>5 DEF KernelInvariant
<1> QED BY <1>7, <1>8

LEMMA SelectKeeps == KernelInvariant /\ Select => KernelInvariant'
<1> SUFFICES ASSUME KernelInvariant, Select PROVE KernelInvariant'
  OBVIOUS
<1>1. /\ pc = "order" /\ Len(order) < Len(modules)
      /\ UNCHANGED <<modules, shares, roomy, catalog>>
      /\ Write({"indegree", "selected", "order"})
  BY DEF Select
<1>2. Given /\ Accepted /\ DescriptorsGood /\ Wired /\ Counted /\ Canonical(order)
  BY <1>1 DEF KernelInvariant, Accepted
<1>3. touched' = {}
  <2>1. {"indegree", "selected", "order"} \subseteq Outputs
    BY DEF Outputs, WorkspaceRegions
  <2> QED BY <1>1, <1>2, <2>1, WritesStay DEF Accepted, KernelInvariant
<1>4. Given' /\ Accepted' /\ (catalog'.published => Complete(catalog)')
  BY <1>1, <1>2, InputsStay, CatalogStays
<1>5. PICK o : o = order
  OBVIOUS
<1>6. o \in Seq(Modules) /\ Canonical(o) /\ Selected = Placed(o, Len(o))
  BY <1>2, <1>5, SelectedIsPlaced DEF Canonical
<1>7. CASE Ready = {}
  <2>1. /\ pc' = "caller" /\ ret' = "eloop"
        /\ UNCHANGED <<provider, bound, indegree, order>>
    BY <1>7 DEF Select, Return, workspace
  <2>2. Cyclic
    <3>1. Selected \subseteq Modules /\ Selected # Modules
      BY <1>1, <1>2, <1>5, <1>6, PlacedCount
    <3>2. \A m \in Modules \ Selected : Waits(m, Selected)
      BY <1>2, <1>7, ReadyMeans
    <3> QED BY <1>2, <3>1, <3>2, StuckIsCyclic
  <2>3. ret' \in Statuses \union {"none"} /\ LoopIffCyclic'
    <3>1. ret' \in Statuses \union {"none"}
      BY <2>1 DEF Statuses
    <3> QED BY <1>1, <2>1, <2>2, <3>1, Returned
  <2>4. order' \in Seq(Modules')
    BY <1>1, <2>1, WorkspaceStays
  <2> QED BY <1>3, <1>4, <2>1, <2>3, <2>4 DEF KernelInvariant
<1>8. CASE Ready # {}
  <2>1. PICK m : m = Pick(Ready)
    OBVIOUS
  <2>2. m \in Modules \ Selected /\ IsNext(m, Selected)
    <3>1. \A n : n \in Ready <=> n \in Modules \ Selected /\ ~Waits(n, Selected)
      BY <1>2, ReadyMeans
    <3>2. Ready \subseteq Nat
      BY <1>2, <3>1, GivenTypes
    <3>3. m \in Ready /\ \A n \in Ready : m <= n
      BY <1>8, <2>1, <3>2, MinIsLeast DEF Pick
    <3> QED BY <3>1, <3>3 DEF IsNext
  <2>3. \A c \in Modules : /\ LeftAfter(c, m) \in Nat
                           /\ LeftAfter(c, m) = Cardinality(UnmetBy(c, Selected \union {m}))
    BY <1>2, <2>2, LeftIsUnmet
  <2>4. /\ order' = Append(order, m)
        /\ \/ \E c \in Modules : LeftAfter(c, m) < 0
           \/ /\ indegree' = [c \in Modules |-> LeftAfter(c, m)]
              /\ pc' = pc /\ ret' = ret
        /\ UNCHANGED <<provider, bound>>
    BY <1>8, <2>1, Zenon DEF Select
  <2>5. /\ indegree' = [c \in Modules |-> LeftAfter(c, m)]
        /\ pc' = pc /\ ret' = ret
    <3>1. ~ \E c \in Modules : LeftAfter(c, m) < 0
      BY <2>3
    <3> QED BY <2>4, <3>1
  <2>6. ret' \in Statuses \union {"none"} /\ LoopIffCyclic'
    BY <1>1, <2>5, Returned DEF KernelInvariant
  <2> DEFINE q == Append(o, m)
  <2>7. /\ Canonical(q) /\ q \in Seq(Modules)
        /\ Placed(q, Len(q)) = Selected \union {m}
    BY <1>2, <1>6, <2>2, CanonicalGrows DEF Canonical
  <2>8. order' = q
    BY <1>5, <2>4
  <2> HIDE DEF q
  <2>9. order' \in Seq(Modules') /\ Canonical(order)'
    BY <1>1, <2>7, <2>8, NextOrder, SameRows
  <2>10. Selected' = Selected \union {m}
    <3>1. DOMAIN q = 1 .. Len(q)
      BY <2>7
    <3>2. {q[i] : i \in DOMAIN q} = Placed(q, Len(q))
      BY <3>1 DEF Placed
    <3>3. Selected' = {q[i] : i \in DOMAIN q}
      BY <2>8 DEF Selected
    <3> QED BY <2>7, <3>2, <3>3
  <2>11. Wired'
    BY <1>1, <1>2, <2>4, WiredStays
  <2>12. Counted'
    <3>1. \A c : UnmetBy(c, Selected)' = UnmetBy(c, Selected \union {m})
      BY <1>1, <2>4, <2>10, SameRows DEF UnmetBy
    <3>2. indegree' \in [Modules -> Nat]
      BY <2>3, <2>5
    <3>3. \A c \in Modules : indegree'[c] = Cardinality(UnmetBy(c, Selected \union {m}))
      BY <2>3, <2>5
    <3> QED BY <1>1, <3>1, <3>2, <3>3, SameRows DEF Counted
  <2> QED BY <1>1, <1>3, <1>4, <2>5, <2>6, <2>9, <2>11, <2>12 DEF KernelInvariant
<1> QED BY <1>7, <1>8

LEMMA PublishKeeps == KernelInvariant /\ Publish => KernelInvariant'
<1> SUFFICES ASSUME KernelInvariant, Publish PROVE KernelInvariant'
  OBVIOUS
<1>1. /\ pc = "publish" /\ pc' = "caller" /\ ret' = "ok"
      /\ UNCHANGED <<modules, shares, roomy, provider, bound, indegree, order>>
      /\ Write(StorageRegions \union {"catalog"})
  BY DEF Publish, Return, workspace
<1>2. /\ Given /\ Accepted /\ DescriptorsGood /\ Wired /\ Canonical(order)
      /\ Len(order) = Len(modules)
  BY <1>1 DEF KernelInvariant, Accepted
<1>3. Resolved
  BY <1>2, WiredResolves
<1>4. touched' = {}
  <2>1. StorageRegions \union {"catalog"} \subseteq Outputs
    BY DEF Outputs
  <2> QED BY <1>1, <1>2, <2>1, WritesStay DEF Accepted, KernelInvariant
<1>5. ret' \in Statuses \union {"none"} /\ LoopIffCyclic'
  <2>1. ~Cyclic
    BY <1>2, <1>3, OrderedNotCyclic
  <2>2. ret' \in Statuses \union {"none"}
    BY <1>1 DEF Statuses
  <2> QED BY <1>1, <2>1, <2>2, Returned
<1>6. Given' /\ order' \in Seq(Modules')
  BY <1>1, InputsStay, WorkspaceStays
<1>7. PICK cat : cat = catalog'
  OBVIOUS
<1> DEFINE bindings == FlattenSeq([m \in Modules |-> [e \in Exports(m) |-> Binding(m, e)]])
           resolutions == FlattenSeq([c \in Modules |-> [r \in Requirements(c) |->
                            [consumer |-> c, requirement |-> r, binding |-> bound[c][r]]]])
<1>8. cat.bindings = bindings /\ cat.resolutions = resolutions /\ cat.order = order
  BY <1>7 DEF Publish
<1>9. /\ DOMAIN bindings \subseteq Nat /\ Len(bindings) = SumFunction(ExportCounts)
      /\ \A m \in Modules : \A e \in Exports(m) :
           BindingIndex(m, e) \in DOMAIN bindings /\ bindings[BindingIndex(m, e)] = Binding(m, e)
      /\ \A k \in DOMAIN bindings : \E m \in Modules : \E e \in Exports(m) : k = BindingIndex(m, e)
  BY <1>2, BindingPlaces
<1>10. /\ DOMAIN resolutions \subseteq Nat
       /\ \A k \in DOMAIN resolutions : \E c \in Modules : \E r \in Requirements(c) :
            resolutions[k] = [consumer |-> c, requirement |-> r, binding |-> bound[c][r]]
       /\ \A c \in Modules : \A r \in Requirements(c) : \E k \in DOMAIN resolutions :
            resolutions[k].consumer = c /\ resolutions[k].requirement = r
       /\ \A k, l \in DOMAIN resolutions :
            /\ resolutions[k].consumer = resolutions[l].consumer
            /\ resolutions[k].requirement = resolutions[l].requirement
            => k = l
  BY <1>2, ResolutionPlaces
<1> HIDE DEF bindings, resolutions
<1>11. ASSUME NEW k \in DOMAIN resolutions
       PROVE  \E c \in Modules : \E r \in Requirements(c) : \E offer \in Compatible(c, r) :
                resolutions[k] = [consumer |-> c, requirement |-> r,
                                  binding |-> BindingIndex(offer[1], offer[2])]
  <2>1. PICK c \in Modules : \E r \in Requirements(c) :
          resolutions[k] = [consumer |-> c, requirement |-> r, binding |-> bound[c][r]]
    BY <1>10
  <2>2. PICK r \in Requirements(c) :
          resolutions[k] = [consumer |-> c, requirement |-> r, binding |-> bound[c][r]]
    BY <2>1
  <2>3. PICK e \in Exports(provider[c][r]) :
          /\ <<provider[c][r], e>> \in Compatible(c, r)
          /\ bound[c][r] = BindingIndex(provider[c][r], e)
    BY <1>2 DEF Wired
  <2> DEFINE offer == <<provider[c][r], e>>
  <2>4. offer \in Compatible(c, r) /\ offer[1] = provider[c][r] /\ offer[2] = e
    BY <2>3
  <2> HIDE DEF offer
  <2>5. resolutions[k] = [consumer |-> c, requirement |-> r,
                          binding |-> BindingIndex(offer[1], offer[2])]
    BY <2>2, <2>3, <2>4
  <2> QED BY <2>4, <2>5
<1>12. LaidOut(cat)
  BY <1>8, <1>9, <1>10, <1>11 DEF LaidOut
<1>13. Complete(cat)
  BY <1>2, <1>3, <1>8, <1>12 DEF Complete
<1>14. Complete(cat)'
  BY <1>1, <1>2, <1>13, SameCatalog
<1>15. Complete(catalog)'
  BY <1>7, <1>14
<1> QED BY <1>1, <1>4, <1>5, <1>6, <1>15 DEF KernelInvariant
-----------------------------------------------------------------------------
(***************************************************************************)
(* The theorems                                                            *)
(***************************************************************************)

LEMMA StepHolds == KernelInvariant /\ [Next]_vars => KernelInvariant'
BY PrepareKeeps, ResolveKeeps, SelectKeeps, OrderedKeeps, PublishKeeps, StutterKeeps DEF Next

(* The workspace and the catalog hold together between any two phases of     *)
(* prepare, and between any two picks of the ordering loop.                  *)
THEOREM InvariantHolds == Spec => []KernelInvariant
<1>1. Init => KernelInvariant
  BY InitHolds
<1>2. KernelInvariant /\ [Next]_vars => KernelInvariant'
  BY StepHolds
<1> QED BY <1>1, <1>2, PTL DEF Spec

(* Every variable holds what it is declared to, whatever prepare was given. *)
THEOREM TypeCorrect == Spec => []TypeOK
<1>1. KernelInvariant => TypeOK
  BY DEF KernelInvariant, TypeOK, Given, Wired, Counted
<1> QED BY <1>1, InvariantHolds, PTL

(* Preparing decides rightly: ELOOP exactly for a cycle, EINVAL only for what is *)
(* malformed; what it publishes catalog_validate accepts, queries by id and by   *)
(* index agree and name a module prepared earlier; and no write lands in another *)
(* output or in a descriptor.                                                    *)
THEOREM PreparedTheorem == Spec => []PreparedIsRight
<1>1. KernelInvariant => PreparedIsRight
  <2> SUFFICES ASSUME KernelInvariant PROVE PreparedIsRight
    OBVIOUS
  <2>1. ProvidersFirst
    <3>1. CASE pc = "publish"
      BY <3>1, OrderedIsRight DEF KernelInvariant
    <3>2. CASE pc # "publish"
      BY <3>2 DEF ProvidersFirst
    <3> QED BY <3>1, <3>2
  <2>2. PublishedIsValid
    <3>1. CASE catalog.published
      <4>1. /\ CatalogValid
            /\ \A m \in Modules : FindModule(modules[m].id) = [status |-> "ok", module |-> m]
            /\ \A c \in Modules : \A r \in Requirements(c) :
                 LET found == Find(modules[c].consumes[r]) IN
                 /\ found.status = "ok"
                 /\ ResolveRequirement(c, r) = found
                 /\ Position(found.binding.module) < Position(c)
        BY <3>1, CompleteAnswers DEF KernelInvariant
      <4> QED BY <2>1, <4>1, Zenon DEF PublishedIsValid
    <3>2. CASE ~catalog.published
      BY <2>1, <3>2, Zenon DEF PublishedIsValid
    <3> QED BY <3>1, <3>2
  <2> QED BY <2>2 DEF PreparedIsRight, KernelInvariant
<1> QED BY <1>1, InvariantHolds, PTL
=============================================================================
