------------------------ MODULE ServiceRuntimeProofs ------------------------
(***************************************************************************)
(* The proofs about ServiceRuntime: the runtime the application can look   *)
(* at is always valid, whatever catalog and descriptors prepare was given, *)
(* a callback can resolve all its module requires, and what the modules    *)
(* hold is set up and torn down in the order of their dependencies.        *)
(***************************************************************************)
EXTENDS ServiceRuntime, LibraryFacts, SequenceTheorems, TLAPS
-----------------------------------------------------------------------------
(***************************************************************************)
(* The inputs                                                              *)
(***************************************************************************)

(* What prepare is given is a catalog and a list of descriptors. *)
LEMMA GivenTypes ==
  ASSUME Given
  PROVE  /\ IsCatalog(catalog) /\ descriptors \in Seq(Descriptor(catalog))
         /\ Count \in Nat /\ DOMAIN descriptors = 1 .. Count
<1>1. IsCatalog(catalog) /\ descriptors \in Seq(Descriptor(catalog))
  BY CallsAssumption DEF Given
<1>2. Count \in Nat /\ DOMAIN descriptors = 1 .. Count
  BY <1>1 DEF Count
<1> QED BY <1>1, <1>2

LEMMA DescriptorTypes ==
  ASSUME Given, NEW d \in DOMAIN descriptors
  PROVE  /\ descriptors[d].module \in Nat
         /\ descriptors[d].callbacks \in {"active", "passive", "partial"}
         /\ descriptors[d].declares \subseteq DOMAIN catalog.provider
<1>1. descriptors[d] \in Descriptor(catalog)
  BY GivenTypes
<1> QED BY <1>1 DEF Descriptor

(* The catalog's order is a permutation of its modules, and Position its inverse. *)
LEMMA OrderIsPermutation ==
  ASSUME Given
  PROVE  /\ DOMAIN catalog.order = 1 .. Len(catalog.order) /\ Len(catalog.order) \in Nat
         /\ \A i \in DOMAIN catalog.order : catalog.order[i] \in DOMAIN catalog.order
         /\ \A i, j \in DOMAIN catalog.order : catalog.order[i] = catalog.order[j] => i = j
<1> DEFINE order == catalog.order
           S == DOMAIN order
<1>1. order \in Seq(Nat) /\ {order[i] : i \in S} = S
  BY GivenTypes DEF IsCatalog
<1>2. S = 1 .. Len(order) /\ Len(order) \in Nat
  BY <1>1
<1>3. IsFiniteSet(S)
  BY <1>2, FS_Interval
<1>4. order \in [S -> S]
  <2>1. order = [i \in S |-> order[i]]
    BY <1>1
  <2> QED BY <1>1, <2>1, Zenon
<1>5. order \in Surjection(S, S)
  <2>1. \A t \in S : \E s \in S : order[s] = t
    BY <1>1, Zenon
  <2> QED BY <1>4, <2>1, Zenon DEF Surjection
<1>6. order \in Injection(S, S)
  BY <1>3, <1>5, FS_SurjSameCardinalityImpliesInj, Zenon
<1>7. \A i, j \in S : order[i] = order[j] => i = j
  BY <1>6, Zenon DEF Injection, IsInjective
<1> QED BY <1>1, <1>2, <1>7, Zenon

LEMMA PositionInverts ==
  ASSUME Given, NEW m, InCatalog(m)
  PROVE  /\ Position(m) \in DOMAIN catalog.order /\ catalog.order[Position(m)] = m
         /\ \A i \in DOMAIN catalog.order : catalog.order[i] = m => i = Position(m)
<1>1. Position(m) \in DOMAIN catalog.order /\ catalog.order[Position(m)] = m
  BY Zenon DEF InCatalog, Position
<1> QED BY <1>1, OrderIsPermutation, Zenon

(* The providers of a module's requirements come before it. *)
LEMMA ProvidersFirst ==
  ASSUME Given, NEW m, InCatalog(m), NEW p \in Needs(m)
  PROVE  InCatalog(p) /\ Position(p) < Position(m)
<1> DEFINE i == Position(m)
<1>1. i \in DOMAIN catalog.order /\ catalog.order[i] = m
  BY PositionInverts
<1>2. i \in Nat /\ DOMAIN catalog.order = 1 .. Len(catalog.order) /\ Len(catalog.order) \in Nat
  BY <1>1, OrderIsPermutation
<1> HIDE DEF i
<1>3. PICK r \in DOMAIN catalog.requires[m] : p = catalog.provider[catalog.requires[m][r]]
  BY Zenon DEF Needs
<1>4. PICK j \in 1 .. i - 1 : catalog.order[j] = p
  BY <1>1, <1>3, GivenTypes DEF IsCatalog
<1>5. j \in DOMAIN catalog.order /\ j < i
  BY <1>1, <1>2
<1>6. InCatalog(p)
  BY <1>4, <1>5, Zenon DEF InCatalog
<1>7. j = Position(p)
  BY <1>4, <1>5, <1>6, PositionInverts, Zenon
<1> QED BY <1>5, <1>6, <1>7 DEF i
-----------------------------------------------------------------------------
(***************************************************************************)
(* What descriptor_set_validate accepts                                    *)
(***************************************************************************)
LEMMA GoodDescriptor ==
  ASSUME Given, NEW d \in DOMAIN descriptors, DescriptorFault(descriptors[d]) = "ok"
  PROVE  /\ InCatalog(descriptors[d].module) /\ descriptors[d].declares # {}
         /\ \A c \in descriptors[d].declares : BindsTo(c, descriptors[d].module)
<1> DEFINE D == descriptors[d]
           faulty == {c \in D.declares : InterfaceFault(c) # "ok"}
<1>1. ~(D.declares = {} \/ D.callbacks = "partial")
  BY Zenon DEF DescriptorFault
<1>2. InCatalog(D.module)
  BY <1>1, Zenon DEF DescriptorFault
<1>3. \A c \in D.declares : BindsTo(c, D.module)
  BY <1>1, <1>2, Zenon DEF DescriptorFault
<1> QED BY <1>1, <1>2, <1>3, Zenon

LEMMA GoodDescriptors ==
  ASSUME Given, DescriptorSetFault = "ok"
  PROVE  /\ Count <= Len(catalog.order)
         /\ \A d \in DOMAIN descriptors :
              /\ InCatalog(descriptors[d].module) /\ descriptors[d].declares # {}
              /\ \A c \in descriptors[d].declares : catalog.provider[c] = descriptors[d].module
         /\ \A d, e \in DOMAIN descriptors :
              descriptors[d].module = descriptors[e].module => d = e
<1> DEFINE fault(d) ==
             IF DescriptorFault(descriptors[d]) # "ok" THEN DescriptorFault(descriptors[d])
             ELSE IF \E e \in 1 .. d - 1 : descriptors[e].module = descriptors[d].module
             THEN "eexist" ELSE "ok"
           faulty == {d \in DOMAIN descriptors : fault(d) # "ok"}
<1>1. ~(Count > Len(catalog.order))
  BY Zenon DEF DescriptorSetFault
<1>2. Count \in Nat /\ Len(catalog.order) \in Nat /\ DOMAIN descriptors = 1 .. Count
  BY GivenTypes, OrderIsPermutation
<1>3. faulty = {}
  <2>1. SUFFICES ASSUME faulty # {} PROVE FALSE
    BY Zenon
  <2>2. faulty \subseteq Nat
    BY <1>2
  <2>3. fault(Min(faulty)) # "ok"
    <3> HIDE DEF fault
    <3>1. Min(faulty) \in faulty
      BY <2>1, <2>2, MinIsLeast
    <3> QED BY <3>1, Zenon
  <2>4. DescriptorSetFault = fault(Min(faulty))
    BY <1>1, <2>1, Zenon DEF DescriptorSetFault
  <2> QED BY <2>3, <2>4, Zenon
<1>4. \A d \in DOMAIN descriptors : fault(d) = "ok"
  <2> HIDE DEF fault
  <2> QED BY <1>3, Zenon
<1>5. \A d \in DOMAIN descriptors : DescriptorFault(descriptors[d]) = "ok"
  BY <1>4, Zenon
<1>6. ASSUME NEW d \in DOMAIN descriptors, NEW e \in DOMAIN descriptors, e < d
      PROVE  descriptors[e].module # descriptors[d].module
  <2>1. ~\E f \in 1 .. d - 1 : descriptors[f].module = descriptors[d].module
    BY <1>4, <1>5, Zenon
  <2>2. e \in 1 .. d - 1
    BY <1>2, <1>6
  <2> QED BY <2>1, <2>2, Zenon
<1>7. ASSUME NEW d \in DOMAIN descriptors, NEW e \in DOMAIN descriptors,
             descriptors[d].module = descriptors[e].module
      PROVE  d = e
  <2>1. ~(d < e) /\ ~(e < d)
    BY <1>6, <1>7, Zenon
  <2> QED BY <1>2, <2>1
<1>8. Count <= Len(catalog.order)
  BY <1>1, <1>2
<1>9. ASSUME NEW d \in DOMAIN descriptors
      PROVE  /\ InCatalog(descriptors[d].module) /\ descriptors[d].declares # {}
             /\ \A c \in descriptors[d].declares : catalog.provider[c] = descriptors[d].module
  BY <1>5, GoodDescriptor, Zenon DEF BindsTo
<1> QED BY <1>7, <1>8, <1>9
-----------------------------------------------------------------------------
(***************************************************************************)
(* The order the records are in                                            *)
(***************************************************************************)
Place(d) == Position(descriptors[d].module)

LEMMA PlacesDiffer ==
  ASSUME Given, DescriptorSetFault = "ok"
  PROVE  /\ \A d \in DOMAIN descriptors : Place(d) \in Nat
         /\ \A d, e \in DOMAIN descriptors : Place(d) = Place(e) => d = e
<1>1. \A d \in DOMAIN descriptors :
        /\ Place(d) \in DOMAIN catalog.order
        /\ catalog.order[Place(d)] = descriptors[d].module
  BY GoodDescriptors, PositionInverts, Zenon DEF Place
<1>2. ASSUME NEW d \in DOMAIN descriptors, NEW e \in DOMAIN descriptors, Place(d) = Place(e)
      PROVE  d = e
  <2> HIDE DEF Place
  <2>1. descriptors[d].module = descriptors[e].module
    BY <1>1, <1>2, Zenon
  <2> QED BY <2>1, GoodDescriptors, Zenon
<1>3. \A d \in DOMAIN descriptors : Place(d) \in Nat
  <2> HIDE DEF Place
  <2> QED BY <1>1, OrderIsPermutation
<1> QED BY <1>2, <1>3

(* A descriptor has fewer before it than one in a later place. *)
LEMMA FewerBefore ==
  ASSUME Given, DescriptorSetFault = "ok",
         NEW d \in DOMAIN descriptors, NEW e \in DOMAIN descriptors, Place(d) < Place(e)
  PROVE  /\ IsFiniteSet(Before(d)) /\ IsFiniteSet(Before(e))
         /\ Cardinality(Before(d)) \in Nat /\ Cardinality(Before(e)) \in Nat
         /\ Cardinality(Before(d)) < Cardinality(Before(e))
<1> HIDE DEF Place
<1>1. \A c \in DOMAIN descriptors : Place(c) \in Nat
  BY PlacesDiffer
<1>2. \A c : c \in Before(d) <=> c \in DOMAIN descriptors /\ Place(c) < Place(d)
  BY Zenon DEF Before, Place
<1>3. \A c : c \in Before(e) <=> c \in DOMAIN descriptors /\ Place(c) < Place(e)
  BY Zenon DEF Before, Place
<1>4. \A c \in Before(d) : c \in Before(e)
  BY <1>1, <1>2, <1>3
<1>5. d \in Before(e) /\ d \notin Before(d)
  BY <1>1, <1>2, <1>3
<1>6. IsFiniteSet(DOMAIN descriptors)
  BY GivenTypes, FS_Interval
<1>7. IsFiniteSet(Before(e)) /\ IsFiniteSet(Before(d))
  BY <1>2, <1>3, <1>6, FS_Subset
<1>8. /\ Cardinality(Before(d)) <= Cardinality(Before(e))
      /\ Cardinality(Before(e)) # Cardinality(Before(d))
  <2>1. Before(d) \in SUBSET Before(e)
    BY <1>4, Zenon
  <2> QED BY <1>5, <1>7, <2>1, FS_Subset, Zenon
<1>9. Cardinality(Before(d)) \in Nat /\ Cardinality(Before(e)) \in Nat
  BY <1>7, FS_CardinalityType
<1> QED BY <1>7, <1>8, <1>9

(* ExpectedDescriptors lists every descriptor once, by rising place. *)
LEMMA ExpectedIsSorted ==
  ASSUME Given, DescriptorSetFault = "ok"
  PROVE  /\ \A i \in 1 .. Count : ExpectedDescriptors[i] \in DOMAIN descriptors
         /\ \A d \in DOMAIN descriptors : \E i \in 1 .. Count : ExpectedDescriptors[i] = d
         /\ \A i, j \in 1 .. Count :
              i < j <=> Place(ExpectedDescriptors[i]) < Place(ExpectedDescriptors[j])
<1> HIDE DEF Place
<1> DEFINE D == DOMAIN descriptors
           Rank(d) == Cardinality(Before(d)) + 1
           R == [d \in D |-> Rank(d)]
<1>1. Count \in Nat /\ D = 1 .. Count
  BY GivenTypes
<1>2. IsFiniteSet(D) /\ Cardinality(D) = Count
  BY <1>1, FS_Interval
<1>3. ASSUME NEW d \in D
      PROVE  Rank(d) \in D
  <2>1. ~(Place(d) < Place(d))
    BY PlacesDiffer
  <2>2. Before(d) \subseteq D \ {d}
    BY <2>1, Zenon DEF Before, Place
  <2>3. IsFiniteSet(D \ {d}) /\ Cardinality(D \ {d}) = Count - 1
    BY <1>2, <1>3, FS_RemoveElement
  <2>4. IsFiniteSet(Before(d)) /\ Cardinality(Before(d)) <= Count - 1
    <3>1. Before(d) \in SUBSET (D \ {d})
      BY <2>2, Zenon
    <3>2. Cardinality(Before(d)) <= Cardinality(D \ {d}) /\ IsFiniteSet(Before(d))
      BY <2>3, <3>1, FS_Subset
    <3> QED BY <2>3, <3>2, Zenon
  <2>5. Cardinality(Before(d)) \in Nat
    BY <2>4, FS_CardinalityType
  <2> QED BY <1>1, <2>4, <2>5
<1>4. ASSUME NEW d \in D, NEW e \in D
      PROVE  Rank(d) < Rank(e) <=> Place(d) < Place(e)
  <2>1. Place(d) \in Nat /\ Place(e) \in Nat /\ (Place(d) = Place(e) => d = e)
    BY PlacesDiffer
  <2>2. Rank(d) \in Nat /\ Rank(e) \in Nat
    BY <1>1, <1>3
  <2>3. CASE Place(d) < Place(e)
    BY <2>3, FewerBefore
  <2>4. CASE Place(e) < Place(d)
    <3>1. Rank(e) < Rank(d)
      BY <2>4, FewerBefore
    <3> HIDE DEF Rank
    <3> QED BY <2>1, <2>2, <2>4, <3>1
  <2>5. CASE d = e
    <3> HIDE DEF Rank
    <3> QED BY <2>1, <2>2, <2>5
  <2> QED BY <2>1, <2>3, <2>4, <2>5
<1>5. ASSUME NEW d \in D, NEW e \in D, Rank(d) = Rank(e)
      PROVE  d = e
  <2>1. Place(d) \in Nat /\ Place(e) \in Nat /\ (Place(d) = Place(e) => d = e)
    BY PlacesDiffer
  <2>2. Rank(d) \in Nat /\ Rank(e) \in Nat
    BY <1>1, <1>3
  <2> HIDE DEF Rank
  <2>3. ~(Place(d) < Place(e)) /\ ~(Place(e) < Place(d))
    BY <1>4, <1>5, <2>2
  <2> QED BY <2>1, <2>3
<1> HIDE DEF Rank
<1>6. R \in Injection(D, D)
  <2>1. R \in [D -> D]
    BY <1>3
  <2>2. \A d, e \in DOMAIN R : R[d] = R[e] => d = e
    BY <1>5
  <2> QED BY <2>1, <2>2, Zenon DEF Injection, IsInjective
<1>7. R \in Surjection(D, D)
  BY <1>2, <1>6, FS_Injection, Zenon
<1>8. \A i \in D : \E d \in D : Rank(d) = i
  BY <1>7, Zenon DEF Surjection
<1>9. ASSUME NEW i \in D
      PROVE  ExpectedDescriptors[i] \in D /\ Rank(ExpectedDescriptors[i]) = i
  <2>1. ExpectedDescriptors[i] = CHOOSE d \in D : Cardinality(Before(d)) = i - 1
    BY <1>1, <1>9, Zenon DEF ExpectedDescriptors
  <2>2. PICK d \in D : Rank(d) = i
    BY <1>8
  <2>3. Cardinality(Before(d)) = i - 1
    <3>1. IsFiniteSet(Before(d))
      BY <1>2, FS_Subset DEF Before
    <3>2. Cardinality(Before(d)) \in Nat
      BY <3>1, FS_CardinalityType
    <3> QED BY <2>2, <3>2 DEF Rank
  <2>4. /\ ExpectedDescriptors[i] \in D
        /\ Cardinality(Before(ExpectedDescriptors[i])) = i - 1
    BY <2>1, <2>3, Zenon
  <2>5. i \in Nat
    BY <1>1
  <2> QED BY <2>4, <2>5 DEF Rank
<1>10. \A i, j \in D : i < j <=> Place(ExpectedDescriptors[i]) < Place(ExpectedDescriptors[j])
  BY <1>4, <1>9, Zenon
<1>11. \A d \in D : ExpectedDescriptors[Rank(d)] = d
  BY <1>3, <1>5, <1>9, Zenon
<1> QED BY <1>1, <1>3, <1>9, <1>10, <1>11, Zenon
-----------------------------------------------------------------------------
(***************************************************************************)
(* The records                                                             *)
(***************************************************************************)
LEMMA RecordTypes ==
  ASSUME NEW r \in Records
  PROVE  r.descriptor \in DOMAIN descriptors /\ r.state \in RecordStates /\ r.stop \in Raws
BY Zenon DEF Records

(* Records in the expected order: one for each managed module, by position. *)
LEMMA RecordsAreSorted ==
  ASSUME Given, DescriptorSetFault = "ok", NEW rs \in Seq(Records), Matches(rs)
  PROVE  /\ Len(rs) = Count /\ \A i : i \in DOMAIN rs <=> i \in 1 .. Count
         /\ \A i \in 1 .. Count : rs[i] \in Records /\ InCatalog(Module(rs[i]))
         /\ \A i, j \in 1 .. Count :
              i < j <=> Position(Module(rs[i])) < Position(Module(rs[j]))
         /\ \A i, j \in 1 .. Count : Module(rs[i]) = Module(rs[j]) => i = j
         /\ \A d \in DOMAIN descriptors : \E i \in 1 .. Count : rs[i].descriptor = d
<1>1. Len(rs) = Count /\ \A i : i \in DOMAIN rs <=> i \in 1 .. Count
  <2>1. Len(rs) = Count
    BY DEF Matches
  <2>2. DOMAIN rs = 1 .. Len(rs)
    OBVIOUS
  <2> QED BY <2>1, <2>2
<1>2. \A i \in 1 .. Count : rs[i].descriptor = ExpectedDescriptors[i]
  BY <1>1, Zenon DEF Matches
<1>3. \A i \in 1 .. Count : rs[i] \in Records
  BY <1>1
<1>4. \A i \in 1 .. Count : InCatalog(Module(rs[i]))
  BY <1>3, RecordTypes, GoodDescriptors, Zenon DEF Module
<1>5. ASSUME NEW i \in 1 .. Count, NEW j \in 1 .. Count
      PROVE  i < j <=> Position(Module(rs[i])) < Position(Module(rs[j]))
  <2>1. i < j <=> Place(rs[i].descriptor) < Place(rs[j].descriptor)
    BY <1>2, ExpectedIsSorted, Zenon
  <2> QED BY <2>1 DEF Module, Place
<1>6. ASSUME NEW i \in 1 .. Count, NEW j \in 1 .. Count, Module(rs[i]) = Module(rs[j])
      PROVE  i = j
  <2>1. rs[i].descriptor \in DOMAIN descriptors /\ rs[j].descriptor \in DOMAIN descriptors
    BY <1>3, RecordTypes, Zenon
  <2>2. rs[i].descriptor = rs[j].descriptor
    BY <1>6, <2>1, GoodDescriptors, Zenon DEF Module
  <2>3. Place(rs[i].descriptor) \in Nat
    BY <2>1, PlacesDiffer
  <2>4. ~(i < j) /\ ~(j < i)
    <3>1. i < j <=> Place(rs[i].descriptor) < Place(rs[j].descriptor)
      BY <1>2, ExpectedIsSorted, Zenon
    <3>2. j < i <=> Place(rs[j].descriptor) < Place(rs[i].descriptor)
      BY <1>2, ExpectedIsSorted, Zenon
    <3> HIDE DEF Place
    <3> QED BY <2>2, <2>3, <3>1, <3>2
  <2> QED BY <2>4
<1>7. \A d \in DOMAIN descriptors : \E i \in 1 .. Count : rs[i].descriptor = d
  BY <1>2, ExpectedIsSorted, Zenon
<1> QED BY <1>1, <1>3, <1>4, <1>5, <1>6, <1>7, Zenon

(* What the first n records stand for grows by a module, never the same again. *)
LEMMA ActiveOfNone ==
  ASSUME NEW rs
  PROVE  ActiveUpTo(rs, 0) = {}
BY DEF ActiveUpTo

LEMMA ActiveOfNext ==
  ASSUME Given, DescriptorSetFault = "ok", NEW rs \in Seq(Records), Matches(rs),
         NEW n \in 1 .. Count
  PROVE  /\ Module(rs[n]) \notin ActiveUpTo(rs, n - 1)
         /\ Active(rs[n]) => ActiveUpTo(rs, n) = ActiveUpTo(rs, n - 1) \cup {Module(rs[n])}
         /\ ~Active(rs[n]) => ActiveUpTo(rs, n) = ActiveUpTo(rs, n - 1)
<1>1. Count \in Nat
  BY GivenTypes
<1>2. \A i \in 1 .. n - 1 : i \in 1 .. Count /\ i # n
  BY <1>1
<1>3. \A i : i \in 1 .. n <=> i \in 1 .. n - 1 \/ i = n
  BY <1>1
<1>4. Module(rs[n]) \notin ActiveUpTo(rs, n - 1)
  BY <1>2, RecordsAreSorted, Zenon DEF ActiveUpTo
<1>5. Active(rs[n]) => ActiveUpTo(rs, n) = ActiveUpTo(rs, n - 1) \cup {Module(rs[n])}
  BY <1>3, Zenon DEF ActiveUpTo
<1>6. ~Active(rs[n]) => ActiveUpTo(rs, n) = ActiveUpTo(rs, n - 1)
  BY <1>3, Zenon DEF ActiveUpTo
<1> QED BY <1>4, <1>5, <1>6

LEMMA ActiveOfAll ==
  ASSUME Given, DescriptorSetFault = "ok", NEW rs \in Seq(Records), Matches(rs)
  PROVE  ActiveUpTo(rs, Count) = ActiveModules
<1>1. \A i \in 1 .. Count : rs[i].descriptor \in DOMAIN descriptors
  BY RecordsAreSorted, RecordTypes, Zenon
<1>2. \A d \in DOMAIN descriptors : \E i \in 1 .. Count : rs[i].descriptor = d
  BY RecordsAreSorted, Zenon
<1>3. \A m \in ActiveUpTo(rs, Count) : m \in ActiveModules
  BY <1>1, Zenon DEF ActiveUpTo, ActiveModules, Module, Active
<1>4. ASSUME NEW m \in ActiveModules
      PROVE  m \in ActiveUpTo(rs, Count)
  <2>1. PICK d \in DOMAIN descriptors :
               descriptors[d].callbacks = "active" /\ m = descriptors[d].module
    BY Zenon DEF ActiveModules
  <2>2. PICK i \in 1 .. Count : rs[i].descriptor = d
    BY <1>2
  <2> QED BY <2>1, <2>2, Zenon DEF ActiveUpTo, Module, Active
<1> QED BY <1>3, <1>4

LEMMA ActiveAreManaged ==
  ASSUME Given, DescriptorSetFault = "ok", NEW rs \in Seq(Records), Matches(rs),
         NEW n \in 0 .. Count
  PROVE  ActiveUpTo(rs, n) \subseteq ActiveModules
<1>1. \A i \in 1 .. n : i \in 1 .. Count
  BY GivenTypes
<1>2. \A m \in ActiveUpTo(rs, n) : m \in ActiveUpTo(rs, Count)
  BY <1>1, Zenon DEF ActiveUpTo
<1> QED BY <1>2, ActiveOfAll, Zenon
-----------------------------------------------------------------------------
(***************************************************************************)
(* What a step leaves alone                                                *)
(***************************************************************************)
LEMMA InputsDecide ==
  ASSUME UNCHANGED inputs
  PROVE  /\ Given' = Given /\ Count' = Count /\ ActiveModules' = ActiveModules
         /\ Managed' = Managed /\ Records' = Records
         /\ DescriptorSetFault' = DescriptorSetFault /\ InputFault' = InputFault
         /\ RegionsDisjoint(RuntimeRegions)' = RegionsDisjoint(RuntimeRegions)
         /\ ExpectedDescriptors' = ExpectedDescriptors
<1>1. catalog' = catalog /\ descriptors' = descriptors /\ shares' = shares /\ roomy' = roomy
  BY DEF inputs
<1>2. Given' = Given
  BY <1>1, Zenon DEF Given
<1>3. Count' = Count
  BY <1>1, Zenon DEF Count
<1>4. ActiveModules' = ActiveModules /\ Managed' = Managed
  BY <1>1, Zenon DEF ActiveModules, Managed
<1>5. Records' = Records
  BY <1>1, Zenon DEF Records
<1>6. DescriptorSetFault' = DescriptorSetFault
  <2>1. \A d : DescriptorFault(d)' = DescriptorFault(d)
    <3> TAKE d
    <3>1. \A m : InCatalog(m)' <=> InCatalog(m)
      BY <1>1 DEF InCatalog
    <3>2. \A c, m : BindsTo(c, m)' <=> BindsTo(c, m)
      BY <1>1 DEF BindsTo
    <3>3. \A c : InterfaceFault(c)' = InterfaceFault(c)
      BY <1>1 DEF InterfaceFault
    <3>4. {c \in d.declares : InterfaceFault(c)' # "ok"} = {c \in d.declares : InterfaceFault(c) # "ok"}
      BY <3>3
    <3> QED BY <3>1, <3>2, <3>3, <3>4, Zenon DEF DescriptorFault
  <2> QED BY <1>1, <1>3, <2>1, Zenon DEF DescriptorSetFault
<1>7. \A a, b : Overlap(a, b)' <=> Overlap(a, b)
  <2>1. \A r : Present(r)' <=> Present(r)
    BY <1>1, <1>3 DEF Present
  <2> QED BY <1>1, <2>1 DEF Overlap
<1>8. \A R : RegionsDisjoint(R)' <=> RegionsDisjoint(R)
  BY <1>7 DEF RegionsDisjoint, ClearOfInputs
<1>9. RuntimeRegions' = RuntimeRegions
  BY <1>3 DEF RuntimeRegions
<1>10. InputFault' = InputFault
  BY <1>1, <1>3, <1>6, <1>8 DEF InputFault
<1>11. ExpectedDescriptors' = ExpectedDescriptors
  <2>1. \A m : Position(m)' = Position(m)
    BY <1>1 DEF Position
  <2>2. \A d : Before(d)' = Before(d)
    BY <1>1, <2>1 DEF Before
  <2> QED BY <1>1, <1>3, <2>2 DEF ExpectedDescriptors
<1> QED BY <1>2, <1>3, <1>4, <1>5, <1>6, <1>8, <1>9, <1>10, <1>11

LEMMA RecordsDecide ==
  ASSUME UNCHANGED inputs
  PROVE  /\ \A rs : Matches(rs)' <=> Matches(rs)
         /\ \A r : Module(r)' = Module(r) /\ (Active(r)' <=> Active(r))
         /\ \A rs, n : ActiveUpTo(rs, n)' = ActiveUpTo(rs, n)
<1>1. descriptors' = descriptors
  BY DEF inputs
<1>2. \A rs : Matches(rs)' <=> Matches(rs)
  BY InputsDecide DEF Matches
<1>3. \A r : Module(r)' = Module(r) /\ (Active(r)' <=> Active(r))
  BY <1>1 DEF Module, Active
<1>4. \A rs, n : ActiveUpTo(rs, n)' = ActiveUpTo(rs, n)
  BY <1>3 DEF ActiveUpTo
<1> QED BY <1>2, <1>3, <1>4

(* Records that keep their descriptors stand for the same modules. *)
LEMMA SameDescriptors ==
  ASSUME Given, DescriptorSetFault = "ok", NEW rs \in Seq(Records), Matches(rs),
         NEW qs \in Seq(Records), Len(qs) = Len(rs),
         \A i \in 1 .. Count : qs[i].descriptor = rs[i].descriptor
  PROVE  /\ Matches(qs)
         /\ \A i \in 1 .. Count : Active(qs[i]) <=> Active(rs[i])
         /\ \A n \in 0 .. Count : ActiveUpTo(qs, n) = ActiveUpTo(rs, n)
<1>1. Len(rs) = Count /\ Count \in Nat /\ \A i : i \in DOMAIN rs <=> i \in 1 .. Count
  BY RecordsAreSorted, GivenTypes
<1>2. \A i : i \in DOMAIN qs <=> i \in 1 .. Count
  <2>1. DOMAIN qs = 1 .. Len(qs)
    OBVIOUS
  <2> QED BY <1>1, <2>1
<1>3. Matches(qs)
  BY <1>1, <1>2, Zenon DEF Matches
<1>4. \A i \in 1 .. Count : (Active(qs[i]) <=> Active(rs[i])) /\ Module(qs[i]) = Module(rs[i])
  BY Zenon DEF Active, Module
<1>5. ASSUME NEW n \in 0 .. Count
      PROVE  ActiveUpTo(qs, n) = ActiveUpTo(rs, n)
  <2>1. \A i \in 1 .. n : i \in 1 .. Count
    BY <1>1
  <2> QED BY <1>4, <2>1, Zenon DEF ActiveUpTo
<1> QED BY <1>3, <1>4, <1>5, Zenon

LEMMA WorkspaceStep ==
  ASSUME Given, DescriptorSetFault = "ok", workspace \in Seq(Records), Matches(workspace),
         UNCHANGED inputs, NEW k \in 1 .. Count, NEW s \in RecordStates,
         workspace' = [workspace EXCEPT ![k].state = s]
  PROVE  /\ workspace' \in Seq(Records') /\ Matches(workspace)'
         /\ \A i \in 1 .. Count :
              /\ workspace'[i].state = IF i = k THEN s ELSE workspace[i].state
              /\ workspace'[i].stop = workspace[i].stop
              /\ Active(workspace[i])' <=> Active(workspace[i])
         /\ \A n \in 0 .. Count : ActiveUpTo(workspace, n)' = ActiveUpTo(workspace, n)
<1>1. /\ Len(workspace) = Count /\ \A i \in 1 .. Count : workspace[i] \in Records
      /\ k \in 1 .. Len(workspace)
  BY RecordsAreSorted
<1>2. [workspace[k] EXCEPT !.state = s] \in Records
  BY <1>1 DEF Records
<1>3. PICK qs : qs = workspace'
  OBVIOUS
<1>4. qs \in Seq(Records) /\ Len(qs) = Len(workspace)
  BY <1>1, <1>2, <1>3, ExceptSeq
<1>5. ASSUME NEW i \in 1 .. Count
      PROVE  /\ qs[i].state = IF i = k THEN s ELSE workspace[i].state
             /\ qs[i].stop = workspace[i].stop /\ qs[i].descriptor = workspace[i].descriptor
  <2>1. qs[i] = IF i = k THEN [workspace[k] EXCEPT !.state = s] ELSE workspace[i]
    BY <1>1, <1>3
  <2> QED BY <1>1, <2>1 DEF Records
<1>6. /\ Matches(qs)
      /\ \A i \in 1 .. Count : Active(qs[i]) <=> Active(workspace[i])
      /\ \A n \in 0 .. Count : ActiveUpTo(qs, n) = ActiveUpTo(workspace, n)
  BY <1>4, <1>5, SameDescriptors
<1>7. Matches(workspace)'
  BY <1>3, <1>6, RecordsDecide
<1>8. \A i \in 1 .. Count : Active(workspace[i])' <=> Active(workspace[i])
  BY <1>3, <1>6, RecordsDecide
<1>9. \A n \in 0 .. Count : ActiveUpTo(workspace, n)' = ActiveUpTo(workspace, n)
  BY <1>3, <1>6, RecordsDecide
<1> QED BY <1>3, <1>4, <1>5, <1>7, <1>8, <1>9, InputsDecide

LEMMA RecordsStep ==
  ASSUME Given, DescriptorSetFault = "ok", records \in Seq(Records), Matches(records),
         UNCHANGED inputs, NEW k \in 1 .. Count, NEW s \in RecordStates, NEW stop \in Raws,
         records' = [records EXCEPT ![k] = Record(records[k].descriptor, s, stop)]
  PROVE  /\ records' \in Seq(Records') /\ Matches(records)'
         /\ \A i \in 1 .. Count :
              /\ records'[i].state = IF i = k THEN s ELSE records[i].state
              /\ records'[i].stop = IF i = k THEN stop ELSE records[i].stop
              /\ Active(records[i])' <=> Active(records[i])
         /\ \A n \in 0 .. Count : ActiveUpTo(records, n)' = ActiveUpTo(records, n)
<1>1. /\ Len(records) = Count /\ \A i \in 1 .. Count : records[i] \in Records
      /\ k \in 1 .. Len(records)
  BY RecordsAreSorted
<1>2. /\ Record(records[k].descriptor, s, stop) \in Records
      /\ Record(records[k].descriptor, s, stop).descriptor = records[k].descriptor
      /\ Record(records[k].descriptor, s, stop).state = s
      /\ Record(records[k].descriptor, s, stop).stop = stop
  BY <1>1 DEF Records, Record
<1>3. PICK qs : qs = records'
  OBVIOUS
<1>4. qs \in Seq(Records) /\ Len(qs) = Len(records)
  BY <1>1, <1>2, <1>3, ExceptSeq
<1>5. ASSUME NEW i \in 1 .. Count
      PROVE  /\ qs[i].state = IF i = k THEN s ELSE records[i].state
             /\ qs[i].stop = IF i = k THEN stop ELSE records[i].stop
             /\ qs[i].descriptor = records[i].descriptor
  <2>1. qs[i] = IF i = k THEN Record(records[k].descriptor, s, stop) ELSE records[i]
    BY <1>1, <1>3
  <2> QED BY <1>2, <2>1
<1>6. /\ Matches(qs)
      /\ \A i \in 1 .. Count : Active(qs[i]) <=> Active(records[i])
      /\ \A n \in 0 .. Count : ActiveUpTo(qs, n) = ActiveUpTo(records, n)
  BY <1>4, <1>5, SameDescriptors
<1>7. Matches(records)'
  BY <1>3, <1>6, RecordsDecide
<1>8. \A i \in 1 .. Count : Active(records[i])' <=> Active(records[i])
  BY <1>3, <1>6, RecordsDecide
<1>9. \A n \in 0 .. Count : ActiveUpTo(records, n)' = ActiveUpTo(records, n)
  BY <1>3, <1>6, RecordsDecide
<1> QED BY <1>3, <1>4, <1>5, <1>7, <1>8, <1>9, InputsDecide
-----------------------------------------------------------------------------
(***************************************************************************)
(* What the invariant says of the inputs, and what keeps it                *)
(***************************************************************************)
LEMMA AcceptedInputs ==
  ASSUME RuntimeInvariant, workspace # <<>> \/ state # "absent" \/ pc # "caller"
  PROVE  Given /\ InputFault = "ok" /\ DescriptorSetFault = "ok" /\ RegionsDisjoint(Mutable)
<1>1. Given /\ InputFault = "ok"
  BY DEF RuntimeInvariant, TypeOK, InputsAccepted
<1>2. DescriptorSetFault = "ok"
  BY <1>1, Zenon DEF InputFault
<1>3. RegionsDisjoint(Mutable)
  BY <1>1, <1>2 DEF InputFault
<1> QED BY <1>1, <1>2, <1>3

(* measure answers a status. *)
LEMMA InputFaultTypes ==
  ASSUME Given
  PROVE  InputFault \in Statuses
<1>1. ASSUME NEW d \in DOMAIN descriptors
      PROVE  DescriptorFault(descriptors[d]) \in Statuses
  <2> DEFINE D == descriptors[d]
             faulty == {c \in D.declares : InterfaceFault(c) # "ok"}
  <2>1. D.declares \subseteq DOMAIN catalog.provider /\ DOMAIN catalog.provider \subseteq Nat
    BY DescriptorTypes, GivenTypes DEF IsCatalog
  <2>2. \A c \in DOMAIN catalog.provider : InterfaceFault(c) \in Statuses
    BY GivenTypes DEF IsCatalog, InterfaceFault
  <2>3. faulty # {} => InterfaceFault(Min(faulty)) \in Statuses
    <3>1. faulty \subseteq Nat
      BY <2>1
    <3>2. faulty # {} => Min(faulty) \in faulty
      BY <3>1, MinIsLeast
    <3> QED BY <2>1, <2>2, <3>2
  <2>4. {"einval", "enoent", "ok"} \subseteq Statuses
    BY DEF Statuses
  <2> QED BY <2>3, <2>4, Zenon DEF DescriptorFault
<1>2. DescriptorSetFault \in Statuses
  <2> DEFINE fault(d) ==
               IF DescriptorFault(descriptors[d]) # "ok" THEN DescriptorFault(descriptors[d])
               ELSE IF \E e \in 1 .. d - 1 : descriptors[e].module = descriptors[d].module
               THEN "eexist" ELSE "ok"
             faulty == {d \in DOMAIN descriptors : fault(d) # "ok"}
  <2>1. {"einval", "eexist", "ok"} \subseteq Statuses
    BY DEF Statuses
  <2>2. \A d \in DOMAIN descriptors : fault(d) \in Statuses
    BY <1>1, <2>1, Zenon
  <2>3. faulty # {} => fault(Min(faulty)) \in Statuses
    <3> HIDE DEF fault
    <3>1. faulty \subseteq Nat
      BY GivenTypes
    <3>2. faulty # {} => Min(faulty) \in faulty
      BY <3>1, MinIsLeast
    <3> QED BY <2>2, <3>2, Zenon
  <2> QED BY <2>1, <2>3, Zenon DEF DescriptorSetFault
<1> QED BY <1>2 DEF InputFault, Statuses

LEMMA RuntimeKept ==
  ASSUME UNCHANGED <<inputs, records, state>>
  PROVE  (RuntimeValid' <=> RuntimeValid) /\ FirstFailureOf(records)' = FirstFailureOf(records)
<1>1. UNCHANGED inputs /\ records' = records /\ state' = state
  OBVIOUS
<1>2. \A r : RecordAllowed(r)' <=> RecordAllowed(r)
  BY <1>1 DEF RecordAllowed
<1>3. Matches(records)' <=> Matches(records)
  BY <1>1, InputsDecide DEF Matches
<1>4. RuntimeValid' <=> RuntimeValid
  BY <1>1, <1>2, <1>3, InputsDecide DEF RuntimeValid
<1>5. FirstFailureOf(records)' = FirstFailureOf(records)
  BY <1>1 DEF FirstFailureOf, Normalized
<1> QED BY <1>4, <1>5

(* Within prepare the runtime the application can see does not change. *)
LEMMA PrepareFrame ==
  ASSUME RuntimeInvariant, UNCHANGED <<inputs, records, state, ret>>,
         pc \in {"prepare", "rollback"}, pc' \in {"prepare", "rollback"},
         TypeOK', Matches(workspace)', Preparing', RollingBack'
  PROVE  RuntimeInvariant'
<1>1. UNCHANGED inputs /\ records' = records /\ state' = state
  OBVIOUS
<1>2. InputFault = "ok"
  BY AcceptedInputs
<1>3. InputsAccepted'
  BY <1>1, <1>2, InputsDecide DEF InputsAccepted
<1>4. AtRest'
  <2>1. state \notin {"READY", "STOPPING"}
    BY DEF RuntimeInvariant, AtRest
  <2> QED BY <1>1, <2>1 DEF AtRest
<1>5. Stopping' /\ AllOrNothing' /\ StopReportsFirstFailure'
  BY DEF Stopping, AllOrNothing, StopReportsFirstFailure
<1>6. (state # "absent" => RuntimeValid)'
  BY <1>1, RuntimeKept DEF RuntimeInvariant
<1> QED BY <1>3, <1>4, <1>5, <1>6 DEF RuntimeInvariant

LEMMA StopFrame ==
  ASSUME RuntimeInvariant, UNCHANGED <<inputs, workspace, state, ret>>,
         pc = "stop", pc' = "stop", TypeOK', Stopping', RuntimeValid'
  PROVE  RuntimeInvariant'
<1>1. UNCHANGED inputs /\ state' = state
  OBVIOUS
<1>2. InputFault = "ok"
  BY AcceptedInputs
<1>3. InputsAccepted'
  BY <1>1, <1>2, InputsDecide DEF InputsAccepted
<1>4. AtRest'
  BY <1>1 DEF RuntimeInvariant, AtRest
<1>5. /\ Preparing' /\ RollingBack' /\ AllOrNothing' /\ StopReportsFirstFailure'
  BY DEF Preparing, RollingBack, AllOrNothing, StopReportsFirstFailure
<1> QED BY <1>3, <1>4, <1>5 DEF RuntimeInvariant
-----------------------------------------------------------------------------
(***************************************************************************)
(* The inductive invariant                                                 *)
(***************************************************************************)
LEMMA InitEstablishes ==
  ASSUME Init
  PROVE  RuntimeInvariant
<1>1. Given /\ Count \in Nat
  BY GivenTypes DEF Init
<1>2. TypeOK
  <2>1. workspace \in Seq(Records) /\ records \in Seq(Records)
    BY DEF Init
  <2>2. ret \in [call : {"none", "prepare", "stop"}, status : Statuses \cup {"ebusy"}]
    BY DEF Init, Statuses
  <2>3. cursor \in 0 .. Count + 1 /\ context \in 0 .. Count
    BY <1>1 DEF Init
  <2> QED BY <2>1, <2>2, <2>3 DEF Init, TypeOK, Statuses, RuntimeStates
<1>3. InputsAccepted /\ AtRest /\ Preparing /\ RollingBack /\ Stopping
  BY DEF Init, InputsAccepted, AtRest, Preparing, RollingBack, Stopping
<1>4. AllOrNothing /\ StopReportsFirstFailure
  BY DEF Init, AllOrNothing, StopReportsFirstFailure
<1> QED BY <1>2, <1>3, <1>4 DEF RuntimeInvariant, Init

(* prepare begins with the records in order, every one empty. *)
LEMMA BuildRecords ==
  ASSUME Given, DescriptorSetFault = "ok", NEW rs, rs = BuildModuleMapAndOrder
  PROVE  /\ rs \in Seq(Records) /\ Matches(rs)
         /\ \A i \in 1 .. Count : rs[i].state = "EMPTY" /\ rs[i].stop = "ok"
<1>1. Count \in Nat
  BY GivenTypes
<1>2. \A i \in 1 .. Count : ExpectedDescriptors[i] \in DOMAIN descriptors
  BY ExpectedIsSorted
<1>3. DOMAIN rs = 1 .. Count
  BY DEF BuildModuleMapAndOrder
<1>4. \A i \in 1 .. Count : rs[i] = Record(ExpectedDescriptors[i], "EMPTY", "ok")
  BY DEF BuildModuleMapAndOrder
<1>5. ASSUME NEW i \in 1 .. Count
      PROVE  /\ rs[i] \in Records /\ rs[i].descriptor = ExpectedDescriptors[i]
             /\ rs[i].state = "EMPTY" /\ rs[i].stop = "ok"
  <2>1. PICK e \in DOMAIN descriptors : e = ExpectedDescriptors[i]
    BY <1>2
  <2>2. rs[i] = [descriptor |-> e, state |-> "EMPTY", stop |-> "ok"]
    BY <1>4, <2>1, Zenon DEF Record
  <2>3. rs[i] \in Records
    BY <2>2 DEF Records, RecordStates, Raws
  <2> QED BY <2>1, <2>2, <2>3
<1>6. rs \in Seq(Records)
  <2>1. rs = [i \in 1 .. Count |-> rs[i]]
    BY <1>3 DEF BuildModuleMapAndOrder
  <2>2. rs \in [1 .. Count -> Records]
    BY <1>5, <2>1
  <2> QED BY <1>1, <2>2
<1>7. Len(rs) = Count
  BY <1>1, <1>3, <1>6, LenProperties
<1>8. Matches(rs)
  BY <1>3, <1>5, <1>7 DEF Matches
<1> QED BY <1>5, <1>6, <1>8

LEMMA PrepareKeeps ==
  ASSUME RuntimeInvariant, Prepare
  PROVE  RuntimeInvariant'
<1>1. UNCHANGED inputs /\ records' = records /\ state' = state /\ held' = held
  BY DEF Prepare
<1>2. /\ pc = "caller" /\ state # "READY" /\ state # "STOPPING"
      /\ cursor = 0 /\ context = 0 /\ callback = FALSE /\ failure = "ok" /\ held = {}
  BY DEF Prepare, RuntimeInvariant, AtRest, AllOrNothing, TypeOK
<1>3. Given /\ Count \in Nat /\ Given' /\ Count' = Count
  BY <1>1, InputsDecide, GivenTypes DEF RuntimeInvariant, TypeOK
<1>4. RuntimeValid' <=> RuntimeValid
  BY <1>1, RuntimeKept
<1>5. CASE InputFault # "ok"
  <2>1. /\ workspace' = workspace /\ pc' = "caller" /\ cursor' = 0 /\ context' = 0
        /\ callback' = FALSE /\ failure' = "ok"
        /\ ret' = [call |-> "prepare", status |-> InputFault]
    BY <1>5 DEF Prepare, Return
  <2>2. TypeOK'
    <3>1. ret' \in [call : {"none", "prepare", "stop"}, status : Statuses \cup {"ebusy"}]
      BY <1>3, <2>1, InputFaultTypes
    <3>2. cursor' \in 0 .. Count' + 1 /\ context' \in 0 .. Count'
      BY <1>3, <2>1
    <3>3. roomy' = roomy
      BY <1>1 DEF inputs
    <3> QED BY <1>1, <1>3, <2>1, <3>1, <3>2, <3>3, InputsDecide
            DEF RuntimeInvariant, TypeOK, Statuses
  <2>3. InputsAccepted'
    BY <1>1, <1>2, <2>1, InputsDecide DEF RuntimeInvariant, InputsAccepted
  <2>4. AtRest'
    BY <1>1, <1>2, <2>1 DEF AtRest
  <2>5. Preparing' /\ RollingBack' /\ Stopping' /\ StopReportsFirstFailure'
    BY <2>1 DEF Preparing, RollingBack, Stopping, StopReportsFirstFailure
  <2>6. AllOrNothing'
    BY <1>1, <1>2 DEF AllOrNothing
  <2> QED BY <1>1, <1>4, <2>2, <2>3, <2>4, <2>5, <2>6 DEF RuntimeInvariant
<1>6. CASE InputFault = "ok"
  <2>1. /\ workspace' = BuildModuleMapAndOrder /\ pc' = "prepare" /\ cursor' = 1
        /\ context' = context /\ callback' = callback /\ failure' = failure /\ ret' = ret
    BY <1>6 DEF Prepare
  <2>2. DescriptorSetFault = "ok"
    BY <1>6 DEF InputFault
  <2>3. PICK ws : ws = workspace'
    OBVIOUS
  <2>4. /\ ws \in Seq(Records) /\ Matches(ws)
        /\ \A i \in 1 .. Count : ws[i].state = "EMPTY" /\ ws[i].stop = "ok"
    BY <1>3, <2>1, <2>2, <2>3, BuildRecords
  <2>5. Matches(workspace)'
    BY <1>1, <2>3, <2>4, RecordsDecide
  <2>6. TypeOK'
    <3>1. cursor' \in 0 .. Count' + 1 /\ context' \in 0 .. Count'
      BY <1>2, <1>3, <2>1
    <3>2. roomy' = roomy
      BY <1>1 DEF inputs
    <3>3. workspace' \in Seq(Records')
      BY <1>1, <2>3, <2>4, InputsDecide
    <3> QED BY <1>1, <1>3, <2>1, <3>1, <3>2, <3>3, InputsDecide
            DEF RuntimeInvariant, TypeOK
  <2>7. InputsAccepted'
    BY <1>1, <1>6, InputsDecide DEF InputsAccepted
  <2>8. AtRest'
    BY <1>1, <1>2, <2>1, <2>5 DEF AtRest
  <2>9. Preparing'
    <3>1. ActiveUpTo(workspace, cursor - 1)' = {}
      <4>1. cursor' - 1 = 0
        BY <2>1
      <4>2. (ActiveUpTo(workspace, cursor - 1))' = ActiveUpTo(ws, 0)'
        BY <2>3, <4>1
      <4> QED BY <1>1, <4>2, ActiveOfNone, RecordsDecide
    <3>2. \A i \in 1 .. Count : ~(i < 1)
      BY <1>3
    <3> QED BY <1>1, <1>2, <1>3, <2>1, <2>3, <2>4, <3>1, <3>2 DEF Preparing
  <2>10. RollingBack' /\ Stopping' /\ StopReportsFirstFailure' /\ AllOrNothing'
    BY <2>1 DEF RollingBack, Stopping, StopReportsFirstFailure, AllOrNothing
  <2> QED BY <1>1, <1>4, <2>6, <2>7, <2>8, <2>9, <2>10 DEF RuntimeInvariant
<1> QED BY <1>5, <1>6

(* prepare has come to a record: the facts about it. *)
LEMMA PreparingFacts ==
  ASSUME RuntimeInvariant, pc \in {"prepare", "rollback"}
  PROVE  /\ Given /\ DescriptorSetFault = "ok" /\ Count \in Nat /\ cursor \in Int
         /\ workspace \in Seq(Records) /\ Matches(workspace)
         /\ state # "READY" /\ state # "STOPPING"
BY AcceptedInputs, GivenTypes DEF RuntimeInvariant, TypeOK, AtRest

LEMMA PrepareRecordKeeps ==
  ASSUME RuntimeInvariant, PrepareRecord
  PROVE  RuntimeInvariant'
<1>1. /\ UNCHANGED <<inputs, records, state, ret>>
      /\ pc' = pc /\ failure' = failure /\ held' = held
      /\ pc = "prepare" /\ callback = FALSE /\ cursor <= Count
  BY DEF PrepareRecord, RuntimeInvariant, TypeOK
<1>2. /\ Given /\ DescriptorSetFault = "ok" /\ Count \in Nat /\ Matches(workspace)
      /\ workspace \in Seq(Records) /\ UNCHANGED inputs
  BY <1>1, PreparingFacts
<1>3. /\ cursor \in 1 .. Count /\ context = 0
      /\ \A i \in 1 .. Count :
           /\ workspace[i].stop = "ok"
           /\ workspace[i].state = IF i < cursor THEN "READY" ELSE "EMPTY"
      /\ held = ActiveUpTo(workspace, cursor - 1)
  BY <1>1, <1>2 DEF RuntimeInvariant, TypeOK, Preparing
<1>4. Given' /\ Count' = Count /\ roomy' = roomy /\ ActiveModules' = ActiveModules
  BY <1>2, InputsDecide DEF inputs
<1>5. CASE Active(workspace[cursor])
  <2>1. /\ workspace' = [workspace EXCEPT ![cursor].state = "PREPARING"]
        /\ callback' = TRUE /\ context' = cursor /\ cursor' = cursor
    BY <1>5 DEF PrepareRecord
  <2>2. /\ workspace' \in Seq(Records') /\ Matches(workspace)'
        /\ \A i \in 1 .. Count :
             /\ workspace'[i].state = IF i = cursor THEN "PREPARING" ELSE workspace[i].state
             /\ workspace'[i].stop = workspace[i].stop
             /\ Active(workspace[i])' <=> Active(workspace[i])
        /\ \A n \in 0 .. Count : ActiveUpTo(workspace, n)' = ActiveUpTo(workspace, n)
    <3>1. "PREPARING" \in RecordStates
      BY DEF RecordStates
    <3> QED BY <1>2, <1>3, <2>1, <3>1, WorkspaceStep
  <2>3. TypeOK'
    <3>1. cursor' \in 0 .. Count' + 1 /\ context' \in 0 .. Count'
      BY <1>2, <1>3, <1>4, <2>1
    <3> QED BY <1>1, <1>4, <2>1, <2>2, <3>1, InputsDecide DEF RuntimeInvariant, TypeOK
  <2>4. Preparing'
    <3>1. (ActiveUpTo(workspace, cursor - 1))' = ActiveUpTo(workspace, cursor - 1)
      <4>1. cursor' - 1 = cursor - 1 /\ cursor - 1 \in 0 .. Count
        BY <1>2, <1>3, <2>1
      <4> QED BY <2>2, <4>1
    <3>2. Active(workspace[cursor])'
      BY <1>3, <1>5, <2>1, <2>2
    <3>3. ASSUME NEW i \in 1 .. Count
          PROVE  /\ workspace'[i].stop = "ok"
                 /\ workspace'[i].state = IF i < cursor THEN "READY"
                                          ELSE IF i = cursor THEN "PREPARING" ELSE "EMPTY"
      BY <1>2, <1>3, <2>2
    <3> QED BY <1>1, <1>3, <1>4, <2>1, <3>1, <3>2, <3>3 DEF Preparing
  <2>5. RollingBack'
    BY <1>1 DEF RollingBack
  <2> QED BY <1>1, <2>2, <2>3, <2>4, <2>5, PrepareFrame
<1>6. CASE ~Active(workspace[cursor])
  <2>1. /\ workspace' = [workspace EXCEPT ![cursor].state = "READY"]
        /\ callback' = FALSE /\ context' = 0 /\ cursor' = cursor + 1
    BY <1>1, <1>3, <1>6 DEF PrepareRecord
  <2>2. /\ workspace' \in Seq(Records') /\ Matches(workspace)'
        /\ \A i \in 1 .. Count :
             /\ workspace'[i].state = IF i = cursor THEN "READY" ELSE workspace[i].state
             /\ workspace'[i].stop = workspace[i].stop
             /\ Active(workspace[i])' <=> Active(workspace[i])
        /\ \A n \in 0 .. Count : ActiveUpTo(workspace, n)' = ActiveUpTo(workspace, n)
    <3>1. "READY" \in RecordStates
      BY DEF RecordStates
    <3> QED BY <1>2, <1>3, <2>1, <3>1, WorkspaceStep
  <2>3. TypeOK'
    <3>1. cursor' \in 0 .. Count' + 1 /\ context' \in 0 .. Count'
      BY <1>2, <1>3, <1>4, <2>1
    <3> QED BY <1>1, <1>4, <2>1, <2>2, <3>1, InputsDecide DEF RuntimeInvariant, TypeOK
  <2>4. Preparing'
    <3>1. (ActiveUpTo(workspace, cursor - 1))' = ActiveUpTo(workspace, cursor)
      <4>1. cursor' - 1 = cursor /\ cursor \in 0 .. Count
        BY <1>2, <1>3, <2>1
      <4> QED BY <2>2, <4>1
    <3>2. ActiveUpTo(workspace, cursor) = ActiveUpTo(workspace, cursor - 1)
      BY <1>2, <1>3, <1>6, ActiveOfNext
    <3>3. ASSUME NEW i \in 1 .. Count
          PROVE  /\ workspace'[i].stop = "ok"
                 /\ workspace'[i].state = IF i < cursor + 1 THEN "READY" ELSE "EMPTY"
      BY <1>2, <1>3, <2>2
    <3> QED BY <1>1, <1>3, <1>4, <2>1, <3>1, <3>2, <3>3 DEF Preparing
  <2>5. RollingBack'
    BY <1>1 DEF RollingBack
  <2> QED BY <1>1, <2>2, <2>3, <2>4, <2>5, PrepareFrame
<1> QED BY <1>5, <1>6

LEMMA PrepareReturnsKeeps ==
  ASSUME RuntimeInvariant, NEW raw \in Raws, PrepareReturns(raw)
  PROVE  RuntimeInvariant'
<1>1. /\ UNCHANGED <<inputs, records, state, ret>>
      /\ pc = "prepare" /\ callback = TRUE /\ callback' = FALSE
  BY Zenon DEF PrepareReturns, RuntimeInvariant, TypeOK
<1>2. /\ Given /\ DescriptorSetFault = "ok" /\ Count \in Nat /\ Matches(workspace)
      /\ workspace \in Seq(Records) /\ UNCHANGED inputs
  BY <1>1, PreparingFacts
<1>3. /\ cursor \in 1 .. Count /\ context = cursor /\ Active(workspace[cursor])
      /\ \A i \in 1 .. Count :
           /\ workspace[i].stop = "ok"
           /\ workspace[i].state = IF i < cursor THEN "READY"
                                   ELSE IF i = cursor THEN "PREPARING" ELSE "EMPTY"
      /\ held = ActiveUpTo(workspace, cursor - 1)
  BY <1>1, <1>2 DEF RuntimeInvariant, TypeOK, Preparing
<1>4. Given' /\ Count' = Count /\ roomy' = roomy /\ ActiveModules' = ActiveModules
  BY <1>2, InputsDecide DEF inputs
<1>5. /\ cursor - 1 \in 0 .. Count /\ cursor \in 0 .. Count
      /\ ActiveUpTo(workspace, cursor) = ActiveUpTo(workspace, cursor - 1)
                                          \cup {Module(workspace[cursor])}
  BY <1>2, <1>3, ActiveOfNext
<1>6. Normalized(raw) \in Statuses
  BY DEF Normalized, Statuses, Raws
<1>7. CASE Normalized(raw) = "ok"
  <2>1. /\ workspace' = [workspace EXCEPT ![cursor].state = "READY"]
        /\ held' = held \cup {Module(workspace[cursor])}
        /\ context' = 0 /\ cursor' = cursor + 1 /\ pc' = "prepare" /\ failure' = failure
    BY <1>1, <1>7 DEF PrepareReturns
  <2>2. /\ workspace' \in Seq(Records') /\ Matches(workspace)'
        /\ \A i \in 1 .. Count :
             /\ workspace'[i].state = IF i = cursor THEN "READY" ELSE workspace[i].state
             /\ workspace'[i].stop = workspace[i].stop
             /\ Active(workspace[i])' <=> Active(workspace[i])
        /\ \A n \in 0 .. Count : ActiveUpTo(workspace, n)' = ActiveUpTo(workspace, n)
    <3>1. "READY" \in RecordStates
      BY DEF RecordStates
    <3> QED BY <1>2, <1>3, <2>1, <3>1, WorkspaceStep
  <2>3. held' = ActiveUpTo(workspace, cursor)
    BY <1>3, <1>5, <2>1
  <2>4. TypeOK'
    <3>1. cursor' \in 0 .. Count' + 1 /\ context' \in 0 .. Count'
      BY <1>2, <1>3, <1>4, <2>1
    <3>2. held' \subseteq ActiveModules'
      BY <1>2, <1>4, <1>5, <2>3, ActiveAreManaged
    <3> QED BY <1>1, <1>4, <2>1, <2>2, <3>1, <3>2, InputsDecide DEF RuntimeInvariant, TypeOK
  <2>5. Preparing'
    <3>1. (ActiveUpTo(workspace, cursor - 1))' = ActiveUpTo(workspace, cursor)
      <4>1. cursor' - 1 = cursor
        BY <1>3, <2>1
      <4> QED BY <1>5, <2>2, <4>1
    <3>2. ASSUME NEW i \in 1 .. Count
          PROVE  /\ workspace'[i].stop = "ok"
                 /\ workspace'[i].state = IF i < cursor + 1 THEN "READY" ELSE "EMPTY"
      BY <1>2, <1>3, <2>2
    <3> QED BY <1>1, <1>3, <1>4, <2>1, <2>3, <3>1, <3>2 DEF Preparing
  <2>6. RollingBack'
    BY <2>1 DEF RollingBack
  <2> QED BY <1>1, <2>1, <2>2, <2>4, <2>5, <2>6, PrepareFrame
<1>8. CASE Normalized(raw) # "ok"
  <2>1. /\ workspace' = [workspace EXCEPT ![cursor].state = "PREPARE_FAILED"]
        /\ held' = held /\ context' = context /\ cursor' = cursor - 1
        /\ pc' = "rollback" /\ failure' = Normalized(raw)
    BY <1>1, <1>8 DEF PrepareReturns
  <2>2. /\ workspace' \in Seq(Records') /\ Matches(workspace)'
        /\ \A i \in 1 .. Count :
             /\ workspace'[i].state = IF i = cursor THEN "PREPARE_FAILED"
                                      ELSE workspace[i].state
             /\ workspace'[i].stop = workspace[i].stop
             /\ Active(workspace[i])' <=> Active(workspace[i])
        /\ \A n \in 0 .. Count : ActiveUpTo(workspace, n)' = ActiveUpTo(workspace, n)
    <3>1. "PREPARE_FAILED" \in RecordStates
      BY DEF RecordStates
    <3> QED BY <1>2, <1>3, <2>1, <3>1, WorkspaceStep
  <2>3. TypeOK'
    <3>1. cursor' \in 0 .. Count' + 1 /\ context' \in 0 .. Count'
      BY <1>2, <1>3, <1>4, <2>1
    <3> QED BY <1>1, <1>4, <1>6, <2>1, <2>2, <3>1, InputsDecide DEF RuntimeInvariant, TypeOK
  <2>4. RollingBack'
    <3>1. (ActiveUpTo(workspace, cursor))' = ActiveUpTo(workspace, cursor - 1)
      BY <1>5, <2>1, <2>2
    <3>2. ASSUME NEW i \in 1 .. cursor - 1
          PROVE  workspace'[i].state = "READY"
      <4>1. i \in 1 .. Count /\ i < cursor /\ i # cursor
        BY <1>2, <1>3
      <4> QED BY <1>3, <2>2, <4>1
    <3>3. workspace'[cursor].state = "PREPARE_FAILED"
      BY <1>3, <2>2
    <3>4. cursor' < context'
      BY <1>3, <2>1
    <3> QED BY <1>1, <1>3, <2>1, <3>1, <3>2, <3>3, <3>4 DEF RollingBack
  <2>5. Preparing'
    BY <2>1 DEF Preparing
  <2> QED BY <1>1, <2>1, <2>2, <2>3, <2>4, <2>5, PrepareFrame
<1> QED BY <1>7, <1>8

(* When the last record is ready all are, and prepare publishes them. *)
LEMMA AllReady ==
  ASSUME RuntimeInvariant, pc = "prepare", ~callback, cursor > Count
  PROVE  /\ WorkspaceReady /\ held = ActiveModules
         /\ \A i \in 1 .. Count : workspace[i].state = "READY" /\ workspace[i].stop = "ok"
<1>1. /\ Given /\ DescriptorSetFault = "ok" /\ Count \in Nat /\ Matches(workspace)
      /\ workspace \in Seq(Records)
  BY PreparingFacts
<1>2. cursor = Count + 1 /\ cursor - 1 = Count
  BY <1>1 DEF RuntimeInvariant, TypeOK
<1>3. ASSUME NEW i \in 1 .. Count
      PROVE  workspace[i].state = "READY" /\ workspace[i].stop = "ok"
  <2>1. i < cursor
    BY <1>1, <1>2
  <2> QED BY <2>1 DEF RuntimeInvariant, Preparing
<1>4. WorkspaceReady
  BY <1>1, <1>3, RecordsAreSorted, Zenon DEF WorkspaceReady
<1>5. held = ActiveUpTo(workspace, Count)
  BY <1>2 DEF RuntimeInvariant, Preparing
<1> QED BY <1>1, <1>3, <1>4, <1>5, ActiveOfAll

LEMMA PublishKeeps ==
  ASSUME RuntimeInvariant, Publish
  PROVE  RuntimeInvariant'
<1>1. /\ UNCHANGED inputs /\ workspace' = workspace /\ held' = held
      /\ pc = "prepare" /\ ~callback /\ cursor > Count
  BY DEF Publish
<1>2. /\ Given /\ DescriptorSetFault = "ok" /\ Count \in Nat /\ Matches(workspace)
      /\ workspace \in Seq(Records)
  BY <1>1, PreparingFacts
<1>3. /\ WorkspaceReady /\ held = ActiveModules
      /\ \A i \in 1 .. Count : workspace[i].state = "READY" /\ workspace[i].stop = "ok"
  BY <1>1, AllReady
<1>4. /\ records' = workspace /\ state' = "READY" /\ pc' = "caller"
      /\ ret' = [call |-> "prepare", status |-> "ok"]
      /\ cursor' = 0 /\ context' = 0 /\ callback' = FALSE /\ failure' = "ok"
  BY <1>3 DEF Publish, Return
<1>5. Given' /\ Count' = Count /\ roomy' = roomy /\ ActiveModules' = ActiveModules
  BY <1>1, <1>2, InputsDecide DEF inputs
<1>6. TypeOK'
  <2>1. cursor' \in 0 .. Count' + 1 /\ context' \in 0 .. Count'
    BY <1>2, <1>4, <1>5
  <2>2. ret' \in [call : {"none", "prepare", "stop"}, status : Statuses \cup {"ebusy"}]
    BY <1>4 DEF Statuses
  <2> QED BY <1>1, <1>2, <1>4, <1>5, <2>1, <2>2, InputsDecide
          DEF RuntimeInvariant, TypeOK, Statuses, RuntimeStates
<1>7. InputsAccepted'
  BY <1>1, AcceptedInputs, InputsDecide DEF InputsAccepted
<1>8. AtRest' /\ Preparing' /\ RollingBack' /\ Stopping' /\ StopReportsFirstFailure'
  BY <1>4 DEF AtRest, Preparing, RollingBack, Stopping, StopReportsFirstFailure
<1>9. AllOrNothing'
  BY <1>1, <1>3, <1>4, <1>5 DEF AllOrNothing
<1>10. RuntimeValid'
  <2>1. RegionsDisjoint(RuntimeRegions)
    <3>1. RuntimeRegions \subseteq Mutable
      BY DEF RuntimeRegions, Mutable
    <3>2. RegionsDisjoint(Mutable)
      BY <1>1, AcceptedInputs
    <3> QED BY <3>1, <3>2, Zenon DEF RegionsDisjoint
  <2>2. \A i \in DOMAIN records' : records'[i].state = "READY" /\ records'[i].stop = "ok"
    BY <1>2, <1>3, <1>4, RecordsAreSorted
  <2>3. \A i \in DOMAIN records' : RecordAllowed(records[i])'
    BY <1>4, <2>2 DEF RecordAllowed
  <2>4. Matches(records)'
    <3>1. PICK ws : ws = workspace
      OBVIOUS
    <3>2. Matches(ws)'
      BY <1>1, <1>2, <3>1, RecordsDecide
    <3> QED BY <1>4, <3>1, <3>2
  <2> QED BY <1>1, <1>2, <1>4, <2>1, <2>2, <2>3, <2>4, InputsDecide DEF RuntimeValid
<1> QED BY <1>6, <1>7, <1>8, <1>9, <1>10 DEF RuntimeInvariant

(* rollback has come to a record: those from it down are still ready. *)
LEMMA RollingBackFacts ==
  ASSUME RuntimeInvariant, pc = "rollback"
  PROVE  /\ cursor \in 0 .. Count /\ cursor < context /\ context \in 1 .. Count
         /\ workspace[context].state = "PREPARE_FAILED"
         /\ callback => cursor \in 1 .. Count /\ Active(workspace[cursor])
         /\ \A i \in 1 .. cursor :
              workspace[i].state = IF i = cursor /\ callback THEN "ROLLING_BACK" ELSE "READY"
         /\ held = ActiveUpTo(workspace, cursor)
<1>1. Count \in Nat
  BY PreparingFacts
<1>2. cursor \in 0 .. Count + 1 /\ context \in 0 .. Count /\ RollingBack
  BY DEF RuntimeInvariant, TypeOK
<1>3. cursor < context
  BY <1>2 DEF RollingBack
<1>4. cursor \in 0 .. Count /\ context \in 1 .. Count
  BY <1>1, <1>2, <1>3
<1>5. callback => cursor \in 1 .. Count
  BY <1>1, <1>2, <1>4 DEF RollingBack
<1> QED BY <1>2, <1>3, <1>4, <1>5, Zenon DEF RollingBack

LEMMA RollbackRecordKeeps ==
  ASSUME RuntimeInvariant, RollbackRecord
  PROVE  RuntimeInvariant'
<1>1. /\ UNCHANGED <<inputs, records, state, ret>>
      /\ pc' = pc /\ context' = context /\ failure' = failure /\ held' = held
      /\ pc = "rollback" /\ callback = FALSE /\ cursor > 0
  BY DEF RollbackRecord, RuntimeInvariant, TypeOK
<1>2. /\ Given /\ DescriptorSetFault = "ok" /\ Count \in Nat /\ Matches(workspace)
      /\ workspace \in Seq(Records) /\ UNCHANGED inputs
  BY <1>1, PreparingFacts
<1>3. /\ cursor \in 1 .. Count /\ cursor < context /\ context \in 1 .. Count
      /\ workspace[context].state = "PREPARE_FAILED"
      /\ \A i \in 1 .. cursor : workspace[i].state = "READY"
      /\ held = ActiveUpTo(workspace, cursor)
  BY <1>1, <1>2, RollingBackFacts
<1>4. Given' /\ Count' = Count /\ roomy' = roomy /\ ActiveModules' = ActiveModules
  BY <1>2, InputsDecide DEF inputs
<1>5. workspace[cursor].state = "READY"
  BY <1>2, <1>3
<1>6. Preparing'
  BY <1>1 DEF Preparing
<1>7. CASE Active(workspace[cursor])
  <2>1. /\ workspace' = [workspace EXCEPT ![cursor].state = "ROLLING_BACK"]
        /\ callback' = TRUE /\ cursor' = cursor
    BY <1>5, <1>7 DEF RollbackRecord
  <2>2. /\ workspace' \in Seq(Records') /\ Matches(workspace)'
        /\ \A i \in 1 .. Count :
             /\ workspace'[i].state = IF i = cursor THEN "ROLLING_BACK"
                                      ELSE workspace[i].state
             /\ workspace'[i].stop = workspace[i].stop
             /\ Active(workspace[i])' <=> Active(workspace[i])
        /\ \A n \in 0 .. Count : ActiveUpTo(workspace, n)' = ActiveUpTo(workspace, n)
    <3>1. "ROLLING_BACK" \in RecordStates
      BY DEF RecordStates
    <3> QED BY <1>2, <1>3, <2>1, <3>1, WorkspaceStep
  <2>3. TypeOK'
    <3>1. cursor' \in 0 .. Count' + 1 /\ context' \in 0 .. Count'
      BY <1>1, <1>2, <1>3, <1>4, <2>1
    <3> QED BY <1>1, <1>4, <2>1, <2>2, <3>1, InputsDecide DEF RuntimeInvariant, TypeOK
  <2>4. RollingBack'
    <3>1. (ActiveUpTo(workspace, cursor))' = ActiveUpTo(workspace, cursor)
      <4>1. cursor \in 0 .. Count
        BY <1>2, <1>3
      <4> QED BY <2>1, <2>2, <4>1
    <3>2. Active(workspace[cursor])'
      BY <1>3, <1>7, <2>1, <2>2
    <3>3. ASSUME NEW i \in 1 .. cursor
          PROVE  workspace'[i].state = IF i = cursor THEN "ROLLING_BACK" ELSE "READY"
      <4>1. i \in 1 .. Count
        BY <1>2, <1>3
      <4> QED BY <1>3, <2>2, <4>1
    <3>4. workspace'[context].state = "PREPARE_FAILED"
      BY <1>3, <2>2
    <3> QED BY <1>1, <1>3, <2>1, <3>1, <3>2, <3>3, <3>4 DEF RollingBack
  <2> QED BY <1>1, <1>6, <2>2, <2>3, <2>4, PrepareFrame
<1>8. CASE ~Active(workspace[cursor])
  <2>1. /\ workspace' = [workspace EXCEPT ![cursor].state = "ROLLED_BACK"]
        /\ callback' = FALSE /\ cursor' = cursor - 1
    BY <1>1, <1>5, <1>8 DEF RollbackRecord, RollbackCursor
  <2>2. /\ workspace' \in Seq(Records') /\ Matches(workspace)'
        /\ \A i \in 1 .. Count :
             /\ workspace'[i].state = IF i = cursor THEN "ROLLED_BACK"
                                      ELSE workspace[i].state
             /\ workspace'[i].stop = workspace[i].stop
             /\ Active(workspace[i])' <=> Active(workspace[i])
        /\ \A n \in 0 .. Count : ActiveUpTo(workspace, n)' = ActiveUpTo(workspace, n)
    <3>1. "ROLLED_BACK" \in RecordStates
      BY DEF RecordStates
    <3> QED BY <1>2, <1>3, <2>1, <3>1, WorkspaceStep
  <2>3. TypeOK'
    <3>1. cursor' \in 0 .. Count' + 1 /\ context' \in 0 .. Count'
      BY <1>1, <1>2, <1>3, <1>4, <2>1
    <3> QED BY <1>1, <1>4, <2>1, <2>2, <3>1, InputsDecide DEF RuntimeInvariant, TypeOK
  <2>4. RollingBack'
    <3>1. (ActiveUpTo(workspace, cursor))' = ActiveUpTo(workspace, cursor)
      <4>1. cursor - 1 \in 0 .. Count
        BY <1>2, <1>3
      <4>2. (ActiveUpTo(workspace, cursor))' = ActiveUpTo(workspace, cursor - 1)
        BY <2>1, <2>2, <4>1
      <4>3. ActiveUpTo(workspace, cursor) = ActiveUpTo(workspace, cursor - 1)
        BY <1>2, <1>3, <1>8, ActiveOfNext
      <4> QED BY <4>2, <4>3
    <3>2. ASSUME NEW i \in 1 .. cursor - 1
          PROVE  workspace'[i].state = "READY"
      <4>1. i \in 1 .. Count /\ i \in 1 .. cursor /\ i # cursor
        BY <1>2, <1>3
      <4> QED BY <1>3, <2>2, <4>1
    <3>3. workspace'[context].state = "PREPARE_FAILED" /\ cursor' < context'
      BY <1>1, <1>3, <2>1, <2>2
    <3> QED BY <1>1, <1>3, <2>1, <3>1, <3>2, <3>3 DEF RollingBack
  <2> QED BY <1>1, <1>6, <2>1, <2>2, <2>3, <2>4, PrepareFrame
<1> QED BY <1>7, <1>8

LEMMA RollbackReturnsKeeps ==
  ASSUME RuntimeInvariant, RollbackReturns
  PROVE  RuntimeInvariant'
<1>1. /\ UNCHANGED <<inputs, records, state, ret>>
      /\ pc' = pc /\ context' = context /\ failure' = failure
      /\ pc = "rollback" /\ callback = TRUE /\ callback' = FALSE
      /\ held' = held \ {Module(workspace[cursor])} /\ cursor' = cursor - 1
      /\ workspace' = [workspace EXCEPT ![cursor].state = "ROLLED_BACK"]
  BY DEF RollbackReturns, RuntimeInvariant, TypeOK, Undone, RollbackCursor
<1>2. /\ Given /\ DescriptorSetFault = "ok" /\ Count \in Nat /\ Matches(workspace)
      /\ workspace \in Seq(Records) /\ UNCHANGED inputs
  BY <1>1, PreparingFacts
<1>3. /\ cursor \in 1 .. Count /\ cursor < context /\ context \in 1 .. Count
      /\ workspace[context].state = "PREPARE_FAILED" /\ Active(workspace[cursor])
      /\ \A i \in 1 .. cursor :
           workspace[i].state = IF i = cursor THEN "ROLLING_BACK" ELSE "READY"
      /\ held = ActiveUpTo(workspace, cursor)
  BY <1>1, <1>2, RollingBackFacts
<1>4. Given' /\ Count' = Count /\ roomy' = roomy /\ ActiveModules' = ActiveModules
  BY <1>2, InputsDecide DEF inputs
<1>5. Preparing'
  BY <1>1 DEF Preparing
<1>6. held' = ActiveUpTo(workspace, cursor - 1)
  BY <1>1, <1>2, <1>3, ActiveOfNext
<1>7. /\ workspace' \in Seq(Records') /\ Matches(workspace)'
      /\ \A i \in 1 .. Count :
           /\ workspace'[i].state = IF i = cursor THEN "ROLLED_BACK" ELSE workspace[i].state
           /\ workspace'[i].stop = workspace[i].stop
           /\ Active(workspace[i])' <=> Active(workspace[i])
      /\ \A n \in 0 .. Count : ActiveUpTo(workspace, n)' = ActiveUpTo(workspace, n)
  <2>1. "ROLLED_BACK" \in RecordStates
    BY DEF RecordStates
  <2> QED BY <1>1, <1>2, <1>3, <2>1, WorkspaceStep
<1>8. cursor - 1 \in 0 .. Count
  BY <1>2, <1>3
<1>9. TypeOK'
  <2>1. cursor' \in 0 .. Count' + 1 /\ context' \in 0 .. Count'
    BY <1>1, <1>2, <1>3, <1>4
  <2>2. held' \subseteq ActiveModules'
    BY <1>2, <1>4, <1>6, <1>8, ActiveAreManaged
  <2> QED BY <1>1, <1>4, <1>7, <2>1, <2>2, InputsDecide DEF RuntimeInvariant, TypeOK
<1>10. RollingBack'
  <2>1. held' = (ActiveUpTo(workspace, cursor))'
    BY <1>1, <1>6, <1>7, <1>8
  <2>2. ASSUME NEW i \in 1 .. cursor - 1
        PROVE  workspace'[i].state = "READY"
    <3>1. i \in 1 .. Count /\ i \in 1 .. cursor /\ i # cursor
      BY <1>2, <1>3
    <3> QED BY <1>3, <1>7, <3>1
  <2>3. workspace'[context].state = "PREPARE_FAILED" /\ cursor' < context'
    BY <1>1, <1>3, <1>7
  <2> QED BY <1>1, <1>3, <2>1, <2>2, <2>3 DEF RollingBack
<1> QED BY <1>1, <1>5, <1>7, <1>9, <1>10, PrepareFrame

LEMMA RollbackDoneKeeps ==
  ASSUME RuntimeInvariant, RollbackDone
  PROVE  RuntimeInvariant'
<1>1. /\ UNCHANGED inputs /\ records' = records /\ state' = state /\ workspace' = workspace
      /\ held' = held /\ pc = "rollback" /\ cursor <= 0
      /\ pc' = "caller" /\ ret' = [call |-> "prepare", status |-> failure]
      /\ cursor' = 0 /\ context' = 0 /\ callback' = FALSE /\ failure' = "ok"
  BY DEF RollbackDone, Return
<1>2. /\ Given /\ Count \in Nat /\ state # "READY" /\ state # "STOPPING"
  BY <1>1, PreparingFacts
<1>3. Given' /\ Count' = Count /\ roomy' = roomy /\ ActiveModules' = ActiveModules
  BY <1>1, <1>2, InputsDecide DEF inputs
<1>4. held = {}
  <2>1. cursor = 0 /\ held = ActiveUpTo(workspace, cursor)
    BY <1>1, <1>2, RollingBackFacts
  <2> QED BY <2>1, ActiveOfNone
<1>5. TypeOK'
  <2>1. cursor' \in 0 .. Count' + 1 /\ context' \in 0 .. Count'
    BY <1>1, <1>2, <1>3
  <2>2. ret' \in [call : {"none", "prepare", "stop"}, status : Statuses \cup {"ebusy"}]
    BY <1>1 DEF RuntimeInvariant, TypeOK
  <2> QED BY <1>1, <1>3, <2>1, <2>2, InputsDecide DEF RuntimeInvariant, TypeOK, Statuses
<1>6. InputsAccepted'
  BY <1>1, AcceptedInputs, InputsDecide DEF InputsAccepted
<1>7. AtRest' /\ Preparing' /\ RollingBack' /\ Stopping' /\ StopReportsFirstFailure'
  BY <1>1, <1>2 DEF AtRest, Preparing, RollingBack, Stopping, StopReportsFirstFailure
<1>8. AllOrNothing'
  BY <1>1, <1>2, <1>4 DEF AllOrNothing
<1>9. (state # "absent" => RuntimeValid)'
  BY <1>1, RuntimeKept DEF RuntimeInvariant
<1> QED BY <1>5, <1>6, <1>7, <1>8, <1>9 DEF RuntimeInvariant

(* The first failure is that of the last record that failed. *)
StopsAgree(rs) == \A i \in DOMAIN rs : rs[i].stop # "ok" <=> rs[i].state = "STOP_FAILED"
FailedIn(rs) == {i \in DOMAIN rs : rs[i].state = "STOP_FAILED"}

LEMMA LastFailure ==
  ASSUME NEW rs \in Seq(Records), FailedIn(rs) # {}
  PROVE  /\ Max(FailedIn(rs)) \in DOMAIN rs /\ rs[Max(FailedIn(rs))].state = "STOP_FAILED"
         /\ \A i \in FailedIn(rs) : i <= Max(FailedIn(rs))
<1>1. Len(rs) \in Nat /\ FailedIn(rs) \subseteq 0 .. Len(rs)
  BY DEF FailedIn
<1>2. Max(FailedIn(rs)) \in FailedIn(rs) /\ \A i \in FailedIn(rs) : i <= Max(FailedIn(rs))
  BY <1>1, MaxIsGreatest
<1> QED BY <1>2, Zenon DEF FailedIn

LEMMA FailureStatus ==
  ASSUME NEW rs \in Seq(Records), StopsAgree(rs)
  PROVE  /\ FirstFailureOf(rs) \in {"ok", "fail", "einval"}
         /\ FirstFailureOf(rs) = "ok" <=> \A i \in DOMAIN rs : rs[i].state # "STOP_FAILED"
<1>1. CASE FailedIn(rs) = {}
  <2>1. FirstFailureOf(rs) = "ok"
    BY <1>1, Zenon DEF FirstFailureOf, FailedIn
  <2> QED BY <1>1, <2>1, Zenon DEF FailedIn
<1>2. CASE FailedIn(rs) # {}
  <2>1. PICK m : m = Max(FailedIn(rs))
    OBVIOUS
  <2>2. m \in DOMAIN rs /\ rs[m].state = "STOP_FAILED"
    BY <1>2, <2>1, LastFailure
  <2>3. FirstFailureOf(rs) = Normalized(rs[m].stop)
    BY <1>2, <2>1, Zenon DEF FirstFailureOf, FailedIn
  <2>4. rs[m] \in Records
    BY <2>2
  <2>5. rs[m].stop \in Raws \ {"ok"}
    BY <2>2, <2>4, RecordTypes DEF StopsAgree
  <2>6. Normalized(rs[m].stop) \in {"fail", "einval"}
    BY <2>5 DEF Normalized, Raws
  <2> QED BY <2>2, <2>3, <2>6
<1> QED BY <1>1, <1>2

LEMMA SameFailure ==
  ASSUME NEW rs, NEW qs, DOMAIN qs = DOMAIN rs,
         \A i \in DOMAIN rs :
           /\ qs[i].state = "STOP_FAILED" <=> rs[i].state = "STOP_FAILED"
           /\ rs[i].state = "STOP_FAILED" => qs[i].stop = rs[i].stop,
         rs \in Seq(Records)
  PROVE  FirstFailureOf(qs) = FirstFailureOf(rs)
<1>1. FailedIn(qs) = FailedIn(rs)
  BY DEF FailedIn
<1>2. CASE FailedIn(rs) = {}
  BY <1>1, <1>2, Zenon DEF FirstFailureOf, FailedIn
<1>3. CASE FailedIn(rs) # {}
  <2>1. PICK m : m = Max(FailedIn(rs))
    OBVIOUS
  <2>2. FirstFailureOf(rs) = Normalized(rs[m].stop)
    BY <1>3, <2>1, Zenon DEF FirstFailureOf, FailedIn
  <2>3. FirstFailureOf(qs) = IF FailedIn(qs) = {} THEN "ok"
                             ELSE Normalized(qs[Max(FailedIn(qs))].stop)
    BY Zenon DEF FirstFailureOf, FailedIn
  <2>4. m \in DOMAIN rs /\ rs[m].state = "STOP_FAILED"
    BY <1>3, <2>1, LastFailure
  <2> QED BY <1>1, <1>3, <2>1, <2>2, <2>3, <2>4
<1> QED BY <1>2, <1>3

LEMMA NewFailure ==
  ASSUME NEW rs \in Seq(Records), StopsAgree(rs), NEW qs, DOMAIN qs = DOMAIN rs,
         NEW k \in DOMAIN rs, qs[k].state = "STOP_FAILED",
         \A i \in DOMAIN rs : rs[i].state = "STOP_FAILED" => i > k,
         \A i \in DOMAIN rs : i # k => qs[i] = rs[i]
  PROVE  FirstFailureOf(qs) = IF FirstFailureOf(rs) = "ok" THEN Normalized(qs[k].stop)
                              ELSE FirstFailureOf(rs)
<1>1. /\ Len(rs) \in Nat /\ FailedIn(rs) \subseteq 0 .. Len(rs)
      /\ k \in Nat /\ k \in 0 .. Len(rs)
  BY DEF FailedIn
<1>2. FailedIn(qs) = FailedIn(rs) \cup {k}
  BY DEF FailedIn
<1>3. FirstFailureOf(qs) = Normalized(qs[Max(FailedIn(qs))].stop)
  BY <1>2, Zenon DEF FirstFailureOf, FailedIn
<1>4. /\ Max(FailedIn(qs)) \in FailedIn(qs)
      /\ \A i \in FailedIn(qs) : i <= Max(FailedIn(qs))
  BY <1>1, <1>2, MaxIsGreatest
<1>5. CASE FailedIn(rs) = {}
  <2>1. FirstFailureOf(rs) = "ok"
    BY <1>5, Zenon DEF FirstFailureOf, FailedIn
  <2>2. Max(FailedIn(qs)) = k
    BY <1>2, <1>4, <1>5
  <2> QED BY <1>3, <2>1, <2>2
<1>6. CASE FailedIn(rs) # {}
  <2>1. PICK m : m = Max(FailedIn(rs))
    OBVIOUS
  <2>2. /\ m \in FailedIn(rs) /\ \A i \in FailedIn(rs) : i <= m
        /\ m \in DOMAIN rs /\ rs[m].state = "STOP_FAILED"
    BY <1>6, <2>1, LastFailure DEF FailedIn
  <2>3. FirstFailureOf(rs) = Normalized(rs[m].stop)
    BY <1>6, <2>1, Zenon DEF FirstFailureOf, FailedIn
  <2>4. FirstFailureOf(rs) # "ok"
    BY <2>2, FailureStatus
  <2>5. m > k
    BY <2>2
  <2>6. Max(FailedIn(qs)) = m
    <3>1. Max(FailedIn(qs)) \in Nat /\ m \in Nat
      BY <1>1, <1>2, <1>4, <2>2
    <3>2. m <= Max(FailedIn(qs))
      BY <1>2, <1>4, <2>2
    <3>3. Max(FailedIn(qs)) <= m
      BY <1>1, <1>2, <1>4, <2>2, <2>5, <3>1
    <3> QED BY <3>1, <3>2, <3>3
  <2>7. qs[m] = rs[m]
    BY <1>1, <2>2, <2>5
  <2> QED BY <1>3, <2>3, <2>4, <2>6, <2>7
<1> QED BY <1>5, <1>6

(* A runtime that is valid can be walked. *)
LEMMA ValidRuntime ==
  ASSUME RuntimeInvariant, state # "absent"
  PROVE  /\ Given /\ DescriptorSetFault = "ok" /\ Count \in Nat
         /\ RegionsDisjoint(RuntimeRegions) /\ RuntimeValid
         /\ records \in Seq(Records) /\ Matches(records) /\ StopsAgree(records)
         /\ \A i : i \in DOMAIN records <=> i \in 1 .. Count
         /\ \A i \in DOMAIN records : RecordAllowed(records[i])
<1>1. Given /\ DescriptorSetFault = "ok" /\ Count \in Nat /\ records \in Seq(Records)
  BY AcceptedInputs, GivenTypes DEF RuntimeInvariant, TypeOK
<1>2. RuntimeValid
  BY DEF RuntimeInvariant
<1>3. /\ RegionsDisjoint(RuntimeRegions) /\ Matches(records)
      /\ \A i \in DOMAIN records : RecordAllowed(records[i])
  BY <1>2, Zenon DEF RuntimeValid
<1>4. StopsAgree(records)
  BY <1>3, Zenon DEF RecordAllowed, StopsAgree
<1>5. \A i : i \in DOMAIN records <=> i \in 1 .. Count
  BY <1>1, <1>3, RecordsAreSorted
<1> QED BY <1>1, <1>2, <1>3, <1>4, <1>5

LEMMA StopKeeps ==
  ASSUME RuntimeInvariant, Stop
  PROVE  RuntimeInvariant'
<1>1. /\ UNCHANGED inputs /\ records' = records /\ workspace' = workspace /\ held' = held
      /\ pc = "caller"
  BY DEF Stop
<1>2. /\ cursor = 0 /\ context = 0 /\ callback = FALSE /\ failure = "ok"
      /\ state # "STOPPING" /\ Given
  BY <1>1 DEF RuntimeInvariant, AtRest, TypeOK
<1>3. /\ Given' /\ Count' = Count /\ roomy' = roomy /\ ActiveModules' = ActiveModules
      /\ Count \in Nat
  BY <1>1, <1>2, InputsDecide, GivenTypes DEF inputs
<1>4. state # "absent" => RuntimeValid
  BY DEF RuntimeInvariant
<1>5. CASE StopRefusal # "ok"
  <2>1. /\ pc' = "caller" /\ ret' = [call |-> "stop", status |-> StopRefusal]
        /\ cursor' = 0 /\ context' = 0 /\ callback' = FALSE /\ failure' = "ok"
        /\ state' = state
    BY <1>5 DEF Stop, Return
  <2>2. StopRefusal \in {"einval", "ealready"} /\ (StopRefusal = "einval" => state = "absent")
    BY <1>2, <1>4, <1>5 DEF StopRefusal
  <2>3. TypeOK'
    <3>1. cursor' \in 0 .. Count' + 1 /\ context' \in 0 .. Count'
      BY <1>3, <2>1
    <3>2. ret' \in [call : {"none", "prepare", "stop"}, status : Statuses \cup {"ebusy"}]
      BY <2>1, <2>2 DEF Statuses
    <3> QED BY <1>1, <1>3, <2>1, <3>1, <3>2, InputsDecide DEF RuntimeInvariant, TypeOK, Statuses
  <2>4. InputsAccepted'
    BY <1>1, <2>1, InputsDecide DEF RuntimeInvariant, InputsAccepted
  <2>5. AtRest'
    BY <1>2, <2>1 DEF AtRest
  <2>6. Preparing' /\ RollingBack' /\ Stopping'
    BY <2>1 DEF Preparing, RollingBack, Stopping
  <2>7. AllOrNothing'
    BY <1>1, <1>3, <2>1 DEF RuntimeInvariant, AllOrNothing
  <2>8. StopReportsFirstFailure'
    <3>1. ret'.status = StopRefusal
      BY <2>1
    <3> QED BY <2>1, <2>2, <3>1 DEF StopReportsFirstFailure
  <2>9. (state # "absent" => RuntimeValid)'
    BY <1>1, <1>4, <2>1, RuntimeKept
  <2> QED BY <2>3, <2>4, <2>5, <2>6, <2>7, <2>8, <2>9 DEF RuntimeInvariant
<1>6. CASE StopRefusal = "ok"
  <2>1. /\ state' = "STOPPING" /\ pc' = "stop" /\ cursor' = Count /\ context' = context
        /\ callback' = callback /\ failure' = failure /\ ret' = ret
    BY <1>6 DEF Stop
  <2>2. state = "READY"
    <3>1. RuntimeValid /\ state \notin {"STOPPING", "STOPPED", "STOP_FAILED"}
      BY <1>6 DEF StopRefusal
    <3>2. state # "absent"
      BY <3>1, Zenon DEF RuntimeValid
    <3> QED BY <3>1, <3>2 DEF RuntimeInvariant, TypeOK, RuntimeStates
  <2>3. /\ DescriptorSetFault = "ok" /\ RegionsDisjoint(RuntimeRegions)
        /\ records \in Seq(Records) /\ Matches(records) /\ StopsAgree(records)
        /\ \A i : i \in DOMAIN records <=> i \in 1 .. Count
        /\ \A i \in DOMAIN records : RecordAllowed(records[i])
    BY <2>2, ValidRuntime
  <2>4. \A i \in DOMAIN records : records[i].state = "READY" /\ records[i].stop = "ok"
    BY <2>2, <2>3 DEF RecordAllowed, StopsAgree
  <2>5. TypeOK'
    <3>1. cursor' \in 0 .. Count' + 1 /\ context' \in 0 .. Count'
      BY <1>2, <1>3, <2>1
    <3> QED BY <1>1, <1>3, <2>1, <3>1, InputsDecide DEF RuntimeInvariant, TypeOK, RuntimeStates
  <2>6. RuntimeValid'
    <3>1. \A i \in DOMAIN records' : RecordAllowed(records[i])'
      BY <1>1, <2>1, <2>4 DEF RecordAllowed
    <3>2. Matches(records)'
      BY <1>1, <2>3, InputsDecide DEF Matches
    <3> QED BY <1>1, <2>1, <2>3, <3>1, <3>2, InputsDecide DEF RuntimeValid
  <2>7. InputsAccepted'
    BY <1>1, <2>2, AcceptedInputs, InputsDecide DEF InputsAccepted
  <2>8. AtRest'
    BY <2>1 DEF AtRest
  <2>9. Stopping'
    <3>1. FirstFailureOf(records) = "ok"
      BY <2>3, <2>4, FailureStatus
    <3>2. failure' = FirstFailureOf(records)'
      BY <1>1, <1>2, <2>1, <3>1 DEF FirstFailureOf, Normalized
    <3>3. held = ActiveModules
      BY <1>1, <2>2 DEF RuntimeInvariant, AllOrNothing
    <3>4. held' = (ActiveUpTo(records, cursor))'
      <4>1. ActiveUpTo(records, Count) = ActiveModules
        BY <1>2, <2>3, ActiveOfAll
      <4>2. PICK rs : rs = records
        OBVIOUS
      <4>3. (ActiveUpTo(records, cursor))' = ActiveUpTo(rs, Count)'
        BY <1>1, <1>3, <2>1, <4>2
      <4>4. ActiveUpTo(rs, Count)' = ActiveUpTo(rs, Count)
        BY <1>1, <1>3, RecordsDecide
      <4> QED BY <1>1, <3>3, <4>1, <4>2, <4>3, <4>4
    <3>5. \A i \in 1 .. Count : ~(i > Count) /\ records[i].state = "READY"
      BY <1>3, <2>3, <2>4
    <3>6. cursor' <= Count'
      BY <1>3, <2>1
    <3> QED BY <1>1, <1>2, <1>3, <2>1, <3>2, <3>4, <3>5, <3>6 DEF Stopping
  <2>10. Preparing' /\ RollingBack' /\ AllOrNothing' /\ StopReportsFirstFailure'
    BY <2>1 DEF Preparing, RollingBack, AllOrNothing, StopReportsFirstFailure
  <2> QED BY <2>5, <2>6, <2>7, <2>8, <2>9, <2>10 DEF RuntimeInvariant
<1> QED BY <1>5, <1>6

(* stop has come down to a record: those above it are over. *)
LEMMA StoppingFacts ==
  ASSUME RuntimeInvariant, pc = "stop"
  PROVE  /\ state = "STOPPING" /\ cursor \in 0 .. Count
         /\ failure = FirstFailureOf(records)
         /\ callback => cursor \in 1 .. Count /\ Active(records[cursor])
         /\ \A i \in 1 .. Count :
              IF i > cursor THEN records[i].state \in {"STOPPED", "STOP_FAILED"}
              ELSE records[i].state = IF i = cursor /\ callback THEN "STOPPING" ELSE "READY"
         /\ held = ActiveUpTo(records, cursor)
<1>1. state = "STOPPING"
  BY DEF RuntimeInvariant, AtRest
<1>2. Count \in Nat /\ cursor \in 0 .. Count + 1 /\ Stopping
  BY <1>1, ValidRuntime DEF RuntimeInvariant, TypeOK
<1>3. cursor <= Count
  BY <1>2 DEF Stopping
<1>4. cursor \in 0 .. Count
  BY <1>2, <1>3
<1>5. callback => cursor \in 1 .. Count
  BY <1>2, <1>4 DEF Stopping
<1> QED BY <1>1, <1>2, <1>4, <1>5, Zenon DEF Stopping

LEMMA StopRecordKeeps ==
  ASSUME RuntimeInvariant, StopRecord
  PROVE  RuntimeInvariant'
<1>1. /\ UNCHANGED <<inputs, workspace, state, ret>>
      /\ UNCHANGED inputs /\ workspace' = workspace /\ state' = state /\ ret' = ret
      /\ pc' = pc /\ context' = context /\ failure' = failure /\ held' = held
      /\ pc = "stop" /\ callback = FALSE /\ cursor > 0
  BY DEF StopRecord, RuntimeInvariant, TypeOK
<1>2. /\ state = "STOPPING" /\ cursor \in 0 .. Count
      /\ failure = FirstFailureOf(records) /\ held = ActiveUpTo(records, cursor)
      /\ \A i \in 1 .. Count : IF i > cursor THEN records[i].state \in {"STOPPED", "STOP_FAILED"}
                               ELSE records[i].state = "READY"
  BY <1>1, StoppingFacts
<1>3. /\ Given /\ DescriptorSetFault = "ok" /\ Count \in Nat
      /\ RegionsDisjoint(RuntimeRegions)
      /\ records \in Seq(Records) /\ Matches(records) /\ StopsAgree(records)
      /\ \A i : i \in DOMAIN records <=> i \in 1 .. Count
      /\ \A i \in DOMAIN records : RecordAllowed(records[i])
  BY <1>2, ValidRuntime
<1>4. Given' /\ Count' = Count /\ roomy' = roomy /\ ActiveModules' = ActiveModules
  BY <1>1, <1>3, InputsDecide DEF inputs
<1>5. cursor \in 1 .. Count /\ cursor - 1 \in 0 .. Count
  BY <1>1, <1>2, <1>3
<1>6. PICK s \in {"STOPPING", "STOPPED"} :
        /\ s = IF Active(records[cursor]) THEN "STOPPING" ELSE "STOPPED"
        /\ records' = [records EXCEPT ![cursor] = Record(records[cursor].descriptor, s, "ok")]
        /\ callback' \in BOOLEAN /\ (callback' <=> Active(records[cursor]))
        /\ cursor' = IF Active(records[cursor]) THEN cursor ELSE cursor - 1
  <2>1. CASE Active(records[cursor])
    BY <1>1, <2>1 DEF StopRecord, StopsAt
  <2>2. CASE ~Active(records[cursor])
    BY <1>1, <2>2 DEF StopRecord, StopsAt
  <2> QED BY <2>1, <2>2
<1>7. /\ records' \in Seq(Records') /\ Matches(records)'
      /\ \A i \in 1 .. Count :
           /\ records'[i].state = IF i = cursor THEN s ELSE records[i].state
           /\ records'[i].stop = IF i = cursor THEN "ok" ELSE records[i].stop
           /\ Active(records[i])' <=> Active(records[i])
      /\ \A n \in 0 .. Count : ActiveUpTo(records, n)' = ActiveUpTo(records, n)
  <2>1. s \in RecordStates /\ "ok" \in Raws
    BY DEF RecordStates, Raws
  <2>2. PICK k \in 1 .. Count, ok \in Raws : k = cursor /\ ok = "ok"
    BY <1>5, <2>1
  <2>3. records' = [records EXCEPT ![k] = Record(records[k].descriptor, s, ok)]
    BY <1>6, <2>2
  <2>4. /\ records' \in Seq(Records') /\ Matches(records)'
        /\ \A i \in 1 .. Count :
             /\ records'[i].state = IF i = k THEN s ELSE records[i].state
             /\ records'[i].stop = IF i = k THEN ok ELSE records[i].stop
             /\ Active(records[i])' <=> Active(records[i])
        /\ \A n \in 0 .. Count : ActiveUpTo(records, n)' = ActiveUpTo(records, n)
    BY <1>1, <1>3, <2>1, <2>3, RecordsStep
  <2> QED BY <2>2, <2>4
<1>8. \A i : i \in DOMAIN records' <=> i \in 1 .. Count
  BY <1>3, <1>6
<1>9. TypeOK'
  <2>1. cursor' \in 0 .. Count' + 1 /\ context' \in 0 .. Count'
    <3>1. cursor' \in 0 .. Count
      BY <1>2, <1>5, <1>6
    <3>2. context \in 0 .. Count
      BY DEF RuntimeInvariant, TypeOK
    <3> QED BY <1>1, <1>3, <1>4, <3>1, <3>2
  <2>2. callback' \in BOOLEAN
    BY <1>6
  <2>3. workspace' \in Seq(Records') /\ held' \subseteq ActiveModules'
    BY <1>1, <1>4, InputsDecide DEF RuntimeInvariant, TypeOK
  <2> QED BY <1>1, <1>4, <1>7, <2>1, <2>2, <2>3 DEF RuntimeInvariant, TypeOK
<1>10. RuntimeValid'
  <2>1. ASSUME NEW i \in DOMAIN records'
        PROVE  RecordAllowed(records[i])'
    <3>1. i \in 1 .. Count /\ i \in DOMAIN records
      BY <1>3, <1>8
    <3>2. records[i].state \in {"READY", "STOPPING", "STOPPED", "STOP_FAILED"}
          /\ (records[i].stop # "ok" <=> records[i].state = "STOP_FAILED")
      BY <1>2, <1>3, <3>1 DEF RecordAllowed
    <3>3. records'[i].state \in {"READY", "STOPPING", "STOPPED", "STOP_FAILED"}
          /\ (records'[i].stop # "ok" <=> records'[i].state = "STOP_FAILED")
      BY <1>7, <3>1, <3>2
    <3> QED BY <1>1, <1>2, <3>3 DEF RecordAllowed
  <2> QED BY <1>1, <1>2, <1>3, <1>7, <2>1, InputsDecide DEF RuntimeValid
<1>11. FirstFailureOf(records)' = FirstFailureOf(records)
  <2>1. PICK qs : qs = records'
    OBVIOUS
  <2>2. DOMAIN qs = DOMAIN records
    BY <1>6, <2>1
  <2>3. ASSUME NEW i \in DOMAIN records
        PROVE  /\ qs[i].state = "STOP_FAILED" <=> records[i].state = "STOP_FAILED"
               /\ records[i].state = "STOP_FAILED" => qs[i].stop = records[i].stop
    <3>1. i \in 1 .. Count
      BY <1>3
    <3>2. i = cursor => records[i].state = "READY"
      BY <1>2, <1>5
    <3> QED BY <1>7, <2>1, <3>1, <3>2
  <2>4. FirstFailureOf(qs) = FirstFailureOf(records)
    BY <1>3, <2>2, <2>3, SameFailure
  <2> QED BY <2>1, <2>4 DEF FirstFailureOf, Normalized
<1>12. Stopping'
  <2>1. held' = (ActiveUpTo(records, cursor))'
    <3>1. CASE Active(records[cursor])
      BY <1>1, <1>2, <1>6, <1>7, <3>1
    <3>2. CASE ~Active(records[cursor])
      <4>1. ActiveUpTo(records, cursor) = ActiveUpTo(records, cursor - 1)
        BY <1>3, <1>5, <3>2, ActiveOfNext
      <4> QED BY <1>1, <1>2, <1>5, <1>6, <1>7, <3>2, <4>1
    <3> QED BY <3>1, <3>2
  <2>2. ASSUME NEW i \in 1 .. Count
        PROVE  IF i > cursor' THEN records'[i].state \in {"STOPPED", "STOP_FAILED"}
               ELSE records'[i].state = IF i = cursor' /\ callback' THEN "STOPPING" ELSE "READY"
    <3>1. CASE Active(records[cursor])
      BY <1>2, <1>3, <1>5, <1>6, <1>7, <3>1
    <3>2. CASE ~Active(records[cursor])
      BY <1>2, <1>3, <1>5, <1>6, <1>7, <3>2
    <3> QED BY <3>1, <3>2
  <2>3. callback' => cursor' >= 1 /\ Active(records[cursor])'
    <3>1. CASE Active(records[cursor])
      BY <1>5, <1>6, <1>7, <3>1
    <3>2. CASE ~Active(records[cursor])
      BY <1>6, <3>2
    <3> QED BY <3>1, <3>2
  <2>4. cursor' <= Count'
    BY <1>3, <1>4, <1>5, <1>6
  <2> QED BY <1>1, <1>2, <1>4, <1>11, <2>1, <2>2, <2>3, <2>4 DEF Stopping
<1> QED BY <1>1, <1>9, <1>10, <1>12, StopFrame

LEMMA StopReturnsKeeps ==
  ASSUME RuntimeInvariant, NEW raw \in Raws, StopReturns(raw)
  PROVE  RuntimeInvariant'
<1>1. /\ UNCHANGED <<inputs, workspace, state, ret>>
      /\ UNCHANGED inputs /\ workspace' = workspace /\ state' = state /\ ret' = ret
      /\ pc' = pc /\ context' = context /\ pc = "stop" /\ callback = TRUE /\ callback' = FALSE
      /\ failure' = FirstFailure(raw) /\ cursor' = cursor - 1
      /\ held' = held \ {Module(records[cursor])}
      /\ records' = [records EXCEPT ![cursor] = StoppedRecord(records[cursor].descriptor, raw)]
  BY DEF StopReturns, RuntimeInvariant, TypeOK, StopsAt, Undone, NextAfterStop
<1>2. /\ state = "STOPPING" /\ cursor \in 1 .. Count /\ Active(records[cursor])
      /\ failure = FirstFailureOf(records) /\ held = ActiveUpTo(records, cursor)
      /\ \A i \in 1 .. Count : IF i > cursor THEN records[i].state \in {"STOPPED", "STOP_FAILED"}
                               ELSE records[i].state = IF i = cursor THEN "STOPPING" ELSE "READY"
  BY <1>1, StoppingFacts
<1>3. /\ Given /\ DescriptorSetFault = "ok" /\ Count \in Nat
      /\ RegionsDisjoint(RuntimeRegions)
      /\ records \in Seq(Records) /\ Matches(records) /\ StopsAgree(records)
      /\ \A i : i \in DOMAIN records <=> i \in 1 .. Count
      /\ \A i \in DOMAIN records : RecordAllowed(records[i])
  BY <1>2, ValidRuntime
<1>4. Given' /\ Count' = Count /\ roomy' = roomy /\ ActiveModules' = ActiveModules
  BY <1>1, <1>3, InputsDecide DEF inputs
<1>5. cursor - 1 \in 0 .. Count
  BY <1>2, <1>3
<1>6. PICK s \in {"STOPPED", "STOP_FAILED"}, kept \in Raws :
        /\ StoppedRecord(records[cursor].descriptor, raw)
             = Record(records[cursor].descriptor, s, kept)
        /\ s = "STOP_FAILED" <=> Normalized(raw) # "ok"
        /\ kept = IF Normalized(raw) = "ok" THEN "ok" ELSE raw
  <2>1. "ok" \in Raws
    BY DEF Raws
  <2>2. CASE Normalized(raw) = "ok"
    BY <2>1, <2>2 DEF StoppedRecord
  <2>3. CASE Normalized(raw) # "ok"
    BY <2>3 DEF StoppedRecord
  <2> QED BY <2>2, <2>3
<1>7. kept # "ok" <=> s = "STOP_FAILED"
  BY <1>6 DEF Normalized
<1>8. /\ records' \in Seq(Records') /\ Matches(records)'
      /\ \A i \in 1 .. Count :
           /\ records'[i].state = IF i = cursor THEN s ELSE records[i].state
           /\ records'[i].stop = IF i = cursor THEN kept ELSE records[i].stop
           /\ Active(records[i])' <=> Active(records[i])
      /\ \A n \in 0 .. Count : ActiveUpTo(records, n)' = ActiveUpTo(records, n)
  <2>1. s \in RecordStates
    BY DEF RecordStates
  <2>2. PICK k \in 1 .. Count : k = cursor
    BY <1>2
  <2>3. records' = [records EXCEPT ![k] = Record(records[k].descriptor, s, kept)]
    BY <1>1, <1>6, <2>2
  <2>4. /\ records' \in Seq(Records') /\ Matches(records)'
        /\ \A i \in 1 .. Count :
             /\ records'[i].state = IF i = k THEN s ELSE records[i].state
             /\ records'[i].stop = IF i = k THEN kept ELSE records[i].stop
             /\ Active(records[i])' <=> Active(records[i])
        /\ \A n \in 0 .. Count : ActiveUpTo(records, n)' = ActiveUpTo(records, n)
    BY <1>1, <1>3, <2>1, <2>3, RecordsStep
  <2> QED BY <2>2, <2>4
<1>9. \A i : i \in DOMAIN records' <=> i \in 1 .. Count
  BY <1>1, <1>3
<1>10. held' = ActiveUpTo(records, cursor - 1)
  BY <1>1, <1>2, <1>3, ActiveOfNext
<1>11. TypeOK'
  <2>1. cursor' \in 0 .. Count' + 1 /\ context' \in 0 .. Count'
    <3>1. context \in 0 .. Count
      BY DEF RuntimeInvariant, TypeOK
    <3> QED BY <1>1, <1>3, <1>4, <1>5, <3>1
  <2>2. workspace' \in Seq(Records')
    BY <1>1, <1>4, InputsDecide DEF RuntimeInvariant, TypeOK
  <2>3. held' \subseteq ActiveModules'
    BY <1>3, <1>4, <1>5, <1>10, ActiveAreManaged
  <2>4. failure' \in Statuses
    <3>1. Normalized(raw) \in Statuses
      BY DEF Normalized, Statuses, Raws
    <3> QED BY <1>1, <3>1 DEF FirstFailure, RuntimeInvariant, TypeOK
  <2> QED BY <1>1, <1>4, <1>8, <2>1, <2>2, <2>3, <2>4 DEF RuntimeInvariant, TypeOK
<1>12. RuntimeValid'
  <2>1. ASSUME NEW i \in DOMAIN records'
        PROVE  RecordAllowed(records[i])'
    <3>1. i \in 1 .. Count /\ i \in DOMAIN records
      BY <1>3, <1>9
    <3>2. records[i].state \in {"READY", "STOPPING", "STOPPED", "STOP_FAILED"}
          /\ (records[i].stop # "ok" <=> records[i].state = "STOP_FAILED")
      BY <1>2, <1>3, <3>1 DEF RecordAllowed
    <3>3. records'[i].state \in {"READY", "STOPPING", "STOPPED", "STOP_FAILED"}
          /\ (records'[i].stop # "ok" <=> records'[i].state = "STOP_FAILED")
      BY <1>7, <1>8, <3>1, <3>2
    <3> QED BY <1>1, <1>2, <3>3 DEF RecordAllowed
  <2> QED BY <1>1, <1>2, <1>3, <1>8, <2>1, InputsDecide DEF RuntimeValid
<1>13. failure' = FirstFailureOf(records)'
  <2>1. PICK qs : qs = records'
    OBVIOUS
  <2>2. DOMAIN qs = DOMAIN records /\ cursor \in DOMAIN records
    BY <1>1, <1>2, <1>3, <2>1
  <2>3. FirstFailureOf(qs) = FirstFailureOf(records)'
    BY <2>1 DEF FirstFailureOf, Normalized
  <2>4. CASE Normalized(raw) = "ok"
    <3>1. ASSUME NEW i \in DOMAIN records
          PROVE  /\ qs[i].state = "STOP_FAILED" <=> records[i].state = "STOP_FAILED"
                 /\ records[i].state = "STOP_FAILED" => qs[i].stop = records[i].stop
      <4>1. i \in 1 .. Count
        BY <1>3
      <4>2. i = cursor => records[i].state = "STOPPING" /\ s = "STOPPED"
        BY <1>2, <1>6, <2>4
      <4> QED BY <1>8, <2>1, <4>1, <4>2
    <3>2. FirstFailureOf(qs) = FirstFailureOf(records)
      BY <1>3, <2>2, <3>1, SameFailure
    <3> QED BY <1>1, <1>2, <2>3, <2>4, <3>2 DEF FirstFailure
  <2>5. CASE Normalized(raw) # "ok"
    <3>1. qs[cursor].state = "STOP_FAILED" /\ qs[cursor].stop = raw
      BY <1>2, <1>6, <1>8, <2>1, <2>5
    <3>2. ASSUME NEW i \in DOMAIN records, records[i].state = "STOP_FAILED"
          PROVE  i > cursor
      BY <1>2, <1>3, <3>2
    <3>3. ASSUME NEW i \in DOMAIN records, i # cursor
          PROVE  qs[i] = records[i]
      BY <1>1, <2>1, <3>3
    <3>4. FirstFailureOf(qs) = IF FirstFailureOf(records) = "ok"
                               THEN Normalized(qs[cursor].stop) ELSE FirstFailureOf(records)
      BY <1>3, <2>2, <3>1, <3>2, <3>3, NewFailure
    <3> QED BY <1>1, <1>2, <2>3, <3>1, <3>4 DEF FirstFailure
  <2> QED BY <2>4, <2>5
<1>14. Stopping'
  <2>1. held' = (ActiveUpTo(records, cursor))'
    BY <1>1, <1>5, <1>8, <1>10
  <2>2. ASSUME NEW i \in 1 .. Count
        PROVE  IF i > cursor' THEN records'[i].state \in {"STOPPED", "STOP_FAILED"}
               ELSE records'[i].state = "READY"
    BY <1>1, <1>2, <1>3, <1>8
  <2>3. cursor' <= Count'
    BY <1>1, <1>3, <1>4, <1>5
  <2> QED BY <1>1, <1>4, <1>13, <2>1, <2>2, <2>3 DEF Stopping
<1> QED BY <1>1, <1>11, <1>12, <1>14, StopFrame

LEMMA StopDoneKeeps ==
  ASSUME RuntimeInvariant, StopDone
  PROVE  RuntimeInvariant'
<1>1. /\ UNCHANGED inputs /\ workspace' = workspace /\ records' = records /\ held' = held
      /\ state' = IF failure = "ok" THEN "STOPPED" ELSE "STOP_FAILED"
      /\ pc = "stop" /\ cursor = 0
      /\ pc' = "caller" /\ ret' = [call |-> "stop", status |-> failure]
      /\ cursor' = 0 /\ context' = 0 /\ callback' = FALSE /\ failure' = "ok"
  BY DEF StopDone, Return
<1>2. /\ state = "STOPPING" /\ failure = FirstFailureOf(records) /\ held = {}
      /\ \A i \in 1 .. Count : i > 0 /\ records[i].state \in {"STOPPED", "STOP_FAILED"}
  <2>1. \A i \in 1 .. Count : i > 0
    BY <1>1, ValidRuntime DEF RuntimeInvariant, AtRest
  <2> QED BY <1>1, <2>1, StoppingFacts, ActiveOfNone
<1>3. /\ Given /\ DescriptorSetFault = "ok" /\ Count \in Nat
      /\ RegionsDisjoint(RuntimeRegions)
      /\ records \in Seq(Records) /\ Matches(records) /\ StopsAgree(records)
      /\ \A i : i \in DOMAIN records <=> i \in 1 .. Count
  BY <1>2, ValidRuntime
<1>4. Given' /\ Count' = Count /\ roomy' = roomy /\ ActiveModules' = ActiveModules
  BY <1>1, <1>3, InputsDecide DEF inputs
<1>5. /\ FirstFailureOf(records) \in {"ok", "fail", "einval"}
      /\ FirstFailureOf(records) = "ok" <=>
           \A i \in DOMAIN records : records[i].state # "STOP_FAILED"
  BY <1>3, FailureStatus
<1>6. TypeOK'
  <2>1. cursor' \in 0 .. Count' + 1 /\ context' \in 0 .. Count'
    BY <1>1, <1>3, <1>4
  <2>2. ret' \in [call : {"none", "prepare", "stop"}, status : Statuses \cup {"ebusy"}]
    BY <1>1, <1>2, <1>5 DEF Statuses
  <2> QED BY <1>1, <1>4, <2>1, <2>2, InputsDecide
          DEF RuntimeInvariant, TypeOK, Statuses, RuntimeStates
<1>7. InputsAccepted'
  BY <1>1, <1>2, AcceptedInputs, InputsDecide DEF InputsAccepted
<1>8. AtRest' /\ Preparing' /\ RollingBack' /\ Stopping'
  BY <1>1 DEF AtRest, Preparing, RollingBack, Stopping
<1>9. AllOrNothing'
  BY <1>1, <1>2 DEF AllOrNothing
<1>10. FirstFailureOf(records)' = FirstFailureOf(records)
  BY <1>1 DEF FirstFailureOf, Normalized
<1>11. StopReportsFirstFailure'
  BY <1>1, <1>2, <1>10 DEF StopReportsFirstFailure
<1>12. RuntimeValid'
  <2>1. Matches(records)'
    BY <1>1, <1>3, InputsDecide DEF Matches
  <2>2. ASSUME NEW i \in DOMAIN records
        PROVE  RecordAllowed(records[i])'
    <3>1. /\ records[i].state \in {"STOPPED", "STOP_FAILED"}
          /\ records[i].stop # "ok" <=> records[i].state = "STOP_FAILED"
          /\ failure = "ok" => records[i].state = "STOPPED"
      BY <1>2, <1>3, <1>5 DEF StopsAgree
    <3> QED BY <1>1, <3>1 DEF RecordAllowed
  <2>3. state' \in {"STOPPED", "STOP_FAILED"}
        /\ (state' = "STOP_FAILED" <=> \E i \in DOMAIN records : records[i].state = "STOP_FAILED")
    BY <1>1, <1>2, <1>5
  <2> QED BY <1>1, <1>3, <2>1, <2>2, <2>3, InputsDecide DEF RuntimeValid
<1> QED BY <1>6, <1>7, <1>8, <1>9, <1>11, <1>12 DEF RuntimeInvariant

LEMMA StutterKeeps ==
  ASSUME RuntimeInvariant, UNCHANGED vars
  PROVE  RuntimeInvariant'
<1>1. /\ UNCHANGED inputs /\ workspace' = workspace /\ records' = records /\ state' = state
      /\ pc' = pc /\ cursor' = cursor /\ context' = context /\ callback' = callback
      /\ failure' = failure /\ ret' = ret /\ held' = held
  BY DEF vars, loop
<1>2. /\ Given' = Given /\ Count' = Count /\ roomy' = roomy /\ Records' = Records
      /\ ActiveModules' = ActiveModules /\ InputFault' = InputFault
  BY <1>1, InputsDecide DEF inputs
<1>3. TypeOK'
  BY <1>1, <1>2 DEF RuntimeInvariant, TypeOK
<1>4. InputsAccepted' /\ AllOrNothing'
  BY <1>1, <1>2 DEF RuntimeInvariant, InputsAccepted, AllOrNothing
<1>5. Matches(workspace)' <=> Matches(workspace)
  BY <1>1, <1>2, InputsDecide DEF Matches
<1>6. AtRest'
  BY <1>1, <1>5 DEF RuntimeInvariant, AtRest
<1>7. /\ \A i : (Active(workspace[i])' <=> Active(workspace[i]))
                /\ (Active(records[i])' <=> Active(records[i]))
      /\ \A n : /\ ActiveUpTo(workspace, n)' = ActiveUpTo(workspace, n)
                /\ ActiveUpTo(records, n)' = ActiveUpTo(records, n)
  <2>1. descriptors' = descriptors
    BY <1>1 DEF inputs
  <2> QED BY <1>1, <2>1 DEF Active, Module, ActiveUpTo
<1>8. FirstFailureOf(records)' = FirstFailureOf(records)
  BY <1>1 DEF FirstFailureOf, Normalized
<1>9. Preparing' /\ RollingBack'
  BY <1>1, <1>2, <1>7 DEF RuntimeInvariant, Preparing, RollingBack
<1>10. Stopping' /\ StopReportsFirstFailure'
  BY <1>1, <1>2, <1>7, <1>8 DEF RuntimeInvariant, Stopping, StopReportsFirstFailure
<1>11. (state # "absent" => RuntimeValid)'
  BY <1>1, RuntimeKept DEF RuntimeInvariant
<1> QED BY <1>3, <1>4, <1>6, <1>9, <1>10, <1>11 DEF RuntimeInvariant

(* Every state keeps the inductive invariant: the inputs stay accepted, the  *)
(* records are as far as the loop in progress has come, and what the modules *)
(* hold is what the records up to the cursor stand for.                      *)
THEOREM InvariantHolds == Spec => []RuntimeInvariant
<1>1. ASSUME RuntimeInvariant, [Next]_vars
      PROVE  RuntimeInvariant'
  <2>1. CASE Next
    BY <1>1, <2>1, PrepareKeeps, PrepareRecordKeeps, PrepareReturnsKeeps, PublishKeeps,
       RollbackRecordKeeps, RollbackReturnsKeeps, RollbackDoneKeeps,
       StopKeeps, StopRecordKeeps, StopReturnsKeeps, StopDoneKeeps DEF Next
  <2>2. CASE UNCHANGED vars
    BY <1>1, <2>2, StutterKeeps
  <2> QED BY <1>1, <2>1, <2>2
<1> QED BY <1>1, InitEstablishes, PTL DEF Spec
-----------------------------------------------------------------------------
(***************************************************************************)
(* What the application relies on                                          *)
(***************************************************************************)
LEMMA WrittenIsApart ==
  ASSUME RuntimeInvariant
  PROVE  \A w \in Written, r \in Mutable \cup Immutable : ~Overlap(w, r)
<1>1. SUFFICES ASSUME NEW w \in Written, NEW r \in Mutable \cup Immutable
               PROVE  ~Overlap(w, r)
  OBVIOUS
<1>2. w \in Mutable /\ (workspace # <<>> \/ state # "absent")
  BY DEF Written, Mutable
<1>3. RegionsDisjoint(Mutable)
  BY <1>2, AcceptedInputs
<1> QED BY <1>2, <1>3, Zenon DEF RegionsDisjoint, ClearOfInputs

(* What find_ready hands out is declared, and its module is prepared. *)
LEMMA FoundIsReady ==
  ASSUME RuntimeInvariant, NEW c \in DOMAIN catalog.provider, FindReadyStatus(c) = "ok"
  PROVE  /\ \E d \in DOMAIN descriptors : c \in descriptors[d].declares
         /\ catalog.provider[c] \in ActiveModules => catalog.provider[c] \in held
<1> DEFINE m == catalog.provider[c]
<1>1. RuntimeValid
  BY Zenon DEF FindReadyStatus
<1>2. state = "READY"
  BY <1>1, Zenon DEF FindReadyStatus
<1>3. m \in Managed
  BY <1>1, <1>2, Zenon DEF FindReadyStatus
<1>4. ~\E i \in RecordOf(records, m) : records[i].state # "READY"
  BY <1>1, <1>2, <1>3, Zenon DEF FindReadyStatus
<1>5. \A d \in DOMAIN descriptors :
        descriptors[d].module = m => DeclaresExport(descriptors[d], c)
  BY <1>1, <1>2, <1>3, <1>4, Zenon DEF FindReadyStatus
<1>6. \E d \in DOMAIN descriptors : c \in descriptors[d].declares
  BY <1>3, <1>5, Zenon DEF Managed, DeclaresExport
<1>7. pc = "caller"
  BY <1>2 DEF RuntimeInvariant, TypeOK, AtRest
<1>8. held = ActiveModules
  BY <1>2, <1>7 DEF RuntimeInvariant, AllOrNothing
<1> QED BY <1>6, <1>8

(* Whenever the application can look, from the middle of a stop too, the       *)
(* runtime it sees is valid, a module that find_ready hands out is prepared,   *)
(* a finished stop has reported its first failure, nothing failed is left      *)
(* behind, and no region is written over another.                              *)
THEOREM RuntimeTheorem == Spec => []RuntimeStaysValid
<1>1. ASSUME RuntimeInvariant
      PROVE  RuntimeStaysValid
  <2>1. AllOrNothing /\ StopReportsFirstFailure /\ (state # "absent" => RuntimeValid)
    BY <1>1 DEF RuntimeInvariant
  <2>2. ASSUME pc = "stop"
        PROVE  StopRefusal = "ebusy"
    <3>1. state = "STOPPING" /\ RuntimeValid
      BY <1>1, <2>1, <2>2 DEF RuntimeInvariant, AtRest
    <3> QED BY <3>1 DEF StopRefusal
  <2> QED BY <1>1, <2>1, <2>2, WrittenIsApart, FoundIsReady DEF RuntimeStaysValid
<1> QED BY <1>1, InvariantHolds, PTL

(* While a module is being prepared, whatever it requires of a managed module *)
(* is ready: that module comes before it in the records.                      *)
LEMMA ProvidersAreReady ==
  ASSUME RuntimeInvariant, pc = "prepare", callback, NEW p \in Needs(Module(workspace[cursor]))
  PROVE  ManagedBindingStatus(p) = "ok"
<1>1. /\ Given /\ DescriptorSetFault = "ok" /\ Count \in Nat
      /\ workspace \in Seq(Records) /\ Matches(workspace)
  BY PreparingFacts
<1>2. /\ cursor \in 1 .. Count
      /\ \A i \in 1 .. Count : i < cursor => workspace[i].state = "READY"
  BY <1>1 DEF RuntimeInvariant, TypeOK, Preparing
<1>3. SUFFICES ASSUME NEW i \in RecordOf(workspace, p) PROVE workspace[i].state = "READY"
  BY Zenon DEF ManagedBindingStatus
<1>4. i \in 1 .. Count /\ Module(workspace[i]) = p
  BY <1>1, RecordsAreSorted DEF RecordOf
<1>5. InCatalog(Module(workspace[cursor]))
  BY <1>1, <1>2, RecordsAreSorted
<1>6. Position(p) < Position(Module(workspace[cursor]))
  BY <1>1, <1>5, ProvidersFirst
<1>7. i < cursor
  BY <1>1, <1>2, <1>4, <1>6, RecordsAreSorted
<1> QED BY <1>2, <1>4, <1>7

(* A module being prepared can resolve each of its requirements, and one    *)
(* being rolled back resolves nothing through the context that has failed.  *)
THEOREM ResolveTheorem == Spec => []ResolveDuringPrepare
<1>1. ASSUME RuntimeInvariant
      PROVE  ResolveDuringPrepare
  <2>1. SUFFICES ASSUME callback, pc \in {"prepare", "rollback"},
                        NEW r \in DOMAIN catalog.requires[Module(workspace[context])]
                 PROVE  ResolveStatus(r) = IF pc = "prepare" THEN "ok" ELSE "einval"
    BY DEF ResolveDuringPrepare
  <2>2. CASE pc = "prepare"
    <3>1. context = cursor /\ cursor \in 1 .. Count /\ workspace[cursor].state = "PREPARING"
      <4>1. Count \in Nat
        BY <1>1, <2>1, PreparingFacts
      <4> QED BY <1>1, <2>1, <2>2, <4>1 DEF RuntimeInvariant, TypeOK, Preparing
    <3>2. catalog.provider[catalog.requires[Module(workspace[context])][r]]
            \in Needs(Module(workspace[cursor]))
      BY <2>1, <3>1, Zenon DEF Needs
    <3>3. ManagedBindingStatus(
            catalog.provider[catalog.requires[Module(workspace[context])][r]]) = "ok"
      BY <1>1, <2>1, <2>2, <3>2, ProvidersAreReady
    <3> QED BY <2>2, <3>1, <3>3 DEF ResolveStatus
  <2>3. CASE pc = "rollback"
    BY <1>1, <2>3, RollingBackFacts DEF ResolveStatus
  <2> QED BY <2>1, <2>2, <2>3
<1> QED BY <1>1, InvariantHolds, PTL
-----------------------------------------------------------------------------
(***************************************************************************)
(* The order of dependency                                                 *)
(***************************************************************************)
LEMMA ActiveRecord ==
  ASSUME Given, DescriptorSetFault = "ok", NEW rs \in Seq(Records), Matches(rs),
         NEW n \in 1 .. Count, Active(rs[n])
  PROVE  /\ Module(rs[n]) \in DOMAIN ActiveNeeds
         /\ ActiveNeeds[Module(rs[n])] = Needs(Module(rs[n])) \cap ActiveModules
         /\ Module(rs[n]) \in ActiveUpTo(rs, n)
<1>1. rs[n].descriptor \in DOMAIN descriptors /\ InCatalog(Module(rs[n]))
  BY RecordsAreSorted, RecordTypes, Zenon
<1>2. Module(rs[n]) \in ActiveModules
  BY <1>1, Zenon DEF ActiveModules, Active, Module
<1>3. n \in 1 .. n
  BY GivenTypes
<1>4. Module(rs[n]) \in ActiveUpTo(rs, n)
  BY <1>3, Zenon DEF ActiveUpTo
<1> QED BY <1>1, <1>2, <1>4 DEF ActiveNeeds

(* What a record's module needs comes from the records before it. *)
LEMMA NeededComeBefore ==
  ASSUME Given, DescriptorSetFault = "ok", NEW rs \in Seq(Records), Matches(rs),
         NEW n \in 1 .. Count
  PROVE  Needs(Module(rs[n])) \cap ActiveModules \subseteq ActiveUpTo(rs, n - 1)
<1>1. SUFFICES ASSUME NEW p \in Needs(Module(rs[n])), p \in ActiveModules
               PROVE  p \in ActiveUpTo(rs, n - 1)
  OBVIOUS
<1>2. PICK i \in 1 .. Count : Active(rs[i]) /\ p = Module(rs[i])
  <2>1. p \in ActiveUpTo(rs, Count)
    BY <1>1, ActiveOfAll
  <2> QED BY <2>1, Zenon DEF ActiveUpTo
<1>3. Position(p) < Position(Module(rs[n]))
  BY RecordsAreSorted, ProvidersFirst
<1>4. i < n
  BY <1>2, <1>3, RecordsAreSorted
<1>5. i \in 1 .. n - 1
  BY <1>4, GivenTypes
<1> QED BY <1>2, <1>5, Zenon DEF ActiveUpTo

(* Nothing up to a record needs its module. *)
LEMMA NoneNeedsTheLast ==
  ASSUME Given, DescriptorSetFault = "ok", NEW rs \in Seq(Records), Matches(rs),
         NEW n \in 1 .. Count, NEW m \in ActiveUpTo(rs, n)
  PROVE  m \in DOMAIN ActiveNeeds /\ Module(rs[n]) \notin ActiveNeeds[m]
<1>1. PICK i \in 1 .. n : Active(rs[i]) /\ m = Module(rs[i])
  BY Zenon DEF ActiveUpTo
<1>2. Count \in Nat /\ i \in 1 .. Count /\ ~(n < i)
  BY GivenTypes
<1>3. m \in DOMAIN ActiveNeeds /\ ActiveNeeds[m] \subseteq Needs(m) /\ InCatalog(m)
  BY <1>1, <1>2, ActiveRecord, RecordsAreSorted
<1>4. ASSUME Module(rs[n]) \in Needs(m)
      PROVE  FALSE
  <2>1. Position(Module(rs[n])) < Position(m)
    BY <1>3, <1>4, ProvidersFirst
  <2> QED BY <1>1, <1>2, <2>1, RecordsAreSorted
<1> QED BY <1>3, <1>4

LEMMA NeedsFixed ==
  ASSUME UNCHANGED inputs
  PROVE  ActiveNeeds' = ActiveNeeds
<1>1. catalog' = catalog /\ ActiveModules' = ActiveModules
  BY InputsDecide DEF inputs
<1>2. \A m : (InCatalog(m)' <=> InCatalog(m)) /\ Needs(m)' = Needs(m)
  BY <1>1 DEF InCatalog, Needs
<1> QED BY <1>1, <1>2 DEF ActiveNeeds

(* A step that undoes the module of the record at the cursor releases it. *)
LEMMA ReleaseStep ==
  ASSUME Given, DescriptorSetFault = "ok", NEW rs \in Seq(Records), Matches(rs),
         NEW n \in 1 .. Count, Active(rs[n]), UNCHANGED inputs,
         held = ActiveUpTo(rs, n), held' = held \ {Module(rs[n])}
  PROVE  [Resources!Next]_Resources!vars
<1>1. Resources!Release(Module(rs[n])) /\ Module(rs[n]) \in DOMAIN ActiveNeeds
  BY ActiveRecord, NoneNeedsTheLast, NeedsFixed DEF Resources!Release
<1> QED BY <1>1 DEF Resources!Next

(* A module is set up only while all it needs is, and nothing is torn down    *)
(* while something still needs it, whatever fails on the way.                 *)
THEOREM ResourcesImplemented == Spec => ImplementsOrderedResources
<1>1. Init => Resources!Init
  BY DEF Init, Resources!Init
<1>2. ASSUME RuntimeInvariant, [Next]_vars
      PROVE  [Resources!Next]_Resources!vars
  <2>1. UNCHANGED inputs
    BY <1>2 DEF Next, vars, Prepare, PrepareRecord, PrepareReturns, Publish, RollbackRecord,
                RollbackReturns, RollbackDone, Stop, StopRecord, StopReturns, StopDone
  <2>2. ActiveNeeds' = ActiveNeeds
    BY <2>1, NeedsFixed
  <2>3. CASE held' = held
    BY <2>2, <2>3 DEF Resources!vars
  <2>4. ASSUME NEW raw \in Raws, PrepareReturns(raw), held' # held
        PROVE  [Resources!Next]_Resources!vars
    <3>1. pc = "prepare" /\ callback /\ held' = held \cup {Module(workspace[cursor])}
      BY <2>4 DEF PrepareReturns
    <3>2. /\ Given /\ DescriptorSetFault = "ok" /\ Count \in Nat
          /\ workspace \in Seq(Records) /\ Matches(workspace)
      BY <1>2, <3>1, PreparingFacts
    <3>3. /\ cursor \in 1 .. Count /\ Active(workspace[cursor])
          /\ held = ActiveUpTo(workspace, cursor - 1)
      BY <1>2, <3>1, <3>2 DEF RuntimeInvariant, TypeOK, Preparing
    <3>4. PICK n \in 1 .. Count : n = cursor
      BY <3>3
    <3>5. /\ Module(workspace[n]) \in DOMAIN ActiveNeeds
          /\ ActiveNeeds[Module(workspace[n])] \subseteq held
          /\ Module(workspace[n]) \notin held
      <4>1. Active(workspace[n]) /\ held = ActiveUpTo(workspace, n - 1)
        BY <3>3, <3>4
      <4>2. /\ Module(workspace[n]) \in DOMAIN ActiveNeeds
            /\ ActiveNeeds[Module(workspace[n])] = Needs(Module(workspace[n])) \cap ActiveModules
        BY <3>2, <4>1, ActiveRecord
      <4>3. Needs(Module(workspace[n])) \cap ActiveModules \subseteq ActiveUpTo(workspace, n - 1)
        BY <3>2, NeededComeBefore
      <4>4. Module(workspace[n]) \notin ActiveUpTo(workspace, n - 1)
        BY <3>2, ActiveOfNext
      <4> QED BY <4>1, <4>2, <4>3, <4>4
    <3>6. Resources!Acquire(Module(workspace[n]))
      BY <2>2, <3>1, <3>4, <3>5 DEF Resources!Acquire
    <3> QED BY <3>5, <3>6 DEF Resources!Next
  <2>5. CASE RollbackReturns
    <3>1. pc = "rollback" /\ callback /\ held' = held \ {Module(workspace[cursor])}
      BY <2>5 DEF RollbackReturns, Undone
    <3>2. /\ Given /\ DescriptorSetFault = "ok"
          /\ workspace \in Seq(Records) /\ Matches(workspace)
      BY <1>2, <3>1, PreparingFacts
    <3>3. /\ cursor \in 1 .. Count /\ Active(workspace[cursor])
          /\ held = ActiveUpTo(workspace, cursor)
      BY <1>2, <3>1, RollingBackFacts
    <3>4. PICK n \in 1 .. Count : n = cursor
      BY <3>3
    <3> QED BY <2>1, <3>1, <3>2, <3>3, <3>4, ReleaseStep
  <2>6. ASSUME NEW raw \in Raws, StopReturns(raw)
        PROVE  [Resources!Next]_Resources!vars
    <3>1. pc = "stop" /\ callback /\ held' = held \ {Module(records[cursor])}
      BY <2>6 DEF StopReturns, Undone, StopsAt
    <3>2. /\ state = "STOPPING" /\ cursor \in 1 .. Count /\ Active(records[cursor])
          /\ held = ActiveUpTo(records, cursor)
      BY <1>2, <3>1, StoppingFacts
    <3>3. /\ Given /\ DescriptorSetFault = "ok"
          /\ records \in Seq(Records) /\ Matches(records)
      BY <1>2, <3>2, ValidRuntime
    <3>4. PICK n \in 1 .. Count : n = cursor
      BY <3>2
    <3> QED BY <2>1, <3>1, <3>2, <3>3, <3>4, ReleaseStep
  <2>7. CASE Prepare \/ PrepareRecord \/ Publish \/ RollbackRecord \/ RollbackDone
             \/ Stop \/ StopRecord \/ StopDone \/ UNCHANGED vars
    <3>1. held' = held
      BY <2>7 DEF vars, Prepare, PrepareRecord, Publish, RollbackRecord, RollbackDone,
                  Stop, StopRecord, StopDone
    <3> QED BY <2>3, <3>1
  <2> QED BY <1>2, <2>3, <2>4, <2>5, <2>6, <2>7 DEF Next
<1> QED BY <1>1, <1>2, InvariantHolds, PTL DEF Spec, ImplementsOrderedResources, Resources!Spec
=============================================================================
