-------------------------- MODULE CapabilityKernel --------------------------
(***************************************************************************)
(* The capability kernel AF2 of src/c/capability_kernel.c: it resolves     *)
(* what the modules of an application require against what they provide,   *)
(* orders them so that providers come first, and publishes the result as a *)
(* catalog that can be validated and queried.                              *)
(*                                                                         *)
(* catalog_prepare is one sequential call.  It is cut between its phases   *)
(* and between two picks of the ordering loop, so that what the workspace  *)
(* holds in between can be talked about.                                   *)
(***************************************************************************)
EXTENDS Integers, Sequences, FiniteSets, FiniteSetsExt, SequencesExt

CONSTANT Calls    \* what prepare may be given: [modules, shares], an array of descriptors
                  \* and the pairs of regions that have memory in common

\* An id of zero, or a major version of zero, is malformed.
Capability == [id : Nat, major : Nat, minor : Nat, size : Nat]
Descriptor == [id : Nat, provides : Seq(Capability), consumes : Seq(Capability)]

\* What prepare writes and what it reads.
StorageRegions == {"bindings", "resolutions", "module order"}
WorkspaceRegions == {"provider", "bound", "indegree", "selected", "order"}
Outputs == StorageRegions \union WorkspaceRegions \union {"catalog"}
Inputs == {"storage", "workspace", "modules", "provides", "consumes", "interfaces"}

ASSUME CallsAssumption == \A call \in Calls :
  call \in [modules : Seq(Descriptor), shares : SUBSET SUBSET (Outputs \union Inputs)]

Statuses == {"ok", "einval", "eexist", "enospc", "enoent", "eproto", "eloop"}

Nothing == [order |-> <<>>, bindings |-> <<>>, resolutions |-> <<>>,
            published |-> FALSE]

VARIABLES
  modules,      \* the descriptors, immutable
  shares,       \* the regions of memory that overlap
  roomy,        \* the caller's storage and workspace are large enough
  pc,           \* "caller", or the phase of prepare to come
  provider,     \* workspace: the provider of each requirement
  bound,        \* workspace: and its place in the flat array of bindings
  indegree,     \* workspace: requirements not yet satisfied by order
  order,        \* workspace: the modules selected so far
  catalog,      \* what has been published
  ret,          \* the status of the last prepare
  touched       \* history: regions some other region's write went into

workspace == <<provider, bound, indegree, order>>
vars == <<modules, shares, roomy, pc, workspace, catalog, ret, touched>>

Modules == DOMAIN modules
Exports(m) == DOMAIN modules[m].provides
Requirements(m) == DOMAIN modules[m].consumes

TypeOK ==
  /\ [modules |-> modules, shares |-> shares] \in Calls /\ roomy \in BOOLEAN
  /\ touched \subseteq Outputs \union Inputs
  /\ pc \in {"caller", "resolve", "order", "publish"}
  /\ ret \in Statuses \cup {"none"}
  /\ order \in Seq(Modules)
  /\ pc \in {"order", "publish"} =>
       /\ indegree \in [Modules -> Nat]
       /\ \A m \in Modules : provider[m] \in [Requirements(m) -> Modules]

Init ==
  /\ \E call \in Calls : modules = call.modules /\ shares = call.shares
  /\ roomy \in BOOLEAN /\ touched = {}
  /\ pc = "caller" /\ ret = "none" /\ catalog = Nothing
  /\ provider = <<>> /\ bound = <<>> /\ indegree = <<>> /\ order = <<>>
-----------------------------------------------------------------------------
(***************************************************************************)
(* Validation of the descriptors                                           *)
(***************************************************************************)

\* Same capability, same major version, no older, no smaller.
Satisfies(provided, required) ==
  /\ provided.id = required.id /\ provided.major = required.major
  /\ provided.minor >= required.minor /\ provided.size >= required.size

WellFormed(capability) ==
  capability.id # 0 /\ capability.major # 0 /\ capability.size # 0

\* The first fault of an array, in the order the code walks it.
FirstFault(index, Fault(_)) ==
  IF \A i \in index : Fault(i) = "ok" THEN "ok"
  ELSE Fault(Min({i \in index : Fault(i) # "ok"}))

RequirementFault(m, r) ==
  IF ~WellFormed(modules[m].consumes[r]) THEN "einval"
  ELSE IF \E p \in 1 .. r - 1 :
            modules[m].consumes[p].id = modules[m].consumes[r].id
  THEN "eexist" ELSE "ok"

ModuleFault(m) ==
  IF \E earlier \in 1 .. m - 1 : modules[earlier].id = modules[m].id
  THEN "eexist"
  ELSE IF \E e \in Exports(m) : ~WellFormed(modules[m].provides[e])
  THEN "einval"
  ELSE FirstFault(Requirements(m), LAMBDA r : RequirementFault(m, r))

ProvidedTwice ==
  \E m, n \in Modules : \E e \in Exports(m), f \in Exports(n) :
    /\ <<m, e>> # <<n, f>>
    /\ modules[m].provides[e].id = modules[n].provides[f].id

DescriptorSetFault ==
  LET inModules == FirstFault(Modules, ModuleFault) IN
  IF inModules # "ok" THEN inModules
  ELSE IF ProvidedTwice THEN "eexist" ELSE "ok"

\* Regions are as long as the counts make them; one of no length overlaps nothing.
Present(region) ==
  CASE region \in {"bindings", "provides", "interfaces"} -> \E m \in Modules : Exports(m) # {}
    [] region \in {"resolutions", "provider", "bound", "consumes"} ->
         \E m \in Modules : Requirements(m) # {}
    [] region \in {"module order", "indegree", "selected", "order", "modules"} -> Modules # {}
    [] OTHER -> TRUE

Overlap(a, b) == a # b /\ {a, b} \in shares /\ Present(a) /\ Present(b)

\* publication_regions_validate: no output over another output or over an input.
RegionFault ==
  IF \E a \in Outputs, b \in Outputs \union Inputs : Overlap(a, b) THEN "einval" ELSE "ok"

\* measure, storage_validate, descriptor_set_validate and
\* publication_regions_validate, in that order.
InputFault ==
  IF \E m \in Modules : modules[m].id = 0 THEN "einval"
  ELSE IF ~roomy THEN "enospc"
  ELSE IF DescriptorSetFault # "ok" THEN DescriptorSetFault ELSE RegionFault
-----------------------------------------------------------------------------
(***************************************************************************)
(* prepare                                                                 *)
(***************************************************************************)
Return(status) == pc' = "caller" /\ ret' = status

Write(regions) ==
  touched' = touched \union
    {r \in Outputs \union Inputs : \E written \in regions : Overlap(written, r)}

Prepare ==
  /\ pc = "caller"
  /\ IF InputFault # "ok" THEN Return(InputFault)
     ELSE pc' = "resolve" /\ UNCHANGED ret
  /\ UNCHANGED <<modules, shares, roomy, workspace, catalog, touched>>

\* Every export that answers requirement r of c by its id alone.
Offers(c, r) ==
  {offer \in UNION {{m} \X Exports(m) : m \in Modules} :
     modules[offer[1]].provides[offer[2]].id = modules[c].consumes[r].id}

Compatible(c, r) ==
  {offer \in Offers(c, r) :
     Satisfies(modules[offer[1]].provides[offer[2]], modules[c].consumes[r])}

ResolveFault(c, r) ==
  IF Offers(c, r) = {} THEN "enoent"
  ELSE IF Compatible(c, r) = {} THEN "eproto" ELSE "ok"

ExportCounts == [m \in Modules |-> Len(modules[m].provides)]

\* Mutant: the offset of the provider's exports is forgotten.
BindingIndexUnshifted(m, e) == e

\* binding_index_for_export: bindings are laid out module after module.
BindingIndex(m, e) ==
  SumFunctionOnSet(ExportCounts, 1 .. m - 1) + e

\* The offer taken; there is only one, no capability being provided twice.
Offer(c, r) == CHOOSE offer \in Compatible(c, r) : TRUE

Resolve ==
  LET fault == FirstFault(Modules, LAMBDA c :
                 FirstFault(Requirements(c), LAMBDA r : ResolveFault(c, r)))
  IN
  /\ pc = "resolve"
  /\ IF fault # "ok"
     THEN Return(fault) /\ UNCHANGED workspace
     ELSE /\ provider' = [c \in Modules |->
                           [r \in Requirements(c) |-> Offer(c, r)[1]]]
          /\ bound' = [c \in Modules |->
                        [r \in Requirements(c) |->
                           BindingIndex(Offer(c, r)[1], Offer(c, r)[2])]]
          /\ indegree' = [c \in Modules |-> Len(modules[c].consumes)]
          /\ order' = <<>>
          /\ pc' = "order" /\ UNCHANGED ret
  /\ Write(WorkspaceRegions)
  /\ UNCHANGED <<modules, shares, roomy, catalog>>

Selected == {order[i] : i \in DOMAIN order}

\* The requirements of c that m provides.
Supplied(c, m) == {r \in Requirements(c) : provider[c][r] = m}

\* What is left of c's requirements once m has been selected.
LeftAfter(c, m) == indegree[c] - Cardinality(Supplied(c, m))

Ready == {m \in Modules \ Selected : indegree[m] = 0}

\* The tie goes to the lowest index.
Pick(ready) == Min(ready)

\* One pick of topological_order_build.
Select ==
  /\ pc = "order" /\ Len(order) < Len(modules)
  /\ IF Ready = {} THEN Return("eloop") /\ UNCHANGED workspace
     ELSE LET m == Pick(Ready) IN
       /\ order' = Append(order, m)
       /\ IF \E c \in Modules : LeftAfter(c, m) < 0
          THEN Return("einval") /\ UNCHANGED indegree
          ELSE /\ indegree' = [c \in Modules |-> LeftAfter(c, m)]
               /\ UNCHANGED <<pc, ret>>
       /\ UNCHANGED <<provider, bound>>
  /\ Write({"indegree", "selected", "order"})
  /\ UNCHANGED <<modules, shares, roomy, catalog>>

Ordered ==
  /\ pc = "order" /\ Len(order) = Len(modules)
  /\ pc' = "publish"
  /\ UNCHANGED <<modules, shares, roomy, workspace, catalog, ret, touched>>

Binding(m, e) == [capability |-> modules[m].provides[e], module |-> m]

\* publish_catalog: the flat arrays, and the order.
Publish ==
  /\ pc = "publish"
  /\ catalog' =
       [bindings |-> FlattenSeq([m \in Modules |->
                       [e \in Exports(m) |-> Binding(m, e)]]),
        resolutions |-> FlattenSeq([c \in Modules |->
                          [r \in Requirements(c) |->
                             [consumer |-> c, requirement |-> r,
                              binding |-> bound[c][r]]]]),
        order |-> order, published |-> TRUE]
  /\ Return("ok") /\ Write(StorageRegions \union {"catalog"})
  /\ UNCHANGED <<modules, shares, roomy, workspace>>

Next == Prepare \/ Resolve \/ Select \/ Ordered \/ Publish

Spec == Init /\ [][Next]_vars
-----------------------------------------------------------------------------
(***************************************************************************)
(* Validation of a catalog, and the queries on it                          *)
(***************************************************************************)
Position(m) == CHOOSE i \in DOMAIN catalog.order : catalog.order[i] = m

\* The canonical order, recomputed: at every position the lowest module, not
\* placed before it, whose providers all are.
CanonicalAt(position) ==
  LET placed == {catalog.order[i] : i \in 1 .. position - 1}
      needs(m) == {catalog.bindings[catalog.resolutions[k].binding].module :
                     k \in {k \in DOMAIN catalog.resolutions :
                              catalog.resolutions[k].consumer = m}}
      ready == {m \in Modules \ placed : needs(m) \subseteq placed}
  IN ready # {} /\ catalog.order[position] = Min(ready)

CatalogValid ==
  LET bindings == catalog.bindings
      resolutions == catalog.resolutions
  IN
  /\ DescriptorSetFault = "ok"
  /\ Len(catalog.order) = Len(modules)
  /\ {catalog.order[i] : i \in DOMAIN catalog.order} = Modules
  /\ Len(bindings) = SumFunction(ExportCounts)
  /\ \A m \in Modules : \A e \in Exports(m) :
       bindings[BindingIndex(m, e)] = Binding(m, e)
  /\ \A k \in DOMAIN resolutions :
       LET consumer == resolutions[k].consumer
           binding  == bindings[resolutions[k].binding]
       IN /\ Satisfies(binding.capability,
                       modules[consumer].consumes[resolutions[k].requirement])
          /\ Position(binding.module) < Position(consumer)
  /\ \A position \in Modules : CanonicalAt(position)

\* catalog_find_module
FindModule(id) ==
  LET named == {m \in Modules : modules[m].id = id} IN
  IF named = {} THEN [status |-> "enoent"] ELSE [status |-> "ok", module |-> Min(named)]

\* catalog_find: the one binding with the id, if it is compatible.
Find(required) ==
  LET named == {k \in DOMAIN catalog.bindings :
                  catalog.bindings[k].capability.id = required.id} IN
  IF named = {} THEN [status |-> "enoent"]
  ELSE IF ~Satisfies(catalog.bindings[Min(named)].capability, required)
  THEN [status |-> "eproto"]
  ELSE [status |-> "ok", binding |-> catalog.bindings[Min(named)]]

\* catalog_resolve: what was recorded for requirement r of consumer c.
ResolveRequirement(c, r) ==
  LET recorded == {k \in DOMAIN catalog.resolutions :
                     /\ catalog.resolutions[k].consumer = c
                     /\ catalog.resolutions[k].requirement = r} IN
  IF recorded = {} THEN [status |-> "enoent"]
  ELSE [status |-> "ok", binding |->
          catalog.bindings[catalog.resolutions[Min(recorded)].binding]]
-----------------------------------------------------------------------------
(***************************************************************************)
(* Properties                                                              *)
(***************************************************************************)

(* In the published order the provider of every requirement comes before its
   consumer, and every module comes once. *)
ProvidersFirst ==
  pc = "publish" =>
    /\ Selected = Modules
    /\ \A i, j \in DOMAIN order : order[i] = order[j] => i = j
    /\ \A j \in DOMAIN order : \A r \in Requirements(order[j]) :
         \E i \in 1 .. j - 1 : order[i] = provider[order[j]][r]

(* What prepare publishes, catalog_validate accepts: the flat arrays agree with
   the descriptors and the order is the canonical one.  Resolving a requirement
   by its index and finding its capability by id give the same binding, of a
   module that is prepared earlier. *)
PublishedIsValid ==
  /\ ProvidersFirst
  /\ catalog.published =>
       /\ CatalogValid
       /\ \A m \in Modules : FindModule(modules[m].id) = [status |-> "ok", module |-> m]
       /\ \A c \in Modules : \A r \in Requirements(c) :
            LET found == Find(modules[c].consumes[r]) IN
            /\ found.status = "ok"
            /\ ResolveRequirement(c, r) = found
            /\ Position(found.binding.module) < Position(c)

\* Reference: some modules can only wait for one another.
Cyclic ==
  \E S \in (SUBSET Modules) \ {{}} :
    \A m \in S : \E r \in Requirements(m) : \E offer \in Compatible(m, r) :
      offer[1] \in S

(* A set of descriptors whose requirements can all be met is refused with ELOOP
   exactly when it has a cycle, and is published otherwise. *)
LoopIffCyclic ==
  /\ ret = "eloop" => Cyclic
  /\ ret = "ok" => ~Cyclic
  /\ ret = "einval" =>
       \/ \E pair \in shares : pair \intersect Outputs # {}
       \/ \E m \in Modules :
            \/ modules[m].id = 0
            \/ \E e \in Exports(m) : ~WellFormed(modules[m].provides[e])
            \/ \E r \in Requirements(m) : ~WellFormed(modules[m].consumes[r])

(* Preparing decides rightly, what it publishes holds together, and no write to
   the workspace, the storage or the catalog lands in another output or in a
   descriptor the catalog will point to. *)
PreparedIsRight == PublishedIsValid /\ LoopIffCyclic /\ touched = {}
=============================================================================
