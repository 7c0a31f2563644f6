--------------------------- MODULE ServiceRuntime ---------------------------
(***************************************************************************)
(* The application service runtime AF3 of src/c/application_service.c: it  *)
(* prepares the managed modules of a catalog providers first, rolls the    *)
(* prepared ones back when one fails, publishes them together when all are *)
(* ready, and stops them consumers first.                                  *)
(*                                                                         *)
(* prepare and stop call into the application: a callback runs between two *)
(* steps of this module, and may itself ask the runtime (resolve,          *)
(* find_ready, validate, a nested stop).  Those calls change nothing, so   *)
(* they are operators here, and the properties say what they answer at     *)
(* every such point.                                                       *)
(***************************************************************************)
EXTENDS Integers, Sequences, FiniteSets, FiniteSetsExt

CONSTANT Calls    \* what prepare may be given: [catalog, descriptors, shares], a published
                  \* catalog, service descriptors and the regions of memory that overlap

Statuses == {"ok", "fail", "einval", "eexist", "enospc", "enoent", "eproto", "ealready"}

\* A catalog as CapabilityKernel publishes it, each capability named.
IsCatalog(c) ==
  /\ c.order \in Seq(Nat)
  /\ DOMAIN c.provider \subseteq Nat /\ c.interface \in [DOMAIN c.provider -> Statuses]
  /\ DOMAIN c.requires = DOMAIN c.order
  /\ \A m \in DOMAIN c.requires : c.requires[m] \in Seq(DOMAIN c.provider)
  /\ {c.order[i] : i \in DOMAIN c.order} = DOMAIN c.order
  /\ \A i \in DOMAIN c.order :
       \A r \in DOMAIN c.requires[c.order[i]] :
         \E j \in 1 .. i - 1 : c.order[j] = c.provider[c.requires[c.order[i]][r]]

Descriptor(c) == [module : Nat, callbacks : {"active", "passive", "partial"},
                  declares : SUBSET DOMAIN c.provider]

ASSUME CallsAssumption ==
  \A call \in Calls :
    IsCatalog(call.catalog) /\ call.descriptors \in Seq(Descriptor(call.catalog))

\* What prepare must be able to write, and what it and the runtime read.
Mutable == {"storage", "workspace", "runtime", "storage records", "workspace records",
            "module map"}
Immutable == {"catalog", "modules", "bindings", "resolutions", "module order",
              "service modules", "provides", "consumes", "interfaces", "service exports"}

RecordStates == {"EMPTY", "PREPARING", "READY", "ROLLING_BACK", "ROLLED_BACK",
                 "STOPPING", "STOPPED", "STOP_FAILED", "PREPARE_FAILED"}
RuntimeStates == {"absent", "READY", "STOPPING", "STOPPED", "STOP_FAILED"}

\* What a callback returns; a positive value is no status.
Raws == {"ok", "fail", "positive"}

VARIABLES
  catalog, descriptors, shares,  \* the inputs of prepare
  roomy,        \* the capacities suffice, and then are not zero
  workspace,    \* the records prepare works on
  records,      \* the records of the published runtime
  state,        \* the runtime's state, "absent" until it is published
  pc,           \* "caller", or the loop in progress
  cursor,       \* the record the loop is at
  context,      \* the record whose prepare context is in scope
  callback,     \* the callback of the record at cursor is running
  failure,      \* the failure the call in progress will return
  ret,          \* the last call that returned, and its status
  held          \* history: the modules prepared and not undone

inputs == <<catalog, descriptors, shares, roomy>>
loop == <<cursor, context, callback, failure>>
vars == <<inputs, workspace, records, state, pc, loop, ret, held>>

Count == Len(descriptors)
Module(r) == descriptors[r.descriptor].module
Managed == {descriptors[d].module : d \in DOMAIN descriptors}
Active(r) == descriptors[r.descriptor].callbacks = "active"
ActiveModules ==
  {descriptors[d].module : d \in {d \in DOMAIN descriptors :
                                    descriptors[d].callbacks = "active"}}

\* What prepare was given does not change.
Given == \E call \in Calls : /\ catalog = call.catalog /\ descriptors = call.descriptors
                            /\ shares = call.shares

Records == [descriptor : DOMAIN descriptors, state : RecordStates, stop : Raws]

TypeOK ==
  /\ Given /\ roomy \in BOOLEAN
  /\ workspace \in Seq(Records) /\ records \in Seq(Records)
  /\ state \in RuntimeStates
  /\ pc \in {"caller", "prepare", "rollback", "stop"}
  /\ cursor \in 0 .. Count + 1 /\ context \in 0 .. Count
  /\ callback \in BOOLEAN /\ failure \in Statuses
  /\ ret \in [call : {"none", "prepare", "stop"}, status : Statuses \cup {"ebusy"}]
  /\ held \subseteq ActiveModules

Init ==
  /\ Given /\ roomy \in BOOLEAN
  /\ workspace = <<>> /\ records = <<>> /\ state = "absent"
  /\ pc = "caller" /\ cursor = 0 /\ context = 0 /\ callback = FALSE
  /\ failure = "ok" /\ held = {}
  /\ ret = [call |-> "none", status |-> "ok"]
-----------------------------------------------------------------------------
(***************************************************************************)
(* Validation                                                              *)
(***************************************************************************)
\* catalog_module_index_direct
InCatalog(m) == \E i \in DOMAIN catalog.order : catalog.order[i] = m

\* binding_for_service_export
BindsTo(c, m) == catalog.provider[c] = m

\* arbor_application_service_interface_validate, of the header the table begins with.
InterfaceFault(c) == catalog.interface[c]

\* descriptor_validate; what is declared is a set, so nothing is declared twice.
DescriptorFault(d) ==
  LET declared == d.declares
      faulty == {c \in declared : InterfaceFault(c) # "ok"}
  IN IF declared = {} \/ d.callbacks = "partial" THEN "einval"
     ELSE IF ~InCatalog(d.module) THEN "enoent"
     ELSE IF \E c \in declared : ~BindsTo(c, d.module) THEN "einval"
     ELSE IF faulty # {} THEN InterfaceFault(Min(faulty)) ELSE "ok"

\* descriptor_set_validate
DescriptorSetFault ==
  LET fault(d) ==
        IF DescriptorFault(descriptors[d]) # "ok" THEN DescriptorFault(descriptors[d])
        ELSE IF \E e \in 1 .. d - 1 : descriptors[e].module = descriptors[d].module
        THEN "eexist" ELSE "ok"
      faulty == {d \in DOMAIN descriptors : fault(d) # "ok"}
  IN IF Count > Len(catalog.order) THEN "einval"
     ELSE IF faulty # {} THEN fault(Min(faulty)) ELSE "ok"

\* A region of no length overlaps nothing.
Present(region) ==
  CASE region \in {"storage records", "workspace records", "module map"} -> roomy
    [] region \in {"service modules", "service exports"} -> Count > 0
    [] region \in {"modules", "module order"} -> catalog.order # <<>>
    [] region \in {"provides", "interfaces", "bindings"} -> catalog.provider # <<>>
    [] region \in {"consumes", "resolutions"} ->
         \E m \in DOMAIN catalog.requires : catalog.requires[m] # <<>>
    [] OTHER -> TRUE

Overlap(a, b) == a # b /\ {a, b} \in shares /\ Present(a) /\ Present(b)

\* immutable_inputs_require_disjoint
ClearOfInputs(region) == \A input \in Immutable : ~Overlap(region, input)

\* mutable_regions_validate, and for the regions of the runtime runtime_regions_validate.
RegionsDisjoint(regions) ==
  /\ \A a, b \in regions : ~Overlap(a, b)
  /\ \A region \in regions : ClearOfInputs(region)

\* measure, the shape of the storage and the regions, in that order.
InputFault ==
  IF DescriptorSetFault # "ok" THEN DescriptorSetFault
  ELSE IF Count > 0 /\ ~roomy THEN "enospc"
  ELSE IF ~RegionsDisjoint(Mutable) THEN "einval" ELSE "ok"

\* The descriptors in the catalog's order, as both validators walk them.
Position(m) == CHOOSE i \in DOMAIN catalog.order : catalog.order[i] = m

Before(d) ==
  {e \in DOMAIN descriptors :
     Position(descriptors[e].module) < Position(descriptors[d].module)}

ExpectedDescriptors ==
  [i \in 1 .. Count |-> CHOOSE d \in DOMAIN descriptors : Cardinality(Before(d)) = i - 1]

Matches(rs) ==
  /\ Len(rs) = Count
  /\ \A i \in DOMAIN rs : rs[i].descriptor = ExpectedDescriptors[i]

\* workspace_ready_records_validate
WorkspaceReady ==
  /\ Matches(workspace)
  /\ \A i \in DOMAIN workspace :
       workspace[i].state = "READY" /\ workspace[i].stop = "ok"

\* runtime_record_state_validate
RecordAllowed(r) ==
  /\ CASE state = "READY"       -> r.state = "READY"
       [] state = "STOPPING"    -> r.state \in {"READY", "STOPPING", "STOPPED",
                                                "STOP_FAILED"}
       [] state = "STOPPED"     -> r.state = "STOPPED"
       [] state = "STOP_FAILED" -> r.state \in {"STOPPED", "STOP_FAILED"}
  /\ r.stop # "ok" <=> r.state = "STOP_FAILED"

\* The records are as long as the count says, whatever the storage's capacity.
RuntimeRegions == {"runtime"} \cup {r \in {"storage records"} : Count > 0}

RuntimeValid ==
  LET stopFailedSeen == \E i \in DOMAIN records : records[i].state = "STOP_FAILED" IN
  /\ state # "absent"
  /\ DescriptorSetFault = "ok" /\ RegionsDisjoint(RuntimeRegions)
  /\ Matches(records)
  /\ \A i \in DOMAIN records : RecordAllowed(records[i])
  /\ state = "STOP_FAILED" => stopFailedSeen
  /\ stopFailedSeen => state \in {"STOP_FAILED", "STOPPING"}
-----------------------------------------------------------------------------
(***************************************************************************)
(* prepare                                                                 *)
(***************************************************************************)
\* A callback's return value as a status.
Normalized(raw) == IF raw = "positive" THEN "einval" ELSE raw

Return(call, status) ==
  /\ pc' = "caller" /\ ret' = [call |-> call, status |-> status]
  /\ cursor' = 0 /\ context' = 0 /\ callback' = FALSE /\ failure' = "ok"

Record(d, s, stop) == [descriptor |-> d, state |-> s, stop |-> stop]

\* Mutant: the records follow the descriptors, not the catalog.
BuildInDescriptorOrder ==
  [d \in DOMAIN descriptors |-> Record(d, "EMPTY", "ok")]

\* build_module_map_and_order
BuildModuleMapAndOrder ==
  [i \in 1 .. Count |-> Record(ExpectedDescriptors[i], "EMPTY", "ok")]

\* Bound on the callers: a runtime whose modules are ready is stopped before
\* its storage is prepared again.
Prepare ==
  /\ pc = "caller" /\ state # "READY"
  /\ IF InputFault # "ok"
     THEN Return("prepare", InputFault) /\ UNCHANGED workspace
     ELSE /\ workspace' = BuildModuleMapAndOrder
          /\ pc' = "prepare" /\ cursor' = 1
          /\ UNCHANGED <<context, callback, failure, ret>>
  /\ UNCHANGED <<inputs, records, state, held>>

\* A module without callbacks is ready at once; another is called.
PrepareRecord ==
  /\ pc = "prepare" /\ ~callback /\ cursor <= Count
  /\ LET r == workspace[cursor] IN
     IF Active(r)
     THEN /\ workspace' = [workspace EXCEPT ![cursor].state = "PREPARING"]
          /\ callback' = TRUE /\ context' = cursor /\ UNCHANGED cursor
     ELSE /\ workspace' = [workspace EXCEPT ![cursor].state = "READY"]
          /\ cursor' = cursor + 1 /\ UNCHANGED <<callback, context>>
  /\ UNCHANGED <<inputs, records, state, pc, failure, ret, held>>

PrepareReturns(raw) ==
  /\ pc = "prepare" /\ callback /\ callback' = FALSE
  /\ IF Normalized(raw) = "ok"
     THEN /\ workspace' = [workspace EXCEPT ![cursor].state = "READY"]
          /\ held' = held \cup {Module(workspace[cursor])}
          /\ cursor' = cursor + 1 /\ context' = 0 /\ UNCHANGED <<pc, failure>>
     ELSE /\ workspace' = [workspace EXCEPT ![cursor].state = "PREPARE_FAILED"]
          /\ failure' = Normalized(raw)
          /\ pc' = "rollback" /\ cursor' = cursor - 1
          /\ UNCHANGED <<held, context>>
  /\ UNCHANGED <<inputs, records, state, ret>>

\* The whole set becomes visible at once, if every record is as it should be.
Publish ==
  /\ pc = "prepare" /\ ~callback /\ cursor > Count
  /\ IF Count = 0 \/ WorkspaceReady
     THEN /\ records' = workspace /\ state' = "READY" /\ Return("prepare", "ok")
     ELSE /\ failure' = "einval" /\ pc' = "rollback" /\ cursor' = Count
          /\ UNCHANGED <<records, state, context, callback, ret>>
  /\ UNCHANGED <<inputs, workspace, held>>

\* The record rolled back after record i.
RollbackCursor(i) == i - 1

\* rollback_prepared_prefix, from the record before the one that failed.
RollbackRecord ==
  /\ pc = "rollback" /\ ~callback /\ cursor > 0
  /\ LET r == workspace[cursor] IN
     IF r.state # "READY"
     THEN cursor' = RollbackCursor(cursor) /\ UNCHANGED <<workspace, callback>>
     ELSE IF Active(r)
     THEN /\ workspace' = [workspace EXCEPT ![cursor].state = "ROLLING_BACK"]
          /\ callback' = TRUE /\ UNCHANGED cursor
     ELSE /\ workspace' = [workspace EXCEPT ![cursor].state = "ROLLED_BACK"]
          /\ cursor' = RollbackCursor(cursor) /\ UNCHANGED callback
  /\ UNCHANGED <<inputs, records, state, pc, context, failure, ret, held>>

\* The application's resources of module m are gone.
Undone(m) == held' = held \ {m}

RollbackReturns ==
  /\ pc = "rollback" /\ callback /\ callback' = FALSE
  /\ Undone(Module(workspace[cursor]))
  /\ workspace' = [workspace EXCEPT ![cursor].state = "ROLLED_BACK"]
  /\ cursor' = RollbackCursor(cursor)
  /\ UNCHANGED <<inputs, records, state, pc, context, failure, ret>>

RollbackDone ==
  /\ pc = "rollback" /\ ~callback /\ cursor <= 0
  /\ Return("prepare", failure)
  /\ UNCHANGED <<inputs, workspace, records, state, held>>
-----------------------------------------------------------------------------
(***************************************************************************)
(* stop                                                                    *)
(***************************************************************************)
\* What stop answers before it does anything.
StopRefusal ==
  IF ~RuntimeValid THEN "einval"
  ELSE IF state = "STOPPING" THEN "ebusy"
  ELSE IF state \in {"STOPPED", "STOP_FAILED"} THEN "ealready" ELSE "ok"

\* Mutant: the first to be prepared is the first to be stopped.
StopsAtFirst(i) == Count + 1 - i

\* The record stop is at after i of them: the last prepared comes first.
StopsAt(i) == i

Stop ==
  /\ pc = "caller"
  /\ IF StopRefusal # "ok" THEN Return("stop", StopRefusal) /\ UNCHANGED state
     ELSE /\ state' = "STOPPING" /\ pc' = "stop" /\ cursor' = Count
          /\ UNCHANGED <<context, callback, failure, ret>>
  /\ UNCHANGED <<inputs, workspace, records, held>>

StopRecord ==
  /\ pc = "stop" /\ ~callback /\ cursor > 0
  /\ LET at == StopsAt(cursor) IN
     IF Active(records[at])
     THEN /\ records' = [records EXCEPT ![at] = Record(@.descriptor, "STOPPING", "ok")]
          /\ callback' = TRUE /\ UNCHANGED cursor
     ELSE /\ records' = [records EXCEPT ![at] = Record(@.descriptor, "STOPPED", "ok")]
          /\ cursor' = cursor - 1 /\ UNCHANGED callback
  /\ UNCHANGED <<inputs, workspace, state, pc, context, failure, ret, held>>

\* The loop goes on whatever a callback returned.
NextAfterStop(raw) == cursor - 1

FirstFailure(raw) == IF failure = "ok" THEN Normalized(raw) ELSE failure

\* Mutant: what is kept is the status, and the state does not follow.
StoppedRecordAlways(d, raw) == Record(d, "STOPPED", raw)

\* The raw value is kept, also one that is no status.
StoppedRecord(d, raw) ==
  IF Normalized(raw) = "ok" THEN Record(d, "STOPPED", "ok")
                            ELSE Record(d, "STOP_FAILED", raw)

StopReturns(raw) ==
  /\ pc = "stop" /\ callback /\ callback' = FALSE
  /\ LET at == StopsAt(cursor) IN
     /\ Undone(Module(records[at]))
     /\ records' = [records EXCEPT ![at] = StoppedRecord(@.descriptor, raw)]
  /\ failure' = FirstFailure(raw)
  /\ cursor' = NextAfterStop(raw)
  /\ UNCHANGED <<inputs, workspace, state, pc, context, ret>>

StopDone ==
  /\ pc = "stop" /\ ~callback /\ cursor = 0
  /\ state' = IF failure = "ok" THEN "STOPPED" ELSE "STOP_FAILED"
  /\ Return("stop", failure)
  /\ UNCHANGED <<inputs, workspace, records, held>>

Next ==
  \/ Prepare \/ PrepareRecord \/ Publish
  \/ RollbackRecord \/ RollbackReturns \/ RollbackDone
  \/ Stop \/ StopRecord \/ StopDone
  \/ \E raw \in Raws : PrepareReturns(raw) \/ StopReturns(raw)

Spec == Init /\ [][Next]_vars
-----------------------------------------------------------------------------
(***************************************************************************)
(* What the application may ask while it runs                              *)
(***************************************************************************)
\* The record of the managed module m among rs, if there is one.
RecordOf(rs, m) == {i \in DOMAIN rs : Module(rs[i]) = m}

\* module_export_index_for_capability and descriptor_declares_export
DeclaresExport(d, c) == c \in d.declares

\* validate_managed_binding_if_service_export
ManagedBindingStatus(m) ==
  IF m \notin Managed THEN "ok"
  ELSE IF \A i \in RecordOf(workspace, m) : workspace[i].state = "READY"
  THEN "ok" ELSE "eagain"

\* prepare_resolve on the context in scope.
ResolveStatus(requirement) ==
  LET consumer == Module(workspace[context]) IN
  IF workspace[context].state # "PREPARING" THEN "einval"
  ELSE ManagedBindingStatus(catalog.provider[catalog.requires[consumer][requirement]])

\* find_ready, for a capability the catalog has.
FindReadyStatus(c) ==
  LET m == catalog.provider[c] IN
  IF ~RuntimeValid THEN "einval"
  ELSE IF state # "READY" THEN "eagain"
  ELSE IF m \notin Managed THEN "enoent"
  ELSE IF \E i \in RecordOf(records, m) : records[i].state # "READY" THEN "eagain"
  ELSE IF \E d \in DOMAIN descriptors :
            descriptors[d].module = m /\ ~DeclaresExport(descriptors[d], c)
  THEN "enoent" ELSE "ok"
-----------------------------------------------------------------------------
(***************************************************************************)
(* Properties                                                              *)
(***************************************************************************)
Needs(m) ==
  {catalog.provider[catalog.requires[m][r]] : r \in DOMAIN catalog.requires[m]}
Running == IF pc = "stop" THEN records[StopsAt(cursor)] ELSE workspace[cursor]

(* Between calls the runtime holds either every module it manages or none:
   a failed prepare and a failed stop leave nothing behind. *)
AllOrNothing ==
  pc = "caller" => held = IF state = "READY" THEN ActiveModules ELSE {}

\* What prepare and stop have written by now.
Written ==
  (IF workspace = <<>> THEN {} ELSE {"workspace records", "module map"})
  \cup (IF state = "absent" THEN {} ELSE {"storage records", "runtime"})

\* The records are stopped from the last to the first.
FirstFailureOf(rs) ==
  LET failed == {i \in DOMAIN rs : rs[i].state = "STOP_FAILED"} IN
  IF failed = {} THEN "ok" ELSE Normalized(rs[Max(failed)].stop)

(* stop returns the status of the first callback that failed, and the runtime
   and its records remember that it did. *)
StopReportsFirstFailure ==
  pc = "caller" /\ ret.call = "stop" /\ ret.status \in {"ok", "fail", "einval"}
  /\ state # "absent" =>
    /\ ret.status = FirstFailureOf(records)
    /\ state = IF FirstFailureOf(records) = "ok" THEN "STOPPED" ELSE "STOP_FAILED"

(* runtime_validate accepts the runtime whenever the application can look, also
   from the middle of a stop, where a second stop is told it is busy; and what
   find_ready hands out then is declared by a module that holds what it
   prepared; a stop that is over has reported its first failure; and a failed
   prepare or stop has left nothing behind; and none of it was written over
   what prepare was given or over another of its outputs. *)
RuntimeStaysValid ==
  /\ AllOrNothing /\ StopReportsFirstFailure
  /\ \A w \in Written, r \in Mutable \cup Immutable : ~Overlap(w, r)
  /\ state # "absent" => RuntimeValid
  /\ pc = "stop" => StopRefusal = "ebusy"
  /\ \A c \in DOMAIN catalog.provider :
       FindReadyStatus(c) = "ok" =>
         /\ \E d \in DOMAIN descriptors : c \in descriptors[d].declares
         /\ catalog.provider[c] \in ActiveModules => catalog.provider[c] \in held

(* A module being prepared can resolve each of its requirements; one being
   rolled back can resolve nothing through the context of the failed prepare. *)
ResolveDuringPrepare ==
  callback /\ pc \in {"prepare", "rollback"} =>
    \A r \in DOMAIN catalog.requires[Module(workspace[context])] :
      ResolveStatus(r) = IF pc = "prepare" THEN "ok" ELSE "einval"

\* What every step preserves, and from which the invariants above follow.
InputsAccepted ==
  workspace # <<>> \/ state # "absent" \/ pc # "caller" => InputFault = "ok"

\* The modules with callbacks of the first n records.
ActiveUpTo(rs, n) == {Module(rs[i]) : i \in {j \in 1 .. n : Active(rs[j])}}

AtRest ==
  /\ pc = "caller" => cursor = 0 /\ context = 0 /\ ~callback /\ failure = "ok"
  /\ pc \in {"prepare", "rollback"} => state \notin {"READY", "STOPPING"} /\ Matches(workspace)
  /\ pc = "stop" <=> state = "STOPPING"

\* prepare has come to the record at cursor, or to its callback.
Preparing ==
  pc = "prepare" =>
    /\ cursor >= 1 /\ context = IF callback THEN cursor ELSE 0
    /\ callback => cursor <= Count /\ Active(workspace[cursor])
    /\ \A i \in 1 .. Count :
         /\ workspace[i].stop = "ok"
         /\ workspace[i].state = IF i < cursor THEN "READY"
                                 ELSE IF i = cursor /\ callback THEN "PREPARING" ELSE "EMPTY"
    /\ held = ActiveUpTo(workspace, cursor - 1)

\* The record in scope has failed, those up to cursor are still to be undone.
RollingBack ==
  pc = "rollback" =>
    /\ cursor < context /\ workspace[context].state = "PREPARE_FAILED"
    /\ callback => cursor >= 1 /\ Active(workspace[cursor])
    /\ \A i \in 1 .. cursor :
         workspace[i].state = IF i = cursor /\ callback THEN "ROLLING_BACK" ELSE "READY"
    /\ held = ActiveUpTo(workspace, cursor)

\* stop has come down to the record at cursor, or to its callback.
Stopping ==
  pc = "stop" =>
    /\ cursor <= Count /\ failure = FirstFailureOf(records)
    /\ callback => cursor >= 1 /\ Active(records[cursor])
    /\ \A i \in 1 .. Count :
         IF i > cursor THEN records[i].state \in {"STOPPED", "STOP_FAILED"}
         ELSE records[i].state = IF i = cursor /\ callback THEN "STOPPING" ELSE "READY"
    /\ held = ActiveUpTo(records, cursor)

\* The inductive invariant.
RuntimeInvariant ==
  /\ TypeOK /\ InputsAccepted /\ AtRest /\ Preparing /\ RollingBack /\ Stopping
  /\ AllOrNothing /\ StopReportsFirstFailure /\ (state # "absent" => RuntimeValid)

\* The promise to the application, with the history as its resources: what a
\* module with callbacks needs of another.
ActiveNeeds ==
  [m \in {n \in ActiveModules : InCatalog(n)} |-> Needs(m) \cap ActiveModules]

Resources == INSTANCE OrderedResources WITH needs <- ActiveNeeds, held <- held

(* The runtime sets modules up and tears them down in dependency order. *)
ImplementsOrderedResources == Resources!Spec
=============================================================================
