----------------------------- MODULE UnitOfWork -----------------------------
(***************************************************************************)
(* AF4, src/c/ddd_support.c: an event journal, and the unit of work that   *)
(* couples it to a transaction of one authority.                           *)
(*                                                                         *)
(* A call of begin, commit or rollback is cut around the authority's       *)
(* callback, which may append events.  An event is known by the number of  *)
(* its append; its payload is the size it takes in the byte arena.         *)
(***************************************************************************)
EXTENDS Integers, Sequences

CONSTANTS
  RecordCapacity, ByteCapacity,   \* of the journal
  Sizes,                          \* payload sizes appended
  Offers,                         \* what begin may be given, see Offer
  MaxGeneration,                  \* UINT64_MAX
  MaxEvents                       \* bound: appends

Regions == {"unit", "binding", "interface", "state", "context",
            "journal", "records", "payload"}

\* What the authority's binding and table are worth, whether the memory of the
\* transaction has their size and alignment, and which regions overlap.
Offer == [table : {"ok", "einval", "eprotonosupport"}, fits : BOOLEAN,
          shares : SUBSET {{a, b} : a, b \in Regions}]

ASSUME UnitOfWorkAssumption ==
  /\ Offers \subseteq Offer
  /\ {RecordCapacity, ByteCapacity, MaxEvents} \subseteq Nat
  /\ Sizes \subseteq Nat /\ MaxGeneration \in Nat \ {0}

VARIABLES
  records, byteCount, generation,   \* the journal
  uow, view,       \* the unit of work, and what its begin was given
  pc, start, ret,  \* the callback running, begin's checkpoint, the last status
  issued, calls, base, saved,       \* history
  disciplined    \* callers leave the journal of an active unit to appends

journal == <<records, byteCount, generation>>
history == <<issued, calls, base, saved>>
vars == <<journal, uow, view, pc, start, ret, history, disciplined>>

Checkpoint == [count : Nat, bytes : Nat, generation : Nat]
ZeroCheckpoint == [count |-> 0, bytes |-> 0, generation |-> 0]
NoOffer == [table |-> "ok", fits |-> TRUE, shares |-> {}]
ZeroUnit == [state |-> "ZERO", checkpoint |-> ZeroCheckpoint]
Record == [id : Nat, offset : Nat, size : Nat]

TypeOK ==
  /\ records \in Seq(Record) /\ Len(records) <= RecordCapacity
  /\ byteCount \in 0 .. ByteCapacity /\ generation \in 1 .. MaxGeneration
  /\ uow \in [state : {"ZERO", "ACTIVE", "COMMITTED", "ROLLED_BACK", "FAULTED"},
              checkpoint : Checkpoint]
  /\ view \in Offer
  /\ pc \in {"caller", "begin", "commit", "rollback"} /\ start \in Checkpoint
  /\ ret \in {"none", "ok", "failed", "einval", "estale", "ealready", "ebusy",
              "enospc", "eoverflow", "eprotonosupport"}
  /\ issued \in Nat /\ calls \in Seq({"begin", "commit", "rollback"})
  /\ base \in Seq(Nat)
  /\ saved \in [checkpoint : Checkpoint, ids : Seq(Nat), undercut : BOOLEAN]
  /\ disciplined \in BOOLEAN

Init ==
  /\ records = <<>> /\ byteCount = 0 /\ generation = 1
  /\ uow = ZeroUnit /\ view = NoOffer /\ pc = "caller" /\ start = ZeroCheckpoint /\ ret = "none"
  /\ issued = 0 /\ calls = <<>> /\ base = <<>>
  /\ saved = [checkpoint |-> ZeroCheckpoint, ids |-> <<>>, undercut |-> TRUE]
  /\ disciplined \in BOOLEAN
-----------------------------------------------------------------------------
(***************************************************************************)
(* The journal's own checks                                                *)
(***************************************************************************)
End(record) == record.offset + record.size

\* Where the first n records end in the byte arena.
Boundary(recs, n) == IF n = 0 THEN 0 ELSE End(recs[n])

\* arbor_ddd_event_journal_validate: the payloads are a packed prefix.
JournalValid ==
  /\ generation # 0
  /\ Len(records) <= RecordCapacity /\ byteCount <= ByteCapacity
  /\ \A i \in 1 .. Len(records) :
       /\ records[i].offset = Boundary(records, i - 1) /\ End(records[i]) <= byteCount
  /\ byteCount = Boundary(records, Len(records))

AtBoundary(c) ==
  /\ c.count <= Len(records) /\ c.bytes <= byteCount
  /\ c.bytes = Boundary(records, c.count)

\* journal_checkpoint_validate.
CheckpointStatus(c) ==
  CASE ~JournalValid -> "einval"
    [] JournalValid /\ c.generation # generation -> "estale"
    [] JournalValid /\ c.generation = generation /\ ~AtBoundary(c) -> "einval"
    [] OTHER -> "ok"

Here == [count |-> Len(records), bytes |-> byteCount, generation |-> generation]

Ids == [i \in 1 .. Len(records) |-> records[i].id]

\* journal_regions, apart from each other since the journal was initialized.
JournalRegions == {"journal", "records", "payload"}

\* arbor_ddd_event_journal_view: the i-th event, for memory over the regions named.
EventViewStatus(i, over) ==
  CASE i > Len(records) -> "enoent"
    [] i <= Len(records) /\ (End(records[i]) > byteCount
                             \/ over \cap JournalRegions # {}) -> "einval"
    [] OTHER -> "ok"

Return(status) == pc' = "caller" /\ ret' = status
-----------------------------------------------------------------------------
(***************************************************************************)
(* The journal                                                             *)
(***************************************************************************)
NextOffset == byteCount

Fits(size) == Len(records) < RecordCapacity /\ size <= ByteCapacity - byteCount

\* By the caller, or by the callback that runs.
Append_(size) ==
  /\ issued < MaxEvents
  /\ IF Fits(size)
     THEN /\ records' = Append(records,
                          [id |-> issued + 1, offset |-> NextOffset, size |-> size])
          /\ byteCount' = byteCount + size /\ issued' = issued + 1
          /\ UNCHANGED ret
     ELSE ret' = "enospc" /\ UNCHANGED <<records, byteCount, issued>>
  /\ UNCHANGED <<generation, uow, pc, start, calls, base, saved>>

\* What the documentation allows besides appending.
MayMutate == ~disciplined \/ (pc = "caller" /\ uow.state # "ACTIVE")

TakeCheckpoint ==
  /\ JournalValid
  /\ saved' = [checkpoint |-> Here, ids |-> Ids, undercut |-> FALSE]
  /\ ret' = "ok" /\ UNCHANGED <<journal, uow, pc, start, issued, calls, base>>

\* Mutant: the bytes stay.
KeptBytes(c) == byteCount

BytesAfter(c) == c.bytes

RewindTo(c) ==
  /\ records' = SubSeq(records, 1, c.count) /\ byteCount' = BytesAfter(c)
  /\ saved' = [saved EXCEPT !.undercut = @ \/ c.count < saved.checkpoint.count]
  /\ UNCHANGED generation

Rewind(c) ==
  /\ MayMutate
  /\ LET status == CheckpointStatus(c) IN
     /\ ret' = status
     /\ IF status = "ok" THEN RewindTo(c) ELSE UNCHANGED <<journal, saved>>
  /\ UNCHANGED <<uow, pc, start, issued, calls, base>>

\* Mutant: a cleared journal keeps its generation.
SameGeneration == generation

NextGeneration == generation + 1

Clear ==
  /\ MayMutate
  /\ IF generation = MaxGeneration
     THEN ret' = "eoverflow" /\ UNCHANGED journal
     ELSE /\ records' = <<>> /\ byteCount' = 0 /\ generation' = NextGeneration
          /\ ret' = "ok"
  /\ UNCHANGED <<uow, pc, start, history>>
-----------------------------------------------------------------------------
(***************************************************************************)
(* The unit of work                                                        *)
(***************************************************************************)
\* callback_status: a positive result is an error of its own.
Natives == {"ok", "failed", "positive"}
CallbackStatus(native) == IF native = "positive" THEN "einval" ELSE native

Overlap(offer, left, right) ==
  \E a \in left, b \in right : a # b /\ {a, b} \in offer.shares

\* arbor_ddd_transaction_interface_validate
TableStatus(offer) ==
  IF offer.table # "ok" THEN offer.table
  ELSE IF Overlap(offer, {"context"}, {"binding", "interface"}) THEN "einval" ELSE "ok"

\* transaction_state_validate
StateStatus(offer) ==
  IF ~offer.fits \/ Overlap(offer, {"state"}, {"interface"}) THEN "einval" ELSE "ok"

\* Mutant: the memory of the unit is forgotten.
GuardedButUnit == {"context", "state"}

\* What may not overlap anything else.
Guarded == {"context", "unit", "state"}

\* The table and the binding may be one object.
BeginOverlaps(offer) ==
  \/ Overlap(offer, Guarded, Regions)
  \/ Overlap(offer, JournalRegions, {"binding", "interface"})

BeginStatus(offer) ==
  IF uow # ZeroUnit THEN "einval"
  ELSE IF TableStatus(offer) # "ok" THEN TableStatus(offer)
  ELSE IF StateStatus(offer) # "ok" THEN StateStatus(offer)
  ELSE IF ~JournalValid \/ BeginOverlaps(offer) THEN "einval" ELSE "ok"

Begin(offer) ==
  /\ pc = "caller"
  /\ IF BeginStatus(offer) = "ok"
     THEN /\ pc' = "begin" /\ start' = Here /\ view' = offer
          /\ calls' = <<"begin">> /\ base' = Ids /\ UNCHANGED ret
     ELSE Return(BeginStatus(offer)) /\ UNCHANGED <<start, view, calls, base>>
  /\ UNCHANGED <<journal, uow, issued, saved>>

BeginReturns(native) ==
  /\ pc = "begin" /\ Return(CallbackStatus(native))
  /\ uow' = IF CallbackStatus(native) = "ok"
            THEN [state |-> "ACTIVE", checkpoint |-> start] ELSE uow
  /\ UNCHANGED <<journal, start, history>>

\* arbor_ddd_transaction_view_validate; the view is part of the unit.
ViewStatus(offer) ==
  IF offer.table # "ok" THEN offer.table
  ELSE IF StateStatus(offer) # "ok" THEN StateStatus(offer)
  ELSE IF \/ Overlap(offer, {"context"}, {"unit", "interface", "state"})
          \/ Overlap(offer, {"unit"}, {"interface", "state"})
  THEN "einval" ELSE "ok"

\* unit_of_work_active_validate.
ActiveStatus ==
  IF uow.state = "ZERO" THEN "einval"
  ELSE IF ViewStatus(view) # "ok" THEN ViewStatus(view)
  ELSE IF uow.state # "ACTIVE" THEN "ealready"
  ELSE CheckpointStatus(uow.checkpoint)

\* arbor_ddd_unit_of_work_active_transaction, for memory over the regions named.
ActiveTransactionStatus(over) ==
  IF ActiveStatus # "ok" THEN ActiveStatus
  ELSE IF over \ {"binding"} # {} THEN "einval" ELSE "ok"

Call(callback) ==
  /\ pc = "caller"
  /\ IF ActiveStatus = "ok"
     THEN pc' = callback /\ calls' = Append(calls, callback) /\ UNCHANGED ret
     ELSE Return(ActiveStatus) /\ UNCHANGED calls
  /\ UNCHANGED <<journal, uow, start, issued, base, saved>>

Commit == Call("commit")
Rollback == Call("rollback")

RewindUnit ==
  IF CheckpointStatus(uow.checkpoint) = "ok"
  THEN RewindTo(uow.checkpoint) ELSE UNCHANGED <<journal, saved>>

\* Mutant: the events of a failed commit stay.
KeepEvents == UNCHANGED <<journal, saved>>

UndoCommit == RewindUnit

\* Mutant: a failed commit can be tried again.
Retryable == "ACTIVE"

AfterFailedCommit == "FAULTED"

CommitReturns(native) ==
  /\ pc = "commit" /\ Return(CallbackStatus(native))
  /\ IF CallbackStatus(native) = "ok"
     THEN uow' = [uow EXCEPT !.state = "COMMITTED"] /\ UNCHANGED <<journal, saved>>
     ELSE uow' = [uow EXCEPT !.state = AfterFailedCommit] /\ UndoCommit
  /\ UNCHANGED <<start, issued, calls, base>>

AfterRollback(status) == IF status = "ok" THEN "ROLLED_BACK" ELSE "FAULTED"

RollbackReturns(native) ==
  LET callback == CallbackStatus(native)
      status == IF callback # "ok" THEN callback
                ELSE CheckpointStatus(uow.checkpoint)
  IN /\ pc = "rollback" /\ Return(status)
     /\ RewindUnit /\ uow' = [uow EXCEPT !.state = AfterRollback(status)]
     /\ UNCHANGED <<start, issued, calls, base>>

Reset ==
  /\ pc = "caller"
  /\ CASE uow.state = "ACTIVE" -> Return("ebusy") /\ UNCHANGED uow
       [] uow.state = "ZERO" -> Return("einval") /\ UNCHANGED uow
       [] OTHER -> Return("ok") /\ uow' = ZeroUnit
  /\ UNCHANGED <<journal, start, history>>

\* The checkpoints a caller may give, its own and made-up ones.
Given == [count : 0 .. RecordCapacity, bytes : 0 .. ByteCapacity,
          generation : 1 .. MaxGeneration]

\* What begin was given stays what it is while the unit has it.
Continue ==
  /\ \/ \E size \in Sizes : Append_(size)
     \/ TakeCheckpoint \/ Clear \/ \E c \in Given : Rewind(c)
     \/ Commit \/ Rollback \/ Reset
     \/ \E native \in Natives :
          BeginReturns(native) \/ CommitReturns(native) \/ RollbackReturns(native)
  /\ UNCHANGED view

Next ==
  /\ Continue \/ \E offer \in Offers : Begin(offer)
  /\ UNCHANGED disciplined

Spec == Init /\ [][Next]_vars
-----------------------------------------------------------------------------
(***************************************************************************)
(* Properties                                                              *)
(***************************************************************************)
\* Whatever callers and callbacks do, the journal validates: checkpoint,
\* rewind, begin, commit and rollback are never refused for its shape, and
\* every event in it can be read.
JournalStaysValid ==
  JournalValid /\ \A i \in 1 .. Len(records) : EventViewStatus(i, {}) = "ok"

IsPrefixAt(c, ids) ==
  /\ Len(ids) = c.count /\ c.count <= Len(records)
  /\ \A i \in 1 .. c.count : records[i].id = ids[i]

\* A checkpoint the journal still accepts is the one that was taken: rewinding
\* to it gives back exactly the events of then, unless the journal was rewound
\* below it in between.
CheckpointMeansWhatItMeant ==
  ~saved.undercut /\ CheckpointStatus(saved.checkpoint) = "ok"
    => IsPrefixAt(saved.checkpoint, saved.ids)

\* An active unit can always be ended, and its transaction be reached: whatever
\* begin accepted, the checks made of it later accept too; and ending it badly
\* gives back exactly the events of its beginning.  Needs disciplined callers.
ActiveUnitCanEnd ==
  disciplined /\ uow.state = "ACTIVE" =>
    /\ ActiveStatus = "ok" /\ ActiveTransactionStatus({}) = "ok"
    /\ IsPrefixAt(uow.checkpoint, base)

\* The authority hears of the end of a unit once: begin, then one commit or
\* one rollback, and no retry after a failure.
AuthorityCalledOnce ==
  calls \in {<<>>, <<"begin">>, <<"begin", "commit">>, <<"begin", "rollback">>}

\* A step that ends a unit without a successful commit leaves exactly the
\* events of its beginning; one that commits keeps all of them.
EndsAtomically ==
  [][disciplined /\ uow.state = "ACTIVE" /\ uow'.state # "ACTIVE" =>
       IF uow'.state = "COMMITTED" THEN journal' = journal ELSE Ids' = base]_vars

\* What every step preserves, and from which the invariants above follow.
Anchored(c) == c.generation = generation /\ AtBoundary(c) /\ IsPrefixAt(c, base)

UnitAnchored ==
  disciplined =>
    /\ pc = "begin" => Anchored(start)
    /\ uow.state = "ACTIVE" => Anchored(uow.checkpoint)

CallMatchesState ==
  /\ pc = "begin" => uow = ZeroUnit /\ calls = <<"begin">>
  /\ pc \in {"commit", "rollback"} => uow.state = "ACTIVE"
  /\ pc = "caller" /\ uow.state = "ACTIVE" => calls = <<"begin">>
  /\ pc = "begin" \/ uow.state # "ZERO" => ViewStatus(view) = "ok"

SavedSound ==
  /\ saved.checkpoint.generation <= generation
  /\ saved.checkpoint.generation = generation /\ ~saved.undercut
       => AtBoundary(saved.checkpoint) /\ IsPrefixAt(saved.checkpoint, saved.ids)

\* That every prefix of the journal is as long as the ends of its records say.
EndsGrow ==
  \A i, j \in 1 .. Len(records) : i <= j => End(records[i]) <= End(records[j])

\* The inductive invariant: the journal is packed, the checkpoint of a unit
\* that runs and the one the caller holds still say what they said.
UnitInvariant ==
  /\ TypeOK /\ JournalValid /\ EndsGrow
  /\ UnitAnchored /\ CallMatchesState /\ SavedSound /\ AuthorityCalledOnce

\* The events seen as what a transaction promises: staged while it runs, kept
\* or dropped as a whole.  Callers without discipline are promised nothing.
StagedFrom ==
  CASE ~disciplined -> 0
    [] disciplined /\ pc = "begin" -> start.count
    [] disciplined /\ pc # "begin" /\ uow.state = "ACTIVE" -> uow.checkpoint.count
    [] OTHER -> Len(Ids)

Staging ==
  INSTANCE StagedEvents WITH
    open <- disciplined /\ (pc = "begin" \/ uow.state = "ACTIVE"),
    kept <- SubSeq(Ids, 1, StagedFrom),
    staged <- IF disciplined THEN SubSeq(Ids, StagedFrom + 1, Len(Ids)) ELSE <<>>,
    verdict <- CASE disciplined /\ uow.state = "COMMITTED" -> "kept"
                 [] disciplined /\ uow.state \in {"ROLLED_BACK", "FAULTED"} -> "dropped"
                 [] OTHER -> "none"

ImplementsStaging == Staging!Spec
=============================================================================
