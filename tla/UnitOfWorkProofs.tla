-------------------------- MODULE UnitOfWorkProofs --------------------------
(***************************************************************************)
(* Proofs about UnitOfWork for every capacity, event size and generation   *)
(* range, with disciplined callers and without.                            *)
(***************************************************************************)
EXTENDS UnitOfWork, SequenceTheorems, TLAPS

(***************************************************************************)
(* The journal                                                             *)
(***************************************************************************)

(* The end of any prefix of the journal is a natural number within it. *)
LEMMA Boundaries ==
  ASSUME TypeOK, JournalValid, NEW n \in 0 .. Len(records)
  PROVE  Boundary(records, n) \in Nat /\ Boundary(records, n) <= byteCount
<1>1. CASE n = 0
  BY <1>1 DEF TypeOK, Boundary
<1>2. CASE n # 0
  <2>1. n \in 1 .. Len(records) /\ records[n] \in Record
    BY <1>2 DEF TypeOK
  <2> QED BY <1>2, <2>1 DEF Boundary, JournalValid, End, Record
<1> QED BY <1>1, <1>2

(* An append leaves every boundary there was, and the journal packed. *)
LEMMA AppendEffect ==
  ASSUME UnitInvariant, NEW size \in Sizes, Fits(size),
         records' = Append(records,
           [id |-> issued + 1, offset |-> NextOffset, size |-> size]),
         byteCount' = byteCount + size, UNCHANGED generation
  PROVE  /\ records' \in Seq(Record) /\ Len(records') = Len(records) + 1
         /\ \A i \in 1 .. Len(records) : records'[i] = records[i]
         /\ Len(records') <= RecordCapacity /\ byteCount' \in 0 .. ByteCapacity
         /\ JournalValid' /\ EndsGrow'
<1> DEFINE new == [id |-> issued + 1, offset |-> NextOffset, size |-> size]
<1>1. new \in Record /\ size \in Nat /\ byteCount \in Nat /\ issued \in Nat
  BY UnitOfWorkAssumption DEF UnitInvariant, TypeOK, Record, NextOffset
<1>2. records \in Seq(Record) /\ Len(records) \in Nat
  BY DEF UnitInvariant, TypeOK
<1>3. /\ records' \in Seq(Record) /\ Len(records') = Len(records) + 1
      /\ \A i \in 1 .. Len(records) : records'[i] = records[i]
      /\ records'[Len(records) + 1] = new
  BY <1>1, <1>2
<1>4. Len(records') <= RecordCapacity /\ byteCount' \in 0 .. ByteCapacity
  BY <1>1, <1>2, <1>3, UnitOfWorkAssumption DEF Fits, UnitInvariant, TypeOK
<1>5. End(new) = byteCount' /\ new.offset = byteCount
  BY <1>1 DEF End, NextOffset
<1>6. \A i \in 1 .. Len(records) : End(records'[i]) = End(records[i])
                                  /\ End(records[i]) \in Nat
                                  /\ End(records[i]) <= byteCount
  <2> TAKE i \in 1 .. Len(records)
  <2>1. records[i] \in Record /\ records'[i] = records[i]
    BY <1>2, <1>3
  <2> QED BY <2>1 DEF End, UnitInvariant, JournalValid, Record
<1>7. \A n \in 0 .. Len(records) : Boundary(records', n) = Boundary(records, n)
  BY <1>2, <1>3, <1>6 DEF Boundary
<1>8. JournalValid'
  <2>1. \A i \in 1 .. Len(records) :
          records'[i].offset = Boundary(records', i - 1) /\ End(records'[i]) <= byteCount'
    BY <1>1, <1>2, <1>3, <1>6, <1>7 DEF UnitInvariant, JournalValid
  <2>2. records'[Len(records')].offset = Boundary(records', Len(records') - 1)
    BY <1>2, <1>3, <1>5, <1>7 DEF UnitInvariant, JournalValid
  <2>3. byteCount' = Boundary(records', Len(records'))
    BY <1>2, <1>3, <1>5 DEF Boundary
  <2>4. \A i \in 1 .. Len(records') :
          records'[i].offset = Boundary(records', i - 1) /\ End(records'[i]) <= byteCount'
    BY <2>1, <2>2, <1>2, <1>3, <1>4, <1>5
  <2>5. generation' # 0
    BY DEF UnitInvariant, JournalValid
  <2>6. byteCount' <= ByteCapacity
    BY <1>4, UnitOfWorkAssumption
  <2> QED BY <2>3, <2>4, <2>5, <2>6, <1>4 DEF JournalValid
<1>9. EndsGrow'
  BY <1>1, <1>2, <1>3, <1>5, <1>6 DEF UnitInvariant, EndsGrow
<1> QED BY <1>3, <1>4, <1>8, <1>9

(* What an append does to a checkpoint that was good: nothing. *)
LEMMA AppendKeepsCheckpoint ==
  ASSUME UnitInvariant, NEW c \in Checkpoint, AtBoundary(c), byteCount' \in Nat,
         Len(records') = Len(records) + 1, byteCount <= byteCount',
         \A i \in 1 .. Len(records) : records'[i] = records[i]
  PROVE  AtBoundary(c)' /\ \A ids : IsPrefixAt(c, ids) => IsPrefixAt(c, ids)'
<1>1. Len(records) \in Nat /\ c.count \in Nat /\ c.bytes \in Nat /\ byteCount \in Nat
  BY DEF UnitInvariant, TypeOK, Checkpoint
<1>2. AtBoundary(c)'
  BY <1>1 DEF AtBoundary, Boundary
<1> QED BY <1>1, <1>2 DEF IsPrefixAt

(* Rewinding to an accepted checkpoint leaves a packed journal, the records   *)
(* below it, and every boundary below it.                                    *)
LEMMA RewindEffect ==
  ASSUME UnitInvariant, NEW c \in Checkpoint, AtBoundary(c), RewindTo(c)
  PROVE  /\ records' \in Seq(Record) /\ Len(records') = c.count
         /\ \A i \in 1 .. c.count : records'[i] = records[i]
         /\ Len(records') <= RecordCapacity /\ byteCount' \in 0 .. ByteCapacity
         /\ byteCount' = c.bytes /\ generation' = generation
         /\ JournalValid' /\ EndsGrow'
<1>1. /\ records \in Seq(Record) /\ Len(records) \in Nat /\ byteCount \in Nat
      /\ c.count \in 0 .. Len(records) /\ c.bytes \in 0 .. byteCount
      /\ Len(records) <= RecordCapacity /\ byteCount \in 0 .. ByteCapacity
  BY DEF UnitInvariant, TypeOK, Checkpoint, AtBoundary
<1>2. records' = SubSeq(records, 1, c.count) /\ byteCount' = c.bytes
      /\ generation' = generation
  BY DEF RewindTo, BytesAfter
<1>3. /\ records' \in Seq(Record) /\ Len(records') = c.count
      /\ \A i \in 1 .. c.count : records'[i] = records[i]
  BY <1>1, <1>2
<1>4. Len(records') <= RecordCapacity /\ byteCount' \in 0 .. ByteCapacity
  BY <1>1, <1>2, <1>3, UnitOfWorkAssumption
<1>5. \A n \in 0 .. c.count : Boundary(records', n) = Boundary(records, n)
  BY <1>1, <1>3 DEF Boundary, End
<1>6. byteCount' = Boundary(records, c.count)
  BY <1>2 DEF AtBoundary
<1>7. \A i \in 1 .. c.count : End(records'[i]) <= byteCount'
  <2> TAKE i \in 1 .. c.count
  <2>1. End(records[i]) <= End(records[c.count]) /\ c.count # 0
    BY <1>1 DEF UnitInvariant, EndsGrow
  <2> QED BY <2>1, <1>1, <1>3, <1>6 DEF Boundary
<1>8. JournalValid'
  <2>1. \A i \in 1 .. c.count : records'[i].offset = Boundary(records', i - 1)
    <3> TAKE i \in 1 .. c.count
    <3>1. i \in 1 .. Len(records) /\ i - 1 \in 0 .. c.count /\ records'[i] = records[i]
      BY <1>1, <1>3
    <3>2. records[i].offset = Boundary(records, i - 1)
      BY <3>1 DEF UnitInvariant, JournalValid
    <3> QED BY <3>1, <3>2, <1>5
  <2>2. byteCount' = Boundary(records', Len(records'))
    BY <1>1, <1>3, <1>5, <1>6
  <2>3. generation' # 0 /\ byteCount' <= ByteCapacity
    BY <1>2, <1>4, UnitOfWorkAssumption DEF UnitInvariant, JournalValid
  <2> QED BY <2>1, <2>2, <2>3, <1>3, <1>4, <1>7 DEF JournalValid
<1>9. EndsGrow'
  BY <1>1, <1>3 DEF UnitInvariant, EndsGrow
<1> QED BY <1>2, <1>3, <1>4, <1>8, <1>9

(* A checkpoint not above the one rewound to stays good. *)
LEMMA RewindKeepsLower ==
  ASSUME UnitInvariant, NEW c \in Checkpoint, AtBoundary(c), RewindTo(c),
         NEW d \in Checkpoint, AtBoundary(d), d.count <= c.count
  PROVE  AtBoundary(d)' /\ \A ids : IsPrefixAt(d, ids) => IsPrefixAt(d, ids)'
<1>1. /\ Len(records) \in Nat /\ c.count \in 0 .. Len(records)
      /\ d.count \in 0 .. c.count /\ d.bytes \in Nat
      /\ records \in Seq(Record)
  BY DEF UnitInvariant, TypeOK, Checkpoint, AtBoundary
<1>2. /\ Len(records') = c.count /\ byteCount' = c.bytes
      /\ \A i \in 1 .. c.count : records'[i] = records[i]
  BY RewindEffect
<1>3. Boundary(records', d.count) = Boundary(records, d.count)
  BY <1>1, <1>2 DEF Boundary, End
<1>4. Boundary(records, d.count) <= Boundary(records, c.count)
  <2>1. CASE d.count = 0
    BY <2>1, <1>1, Boundaries DEF Boundary, UnitInvariant
  <2>2. CASE d.count # 0
    BY <2>2, <1>1 DEF UnitInvariant, EndsGrow, Boundary
  <2> QED BY <2>1, <2>2
<1>5. AtBoundary(d)'
  BY <1>1, <1>2, <1>3, <1>4 DEF AtBoundary
<1> QED BY <1>1, <1>2, <1>5 DEF IsPrefixAt

(* A status of "ok" is the three conditions. *)
LEMMA StatusOk ==
  ASSUME NEW c
  PROVE  CheckpointStatus(c) = "ok" <=>
           JournalValid /\ c.generation = generation /\ AtBoundary(c)
BY DEF CheckpointStatus

LEMMA StatusTypes ==
  ASSUME NEW c
  PROVE  CheckpointStatus(c) \in {"ok", "einval", "estale"}
BY DEF CheckpointStatus
-----------------------------------------------------------------------------
(***************************************************************************)
(* Every step preserves the invariant                                      *)
(***************************************************************************)
(* A step that leaves the journal alone leaves all that is said of it alone. *)
LEMMA JournalAlone ==
  ASSUME UnitInvariant, UNCHANGED journal
  PROVE  /\ JournalValid' /\ EndsGrow'
         /\ \A c : AtBoundary(c)' <=> AtBoundary(c)
         /\ \A c, ids : IsPrefixAt(c, ids)' <=> IsPrefixAt(c, ids)
BY DEF UnitInvariant, JournalValid, EndsGrow, AtBoundary, IsPrefixAt, journal

LEMMA HereIsGood ==
  ASSUME UnitInvariant
  PROVE  /\ Here \in Checkpoint /\ AtBoundary(Here) /\ Here.generation = generation
         /\ IsPrefixAt(Here, Ids) /\ Ids \in Seq(Nat)
<1>1. records \in Seq(Record) /\ Len(records) \in Nat /\ byteCount \in Nat
      /\ generation \in Nat
  BY DEF UnitInvariant, TypeOK
<1>2. \A i \in 1 .. Len(records) : records[i].id \in Nat
  <2> TAKE i \in 1 .. Len(records)
  <2>1. records[i] \in Record
    BY <1>1
  <2> QED BY <2>1 DEF Record
<1>3. Ids \in Seq(Nat) /\ Len(Ids) = Len(records)
      /\ \A i \in 1 .. Len(records) : Ids[i] = records[i].id
  BY <1>1, <1>2 DEF Ids
<1> QED BY <1>1, <1>3 DEF Here, Checkpoint, AtBoundary, IsPrefixAt, UnitInvariant,
                          JournalValid

LEMMA InitHolds == Init => UnitInvariant
<1> SUFFICES ASSUME Init PROVE UnitInvariant
  OBVIOUS
<1> USE UnitOfWorkAssumption
<1>1. records = <<>> /\ records \in Seq(Record) /\ Len(records) = 0
  BY DEF Init
<1>2. TypeOK
  BY <1>1 DEF Init, TypeOK, ZeroUnit, ZeroCheckpoint, Checkpoint, NoOffer, Offer
<1>3. JournalValid /\ EndsGrow
  BY <1>1 DEF Init, JournalValid, EndsGrow, Boundary
<1>4. UnitAnchored /\ CallMatchesState /\ SavedSound /\ AuthorityCalledOnce
  BY DEF Init, UnitAnchored, CallMatchesState, SavedSound, AuthorityCalledOnce,
         ZeroUnit, ZeroCheckpoint
<1> QED BY <1>2, <1>3, <1>4 DEF UnitInvariant

LEMMA AppendPreserves ==
  ASSUME UnitInvariant, UNCHANGED disciplined, UNCHANGED view, NEW size \in Sizes, Append_(size)
  PROVE  UnitInvariant'
<1>1. CASE Fits(size)
  <2>1. /\ records' = Append(records,
                [id |-> issued + 1, offset |-> NextOffset, size |-> size])
        /\ byteCount' = byteCount + size /\ issued' = issued + 1
        /\ UNCHANGED <<generation, ret, uow, pc, start, calls, base, saved>>
    BY <1>1 DEF Append_
  <2>2. /\ records' \in Seq(Record) /\ Len(records') = Len(records) + 1
        /\ \A i \in 1 .. Len(records) : records'[i] = records[i]
        /\ Len(records') <= RecordCapacity /\ byteCount' \in 0 .. ByteCapacity
        /\ JournalValid' /\ EndsGrow'
    BY <1>1, <2>1, AppendEffect
  <2>3. byteCount' \in Nat /\ byteCount <= byteCount'
    BY <2>1, UnitOfWorkAssumption DEF UnitInvariant, TypeOK
  <2>4. \A c \in Checkpoint : AtBoundary(c) =>
          AtBoundary(c)' /\ \A ids : IsPrefixAt(c, ids) => IsPrefixAt(c, ids)'
    BY <2>2, <2>3, AppendKeepsCheckpoint
  <2>5. TypeOK'
    BY <2>1, <2>2 DEF UnitInvariant, TypeOK
  <2>6. UnitAnchored'
    BY <2>1, <2>4 DEF UnitInvariant, UnitAnchored, Anchored, TypeOK
  <2>7. SavedSound'
    BY <2>1, <2>4 DEF UnitInvariant, SavedSound, TypeOK
  <2>8. CallMatchesState' /\ AuthorityCalledOnce'
    BY <2>1 DEF UnitInvariant, CallMatchesState, AuthorityCalledOnce
  <2> QED BY <2>2, <2>5, <2>6, <2>7, <2>8 DEF UnitInvariant
<1>2. CASE ~Fits(size)
  <2>1. ret' = "enospc"
        /\ UNCHANGED <<records, byteCount, generation, uow, pc, start, issued,
                       calls, base, saved>>
    BY <1>2 DEF Append_
  <2>2. JournalValid' /\ EndsGrow'
    BY <2>1, JournalAlone DEF journal
  <2> QED BY <2>1, <2>2 DEF UnitInvariant, TypeOK, UnitAnchored, Anchored, AtBoundary,
         IsPrefixAt, SavedSound, CallMatchesState, AuthorityCalledOnce
<1> QED BY <1>1, <1>2

LEMMA TakeCheckpointPreserves ==
  ASSUME UnitInvariant, UNCHANGED disciplined, UNCHANGED view, TakeCheckpoint
  PROVE  UnitInvariant'
<1>1. JournalValid' /\ EndsGrow'
  BY JournalAlone DEF TakeCheckpoint
<1>2. UNCHANGED <<records, byteCount, generation, uow, pc, start, issued, calls, base>>
      /\ ret' = "ok" /\ saved' = [checkpoint |-> Here, ids |-> Ids, undercut |-> FALSE]
  BY DEF TakeCheckpoint, journal
<1>3. TypeOK'
  BY <1>2, HereIsGood DEF UnitInvariant, TypeOK
<1>4. SavedSound'
  BY <1>2, HereIsGood DEF SavedSound, AtBoundary, IsPrefixAt, UnitInvariant, TypeOK
<1>5. UnitAnchored' /\ CallMatchesState' /\ AuthorityCalledOnce'
  BY <1>2 DEF UnitInvariant, UnitAnchored, Anchored, AtBoundary, IsPrefixAt,
              CallMatchesState, AuthorityCalledOnce
<1> QED BY <1>1, <1>3, <1>4, <1>5 DEF UnitInvariant

(* What a rewind to an accepted checkpoint does to the caller's own one. *)
LEMMA RewindKeepsSaved ==
  ASSUME UnitInvariant, NEW c \in Checkpoint, AtBoundary(c), RewindTo(c)
  PROVE  /\ SavedSound'
         /\ saved' \in [checkpoint : Checkpoint, ids : Seq(Nat), undercut : BOOLEAN]
<1>1. /\ saved \in [checkpoint : Checkpoint, ids : Seq(Nat), undercut : BOOLEAN]
      /\ saved.checkpoint \in Checkpoint /\ c.count \in Nat
      /\ saved.checkpoint.count \in Nat
  BY DEF UnitInvariant, TypeOK, Checkpoint
<1>2. /\ saved' \in [checkpoint : Checkpoint, ids : Seq(Nat), undercut : BOOLEAN]
      /\ saved'.checkpoint = saved.checkpoint /\ saved'.ids = saved.ids
      /\ saved'.undercut <=> saved.undercut \/ c.count < saved.checkpoint.count
  BY <1>1 DEF RewindTo
<1>3. generation' = generation
  BY DEF RewindTo
<1>4. ASSUME saved.checkpoint.generation = generation, ~saved'.undercut
      PROVE  AtBoundary(saved.checkpoint)' /\ IsPrefixAt(saved.checkpoint, saved.ids)'
  <2>1. AtBoundary(saved.checkpoint) /\ IsPrefixAt(saved.checkpoint, saved.ids)
    BY <1>2, <1>4 DEF UnitInvariant, SavedSound
  <2>2. saved.checkpoint.count <= c.count
    BY <1>1, <1>2, <1>4
  <2>3. PICK d : d = saved.checkpoint
    OBVIOUS
  <2>4. PICK ids : ids = saved.ids
    OBVIOUS
  <2>5. AtBoundary(d)' /\ IsPrefixAt(d, ids)'
    BY <2>1, <2>2, <2>3, <2>4, <1>1, RewindKeepsLower
  <2> QED BY <2>3, <2>4, <2>5, <1>2 DEF AtBoundary, IsPrefixAt
<1>5. SavedSound'
  BY <1>2, <1>3, <1>4 DEF UnitInvariant, SavedSound
<1> QED BY <1>2, <1>5

LEMMA RewindPreserves ==
  ASSUME UnitInvariant, UNCHANGED disciplined, UNCHANGED view, NEW c \in Given, Rewind(c)
  PROVE  UnitInvariant'
<1>1. c \in Checkpoint
  BY UnitOfWorkAssumption DEF Given, Checkpoint
<1>2. /\ UNCHANGED <<uow, pc, start, issued, calls, base>> /\ MayMutate
      /\ ret' = CheckpointStatus(c)
  BY DEF Rewind
<1>3. ret' \in {"ok", "einval", "estale"}
  BY <1>2, StatusTypes
<1>4. CASE CheckpointStatus(c) = "ok"
  <2>1. RewindTo(c) /\ AtBoundary(c)
    BY <1>4, StatusOk DEF Rewind
  <2>2. /\ records' \in Seq(Record) /\ Len(records') <= RecordCapacity
        /\ byteCount' \in 0 .. ByteCapacity /\ generation' = generation
        /\ JournalValid' /\ EndsGrow'
    BY <1>1, <2>1, RewindEffect
  <2>3. /\ SavedSound'
        /\ saved' \in [checkpoint : Checkpoint, ids : Seq(Nat), undercut : BOOLEAN]
    BY <1>1, <2>1, RewindKeepsSaved
  <2>4. TypeOK'
    BY <1>2, <1>3, <2>2, <2>3 DEF UnitInvariant, TypeOK
  <2>5. UnitAnchored'
    BY <1>2 DEF UnitAnchored, MayMutate
  <2>6. CallMatchesState' /\ AuthorityCalledOnce'
    BY <1>2 DEF UnitInvariant, CallMatchesState, AuthorityCalledOnce
  <2> QED BY <2>2, <2>3, <2>4, <2>5, <2>6 DEF UnitInvariant
<1>5. CASE CheckpointStatus(c) # "ok"
  <2>1. UNCHANGED <<records, byteCount, generation, saved>>
    BY <1>5 DEF Rewind, journal
  <2>2. JournalValid' /\ EndsGrow'
    BY <2>1, JournalAlone DEF journal
  <2> QED BY <1>2, <1>3, <2>1, <2>2 DEF UnitInvariant, TypeOK, UnitAnchored, Anchored,
         AtBoundary, IsPrefixAt, SavedSound, CallMatchesState, AuthorityCalledOnce
<1> QED BY <1>4, <1>5

LEMMA ClearPreserves ==
  ASSUME UnitInvariant, UNCHANGED disciplined, UNCHANGED view, Clear
  PROVE  UnitInvariant'
<1>1. MayMutate /\ UNCHANGED <<uow, pc, start, issued, calls, base, saved>>
  BY DEF Clear, history
<1>2. CASE generation = MaxGeneration
  <2>1. ret' = "eoverflow" /\ UNCHANGED <<records, byteCount, generation>>
    BY <1>2 DEF Clear, journal
  <2>2. JournalValid' /\ EndsGrow'
    BY <2>1, JournalAlone DEF journal
  <2> QED BY <1>1, <2>1, <2>2 DEF UnitInvariant, TypeOK, UnitAnchored, Anchored,
         AtBoundary, IsPrefixAt, SavedSound, CallMatchesState, AuthorityCalledOnce
<1>3. CASE generation # MaxGeneration
  <2>1. /\ records' = <<>> /\ byteCount' = 0 /\ generation' = generation + 1
        /\ ret' = "ok"
    BY <1>3 DEF Clear, NextGeneration
  <2>2. records' \in Seq(Record) /\ Len(records') = 0
    BY <2>1
  <2>3. generation' \in 1 .. MaxGeneration /\ generation < generation'
    BY <1>3, <2>1, UnitOfWorkAssumption DEF UnitInvariant, TypeOK
  <2>4. TypeOK'
    BY <1>1, <2>1, <2>2, <2>3, UnitOfWorkAssumption DEF UnitInvariant, TypeOK
  <2>5. JournalValid' /\ EndsGrow'
    BY <2>1, <2>2, <2>3, UnitOfWorkAssumption DEF JournalValid, EndsGrow, Boundary
  <2>6. UnitAnchored'
    BY <1>1 DEF UnitAnchored, MayMutate
  <2>7. SavedSound'
    <3>1. saved.checkpoint.generation \in Nat /\ generation \in Nat
      BY DEF UnitInvariant, TypeOK, Checkpoint
    <3> QED BY <1>1, <2>3, <3>1 DEF UnitInvariant, SavedSound
  <2>8. CallMatchesState' /\ AuthorityCalledOnce'
    BY <1>1 DEF UnitInvariant, CallMatchesState, AuthorityCalledOnce
  <2> QED BY <2>4, <2>5, <2>6, <2>7, <2>8 DEF UnitInvariant
<1> QED BY <1>2, <1>3

(* What begin accepts, every later look at the transaction accepts; the     *)
(* statuses are the model's.                                                 *)
LEMMA BegunCanBeViewed ==
  ASSUME NEW offer \in Offer, BeginStatus(offer) = "ok"
  PROVE  uow = ZeroUnit /\ ViewStatus(offer) = "ok"
<1>1. /\ uow = ZeroUnit /\ TableStatus(offer) = "ok" /\ StateStatus(offer) = "ok"
      /\ ~BeginOverlaps(offer)
  BY DEF BeginStatus
<1>2. offer.table = "ok"
  BY <1>1 DEF TableStatus
<1>3. ~Overlap(offer, Guarded, Regions)
  BY <1>1 DEF BeginOverlaps
<1>4. ~Overlap(offer, {"context"}, {"unit", "interface", "state"})
      /\ ~Overlap(offer, {"unit"}, {"interface", "state"})
  BY <1>3 DEF Overlap, Guarded, Regions
<1> QED BY <1>1, <1>2, <1>4 DEF ViewStatus

LEMMA BeginStatusTypes ==
  ASSUME NEW offer \in Offer
  PROVE  BeginStatus(offer) \in {"ok", "einval", "eprotonosupport"}
<1>1. offer.table \in {"ok", "einval", "eprotonosupport"}
  BY DEF Offer
<1> QED BY <1>1 DEF BeginStatus, TableStatus, StateStatus

LEMMA BeginPreserves ==
  ASSUME UnitInvariant, UNCHANGED disciplined, NEW offer \in Offers, Begin(offer)
  PROVE  UnitInvariant'
<1>0. offer \in Offer
  BY UnitOfWorkAssumption
<1>1. pc = "caller" /\ UNCHANGED <<records, byteCount, generation, uow, issued, saved>>
  BY DEF Begin, journal
<1>2. JournalValid' /\ EndsGrow'
  BY <1>1, JournalAlone DEF journal
<1>3. SavedSound'
  BY <1>1 DEF UnitInvariant, SavedSound, AtBoundary, IsPrefixAt
<1>4. CASE BeginStatus(offer) # "ok"
  <2>1. /\ pc' = "caller" /\ ret' = BeginStatus(offer)
        /\ UNCHANGED <<start, view, calls, base>>
    BY <1>4 DEF Begin, Return
  <2>2. ret' \in {"ok", "einval", "eprotonosupport"}
    BY <1>0, <2>1, BeginStatusTypes
  <2>3. TypeOK'
    BY <1>1, <2>1, <2>2 DEF UnitInvariant, TypeOK
  <2>4. UnitAnchored' /\ CallMatchesState' /\ AuthorityCalledOnce'
    BY <1>1, <2>1 DEF UnitInvariant, UnitAnchored, Anchored, AtBoundary, IsPrefixAt,
       CallMatchesState, AuthorityCalledOnce
  <2> QED BY <1>2, <1>3, <2>3, <2>4 DEF UnitInvariant
<1>5. CASE BeginStatus(offer) = "ok"
  <2>1. /\ pc' = "begin" /\ start' = Here /\ view' = offer
        /\ calls' = <<"begin">> /\ base' = Ids /\ ret' = ret
    BY <1>5 DEF Begin
  <2>2. uow = ZeroUnit /\ ViewStatus(view') = "ok"
    BY <1>0, <1>5, <2>1, BegunCanBeViewed
  <2>3. TypeOK'
    BY <1>0, <1>1, <2>1, HereIsGood DEF UnitInvariant, TypeOK
  <2>4. UnitAnchored'
    BY <1>1, <2>1, <2>2, HereIsGood DEF UnitAnchored, Anchored, AtBoundary, IsPrefixAt, ZeroUnit
  <2>5. CallMatchesState' /\ AuthorityCalledOnce'
    BY <1>1, <2>1, <2>2 DEF CallMatchesState, AuthorityCalledOnce
  <2> QED BY <1>2, <1>3, <2>3, <2>4, <2>5 DEF UnitInvariant
<1> QED BY <1>4, <1>5

LEMMA CallbackStatuses ==
  ASSUME NEW native \in Natives
  PROVE  CallbackStatus(native) \in {"ok", "failed", "einval"}
BY DEF Natives, CallbackStatus

LEMMA BeginReturnsPreserves ==
  ASSUME UnitInvariant, UNCHANGED disciplined, UNCHANGED view, NEW native \in Natives, BeginReturns(native)
  PROVE  UnitInvariant'
<1>1. /\ pc = "begin" /\ pc' = "caller"
      /\ ret' \in {"ok", "failed", "einval"}
      /\ UNCHANGED <<records, byteCount, generation, start, issued, calls, base, saved>>
  BY CallbackStatuses DEF BeginReturns, Return, journal, history
<1>2. uow' = [state |-> "ACTIVE", checkpoint |-> start] \/ uow' = uow
  BY DEF BeginReturns
<1>3. uow = ZeroUnit /\ calls = <<"begin">> /\ ViewStatus(view) = "ok"
  BY <1>1 DEF UnitInvariant, CallMatchesState
<1>4. JournalValid' /\ EndsGrow'
  BY <1>1, JournalAlone DEF journal
<1>5. TypeOK'
  BY <1>1, <1>2 DEF UnitInvariant, TypeOK
<1>6. UnitAnchored'
  BY <1>1, <1>2, <1>3 DEF UnitInvariant, UnitAnchored, Anchored, AtBoundary, IsPrefixAt,
     ZeroUnit
<1>7. SavedSound'
  BY <1>1 DEF UnitInvariant, SavedSound, AtBoundary, IsPrefixAt
<1>8. CallMatchesState' /\ AuthorityCalledOnce'
  BY <1>1, <1>3 DEF CallMatchesState, AuthorityCalledOnce
<1> QED BY <1>4, <1>5, <1>6, <1>7, <1>8 DEF UnitInvariant

(* Only an active unit with a good checkpoint reaches the authority. *)
LEMMA ActiveStatusOk ==
  ASSUME ActiveStatus = "ok", UnitInvariant
  PROVE  uow.state = "ACTIVE" /\ CheckpointStatus(uow.checkpoint) = "ok"
BY DEF ActiveStatus, UnitInvariant, TypeOK

LEMMA ActiveStatusTypes ==
  ASSUME UnitInvariant
  PROVE  ActiveStatus \in {"ok", "einval", "estale", "ealready", "eprotonosupport"}
<1>1. view.table \in {"ok", "einval", "eprotonosupport"}
  BY DEF UnitInvariant, TypeOK, Offer
<1>2. ViewStatus(view) \in {"ok", "einval", "eprotonosupport"}
  BY <1>1 DEF ViewStatus, StateStatus
<1> QED BY <1>2, StatusTypes DEF ActiveStatus

LEMMA TwoCalls ==
  ASSUME NEW S, NEW a \in S, NEW b \in S
  PROVE  Append(<<a>>, b) = <<a, b>> /\ <<a, b>> \in Seq(S)
<1>1. <<a>> \in Seq(S) /\ Len(<<a>>) = 1 /\ <<a>>[1] = a
  OBVIOUS
<1>2. /\ Append(<<a>>, b) \in Seq(S) /\ Len(Append(<<a>>, b)) = 2
      /\ Append(<<a>>, b)[1] = a /\ Append(<<a>>, b)[2] = b
  BY <1>1
<1>3. <<a, b>> \in Seq(S) /\ Len(<<a, b>>) = 2 /\ <<a, b>>[1] = a /\ <<a, b>>[2] = b
  OBVIOUS
<1>4. \A i \in 1 .. 2 : Append(<<a>>, b)[i] = <<a, b>>[i]
  BY <1>2, <1>3
<1> QED BY <1>2, <1>3, <1>4, SeqEqual

LEMMA CallPreserves ==
  ASSUME UnitInvariant, UNCHANGED disciplined, UNCHANGED view,
         NEW callback \in {"commit", "rollback"}, Call(callback)
  PROVE  UnitInvariant'
<1>1. /\ pc = "caller"
      /\ UNCHANGED <<records, byteCount, generation, uow, start, issued, base, saved>>
  BY DEF Call, journal
<1>2. JournalValid' /\ EndsGrow'
  BY <1>1, JournalAlone DEF journal
<1>3. SavedSound'
  BY <1>1 DEF UnitInvariant, SavedSound, AtBoundary, IsPrefixAt
<1>4. CASE ActiveStatus = "ok"
  <2>1. pc' = callback /\ calls' = Append(calls, callback) /\ ret' = ret
    BY <1>4 DEF Call
  <2>2. uow.state = "ACTIVE" /\ calls = <<"begin">> /\ ViewStatus(view) = "ok"
    BY <1>1, <1>4, ActiveStatusOk DEF UnitInvariant, CallMatchesState
  <2>3. calls' \in {<<"begin", "commit">>, <<"begin", "rollback">>}
    <3>0. "begin" \in {"begin", "commit", "rollback"}
          /\ callback \in {"begin", "commit", "rollback"}
      OBVIOUS
    <3>1. Append(<<"begin">>, callback) = <<"begin", callback>>
      BY <3>0, TwoCalls
    <3>2. callback = "commit" \/ callback = "rollback"
      OBVIOUS
    <3> QED BY <2>1, <2>2, <3>1, <3>2
  <2>4. calls' \in Seq({"begin", "commit", "rollback"})
    BY <2>1 DEF UnitInvariant, TypeOK
  <2>5. TypeOK'
    BY <1>1, <2>1, <2>4 DEF UnitInvariant, TypeOK
  <2>6. UnitAnchored'
    BY <1>1, <2>1 DEF UnitInvariant, UnitAnchored, Anchored, AtBoundary, IsPrefixAt
  <2>7. CallMatchesState' /\ AuthorityCalledOnce'
    BY <1>1, <2>1, <2>2, <2>3 DEF CallMatchesState, AuthorityCalledOnce
  <2> QED BY <1>2, <1>3, <2>5, <2>6, <2>7 DEF UnitInvariant
<1>5. CASE ActiveStatus # "ok"
  <2>1. pc' = "caller" /\ ret' = ActiveStatus /\ calls' = calls
    BY <1>5 DEF Call, Return
  <2>2. TypeOK'
    BY <1>1, <2>1, ActiveStatusTypes DEF UnitInvariant, TypeOK
  <2> QED BY <1>1, <1>2, <1>3, <2>1, <2>2 DEF UnitInvariant, UnitAnchored, Anchored,
         AtBoundary, IsPrefixAt, CallMatchesState, AuthorityCalledOnce
<1> QED BY <1>4, <1>5

(* What ending a unit does to the journal, when the unit's events are undone. *)
LEMMA RewindUnitEffect ==
  ASSUME UnitInvariant, RewindUnit
  PROVE  /\ records' \in Seq(Record) /\ Len(records') <= RecordCapacity
         /\ byteCount' \in 0 .. ByteCapacity /\ generation' = generation
         /\ saved' \in [checkpoint : Checkpoint, ids : Seq(Nat), undercut : BOOLEAN]
         /\ JournalValid' /\ EndsGrow' /\ SavedSound'
<1>1. uow.checkpoint \in Checkpoint
  BY DEF UnitInvariant, TypeOK
<1>2. CASE CheckpointStatus(uow.checkpoint) = "ok"
  <2>1. RewindTo(uow.checkpoint) /\ AtBoundary(uow.checkpoint)
    BY <1>2, StatusOk DEF RewindUnit
  <2>2. PICK c \in Checkpoint : c = uow.checkpoint
    BY <1>1
  <2>3. RewindTo(c) /\ AtBoundary(c)
    BY <2>1, <2>2
  <2> QED BY <2>3, RewindEffect, RewindKeepsSaved
<1>3. CASE CheckpointStatus(uow.checkpoint) # "ok"
  <2>1. UNCHANGED <<records, byteCount, generation, saved>>
    BY <1>3 DEF RewindUnit, journal
  <2>2. JournalValid' /\ EndsGrow'
    BY <2>1, JournalAlone DEF journal
  <2> QED BY <2>1, <2>2 DEF UnitInvariant, TypeOK, SavedSound, AtBoundary, IsPrefixAt
<1> QED BY <1>2, <1>3

(* The rest of the invariant, when a unit that was active has ended. *)
LEMMA EndPreserves ==
  ASSUME UnitInvariant, UNCHANGED disciplined, UNCHANGED view,
         NEW state \in {"COMMITTED", "ROLLED_BACK", "FAULTED"},
         NEW status \in {"ok", "failed", "einval", "estale"},
         Return(status), uow' = [uow EXCEPT !.state = state],
         UNCHANGED <<start, issued, calls, base>>, uow.state = "ACTIVE",
         RewindUnit \/ UNCHANGED <<journal, saved>>
  PROVE  UnitInvariant'
<1>1. /\ records' \in Seq(Record) /\ Len(records') <= RecordCapacity
      /\ byteCount' \in 0 .. ByteCapacity /\ generation' = generation
      /\ saved' \in [checkpoint : Checkpoint, ids : Seq(Nat), undercut : BOOLEAN]
      /\ JournalValid' /\ EndsGrow' /\ SavedSound'
  <2>1. CASE RewindUnit
    BY <2>1, RewindUnitEffect
  <2>2. CASE UNCHANGED <<journal, saved>>
    <3>1. JournalValid' /\ EndsGrow'
      BY <2>2, JournalAlone
    <3> QED BY <2>2, <3>1 DEF UnitInvariant, TypeOK, SavedSound, AtBoundary, IsPrefixAt,
                              journal
  <2> QED BY <2>1, <2>2
<1>2. pc' = "caller" /\ ret' = status
  BY DEF Return
<1>3. /\ uow'.state = state /\ uow'.state # "ACTIVE"
      /\ uow' \in [state : {"ZERO", "ACTIVE", "COMMITTED", "ROLLED_BACK", "FAULTED"},
                    checkpoint : Checkpoint]
  BY DEF UnitInvariant, TypeOK
<1>4. TypeOK'
  BY <1>1, <1>2, <1>3 DEF UnitInvariant, TypeOK
<1>5. ViewStatus(view) = "ok"
  BY DEF UnitInvariant, CallMatchesState
<1>6. UnitAnchored' /\ CallMatchesState' /\ AuthorityCalledOnce'
  BY <1>2, <1>3, <1>5 DEF UnitInvariant, UnitAnchored, CallMatchesState, AuthorityCalledOnce
<1> QED BY <1>1, <1>4, <1>6 DEF UnitInvariant

LEMMA CommitReturnsPreserves ==
  ASSUME UnitInvariant, UNCHANGED disciplined, UNCHANGED view, NEW native \in Natives, CommitReturns(native)
  PROVE  UnitInvariant'
<1>1. CallbackStatus(native) \in {"ok", "failed", "einval"}
  BY CallbackStatuses
<1>2. /\ Return(CallbackStatus(native)) /\ UNCHANGED <<start, issued, calls, base>>
      /\ uow.state = "ACTIVE"
  BY DEF CommitReturns, UnitInvariant, CallMatchesState
<1>3. \/ uow' = [uow EXCEPT !.state = "COMMITTED"] /\ UNCHANGED <<journal, saved>>
      \/ uow' = [uow EXCEPT !.state = "FAULTED"] /\ RewindUnit
  BY DEF CommitReturns, AfterFailedCommit, UndoCommit
<1> QED BY <1>1, <1>2, <1>3, EndPreserves

LEMMA RollbackReturnsPreserves ==
  ASSUME UnitInvariant, UNCHANGED disciplined, UNCHANGED view, NEW native \in Natives, RollbackReturns(native)
  PROVE  UnitInvariant'
<1> DEFINE status == IF CallbackStatus(native) # "ok" THEN CallbackStatus(native)
                     ELSE CheckpointStatus(uow.checkpoint)
<1>1. status \in {"ok", "failed", "einval", "estale"}
  BY CallbackStatuses, StatusTypes
<1>2. /\ Return(status) /\ UNCHANGED <<start, issued, calls, base>> /\ RewindUnit
      /\ uow' = [uow EXCEPT !.state = AfterRollback(status)] /\ uow.state = "ACTIVE"
  BY DEF RollbackReturns, UnitInvariant, CallMatchesState
<1>3. AfterRollback(status) \in {"ROLLED_BACK", "FAULTED"}
  BY DEF AfterRollback
<1> QED BY <1>1, <1>2, <1>3, EndPreserves

LEMMA ResetPreserves ==
  ASSUME UnitInvariant, UNCHANGED disciplined, UNCHANGED view, Reset
  PROVE  UnitInvariant'
<1>1. /\ pc = "caller" /\ pc' = "caller" /\ ret' \in {"ok", "ebusy", "einval"}
      /\ uow' = uow \/ uow' = ZeroUnit
      /\ UNCHANGED <<records, byteCount, generation, start, issued, calls, base, saved>>
  BY DEF Reset, Return, journal, history
<1>2. JournalValid' /\ EndsGrow'
  BY <1>1, JournalAlone DEF journal
<1>3. TypeOK'
  BY <1>1 DEF UnitInvariant, TypeOK, ZeroUnit, ZeroCheckpoint, Checkpoint
<1>4. UnitAnchored' /\ CallMatchesState' /\ SavedSound' /\ AuthorityCalledOnce'
  BY <1>1 DEF UnitInvariant, UnitAnchored, Anchored, AtBoundary, IsPrefixAt,
     CallMatchesState, SavedSound, AuthorityCalledOnce, ZeroUnit
<1> QED BY <1>2, <1>3, <1>4 DEF UnitInvariant

LEMMA StutterPreserves ==
  ASSUME UnitInvariant, UNCHANGED vars
  PROVE  UnitInvariant'
<1>1. JournalValid' /\ EndsGrow'
  BY JournalAlone DEF vars
<1> QED BY <1>1 DEF vars, journal, history, UnitInvariant, TypeOK, UnitAnchored, Anchored,
     AtBoundary, IsPrefixAt, CallMatchesState, SavedSound, AuthorityCalledOnce
-----------------------------------------------------------------------------
(***************************************************************************)
(* The theorems                                                            *)
(***************************************************************************)
LEMMA StepPreserves == UnitInvariant /\ [Next]_vars => UnitInvariant'
<1> SUFFICES ASSUME UnitInvariant, [Next]_vars
             PROVE  UnitInvariant'
  OBVIOUS
<1>0. ASSUME UNCHANGED disciplined, Continue PROVE UnitInvariant'
  <2>0. UNCHANGED view
    BY <1>0 DEF Continue
  <2>1. ASSUME NEW size \in Sizes, Append_(size) PROVE UnitInvariant'
    BY <1>0, <2>0, <2>1, AppendPreserves
  <2>2. CASE TakeCheckpoint
    BY <1>0, <2>0, <2>2, TakeCheckpointPreserves
  <2>3. CASE Clear
    BY <1>0, <2>0, <2>3, ClearPreserves
  <2>4. ASSUME NEW c \in Given, Rewind(c) PROVE UnitInvariant'
    BY <1>0, <2>0, <2>4, RewindPreserves
  <2>6. CASE Commit
    BY <1>0, <2>0, <2>6, CallPreserves DEF Commit
  <2>7. CASE Rollback
    BY <1>0, <2>0, <2>7, CallPreserves DEF Rollback
  <2>8. CASE Reset
    BY <1>0, <2>0, <2>8, ResetPreserves
  <2>9. ASSUME NEW native \in Natives,
               BeginReturns(native) \/ CommitReturns(native) \/ RollbackReturns(native)
        PROVE  UnitInvariant'
    BY <1>0, <2>0, <2>9, BeginReturnsPreserves, CommitReturnsPreserves,
       RollbackReturnsPreserves
  <2> QED BY <1>0, <2>1, <2>2, <2>3, <2>4, <2>6, <2>7, <2>8, <2>9 DEF Continue
<1>1. ASSUME UNCHANGED disciplined, NEW offer \in Offers, Begin(offer) PROVE UnitInvariant'
  BY <1>1, BeginPreserves
<1>2. CASE UNCHANGED vars
  BY <1>2, StutterPreserves
<1> QED BY <1>0, <1>1, <1>2 DEF Next

(* The inductive invariant, for every size of the journal and every caller.  *)
THEOREM InvariantHolds == Spec => []UnitInvariant
BY InitHolds, StepPreserves, PTL DEF Spec

(* Appends, rewinds, clears and the ends of units leave a journal that its   *)
(* own validation accepts.                                                   *)
THEOREM JournalValidates == Spec => []JournalStaysValid
<1>1. UnitInvariant => JournalStaysValid
  <2> SUFFICES ASSUME UnitInvariant PROVE JournalStaysValid
    OBVIOUS
  <2>1. JournalValid /\ Len(records) \in Nat
    BY LenProperties DEF UnitInvariant, TypeOK
  <2>2. ASSUME NEW i \in 1 .. Len(records) PROVE EventViewStatus(i, {}) = "ok"
    <3>1. records[i] \in Record /\ byteCount \in Nat
      BY ElementOfSeq DEF UnitInvariant, TypeOK
    <3>2. End(records[i]) \in Nat /\ End(records[i]) <= byteCount /\ ~(i > Len(records))
      BY <2>1, <3>1 DEF JournalValid, End, Record
    <3> QED BY <3>1, <3>2 DEF EventViewStatus
  <2> QED BY <2>1, <2>2 DEF JournalStaysValid
<1> QED BY <1>1, InvariantHolds, PTL

(* A checkpoint that is accepted gives back the events it was taken over.    *)
THEOREM CheckpointTheorem == Spec => []CheckpointMeansWhatItMeant
<1>1. UnitInvariant => CheckpointMeansWhatItMeant
  BY StatusOk DEF UnitInvariant, SavedSound, CheckpointMeansWhatItMeant
<1> QED BY <1>1, InvariantHolds, PTL

(* The authority is asked to begin, and to end, at most once a unit.         *)
THEOREM AuthorityTheorem == Spec => []AuthorityCalledOnce
<1>1. UnitInvariant => AuthorityCalledOnce
  BY DEF UnitInvariant
<1> QED BY <1>1, InvariantHolds, PTL

(* With callers that only append to the journal of an active unit, nothing   *)
(* can keep the unit from being ended, or its events from being undone.      *)
THEOREM UnitCanEnd == Spec => []ActiveUnitCanEnd
<1>1. UnitInvariant => ActiveUnitCanEnd
  <2> SUFFICES ASSUME UnitInvariant, disciplined, uow.state = "ACTIVE"
               PROVE  /\ ActiveStatus = "ok" /\ ActiveTransactionStatus({}) = "ok"
                      /\ IsPrefixAt(uow.checkpoint, base)
    BY DEF ActiveUnitCanEnd
  <2>1. Anchored(uow.checkpoint) /\ JournalValid /\ ViewStatus(view) = "ok"
    BY DEF UnitInvariant, UnitAnchored, CallMatchesState
  <2>2. CheckpointStatus(uow.checkpoint) = "ok"
    BY <2>1, StatusOk DEF Anchored
  <2> QED BY <2>1, <2>2 DEF Anchored, ActiveStatus, ActiveTransactionStatus
<1> QED BY <1>1, InvariantHolds, PTL

(* The records of a rewound journal are those of the checkpoint.             *)
LEMMA RewindGivesBase ==
  ASSUME UnitInvariant, disciplined, uow.state = "ACTIVE", RewindUnit,
         UNCHANGED base
  PROVE  Ids' = base
<1>1. uow.checkpoint \in Checkpoint /\ base \in Seq(Nat) /\ Anchored(uow.checkpoint)
  BY DEF UnitInvariant, TypeOK, UnitAnchored
<1>2. PICK c \in Checkpoint : c = uow.checkpoint
  BY <1>1
<1>3. RewindTo(c) /\ AtBoundary(c) /\ IsPrefixAt(c, base)
  BY <1>1, <1>2, StatusOk DEF RewindUnit, Anchored, UnitInvariant
<1>4. /\ records' \in Seq(Record) /\ Len(records') = c.count
      /\ \A i \in 1 .. c.count : records'[i] = records[i]
  BY <1>3, RewindEffect
<1>5. \A i \in 1 .. Len(records') : records'[i].id = base[i]
  BY <1>3, <1>4 DEF IsPrefixAt
<1>6. Len(base) = c.count /\ Len(base) = Len(records')
  BY <1>3, <1>4 DEF IsPrefixAt
<1>7. Ids' = [i \in 1 .. Len(base) |-> base[i]]
  BY <1>5, <1>6 DEF Ids
<1> QED BY <1>1, <1>7

(* A unit ends as a whole: a commit keeps the journal as the callback left   *)
(* it, any other end leaves the events there were at begin.                  *)
THEOREM UnitEndsAtomically == Spec => EndsAtomically
<1> DEFINE Ends == disciplined /\ uow.state = "ACTIVE" /\ uow'.state # "ACTIVE" =>
                     IF uow'.state = "COMMITTED" THEN journal' = journal
                     ELSE Ids' = base
<1>1. ASSUME UnitInvariant, Next, disciplined, uow.state = "ACTIVE", uow'.state # "ACTIVE"
      PROVE  IF uow'.state = "COMMITTED" THEN journal' = journal ELSE Ids' = base
  <2>1. ASSUME NEW native \in Natives, BeginReturns(native)
        PROVE  FALSE
    BY <1>1, <2>1 DEF BeginReturns, UnitInvariant, CallMatchesState, ZeroUnit
  <2>2. ASSUME Reset
        PROVE  FALSE
    BY <1>1, <2>2, Zenon DEF Reset
  <2>3. ~\E native \in Natives : BeginReturns(native)
    BY <2>1
  <2>4. PICK native \in Natives : CommitReturns(native) \/ RollbackReturns(native)
    BY <1>1, <2>2, <2>3 DEF Next, Continue, Append_, TakeCheckpoint, Clear, Rewind, Begin,
       Commit, Rollback, Call
  <2>5. CASE CommitReturns(native)
    <3>1. \/ uow' = [uow EXCEPT !.state = "COMMITTED"] /\ UNCHANGED journal
          \/ uow' = [uow EXCEPT !.state = "FAULTED"] /\ RewindUnit
      BY <2>5 DEF CommitReturns, AfterFailedCommit, UndoCommit
    <3>2. UNCHANGED base
      BY <2>5 DEF CommitReturns
    <3>3. CASE uow' = [uow EXCEPT !.state = "COMMITTED"] /\ UNCHANGED journal
      <4>1. uow'.state = "COMMITTED"
        BY <3>3 DEF UnitInvariant, TypeOK
      <4> QED BY <3>3, <4>1
    <3>4. CASE uow' = [uow EXCEPT !.state = "FAULTED"] /\ RewindUnit
      <4>1. uow'.state = "FAULTED"
        BY <3>4 DEF UnitInvariant, TypeOK
      <4> QED BY <1>1, <3>2, <3>4, <4>1, RewindGivesBase
    <3> QED BY <3>1, <3>3, <3>4
  <2>6. CASE RollbackReturns(native)
    <3>1. /\ uow'.state \in {"ROLLED_BACK", "FAULTED"}
          /\ RewindUnit /\ UNCHANGED base
      BY <2>6 DEF RollbackReturns, AfterRollback, UnitInvariant, TypeOK
    <3> QED BY <1>1, <3>1, RewindGivesBase
  <2> QED BY <2>4, <2>5, <2>6
<1>2. UnitInvariant /\ [Next]_vars => [Ends]_vars
  BY <1>1
<1> QED BY <1>2, InvariantHolds, PTL DEF Spec, EndsAtomically
-----------------------------------------------------------------------------
(***************************************************************************)
(* The refinement of StagedEvents                                          *)
(***************************************************************************)
(* A log cut in two and put together again.                                  *)
LEMMA CutAndJoin ==
  ASSUME NEW S, NEW s \in Seq(S), NEW n \in 0 .. Len(s)
  PROVE  SubSeq(s, 1, n) \o SubSeq(s, n + 1, Len(s)) = SubSeq(s, 1, Len(s))
<1>1. 1 \in 1 .. Len(s) + 1 /\ n \in 1 - 1 .. Len(s) /\ Len(s) \in n .. Len(s)
  BY LenProperties
<1> QED BY <1>1, ConcatAdjacentSubSeq

(* What one more entry does to the two parts of a log.                       *)
LEMMA GrowCut ==
  ASSUME NEW S, NEW s \in Seq(S), NEW t \in Seq(S), NEW n \in 0 .. Len(s),
         Len(t) = Len(s) + 1, \A i \in 1 .. Len(s) : t[i] = s[i]
  PROVE  /\ SubSeq(t, 1, n) = SubSeq(s, 1, n)
         /\ Len(SubSeq(t, n + 1, Len(t))) = Len(SubSeq(s, n + 1, Len(s))) + 1
         /\ SubSeq(SubSeq(t, n + 1, Len(t)), 1, Len(SubSeq(s, n + 1, Len(s))))
              = SubSeq(s, n + 1, Len(s))
<1> DEFINE old == SubSeq(s, n + 1, Len(s))
           new == SubSeq(t, n + 1, Len(t))
           cut == SubSeq(new, 1, Len(old))
<1>1. Len(s) \in Nat /\ Len(t) \in Nat /\ n \in Nat /\ n <= Len(s)
  BY LenProperties
<1>2. \A i \in 1 .. Len(s) : s[i] \in S /\ t[i] \in S
  BY <1>1, ElementOfSeq
<1>3. \A i \in 1 .. Len(t) : t[i] \in S
  BY <1>1, ElementOfSeq
<1>4. /\ SubSeq(s, 1, n) \in Seq(S) /\ Len(SubSeq(s, 1, n)) = n
      /\ \A i \in 1 .. n : SubSeq(s, 1, n)[i] = s[i]
  BY <1>1, <1>2, SubSeqProperties
<1>5. /\ SubSeq(t, 1, n) \in Seq(S) /\ Len(SubSeq(t, 1, n)) = n
      /\ \A i \in 1 .. n : SubSeq(t, 1, n)[i] = t[i]
  BY <1>1, <1>3, SubSeqProperties
<1>6. SubSeq(t, 1, n) = SubSeq(s, 1, n)
  BY <1>1, <1>4, <1>5, SeqEqual
<1>7. /\ old \in Seq(S) /\ Len(old) = Len(s) - n
      /\ \A i \in 1 .. Len(s) - n : old[i] = s[i + n]
  BY <1>1, <1>2, SubSeqProperties
<1>8. /\ new \in Seq(S) /\ Len(new) = Len(s) + 1 - n
      /\ \A i \in 1 .. Len(s) + 1 - n : new[i] = t[i + n]
  BY <1>1, <1>3, SubSeqProperties
<1> HIDE DEF old, new
<1>9. /\ cut \in Seq(S) /\ Len(cut) = Len(s) - n
      /\ \A i \in 1 .. Len(s) - n : cut[i] = new[i]
  <2>1. \A i \in 1 .. Len(old) : new[i] \in S
    BY <1>1, <1>7, <1>8, ElementOfSeq
  <2> QED BY <2>1, <1>1, <1>7, <1>8, SubSeqProperties
<1> HIDE DEF cut
<1>10. \A i \in 1 .. Len(s) - n : cut[i] = old[i]
  <2> TAKE i \in 1 .. Len(s) - n
  <2>1. i + n \in 1 .. Len(s) /\ i \in 1 .. Len(s) + 1 - n
    BY <1>1
  <2> QED BY <2>1, <1>7, <1>8, <1>9
<1>11. cut = old
  BY <1>1, <1>7, <1>9, <1>10, SeqEqual
<1> QED BY <1>1, <1>6, <1>7, <1>8, <1>11 DEF old, new, cut

(* The numbers of a journal's events, as a sequence.                         *)
LEMMA IdsOf ==
  ASSUME NEW recs \in Seq(Record)
  PROVE  LET ids == [i \in 1 .. Len(recs) |-> recs[i].id] IN
         /\ ids \in Seq(Nat) /\ Len(ids) = Len(recs)
         /\ \A i \in 1 .. Len(recs) : ids[i] = recs[i].id
<1>1. Len(recs) \in Nat
  BY LenProperties
<1>2. \A i \in 1 .. Len(recs) : recs[i].id \in Nat
  <2> TAKE i \in 1 .. Len(recs)
  <2>1. recs[i] \in Record
    BY ElementOfSeq
  <2> QED BY <2>1 DEF Record
<1> QED BY <1>1, <1>2

UnitOpen == disciplined /\ (pc = "begin" \/ uow.state = "ACTIVE")
KeptPart == SubSeq(Ids, 1, StagedFrom)
StagedPart == IF disciplined THEN SubSeq(Ids, StagedFrom + 1, Len(Ids)) ELSE <<>>
Verdict ==
  CASE disciplined /\ uow.state = "COMMITTED" -> "kept"
    [] disciplined /\ uow.state \in {"ROLLED_BACK", "FAULTED"} -> "dropped"
    [] OTHER -> "none"

(* The parts into which the mapping cuts the journal.                        *)
LEMMA PartsOfJournal ==
  ASSUME UnitInvariant, disciplined
  PROVE  /\ Ids \in Seq(Nat) /\ Len(Ids) = Len(records)
         /\ StagedFrom \in 0 .. Len(Ids)
         /\ ~UnitOpen => StagedFrom = Len(Ids)
<1>1. records \in Seq(Record) /\ Len(records) \in Nat
  BY LenProperties DEF UnitInvariant, TypeOK
<1>2. Ids \in Seq(Nat) /\ Len(Ids) = Len(records)
  BY <1>1, IdsOf DEF Ids
<1>3. CASE pc = "begin"
  <2>1. start.count \in Nat /\ start.count <= Len(records)
    BY <1>3 DEF UnitInvariant, TypeOK, UnitAnchored, Anchored, AtBoundary, Checkpoint
  <2> QED BY <1>1, <1>2, <1>3, <2>1 DEF StagedFrom, UnitOpen
<1>4. CASE pc # "begin" /\ uow.state = "ACTIVE"
  <2>1. uow.checkpoint \in Checkpoint
    BY DEF UnitInvariant, TypeOK
  <2>2. uow.checkpoint.count \in Nat /\ uow.checkpoint.count <= Len(records)
    BY <1>4, <2>1 DEF UnitInvariant, UnitAnchored, Anchored, AtBoundary, Checkpoint
  <2> QED BY <1>1, <1>2, <1>4, <2>2 DEF StagedFrom, UnitOpen
<1>5. CASE pc # "begin" /\ uow.state # "ACTIVE"
  BY <1>1, <1>2, <1>5 DEF StagedFrom, UnitOpen
<1> QED BY <1>2, <1>3, <1>4, <1>5

(* Nothing is promised to callers without discipline.                        *)
LEMMA UndisciplinedStep ==
  ASSUME ~disciplined, ~disciplined'
  PROVE  UNCHANGED Staging!vars
<1>1. StagedFrom = 0 /\ StagedFrom' = 0
  BY DEF StagedFrom
<1>2. SubSeq(Ids, 1, 0) = <<>> /\ SubSeq(Ids', 1, 0) = <<>>
  BY SubSeqEmpty
<1>3. KeptPart' = KeptPart
  BY <1>1, <1>2 DEF KeptPart
<1>4. StagedPart' = StagedPart /\ Verdict' = Verdict
  BY DEF StagedPart, Verdict
<1>5. UnitOpen = FALSE /\ UnitOpen' = FALSE
  BY DEF UnitOpen
<1> QED BY <1>3, <1>4, <1>5 DEF Staging!vars, KeptPart, StagedPart, Verdict, UnitOpen

(* A step that leaves the events, and how they are seen, alone.              *)
LEMMA QuietStep ==
  ASSUME UNCHANGED <<records, disciplined, start>>, UnitOpen' <=> UnitOpen,
         StagedFrom' = StagedFrom, Verdict' = Verdict
  PROVE  UNCHANGED Staging!vars
<1>1. Ids' = Ids
  BY DEF Ids
<1>2. KeptPart' = KeptPart /\ StagedPart' = StagedPart
  BY <1>1 DEF KeptPart, StagedPart
<1>3. UnitOpen' = UnitOpen
  BY DEF UnitOpen
<1> QED BY <1>2, <1>3 DEF Staging!vars, KeptPart, StagedPart, Verdict, UnitOpen

(* An append is recorded: staged in a unit, kept outside of one.             *)
LEMMA GrowingStep ==
  ASSUME UnitInvariant, disciplined, UNCHANGED <<disciplined, pc, uow, start>>,
         records' \in Seq(Record), Len(records') = Len(records) + 1,
         \A i \in 1 .. Len(records) : records'[i] = records[i]
  PROVE  Staging!Record
<1> DEFINE n == StagedFrom
<1>1. /\ Ids \in Seq(Nat) /\ Len(Ids) = Len(records) /\ n \in 0 .. Len(Ids)
      /\ ~UnitOpen => n = Len(Ids)
  BY PartsOfJournal
<1>2. Ids' \in Seq(Nat) /\ Len(Ids') = Len(records')
      /\ \A i \in 1 .. Len(records') : Ids'[i] = records'[i].id
  BY IdsOf DEF Ids
<1>3. Len(Ids') = Len(Ids) + 1 /\ \A i \in 1 .. Len(Ids) : Ids'[i] = Ids[i]
  <2>1. records \in Seq(Record) /\ Len(records) \in Nat
    BY LenProperties DEF UnitInvariant, TypeOK
  <2>2. \A i \in 1 .. Len(records) : Ids[i] = records[i].id
    BY <2>1, IdsOf DEF Ids
  <2>3. ASSUME NEW i \in 1 .. Len(records) PROVE Ids'[i] = Ids[i]
    <3>1. i \in 1 .. Len(records')
      BY <2>1
    <3>2. Ids'[i] = records'[i].id /\ Ids[i] = records[i].id /\ records'[i] = records[i]
      BY <3>1, <1>2, <2>2
    <3> QED BY <3>2
  <2> QED BY <1>1, <1>2, <2>3
<1>4. UnitOpen' = UnitOpen /\ Verdict' = Verdict
  BY DEF UnitOpen, Verdict
<1> DEFINE m == Len(Ids)
<1>5. m \in Nat
  BY <1>1, LenProperties
<1>6. CASE UnitOpen
  <2>1. StagedFrom' = n
    BY <1>6 DEF StagedFrom, UnitOpen
  <2>2. KeptPart' = KeptPart
    BY <1>1, <1>2, <1>3, <2>1, GrowCut DEF KeptPart
  <2>3. Staging!OneMore(StagedPart, StagedPart')
    BY <1>1, <1>2, <1>3, <2>1, GrowCut DEF StagedPart, Staging!OneMore
  <2> QED BY <1>4, <1>6, <2>2, <2>3
          DEF Staging!Record, KeptPart, StagedPart, Verdict, UnitOpen
<1>7. CASE ~UnitOpen
  <2>1. StagedFrom = m /\ StagedFrom' = m + 1
    BY <1>1, <1>3, <1>4, <1>7 DEF StagedFrom, UnitOpen
  <2>2. StagedPart = <<>> /\ StagedPart' = <<>>
    BY <1>1, <1>3, <1>5, <2>1, SubSeqEmpty DEF StagedPart
  <2>3. KeptPart = SubSeq(Ids, 1, m) /\ KeptPart' = SubSeq(Ids', 1, m + 1)
    BY <2>1 DEF KeptPart
  <2>4. KeptPart = Ids /\ KeptPart' = Ids'
    BY <1>1, <1>2, <1>3, <2>3, SubSeqFull
  <2>5. SubSeq(Ids', 1, m) = SubSeq(Ids, 1, m)
    BY <1>1, <1>2, <1>3, <1>5, GrowCut
  <2>6. Staging!OneMore(KeptPart, KeptPart')
    BY <1>3, <2>3, <2>4, <2>5 DEF Staging!OneMore
  <2> QED BY <1>4, <1>7, <2>2, <2>6
          DEF Staging!Record, KeptPart, StagedPart, Verdict, UnitOpen
<1> QED BY <1>6, <1>7

(* The events the journal keeps or loses when it is cut outside of a unit.   *)
LEMMA CuttingStep ==
  ASSUME UnitInvariant, disciplined, UNCHANGED <<disciplined, pc, uow, start>>, ~UnitOpen,
         NEW c \in 0 .. Len(records), records' = SubSeq(records, 1, c)
  PROVE  Staging!Cut
<1>1. records \in Seq(Record) /\ Len(records) \in Nat
  BY LenProperties DEF UnitInvariant, TypeOK
<1>2. /\ records' \in Seq(Record) /\ Len(records') = c
      /\ \A i \in 1 .. c : records'[i] = records[i]
  BY <1>1
<1>3. /\ Ids \in Seq(Nat) /\ Len(Ids) = Len(records)
      /\ \A i \in 1 .. Len(records) : Ids[i] = records[i].id
  BY <1>1, IdsOf DEF Ids
<1>4. /\ Ids' \in Seq(Nat) /\ Len(Ids') = c
      /\ \A i \in 1 .. c : Ids'[i] = records'[i].id
  BY <1>2, IdsOf DEF Ids
<1>5. \A i \in 1 .. Len(Ids) : Ids[i] \in Nat
  BY <1>1, <1>3, ElementOfSeq
<1>6. Ids' = SubSeq(Ids, 1, c)
  <2>1. /\ SubSeq(Ids, 1, c) \in Seq(Nat) /\ Len(SubSeq(Ids, 1, c)) = c
        /\ \A i \in 1 .. c : SubSeq(Ids, 1, c)[i] = Ids[i]
    BY <1>1, <1>3, <1>5, SubSeqProperties
  <2>2. \A i \in 1 .. c : Ids'[i] = SubSeq(Ids, 1, c)[i]
    <3> SUFFICES ASSUME NEW i \in 1 .. c
                 PROVE  Ids'[i] = SubSeq(Ids, 1, c)[i]
      OBVIOUS
    <3>1. Ids'[i] = records'[i].id /\ records'[i] = records[i]
      BY <1>2, <1>4
    <3>2. i \in 1 .. Len(records)
      BY <1>1
    <3>3. Ids[i] = records[i].id /\ SubSeq(Ids, 1, c)[i] = Ids[i]
      BY <1>3, <2>1, <3>2
    <3> QED BY <3>1, <3>3
  <2> QED BY <2>1, <2>2, <1>4, SeqEqual
<1>7. ~UnitOpen' /\ UnitOpen' = UnitOpen /\ Verdict' = Verdict
  BY DEF UnitOpen, Verdict
<1>8. StagedFrom = Len(Ids) /\ StagedFrom' = Len(Ids')
  BY <1>7, PartsOfJournal DEF StagedFrom, UnitOpen
<1>9. KeptPart = Ids /\ KeptPart' = Ids'
  BY <1>3, <1>4, <1>8, SubSeqFull DEF KeptPart
<1>10. StagedPart = <<>> /\ StagedPart' = <<>>
  BY <1>1, <1>3, <1>4, <1>8, SubSeqEmpty DEF StagedPart
<1>11. c \in 0 .. Len(KeptPart) /\ KeptPart' = SubSeq(KeptPart, 1, c)
  BY <1>3, <1>6, <1>9
<1> QED BY <1>7, <1>10, <1>11 DEF Staging!Cut, KeptPart, StagedPart, Verdict, UnitOpen

(* The end of a unit whose events stay.                                      *)
LEMMA KeepingStep ==
  ASSUME UnitInvariant, disciplined, disciplined', UNCHANGED records, UnitOpen, ~UnitOpen',
         Verdict' \in {"none", "kept"}
  PROVE  Staging!Keep
<1>1. /\ Ids \in Seq(Nat) /\ StagedFrom \in 0 .. Len(Ids) /\ Ids' = Ids
  BY PartsOfJournal DEF Ids
<1>2. StagedFrom' = Len(Ids) /\ Len(Ids) \in Nat
  BY <1>1, LenProperties DEF StagedFrom, UnitOpen
<1>3. StagedPart' = <<>>
  BY <1>1, <1>2, SubSeqEmpty DEF StagedPart
<1>4. KeptPart' = KeptPart \o StagedPart
  BY <1>1, <1>2, CutAndJoin DEF KeptPart, StagedPart
<1> QED BY <1>3, <1>4 DEF Staging!Keep, Staging!Close, KeptPart, StagedPart, Verdict, UnitOpen

(* The end of a unit whose events are undone.                                *)
LEMMA DroppingStep ==
  ASSUME UnitInvariant, disciplined, disciplined', UnitOpen, ~UnitOpen', pc # "begin",
         Ids' = base, Verdict' = "dropped"
  PROVE  Staging!Drop
<1>1. uow.state = "ACTIVE" /\ Anchored(uow.checkpoint) /\ base \in Seq(Nat)
  BY DEF UnitOpen, UnitInvariant, UnitAnchored, TypeOK
<1>2. /\ records \in Seq(Record) /\ Len(records) \in Nat
      /\ uow.checkpoint.count \in 0 .. Len(records)
  BY <1>1, LenProperties DEF UnitInvariant, TypeOK, Anchored, AtBoundary, Checkpoint
<1>3. StagedFrom = uow.checkpoint.count
  BY <1>1 DEF StagedFrom
<1>4. /\ Ids \in Seq(Nat) /\ Len(Ids) = Len(records)
      /\ \A i \in 1 .. Len(records) : Ids[i] = records[i].id
  BY <1>2, IdsOf DEF Ids
<1>5. \A i \in 1 .. Len(Ids) : Ids[i] \in Nat
  BY <1>2, <1>4, ElementOfSeq
<1> DEFINE n == StagedFrom
<1>6. /\ n \in 0 .. Len(Ids) /\ Len(base) = n
      /\ \A i \in 1 .. n : base[i] = Ids[i]
  BY <1>1, <1>2, <1>3, <1>4 DEF Anchored, IsPrefixAt
<1> HIDE DEF n
<1>7. KeptPart = base
  <2>1. /\ SubSeq(Ids, 1, n) \in Seq(Nat) /\ Len(SubSeq(Ids, 1, n)) = n
        /\ \A i \in 1 .. n : SubSeq(Ids, 1, n)[i] = Ids[i]
    BY <1>2, <1>4, <1>5, <1>6, SubSeqProperties
  <2> QED BY <2>1, <1>1, <1>6, SeqEqual DEF KeptPart, n
<1>8. StagedFrom' = Len(Ids') /\ Len(base) \in Nat
  BY <1>1, LenProperties DEF StagedFrom, UnitOpen
<1>9. KeptPart' = base
  BY <1>1, <1>8, SubSeqFull DEF KeptPart
<1>10. StagedPart' = <<>>
  BY <1>8, SubSeqEmpty DEF StagedPart
<1> QED BY <1>7, <1>9, <1>10 DEF Staging!Drop, Staging!Close, KeptPart, StagedPart, Verdict, UnitOpen

(* What each step of the unit of work is to its events.                      *)
LEMMA StagingStep ==
  ASSUME UnitInvariant, Next, disciplined
  PROVE  Staging!Next \/ UNCHANGED Staging!vars
<1>0. disciplined' /\ UNCHANGED disciplined
  BY DEF Next
<1>1. ASSUME NEW size \in Sizes, Append_(size)
      PROVE  Staging!Next \/ UNCHANGED Staging!vars
  <2>0. UNCHANGED <<pc, uow, start>>
    BY <1>1 DEF Append_
  <2>1. CASE Fits(size)
    <3>1. /\ records' \in Seq(Record) /\ Len(records') = Len(records) + 1
          /\ \A i \in 1 .. Len(records) : records'[i] = records[i]
      BY <1>1, <2>1, AppendEffect DEF Append_
    <3>2. Staging!Record
      BY <1>0, <2>0, <3>1, GrowingStep
    <3> QED BY <3>2 DEF Staging!Next
  <2>2. CASE ~Fits(size)
    <3>1. UNCHANGED <<records, disciplined, start>>
      BY <1>0, <1>1, <2>2 DEF Append_
    <3>2. (UnitOpen' <=> UnitOpen) /\ StagedFrom' = StagedFrom /\ Verdict' = Verdict
      BY <1>0, <2>0, <3>1 DEF UnitOpen, StagedFrom, Verdict, Ids
    <3> QED BY <3>1, <3>2, QuietStep
  <2> QED BY <2>1, <2>2
<1>2. CASE TakeCheckpoint
  <2>1. UNCHANGED <<records, disciplined, start, pc, uow>>
    BY <1>0, <1>2 DEF TakeCheckpoint, journal
  <2>2. (UnitOpen' <=> UnitOpen) /\ StagedFrom' = StagedFrom /\ Verdict' = Verdict
    BY <2>1 DEF UnitOpen, StagedFrom, Verdict, Ids
  <2> QED BY <2>1, <2>2, QuietStep
<1>3. ASSUME Clear \/ \E c \in Given : Rewind(c)
      PROVE  Staging!Next \/ UNCHANGED Staging!vars
  <2>1. UNCHANGED <<disciplined, start, pc, uow>> /\ ~UnitOpen
    BY <1>0, <1>3 DEF Clear, Rewind, MayMutate, UnitOpen, history
  <2>2. /\ records \in Seq(Record) /\ Len(records) \in Nat
    BY LenProperties DEF UnitInvariant, TypeOK
  <2>3. UNCHANGED records \/ \E c \in 0 .. Len(records) : records' = SubSeq(records, 1, c)
    <3>1. CASE Clear
      <4>1. UNCHANGED records \/ records' = <<>>
        BY <3>1 DEF Clear, journal
      <4>2. 0 \in 0 .. Len(records) /\ SubSeq(records, 1, 0) = <<>>
        BY <2>2, SubSeqEmpty
      <4> QED BY <4>1, <4>2
    <3>2. ASSUME NEW c \in Given, Rewind(c)
          PROVE  UNCHANGED records \/ \E k \in 0 .. Len(records) : records' = SubSeq(records, 1, k)
      <4>1. CASE CheckpointStatus(c) = "ok"
        <5>1. records' = SubSeq(records, 1, c.count) /\ AtBoundary(c)
          BY <3>2, <4>1, StatusOk DEF Rewind, RewindTo
        <5>2. c.count \in Nat
          BY UnitOfWorkAssumption DEF Given
        <5> QED BY <2>2, <5>1, <5>2 DEF AtBoundary
      <4>2. CASE CheckpointStatus(c) # "ok"
        BY <3>2, <4>2 DEF Rewind, journal
      <4> QED BY <4>1, <4>2
    <3> QED BY <1>3, <3>1, <3>2
  <2>4. CASE UNCHANGED records
    <3>1. (UnitOpen' <=> UnitOpen) /\ StagedFrom' = StagedFrom /\ Verdict' = Verdict
      BY <2>1, <2>4 DEF UnitOpen, StagedFrom, Verdict, Ids
    <3> QED BY <2>1, <2>4, <3>1, QuietStep
  <2>5. ASSUME NEW c \in 0 .. Len(records), records' = SubSeq(records, 1, c)
        PROVE  Staging!Next
    BY <2>1, <2>5, CuttingStep DEF Staging!Next
  <2> QED BY <2>3, <2>4, <2>5
<1>4. ASSUME NEW offer \in Offers, Begin(offer)
      PROVE  Staging!Next \/ UNCHANGED Staging!vars
  <2>1. pc = "caller" /\ UNCHANGED <<records, uow, disciplined>>
    BY <1>0, <1>4 DEF Begin, journal
  <2>2. CASE pc' = "caller" /\ UNCHANGED start
    <3>1. (UnitOpen' <=> UnitOpen) /\ StagedFrom' = StagedFrom /\ Verdict' = Verdict
      BY <2>1, <2>2 DEF UnitOpen, StagedFrom, Verdict, Ids
    <3> QED BY <2>1, <2>2, <3>1, QuietStep
  <2>3. CASE uow = ZeroUnit /\ pc' = "begin" /\ start' = Here
    <3>1. ~UnitOpen /\ UnitOpen'
      BY <1>0, <2>1, <2>3 DEF UnitOpen, ZeroUnit
    <3>2. Verdict = "none" /\ Verdict' = "none"
      BY <2>1, <2>3 DEF Verdict, ZeroUnit
    <3>3. StagedFrom = Len(Ids) /\ StagedFrom' = Len(Ids) /\ Ids' = Ids
      <4>1. Len(Ids) = Len(records) /\ StagedFrom = Len(Ids)
        BY <3>1, PartsOfJournal
      <4> QED BY <1>0, <2>1, <2>3, <4>1 DEF StagedFrom, Here, Ids
    <3>4. KeptPart' = KeptPart /\ StagedPart' = StagedPart
      BY <1>0, <3>3 DEF KeptPart, StagedPart
    <3>5. Staging!Open
      BY <3>1, <3>2, <3>4 DEF Staging!Open, KeptPart, StagedPart, Verdict, UnitOpen
    <3> QED BY <3>5 DEF Staging!Next
  <2>4. \/ pc' = "caller" /\ UNCHANGED start
        \/ uow = ZeroUnit /\ pc' = "begin" /\ start' = Here
    BY <1>4, BegunCanBeViewed, UnitOfWorkAssumption DEF Begin, Return
  <2> QED BY <2>2, <2>3, <2>4
<1>5. ASSUME NEW native \in Natives, BeginReturns(native)
      PROVE  Staging!Next \/ UNCHANGED Staging!vars
  <2>1. /\ pc = "begin" /\ pc' = "caller" /\ uow = ZeroUnit
        /\ UNCHANGED <<records, start, disciplined>>
    BY <1>0, <1>5 DEF BeginReturns, Return, journal, UnitInvariant, CallMatchesState
  <2>2. CASE uow' = [state |-> "ACTIVE", checkpoint |-> start]
    <3>1. (UnitOpen' <=> UnitOpen) /\ StagedFrom' = StagedFrom /\ Verdict' = Verdict
      BY <1>0, <2>1, <2>2 DEF UnitOpen, StagedFrom, Verdict, Ids, ZeroUnit
    <3> QED BY <2>1, <3>1, QuietStep
  <2>3. CASE uow' = uow
    <3>1. UnitOpen /\ ~UnitOpen' /\ Verdict' = "none"
      BY <1>0, <2>1, <2>3 DEF UnitOpen, Verdict, ZeroUnit
    <3>2. Staging!Keep
      BY <1>0, <2>1, <3>1, KeepingStep
    <3> QED BY <3>2 DEF Staging!Next
  <2>4. uow' = [state |-> "ACTIVE", checkpoint |-> start] \/ uow' = uow
    BY <1>5 DEF BeginReturns
  <2> QED BY <2>2, <2>3, <2>4
<1>6. ASSUME Commit \/ Rollback
      PROVE  Staging!Next \/ UNCHANGED Staging!vars
  <2>1. /\ pc = "caller" /\ pc' # "begin" /\ UNCHANGED <<records, uow, start, disciplined>>
    BY <1>0, <1>6 DEF Commit, Rollback, Call, Return, journal
  <2>2. (UnitOpen' <=> UnitOpen) /\ StagedFrom' = StagedFrom /\ Verdict' = Verdict
    BY <2>1 DEF UnitOpen, StagedFrom, Verdict, Ids
  <2> QED BY <2>1, <2>2, QuietStep
<1>7. ASSUME NEW native \in Natives, CommitReturns(native)
      PROVE  Staging!Next \/ UNCHANGED Staging!vars
  <2>1. /\ pc = "commit" /\ pc' = "caller" /\ uow.state = "ACTIVE" /\ UNCHANGED base
        /\ uow \in [state : {"ZERO", "ACTIVE", "COMMITTED", "ROLLED_BACK", "FAULTED"},
                    checkpoint : Checkpoint]
    BY <1>7 DEF CommitReturns, Return, UnitInvariant, CallMatchesState, TypeOK
  <2>2. \/ uow' = [uow EXCEPT !.state = "COMMITTED"] /\ UNCHANGED records
        \/ uow' = [uow EXCEPT !.state = "FAULTED"] /\ RewindUnit
    BY <1>7 DEF CommitReturns, AfterFailedCommit, UndoCommit, journal
  <2>3. CASE uow' = [uow EXCEPT !.state = "COMMITTED"] /\ UNCHANGED records
    <3>1. uow'.state = "COMMITTED"
      BY <2>1, <2>3
    <3>2. UnitOpen /\ ~UnitOpen' /\ Verdict' = "kept"
      BY <1>0, <2>1, <3>1 DEF UnitOpen, Verdict
    <3>3. Staging!Keep
      BY <1>0, <2>3, <3>2, KeepingStep
    <3> QED BY <3>3 DEF Staging!Next
  <2>4. CASE uow' = [uow EXCEPT !.state = "FAULTED"] /\ RewindUnit
    <3>1. uow'.state = "FAULTED"
      BY <2>1, <2>4
    <3>2. UnitOpen /\ ~UnitOpen' /\ Verdict' = "dropped"
      BY <1>0, <2>1, <3>1 DEF UnitOpen, Verdict
    <3>3. Ids' = base
      BY <2>1, <2>4, RewindGivesBase
    <3>4. Staging!Drop
      BY <1>0, <2>1, <3>2, <3>3, DroppingStep
    <3> QED BY <3>4 DEF Staging!Next
  <2> QED BY <2>2, <2>3, <2>4
<1>8. ASSUME NEW native \in Natives, RollbackReturns(native)
      PROVE  Staging!Next \/ UNCHANGED Staging!vars
  <2>1. /\ pc = "rollback" /\ pc' = "caller" /\ uow.state = "ACTIVE" /\ UNCHANGED base
    BY <1>8 DEF RollbackReturns, Return, UnitInvariant, CallMatchesState
  <2>2. uow'.state \in {"ROLLED_BACK", "FAULTED"} /\ RewindUnit
    BY <1>8 DEF RollbackReturns, AfterRollback, UnitInvariant, TypeOK
  <2>3. UnitOpen /\ ~UnitOpen' /\ Verdict' = "dropped"
    BY <1>0, <2>1, <2>2 DEF UnitOpen, Verdict
  <2>4. Ids' = base
    BY <2>1, <2>2, RewindGivesBase
  <2>5. Staging!Drop
    BY <1>0, <2>1, <2>3, <2>4, DroppingStep
  <2> QED BY <2>5 DEF Staging!Next
<1>9. CASE Reset
  <2>1. /\ pc = "caller" /\ pc' = "caller" /\ UNCHANGED <<records, start, disciplined>>
        /\ (uow' = uow \/ (uow.state # "ACTIVE" /\ uow' = ZeroUnit))
    BY <1>0, <1>9, Zenon DEF Reset, Return, journal, history
  <2>2. CASE uow' = uow
    <3>1. (UnitOpen' <=> UnitOpen) /\ StagedFrom' = StagedFrom /\ Verdict' = Verdict
      BY <2>1, <2>2 DEF UnitOpen, StagedFrom, Verdict, Ids
    <3> QED BY <2>1, <3>1, QuietStep
  <2>3. CASE uow.state # "ACTIVE" /\ uow' = ZeroUnit
    <3>1. UnitOpen = FALSE /\ UnitOpen' = FALSE /\ Verdict' = "none"
      BY <2>1, <2>3 DEF UnitOpen, Verdict, ZeroUnit
    <3>2. Ids' = Ids /\ StagedFrom' = StagedFrom
      BY <1>0, <2>1, <2>3 DEF Ids, StagedFrom, ZeroUnit
    <3>3. KeptPart' = KeptPart /\ StagedPart' = StagedPart
      BY <1>0, <3>2 DEF KeptPart, StagedPart
    <3>4. Staging!Forget
      BY <3>1, <3>3 DEF Staging!Forget, KeptPart, StagedPart, Verdict, UnitOpen
    <3> QED BY <3>4 DEF Staging!Next
  <2> QED BY <2>1, <2>2, <2>3
<1> QED BY <1>1, <1>2, <1>3, <1>4, <1>5, <1>6, <1>7, <1>8, <1>9 DEF Next, Continue

(* The events of a unit are staged, and kept or dropped together: the unit   *)
(* of work over its journal implements StagedEvents.                         *)
THEOREM StagingImplemented == Spec => ImplementsStaging
<1>1. Init => Staging!Init
  <2> SUFFICES ASSUME Init PROVE Staging!Init
    OBVIOUS
  <2>1. UnitOpen = FALSE /\ Verdict = "none"
    BY DEF Init, UnitOpen, Verdict, ZeroUnit
  <2>2. Len(records) = 0 /\ Ids \in Seq(Nat) /\ Len(Ids) = 0
    <3>1. records \in Seq(Record) /\ Len(records) = 0
      BY DEF Init
    <3> QED BY <3>1, IdsOf DEF Ids
  <2>3. StagedFrom = 0
    BY <2>2 DEF Init, StagedFrom, ZeroUnit
  <2>4. KeptPart = <<>> /\ StagedPart = <<>>
    BY <2>2, <2>3, SubSeqEmpty DEF KeptPart, StagedPart
  <2> QED BY <2>1, <2>4 DEF Staging!Init, KeptPart, StagedPart, Verdict, UnitOpen
<1>2. UnitInvariant /\ [Next]_vars => [Staging!Next]_(Staging!vars)
  <2> SUFFICES ASSUME UnitInvariant, [Next]_vars
               PROVE  Staging!Next \/ UNCHANGED Staging!vars
    OBVIOUS
  <2>1. CASE UNCHANGED vars
    <3>1. UNCHANGED <<records, disciplined, start, pc, uow>>
      BY <2>1 DEF vars, journal
    <3>2. (UnitOpen' <=> UnitOpen) /\ StagedFrom' = StagedFrom /\ Verdict' = Verdict
      BY <3>1 DEF UnitOpen, StagedFrom, Verdict, Ids
    <3> QED BY <3>1, <3>2, QuietStep
  <2>2. CASE Next /\ disciplined
    BY <2>2, StagingStep
  <2>3. CASE Next /\ ~disciplined
    <3>1. ~disciplined /\ ~disciplined'
      BY <2>3 DEF Next
    <3> QED BY <3>1, UndisciplinedStep
  <2> QED BY <2>1, <2>2, <2>3
<1> QED BY <1>1, <1>2, InvariantHolds, PTL DEF Spec, ImplementsStaging, Staging!Spec
=============================================================================
