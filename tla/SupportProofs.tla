--------------------------- MODULE SupportProofs ---------------------------
(***************************************************************************)
(* The proofs about the parts that are called on their own, each over      *)
(* memory of its caller: Profiling, Configuration and ConformanceCheck.    *)
(*                                                                         *)
(* Profiling, for any number of regions, tokens and spans and any clock:   *)
(* every span that began is open, counted in one aggregate or given up,    *)
(* and the aggregates are those of the spans counted in them.              *)
(*                                                                         *)
(* Configuration, for every schema, all sources and any memory of the      *)
(* caller: a measurement promises what prepare does, a call that fails     *)
(* writes nothing, and what is published is what the sources say.          *)
(*                                                                         *)
(* ConformanceCheck, for every document, whatever its gates find and every *)
(* pass that fails: a call publishes a whole report or nothing, and is     *)
(* refused for want of room only when there is none.                       *)
(***************************************************************************)
EXTENDS Profiling, Configuration, ConformanceCheck, LibraryFacts
-----------------------------------------------------------------------------
(***************************************************************************)
(* Profiling                                                               *)
(***************************************************************************)

Token(last) ==
  [active : {TRUE}, region : 1 .. Capacity, start : Nat, identity : Tokens, span : 1 .. last]

Sample == [span : Nat, ns : 0 .. MaxU64]

ProfilingTypes ==
  /\ descriptors \in [1 .. Capacity -> Ids]
  /\ aggregates \in [1 .. Capacity -> Aggregate]
  /\ session \in Seq(Nat) /\ Len(session) <= Capacity
  /\ begun \in 0 .. MaxSpans
  /\ tokens \in [Tokens -> {Zero} \union Token(begun)]
  /\ samples \in [1 .. Capacity -> SUBSET Sample]
  /\ \A r \in 1 .. Capacity : IsFiniteSet(samples[r])

IsOpen(s) == \E t \in Tokens : Original(t) /\ tokens[t].span = s

IsSampled(s) == \E r \in 1 .. Capacity : s \in Spans(r)

(* No span is in two places, and none is open in two tokens. *)
SpansApart ==
  /\ \A s : IsOpen(s) => ~IsSampled(s) /\ s \notin dropped
  /\ \A s : IsSampled(s) => s \notin dropped
  /\ \A q, r \in 1 .. Capacity : q # r => Spans(q) \intersect Spans(r) = {}
  /\ \A t, u \in Tokens : Original(t) /\ Original(u) /\ tokens[t].span = tokens[u].span => t = u

EverySpanSomewhere ==
  \A s : s \in 1 .. begun <=> IsOpen(s) \/ IsSampled(s) \/ s \in dropped

Summarized == \A r \in 1 .. Capacity : aggregates[r] = Summary(r)

ProfilingInvariant ==
  /\ ProfilingTypes
  /\ SpansApart
  /\ EverySpanSomewhere
  /\ Summarized

(* A session whose guard holds describes the regions it was prepared with. *)
LEMMA InvariantSays == ProfilingInvariant => SpansAreAccounted
<1> SUFFICES ASSUME ProfilingInvariant PROVE SpansAreAccounted
  OBVIOUS
<1> DEFINE open == {tokens[t].span : t \in {u \in Tokens : Original(u)}}
           sampled == UNION {Spans(r) : r \in 1 .. Capacity}
<1>1. \A s : (s \in open <=> IsOpen(s)) /\ (s \in sampled <=> IsSampled(s))
  BY DEF IsOpen, IsSampled
<1>2. /\ 1 .. begun = open \union sampled \union dropped
      /\ open \intersect (sampled \union dropped) = {} /\ sampled \intersect dropped = {}
      /\ \A q, r \in 1 .. Capacity : q # r => Spans(q) \intersect Spans(r) = {}
  <2> HIDE DEF open, sampled
  <2> QED BY <1>1 DEF ProfilingInvariant, SpansApart, EverySpanSomewhere
<1>3. ASSUME NEW r \in DOMAIN session, RegionGet(r).status = "ok"
      PROVE  RegionGet(r) = [status |-> "ok", id |-> session[r], aggregate |-> Summary(r)]
  <2>1. r \in 1 .. Len(session) /\ Len(session) \in Nat /\ Len(session) <= Capacity
    BY DEF ProfilingInvariant, ProfilingTypes
  <2>2. r \in 1 .. Capacity
    BY <2>1, ProfilingAssumption
  <2>3. SessionValid /\ r <= Len(session)
    BY <1>3 DEF RegionGet
  <2>4. descriptors[r] = session[r]
    <3>1. SubSeq(descriptors, 1, Len(session)) = session
      BY <2>3 DEF SessionValid
    <3>2. SubSeq(descriptors, 1, Len(session))[r] = descriptors[r]
      BY <2>1
    <3> QED BY <3>1, <3>2
  <2>5. aggregates[r] = Summary(r)
    BY <2>2 DEF ProfilingInvariant, Summarized
  <2> QED BY <2>3, <2>4, <2>5 DEF RegionGet
<1> QED BY <1>2, <1>3, Zenon DEF ProfilingInvariant, Summarized, SpansAreAccounted

LEMMA TypesSay == ProfilingInvariant => TypeOK
BY DEF ProfilingInvariant, ProfilingTypes, TypeOK, Token
-----------------------------------------------------------------------------
(***************************************************************************)
(* One sample more                                                         *)
(***************************************************************************)

Total(S) == MapThenSumSet(LAMBDA sample : sample.ns, S)

(* A total counts the nanoseconds, sample by sample. *)
LEMMA TotalOfCells ==
  ASSUME NEW S, IsFiniteSet(S), \A x \in S : x.ns \in Nat
  PROVE  Total(S) = Cardinality(Cells([x \in S |-> x.ns], S))
<1> DEFINE w == [x \in S |-> x.ns]
           Solves(h) == h = [s \in SUBSET S |->
                               IF s = {} THEN 0
                               ELSE (CHOOSE x \in s : TRUE).ns + h[s \ {CHOOSE x \in s : TRUE}]]
           sum == CHOOSE h : Solves(h)
<1>1. \A i \in S : w[i] \in Nat
  OBVIOUS
<1>2. PICK h : Sums(h, w, S)
  <2> HIDE DEF w
  <2> QED BY <1>1, SumExists
<1>3. ASSUME NEW s \in SUBSET S, s # {}
      PROVE  w[CHOOSE x \in s : TRUE] = (CHOOSE x \in s : TRUE).ns
  <2>1. (CHOOSE x \in s : TRUE) \in S
    BY <1>3
  <2> QED BY <2>1
<1>4. Solves(h)
  <2>1. h = [s \in SUBSET S |-> IF s = {} THEN 0
                                ELSE w[CHOOSE x \in s : TRUE] + h[s \ {CHOOSE x \in s : TRUE}]]
    BY <1>2 DEF Sums
  <2> HIDE DEF w
  <2> QED BY <1>3, <2>1
<1>5. Solves(sum)
  <2> HIDE DEF Solves
  <2> QED BY <1>4, Zenon
<1>6. Total(S) = sum[S]
  BY Zenon DEF Total, MapThenSumSet, MapThenFoldSet
<1> HIDE DEF sum
<1>7. \A s \in SUBSET S :
        sum[s] = IF s = {} THEN 0
                 ELSE w[CHOOSE x \in s : TRUE] + sum[s \ {CHOOSE x \in s : TRUE}]
  <2>1. \A s \in SUBSET S :
          sum[s] = IF s = {} THEN 0
                   ELSE (CHOOSE x \in s : TRUE).ns + sum[s \ {CHOOSE x \in s : TRUE}]
    BY <1>5, Zenon
  <2> HIDE DEF w, Solves
  <2> QED BY <1>3, <2>1
<1>8. \A s \in SUBSET S : sum[s] = Cardinality(Cells(w, s))
  <2> HIDE DEF w
  <2> QED BY <1>1, <1>7, SumIsCells
<1> QED BY <1>6, <1>8

LEMMA TotalGrows ==
  ASSUME NEW S, IsFiniteSet(S), \A y \in S : y.ns \in Nat, NEW x, x \notin S, x.ns \in Nat
  PROVE  Total(S) \in Nat /\ Total(S \union {x}) = Total(S) + x.ns
<1> DEFINE T == S \union {x}
           w == [y \in S |-> y.ns]
           v == [y \in T |-> y.ns]
<1>1. IsFiniteSet(T) /\ \A y \in T : y.ns \in Nat /\ v[y] \in Nat
  BY FS_AddElement
<1>2. Cells(v, S) = Cells(w, S)
  BY DEF Cells
<1>3. T \ {x} = S /\ x \in T /\ v[x] = x.ns
  OBVIOUS
<1>4. Total(T) = Cardinality(Cells(v, T)) /\ Total(S) = Cardinality(Cells(w, S))
  <2> HIDE DEF T
  <2> QED BY <1>1, TotalOfCells
<1>5. IsFiniteSet(Cells(v, S)) /\ Cardinality(Cells(v, S)) \in Nat
  <2>1. IsFiniteSet(Cells(v, S))
    <3> HIDE DEF v
    <3> QED BY <1>1, CellsAreFinite
  <2> QED BY <2>1, FS_CardinalityType
<1>6. Cardinality(Cells(v, T)) = v[x] + Cardinality(Cells(v, T \ {x}))
  <2>1. v[x] \in Nat /\ IsFiniteSet(Cells(v, T \ {x}))
    BY <1>1, <1>3, <1>5
  <2> HIDE DEF v, T
  <2> QED BY <1>3, <2>1, CellsOfRow
<1>7. Cardinality(Cells(v, T)) = x.ns + Cardinality(Cells(w, S))
  <2> HIDE DEF v, w, T
  <2> QED BY <1>2, <1>3, <1>6
<1> HIDE DEF v, w
<1> QED BY <1>2, <1>4, <1>5, <1>7

SummaryOf(S) ==
  IF S = {} THEN Empty
  ELSE [count |-> Cardinality(S), total |-> Total(S),
        min |-> Min({sample.ns : sample \in S}), max |-> Max({sample.ns : sample \in S})]

SummariesOfSamples == \A r : Summary(r) = SummaryOf(samples[r])

LEMMA SummaryIsOfSamples == SummariesOfSamples
BY DEF SummariesOfSamples, Summary, SummaryOf, Durations, Total

LEMMA SummaryNext == SummariesOfSamples'
BY SummaryIsOfSamples, PTL

(* What is added to an aggregate is what its summary needs. *)
LEMMA SummaryGrows ==
  ASSUME NEW S \in SUBSET Sample, IsFiniteSet(S), NEW x \in Sample, x \notin S
  PROVE  SummaryOf(S \union {x}) = Counted(SummaryOf(S), x.ns)
<1> DEFINE T == S \union {x}
           D == {sample.ns : sample \in S}
           E == {sample.ns : sample \in T}
<1>1. \A y \in T : y.ns \in 0 .. MaxU64 /\ y.ns \in Nat
  BY ProfilingAssumption DEF Sample
<1>2. /\ Cardinality(S) \in Nat /\ Cardinality(T) = Cardinality(S) + 1
      /\ S # {} => Cardinality(S) # 0
  BY FS_AddElement, FS_CardinalityType, FS_EmptySet
<1>3. Total(S) \in Nat /\ Total(T) = Total(S) + x.ns
  <2> HIDE DEF D, E
  <2> QED BY <1>1, TotalGrows
<1>4. E = D \union {x.ns} /\ D \subseteq 0 .. MaxU64 /\ E \subseteq 0 .. MaxU64 /\ E # {}
  BY <1>1
<1>5. \A F : F \subseteq 0 .. MaxU64 => F \subseteq Nat
  OBVIOUS
<1>6. /\ Min(E) \in E /\ \A y \in E : Min(E) <= y
      /\ Max(E) \in E /\ \A y \in E : y <= Max(E)
  <2> HIDE DEF E
  <2>1. Min(E) \in E /\ \A y \in E : Min(E) <= y
    BY <1>4, <1>5, MinIsLeast
  <2>2. Max(E) \in E /\ \A y \in E : y <= Max(E)
    BY <1>4, ProfilingAssumption, MaxIsGreatest
  <2> QED BY <2>1, <2>2
<1>7. CASE S = {}
  <2>1. D = {} /\ E = {x.ns}
    BY <1>4, <1>7
  <2>2. Min(E) = x.ns /\ Max(E) = x.ns
    <3> HIDE DEF E
    <3> QED BY <1>6, <2>1
  <2>3. Cardinality(T) = 1 /\ Total(T) = x.ns
    <3>1. Cardinality(S) = 0
      BY <1>7, FS_EmptySet
    <3>2. Total(S) = 0
      <4>1. \E h : TRUE
        OBVIOUS
      <4>2. Cells([y \in S |-> y.ns], S) = {}
        BY <1>7 DEF Cells
      <4>3. \A y \in S : y.ns \in Nat
        BY <1>7
      <4> QED BY <4>2, <4>3, TotalOfCells, FS_EmptySet
    <3> QED BY <1>1, <1>2, <1>3, <3>1, <3>2
  <2>4. SummaryOf(T) = [count |-> 1, total |-> x.ns, min |-> x.ns, max |-> x.ns]
    <3> HIDE DEF E
    <3>1. T # {}
      OBVIOUS
    <3> QED BY <2>2, <2>3, <3>1 DEF SummaryOf, E
  <2>5. Counted(SummaryOf(S), x.ns) = [count |-> 1, total |-> x.ns, min |-> x.ns, max |-> x.ns]
    <3>1. Counted(Empty, x.ns) = [count |-> 1, total |-> x.ns, min |-> x.ns, max |-> x.ns]
      BY <1>1 DEF Counted, Empty
    <3> QED BY <1>7, <3>1 DEF SummaryOf
  <2> QED BY <2>4, <2>5
<1>8. CASE S # {}
  <2>1. /\ Min(D) \in D /\ \A y \in D : Min(D) <= y
        /\ Max(D) \in D /\ \A y \in D : y <= Max(D)
    <3>1. D # {}
      BY <1>8
    <3> HIDE DEF D
    <3>2. Min(D) \in D /\ \A y \in D : Min(D) <= y
      BY <1>4, <1>5, <3>1, MinIsLeast
    <3>3. Max(D) \in D /\ \A y \in D : y <= Max(D)
      BY <1>4, <3>1, ProfilingAssumption, MaxIsGreatest
    <3> QED BY <3>2, <3>3
  <2> DEFINE n == x.ns
             low == IF n < Min(D) THEN n ELSE Min(D)
             high == IF n > Max(D) THEN n ELSE Max(D)
  <2>2. Min(E) = low /\ Max(E) = high
    <3>1. E = D \union {n} /\ D \subseteq 0 .. MaxU64 /\ n \in 0 .. MaxU64
      BY <1>1, <1>4
    <3>2. n \in E /\ Min(D) \in E /\ Max(D) \in E
      BY <2>1, <3>1
    <3> HIDE DEF D, E, n
    <3>3. /\ n \in Nat /\ Min(D) \in Nat /\ Max(D) \in Nat
          /\ Min(E) \in Nat /\ Max(E) \in Nat
      BY <1>4, <1>5, <1>6, <2>1, <3>1
    <3>4. Min(E) <= n /\ Min(E) <= Min(D) /\ n <= Max(E) /\ Max(D) <= Max(E)
      BY <1>6, <3>2
    <3>5. (Min(E) = n \/ Min(D) <= Min(E)) /\ (Max(E) = n \/ Max(E) <= Max(D))
      BY <1>6, <2>1, <3>1
    <3> QED BY <3>3, <3>4, <3>5
  <2>3. SummaryOf(T) = [count |-> Cardinality(S) + 1, total |-> Total(S) + n,
                        min |-> low, max |-> high]
    <3>1. T # {}
      OBVIOUS
    <3> HIDE DEF D, low, high
    <3> QED BY <1>2, <1>3, <2>2, <3>1 DEF SummaryOf
  <2>4. Counted(SummaryOf(S), n) = [count |-> Cardinality(S) + 1, total |-> Total(S) + n,
                                    min |-> low, max |-> high]
    <3> DEFINE a == SummaryOf(S)
    <3>1. a = [count |-> Cardinality(S), total |-> Total(S), min |-> Min(D), max |-> Max(D)]
      BY <1>8 DEF SummaryOf
    <3>2. /\ a.count = Cardinality(S) /\ a.total = Total(S) /\ a.min = Min(D) /\ a.max = Max(D)
          /\ a.count # 0
      <4> HIDE DEF D
      <4> QED BY <1>2, <1>8, <3>1
    <3> HIDE DEF a
    <3>3. Counted(a, n) = [count |-> Cardinality(S) + 1, total |-> Total(S) + n,
                           min |-> low, max |-> high]
      <4> HIDE DEF D, n
      <4> QED BY <3>2 DEF Counted
    <3> QED BY <3>3 DEF a
  <2> QED BY <2>3, <2>4
<1> QED BY <1>7, <1>8
-----------------------------------------------------------------------------
(***************************************************************************)
(* The steps                                                               *)
(***************************************************************************)

LEMMA ZeroIsInactive == ~Zero.active
BY DEF Zero

LEMMA TokenAt ==
  ASSUME ProfilingInvariant, NEW t \in Tokens
  PROVE  /\ tokens[t] = Zero \/ tokens[t] \in Token(begun)
         /\ tokens[t].active => /\ tokens[t] \in Token(begun) /\ tokens[t].region \in 1 .. Capacity
                                /\ tokens[t].start \in Nat /\ tokens[t].span \in 1 .. begun
<1>1. tokens[t] = Zero \/ tokens[t] \in Token(begun)
  BY DEF ProfilingInvariant, ProfilingTypes
<1>2. PICK token : token = tokens[t]
  OBVIOUS
<1>3. token.active => /\ token \in Token(begun) /\ token.region \in 1 .. Capacity
                      /\ token.start \in Nat /\ token.span \in 1 .. begun
  BY <1>1, <1>2, ZeroIsInactive DEF Token
<1> QED BY <1>1, <1>2, <1>3

(* What the summaries are of. *)
LEMMA SamplesFrame ==
  ASSUME UNCHANGED samples
  PROVE  \A r : Spans(r)' = Spans(r) /\ Summary(r)' = Summary(r)
BY SummaryIsOfSamples, SummaryNext DEF Spans, SummariesOfSamples

(* The caller writes his descriptors, or a call fails. *)
LEMMA FrameKeeps ==
  ASSUME ProfilingInvariant, descriptors' \in [1 .. Capacity -> Ids],
         UNCHANGED <<aggregates, session, tokens, begun, samples, dropped>>
  PROVE  ProfilingInvariant'
<1>1. ProfilingTypes'
  BY DEF ProfilingInvariant, ProfilingTypes, Token
<1>2. \A s : IsOpen(s)' = IsOpen(s) /\ IsSampled(s)' = IsSampled(s)
  BY SamplesFrame DEF IsOpen, IsSampled, Original
<1>3. SpansApart'
  BY <1>2, SamplesFrame DEF SpansApart, Original, ProfilingInvariant
<1>4. EverySpanSomewhere'
  BY <1>2 DEF EverySpanSomewhere, ProfilingInvariant
<1>5. Summarized'
  BY SamplesFrame DEF Summarized, ProfilingInvariant
<1> QED BY <1>1, <1>3, <1>4, <1>5 DEF ProfilingInvariant

(* Regions that lose what they counted give up its spans. *)
LEMMA ZeroKeeps ==
  ASSUME ProfilingInvariant, NEW count \in 0 .. Capacity, ZeroAggregates(count),
         UNCHANGED <<descriptors, tokens, begun>>,
         session' \in Seq(Nat), Len(session') <= Capacity
  PROVE  ProfilingInvariant'
<1>1. /\ \A r \in 1 .. Capacity :
           /\ aggregates'[r] = IF r <= count THEN Empty ELSE aggregates[r]
           /\ samples'[r] = IF r <= count THEN {} ELSE samples[r]
      /\ \A s : s \in dropped' <=> s \in dropped \/ \E r \in 1 .. count : s \in Spans(r)
  BY DEF ZeroAggregates
<1>2. 1 .. count \subseteq 1 .. Capacity /\ \A r \in 1 .. count : r <= count
  BY ProfilingAssumption
<1>3. \A r \in 1 .. Capacity : Spans(r)' = IF r <= count THEN {} ELSE Spans(r)
  BY <1>1 DEF Spans
<1>4. \A s : IsOpen(s)' = IsOpen(s)
  BY DEF IsOpen, Original
<1>5. \A s : IsSampled(s)' <=> \E r \in 1 .. Capacity : ~(r <= count) /\ s \in Spans(r)
  BY <1>3 DEF IsSampled
<1>6. \A r \in 1 .. Capacity : r <= count => r \in 1 .. count
  BY ProfilingAssumption
<1>7. ProfilingTypes'
  <2>1. Empty \in Aggregate
    BY ProfilingAssumption DEF Empty, Aggregate
  <2>2. aggregates' \in [1 .. Capacity -> Aggregate]
    BY <2>1 DEF ZeroAggregates, ProfilingInvariant, ProfilingTypes
  <2>3. samples' \in [1 .. Capacity -> SUBSET Sample]
    BY DEF ZeroAggregates, ProfilingInvariant, ProfilingTypes
  <2>4. \A r \in 1 .. Capacity : IsFiniteSet(samples'[r])
    BY <1>1, FS_EmptySet DEF ProfilingInvariant, ProfilingTypes
  <2> QED BY <2>2, <2>3, <2>4 DEF ProfilingInvariant, ProfilingTypes, Token
<1>8. SpansApart'
  <2>1. /\ \A s : IsOpen(s) => ~IsSampled(s) /\ s \notin dropped
        /\ \A s : IsSampled(s) => s \notin dropped
        /\ \A q, r \in 1 .. Capacity : q # r => Spans(q) \intersect Spans(r) = {}
    BY DEF ProfilingInvariant, SpansApart
  <2>2. \A s : IsOpen(s)' => ~IsSampled(s)' /\ s \notin dropped'
    BY <1>1, <1>2, <1>4, <1>5, <2>1 DEF IsSampled
  <2>3. \A s : IsSampled(s)' => s \notin dropped'
    BY <1>1, <1>2, <1>5, <2>1 DEF IsSampled
  <2>4. \A q, r \in 1 .. Capacity : q # r => Spans(q)' \intersect Spans(r)' = {}
    BY <1>3, <2>1
  <2>5. \A t, u \in Tokens :
          (Original(t) /\ Original(u))' /\ tokens'[t].span = tokens'[u].span => t = u
    BY DEF ProfilingInvariant, SpansApart, Original
  <2> QED BY <2>2, <2>3, <2>4, <2>5 DEF SpansApart
<1>9. EverySpanSomewhere'
  <2>1. \A s : s \in 1 .. begun <=> IsOpen(s) \/ IsSampled(s) \/ s \in dropped
    BY DEF ProfilingInvariant, EverySpanSomewhere
  <2>2. \A s : IsSampled(s)' \/ s \in dropped' <=> IsSampled(s) \/ s \in dropped
    BY <1>1, <1>2, <1>5, <1>6 DEF IsSampled
  <2> QED BY <1>4, <2>1, <2>2 DEF EverySpanSomewhere
<1>10. Summarized'
  <2> SUFFICES ASSUME NEW r \in 1 .. Capacity PROVE aggregates'[r] = Summary(r)'
    BY DEF Summarized
  <2>1. CASE r <= count
    BY <1>1, <2>1 DEF Summary
  <2>2. CASE ~(r <= count)
    <3>1. samples'[r] = samples[r] /\ aggregates'[r] = aggregates[r]
      BY <1>1, <2>2
    <3>2. Summary(r)' = Summary(r)
      BY <3>1, SummaryIsOfSamples, SummaryNext DEF SummariesOfSamples
    <3> QED BY <3>1, <3>2 DEF ProfilingInvariant, Summarized
  <2> QED BY <2>1, <2>2
<1> QED BY <1>7, <1>8, <1>9, <1>10 DEF ProfilingInvariant

LEMMA PrepareKeeps ==
  ASSUME ProfilingInvariant, NEW count \in 0 .. Capacity, Prepare(count)
  PROVE  ProfilingInvariant'
<1> DEFINE ids == SubSeq(descriptors, 1, count)
<1>1. descriptors \in [1 .. Capacity -> Ids] /\ Capacity \in Nat
  BY ProfilingAssumption DEF ProfilingInvariant, ProfilingTypes
<1>2. descriptors \in Seq(Nat) /\ Len(descriptors) = Capacity
  <2>1. descriptors \in [1 .. Capacity -> Nat]
    BY <1>1, ProfilingAssumption
  <2> QED BY <1>1, <2>1, SeqDef
<1>3. ids \in Seq(Nat) /\ Len(ids) = count
  BY <1>1, <1>2
<1> HIDE DEF ids
<1>4. \/ session' = ids /\ ZeroAggregates(count) /\ UNCHANGED <<descriptors, tokens, begun>>
      \/ UNCHANGED <<descriptors, aggregates, session, tokens, begun, samples, dropped>>
  BY DEF Prepare, ids
<1>5. CASE session' = ids /\ ZeroAggregates(count) /\ UNCHANGED <<descriptors, tokens, begun>>
  BY <1>1, <1>3, <1>5, ZeroKeeps
<1>6. CASE UNCHANGED <<descriptors, aggregates, session, tokens, begun, samples, dropped>>
  BY <1>1, <1>6, FrameKeeps
<1> QED BY <1>4, <1>5, <1>6

LEMMA ResetKeeps ==
  ASSUME ProfilingInvariant, Reset
  PROVE  ProfilingInvariant'
<1>1. descriptors \in [1 .. Capacity -> Ids] /\ session \in Seq(Nat) /\ Len(session) \in 0 .. Capacity
  BY ProfilingAssumption DEF ProfilingInvariant, ProfilingTypes
<1>2. CASE ZeroAggregates(Len(session)) /\ UNCHANGED <<descriptors, session, tokens, begun>>
  BY <1>1, <1>2, ZeroKeeps
<1>3. CASE UNCHANGED <<descriptors, aggregates, session, tokens, begun, samples, dropped>>
  BY <1>1, <1>3, FrameKeeps
<1> QED BY <1>2, <1>3 DEF Reset

LEMMA FailKeeps ==
  ASSUME ProfilingInvariant, NEW answer, Fail(answer)
  PROVE  ProfilingInvariant'
BY FrameKeeps DEF Fail, ProfilingInvariant, ProfilingTypes

(* A span that begins is one there has not been. *)
LEMMA BeginKeeps ==
  ASSUME ProfilingInvariant, NEW t \in Tokens, NEW region \in 1 .. Capacity, NEW now \in Times,
         Begin(t, region, now)
  PROVE  ProfilingInvariant'
<1> DEFINE new == [active |-> TRUE, region |-> region, start |-> now, identity |-> t,
                   span |-> begun + 1]
           n == begun + 1
<1>1. CASE \E answer : Fail(answer)
  BY <1>1, FailKeeps
<1>2. CASE /\ tokens[t] = Zero /\ ~(now < 0) /\ tokens' = [tokens EXCEPT ![t] = new]
           /\ begun' = n /\ begun < MaxSpans
           /\ UNCHANGED <<descriptors, aggregates, session, samples, dropped>>
  <2>1. begun \in Nat /\ n \in Nat /\ now \in Nat /\ n \in 0 .. MaxSpans /\ n \in 1 .. n
    BY <1>2, ProfilingAssumption DEF ProfilingInvariant, ProfilingTypes
  <2>2. tokens'[t] = new /\ \A u \in Tokens : u # t => tokens'[u] = tokens[u]
    BY <1>2 DEF ProfilingInvariant, ProfilingTypes
  <2>3. new \in Token(n) /\ new.active /\ new.identity = t /\ new.span = n
    BY <2>1 DEF Token
  <2> HIDE DEF new
  <2>4. ProfilingTypes'
    <3>1. Token(begun) \subseteq Token(n)
      <4>1. \A s \in 1 .. begun : s \in 1 .. n
        BY <2>1
      <4> HIDE DEF n
      <4> QED BY <4>1 DEF Token
    <3>2. tokens' \in [Tokens -> {Zero} \union Token(n)]
      BY <1>2, <2>3, <3>1 DEF ProfilingInvariant, ProfilingTypes
    <3>3. Token(begun)' = Token(n)
      BY <1>2 DEF Token
    <3> QED BY <1>2, <2>1, <3>2, <3>3 DEF ProfilingInvariant, ProfilingTypes
  <2>5. ~Original(t) /\ Original(t)' /\ \A u \in Tokens : u # t => Original(u)' = Original(u)
    BY <1>2, <2>2, <2>3, ZeroIsInactive DEF Original
  <2>6. \A s : IsOpen(s)' <=> IsOpen(s) \/ s = n
    BY <2>2, <2>3, <2>5 DEF IsOpen
  <2>7. \A s : IsSampled(s)' = IsSampled(s) /\ \A r : Spans(r)' = Spans(r)
    BY <1>2, SamplesFrame DEF IsSampled
  <2>8. ~IsOpen(n) /\ ~IsSampled(n) /\ n \notin dropped
    <3>1. n \notin 1 .. begun
      BY <2>1
    <3> QED BY <3>1 DEF ProfilingInvariant, EverySpanSomewhere
  <2>9. SpansApart'
    <3>1. /\ \A s : IsOpen(s) => ~IsSampled(s) /\ s \notin dropped
          /\ \A s : IsSampled(s) => s \notin dropped
          /\ \A q, r \in 1 .. Capacity : q # r => Spans(q) \intersect Spans(r) = {}
          /\ \A v, u \in Tokens :
               Original(v) /\ Original(u) /\ tokens[v].span = tokens[u].span => v = u
      BY DEF ProfilingInvariant, SpansApart
    <3>2. ASSUME NEW v \in Tokens, NEW u \in Tokens, Original(v)', Original(u)',
                 tokens'[v].span = tokens'[u].span, v # u
          PROVE  FALSE
      <4>1. CASE v = t
        BY <2>2, <2>3, <2>5, <2>8, <3>2, <4>1 DEF IsOpen
      <4>2. CASE u = t
        BY <2>2, <2>3, <2>5, <2>8, <3>2, <4>2 DEF IsOpen
      <4>3. CASE v # t /\ u # t
        BY <2>2, <2>5, <3>1, <3>2, <4>3
      <4> QED BY <4>1, <4>2, <4>3
    <3>3. \A s : IsOpen(s)' => ~IsSampled(s)' /\ s \notin dropped'
      BY <1>2, <2>6, <2>7, <2>8, <3>1
    <3>4. \A s : IsSampled(s)' => s \notin dropped'
      BY <1>2, <2>7, <3>1
    <3>5. \A q, r \in 1 .. Capacity : q # r => Spans(q)' \intersect Spans(r)' = {}
      BY <2>7, <3>1
    <3> QED BY <3>2, <3>3, <3>4, <3>5 DEF SpansApart
  <2>10. EverySpanSomewhere'
    <3>1. \A s : s \in 1 .. n <=> s \in 1 .. begun \/ s = n
      BY <2>1
    <3> QED BY <1>2, <2>6, <2>7, <3>1 DEF EverySpanSomewhere, ProfilingInvariant
  <2>11. Summarized'
    BY <1>2, SamplesFrame DEF Summarized, ProfilingInvariant
  <2> QED BY <2>4, <2>9, <2>10, <2>11 DEF ProfilingInvariant
<1> QED BY <1>1, <1>2 DEF Begin

(* A span that leaves its token, for an aggregate or for nothing. *)
LEMMA TokenLeaves ==
  ASSUME ProfilingInvariant, NEW t \in Tokens, tokens' = [tokens EXCEPT ![t] = Zero]
  PROVE  /\ \A s : IsOpen(s)' <=> IsOpen(s) /\ ~(Original(t) /\ s = tokens[t].span)
         /\ \A v, u \in Tokens :
              (Original(v) /\ Original(u))' /\ tokens'[v].span = tokens'[u].span => v = u
         /\ tokens' \in [Tokens -> {Zero} \union Token(begun)]
<1>1. tokens'[t] = Zero /\ \A u \in Tokens : u # t => tokens'[u] = tokens[u]
  BY DEF ProfilingInvariant, ProfilingTypes
<1>2. ~Original(t)' /\ \A u \in Tokens : u # t => Original(u)' = Original(u)
  BY <1>1, ZeroIsInactive DEF Original
<1>3. \A v, u \in Tokens :
        Original(v) /\ Original(u) /\ tokens[v].span = tokens[u].span => v = u
  BY DEF ProfilingInvariant, SpansApart
<1>4. \A s : IsOpen(s)' <=> IsOpen(s) /\ ~(Original(t) /\ s = tokens[t].span)
  BY <1>1, <1>2, <1>3 DEF IsOpen
<1>5. ASSUME NEW v \in Tokens, NEW u \in Tokens, Original(v)', Original(u)',
             tokens'[v].span = tokens'[u].span
      PROVE  v = u
  BY <1>1, <1>2, <1>3, <1>5
<1>6. tokens' \in [Tokens -> {Zero} \union Token(begun)]
  BY DEF ProfilingInvariant, ProfilingTypes
<1> QED BY <1>4, <1>5, <1>6

(* Whatever a copy of its token did, a span that ends was counted nowhere. *)
LEMMA EndKeeps ==
  ASSUME ProfilingInvariant, NEW t \in Tokens, NEW now \in Times, End(t, now)
  PROVE  ProfilingInvariant'
<1>1. CASE EndStatus(t, now) # "ok"
  BY <1>1, FailKeeps DEF End
<1>2. CASE EndStatus(t, now) = "ok"
  <2>1. PICK r, n, ns : r = tokens[t].region /\ n = tokens[t].span /\ ns = now - tokens[t].start
    OBVIOUS
  <2> DEFINE x == [span |-> n, ns |-> ns]
  <2>2. PICK a, b : a = aggregates[r] /\ b = Counted(a, ns)
    OBVIOUS
  <2>3. /\ aggregates' = [aggregates EXCEPT ![r] = b]
        /\ samples' = [samples EXCEPT ![r] = @ \union {x}]
        /\ tokens' = [tokens EXCEPT ![t] = Zero]
        /\ UNCHANGED <<descriptors, session, begun, dropped>>
    BY <1>2, <2>1, <2>2 DEF End
  <2>4. /\ TokenValid(t) /\ ~(now < 0) /\ now \notin 0 .. tokens[t].start - 1
        /\ ~(b.count > MaxU64) /\ ~(b.total > MaxU64)
    BY <1>2, <2>1, <2>2 DEF EndStatus
  <2>5. Original(t) /\ r \in 1 .. Capacity /\ tokens[t].start \in Nat /\ n \in 1 .. begun
    BY <2>1, <2>4, TokenAt DEF TokenValid, Original
  <2>6. begun \in Nat /\ n \in Nat /\ ns \in Nat
    <3>1. now \in Int /\ begun \in Nat
      BY ProfilingAssumption DEF ProfilingInvariant, ProfilingTypes
    <3> QED BY <2>1, <2>4, <2>5, <3>1
  <2>7. a \in Aggregate
    BY <2>2, <2>5 DEF ProfilingInvariant, ProfilingTypes
  <2>8. b \in Aggregate /\ ns \in 0 .. MaxU64
    <3>1. PICK m \in Nat : m = MaxU64
      BY ProfilingAssumption
    <3>2. /\ a.count \in 0 .. m /\ a.total \in 0 .. m /\ a.min \in 0 .. m /\ a.max \in 0 .. m
      BY <2>7, <3>1 DEF Aggregate
    <3>3. b.count = a.count + 1 /\ b.total = a.total + ns
      BY <2>2 DEF Counted
    <3>4. ns \in 0 .. m /\ a.count + 1 \in 0 .. m /\ a.total + ns \in 0 .. m
      BY <2>4, <2>6, <3>1, <3>2, <3>3
    <3> QED BY <2>2, <3>1, <3>2, <3>4 DEF Counted, Aggregate
  <2>9. x \in Sample /\ x.span = n /\ x.ns = ns
    BY <2>6, <2>8 DEF Sample
  <2> HIDE DEF x
  <2>10. IsOpen(n) /\ ~IsSampled(n) /\ n \notin dropped
    BY <2>1, <2>5 DEF IsOpen, ProfilingInvariant, SpansApart
  <2>11. x \notin samples[r]
    <3>1. n \notin Spans(r)
      BY <2>5, <2>10 DEF IsSampled
    <3> QED BY <2>9, <3>1 DEF Spans
  <2>12. /\ samples'[r] = samples[r] \union {x} /\ aggregates'[r] = b
         /\ \A q \in 1 .. Capacity : q # r => /\ samples'[q] = samples[q]
                                              /\ aggregates'[q] = aggregates[q]
    BY <2>3, <2>5 DEF ProfilingInvariant, ProfilingTypes
  <2>13. /\ \A s : s \in Spans(r)' <=> s \in Spans(r) \/ s = n
         /\ \A q \in 1 .. Capacity : q # r => Spans(q)' = Spans(q)
    BY <2>9, <2>12 DEF Spans
  <2>14. \A s : IsSampled(s)' <=> IsSampled(s) \/ s = n
    BY <2>5, <2>13 DEF IsSampled
  <2>15. /\ \A s : IsOpen(s)' <=> IsOpen(s) /\ s # n
         /\ \A v, u \in Tokens :
              (Original(v) /\ Original(u))' /\ tokens'[v].span = tokens'[u].span => v = u
         /\ tokens' \in [Tokens -> {Zero} \union Token(begun)]
    BY <2>1, <2>3, <2>5, TokenLeaves
  <2>16. ProfilingTypes'
    <3>1. aggregates' \in [1 .. Capacity -> Aggregate]
      BY <2>3, <2>8 DEF ProfilingInvariant, ProfilingTypes
    <3>2. samples' \in [1 .. Capacity -> SUBSET Sample]
      BY <2>3, <2>5, <2>9 DEF ProfilingInvariant, ProfilingTypes
    <3>3. \A q \in 1 .. Capacity : IsFiniteSet(samples'[q])
      <4> TAKE q \in 1 .. Capacity
      <4>1. \A k \in 1 .. Capacity : IsFiniteSet(samples[k])
        BY DEF ProfilingInvariant, ProfilingTypes
      <4>2. IsFiniteSet(samples[r] \union {x})
        BY <2>5, <4>1, FS_AddElement
      <4> QED BY <2>12, <4>1, <4>2
    <3>4. Token(begun)' = Token(begun)
      BY <2>3 DEF Token
    <3> QED BY <2>3, <2>15, <3>1, <3>2, <3>3, <3>4 DEF ProfilingInvariant, ProfilingTypes
  <2>17. SpansApart'
    <3>1. /\ \A s : IsOpen(s) => ~IsSampled(s) /\ s \notin dropped
          /\ \A s : IsSampled(s) => s \notin dropped
          /\ \A q, p \in 1 .. Capacity : q # p => Spans(q) \intersect Spans(p) = {}
      BY DEF ProfilingInvariant, SpansApart
    <3>2. ASSUME NEW q \in 1 .. Capacity, NEW p \in 1 .. Capacity, q # p
          PROVE  Spans(q)' \intersect Spans(p)' = {}
      <4>1. n \notin Spans(q) /\ n \notin Spans(p)
        BY <2>10 DEF IsSampled
      <4> QED BY <2>13, <3>1, <3>2, <4>1
    <3>3. \A s : IsOpen(s)' => ~IsSampled(s)' /\ s \notin dropped'
      BY <2>3, <2>14, <2>15, <3>1
    <3>4. \A s : IsSampled(s)' => s \notin dropped'
      BY <2>3, <2>10, <2>14, <3>1
    <3> QED BY <2>15, <3>2, <3>3, <3>4 DEF SpansApart
  <2>18. EverySpanSomewhere'
    BY <2>3, <2>10, <2>14, <2>15 DEF EverySpanSomewhere, ProfilingInvariant
  <2>19. Summarized'
    <3>1. SUFFICES ASSUME NEW q \in 1 .. Capacity PROVE aggregates'[q] = SummaryOf(samples'[q])
      BY SummaryNext DEF Summarized, SummariesOfSamples
    <3>2. aggregates[q] = SummaryOf(samples[q])
      BY SummaryIsOfSamples DEF Summarized, SummariesOfSamples, ProfilingInvariant
    <3>3. CASE q = r
      <4>1. samples[r] \in SUBSET Sample /\ IsFiniteSet(samples[r])
        BY <2>5 DEF ProfilingInvariant, ProfilingTypes
      <4>2. SummaryOf(samples[r] \union {x}) = Counted(SummaryOf(samples[r]), ns)
        BY <2>9, <2>11, <4>1, SummaryGrows
      <4> QED BY <2>2, <2>12, <3>2, <3>3, <4>2
    <3>4. CASE q # r
      BY <2>12, <3>2, <3>4
    <3> QED BY <3>3, <3>4
  <2> QED BY <2>16, <2>17, <2>18, <2>19 DEF ProfilingInvariant
<1> QED BY <1>1, <1>2

(* A copy is not where its span began. *)
LEMMA CopyKeeps ==
  ASSUME ProfilingInvariant, NEW source \in Tokens, NEW target \in Tokens, Copy(source, target)
  PROVE  ProfilingInvariant'
<1>1. /\ tokens[target] = Zero /\ tokens[source].identity # target
      /\ tokens' = [tokens EXCEPT ![target] = tokens[source]]
      /\ UNCHANGED <<descriptors, aggregates, session, ret, begun, samples, dropped>>
  BY DEF Copy
<1>2. tokens'[target] = tokens[source] /\ \A u \in Tokens : u # target => tokens'[u] = tokens[u]
  BY <1>1 DEF ProfilingInvariant, ProfilingTypes
<1>3. \A u \in Tokens : Original(u)' = Original(u) /\ (Original(u) => tokens'[u] = tokens[u])
  <2> TAKE u \in Tokens
  <2>1. CASE u = target
    BY <1>1, <1>2, <2>1, ZeroIsInactive DEF Original
  <2>2. CASE u # target
    BY <1>2, <2>2 DEF Original
  <2> QED BY <2>1, <2>2
<1>4. \A s : IsOpen(s)' = IsOpen(s)
  BY <1>3 DEF IsOpen
<1>5. \A s : IsSampled(s)' = IsSampled(s) /\ \A r : Spans(r)' = Spans(r)
  BY <1>1, SamplesFrame DEF IsSampled
<1>6. ProfilingTypes'
  <2>1. tokens' \in [Tokens -> {Zero} \union Token(begun)]
    BY <1>1 DEF ProfilingInvariant, ProfilingTypes
  <2>2. Token(begun)' = Token(begun)
    BY <1>1 DEF Token
  <2> QED BY <1>1, <2>1, <2>2 DEF ProfilingInvariant, ProfilingTypes
<1>7. SpansApart'
  BY <1>1, <1>3, <1>4, <1>5 DEF SpansApart, ProfilingInvariant
<1>8. EverySpanSomewhere'
  BY <1>1, <1>4, <1>5 DEF EverySpanSomewhere, ProfilingInvariant
<1>9. Summarized'
  BY <1>1, SamplesFrame DEF Summarized, ProfilingInvariant
<1> QED BY <1>6, <1>7, <1>8, <1>9 DEF ProfilingInvariant

(* Clearing the token a span began in gives the span up, clearing a copy does not. *)
LEMMA ClearKeeps ==
  ASSUME ProfilingInvariant, NEW t \in Tokens, Clear(t)
  PROVE  ProfilingInvariant'
<1>1. /\ tokens[t].active /\ tokens' = [tokens EXCEPT ![t] = Zero]
      /\ dropped' = IF Original(t) THEN dropped \union {tokens[t].span} ELSE dropped
      /\ UNCHANGED <<descriptors, aggregates, session, ret, begun, samples>>
  BY DEF Clear
<1>2. PICK n : n = tokens[t].span
  OBVIOUS
<1>3. \A s : s \in dropped' <=> s \in dropped \/ (Original(t) /\ s = n)
  BY <1>1, <1>2
<1>4. /\ \A s : IsOpen(s)' <=> IsOpen(s) /\ ~(Original(t) /\ s = n)
      /\ \A v, u \in Tokens :
           (Original(v) /\ Original(u))' /\ tokens'[v].span = tokens'[u].span => v = u
      /\ tokens' \in [Tokens -> {Zero} \union Token(begun)]
  BY <1>1, <1>2, TokenLeaves
<1>5. Original(t) => IsOpen(n)
  BY <1>2 DEF IsOpen
<1>6. \A s : IsSampled(s)' = IsSampled(s) /\ \A r : Spans(r)' = Spans(r)
  BY <1>1, SamplesFrame DEF IsSampled
<1>7. ProfilingTypes'
  <2>1. Token(begun)' = Token(begun)
    BY <1>1 DEF Token
  <2> QED BY <1>1, <1>4, <2>1 DEF ProfilingInvariant, ProfilingTypes
<1>8. SpansApart'
  <2>1. /\ \A s : IsOpen(s) => ~IsSampled(s) /\ s \notin dropped
        /\ \A s : IsSampled(s) => s \notin dropped
        /\ \A q, p \in 1 .. Capacity : q # p => Spans(q) \intersect Spans(p) = {}
    BY DEF ProfilingInvariant, SpansApart
  <2>2. /\ \A s : IsOpen(s)' => ~IsSampled(s)' /\ s \notin dropped'
        /\ \A s : IsSampled(s)' => s \notin dropped'
    BY <1>3, <1>4, <1>5, <1>6, <2>1
  <2> QED BY <1>4, <1>6, <2>1, <2>2 DEF SpansApart
<1>9. EverySpanSomewhere'
  BY <1>1, <1>3, <1>4, <1>5, <1>6 DEF EverySpanSomewhere, ProfilingInvariant
<1>10. Summarized'
  BY <1>1, SamplesFrame DEF Summarized, ProfilingInvariant
<1> QED BY <1>7, <1>8, <1>9, <1>10 DEF ProfilingInvariant
-----------------------------------------------------------------------------
(***************************************************************************)
(* The theorems                                                            *)
(***************************************************************************)

LEMMA InvariantInitially == Init => ProfilingInvariant
<1> SUFFICES ASSUME Init PROVE ProfilingInvariant
  OBVIOUS
<1>1. /\ begun = 0 /\ dropped = {} /\ session = <<>>
      /\ \A t \in Tokens : tokens[t] = Zero
      /\ \A r \in 1 .. Capacity : aggregates[r] = Empty /\ samples[r] = {}
  BY DEF Init
<1>2. (\A s : ~IsOpen(s) /\ ~IsSampled(s)) /\ \A t \in Tokens : ~Original(t)
  BY <1>1, ZeroIsInactive DEF IsOpen, IsSampled, Original, Spans
<1>3. ProfilingTypes
  <2>1. Empty \in Aggregate
    BY ProfilingAssumption DEF Empty, Aggregate
  <2>2. /\ descriptors \in [1 .. Capacity -> Ids] /\ aggregates \in [1 .. Capacity -> Aggregate]
        /\ samples \in [1 .. Capacity -> SUBSET Sample]
        /\ tokens \in [Tokens -> {Zero} \union Token(begun)]
    BY <2>1, ProfilingAssumption DEF Init
  <2>3. \A r \in 1 .. Capacity : IsFiniteSet(samples[r])
    BY <1>1, FS_EmptySet
  <2> QED BY <1>1, <2>2, <2>3, ProfilingAssumption DEF ProfilingTypes
<1>4. SpansApart
  BY <1>1, <1>2 DEF SpansApart, Spans
<1>5. EverySpanSomewhere
  BY <1>1, <1>2 DEF EverySpanSomewhere
<1>6. Summarized
  BY <1>1 DEF Summarized, Summary
<1> QED BY <1>3, <1>4, <1>5, <1>6 DEF ProfilingInvariant

LEMMA InvariantKept == ProfilingInvariant /\ [Next]_vars => ProfilingInvariant'
<1> SUFFICES ASSUME ProfilingInvariant, [Next]_vars PROVE ProfilingInvariant'
  OBVIOUS
<1>1. ASSUME NEW count \in 0 .. Capacity, Prepare(count) PROVE ProfilingInvariant'
  BY <1>1, PrepareKeeps
<1>2. CASE Reset
  BY <1>2, ResetKeeps
<1>3. ASSUME NEW r \in 1 .. Capacity, NEW id \in Ids, Describe(r, id) PROVE ProfilingInvariant'
  <2>1. descriptors' \in [1 .. Capacity -> Ids]
    BY <1>3 DEF Describe, ProfilingInvariant, ProfilingTypes
  <2> QED BY <1>3, <2>1, FrameKeeps DEF Describe
<1>4. ASSUME NEW t \in Tokens, Clear(t) PROVE ProfilingInvariant'
  BY <1>4, ClearKeeps
<1>5. ASSUME NEW t \in Tokens, NEW to \in Tokens, Copy(t, to) PROVE ProfilingInvariant'
  BY <1>5, CopyKeeps
<1>6. ASSUME NEW t \in Tokens, NEW now \in Times, End(t, now) PROVE ProfilingInvariant'
  BY <1>6, EndKeeps
<1>7. ASSUME NEW t \in Tokens, NEW now \in Times, NEW r \in 1 .. Capacity, Begin(t, r, now)
      PROVE  ProfilingInvariant'
  BY <1>7, BeginKeeps
<1>8. CASE UNCHANGED vars
  BY <1>8, FrameKeeps DEF vars, ProfilingInvariant, ProfilingTypes
<1> QED BY <1>1, <1>2, <1>3, <1>4, <1>5, <1>6, <1>7, <1>8 DEF Next

(* Spans are in one place each, no two originals hold one span, and every    *)
(* aggregate is the summary of its samples, in every state.                  *)
THEOREM InvariantHolds == Spec => []ProfilingInvariant
BY InvariantInitially, InvariantKept, PTL DEF Spec

(* No counter of an aggregate leaves its width. *)
THEOREM TypeCorrect == Spec => []TypeOK
BY InvariantHolds, TypesSay, PTL

(* Every span that began is open where it began, counted once, or given up,  *)
(* and what region_get reads out are the summaries of the region prepared:   *)
(* however tokens are copied, ends fail, sessions are prepared again and     *)
(* descriptors written meanwhile.                                            *)
THEOREM AccountingTheorem == Spec => []SpansAreAccounted
BY InvariantHolds, InvariantSays, PTL

-----------------------------------------------------------------------------
(***************************************************************************)
(* Configuration                                                           *)
(***************************************************************************)
(* A failure with its status: what is no failure, and only that, is "ok".    *)
Told(failure) == failure = NoFailure \/ failure.status # "ok"

(* The first of a list of failures is one of them, or there is none.         *)
LEMMA FirstIsOne ==
  ASSUME NEW failures, DOMAIN failures \subseteq Nat
  PROVE  \/ /\ First(failures) = NoFailure
            /\ \A i \in DOMAIN failures : failures[i] = NoFailure
         \/ \E i \in DOMAIN failures :
              /\ First(failures) = failures[i] /\ failures[i] # NoFailure
              /\ \A j \in DOMAIN failures : j < i => failures[j] = NoFailure
<1> DEFINE bad == {i \in DOMAIN failures : failures[i] # NoFailure}
<1>1. CASE bad = {}
  BY <1>1 DEF First
<1>2. CASE bad # {}
  <2>1. bad \subseteq Nat
    OBVIOUS
  <2> HIDE DEF bad
  <2>2. Min(bad) \in bad /\ \A y \in bad : Min(bad) <= y
    BY <1>2, <2>1, MinIsLeast
  <2>3. First(failures) = failures[Min(bad)]
    BY <1>2, Zenon DEF First, bad
  <2>4. Min(bad) \in DOMAIN failures /\ failures[Min(bad)] # NoFailure
    BY <2>2 DEF bad
  <2>5. ASSUME NEW j \in DOMAIN failures, j < Min(bad)
        PROVE  failures[j] = NoFailure
    <3>1. j \in Nat /\ Min(bad) \in Nat
      BY <2>1, <2>2
    <3>2. ~(Min(bad) <= j)
      BY <2>5, <3>1
    <3> QED BY <2>2, <3>2 DEF bad
  <2> QED BY <2>3, <2>4, <2>5
<1> QED BY <1>1, <1>2

LEMMA FirstIsTold ==
  ASSUME NEW failures, DOMAIN failures \subseteq Nat, \A i \in DOMAIN failures : Told(failures[i])
  PROVE  Told(First(failures))
BY FirstIsOne DEF Told

LEMMA FirstOfTwo ==
  ASSUME NEW a, NEW b
  PROVE  First(<<a, b>>) = IF a # NoFailure THEN a ELSE b
<1> DEFINE list == <<a, b>>
<1>1. DOMAIN list = 1 .. 2 /\ list[1] = a /\ list[2] = b
  OBVIOUS
<1> HIDE DEF list
<1>2. DOMAIN list \subseteq Nat /\ 1 \in DOMAIN list /\ 2 \in DOMAIN list
  BY <1>1
<1>3. \A i \in DOMAIN list : i = 1 \/ i = 2
  BY <1>1
<1>4. First(list) = IF a # NoFailure THEN a ELSE b
  BY <1>1, <1>2, <1>3, FirstIsOne
<1> QED BY <1>4 DEF list

LEMMA FirstOfThree ==
  ASSUME NEW a, NEW b, NEW c
  PROVE  First(<<a, b, c>>) = IF a # NoFailure THEN a
                                     ELSE IF b # NoFailure THEN b ELSE c
<1> DEFINE list == <<a, b, c>>
<1>1. DOMAIN list = 1 .. 3 /\ list[1] = a /\ list[2] = b /\ list[3] = c
  OBVIOUS
<1> HIDE DEF list
<1>2. /\ DOMAIN list \subseteq Nat /\ 1 \in DOMAIN list /\ 2 \in DOMAIN list
      /\ 3 \in DOMAIN list
  BY <1>1
<1>3. \A i \in DOMAIN list : i = 1 \/ i = 2 \/ i = 3
  BY <1>1
<1>4. First(list) = IF a # NoFailure THEN a
                           ELSE IF b # NoFailure THEN b ELSE c
  BY <1>1, <1>2, <1>3, FirstIsOne
<1> QED BY <1>4 DEF list

LEMMA NothingIsTold == Told(NoFailure)
BY DEF Told

LEMMA FailureIsTold ==
  ASSUME NEW code, NEW source, NEW record, NEW key, NEW answer, answer # "ok"
  PROVE  Told(Failure(code, source, record, key, answer))
BY DEF Told, Failure

(* A schema that is refused says so with a status other than "ok". *)
LEMMA SchemaIsTold ==
  ASSUME NEW schema, DOMAIN schema \subseteq Nat
  PROVE  Told(ValidateSchema(schema))
<1>1. ASSUME NEW k PROVE Told(DescriptorFailure(schema, k))
  <2> DEFINE Coded(code) == IF code = "none" THEN NoFailure
                            ELSE Failure(code, "none", 0, k, "einval")
             flags == Coded(IF FlagsValid(schema[k]) THEN "none" ELSE "flags")
             kind == Coded(IF schema[k].kind \in Kinds THEN "none" ELSE "descriptor")
             name == Coded(NameFailure(schema, k))
             constraint == Coded(ConstraintFailure(schema[k]))
             default == IF DefaultValid(schema[k]) THEN NoFailure
                        ELSE Failure("default", "default", k, k, "einval")
             list == <<flags, kind, name, constraint, default>>
  <2>1. \A code : Told(Coded(code))
    BY NothingIsTold, FailureIsTold
  <2>2. Told(default)
    BY NothingIsTold, FailureIsTold
  <2>3. DescriptorFailure(schema, k) = First(list)
    BY Zenon DEF DescriptorFailure
  <2>4. Told(flags) /\ Told(kind) /\ Told(name) /\ Told(constraint)
    <3> HIDE DEF Coded
    <3> QED BY <2>1
  <2> HIDE DEF flags, kind, name, constraint, default
  <2>5. DOMAIN list \subseteq Nat /\ \A i \in DOMAIN list : Told(list[i])
    <3>1. DOMAIN list = 1 .. 5
      OBVIOUS
    <3>2. ASSUME NEW i \in 1 .. 5 PROVE Told(list[i])
      <4>1. i = 1 \/ i = 2 \/ i = 3 \/ i = 4 \/ i = 5
        OBVIOUS
      <4>2. list[1] = flags /\ list[2] = kind /\ list[3] = name /\ list[4] = constraint
            /\ list[5] = default
        OBVIOUS
      <4> HIDE DEF list
      <4> QED BY <2>2, <2>4, <4>1, <4>2
    <3> HIDE DEF list
    <3> QED BY <3>1, <3>2
  <2> HIDE DEF list
  <2> QED BY <2>3, <2>5, FirstIsTold
<1> DEFINE list == [k \in DOMAIN schema |-> DescriptorFailure(schema, k)]
<1>2. DOMAIN list \subseteq Nat /\ \A i \in DOMAIN list : Told(list[i])
  BY <1>1
<1>3. ValidateSchema(schema) = First(list)
  BY DEF ValidateSchema
<1> HIDE DEF list
<1> QED BY <1>2, <1>3, FirstIsTold

LEMMA ParsedIsTold ==
  ASSUME NEW d, NEW text
  PROVE  LET parsed == Parse(d, text) IN parsed.code = "none" \/ parsed.status # "ok"
<1> DEFINE Fine(parsed) == parsed.code = "none" \/ parsed.status # "ok"
<1>1. \A number, bytes : Fine(Right(number, bytes))
  BY DEF Right
<1>2. \A code, answer : answer # "ok" => Fine(Wrong(code, answer))
  BY DEF Wrong
<1>3. ASSUME NEW digits, NEW sign, NEW limit
      PROVE  Fine(ParseNumber(d, digits, sign, limit))
  <2>1. \A read : Fine(NumberRead(d, read, sign))
    <3> HIDE DEF Fine
    <3> QED BY <1>1, <1>2 DEF NumberRead
  <2> HIDE DEF Fine
  <2> QED BY <1>1, <1>2, <2>1 DEF ParseNumber
<1> HIDE DEF Fine
<1>4. Fine(Parse(d, text))
  BY <1>1, <1>2, <1>3 DEF Parse
<1> QED BY <1>4 DEF Fine

(* So do sources that are. *)
LEMMA SourcesAreTold ==
  ASSUME NEW schema, NEW sources, \A c \in 1 .. 3 : DOMAIN sources[Classes[c]] \subseteq Nat
  PROVE  Told(ValidateSources(schema, sources))
<1>1. ASSUME NEW class, NEW records, NEW r
      PROVE  Told(RecordFailure(schema, class, records, r))
  <2> DEFINE k == Find(schema, class, records[r].name)
             parsed == Parse(schema[k], records[r].value)
  <2>1. parsed.code = "none" \/ parsed.status # "ok"
    BY ParsedIsTold
  <2>2. Told(IF parsed.code = "none" THEN NoFailure
             ELSE Failure(parsed.code, class, r - 1, k, parsed.status))
    <3> HIDE DEF parsed
    <3> QED BY <2>1, NothingIsTold, FailureIsTold
  <2>3. \A code, key : /\ Told(Failure(code, class, r - 1, key, "einval"))
                       /\ Told(Failure(code, class, r - 1, key, "enoent"))
    BY FailureIsTold
  <2> HIDE DEF parsed, k
  <2> QED BY <2>2, <2>3, NothingIsTold DEF RecordFailure, parsed, k
<1>2. ASSUME NEW class, NEW records, DOMAIN records \subseteq Nat
      PROVE  Told(ValidateClass(schema, class, records))
  <2> DEFINE list == [r \in DOMAIN records |-> RecordFailure(schema, class, records, r)]
  <2>1. DOMAIN list \subseteq Nat /\ \A i \in DOMAIN list : Told(list[i])
    BY <1>1, <1>2
  <2>2. ValidateClass(schema, class, records) = First(list)
    BY DEF ValidateClass
  <2> HIDE DEF list
  <2> QED BY <2>1, <2>2, FirstIsTold
<1> DEFINE list == [c \in 1 .. 3 |-> ValidateClass(schema, Classes[c],
                                                          sources[Classes[c]])]
<1>3. DOMAIN list \subseteq Nat /\ \A i \in DOMAIN list : Told(list[i])
  BY <1>2
<1>4. ValidateSources(schema, sources) = First(list)
  BY DEF ValidateSources
<1> HIDE DEF list
<1> QED BY <1>3, <1>4, FirstIsTold

(* The analysis of an input is the first failure of its schema, its sources   *)
(* and its keys without a value.                                             *)
Missing(in, k) ==
  IF Resolve(in.schema, in.sources, k).present THEN NoFailure
  ELSE Failure("required", "none", 0, k, "enoent")

AnalysisSteps(list, in) ==
  /\ Analyze(in.schema, in.sources) = First(list)
  /\ DOMAIN list = 1 .. 2 + Len(in.schema)
  /\ list[1] = ValidateSchema(in.schema)
  /\ list[2] = ValidateSources(in.schema, in.sources)
  /\ \A k \in 1 .. Len(in.schema) : list[2 + k] = Missing(in, k)

LEMMA AnalysisHasSteps ==
  ASSUME NEW in, IsInput(in)
  PROVE  \E list : AnalysisSteps(list, in)
<1> DEFINE required == [k \in DOMAIN in.schema |-> Missing(in, k)]
           before == <<ValidateSchema(in.schema), ValidateSources(in.schema, in.sources)>>
           n == Len(in.schema)
<1>1. n \in Nat /\ DOMAIN in.schema = 1 .. n
  BY DEF IsInput
<1> DEFINE S == {before[1], before[2]} \union {required[k] : k \in 1 .. n}
<1>2. required \in Seq(S) /\ Len(required) = n /\ \A k \in 1 .. n : required[k] = Missing(in, k)
  BY <1>1
<1>3. /\ before[1] = ValidateSchema(in.schema)
      /\ before[2] = ValidateSources(in.schema, in.sources)
      /\ Len(before) = 2 /\ before \in Seq(S)
  OBVIOUS
<1>4. Analyze(in.schema, in.sources) = First(before \o required)
  BY Zenon DEF Analyze, Missing
<1> HIDE DEF required, before, S, n
<1> DEFINE list == before \o required
<1>5. /\ list \in Seq(S) /\ Len(list) = 2 + n
      /\ \A i \in 1 .. 2 + n : list[i] = IF i <= 2 THEN before[i] ELSE required[i - 2]
  <2>1. /\ before \o required \in Seq(S)
        /\ Len(before \o required) = Len(before) + Len(required)
        /\ \A i \in 1 .. Len(before) + Len(required) :
             (before \o required)[i] = IF i <= Len(before) THEN before[i]
                                       ELSE required[i - Len(before)]
    BY <1>2, <1>3, ConcatProperties
  <2> QED BY <1>2, <1>3, <2>1
<1>6. DOMAIN list = 1 .. 2 + n
  BY <1>5
<1> HIDE DEF list
<1>7. list[1] = before[1] /\ list[2] = before[2]
  BY <1>1, <1>5
<1>8. \A k \in 1 .. n : list[2 + k] = Missing(in, k)
  <2> TAKE k \in 1 .. n
  <2>1. 2 + k \in 1 .. 2 + n /\ ~ 2 + k <= 2 /\ (2 + k) - 2 = k
    BY <1>1
  <2> QED BY <1>2, <1>5, <2>1
<1>9. AnalysisSteps(list, in)
  BY <1>3, <1>4, <1>6, <1>7, <1>8 DEF AnalysisSteps, list, n
<1> QED BY <1>9

LEMMA AnalysisPlaces ==
  ASSUME NEW in, IsInput(in), NEW i \in 1 .. 2 + Len(in.schema)
  PROVE  i = 1 \/ i = 2 \/ \E k \in 1 .. Len(in.schema) : i = 2 + k
<1>1. Len(in.schema) \in Nat
  BY DEF IsInput
<1>2. i = 1 \/ i = 2 \/ (i - 2 \in 1 .. Len(in.schema) /\ i = 2 + (i - 2))
  BY <1>1
<1> QED BY <1>2

(* The analysis of an input has the status "ok" only if nothing is wrong. *)
LEMMA AnalysisIsTold ==
  ASSUME NEW in, IsInput(in)
  PROVE  Told(Analyze(in.schema, in.sources))
<1>1. Len(in.schema) \in Nat /\ DOMAIN in.schema = 1 .. Len(in.schema)
  BY DEF IsInput
<1>2. PICK list : AnalysisSteps(list, in)
  BY AnalysisHasSteps
<1>3. Told(list[1])
  BY <1>1, <1>2, SchemaIsTold DEF AnalysisSteps
<1>4. Told(list[2])
  <2>1. ASSUME NEW c \in 1 .. 3
        PROVE  DOMAIN in.sources[Classes[c]] \subseteq Nat
    <3>1. Classes[c] \in Range(Classes)
      BY  DEF Classes, Range
    <3>2. \E S : in.sources[Classes[c]] \in Seq(S)
      BY <3>1 DEF IsInput
    <3> QED BY <3>2
  <2> QED BY <1>2, <2>1, SourcesAreTold DEF AnalysisSteps
<1>5. \A k \in 1 .. Len(in.schema) : Told(list[2 + k])
  BY <1>2, NothingIsTold, FailureIsTold DEF AnalysisSteps, Missing
<1>6. \A i \in DOMAIN list : Told(list[i])
  BY <1>2, <1>3, <1>4, <1>5, AnalysisPlaces DEF AnalysisSteps
<1>7. DOMAIN list \subseteq Nat
  BY <1>1, <1>2 DEF AnalysisSteps
<1> QED BY <1>2, <1>6, <1>7, FirstIsTold DEF AnalysisSteps
-----------------------------------------------------------------------------
(* What is kept from call to call: the input is one of the caller's, the     *)
(* memory are those of the start, and a measurement that went well tells    *)
(* what the input that is still there needs.                                 *)
InputOfCaller == input \in Inputs

IsRow(row, n) == row = [i \in 1 .. n |-> row[i]]

OutputsKept ==
  /\ IsMemory(memory) /\ IsRow(values, memory.values)
  /\ IsRow(provenance, memory.provenance) /\ IsRow(persistent, memory.persistent)

MeasuredNow ==
  promised # "none" /\ memory.overlaps = {} =>
    /\ promised = Analysis[input].status
    /\ promised = "ok" => requirements = Needs[input]

ConfigInvariant == InputOfCaller /\ OutputsKept /\ MeasuredNow /\ MeasureIsExact

LEMMA AnalysisOf ==
  ASSUME NEW in \in Inputs
  PROVE  /\ IsInput(in) /\ Analysis[in] = Analyze(in.schema, in.sources)
         /\ Needs[in] = Requirements(in.schema, in.sources)
         /\ Told(Analysis[in])
<1>1. IsInput(in) /\ Analysis[in] = Analyze(in.schema, in.sources)
  BY CallerAssumption DEF WellTyped, Analysis
<1>2. Needs[in] = Requirements(in.schema, in.sources)
  BY DEF Needs
<1> QED BY <1>1, <1>2, AnalysisIsTold

(* What measure and prepare fail with has a status other than "ok". *)
MeasureFailure ==
  First(<<Analysis[input],
                 IF MeasureAliased THEN AliasFailure ELSE NoFailure>>)

LEMMA MeasureFailureIs ==
  MeasureFailure = IF Analysis[input] # NoFailure THEN Analysis[input]
                   ELSE IF MeasureAliased THEN AliasFailure ELSE NoFailure
BY FirstOfTwo DEF MeasureFailure

LEMMA PrepareFailureIs ==
  PrepareFailure =
    IF Analysis[input] # NoFailure THEN Analysis[input]
    ELSE IF PrepareAliased THEN AliasFailure
    ELSE IF HasRoom(Needs[input]) THEN NoFailure
    ELSE Failure("capacity", "none", 0, 0, "enospc")
<1> DEFINE alias == IF PrepareAliased THEN AliasFailure ELSE NoFailure
           room == IF HasRoom(Needs[input]) THEN NoFailure
                   ELSE Failure("capacity", "none", 0, 0, "enospc")
<1>1. PrepareFailure = First(<<Analysis[input], alias, room>>)
  BY Zenon DEF PrepareFailure
<1>2. AliasFailure # NoFailure
  BY DEF AliasFailure, NoFailure, Failure
<1>3. First(<<Analysis[input], alias, room>>) =
        IF Analysis[input] # NoFailure THEN Analysis[input]
        ELSE IF alias # NoFailure THEN alias ELSE room
  <2> HIDE DEF alias, room
  <2> QED BY FirstOfThree
<1> QED BY <1>1, <1>2, <1>3

LEMMA FailuresAreTold ==
  ASSUME InputOfCaller
  PROVE  Told(MeasureFailure) /\ Told(PrepareFailure)
<1>1. Told(Analysis[input])
  BY AnalysisOf DEF InputOfCaller
<1>2. Told(AliasFailure) /\ Told(NoFailure)
      /\ Told(Failure("capacity", "none", 0, 0, "enospc"))
  BY FailureIsTold, NothingIsTold DEF AliasFailure
<1> QED BY <1>1, <1>2, MeasureFailureIs, PrepareFailureIs

(* What is checked of a step. *)
WritesNothing ==
  /\ outcome' # "ok" => UNCHANGED <<requirements, stored>>
  /\ outcome' = "ok" => UNCHANGED diagnostic
  /\ \A pair \in memory.overlaps :
       /\ "diagnostic" \in pair /\ (op' = "prepare" => "requirements" \notin pair)
          /\ (op' = "measure" => pair \ {"diagnostic"} \subseteq {"inputs", "requirements"}) =>
            UNCHANGED diagnostic
       /\ "requirements" \in pair => UNCHANGED requirements
       /\ pair \intersect Writables # {} /\ "requirements" \notin pair =>
            UNCHANGED stored

(* Two regions that overlap are told apart from two that do not. *)
LEMMA OverlapIs ==
  ASSUME NEW a, NEW b, a # b, {a, b} \in memory.overlaps
  PROVE  Overlap(a, b)
BY DEF Overlap

LEMMA PairIs ==
  ASSUME OutputsKept, NEW pair \in memory.overlaps
  PROVE  /\ \E a, b \in pair : a # b /\ pair = {a, b}
         /\ \/ pair \subseteq {"inputs", "requirements", "diagnostic"}
            \/ pair \subseteq {"inputs", "storage", "diagnostic"} \union Writables
         /\ "diagnostic" \in pair => memory.diagnostic
BY DEF OutputsKept, IsMemory

LEMMA MeasureStep ==
  Measure =>
    /\ op' = "measure" /\ outcome' = MeasureFailure.status /\ promised' = MeasureFailure.status
    /\ requirements' = IF MeasureFailure = NoFailure THEN Needs[input]
                       ELSE requirements
    /\ PublishDiagnostic(MeasureFailure, MeasureDiagnosticFree)
    /\ UNCHANGED <<input, changes, memory, stored, from>>
BY Zenon DEF Measure, MeasureFailure

LEMMA NoFailureIsOk == NoFailure.status = "ok"
BY DEF NoFailure, Failure

LEMMA MeasureWrites ==
  ASSUME InputOfCaller, OutputsKept, Measure
  PROVE  WritesNothing
<1>1. Told(MeasureFailure)
  BY FailuresAreTold
<1>2. MeasureFailure.status = "ok" <=> MeasureFailure = NoFailure
  BY <1>1, NoFailureIsOk DEF Told
<1>3. outcome' # "ok" => UNCHANGED <<requirements, stored>>
  BY <1>2, MeasureStep
<1>4. outcome' = "ok" => UNCHANGED diagnostic
  BY <1>2, MeasureStep DEF PublishDiagnostic
<1>5. ASSUME NEW pair \in memory.overlaps, "diagnostic" \in pair,
             pair \ {"diagnostic"} \subseteq {"inputs", "requirements"}
      PROVE  UNCHANGED diagnostic
  <2>1. PICK a \in {"inputs", "requirements"} : pair = {"diagnostic", a} /\ a # "diagnostic"
    BY <1>5, PairIs
  <2>2. Overlap("diagnostic", a)
    BY <1>5, <2>1, OverlapIs
  <2>3. ~MeasureDiagnosticFree
    BY <2>1, <2>2 DEF MeasureDiagnosticFree
  <2> QED BY <2>3, MeasureStep DEF PublishDiagnostic
<1>6. ASSUME NEW pair \in memory.overlaps, "requirements" \in pair
      PROVE  UNCHANGED requirements
  <2>1. PICK a \in {"inputs", "diagnostic"} : pair = {"requirements", a} /\ a # "requirements"
    <3>1. pair \subseteq {"inputs", "requirements", "diagnostic"}
      BY <1>6, PairIs DEF Writables
    <3>2. PICK b \in pair : b # "requirements" /\ pair = {"requirements", b}
      BY <1>6, PairIs
    <3>3. b \in {"inputs", "diagnostic"}
      BY <3>1, <3>2
    <3> QED BY <3>2, <3>3
  <2>2. CASE a = "inputs"
    <3>1. Overlap("requirements", "inputs")
      BY <1>6, <2>1, <2>2, OverlapIs
    <3>2. MeasureAliased
      BY <3>1 DEF MeasureAliased
    <3>3. MeasureFailure # NoFailure
      BY <3>2, MeasureFailureIs DEF AliasFailure, NoFailure, Failure
    <3> QED BY <3>3, MeasureStep
  <2>3. CASE a = "diagnostic"
    <3>1. {"diagnostic", "requirements"} \in memory.overlaps
      <4>1. {"requirements", "diagnostic"} = {"diagnostic", "requirements"}
        OBVIOUS
      <4> QED BY <1>6, <2>1, <2>3, <4>1
    <3>2. Overlap("diagnostic", "requirements") /\ memory.diagnostic
      BY <1>6, <2>1, <2>3, <3>1, OverlapIs, PairIs
    <3>3. MeasureAliased
      BY <3>2 DEF MeasureAliased, MeasureDiagnosticFree
    <3>4. MeasureFailure # NoFailure
      BY <3>3, MeasureFailureIs DEF AliasFailure, NoFailure, Failure
    <3> QED BY <3>4, MeasureStep
  <2> QED BY <2>1, <2>2, <2>3
<1>7. UNCHANGED stored /\ op' = "measure"
  BY MeasureStep
<1> QED BY <1>3, <1>4, <1>5, <1>6, <1>7 DEF WritesNothing

LEMMA PrepareStep ==
  PrepareResult =>
    /\ op' = "prepare" /\ outcome' = PrepareFailure.status
    /\ PrepareFailure # NoFailure => UNCHANGED <<stored, from>>
    /\ PublishDiagnostic(PrepareFailure, PrepareDiagnosticFree)
    /\ UNCHANGED <<input, changes, memory, requirements, promised>>
BY Zenon DEF PrepareResult

LEMMA PrepareWrites ==
  ASSUME InputOfCaller, OutputsKept, PrepareResult
  PROVE  WritesNothing
<1>1. Told(PrepareFailure)
  BY FailuresAreTold
<1>2. PrepareFailure.status = "ok" <=> PrepareFailure = NoFailure
  BY <1>1, NoFailureIsOk DEF Told
<1>3. outcome' # "ok" => UNCHANGED <<requirements, stored>>
  BY <1>2, PrepareStep
<1>4. outcome' = "ok" => UNCHANGED diagnostic
  BY <1>2, PrepareStep DEF PublishDiagnostic
<1>5. ASSUME NEW pair \in memory.overlaps, "diagnostic" \in pair, "requirements" \notin pair
      PROVE  UNCHANGED diagnostic
  <2>1. PICK a \in {"inputs", "storage"} \union Writables : pair = {"diagnostic", a} /\ a # "diagnostic"
    <3>1. PICK b \in pair : b # "diagnostic" /\ pair = {"diagnostic", b}
      BY <1>5, PairIs
    <3>2. b \in {"inputs", "storage"} \union Writables
      BY <1>5, <3>1, PairIs
    <3> QED BY <3>1, <3>2
  <2>2. Overlap("diagnostic", a)
    BY <1>5, <2>1, OverlapIs
  <2>3. ~PrepareDiagnosticFree
    BY <2>1, <2>2 DEF PrepareDiagnosticFree
  <2> QED BY <2>3, PrepareStep DEF PublishDiagnostic
<1>6. ASSUME NEW pair \in memory.overlaps, pair \intersect Writables # {},
             "requirements" \notin pair
      PROVE  UNCHANGED stored
  <2>1. PICK w \in pair : w \in Writables
    BY <1>6
  <2>2. PICK a \in pair : a # w /\ pair = {w, a}
    BY <1>6, <2>1, PairIs
  <2>3. a \in {"inputs", "storage", "diagnostic"} \union Writables
    <3>1. w \notin {"inputs", "requirements", "diagnostic"}
      BY <2>1 DEF Writables
    <3> QED BY <1>6, <2>1, <2>2, <3>1, PairIs
  <2>4. PrepareAliased
    <3>1. CASE a = "diagnostic"
      <4>1. {"diagnostic", w} \in memory.overlaps /\ "diagnostic" # w
        <5>1. {w, a} = {a, w}
          OBVIOUS
        <5> QED BY <1>6, <2>2, <3>1, <5>1
      <4>2. Overlap("diagnostic", w) /\ memory.diagnostic
        BY <1>6, <2>2, <3>1, <4>1, OverlapIs, PairIs
      <4> QED BY <2>1, <4>2 DEF PrepareAliased, PrepareDiagnosticFree
    <3>2. CASE a # "diagnostic"
      <4>1. Overlap(w, a) /\ a \in {"inputs", "storage"} \union Writables
        BY <1>6, <2>2, <2>3, <3>2, OverlapIs
      <4> QED BY <2>1, <4>1 DEF PrepareAliased
    <3> QED BY <3>1, <3>2
  <2>5. PrepareFailure # NoFailure
    BY <2>4, PrepareFailureIs DEF AliasFailure, NoFailure, Failure
  <2> QED BY <2>5, PrepareStep
<1>7. UNCHANGED requirements /\ op' = "prepare"
  BY PrepareStep
<1> QED BY <1>3, <1>4, <1>5, <1>6, <1>7 DEF WritesNothing

(* A step of the caller writes nothing either. *)
LEMMA StepWrites ==
  ASSUME InputOfCaller, OutputsKept, ConfigNext
  PROVE  WritesNothing
<1>1. CASE Measure
  BY <1>1, MeasureWrites
<1>2. CASE PrepareResult
  BY <1>2, PrepareWrites
<1>3. CASE Validate
  <2>1. UNCHANGED <<requirements, stored, diagnostic>>
    BY <1>3 DEF Validate
  <2> QED BY <2>1 DEF WritesNothing
<1>4. CASE Change
  <2>1. UNCHANGED <<requirements, stored, diagnostic>>
    BY <1>4 DEF Change
  <2> QED BY <2>1 DEF WritesNothing
<1> QED BY <1>1, <1>2, <1>3, <1>4 DEF ConfigNext
-----------------------------------------------------------------------------
(* What a resolution holds as text is a text. *)
LEMMA ParsedText ==
  ASSUME NEW d, NEW text, IsText(text)
  PROVE  IsText(Parse(d, text).text)
<1> DEFINE Fine(parsed) == IsText(parsed.text)
<1>0. IsText(<<>>)
  BY DEF IsText
<1>1. \A number : Fine(Right(number, <<>>)) /\ Fine(Right(number, text))
  BY <1>0 DEF Right
<1>2. \A code, answer : Fine(Wrong(code, answer))
  BY <1>0 DEF Wrong
<1>3. ASSUME NEW digits, NEW sign, NEW limit
      PROVE  Fine(ParseNumber(d, digits, sign, limit))
  <2>1. \A read : Fine(NumberRead(d, read, sign))
    <3> HIDE DEF Fine
    <3> QED BY <1>1, <1>2 DEF NumberRead
  <2> HIDE DEF Fine
  <2> QED BY <1>1, <1>2, <2>1 DEF ParseNumber
<1> HIDE DEF Fine
<1>4. Fine(Parse(d, text))
  BY <1>1, <1>2, <1>3 DEF Parse
<1> QED BY <1>4 DEF Fine

(* One step of the overlay of a class. *)
Overlaid(schema, class, records, k, acc, r) ==
  IF KeyOf(schema, class, records[r]) = k
  THEN Resolved(Parse(schema[k], records[r].value), class, r - 1) ELSE acc

OverlayFolds(h, schema, class, records, k, resolution) ==
  h = [t \in SUBSET (DOMAIN [r \in DOMAIN records |-> r]) |->
         IF t = {} THEN resolution
         ELSE LET x == Max(t)
              IN Overlaid(schema, class, records, k, h[t \ {x}],
                          [r \in DOMAIN records |-> r][x])]

LEMMA OverlayIsFold ==
  ASSUME NEW schema, NEW class, NEW records, NEW k, NEW resolution
  PROVE  Overlay(schema, class, records, k, resolution) =
           (CHOOSE h : OverlayFolds(h, schema, class, records, k, resolution))
             [DOMAIN [r \in DOMAIN records |-> r]]
BY Zenon DEF Overlay, FoldLeft, MapThenFoldSet, OverlayFolds, Overlaid

(* The overlay of a class, record by record: each is the resolution before   *)
(* it, or what one of the records of the class was parsed to.                *)
Overlays(schema, class, records, k, resolution) ==
  {resolution} \union
    {Resolved(Parse(schema[k], records[r].value), class, r - 1) : r \in DOMAIN records}

OverlaySteps(s, schema, class, records, k, resolution) ==
  /\ s \in [0 .. Len(records) -> Overlays(schema, class, records, k, resolution)]
  /\ s[0] = resolution
  /\ \A r \in 1 .. Len(records) : s[r] = Overlaid(schema, class, records, k, s[r - 1], r)
  /\ s[Len(records)] = Overlay(schema, class, records, k, resolution)

LEMMA OverlayHasStates ==
  ASSUME NEW schema, NEW class, NEW S, NEW records \in Seq(S), NEW k, NEW resolution
  PROVE  \E s : OverlaySteps(s, schema, class, records, k, resolution)
<1> DEFINE n == Len(records)
           A == Overlays(schema, class, records, k, resolution)
           turn == [p \in A \X (1 .. n) |-> Overlaid(schema, class, records, k, p[1], p[2])]
           row == [r \in DOMAIN records |-> r]
<1>1. n \in Nat /\ DOMAIN records = 1 .. n /\ DOMAIN row = 1 .. n /\ \A r \in 1 .. n : row[r] = r
  OBVIOUS
<1>2. \A a \in A, i \in 1 .. n :
        /\ turn[<<a, i>>] = Overlaid(schema, class, records, k, a, i) /\ turn[<<a, i>>] \in A
  BY <1>1 DEF Overlaid, Overlays
<1>3. resolution \in A
  BY DEF Overlays
<1> HIDE DEF A, turn, n
<1>4. PICK h : Folds(h, A, resolution, turn, n)
  BY <1>1, <1>2, <1>3, FoldExists DEF StepsIn
<1>5. ASSUME NEW t \in SUBSET (1 .. n)
      PROVE  h[t] = IF t = {} THEN resolution
                    ELSE Overlaid(schema, class, records, k, h[t \ {Max(t)}], row[Max(t)])
  <2>1. CASE t = {}
    BY <1>4, <2>1 DEF Folds
  <2>2. CASE t # {}
    <3>1. Max(t) \in 1 .. n /\ t \ {Max(t)} \in SUBSET (1 .. n) /\ Max(t) = Max(t)
      BY <1>1, <2>2, MaxOfPlaces
    <3>2. h[t \ {Max(t)}] \in A /\ h[t] = turn[<<h[t \ {Max(t)}], Max(t)>>]
      BY <1>4, <2>2, <3>1 DEF Folds
    <3> QED BY <1>1, <1>2, <2>2, <3>1, <3>2
  <2> QED BY <2>1, <2>2
<1>6. \E g : OverlayFolds(g, schema, class, records, k, resolution)
  <2>1. h = [t \in SUBSET (1 .. n) |->
               IF t = {} THEN resolution
               ELSE Overlaid(schema, class, records, k, h[t \ {Max(t)}],
                             row[Max(t)])]
    <3> HIDE DEF row
    <3> QED BY <1>4, <1>5 DEF Folds
  <2>2. OverlayFolds(h, schema, class, records, k, resolution)
    BY <1>1, <2>1, Zenon DEF OverlayFolds
  <2> QED BY <2>2
<1> DEFINE g == CHOOSE f : OverlayFolds(f, schema, class, records, k, resolution)
<1>7. OverlayFolds(g, schema, class, records, k, resolution)
  BY <1>6, Zenon
<1>8. Overlay(schema, class, records, k, resolution) = g[1 .. n]
  BY <1>1, OverlayIsFold
<1> HIDE DEF g
<1>9. Repeats(g, A, resolution, turn, n)
  <2>1. \A t \in SUBSET (1 .. n) :
          g[t] = IF t = {} THEN resolution
                 ELSE Overlaid(schema, class, records, k, g[t \ {Max(t)}],
                               row[Max(t)])
    BY <1>1, <1>7, Zenon DEF OverlayFolds
  <2>2. g[{}] = resolution
    BY <2>1
  <2>3. ASSUME NEW m \in 1 .. n, g[1 .. m - 1] \in A
        PROVE  g[1 .. m] = turn[<<g[1 .. m - 1], m>>]
    <3> DEFINE t == 1 .. m
    <3>1. t \in SUBSET (1 .. n) /\ t # {} /\ Max(t) = m /\ t \ {m} = 1 .. m - 1
      BY <1>1, PlacesUpTo
    <3> HIDE DEF t
    <3>2. g[t] = Overlaid(schema, class, records, k, g[1 .. m - 1], m)
      BY <1>1, <2>1, <3>1
    <3> QED BY <1>2, <2>3, <3>2 DEF t
  <2> QED BY <2>2, <2>3 DEF Repeats
<1>10. PICK s : RunsThrough(s, A, resolution, turn, n, g)
  <2>1. StepsIn(A, turn, n)
    BY <1>2 DEF StepsIn
  <2> QED BY <1>1, <1>3, <1>9, <2>1, FoldStates
<1>11. /\ s \in [0 .. n -> A] /\ s[0] = resolution /\ s[n] = g[1 .. n]
       /\ \A r \in 1 .. n : s[r] = turn[<<s[r - 1], r>>]
  BY <1>10 DEF RunsThrough
<1>12. \A r \in 1 .. n : s[r] = Overlaid(schema, class, records, k, s[r - 1], r)
  <2> TAKE r \in 1 .. n
  <2>1. s[r - 1] \in A
    BY <1>1, <1>11
  <2> QED BY <1>2, <1>11, <2>1
<1>13. OverlaySteps(s, schema, class, records, k, resolution)
  BY <1>8, <1>11, <1>12 DEF OverlaySteps, A, n
<1> QED BY <1>13

LEMMA OverlayIsOne ==
  ASSUME NEW schema, NEW class, NEW S, NEW records \in Seq(S), NEW k, NEW resolution
  PROVE  Overlay(schema, class, records, k, resolution)
           \in Overlays(schema, class, records, k, resolution)
<1>1. PICK s : OverlaySteps(s, schema, class, records, k, resolution)
  BY OverlayHasStates
<1>2. Len(records) \in 0 .. Len(records)
  OBVIOUS
<1> QED BY <1>1, <1>2 DEF OverlaySteps

(* What a resolution starts from, and what a class makes of it. *)
Initially(schema, k) ==
  IF "default" \in schema[k].flags THEN Resolved(schema[k].default, "default", k)
  ELSE Absent

ResolveFolds(h, schema, sources, k) ==
  h = [t \in SUBSET (DOMAIN Classes) |->
         IF t = {} THEN Initially(schema, k)
         ELSE LET x == Max(t)
              IN Overlay(schema, Classes[x], sources[Classes[x]], k, h[t \ {x}])]

LEMMA ResolveIsFold ==
  ASSUME NEW schema, NEW sources, NEW k
  PROVE  Resolve(schema, sources, k) =
           (CHOOSE h : ResolveFolds(h, schema, sources, k))[DOMAIN Classes]
BY Zenon DEF Resolve, FoldLeft, MapThenFoldSet, ResolveFolds, Initially

ResolveSteps(s, in, k) ==
  /\ s[0] = Initially(in.schema, k)
  /\ \A c \in 1 .. 3 :
       s[c] = Overlay(in.schema, Classes[c], in.sources[Classes[c]], k, s[c - 1])
  /\ s[3] = Resolve(in.schema, in.sources, k)

LEMMA ResolveHasStates ==
  ASSUME NEW in, IsInput(in), NEW k \in DOMAIN in.schema
  PROVE  \E s : /\ ResolveSteps(s, in, k) /\ \A c \in 0 .. 3 : IsText(s[c].text)
<1> DEFINE n == 3
           base == Initially(in.schema, k)
           Kept(c, r) == Resolved(Parse(in.schema[k], in.sources[Classes[c]][r].value),
                                         Classes[c], r - 1)
           A == {base} \union
                UNION {{Kept(c, r) : r \in DOMAIN in.sources[Classes[c]]} : c \in 1 .. n}
           Step(acc, c) == Overlay(in.schema, Classes[c], in.sources[Classes[c]], k, acc)
           turn == [p \in A \X (1 .. n) |-> Step(p[1], p[2])]
<1>1. DOMAIN Classes = 1 .. n /\ n \in Nat
  BY DEF Classes
<1>2. ASSUME NEW c \in 1 .. n
      PROVE  in.sources[Classes[c]] \in
               Seq(Records)
  <2>1. Classes[c] \in Range(Classes)
    BY <1>1 DEF Range
  <2> QED BY <2>1 DEF IsInput
<1>3. ASSUME NEW a \in A, NEW c \in 1 .. n
      PROVE  Step(a, c) \in A
  <2>1. Step(a, c) \in {a} \union {Kept(c, r) : r \in DOMAIN in.sources[Classes[c]]}
    <3> DEFINE records == in.sources[Classes[c]]
               S == Records
    <3>1. records \in Seq(S)
      BY <1>2
    <3> HIDE DEF records, S
    <3>2. Overlay(in.schema, Classes[c], records, k, a)
            \in {a} \union {Resolved(Parse(in.schema[k], records[r].value),
                                           Classes[c], r - 1) : r \in DOMAIN records}
      BY <3>1, OverlayIsOne DEF Overlays
    <3> QED BY <3>2 DEF records
  <2> HIDE DEF Step, Kept
  <2> QED BY <2>1
<1>4. \A a \in A, c \in 1 .. n : turn[<<a, c>>] = Step(a, c) /\ turn[<<a, c>>] \in A
  BY <1>3
<1>5. base \in A
  OBVIOUS
<1>6. \A a \in A : IsText(a.text)
  <2>1. IsText(base.text)
    <3>1. in.schema[k] \in Descriptors
      BY DEF IsInput
    <3>2. in.schema[k].default.text \in Seq(Octets)
      BY <3>1 DEF Descriptors
    <3> QED BY <3>2 DEF Initially, Resolved, Absent, IsText
  <2>2. ASSUME NEW c \in 1 .. n, NEW r \in DOMAIN in.sources[Classes[c]]
        PROVE  IsText(Kept(c, r).text)
    <3>1. IsText(in.sources[Classes[c]][r].value)
      <4> DEFINE records == in.sources[Classes[c]]
                 S == Records
      <4>1. records \in Seq(S) /\ r \in DOMAIN records
        BY <1>2, <2>2
      <4>2. records[r] \in S
        <5> HIDE DEF records, S
        <5> QED BY <4>1
      <4> QED BY <4>2 DEF IsText, Records
    <3> QED BY <3>1, ParsedText DEF Resolved
  <2> HIDE DEF base, Kept
  <2> QED BY <2>1, <2>2
<1> HIDE DEF A, base, turn, Step, n
<1>7. PICK h : Folds(h, A, base, turn, n)
  BY <1>1, <1>4, <1>5, FoldExists DEF StepsIn
<1>8. ASSUME NEW t \in SUBSET (1 .. n)
      PROVE  h[t] = IF t = {} THEN base ELSE Step(h[t \ {Max(t)}], Max(t))
  <2>1. CASE t = {}
    BY <1>7, <2>1 DEF Folds
  <2>2. CASE t # {}
    <3>1. Max(t) \in 1 .. n /\ t \ {Max(t)} \in SUBSET (1 .. n) /\ Max(t) = Max(t)
      BY <1>1, <2>2, MaxOfPlaces
    <3>2. h[t \ {Max(t)}] \in A /\ h[t] = turn[<<h[t \ {Max(t)}], Max(t)>>]
      BY <1>7, <2>2, <3>1 DEF Folds
    <3> QED BY <1>4, <2>2, <3>1, <3>2
  <2> QED BY <2>1, <2>2
<1>9. \E g : ResolveFolds(g, in.schema, in.sources, k)
  <2>1. h = [t \in SUBSET (1 .. n) |->
               IF t = {} THEN base ELSE Step(h[t \ {Max(t)}], Max(t))]
    BY <1>7, <1>8 DEF Folds
  <2>2. ResolveFolds(h, in.schema, in.sources, k)
    BY <1>1, <2>1, Zenon DEF ResolveFolds, Step, base
  <2> QED BY <2>2
<1> DEFINE g == CHOOSE f : ResolveFolds(f, in.schema, in.sources, k)
<1>10. ResolveFolds(g, in.schema, in.sources, k)
  BY <1>9, Zenon
<1>11. Resolve(in.schema, in.sources, k) = g[1 .. n]
  BY <1>1, ResolveIsFold
<1> HIDE DEF g
<1>12. Repeats(g, A, base, turn, n)
  <2>1. \A t \in SUBSET (1 .. n) :
          g[t] = IF t = {} THEN base ELSE Step(g[t \ {Max(t)}], Max(t))
    BY <1>1, <1>10, Zenon DEF ResolveFolds, Step, base
  <2>2. g[{}] = base
    BY <2>1
  <2>3. ASSUME NEW m \in 1 .. n, g[1 .. m - 1] \in A
        PROVE  g[1 .. m] = turn[<<g[1 .. m - 1], m>>]
    <3> DEFINE t == 1 .. m
    <3>1. t \in SUBSET (1 .. n) /\ t # {} /\ Max(t) = m /\ t \ {m} = 1 .. m - 1
      BY <1>1, PlacesUpTo
    <3> HIDE DEF t
    <3>2. g[t] = Step(g[1 .. m - 1], m)
      BY <2>1, <3>1
    <3> QED BY <1>4, <2>3, <3>2 DEF t
  <2> QED BY <2>2, <2>3 DEF Repeats
<1>13. PICK s : RunsThrough(s, A, base, turn, n, g)
  <2>1. StepsIn(A, turn, n)
    BY <1>4 DEF StepsIn
  <2> QED BY <1>1, <1>5, <1>12, <2>1, FoldStates
<1>14. /\ s \in [0 .. n -> A] /\ s[0] = base /\ s[n] = g[1 .. n]
       /\ \A c \in 1 .. n : s[c] = turn[<<s[c - 1], c>>]
  BY <1>13 DEF RunsThrough
<1>15. \A c \in 1 .. n : s[c] = Step(s[c - 1], c)
  <2> TAKE c \in 1 .. n
  <2>1. s[c - 1] \in A
    BY <1>1, <1>14
  <2> QED BY <1>4, <1>14, <2>1
<1>16. ResolveSteps(s, in, k)
  BY <1>11, <1>14, <1>15 DEF ResolveSteps, Step, base, n
<1>17. \A c \in 0 .. 3 : IsText(s[c].text)
  BY <1>6, <1>14 DEF n
<1> QED BY <1>16, <1>17

LEMMA ResolvedText ==
  ASSUME NEW in, IsInput(in), NEW k \in DOMAIN in.schema
  PROVE  IsText(Resolve(in.schema, in.sources, k).text)
BY ResolveHasStates DEF ResolveSteps

-----------------------------------------------------------------------------
(* Where the text of each key begins, if texts follow each other. *)
TextLength(in, k) == Len(Resolve(in.schema, in.sources, k).text)

Offsets(f, in) ==
  /\ f \in [0 .. Len(in.schema) -> Nat] /\ f[0] = 0
  /\ \A k \in 1 .. Len(in.schema) :
       TextLength(in, k) \in Nat /\ f[k] = f[k - 1] + TextLength(in, k)

RequireFolds(h, schema, sources) ==
  h = [t \in SUBSET (DOMAIN [k \in DOMAIN schema |-> k]) |->
         IF t = {} THEN 0
         ELSE LET x == Max(t)
              IN h[t \ {x}] + Len(Resolve(schema, sources, [k \in DOMAIN schema |-> k][x]).text)]

LEMMA RequirementsAre ==
  ASSUME NEW schema, NEW sources
  PROVE  /\ Requirements(schema, sources).count = Len(schema)
         /\ Requirements(schema, sources).persistent =
              (CHOOSE h : RequireFolds(h, schema, sources))[DOMAIN [k \in DOMAIN schema |-> k]]
<1> DEFINE total == (CHOOSE h : RequireFolds(h, schema, sources))[DOMAIN [k \in DOMAIN schema |-> k]]
<1>1. Requirements(schema, sources) = [count |-> Len(schema), persistent |-> total]
  BY Zenon DEF Requirements, FoldLeft, MapThenFoldSet, RequireFolds
<1> HIDE DEF total
<1>2. /\ Requirements(schema, sources).count = Len(schema)
      /\ Requirements(schema, sources).persistent = total
  BY <1>1
<1> QED BY <1>2 DEF total

(* The bytes measured are the offset after the last text. *)
LEMMA RequirementsAreOffsets ==
  ASSUME NEW in, IsInput(in)
  PROVE  \E f : /\ Offsets(f, in)
                /\ Requirements(in.schema, in.sources).persistent = f[Len(in.schema)]
<1> DEFINE n == Len(in.schema)
           row == [k \in DOMAIN in.schema |-> k]
           turn == [p \in Nat \X (1 .. n) |-> p[1] + TextLength(in, p[2])]
<1>1. n \in Nat /\ DOMAIN in.schema = 1 .. n
  BY DEF IsInput
<1>2. DOMAIN row = 1 .. n /\ \A k \in 1 .. n : row[k] = k
  BY <1>1
<1>3. \A k \in 1 .. n : TextLength(in, k) \in Nat
  BY <1>1, ResolvedText DEF IsText, TextLength
<1>4. \A a \in Nat, i \in 1 .. n : turn[<<a, i>>] = a + TextLength(in, i) /\ turn[<<a, i>>] \in Nat
  BY <1>3
<1> HIDE DEF n, row, turn
<1>5. PICK h : Folds(h, Nat, 0, turn, n)
  BY <1>1, <1>4, FoldExists DEF StepsIn
<1>6. ASSUME NEW t \in SUBSET (1 .. n)
      PROVE  h[t] = IF t = {} THEN 0
                    ELSE h[t \ {Max(t)}] + TextLength(in, row[Max(t)])
  <2>1. CASE t = {}
    BY <1>5, <2>1 DEF Folds
  <2>2. CASE t # {}
    <3>1. Max(t) \in 1 .. n /\ t \ {Max(t)} \in SUBSET (1 .. n) /\ Max(t) = Max(t)
      BY <1>1, <2>2, MaxOfPlaces
    <3>2. h[t \ {Max(t)}] \in Nat /\ h[t] = turn[<<h[t \ {Max(t)}], Max(t)>>]
      BY <1>5, <2>2, <3>1 DEF Folds
    <3> QED BY <1>2, <1>4, <2>2, <3>1, <3>2
  <2> QED BY <2>1, <2>2
<1>7. \E g : RequireFolds(g, in.schema, in.sources)
  <2>1. h = [t \in SUBSET (1 .. n) |->
               IF t = {} THEN 0
               ELSE h[t \ {Max(t)}] + TextLength(in, row[Max(t)])]
    BY <1>5, <1>6 DEF Folds
  <2>2. RequireFolds(h, in.schema, in.sources)
    BY <1>2, <2>1, Zenon DEF RequireFolds, TextLength, row
  <2> QED BY <2>2
<1> DEFINE g == CHOOSE f : RequireFolds(f, in.schema, in.sources)
<1>8. RequireFolds(g, in.schema, in.sources)
  BY <1>7, Zenon
<1>9. Requirements(in.schema, in.sources).persistent = g[1 .. n]
  BY <1>2, RequirementsAre DEF row
<1> HIDE DEF g
<1>10. Repeats(g, Nat, 0, turn, n)
  <2>1. \A t \in SUBSET (1 .. n) :
          g[t] = IF t = {} THEN 0
                 ELSE g[t \ {Max(t)}] + TextLength(in, row[Max(t)])
    BY <1>2, <1>8, Zenon DEF RequireFolds, TextLength, row
  <2>2. g[{}] = 0
    BY <2>1
  <2>3. ASSUME NEW m \in 1 .. n, g[1 .. m - 1] \in Nat
        PROVE  g[1 .. m] = turn[<<g[1 .. m - 1], m>>]
    <3> DEFINE t == 1 .. m
    <3>1. t \in SUBSET (1 .. n) /\ t # {} /\ Max(t) = m /\ t \ {m} = 1 .. m - 1
      BY <1>1, PlacesUpTo
    <3> HIDE DEF t
    <3>2. g[t] = g[1 .. m - 1] + TextLength(in, m)
      BY <1>2, <2>1, <3>1
    <3> QED BY <1>4, <2>3, <3>2 DEF t
  <2> QED BY <2>2, <2>3 DEF Repeats
<1>11. g[1 .. n] = h[1 .. n]
  BY <1>1, <1>5, <1>10, FoldUnique
<1>12. /\ h[1 .. 0] = 0
       /\ \A k \in 1 .. n : h[1 .. k] = turn[<<h[1 .. k - 1], k>>] /\ h[1 .. k - 1] \in Nat
       /\ h[1 .. n] \in Nat
  BY <1>1, <1>5, FoldPrefixes
<1> DEFINE f == [k \in 0 .. n |-> h[1 .. k]]
<1>13. \A k \in 0 .. n : f[k] = h[1 .. k] /\ h[1 .. k] \in Nat
  <2> TAKE k \in 0 .. n
  <2>1. CASE k = n
    BY <1>12, <2>1
  <2>2. CASE k # n
    <3>1. k + 1 \in 1 .. n /\ (k + 1) - 1 = k
      BY <1>1, <2>2
    <3>2. h[1 .. (k + 1) - 1] \in Nat
      BY <1>12, <3>1
    <3> QED BY <3>1, <3>2
  <2> QED BY <2>1, <2>2
<1>14. f \in [0 .. n -> Nat]
  BY <1>13
<1>15. f[0] = 0
  BY <1>1, <1>12, <1>13
<1>16. ASSUME NEW k \in 1 .. n
       PROVE  f[k] = f[k - 1] + TextLength(in, k)
  <2>1. k \in 0 .. n /\ k - 1 \in 0 .. n
    BY <1>1
  <2>2. h[1 .. k] = turn[<<h[1 .. k - 1], k>>] /\ h[1 .. k - 1] \in Nat
    BY <1>12
  <2> HIDE DEF f
  <2> QED BY <1>4, <1>13, <2>1, <2>2
<1>17. f[n] = h[1 .. n]
  BY <1>1
<1> HIDE DEF f
<1>18. Offsets(f, in)
  BY <1>3, <1>14, <1>15, <1>16 DEF Offsets, n
<1>19. Requirements(in.schema, in.sources).persistent = f[n]
  BY <1>9, <1>11, <1>17
<1> QED BY <1>18, <1>19 DEF n

-----------------------------------------------------------------------------
(* What prepare writes: the results of its loop over the keys. *)
Unstored ==
  [offset |-> 0, persistent |-> persistent, values |-> values, provenance |-> provenance]

StoreFolds(h) ==
  h = [t \in SUBSET (DOMAIN [k \in DOMAIN input.schema |-> k]) |->
         IF t = {} THEN Unstored
         ELSE LET x == Max(t)
              IN Store(h[t \ {x}], [k \in DOMAIN input.schema |-> k][x])]

LEMMA PreparePublishes ==
  ASSUME PrepareResult, PrepareFailure = NoFailure
  PROVE  PublishResult((CHOOSE h : StoreFolds(h))[DOMAIN [k \in DOMAIN input.schema |-> k]])
BY Zenon DEF PrepareResult, FoldLeft, MapThenFoldSet, StoreFolds, Unstored

LEMMA StoreIs ==
  ASSUME NEW acc, NEW k
  PROVE  LET length == Len(Resolution[input][k].text)
             next == Store(acc, k)
         IN /\ next.offset = acc.offset + length
            /\ next.persistent = [b \in DOMAIN acc.persistent |->
                                    IF b \in acc.offset + 1 .. acc.offset + length
                                    THEN Resolution[input][k].text[b - acc.offset]
                                    ELSE acc.persistent[b]]
            /\ next.values = [acc.values EXCEPT
                 ![k] = [kind |-> input.schema[k].kind,
                         number |-> Resolution[input][k].number,
                         at |-> IF length = 0 THEN 0 ELSE acc.offset + 1,
                         length |-> length]]
            /\ next.provenance = [acc.provenance EXCEPT ![k] = Resolution[input][k].provenance]
            /\ next = [offset |-> next.offset, persistent |-> next.persistent,
                       values |-> next.values, provenance |-> next.provenance]
BY DEF Store

LEMMA ResolutionOf ==
  ASSUME InputOfCaller, NEW k \in 1 .. Len(input.schema)
  PROVE  /\ Resolution[input][k] = Resolve(input.schema, input.sources, k)
         /\ Resolution[input][k].text \in Seq(Octets)
         /\ Len(Resolution[input][k].text) = TextLength(input, k)
<1>1. IsInput(input) /\ input \in Inputs
  BY CallerAssumption DEF WellTyped, InputOfCaller
<1>2. k \in DOMAIN input.schema
  BY <1>1 DEF IsInput
<1>3. Resolution[input][k] = Resolve(input.schema, input.sources, k)
  BY <1>1, <1>2 DEF Resolution
<1>4. IsText(Resolve(input.schema, input.sources, k).text)
  BY <1>1, <1>2, ResolvedText
<1> QED BY <1>3, <1>4 DEF IsText, TextLength

(* The results of the loop, one after each key. *)
StoreSteps(s) ==
  /\ s[0] = Unstored
  /\ \A k \in 1 .. Len(input.schema) : s[k] = Store(s[k - 1], k)
  /\ \A k \in 0 .. Len(input.schema) :
       /\ IsRow(s[k].values, memory.values) /\ IsRow(s[k].provenance, memory.provenance)
       /\ IsRow(s[k].persistent, memory.persistent)
  /\ s[Len(input.schema)] =
       (CHOOSE h : StoreFolds(h))[DOMAIN [k \in DOMAIN input.schema |-> k]]

LEMMA StoreHasStates ==
  ASSUME InputOfCaller, OutputsKept
  PROVE  \E s : StoreSteps(s)
<1> DEFINE n == Len(input.schema)
           row == [k \in DOMAIN input.schema |-> k]
           text(k) == Resolution[input][k].text
           Entry(k) == [kind : {input.schema[k].kind}, number : {Resolution[input][k].number},
                        at : Nat, length : Nat]
           Bytes == {persistent[b] : b \in 1 .. memory.persistent} \union (0 .. 255)
           V == {values[i] : i \in 1 .. memory.values} \union UNION {Entry(k) : k \in 1 .. n}
           P == {provenance[i] : i \in 1 .. memory.provenance}
                \union {Resolution[input][k].provenance : k \in 1 .. n}
           A == [offset : Nat, persistent : [1 .. memory.persistent -> Bytes],
                 values : [1 .. memory.values -> V],
                 provenance : [1 .. memory.provenance -> P]]
           turn == [p \in A \X (1 .. n) |-> Store(p[1], p[2])]
<1>1. n \in Nat /\ DOMAIN input.schema = 1 .. n
  BY CallerAssumption DEF WellTyped, InputOfCaller, IsInput
<1>2. DOMAIN row = 1 .. n /\ \A k \in 1 .. n : row[k] = k
  BY <1>1
<1>3. \A k \in 1 .. n : text(k) \in Seq(Octets) /\ Len(text(k)) \in Nat
                        /\ Len(text(k)) = TextLength(input, k)
  BY ResolutionOf
<1>4. Unstored \in A
  <2>1. persistent \in [1 .. memory.persistent -> Bytes]
    <3>1. \A b \in 1 .. memory.persistent : persistent[b] \in Bytes
      OBVIOUS
    <3>2. persistent = [b \in 1 .. memory.persistent |-> persistent[b]]
      BY DEF OutputsKept, IsRow
    <3> HIDE DEF Bytes
    <3> QED BY <3>1, <3>2
  <2>2. values \in [1 .. memory.values -> V]
    <3>1. \A b \in 1 .. memory.values : values[b] \in V
      OBVIOUS
    <3>2. values = [b \in 1 .. memory.values |-> values[b]]
      BY DEF OutputsKept, IsRow
    <3> HIDE DEF V
    <3> QED BY <3>1, <3>2
  <2>3. provenance \in [1 .. memory.provenance -> P]
    <3>1. \A b \in 1 .. memory.provenance : provenance[b] \in P
      OBVIOUS
    <3>2. provenance = [b \in 1 .. memory.provenance |-> provenance[b]]
      BY DEF OutputsKept, IsRow
    <3> HIDE DEF P
    <3> QED BY <3>1, <3>2
  <2> HIDE DEF Bytes, V, P
  <2> QED BY <2>1, <2>2, <2>3 DEF Unstored
<1>5. ASSUME NEW acc \in A, NEW k \in 1 .. n
      PROVE  Store(acc, k) \in A
  <2> DEFINE next == Store(acc, k)
             length == Len(text(k))
             entry == [kind |-> input.schema[k].kind,
                       number |-> Resolution[input][k].number,
                       at |-> IF length = 0 THEN 0 ELSE acc.offset + 1, length |-> length]
  <2>1. /\ acc.offset \in Nat /\ acc.persistent \in [1 .. memory.persistent -> Bytes]
        /\ acc.values \in [1 .. memory.values -> V]
        /\ acc.provenance \in [1 .. memory.provenance -> P]
    <3> HIDE DEF Bytes, V, P
    <3> QED OBVIOUS
  <2>2. /\ next.offset = acc.offset + length
        /\ next.persistent = [b \in DOMAIN acc.persistent |->
                                IF b \in acc.offset + 1 .. acc.offset + length
                                THEN text(k)[b - acc.offset] ELSE acc.persistent[b]]
        /\ next.values = [acc.values EXCEPT ![k] = entry]
        /\ next.provenance = [acc.provenance EXCEPT ![k] = Resolution[input][k].provenance]
        /\ next = [offset |-> next.offset, persistent |-> next.persistent,
                   values |-> next.values, provenance |-> next.provenance]
    BY StoreIs, Zenon
  <2>3. length \in Nat /\ text(k) \in Seq(Octets)
    BY <1>3
  <2> HIDE DEF text, length
  <2>4. next.offset \in Nat
    BY <2>1, <2>2, <2>3
  <2>5. next.persistent \in [1 .. memory.persistent -> Bytes]
    <3>1. ASSUME NEW b \in acc.offset + 1 .. acc.offset + length
          PROVE  text(k)[b - acc.offset] \in Bytes
      <4>1. b - acc.offset \in 1 .. length
        BY <2>1, <2>3
      <4>2. text(k)[b - acc.offset] \in 0 .. 255
        <5>1. \A s \in Seq(Octets) : \A i \in 1 .. Len(s) : s[i] \in 0 .. 255
          BY ElementOfSeq DEF Octets
        <5>2. b - acc.offset \in 1 .. Len(text(k))
          BY <4>1 DEF length
        <5> HIDE DEF text
        <5> QED BY <2>3, <5>1, <5>2
      <4>3. 0 .. 255 \subseteq Bytes
        OBVIOUS
      <4> HIDE DEF Bytes
      <4> QED BY <4>2, <4>3
    <3> HIDE DEF Bytes
    <3>2. DOMAIN acc.persistent = 1 .. memory.persistent
      BY <2>1
    <3>3. \A b \in 1 .. memory.persistent : acc.persistent[b] \in Bytes
      BY <2>1
    <3> QED BY <2>2, <3>1, <3>2, <3>3
  <2>6. next.values \in [1 .. memory.values -> V]
    <3>1. entry \in V
      <4>1. entry \in Entry(k)
        BY <2>1, <2>3
      <4> QED BY <4>1
    <3> DEFINE old == acc.values
    <3>2. old \in [1 .. memory.values -> V] /\ next.values = [old EXCEPT ![k] = entry]
      BY <2>1, <2>2
    <3> HIDE DEF V, entry, old, next
    <3> QED BY <3>1, <3>2
  <2>7. next.provenance \in [1 .. memory.provenance -> P]
    <3>1. Resolution[input][k].provenance \in P
      OBVIOUS
    <3> HIDE DEF P
    <3> QED BY <2>1, <2>2, <3>1
  <2> HIDE DEF Bytes, V, P, next
  <2> QED BY <2>2, <2>4, <2>5, <2>6, <2>7 DEF next
<1>6. \A a \in A, k \in 1 .. n : turn[<<a, k>>] = Store(a, k) /\ turn[<<a, k>>] \in A
  <2> HIDE DEF A
  <2> QED BY <1>5
<1>7. \A a \in A : /\ a.offset \in Nat /\ IsRow(a.persistent, memory.persistent)
                   /\ IsRow(a.values, memory.values) /\ IsRow(a.provenance, memory.provenance)
                   /\ DOMAIN a.values = 1 .. memory.values
  <2> HIDE DEF Bytes, V, P
  <2> QED BY DEF IsRow
<1> HIDE DEF A, turn, n, row, text
<1>8. PICK h : Folds(h, A, Unstored, turn, n)
  BY <1>1, <1>4, <1>6, FoldExists DEF StepsIn
<1>9. ASSUME NEW t \in SUBSET (1 .. n)
      PROVE  h[t] = IF t = {} THEN Unstored
                    ELSE Store(h[t \ {Max(t)}], row[Max(t)])
  <2>1. CASE t = {}
    BY <1>8, <2>1 DEF Folds
  <2>2. CASE t # {}
    <3>1. Max(t) \in 1 .. n /\ t \ {Max(t)} \in SUBSET (1 .. n) /\ Max(t) = Max(t)
      BY <1>1, <2>2, MaxOfPlaces
    <3>2. h[t \ {Max(t)}] \in A /\ h[t] = turn[<<h[t \ {Max(t)}], Max(t)>>]
      BY <1>8, <2>2, <3>1 DEF Folds
    <3> QED BY <1>2, <1>6, <2>2, <3>1, <3>2
  <2> QED BY <2>1, <2>2
<1>10. \E g : StoreFolds(g)
  <2>1. h = [t \in SUBSET (1 .. n) |->
               IF t = {} THEN Unstored
               ELSE Store(h[t \ {Max(t)}], row[Max(t)])]
    BY <1>8, <1>9 DEF Folds
  <2>2. StoreFolds(h)
    BY <1>2, <2>1, Zenon DEF StoreFolds, row
  <2> QED BY <2>2
<1> DEFINE g == CHOOSE z : StoreFolds(z)
<1>11. StoreFolds(g)
  BY <1>10, Zenon
<1>12. (CHOOSE z : StoreFolds(z))[DOMAIN row] = g[1 .. n]
  BY <1>2
<1> HIDE DEF g
<1>13. Repeats(g, A, Unstored, turn, n)
  <2>1. \A t \in SUBSET (1 .. n) :
          g[t] = IF t = {} THEN Unstored
                 ELSE Store(g[t \ {Max(t)}], row[Max(t)])
    BY <1>2, <1>11, Zenon DEF StoreFolds, row
  <2>2. g[{}] = Unstored
    BY <2>1
  <2>3. ASSUME NEW m \in 1 .. n, g[1 .. m - 1] \in A
        PROVE  g[1 .. m] = turn[<<g[1 .. m - 1], m>>]
    <3> DEFINE t == 1 .. m
    <3>1. t \in SUBSET (1 .. n) /\ t # {} /\ Max(t) = m /\ t \ {m} = 1 .. m - 1
      BY <1>1, PlacesUpTo
    <3> HIDE DEF t
    <3>2. g[t] = Store(g[1 .. m - 1], m)
      BY <1>2, <2>1, <3>1
    <3> QED BY <1>6, <2>3, <3>2 DEF t
  <2> QED BY <2>2, <2>3 DEF Repeats
<1>14. PICK s : RunsThrough(s, A, Unstored, turn, n, g)
  <2>1. StepsIn(A, turn, n)
    BY <1>6 DEF StepsIn
  <2> QED BY <1>1, <1>4, <1>13, <2>1, FoldStates
<1>15. /\ s \in [0 .. n -> A] /\ s[0] = Unstored /\ s[n] = g[1 .. n]
       /\ \A k \in 1 .. n : s[k] = turn[<<s[k - 1], k>>]
  BY <1>14 DEF RunsThrough
<1>16. \A k \in 1 .. n : s[k] = Store(s[k - 1], k)
  <2> TAKE k \in 1 .. n
  <2>1. s[k - 1] \in A
    BY <1>1, <1>15
  <2> QED BY <1>6, <1>15, <2>1
<1>17. \A k \in 0 .. n :
         /\ IsRow(s[k].values, memory.values) /\ IsRow(s[k].provenance, memory.provenance)
         /\ IsRow(s[k].persistent, memory.persistent)
  BY <1>7, <1>15
<1>18. StoreSteps(s)
  BY <1>12, <1>15, <1>16, <1>17 DEF StoreSteps, n, row
<1> QED BY <1>18

(* A text ends before the next one begins.                                   *)
LEMMA OffsetsGrow ==
  ASSUME NEW in, Len(in.schema) \in Nat, NEW f, Offsets(f, in)
  PROVE  /\ \A k \in 0 .. Len(in.schema) : f[k] \in Nat
         /\ \A j, k \in 0 .. Len(in.schema) : j <= k => f[j] <= f[k]
<1> DEFINE n == Len(in.schema)
<1>1. /\ n \in Nat /\ \A k \in 0 .. n : f[k] \in Nat
      /\ \A k \in 1 .. n : f[k] = f[k - 1] + TextLength(in, k) /\ TextLength(in, k) \in Nat
  BY DEF Offsets
<1> HIDE DEF n
<1>2. ASSUME NEW j \in 0 .. n, NEW k \in 0 .. n, j <= k
      PROVE  f[j] <= f[k]
  <2> DEFINE good == {i \in 1 .. n + 1 : i - 1 < j \/ f[j] <= f[i - 1]}
  <2>1. 1 \in good
    <3>1. 0 < j \/ f[j] <= f[0]
      BY <1>1
    <3> QED BY <1>1, <3>1
  <2>2. ASSUME NEW i \in 1 .. n, i \in good PROVE i + 1 \in good
    <3>1. i + 1 \in 1 .. n + 1 /\ (i + 1) - 1 = i /\ i \in 0 .. n /\ i - 1 \in 0 .. n
      BY <1>1
    <3>2. f[i - 1] <= f[i] /\ f[i] \in Nat /\ f[i - 1] \in Nat /\ f[j] \in Nat
      BY <1>1, <3>1
    <3>3. i < j \/ i = j \/ f[j] <= f[i - 1]
      BY <1>1, <2>2
    <3>4. i < j \/ f[j] <= f[i]
      BY <3>2, <3>3
    <3> QED BY <3>1, <3>4
  <2> HIDE DEF good
  <2>3. \A i \in 1 .. n + 1 : i \in good
    BY <1>1, <2>1, <2>2, Stepwise
  <2>4. k + 1 \in good /\ (k + 1) - 1 = k /\ ~ k < j
    BY <1>1, <1>2, <2>3
  <2> QED BY <2>4 DEF good
<1> QED BY <1>1, <1>2 DEF n

(* What a key of a result holds: its value, where that came from, and its    *)
(* text among the bytes, after the texts of the keys before.                 *)
Entry(in, k, f) ==
  [kind |-> in.schema[k].kind, number |-> Resolve(in.schema, in.sources, k).number,
   at |-> IF TextLength(in, k) = 0 THEN 0 ELSE f[k - 1] + 1, length |-> TextLength(in, k)]

KeyHeld(in, k, f, entry, place, bytes) ==
  /\ entry = Entry(in, k, f) /\ place = Resolve(in.schema, in.sources, k).provenance
  /\ \A b \in 1 .. TextLength(in, k) :
       bytes[f[k - 1] + b] = Resolve(in.schema, in.sources, k).text[b]

HasPlace(in, f) ==
  /\ Len(in.schema) <= memory.values /\ Len(in.schema) <= memory.provenance
  /\ f[Len(in.schema)] <= memory.persistent

(* One turn of the loop holds its key and keeps those before.                *)
LEMMA StoreHolds ==
  ASSUME InputOfCaller, OutputsKept, NEW f, Offsets(f, input), HasPlace(input, f),
         NEW k \in 1 .. Len(input.schema), NEW acc,
         IsRow(acc.values, memory.values), IsRow(acc.provenance, memory.provenance),
         IsRow(acc.persistent, memory.persistent), acc.offset = f[k - 1]
  PROVE  LET next == Store(acc, k)
         IN /\ next.offset = f[k]
            /\ KeyHeld(input, k, f, next.values[k], next.provenance[k], next.persistent)
            /\ \A j \in 1 .. k - 1 :
                 /\ next.values[j] = acc.values[j] /\ next.provenance[j] = acc.provenance[j]
                 /\ \A b \in 1 .. TextLength(input, j) :
                      next.persistent[f[j - 1] + b] = acc.persistent[f[j - 1] + b]
<1> DEFINE n == Len(input.schema)
           next == Store(acc, k)
           resolved == Resolve(input.schema, input.sources, k)
           length == TextLength(input, k)
<1>1. /\ n \in Nat /\ memory.values \in Nat /\ memory.provenance \in Nat
      /\ memory.persistent \in Nat
  BY CallerAssumption DEF WellTyped, InputOfCaller, IsInput, OutputsKept, IsMemory
<1>2. /\ f[0] = 0 /\ \A j \in 1 .. n : TextLength(input, j) \in Nat
                                       /\ f[j] = f[j - 1] + TextLength(input, j)
  BY DEF Offsets
<1>3. /\ \A j \in 0 .. n : f[j] \in Nat
      /\ \A i, j \in 0 .. n : i <= j => f[i] <= f[j]
  BY <1>1, OffsetsGrow
<1>4. /\ next.offset = acc.offset + length
      /\ next.persistent = [b \in DOMAIN acc.persistent |->
                              IF b \in acc.offset + 1 .. acc.offset + length
                              THEN resolved.text[b - acc.offset] ELSE acc.persistent[b]]
      /\ next.values = [acc.values EXCEPT
           ![k] = [kind |-> input.schema[k].kind, number |-> resolved.number,
                   at |-> IF length = 0 THEN 0 ELSE acc.offset + 1, length |-> length]]
      /\ next.provenance = [acc.provenance EXCEPT ![k] = resolved.provenance]
  <2>1. Resolution[input][k] = resolved /\ Len(Resolution[input][k].text) = length
    BY ResolutionOf
  <2> DEFINE text == Resolution[input][k].text
  <2>2. /\ next.offset = acc.offset + Len(text)
        /\ next.persistent = [b \in DOMAIN acc.persistent |->
                                IF b \in acc.offset + 1 .. acc.offset + Len(text)
                                THEN text[b - acc.offset] ELSE acc.persistent[b]]
        /\ next.values = [acc.values EXCEPT
             ![k] = [kind |-> input.schema[k].kind, number |-> Resolution[input][k].number,
                     at |-> IF Len(text) = 0 THEN 0 ELSE acc.offset + 1, length |-> Len(text)]]
        /\ next.provenance = [acc.provenance EXCEPT ![k] = Resolution[input][k].provenance]
    BY StoreIs, Zenon
  <2>3. Len(text) = length /\ text = resolved.text
        /\ Resolution[input][k].number = resolved.number
        /\ Resolution[input][k].provenance = resolved.provenance
    BY <2>1
  <2> HIDE DEF resolved, length, text, next
  <2> QED BY <2>2, <2>3
<1>5. k \in 1 .. n /\ n <= memory.values /\ n <= memory.provenance /\ f[n] <= memory.persistent
  BY DEF HasPlace
<1>6. /\ f[k] = f[k - 1] + length /\ length \in Nat /\ f[k - 1] \in Nat /\ f[k] \in Nat
      /\ f[k] <= memory.persistent
  <2>1. k - 1 \in 0 .. n /\ k \in 0 .. n /\ n \in 0 .. n /\ k <= n
    BY <1>1, <1>5
  <2>2. f[k] <= f[n] /\ f[n] \in Nat
    BY <1>3, <2>1
  <2>3. f[k] \in Nat /\ f[k - 1] \in Nat
    BY <1>3, <2>1
  <2>4. f[k] <= memory.persistent
    BY <1>1, <1>5, <2>2, <2>3
  <2> QED BY <1>2, <2>3, <2>4
<1>7. /\ DOMAIN acc.values = 1 .. memory.values /\ DOMAIN acc.provenance = 1 .. memory.provenance
      /\ DOMAIN acc.persistent = 1 .. memory.persistent
  BY DEF IsRow
<1> HIDE DEF next, length, resolved, n
<1>8. next.offset = f[k]
  BY <1>4, <1>6
<1>9. next.values[k] = Entry(input, k, f) /\ next.provenance[k] = resolved.provenance
  <2>1. k \in DOMAIN acc.values /\ k \in DOMAIN acc.provenance
    BY <1>1, <1>5, <1>7
  <2>2. next.values[k] = [kind |-> input.schema[k].kind, number |-> resolved.number,
                          at |-> IF length = 0 THEN 0 ELSE acc.offset + 1, length |-> length]
    BY <1>4, <2>1
  <2>3. next.values[k] = [kind |-> input.schema[k].kind, number |-> resolved.number,
                          at |-> IF length = 0 THEN 0 ELSE f[k - 1] + 1, length |-> length]
    BY <2>2
  <2>4. next.values[k] = Entry(input, k, f)
    BY <2>3, Zenon DEF Entry, resolved, length
  <2>5. next.provenance[k] = resolved.provenance
    BY <1>4, <2>1
  <2> QED BY <2>4, <2>5
<1>10. ASSUME NEW b \in 1 .. length
       PROVE  next.persistent[f[k - 1] + b] = resolved.text[b]
  <2>1. /\ f[k - 1] + b \in 1 .. memory.persistent /\ (f[k - 1] + b) - f[k - 1] = b
        /\ f[k - 1] + b \in f[k - 1] + 1 .. f[k - 1] + length
    BY <1>1, <1>6
  <2> DEFINE place == f[k - 1] + b
  <2>2. place \in DOMAIN acc.persistent /\ place \in acc.offset + 1 .. acc.offset + length
        /\ place - acc.offset = b
    BY <1>7, <2>1
  <2> HIDE DEF place
  <2>3. next.persistent[place] = resolved.text[b]
    BY <1>4, <2>2
  <2> QED BY <2>3 DEF place
<1>11. ASSUME NEW j \in 1 .. k - 1
       PROVE  /\ next.values[j] = acc.values[j] /\ next.provenance[j] = acc.provenance[j]
              /\ \A b \in 1 .. TextLength(input, j) :
                   next.persistent[f[j - 1] + b] = acc.persistent[f[j - 1] + b]
  <2>1. j # k /\ j \in 1 .. n /\ j \in DOMAIN acc.values /\ j \in DOMAIN acc.provenance
    BY <1>1, <1>5, <1>7
  <2>2. next.values[j] = acc.values[j] /\ next.provenance[j] = acc.provenance[j]
    BY <1>4, <2>1
  <2>3. ASSUME NEW b \in 1 .. TextLength(input, j)
        PROVE  next.persistent[f[j - 1] + b] = acc.persistent[f[j - 1] + b]
    <3>1. /\ f[j] = f[j - 1] + TextLength(input, j) /\ TextLength(input, j) \in Nat
          /\ f[j] <= f[k - 1] /\ f[j - 1] \in Nat /\ f[j] \in Nat
      <4>1. j \in 0 .. n /\ j - 1 \in 0 .. n /\ k - 1 \in 0 .. n /\ j <= k - 1
        BY <1>1, <1>5
      <4> QED BY <1>2, <1>3, <2>1, <4>1
    <3> DEFINE place == f[j - 1] + b
    <3>2. /\ place \in 1 .. memory.persistent /\ place \notin f[k - 1] + 1 .. f[k - 1] + length
      <4>1. PICK x, y, z, room, size : /\ x = f[j - 1] /\ y = f[j] /\ z = f[k - 1]
                                       /\ room = memory.persistent /\ size = TextLength(input, j)
        OBVIOUS
      <4>2. /\ x \in Nat /\ y \in Nat /\ z \in Nat /\ room \in Nat /\ length \in Nat
            /\ y = x + size /\ y <= z /\ z + length <= room /\ size \in Nat /\ b \in 1 .. size
        BY <1>1, <1>6, <3>1, <4>1
      <4>3. x + b \in 1 .. room /\ x + b \notin z + 1 .. z + length
        BY <4>2
      <4> QED BY <4>1, <4>3
    <3> HIDE DEF place
    <3>3. next.persistent[place] = acc.persistent[place]
      BY <1>4, <1>7, <3>2
    <3> QED BY <3>3 DEF place
  <2> QED BY <2>2, <2>3
<1>12. KeyHeld(input, k, f, next.values[k], next.provenance[k], next.persistent)
  BY <1>9, <1>10 DEF KeyHeld, resolved, length
<1> QED BY <1>8, <1>11, <1>12 DEF next

(* So after the loop every key is held.                                      *)
LEMMA LoopHolds ==
  ASSUME InputOfCaller, OutputsKept, NEW f, Offsets(f, input), HasPlace(input, f), NEW s, StoreSteps(s)
  PROVE  LET final == s[Len(input.schema)]
         IN \A k \in 1 .. Len(input.schema) :
              KeyHeld(input, k, f, final.values[k], final.provenance[k], final.persistent)
<1> DEFINE n == Len(input.schema)
           After(k) == /\ s[k].offset = f[k]
                       /\ \A j \in 1 .. k : KeyHeld(input, j, f, s[k].values[j],
                                                    s[k].provenance[j], s[k].persistent)
           good == {k \in 1 .. n + 1 : After(k - 1)}
<1>1. n \in Nat
  BY CallerAssumption DEF WellTyped, InputOfCaller, IsInput
<1>2. /\ s[0] = Unstored /\ \A k \in 1 .. n : s[k] = Store(s[k - 1], k)
      /\ \A k \in 0 .. n :
           /\ IsRow(s[k].values, memory.values) /\ IsRow(s[k].provenance, memory.provenance)
           /\ IsRow(s[k].persistent, memory.persistent)
  BY DEF StoreSteps
<1>3. 1 \in good
  <2>1. s[0].offset = f[0]
    BY <1>2 DEF Unstored, Offsets
  <2>2. After(0)
    BY <2>1
  <2> HIDE DEF After
  <2>3. 1 - 1 = 0 /\ 1 \in 1 .. n + 1
    BY <1>1
  <2> QED BY <2>2, <2>3
<1>4. ASSUME NEW k \in 1 .. n, k \in good
      PROVE  k + 1 \in good
  <2> DEFINE acc == s[k - 1]
             next == Store(acc, k)
  <2>1. After(k - 1) /\ k - 1 \in 0 .. n
    BY <1>1, <1>4
  <2>2. /\ IsRow(acc.values, memory.values) /\ IsRow(acc.provenance, memory.provenance)
        /\ IsRow(acc.persistent, memory.persistent) /\ acc.offset = f[k - 1]
    BY <1>2, <2>1
  <2>3. \A j \in 1 .. k - 1 :
          KeyHeld(input, j, f, acc.values[j], acc.provenance[j], acc.persistent)
    BY <2>1
  <2>4. s[k] = next
    BY <1>2
  <2> HIDE DEF acc, After, good
  <2>5. /\ next.offset = f[k]
        /\ KeyHeld(input, k, f, next.values[k], next.provenance[k], next.persistent)
        /\ \A j \in 1 .. k - 1 :
             /\ next.values[j] = acc.values[j] /\ next.provenance[j] = acc.provenance[j]
             /\ \A b \in 1 .. TextLength(input, j) :
                  next.persistent[f[j - 1] + b] = acc.persistent[f[j - 1] + b]
    BY <2>2, StoreHolds
  <2> HIDE DEF next
  <2>6. \A j \in 1 .. k - 1 :
          KeyHeld(input, j, f, next.values[j], next.provenance[j], next.persistent)
    BY <2>3, <2>5 DEF KeyHeld
  <2>7. \A j \in 1 .. k : KeyHeld(input, j, f, next.values[j], next.provenance[j], next.persistent)
    <3>1. \A j \in 1 .. k : j = k \/ j \in 1 .. k - 1
      BY <1>1
    <3> QED BY <2>5, <2>6, <3>1
  <2>8. After(k)
    BY <2>4, <2>5, <2>7 DEF After
  <2>9. (k + 1) - 1 = k /\ k + 1 \in 1 .. n + 1
    BY <1>1
  <2> QED BY <2>8, <2>9 DEF good
<1> HIDE DEF good, n
<1>5. n + 1 \in good
  <2>1. n + 1 \in 1 .. n + 1
    BY <1>1
  <2> QED BY <1>1, <1>3, <1>4, <2>1, Stepwise
<1>6. After((n + 1) - 1) /\ (n + 1) - 1 = n
  BY <1>1, <1>5 DEF good
<1>7. After(n)
  BY <1>6
<1> QED BY <1>7 DEF n

(* What prepare writes when it succeeds. *)
ResultHeld(in, f, row, places, bytes, settled) ==
  /\ Offsets(f, in) /\ HasPlace(in, f)
  /\ settled = [guard |-> TRUE, count |-> Len(in.schema), bytes |-> f[Len(in.schema)]]
  /\ \A k \in 1 .. Len(in.schema) : KeyHeld(in, k, f, row[k], places[k], bytes)

LEMMA PrepareStores ==
  ASSUME InputOfCaller, OutputsKept, PrepareResult,
         PrepareFailure = NoFailure
  PROVE  /\ IsRow(values', memory.values) /\ IsRow(provenance', memory.provenance)
         /\ IsRow(persistent', memory.persistent)
         /\ prepared' = [guard |-> TRUE, count |-> Needs[input].count,
                         bytes |-> Needs[input].persistent]
         /\ from' = input
         /\ \E f : ResultHeld(input, f, values', provenance', persistent', prepared')
<1>1. /\ IsInput(input)
      /\ Needs[input] = Requirements(input.schema, input.sources)
  BY AnalysisOf DEF InputOfCaller
<1>2. PICK f : /\ Offsets(f, input)
               /\ Needs[input].persistent = f[Len(input.schema)]
  BY <1>1, RequirementsAreOffsets
<1>3. Needs[input].count = Len(input.schema) /\ Len(input.schema) \in Nat
  <2>1. Needs[input].count = Len(input.schema)
    BY <1>1, RequirementsAre
  <2>2. Len(input.schema) \in Nat
    BY <1>1 DEF IsInput
  <2> QED BY <2>1, <2>2
<1>4. PICK s : StoreSteps(s)
  BY StoreHasStates
<1> DEFINE final == s[Len(input.schema)]
<1>5. /\ final = (CHOOSE h : StoreFolds(h))[DOMAIN [k \in DOMAIN input.schema |-> k]]
      /\ IsRow(final.values, memory.values) /\ IsRow(final.provenance, memory.provenance)
      /\ IsRow(final.persistent, memory.persistent)
  <2>1. Len(input.schema) \in 0 .. Len(input.schema)
    BY <1>3
  <2> QED BY <1>4, <2>1 DEF StoreSteps
<1>6. HasRoom(Needs[input])
  <2>1. AliasFailure # NoFailure
        /\ Failure("capacity", "none", 0, 0, "enospc") # NoFailure
    BY DEF AliasFailure, NoFailure, Failure
  <2> QED BY <2>1, PrepareFailureIs
<1>7. HasPlace(input, f)
  <2>1. /\ memory.values >= Len(input.schema) /\ memory.provenance >= Len(input.schema)
        /\ memory.persistent >= f[Len(input.schema)]
    BY <1>2, <1>3, <1>6 DEF HasRoom
  <2>2. /\ memory.values \in Nat /\ memory.provenance \in Nat /\ memory.persistent \in Nat
    BY DEF OutputsKept, IsMemory
  <2>3. f[Len(input.schema)] \in Nat
    BY <1>2, <1>3 DEF Offsets
  <2> QED BY <1>3, <2>1, <2>2, <2>3 DEF HasPlace
<1>8. \A k \in 1 .. Len(input.schema) :
        KeyHeld(input, k, f, final.values[k], final.provenance[k], final.persistent)
  BY <1>2, <1>4, <1>7, LoopHolds
<1> HIDE DEF final
<1>9. PublishResult(final)
  BY <1>5, PreparePublishes
<1>10. /\ values' = final.values /\ provenance' = final.provenance
       /\ persistent' = final.persistent /\ from' = input
       /\ prepared' = [guard |-> TRUE, count |-> Len(input.schema),
                       bytes |-> Needs[input].persistent]
  BY <1>9 DEF PublishResult
<1>11. ResultHeld(input, f, values', provenance', persistent', prepared')
  BY <1>2, <1>7, <1>8, <1>10 DEF ResultHeld
<1> QED BY <1>3, <1>5, <1>10, <1>11

(* No text of a result ends after its bytes.                                 *)
LEMMA TextsEnd ==
  ASSUME NEW in, Len(in.schema) \in Nat, NEW f, NEW row, NEW places, NEW bytes, NEW settled,
         ResultHeld(in, f, row, places, bytes, settled)
  PROVE  \A k \in 1 .. settled.count : row[k].at + row[k].length <= settled.bytes + 1
<1> DEFINE n == Len(in.schema)
<1>1. Offsets(f, in) /\ settled.count = n /\ settled.bytes = f[n]
  BY DEF ResultHeld
<1>2. /\ \A k \in 0 .. n : f[k] \in Nat
      /\ \A j, k \in 0 .. n : j <= k => f[j] <= f[k]
  BY <1>1, OffsetsGrow
<1> SUFFICES ASSUME NEW k \in 1 .. n PROVE row[k].at + row[k].length <= f[n] + 1
  BY <1>1
<1>3. row[k] = Entry(in, k, f)
  BY DEF ResultHeld, KeyHeld
<1> DEFINE length == TextLength(in, k)
<1>4. row[k].at = (IF length = 0 THEN 0 ELSE f[k - 1] + 1) /\ row[k].length = length
  BY <1>3 DEF Entry
<1>5. f[k] = f[k - 1] + length /\ length \in Nat
  BY <1>1 DEF Offsets
<1>6. f[k] \in Nat /\ f[k - 1] \in Nat /\ f[n] \in Nat /\ f[k] <= f[n]
  <2>1. k \in 0 .. n /\ k - 1 \in 0 .. n /\ n \in 0 .. n /\ k <= n
    OBVIOUS
  <2> HIDE DEF n
  <2> QED BY <1>2, <2>1
<1> HIDE DEF length, n
<1> QED BY <1>4, <1>5, <1>6

LEMMA PrepareKeepsInvariant ==
  ASSUME ConfigInvariant, PrepareResult
  PROVE  ConfigInvariant'
<1>1. UNCHANGED <<input, memory, requirements, promised>>
  BY PrepareStep
<1>2. InputOfCaller' /\ MeasuredNow'
  <2>1. InputOfCaller'
    BY <1>1 DEF ConfigInvariant, InputOfCaller
  <2>2. MeasuredNow'
    BY <1>1 DEF ConfigInvariant, MeasuredNow
  <2> QED BY <2>1, <2>2
<1>3. PrepareFailure # NoFailure => UNCHANGED <<values, provenance, persistent>>
  BY PrepareStep DEF stored
<1>4. OutputsKept'
  <2>1. IsMemory(memory)'
    BY <1>1 DEF ConfigInvariant, OutputsKept, IsMemory
  <2>2. IsRow(values, memory.values)'
    BY <1>1, <1>3, PrepareStores DEF ConfigInvariant, OutputsKept, IsRow
  <2>3. IsRow(provenance, memory.provenance)'
    BY <1>1, <1>3, PrepareStores DEF ConfigInvariant, OutputsKept, IsRow
  <2>4. IsRow(persistent, memory.persistent)'
    BY <1>1, <1>3, PrepareStores DEF ConfigInvariant, OutputsKept, IsRow
  <2> QED BY <2>1, <2>2, <2>3, <2>4 DEF OutputsKept
<1>5. MeasureIsExact'
  <2>1. SUFFICES ASSUME promised # "none", memory.overlaps = {}
                 PROVE  IF promised = "ok"
                        THEN /\ outcome' = IF /\ memory.values >= requirements.count
                                              /\ memory.provenance >= requirements.count
                                              /\ memory.scratch >= requirements.count
                                              /\ memory.persistent >= requirements.persistent
                                           THEN "ok" ELSE "enospc"
                             /\ outcome' = "ok" =>
                                  /\ prepared' = [guard |-> TRUE, count |-> requirements.count,
                                                  bytes |-> requirements.persistent]
                                  /\ \A k \in 1 .. prepared'.count :
                                       values'[k].at + values'[k].length <= prepared'.bytes + 1
                        ELSE outcome' = promised
    BY <1>1 DEF MeasureIsExact
  <2>2. /\ promised = Analysis[input].status
        /\ promised = "ok" => requirements = Needs[input]
    BY <2>1 DEF ConfigInvariant, MeasuredNow
  <2>3. ~ PrepareAliased
    BY <2>1 DEF PrepareAliased, PrepareDiagnosticFree, Overlap
  <2>4. outcome' = PrepareFailure.status
    BY PrepareStep
  <2>5. Told(Analysis[input])
    BY AnalysisOf DEF ConfigInvariant, InputOfCaller
  <2>6. CASE promised # "ok"
    <3>1. Analysis[input] # NoFailure
      BY <2>2, <2>6, NoFailureIsOk
    <3>2. PrepareFailure = Analysis[input]
      BY <3>1, PrepareFailureIs
    <3> QED BY <2>2, <2>4, <2>6, <3>2
  <2>7. CASE promised = "ok"
    <3>1. Analysis[input] = NoFailure /\ requirements = Needs[input]
      BY <2>2, <2>5, <2>7 DEF Told
    <3>2. PrepareFailure = IF HasRoom(requirements) THEN NoFailure
                                  ELSE Failure("capacity", "none", 0, 0, "enospc")
      BY <2>3, <3>1, PrepareFailureIs
    <3>3. outcome' = IF HasRoom(requirements) THEN "ok" ELSE "enospc"
      BY <2>4, <3>2, NoFailureIsOk DEF Failure
    <3>4. ASSUME outcome' = "ok"
          PROVE  /\ prepared' = [guard |-> TRUE, count |-> requirements.count,
                                 bytes |-> requirements.persistent]
                 /\ \A k \in 1 .. prepared'.count :
                      values'[k].at + values'[k].length <= prepared'.bytes + 1
      <4>1. PrepareFailure = NoFailure
        BY <3>2, <3>3, <3>4
      <4>2. /\ prepared' = [guard |-> TRUE, count |-> Needs[input].count,
                            bytes |-> Needs[input].persistent]
            /\ \E f : ResultHeld(input, f, values', provenance', persistent', prepared')
        BY <4>1, PrepareStores DEF ConfigInvariant
      <4>3. Len(input.schema) \in Nat
        BY CallerAssumption DEF ConfigInvariant, WellTyped, InputOfCaller, IsInput
      <4>4. \A k \in 1 .. prepared'.count :
              values'[k].at + values'[k].length <= prepared'.bytes + 1
        BY <4>2, <4>3, TextsEnd
      <4> QED BY <3>1, <4>2, <4>4
    <3> QED BY <2>7, <3>3, <3>4 DEF HasRoom
  <2> QED BY <2>6, <2>7
<1> QED BY <1>2, <1>4, <1>5 DEF ConfigInvariant

LEMMA MeasureKeepsInvariant ==
  ASSUME ConfigInvariant, Measure
  PROVE  ConfigInvariant'
<1>1. UNCHANGED <<input, memory, values, provenance, persistent>> /\ op' = "measure"
  BY MeasureStep DEF stored
<1>2. InputOfCaller'
  BY <1>1 DEF ConfigInvariant, InputOfCaller
<1>3. OutputsKept'
  BY <1>1 DEF ConfigInvariant, OutputsKept, IsMemory, IsRow
<1>4. MeasuredNow'
  <2>1. SUFFICES ASSUME memory.overlaps = {}
                 PROVE  /\ promised' = Analysis[input].status
                        /\ promised' = "ok" => requirements' = Needs[input]
    BY <1>1, Zenon DEF MeasuredNow, Analysis, Needs
  <2>2. ~ MeasureAliased
    BY <2>1 DEF MeasureAliased, MeasureDiagnosticFree, Overlap
  <2>3. MeasureFailure = Analysis[input]
    BY <2>2, MeasureFailureIs
  <2>4. Told(Analysis[input])
    BY AnalysisOf DEF ConfigInvariant, InputOfCaller
  <2> QED BY <2>3, <2>4, MeasureStep DEF Told
<1>5. MeasureIsExact'
  BY <1>1 DEF MeasureIsExact
<1> QED BY <1>2, <1>3, <1>4, <1>5 DEF ConfigInvariant

LEMMA ConfigInvariantKept ==
  ASSUME ConfigInvariant, [ConfigNext]_configVars
  PROVE  ConfigInvariant'
<1>1. CASE Measure
  BY <1>1, MeasureKeepsInvariant
<1>2. CASE PrepareResult
  BY <1>2, PrepareKeepsInvariant
<1>3. CASE Validate
  <2>1. /\ UNCHANGED <<input, memory, requirements, values, provenance, persistent, promised>>
        /\ op' = "validate"
    BY <1>3 DEF Validate, stored
  <2>2. InputOfCaller' /\ MeasuredNow'
    BY <2>1 DEF ConfigInvariant, InputOfCaller, MeasuredNow
  <2>3. OutputsKept'
    BY <2>1 DEF ConfigInvariant, OutputsKept, IsMemory, IsRow
  <2>4. MeasureIsExact'
    BY <2>1 DEF MeasureIsExact
  <2> QED BY <2>2, <2>3, <2>4 DEF ConfigInvariant
<1>4. CASE Change
  <2>1. /\ UNCHANGED <<memory, values, provenance, persistent>>
        /\ op' = "none" /\ promised' = "none" /\ input' \in Replacements
    BY <1>4 DEF Change, stored
  <2>2. InputOfCaller' /\ MeasuredNow'
    BY <2>1 DEF InputOfCaller, MeasuredNow, Inputs
  <2>3. OutputsKept'
    BY <2>1 DEF ConfigInvariant, OutputsKept, IsMemory, IsRow
  <2>4. MeasureIsExact'
    BY <2>1 DEF MeasureIsExact
  <2> QED BY <2>2, <2>3, <2>4 DEF ConfigInvariant
<1>5. CASE UNCHANGED configVars
  <2>1. UNCHANGED <<input, memory, requirements, values, provenance, persistent, prepared,
                    op, outcome, promised>>
    BY <1>5 DEF configVars, stored
  <2>2. InputOfCaller' /\ MeasuredNow'
    BY <2>1 DEF ConfigInvariant, InputOfCaller, MeasuredNow
  <2>3. OutputsKept'
    BY <2>1 DEF ConfigInvariant, OutputsKept, IsMemory, IsRow
  <2>4. MeasureIsExact'
    BY <2>1 DEF ConfigInvariant, MeasureIsExact
  <2> QED BY <2>2, <2>3, <2>4 DEF ConfigInvariant
<1> QED BY <1>1, <1>2, <1>3, <1>4, <1>5 DEF ConfigNext

LEMMA ConfigInvariantInitially ==
  ASSUME ConfigInit
  PROVE  ConfigInvariant
<1>1. /\ \E s \in Scenarios : input = s.input /\ memory = s.memory
      /\ op = "none" /\ promised = "none"
      /\ values = [k \in 1 .. memory.values |-> Unwritten]
      /\ provenance = [k \in 1 .. memory.provenance |-> Nowhere]
      /\ persistent = [b \in 1 .. memory.persistent |-> 0]
  BY DEF ConfigInit
<1>2. InputOfCaller
  BY <1>1 DEF InputOfCaller, Inputs
<1>3. IsMemory(memory)
  BY <1>1, CallerAssumption DEF WellTyped
<1>4. /\ IsRow(values, memory.values) /\ IsRow(provenance, memory.provenance)
      /\ IsRow(persistent, memory.persistent)
  BY <1>1 DEF IsRow
<1> QED BY <1>1, <1>2, <1>3, <1>4 DEF ConfigInvariant, OutputsKept, MeasuredNow, MeasureIsExact

(* A measurement promises what prepare does: for every schema, every text    *)
(* and every size of the caller's memory, arbor_config_prepare succeeds      *)
(* exactly with the room arbor_config_measure asked for, writes no text past *)
(* the bytes measured, and otherwise fails as the measurement did.           *)
THEOREM MeasureIsExactTheorem ==
  ConfigSpec => []MeasureIsExact
<1>1. ConfigInit => ConfigInvariant
  BY ConfigInvariantInitially
<1>2. ConfigInvariant /\ [ConfigNext]_configVars => ConfigInvariant'
  BY ConfigInvariantKept
<1>3. ConfigInvariant => MeasureIsExact
  BY DEF ConfigInvariant
<1> QED BY <1>1, <1>2, <1>3, PTL DEF ConfigSpec

(* A call that fails leaves every output as it was, a call that succeeds the *)
(* diagnostic, and neither writes to memory that is also something else of   *)
(* the call: for every schema and every way the caller's regions overlap.    *)
THEOREM FailureWritesNothingTheorem ==
  ConfigSpec => FailureWritesNothing
<1>1. ConfigInit => ConfigInvariant
  BY ConfigInvariantInitially
<1>2. ConfigInvariant /\ [ConfigNext]_configVars => ConfigInvariant'
  BY ConfigInvariantKept
<1>3. ConfigInvariant /\ [ConfigNext]_configVars => [WritesNothing]_configVars
  BY StepWrites DEF ConfigInvariant
<1>4. FailureWritesNothing <=> [][WritesNothing]_configVars
  BY DEF FailureWritesNothing, WritesNothing
<1> QED BY <1>1, <1>2, <1>3, <1>4, PTL DEF ConfigSpec
-----------------------------------------------------------------------------
(* The fold of a character's bytes.                                         *)
ScalarFolds(h, lead, rest) ==
  h = [t \in SUBSET DOMAIN rest |->
         IF t = {} THEN lead ELSE LET x == Max(t) IN 64 * h[t \ {x}] + (rest[x] % 64)]

LEMMA ScalarIsFold ==
  ASSUME NEW lead, NEW rest
  PROVE  Scalar(lead, rest) = (CHOOSE h : ScalarFolds(h, lead, rest))[DOMAIN rest]
BY Zenon DEF Scalar, FoldLeft, MapThenFoldSet, ScalarFolds

LEMMA LowBits ==
  ASSUME NEW b \in Octets
  PROVE  b % 64 \in Nat
BY DEF Octets

LEMMA ScalarHasStates ==
  ASSUME NEW lead \in Nat, NEW rest \in Seq(Octets)
  PROVE  \E s : /\ s \in [0 .. Len(rest) -> Nat] /\ s[0] = lead
                /\ Scalar(lead, rest) = s[Len(rest)]
                /\ \A k \in 1 .. Len(rest) : s[k] = 64 * s[k - 1] + (rest[k] % 64)
<1> DEFINE n == Len(rest)
           turn == [p \in Nat \X (1 .. n) |-> 64 * p[1] + (rest[p[2]] % 64)]
<1>1. n \in Nat /\ DOMAIN rest = 1 .. n /\ \A i \in 1 .. n : rest[i] \in Octets
  OBVIOUS
<1> HIDE DEF n
<1>2. ASSUME NEW a \in Nat, NEW i \in 1 .. n
      PROVE  turn[<<a, i>>] = 64 * a + (rest[i] % 64) /\ turn[<<a, i>>] \in Nat
  <2>1. rest[i] % 64 \in Nat
    BY <1>1, LowBits, Zenon
  <2> QED BY <2>1
<1> HIDE DEF turn
<1>3. PICK h : Folds(h, Nat, lead, turn, n)
  BY <1>1, <1>2, FoldExists DEF StepsIn
<1>4. ASSUME NEW t \in SUBSET (1 .. n)
      PROVE  h[t] = IF t = {} THEN lead ELSE 64 * h[t \ {Max(t)}] + (rest[Max(t)] % 64)
  <2>1. CASE t = {}
    BY <1>3, <2>1 DEF Folds
  <2>2. CASE t # {}
    <3>1. Max(t) \in 1 .. n /\ t \ {Max(t)} \in SUBSET (1 .. n) /\ Max(t) = Max(t)
      BY <1>1, <2>2, MaxOfPlaces
    <3>2. h[t \ {Max(t)}] \in Nat /\ h[t] = turn[<<h[t \ {Max(t)}], Max(t)>>]
      BY <1>3, <2>2, <3>1 DEF Folds
    <3> QED BY <1>2, <2>2, <3>1, <3>2
  <2> QED BY <2>1, <2>2
<1>5. \E f : ScalarFolds(f, lead, rest)
  <2>1. h = [t \in SUBSET (1 .. n) |->
               IF t = {} THEN lead ELSE 64 * h[t \ {Max(t)}] + (rest[Max(t)] % 64)]
    BY <1>3, <1>4 DEF Folds
  <2>2. ScalarFolds(h, lead, rest)
    BY <1>1, <2>1, Zenon DEF ScalarFolds
  <2> QED BY <2>2
<1> DEFINE f == CHOOSE e : ScalarFolds(e, lead, rest)
<1>6. ScalarFolds(f, lead, rest)
  BY <1>5, Zenon
<1>7. Scalar(lead, rest) = f[1 .. n]
  BY <1>1, ScalarIsFold
<1> HIDE DEF f
<1>8. Repeats(f, Nat, lead, turn, n)
  <2>1. \A t \in SUBSET (1 .. n) :
          f[t] = IF t = {} THEN lead ELSE 64 * f[t \ {Max(t)}] + (rest[Max(t)] % 64)
    BY <1>1, <1>6, Zenon DEF ScalarFolds
  <2>2. f[{}] = lead
    BY <2>1
  <2>3. ASSUME NEW m \in 1 .. n, f[1 .. m - 1] \in Nat
        PROVE  f[1 .. m] = turn[<<f[1 .. m - 1], m>>]
    <3> DEFINE t == 1 .. m
    <3>1. t \in SUBSET (1 .. n) /\ t # {} /\ Max(t) = m /\ t \ {m} = 1 .. m - 1
      BY <1>1, PlacesUpTo
    <3> HIDE DEF t
    <3>2. f[t] = 64 * f[1 .. m - 1] + (rest[m] % 64)
      BY <2>1, <3>1
    <3> QED BY <1>2, <2>3, <3>2 DEF t
  <2> QED BY <2>2, <2>3 DEF Repeats
<1>9. PICK s : RunsThrough(s, Nat, lead, turn, n, f)
  <2>1. StepsIn(Nat, turn, n)
    BY <1>2 DEF StepsIn
  <2> QED BY <1>1, <1>8, <2>1, FoldStates
<1>10. /\ s \in [0 .. n -> Nat] /\ s[0] = lead /\ s[n] = f[1 .. n]
       /\ \A k \in 1 .. n : s[k] = turn[<<s[k - 1], k>>]
  BY <1>9 DEF RunsThrough
<1>11. \A k \in 1 .. n : s[k] = 64 * s[k - 1] + (rest[k] % 64)
  <2> TAKE k \in 1 .. n
  <2>1. s[k - 1] \in Nat
    BY <1>1, <1>10
  <2> QED BY <1>2, <1>10, <2>1
<1> QED BY <1>7, <1>9, <1>10, <1>11 DEF n

(* Of two, three and four bytes.                                            *)
LEMMA ScalarsOf ==
  ASSUME NEW lead \in Nat, NEW rest \in Seq(Octets)
  PROVE  /\ Len(rest) = 1 => Scalar(lead, rest) = 64 * lead + (rest[1] % 64)
         /\ Len(rest) = 2 =>
              Scalar(lead, rest) = 64 * (64 * lead + (rest[1] % 64)) + (rest[2] % 64)
         /\ Len(rest) = 3 =>
              Scalar(lead, rest) = 64 * (64 * (64 * lead + (rest[1] % 64)) + (rest[2] % 64))
                                   + (rest[3] % 64)
<1>1. PICK s : /\ s \in [0 .. Len(rest) -> Nat] /\ s[0] = lead
               /\ Scalar(lead, rest) = s[Len(rest)]
               /\ \A k \in 1 .. Len(rest) : s[k] = 64 * s[k - 1] + (rest[k] % 64)
  BY ScalarHasStates
<1>2. \A k \in 1 .. Len(rest) : rest[k] % 64 \in Nat
  <2>1. \A k \in 1 .. Len(rest) : rest[k] \in Octets
    OBVIOUS
  <2> QED BY <2>1, LowBits, Zenon
<1>3. Len(rest) >= 1 => s[1] = 64 * lead + (rest[1] % 64)
  <2>1. Len(rest) >= 1 => 1 \in 1 .. Len(rest) /\ 1 - 1 = 0
    OBVIOUS
  <2> QED BY <1>1, <2>1
<1>4. Len(rest) >= 2 => s[2] = 64 * s[1] + (rest[2] % 64)
  <2>1. Len(rest) >= 2 => 2 \in 1 .. Len(rest) /\ 2 - 1 = 1
    OBVIOUS
  <2> QED BY <1>1, <2>1
<1>5. Len(rest) >= 3 => s[3] = 64 * s[2] + (rest[3] % 64)
  <2>1. Len(rest) >= 3 => 3 \in 1 .. Len(rest) /\ 3 - 1 = 2
    OBVIOUS
  <2> QED BY <1>1, <2>1
<1>6. Len(rest) >= 1 => rest[1] % 64 \in Nat
  BY <1>2
<1>7. Len(rest) >= 2 => rest[2] % 64 \in Nat
  BY <1>2
<1>8. Len(rest) >= 3 => rest[3] % 64 \in Nat
  BY <1>2
<1>9. ASSUME Len(rest) = 1 PROVE Scalar(lead, rest) = 64 * lead + (rest[1] % 64)
  BY <1>1, <1>3, <1>9
<1>10. ASSUME Len(rest) = 2
       PROVE  Scalar(lead, rest) = 64 * (64 * lead + (rest[1] % 64)) + (rest[2] % 64)
  BY <1>1, <1>3, <1>4, <1>10
<1>11. ASSUME Len(rest) = 3
       PROVE  Scalar(lead, rest) = 64 * (64 * (64 * lead + (rest[1] % 64)) + (rest[2] % 64))
                                   + (rest[3] % 64)
  BY <1>1, <1>3, <1>4, <1>5, <1>11
<1> QED BY <1>9, <1>10, <1>11
-----------------------------------------------------------------------------
(* A character of UTF-8, by the number of its bytes.                        *)
OneByte(a) == a \in 0 .. 127

TwoBytes(a, b) == a \in 194 .. 223 /\ b \in Trail

ThreeBytes(a, b, c) ==
  /\ a \in 224 .. 239 /\ b \in Trail /\ c \in Trail
  /\ a = 224 => b >= 160
  /\ a = 237 => b <= 159

FourBytes(a, b, c, d) ==
  /\ a \in 240 .. 244 /\ b \in Trail /\ c \in Trail /\ d \in Trail
  /\ a = 240 => b >= 144
  /\ a = 244 => b <= 143

Character(part) ==
  \/ Len(part) = 1 /\ OneByte(part[1])
  \/ Len(part) = 2 /\ TwoBytes(part[1], part[2])
  \/ Len(part) = 3 /\ ThreeBytes(part[1], part[2], part[3])
  \/ Len(part) = 4 /\ FourBytes(part[1], part[2], part[3], part[4])

(* A row of the table that a part fits.                                     *)
Fits(row, part) == Len(row) = Len(part) /\ \A i \in DOMAIN part : part[i] \in row[i]

LEMMA FitsRow ==
  ASSUME NEW S, NEW part \in Seq(S), NEW A, NEW B, NEW C, NEW D
  PROVE  /\ Fits(<<A>>, part) <=> Len(part) = 1 /\ part[1] \in A
         /\ Fits(<<A, B>>, part) <=> Len(part) = 2 /\ part[1] \in A /\ part[2] \in B
         /\ Fits(<<A, B, C>>, part) <=>
              Len(part) = 3 /\ part[1] \in A /\ part[2] \in B /\ part[3] \in C
         /\ Fits(<<A, B, C, D>>, part) <=>
              Len(part) = 4 /\ part[1] \in A /\ part[2] \in B /\ part[3] \in C /\ part[4] \in D
<1>1. DOMAIN part = 1 .. Len(part) /\ Len(part) \in Nat
  OBVIOUS
<1>2. Fits(<<A>>, part) <=> Len(part) = 1 /\ part[1] \in A
  <2> DEFINE row == <<A>>
  <2>1. Len(row) = 1 /\ row[1] = A
    OBVIOUS
  <2> HIDE DEF row
  <2>2. Fits(row, part) <=> Len(part) = 1 /\ part[1] \in A
    BY <1>1, <2>1 DEF Fits
  <2> QED BY <2>2 DEF row
<1>3. Fits(<<A, B>>, part) <=> Len(part) = 2 /\ part[1] \in A /\ part[2] \in B
  <2> DEFINE row == <<A, B>>
  <2>1. Len(row) = 2 /\ row[1] = A /\ row[2] = B
    OBVIOUS
  <2> HIDE DEF row
  <2>2. Fits(row, part) <=> Len(part) = 2 /\ part[1] \in A /\ part[2] \in B
    <3>1. \A i \in 1 .. 2 : i = 1 \/ i = 2
      OBVIOUS
    <3> QED BY <1>1, <2>1, <3>1 DEF Fits
  <2> QED BY <2>2 DEF row
<1>4. Fits(<<A, B, C>>, part) <=>
        Len(part) = 3 /\ part[1] \in A /\ part[2] \in B /\ part[3] \in C
  <2> DEFINE row == <<A, B, C>>
  <2>1. Len(row) = 3 /\ row[1] = A /\ row[2] = B /\ row[3] = C
    OBVIOUS
  <2> HIDE DEF row
  <2>2. Fits(row, part) <=> Len(part) = 3 /\ part[1] \in A /\ part[2] \in B /\ part[3] \in C
    <3>1. \A i \in 1 .. 3 : i = 1 \/ i = 2 \/ i = 3
      OBVIOUS
    <3> QED BY <1>1, <2>1, <3>1 DEF Fits
  <2> QED BY <2>2 DEF row
<1>5. Fits(<<A, B, C, D>>, part) <=>
        Len(part) = 4 /\ part[1] \in A /\ part[2] \in B /\ part[3] \in C /\ part[4] \in D
  <2> DEFINE row == <<A, B, C, D>>
  <2>1. Len(row) = 4 /\ row[1] = A /\ row[2] = B /\ row[3] = C /\ row[4] = D
    OBVIOUS
  <2> HIDE DEF row
  <2>2. Fits(row, part) <=>
          Len(part) = 4 /\ part[1] \in A /\ part[2] \in B /\ part[3] \in C /\ part[4] \in D
    <3>1. \A i \in 1 .. 4 : i = 1 \/ i = 2 \/ i = 3 \/ i = 4
      OBVIOUS
    <3> QED BY <1>1, <2>1, <3>1 DEF Fits
  <2> QED BY <2>2 DEF row
<1> QED BY <1>2, <1>3, <1>4, <1>5

LEMMA RowsOfThree ==
  ASSUME NEW a \in Nat, NEW b \in Nat, NEW c \in Nat
  PROVE  ThreeBytes(a, b, c) <=>
           \/ a \in {224} /\ b \in 160 .. 191 /\ c \in Trail
           \/ a \in (225 .. 239) \ {237} /\ b \in Trail /\ c \in Trail
           \/ a \in {237} /\ b \in 128 .. 159 /\ c \in Trail
BY SMT DEF ThreeBytes, Trail

LEMMA RowsOfFour ==
  ASSUME NEW a \in Nat, NEW b \in Nat, NEW c \in Nat, NEW d \in Nat
  PROVE  FourBytes(a, b, c, d) <=>
           \/ a \in {240} /\ b \in 144 .. 191 /\ c \in Trail /\ d \in Trail
           \/ a \in 241 .. 243 /\ b \in Trail /\ c \in Trail /\ d \in Trail
           \/ a \in {244} /\ b \in 128 .. 143 /\ c \in Trail /\ d \in Trail
BY SMT DEF FourBytes, Trail

LEMMA CharacterIs ==
  ASSUME NEW part \in Seq(Octets)
  PROVE  IsCharacter(part) <=> Character(part)
<1> DEFINE F(i) == Fits(WellFormed[i], part)
<1>1. IsCharacter(part) <=> \E i \in DOMAIN WellFormed : F(i)
  BY Zenon DEF IsCharacter, Range, Fits
<1>2. DOMAIN WellFormed = 1 .. 8
  BY DEF WellFormed
<1>3. /\ WellFormed[1] = <<0 .. 127>> /\ WellFormed[2] = <<194 .. 223, Trail>>
      /\ WellFormed[3] = <<{224}, 160 .. 191, Trail>>
      /\ WellFormed[4] = <<(225 .. 239) \ {237}, Trail, Trail>>
      /\ WellFormed[5] = <<{237}, 128 .. 159, Trail>>
      /\ WellFormed[6] = <<{240}, 144 .. 191, Trail, Trail>>
      /\ WellFormed[7] = <<241 .. 243, Trail, Trail, Trail>>
      /\ WellFormed[8] = <<{244}, 128 .. 143, Trail, Trail>>
  BY DEF WellFormed
<1>4. IsCharacter(part) <=> F(1) \/ F(2) \/ F(3) \/ F(4) \/ F(5) \/ F(6) \/ F(7) \/ F(8)
  <2>1. \A i \in 1 .. 8 : i = 1 \/ i = 2 \/ i = 3 \/ i = 4 \/ i = 5 \/ i = 6 \/ i = 7 \/ i = 8
    OBVIOUS
  <2>2. /\ 1 \in 1 .. 8 /\ 2 \in 1 .. 8 /\ 3 \in 1 .. 8 /\ 4 \in 1 .. 8
        /\ 5 \in 1 .. 8 /\ 6 \in 1 .. 8 /\ 7 \in 1 .. 8 /\ 8 \in 1 .. 8
    OBVIOUS
  <2> HIDE DEF F
  <2> QED BY <1>1, <1>2, <2>1, <2>2
<1> DEFINE p(i) == part[i]
<1>5. F(1) <=> Len(part) = 1 /\ p(1) \in 0 .. 127
  <2>1. Fits(<<0 .. 127>>, part)
          <=> Len(part) = 1 /\ p(1) \in 0 .. 127
    BY FitsRow, Zenon
  <2> QED BY <1>3, <2>1
<1>6. F(2) <=> Len(part) = 2 /\ p(1) \in 194 .. 223 /\ p(2) \in Trail
  <2>1. Fits(<<194 .. 223, Trail>>, part)
          <=> Len(part) = 2 /\ p(1) \in 194 .. 223 /\ p(2) \in Trail
    BY FitsRow, Zenon
  <2> QED BY <1>3, <2>1
<1>7. F(3) <=> Len(part) = 3 /\ p(1) \in {224} /\ p(2) \in 160 .. 191 /\ p(3) \in Trail
  <2> DEFINE A == {224}
             B == 160 .. 191
  <2>1. WellFormed[3] = <<A, B, Trail>>
    BY <1>3
  <2> HIDE DEF A, B
  <2>2. F(3) <=> Len(part) = 3 /\ p(1) \in A /\ p(2) \in B /\ p(3) \in Trail
    BY <2>1, FitsRow, Zenon
  <2> QED BY <2>2 DEF A, B
<1>8. F(4) <=> Len(part) = 3 /\ p(1) \in (225 .. 239) \ {237} /\ p(2) \in Trail /\ p(3) \in Trail
  <2> DEFINE A == (225 .. 239) \ {237}
             B == Trail
  <2>1. WellFormed[4] = <<A, B, Trail>>
    BY <1>3
  <2> HIDE DEF A, B
  <2>2. F(4) <=> Len(part) = 3 /\ p(1) \in A /\ p(2) \in B /\ p(3) \in Trail
    BY <2>1, FitsRow, Zenon
  <2> QED BY <2>2 DEF A, B
<1>9. F(5) <=> Len(part) = 3 /\ p(1) \in {237} /\ p(2) \in 128 .. 159 /\ p(3) \in Trail
  <2> DEFINE A == {237}
             B == 128 .. 159
  <2>1. WellFormed[5] = <<A, B, Trail>>
    BY <1>3
  <2> HIDE DEF A, B
  <2>2. F(5) <=> Len(part) = 3 /\ p(1) \in A /\ p(2) \in B /\ p(3) \in Trail
    BY <2>1, FitsRow, Zenon
  <2> QED BY <2>2 DEF A, B
<1>10. F(6) <=> /\ Len(part) = 4 /\ p(1) \in {240} /\ p(2) \in 144 .. 191 /\ p(3) \in Trail
                /\ p(4) \in Trail
  <2> DEFINE A == {240}
             B == 144 .. 191
  <2>1. WellFormed[6] = <<A, B, Trail, Trail>>
    BY <1>3
  <2> HIDE DEF A, B
  <2>2. F(6) <=> Len(part) = 4 /\ p(1) \in A /\ p(2) \in B /\ p(3) \in Trail /\ p(4) \in Trail
    BY <2>1, FitsRow, Zenon
  <2> QED BY <2>2 DEF A, B
<1>11. F(7) <=> /\ Len(part) = 4 /\ p(1) \in 241 .. 243 /\ p(2) \in Trail /\ p(3) \in Trail
                /\ p(4) \in Trail
  <2> DEFINE A == 241 .. 243
             B == Trail
  <2>1. WellFormed[7] = <<A, B, Trail, Trail>>
    BY <1>3
  <2> HIDE DEF A, B
  <2>2. F(7) <=> Len(part) = 4 /\ p(1) \in A /\ p(2) \in B /\ p(3) \in Trail /\ p(4) \in Trail
    BY <2>1, FitsRow, Zenon
  <2> QED BY <2>2 DEF A, B
<1>12. F(8) <=> /\ Len(part) = 4 /\ p(1) \in {244} /\ p(2) \in 128 .. 143 /\ p(3) \in Trail
                /\ p(4) \in Trail
  <2> DEFINE A == {244}
             B == 128 .. 143
  <2>1. WellFormed[8] = <<A, B, Trail, Trail>>
    BY <1>3
  <2> HIDE DEF A, B
  <2>2. F(8) <=> Len(part) = 4 /\ p(1) \in A /\ p(2) \in B /\ p(3) \in Trail /\ p(4) \in Trail
    BY <2>1, FitsRow, Zenon
  <2> QED BY <2>2 DEF A, B
<1> HIDE DEF F
<1>13. \A i \in 1 .. Len(part) : p(i) \in Nat
  <2>1. \A i \in 1 .. Len(part) : p(i) \in Octets
    OBVIOUS
  <2>2. Octets \subseteq Nat
    BY DEF Octets
  <2> QED BY <2>1, <2>2
<1>14. CASE Len(part) = 3
  <2>1. p(1) \in Nat /\ p(2) \in Nat /\ p(3) \in Nat
    BY <1>13, <1>14
  <2>2. Character(part) <=> ThreeBytes(p(1), p(2), p(3))
    BY <1>14, SMT DEF Character
  <2>3. ThreeBytes(p(1), p(2), p(3)) <=> F(3) \/ F(4) \/ F(5)
    <3> DEFINE a == p(1)
               b == p(2)
               c == p(3)
    <3>1. a \in Nat /\ b \in Nat /\ c \in Nat
      BY <2>1
    <3>2. /\ F(3) <=> a \in {224} /\ b \in 160 .. 191 /\ c \in Trail
          /\ F(4) <=> a \in (225 .. 239) \ {237} /\ b \in Trail /\ c \in Trail
          /\ F(5) <=> a \in {237} /\ b \in 128 .. 159 /\ c \in Trail
      BY <1>7, <1>8, <1>9, <1>14
    <3> HIDE DEF a, b, c
    <3>3. ThreeBytes(a, b, c) <=> F(3) \/ F(4) \/ F(5)
      BY <3>1, <3>2, RowsOfThree
    <3> QED BY <3>3 DEF a, b, c
  <2> QED BY <1>4, <1>5, <1>6, <1>10, <1>11, <1>12, <1>14, <2>2, <2>3, SMT
<1>15. CASE Len(part) = 4
  <2>1. p(1) \in Nat /\ p(2) \in Nat /\ p(3) \in Nat /\ p(4) \in Nat
    BY <1>13, <1>15
  <2>2. Character(part) <=> FourBytes(p(1), p(2), p(3), p(4))
    BY <1>15, SMT DEF Character
  <2>3. FourBytes(p(1), p(2), p(3), p(4)) <=> F(6) \/ F(7) \/ F(8)
    <3> DEFINE a == p(1)
               b == p(2)
               c == p(3)
               d == p(4)
    <3>1. a \in Nat /\ b \in Nat /\ c \in Nat /\ d \in Nat
      BY <2>1
    <3>2. /\ F(6) <=> a \in {240} /\ b \in 144 .. 191 /\ c \in Trail /\ d \in Trail
          /\ F(7) <=> a \in 241 .. 243 /\ b \in Trail /\ c \in Trail /\ d \in Trail
          /\ F(8) <=> a \in {244} /\ b \in 128 .. 143 /\ c \in Trail /\ d \in Trail
      BY <1>10, <1>11, <1>12, <1>15
    <3> HIDE DEF a, b, c, d
    <3>3. FourBytes(a, b, c, d) <=> F(6) \/ F(7) \/ F(8)
      BY <3>1, <3>2, RowsOfFour
    <3> QED BY <3>3 DEF a, b, c, d
  <2> QED BY <1>4, <1>5, <1>6, <1>7, <1>8, <1>9, <1>15, <2>2, <2>3, SMT
<1>16. CASE Len(part) # 3 /\ Len(part) # 4
  BY <1>4, <1>5, <1>6, <1>7, <1>8, <1>9, <1>10, <1>11, <1>12, <1>16, SMT
     DEF Character, OneByte, TwoBytes
<1> QED BY <1>14, <1>15, <1>16

(* The number of a character, by the number of its bytes: the bounds of the *)
(* scalar are those of the bytes.                                           *)
Scalars(needed, value) ==
  LeastScalar[needed] <= value /\ value <= 1114111 /\ value \notin 55296 .. 57343

LEMMA ScalarOfTwo ==
  ASSUME NEW a \in 194 .. 223, NEW b \in 128 .. 191
  PROVE  Scalars(2, 64 * (a % 32) + (b % 64))
<1>1. a % 32 = a - 192 /\ b % 64 = b - 128
  BY SMT
<1>2. LeastScalar[2] = 128
  BY SMT DEF LeastScalar
<1> QED BY <1>1, <1>2, SMT DEF Scalars

LEMMA ScalarOfThree ==
  ASSUME NEW a \in 224 .. 239, NEW b \in 128 .. 191, NEW c \in 128 .. 191
  PROVE  Scalars(3, 64 * (64 * (a % 16) + (b % 64)) + (c % 64))
           <=> (a = 224 => b >= 160) /\ (a = 237 => b <= 159)
<1>1. a % 16 = a - 224 /\ b % 64 = b - 128 /\ c % 64 = c - 128
  BY SMT
<1>2. LeastScalar[3] = 2048
  BY SMT DEF LeastScalar
<1> QED BY <1>1, <1>2, SMT DEF Scalars

LEMMA ScalarOfFour ==
  ASSUME NEW a \in 240 .. 244, NEW b \in 128 .. 191, NEW c \in 128 .. 191, NEW d \in 128 .. 191
  PROVE  Scalars(4, 64 * (64 * (64 * (a % 8) + (b % 64)) + (c % 64)) + (d % 64))
           <=> (a = 240 => b >= 144) /\ (a = 244 => b <= 143)
<1>1. a % 8 = a - 240 /\ b % 64 = b - 128 /\ c % 64 = c - 128 /\ d % 64 = d - 128
  BY SMT
<1>2. LeastScalar[4] = 65536
  BY SMT DEF LeastScalar
<1> QED BY <1>1, <1>2, SMT DEF Scalars
-----------------------------------------------------------------------------
LEMMA LengthIs ==
  ASSUME NEW a \in Nat
  PROVE  /\ a < 128 => Utf8Length(a) = 1
         /\ a \in 194 .. 223 => Utf8Length(a) = 2
         /\ a \in 224 .. 239 => Utf8Length(a) = 3
         /\ a \in 240 .. 244 => Utf8Length(a) = 4
         /\ ~ (a < 128 \/ a \in 194 .. 244) => Utf8Length(a) = 0
BY SMT DEF Utf8Length

(* The bytes behind the first.                                              *)
RestOf(text, pos, k) == SubSeq(text, pos + 1, pos + k - 1)

IsRest(text, pos, k, rest) ==
  /\ rest \in Seq(Octets) /\ Len(rest) = k - 1
  /\ \A i \in 1 .. k - 1 : rest[i] = text[pos + i] /\ text[pos + i] \in Octets
  /\ Range(rest) \subseteq 128 .. 191 <=> \A i \in 1 .. k - 1 : text[pos + i] \in 128 .. 191

LEMMA RestFacts ==
  ASSUME NEW text \in Seq(Octets), NEW pos \in 1 .. Len(text), NEW k \in 2 .. 4,
         pos + k - 1 <= Len(text)
  PROVE  IsRest(text, pos, k, RestOf(text, pos, k))
<1> DEFINE rest == RestOf(text, pos, k)
<1>1. Len(text) \in Nat /\ pos + 1 \in 1 .. Len(text) /\ pos + k - 1 \in 1 .. Len(text)
  OBVIOUS
<1>2. rest \in Seq(Octets) /\ Len(rest) = k - 1
  <2>1. rest \in Seq(Octets)
    BY <1>1, SubSeqProperties DEF RestOf
  <2>2. Len(rest) = (pos + k - 1) - (pos + 1) + 1
    BY <1>1, SubSeqProperties DEF RestOf
  <2> QED BY <2>1, <2>2
<1>3. \A i \in 1 .. k - 1 : rest[i] = text[pos + i] /\ text[pos + i] \in Octets
  <2> TAKE i \in 1 .. k - 1
  <2>1. rest[i] = text[pos + i]
    <3>1. i \in 1 .. (pos + k - 1) - (pos + 1) + 1
      BY <1>1
    <3>2. rest[i] = text[(pos + 1) + i - 1]
      <4>1. \A j \in (pos + 1) .. (pos + k - 1) : text[j] \in Octets
        BY <1>1
      <4>2. pos + 1 \in Int /\ pos + k - 1 \in Int
        OBVIOUS
      <4>3. \A j \in 1 .. (pos + k - 1) - (pos + 1) + 1 :
              SubSeq(text, pos + 1, pos + k - 1)[j] = text[(pos + 1) + j - 1]
        BY <4>1, <4>2, SubSeqProperties
      <4> QED BY <3>1, <4>3, Zenon DEF RestOf
    <3>3. (pos + 1) + i - 1 = pos + i
      OBVIOUS
    <3> QED BY <3>2, <3>3
  <2>2. pos + 1 + i - 1 = pos + i /\ pos + i \in 1 .. Len(text)
    BY <1>1
  <2> QED BY <2>1, <2>2
<1> HIDE DEF rest
<1>4. Range(rest) = {rest[i] : i \in 1 .. k - 1}
  <2>1. DOMAIN rest = 1 .. k - 1
    BY <1>2
  <2> QED BY <2>1 DEF Range
<1>5. Range(rest) \subseteq 128 .. 191 <=> \A i \in 1 .. k - 1 : text[pos + i] \in 128 .. 191
  <2> DEFINE B == 128 .. 191
  <2> HIDE DEF B
  <2>1. Range(rest) \subseteq B <=> \A i \in 1 .. k - 1 : text[pos + i] \in B
    BY <1>3, <1>4
  <2> QED BY <2>1 DEF B
<1> QED BY <1>2, <1>3, <1>5 DEF rest, IsRest

(* What Utf8Next asks of a character of several bytes.                      *)
Encodes(text, pos, k) ==
  /\ pos + k - 1 <= Len(text) /\ Range(RestOf(text, pos, k)) \subseteq 128 .. 191
  /\ Scalars(k, Scalar(text[pos] % LeadValues[k], RestOf(text, pos, k)))

LEMMA NextIs ==
  ASSUME NEW text, NEW pos \in Nat, NEW needed \in 0 .. 4, Utf8Length(text[pos]) = needed
  PROVE  Utf8Next(text, pos) =
           IF needed <= 1 THEN needed * (pos + 1)
           ELSE IF Encodes(text, pos, needed) THEN pos + needed ELSE 0
BY SMT DEF Utf8Next, Encodes, Scalars, RestOf

LEMMA EncodesTwo ==
  ASSUME NEW text \in Seq(Octets), NEW pos \in 1 .. Len(text), text[pos] \in 194 .. 223,
         pos + 1 <= Len(text)
  PROVE  Encodes(text, pos, 2) <=> TwoBytes(text[pos], text[pos + 1])
<1> DEFINE a == text[pos]
           b == text[pos + 1]
           rest == RestOf(text, pos, 2)
<1>1. /\ rest \in Seq(Octets) /\ Len(rest) = 1 /\ rest[1] = b
      /\ Range(rest) \subseteq 128 .. 191 <=> b \in 128 .. 191
  <2>1. IsRest(text, pos, 2, rest)
    <3>1. 2 \in 2 .. 4 /\ pos + 2 - 1 <= Len(text)
      OBVIOUS
    <3> QED BY <3>1, RestFacts
  <2>2. 1 \in 1 .. 2 - 1 /\ 2 - 1 = 1
    OBVIOUS
  <2> HIDE DEF rest
  <2>3. rest \in Seq(Octets) /\ Len(rest) = 1 /\ rest[1] = b
    BY <2>1, <2>2 DEF IsRest
  <2>4. Range(rest) \subseteq 128 .. 191 <=> b \in 128 .. 191
    <3>1. Range(rest) \subseteq 128 .. 191 <=> \A i \in 1 .. 2 - 1 : text[pos + i] \in 128 .. 191
      BY <2>1 DEF IsRest
    <3> DEFINE B == 128 .. 191
    <3> HIDE DEF B
    <3>2. (\A i \in 1 .. 2 - 1 : text[pos + i] \in B) <=> b \in B
      OBVIOUS
    <3> QED BY <3>1, <3>2 DEF B
  <2> QED BY <2>3, <2>4
<1>2. LeadValues[2] = 32
  BY DEF LeadValues
<1>3. a \in 194 .. 223 /\ a % 32 \in Nat
  <2>1. a \in 194 .. 223
    OBVIOUS
  <2> HIDE DEF a
  <2> QED BY <2>1
<1>4. Encodes(text, pos, 2) <=> b \in 128 .. 191 /\ Scalars(2, Scalar(a % 32, rest))
  BY <1>1, <1>2 DEF Encodes
<1> HIDE DEF rest
<1>5. Scalar(a % 32, rest) = 64 * (a % 32) + (b % 64)
  BY <1>1, <1>3, ScalarsOf
<1> HIDE DEF a, b
<1>6. b \in 128 .. 191 => Scalars(2, 64 * (a % 32) + (b % 64))
  BY <1>3, ScalarOfTwo
<1>7. Encodes(text, pos, 2) <=> TwoBytes(a, b)
  BY <1>3, <1>4, <1>5, <1>6 DEF TwoBytes, Trail
<1> QED BY <1>7 DEF a, b

LEMMA EncodesThree ==
  ASSUME NEW text \in Seq(Octets), NEW pos \in 1 .. Len(text), text[pos] \in 224 .. 239,
         pos + 2 <= Len(text)
  PROVE  Encodes(text, pos, 3) <=> ThreeBytes(text[pos], text[pos + 1], text[pos + 2])
<1> DEFINE a == text[pos]
           b == text[pos + 1]
           c == text[pos + 2]
           rest == RestOf(text, pos, 3)
<1>1. /\ rest \in Seq(Octets) /\ Len(rest) = 2 /\ rest[1] = b /\ rest[2] = c
      /\ Range(rest) \subseteq 128 .. 191 <=> b \in 128 .. 191 /\ c \in 128 .. 191
  <2>1. IsRest(text, pos, 3, rest)
    <3>1. 3 \in 2 .. 4 /\ pos + 3 - 1 <= Len(text)
      OBVIOUS
    <3> QED BY <3>1, RestFacts
  <2>2. 1 \in 1 .. 3 - 1 /\ 2 \in 1 .. 3 - 1 /\ 3 - 1 = 2
    OBVIOUS
  <2> HIDE DEF rest
  <2>3. rest \in Seq(Octets) /\ Len(rest) = 2 /\ rest[1] = b /\ rest[2] = c
    BY <2>1, <2>2 DEF IsRest
  <2>4. Range(rest) \subseteq 128 .. 191 <=> b \in 128 .. 191 /\ c \in 128 .. 191
    <3>1. Range(rest) \subseteq 128 .. 191 <=> \A i \in 1 .. 3 - 1 : text[pos + i] \in 128 .. 191
      BY <2>1 DEF IsRest
    <3> DEFINE B == 128 .. 191
    <3> HIDE DEF B
    <3>2. (\A i \in 1 .. 3 - 1 : text[pos + i] \in B) <=> b \in B /\ c \in B
      OBVIOUS
    <3> QED BY <3>1, <3>2 DEF B
  <2> QED BY <2>3, <2>4
<1>2. LeadValues[3] = 16
  BY DEF LeadValues
<1>3. a \in 224 .. 239 /\ a % 16 \in Nat
  <2>1. a \in 224 .. 239
    OBVIOUS
  <2> HIDE DEF a
  <2> QED BY <2>1
<1>4. Encodes(text, pos, 3) <=>
        b \in 128 .. 191 /\ c \in 128 .. 191 /\ Scalars(3, Scalar(a % 16, rest))
  <2>1. pos + 3 - 1 <= Len(text)
    OBVIOUS
  <2> QED BY <1>1, <1>2, <2>1 DEF Encodes
<1> HIDE DEF rest
<1>5. Scalar(a % 16, rest) = 64 * (64 * (a % 16) + (b % 64)) + (c % 64)
  BY <1>1, <1>3, ScalarsOf
<1> HIDE DEF a, b, c
<1>6. b \in 128 .. 191 /\ c \in 128 .. 191 =>
        (Scalars(3, 64 * (64 * (a % 16) + (b % 64)) + (c % 64))
           <=> (a = 224 => b >= 160) /\ (a = 237 => b <= 159))
  BY <1>3, ScalarOfThree
<1>7. Encodes(text, pos, 3) <=> ThreeBytes(a, b, c)
  BY <1>3, <1>4, <1>5, <1>6 DEF ThreeBytes, Trail
<1> QED BY <1>7 DEF a, b, c

LEMMA EncodesFour ==
  ASSUME NEW text \in Seq(Octets), NEW pos \in 1 .. Len(text), text[pos] \in 240 .. 244,
         pos + 3 <= Len(text)
  PROVE  Encodes(text, pos, 4) <=>
           FourBytes(text[pos], text[pos + 1], text[pos + 2], text[pos + 3])
<1> DEFINE a == text[pos]
           b == text[pos + 1]
           c == text[pos + 2]
           d == text[pos + 3]
           rest == RestOf(text, pos, 4)
<1>1. /\ rest \in Seq(Octets) /\ Len(rest) = 3
      /\ rest[1] = b /\ rest[2] = c /\ rest[3] = d
      /\ Range(rest) \subseteq 128 .. 191 <=>
           b \in 128 .. 191 /\ c \in 128 .. 191 /\ d \in 128 .. 191
  <2>1. IsRest(text, pos, 4, rest)
    <3>1. 4 \in 2 .. 4 /\ pos + 4 - 1 <= Len(text)
      OBVIOUS
    <3> QED BY <3>1, RestFacts
  <2>2. 1 \in 1 .. 4 - 1 /\ 2 \in 1 .. 4 - 1 /\ 3 \in 1 .. 4 - 1 /\ 4 - 1 = 3
    OBVIOUS
  <2> HIDE DEF rest
  <2>3. rest \in Seq(Octets) /\ Len(rest) = 3 /\ rest[1] = b /\ rest[2] = c /\ rest[3] = d
    BY <2>1, <2>2 DEF IsRest
  <2>4. Range(rest) \subseteq 128 .. 191 <=> b \in 128 .. 191 /\ c \in 128 .. 191 /\ d \in 128 .. 191
    <3>1. Range(rest) \subseteq 128 .. 191 <=> \A i \in 1 .. 4 - 1 : text[pos + i] \in 128 .. 191
      BY <2>1 DEF IsRest
    <3> DEFINE B == 128 .. 191
    <3> HIDE DEF B
    <3>2. (\A i \in 1 .. 4 - 1 : text[pos + i] \in B) <=> b \in B /\ c \in B /\ d \in B
      OBVIOUS
    <3> QED BY <3>1, <3>2 DEF B
  <2> QED BY <2>3, <2>4
<1>2. LeadValues[4] = 8
  BY DEF LeadValues
<1>3. a \in 240 .. 244 /\ a % 8 \in Nat
  <2>1. a \in 240 .. 244
    OBVIOUS
  <2> HIDE DEF a
  <2> QED BY <2>1
<1>4. Encodes(text, pos, 4) <=>
        /\ b \in 128 .. 191 /\ c \in 128 .. 191 /\ d \in 128 .. 191
        /\ Scalars(4, Scalar(a % 8, rest))
  <2>1. pos + 4 - 1 <= Len(text)
    OBVIOUS
  <2> QED BY <1>1, <1>2, <2>1 DEF Encodes
<1> HIDE DEF rest
<1>5. Scalar(a % 8, rest) = 64 * (64 * (64 * (a % 8) + (b % 64)) + (c % 64)) + (d % 64)
  BY <1>1, <1>3, ScalarsOf
<1> HIDE DEF a, b, c, d
<1>6. b \in 128 .. 191 /\ c \in 128 .. 191 /\ d \in 128 .. 191 =>
        (Scalars(4, 64 * (64 * (64 * (a % 8) + (b % 64)) + (c % 64)) + (d % 64))
           <=> (a = 240 => b >= 144) /\ (a = 244 => b <= 143))
  BY <1>3, ScalarOfFour
<1>7. Encodes(text, pos, 4) <=> FourBytes(a, b, c, d)
  BY <1>3, <1>4, <1>5, <1>6 DEF FourBytes, Trail
<1> QED BY <1>7 DEF a, b, c, d

(* A character ends where Utf8Next says, and nowhere else. *)
LEMMA PartFacts ==
  ASSUME NEW text \in Seq(Octets), NEW pos \in 1 .. Len(text), NEW e \in pos .. Len(text)
  PROVE  LET part == SubSeq(text, pos, e)
         IN /\ part \in Seq(Octets) /\ Len(part) = e - pos + 1
            /\ \A i \in 1 .. e - pos + 1 : part[i] = text[pos + i - 1]
<1>1. pos \in Int /\ e \in Int /\ \A j \in pos .. e : text[j] \in Octets
  OBVIOUS
<1>2. \A i \in 1 .. e - pos + 1 : SubSeq(text, pos, e)[i] = text[pos + i - 1]
  BY <1>1, SubSeqProperties
<1>3. SubSeq(text, pos, e) \in Seq(Octets) /\ Len(SubSeq(text, pos, e)) = e - pos + 1
  BY <1>1, SubSeqProperties
<1> QED BY <1>2, <1>3

(* What may follow a first byte.                                            *)
LEMMA KindOfFirst ==
  ASSUME NEW a \in Nat, NEW b, NEW c, NEW d
  PROVE  /\ OneByte(a) <=> a < 128
         /\ TwoBytes(a, b) => a \in 194 .. 223
         /\ ThreeBytes(a, b, c) => a \in 224 .. 239
         /\ FourBytes(a, b, c, d) => a \in 240 .. 244
<1>1. OneByte(a) <=> a < 128
  BY DEF OneByte
<1>2. TwoBytes(a, b) => a \in 194 .. 223
  BY Zenon DEF TwoBytes
<1>3. ThreeBytes(a, b, c) => a \in 224 .. 239
  BY Zenon DEF ThreeBytes
<1>4. FourBytes(a, b, c, d) => a \in 240 .. 244
  BY Zenon DEF FourBytes
<1> QED BY <1>1, <1>2, <1>3, <1>4

LEMMA ByFirst ==
  ASSUME NEW part, NEW a \in Nat, part[1] = a
  PROVE  /\ a < 128 => (Character(part) <=> Len(part) = 1)
         /\ a \in 194 .. 223 =>
              (Character(part) <=> Len(part) = 2 /\ TwoBytes(part[1], part[2]))
         /\ a \in 224 .. 239 =>
              (Character(part) <=> Len(part) = 3 /\ ThreeBytes(part[1], part[2], part[3]))
         /\ a \in 240 .. 244 =>
              (Character(part) <=>
                 Len(part) = 4 /\ FourBytes(part[1], part[2], part[3], part[4]))
         /\ ~ (a < 128 \/ a \in 194 .. 244) => ~ Character(part)
<1> DEFINE One == OneByte(part[1])
           Two == TwoBytes(part[1], part[2])
           Three == ThreeBytes(part[1], part[2], part[3])
           Four == FourBytes(part[1], part[2], part[3], part[4])
<1>1. /\ One <=> a < 128
      /\ Two => a \in 194 .. 223
      /\ Three => a \in 224 .. 239
      /\ Four => a \in 240 .. 244
  <2>1. /\ OneByte(a) <=> a < 128
        /\ TwoBytes(a, part[2]) => a \in 194 .. 223
        /\ ThreeBytes(a, part[2], part[3]) => a \in 224 .. 239
        /\ FourBytes(a, part[2], part[3], part[4]) => a \in 240 .. 244
    <3> DEFINE b == part[2]
               c == part[3]
               d == part[4]
    <3> HIDE DEF b, c, d
    <3>1. /\ OneByte(a) <=> a < 128
          /\ TwoBytes(a, b) => a \in 194 .. 223
          /\ ThreeBytes(a, b, c) => a \in 224 .. 239
          /\ FourBytes(a, b, c, d) => a \in 240 .. 244
      BY KindOfFirst
    <3> QED BY <3>1 DEF b, c, d
  <2> QED BY <2>1, Zenon
<1>2. Character(part) <=> \/ Len(part) = 1 /\ One
                          \/ Len(part) = 2 /\ Two
                          \/ Len(part) = 3 /\ Three
                          \/ Len(part) = 4 /\ Four
  BY Zenon DEF Character
<1> HIDE DEF One, Two, Three, Four
<1>3. /\ a < 128 => (Character(part) <=> Len(part) = 1)
      /\ a \in 194 .. 223 => (Character(part) <=> Len(part) = 2 /\ Two)
      /\ a \in 224 .. 239 => (Character(part) <=> Len(part) = 3 /\ Three)
      /\ a \in 240 .. 244 => (Character(part) <=> Len(part) = 4 /\ Four)
      /\ ~ (a < 128 \/ a \in 194 .. 244) => ~ Character(part)
  <2>1. /\ a \in 194 .. 223 <=> a >= 194 /\ a <= 223
        /\ a \in 224 .. 239 <=> a >= 224 /\ a <= 239
        /\ a \in 240 .. 244 <=> a >= 240 /\ a <= 244
        /\ a \in 194 .. 244 <=> a >= 194 /\ a <= 244
    OBVIOUS
  <2>2. /\ ~ (a < 128 /\ a >= 194) /\ ~ (a < 128 /\ a >= 224) /\ ~ (a < 128 /\ a >= 240)
        /\ ~ (a <= 223 /\ a >= 224) /\ ~ (a <= 223 /\ a >= 240) /\ ~ (a <= 239 /\ a >= 240)
        /\ (a >= 224 => a >= 194) /\ (a >= 240 => a >= 194)
        /\ (a <= 223 => a <= 244) /\ (a <= 239 => a <= 244)
    OBVIOUS
  <2> QED BY <1>1, <1>2, <2>1, <2>2
<1> QED BY <1>3 DEF One, Two, Three, Four

LEMMA CharacterEnds ==
  ASSUME NEW text \in Seq(Octets), NEW pos \in 1 .. Len(text), NEW e \in pos .. Len(text)
  PROVE  Utf8Next(text, pos) = e + 1 <=> Character(SubSeq(text, pos, e))
<1> DEFINE part == SubSeq(text, pos, e)
<1>1. pos \in Nat /\ e \in Nat /\ Len(text) \in Nat /\ pos <= e /\ e <= Len(text) /\ pos >= 1
  OBVIOUS
<1>2. /\ Len(part) = e - pos + 1
      /\ \A i \in 1 .. e - pos + 1 : part[i] = text[pos + i - 1]
  BY PartFacts
<1>3. PICK a \in Nat : text[pos] = a
  <2>1. text[pos] \in Octets
    OBVIOUS
  <2>2. Octets \subseteq Nat
    BY DEF Octets
  <2> QED BY <2>1, <2>2
<1> HIDE DEF part
<1>4. /\ part[1] = text[pos]
      /\ Len(part) >= 2 => part[2] = text[pos + 1]
      /\ Len(part) >= 3 => part[3] = text[pos + 2]
      /\ Len(part) >= 4 => part[4] = text[pos + 3]
  <2>1. part[1] = text[pos + 1 - 1] /\ pos + 1 - 1 = pos
    BY <1>1, <1>2
  <2>2. e - pos + 1 >= 2 => part[2] = text[pos + 2 - 1] /\ pos + 2 - 1 = pos + 1
    BY <1>1, <1>2
  <2>3. e - pos + 1 >= 3 => part[3] = text[pos + 3 - 1] /\ pos + 3 - 1 = pos + 2
    BY <1>1, <1>2
  <2>4. e - pos + 1 >= 4 => part[4] = text[pos + 4 - 1] /\ pos + 4 - 1 = pos + 3
    BY <1>1, <1>2
  <2> QED BY <1>2, <2>1, <2>2, <2>3, <2>4
<1>5. /\ part[1] = a
      /\ a < 128 => (Character(part) <=> Len(part) = 1)
      /\ a \in 194 .. 223 =>
           (Character(part) <=> Len(part) = 2 /\ TwoBytes(part[1], part[2]))
      /\ a \in 224 .. 239 =>
           (Character(part) <=> Len(part) = 3 /\ ThreeBytes(part[1], part[2], part[3]))
      /\ a \in 240 .. 244 =>
           (Character(part) <=>
              Len(part) = 4 /\ FourBytes(part[1], part[2], part[3], part[4]))
      /\ ~ (a < 128 \/ a \in 194 .. 244) => ~ Character(part)
  BY <1>3, <1>4, ByFirst
<1>6. CASE a < 128
  <2>1. Utf8Next(text, pos) = pos + 1
    <3>1. Utf8Length(text[pos]) = 1 /\ 1 \in 0 .. 4
      BY <1>3, <1>6, LengthIs
    <3>2. Utf8Next(text, pos) = IF 1 <= 1 THEN 1 * (pos + 1)
                                ELSE IF Encodes(text, pos, 1) THEN pos + 1 ELSE 0
      BY <1>1, <3>1, NextIs
    <3> QED BY <1>1, <3>2
  <2>2. Character(part) <=> Len(part) = 1
    BY <1>5, <1>6
  <2> QED BY <1>1, <1>2, <2>1, <2>2 DEF part
<1>7. CASE a \in 194 .. 223
  <2>1. Utf8Next(text, pos) = IF Encodes(text, pos, 2) THEN pos + 2 ELSE 0
    <3>1. Utf8Length(text[pos]) = 2 /\ 2 \in 0 .. 4
      BY <1>3, <1>7, LengthIs
    <3>2. Utf8Next(text, pos) = IF 2 <= 1 THEN 2 * (pos + 1)
                                ELSE IF Encodes(text, pos, 2) THEN pos + 2 ELSE 0
      BY <1>1, <3>1, NextIs
    <3> QED BY <3>2
  <2> DEFINE Ours == TwoBytes(text[pos], text[pos + 1])
  <2>2. pos + 1 <= Len(text) => (Encodes(text, pos, 2) <=> Ours)
    BY <1>3, <1>7, EncodesTwo
  <2>3. Encodes(text, pos, 2) => pos + 1 <= Len(text)
    BY <1>1 DEF Encodes
  <2>4. Character(part) <=> Len(part) = 2 /\ Ours
    <3>1. Len(part) = 2 => part[1] = text[pos] /\ part[2] = text[pos + 1]
      BY <1>4
    <3>2. Character(part) <=> Len(part) = 2 /\ TwoBytes(part[1], part[2])
      BY <1>5, <1>7
    <3> QED BY <3>1, <3>2, Zenon
  <2> HIDE DEF Ours
  <2>5. pos + 2 = e + 1 <=> Len(part) = 2
    BY <1>1, <1>2
  <2>6. pos + 2 = e + 1 => pos + 1 <= Len(text)
    BY <1>1
  <2>7. e + 1 # 0
    BY <1>1
  <2> QED BY <2>1, <2>2, <2>3, <2>4, <2>5, <2>6, <2>7 DEF part
<1>8. CASE a \in 224 .. 239
  <2>1. Utf8Next(text, pos) = IF Encodes(text, pos, 3) THEN pos + 3 ELSE 0
    <3>1. Utf8Length(text[pos]) = 3 /\ 3 \in 0 .. 4
      BY <1>3, <1>8, LengthIs
    <3>2. Utf8Next(text, pos) = IF 3 <= 1 THEN 3 * (pos + 1)
                                ELSE IF Encodes(text, pos, 3) THEN pos + 3 ELSE 0
      BY <1>1, <3>1, NextIs
    <3> QED BY <3>2
  <2> DEFINE Ours == ThreeBytes(text[pos], text[pos + 1], text[pos + 2])
  <2>2. pos + 2 <= Len(text) => (Encodes(text, pos, 3) <=> Ours)
    BY <1>3, <1>8, EncodesThree
  <2>3. Encodes(text, pos, 3) => pos + 2 <= Len(text)
    BY <1>1 DEF Encodes
  <2>4. Character(part) <=> Len(part) = 3 /\ Ours
    <3>1. Len(part) = 3 => part[1] = text[pos] /\ part[2] = text[pos + 1] /\ part[3] = text[pos + 2]
      BY <1>4
    <3>2. Character(part) <=> Len(part) = 3 /\ ThreeBytes(part[1], part[2], part[3])
      BY <1>5, <1>8
    <3> QED BY <3>1, <3>2, Zenon
  <2> HIDE DEF Ours
  <2>5. pos + 3 = e + 1 <=> Len(part) = 3
    BY <1>1, <1>2
  <2>6. pos + 3 = e + 1 => pos + 2 <= Len(text)
    BY <1>1
  <2>7. e + 1 # 0
    BY <1>1
  <2> QED BY <2>1, <2>2, <2>3, <2>4, <2>5, <2>6, <2>7 DEF part
<1>9. CASE a \in 240 .. 244
  <2>1. Utf8Next(text, pos) = IF Encodes(text, pos, 4) THEN pos + 4 ELSE 0
    <3>1. Utf8Length(text[pos]) = 4 /\ 4 \in 0 .. 4
      BY <1>3, <1>9, LengthIs
    <3>2. Utf8Next(text, pos) = IF 4 <= 1 THEN 4 * (pos + 1)
                                ELSE IF Encodes(text, pos, 4) THEN pos + 4 ELSE 0
      BY <1>1, <3>1, NextIs
    <3> QED BY <3>2
  <2> DEFINE Ours == FourBytes(text[pos], text[pos + 1], text[pos + 2], text[pos + 3])
  <2>2. pos + 3 <= Len(text) => (Encodes(text, pos, 4) <=> Ours)
    BY <1>3, <1>9, EncodesFour
  <2>3. Encodes(text, pos, 4) => pos + 3 <= Len(text)
    BY <1>1 DEF Encodes
  <2>4. Character(part) <=> Len(part) = 4 /\ Ours
    <3>1. Len(part) = 4 => part[1] = text[pos] /\ part[2] = text[pos + 1] /\ part[3] = text[pos + 2] /\ part[4] = text[pos + 3]
      BY <1>4
    <3>2. Character(part) <=> Len(part) = 4 /\ FourBytes(part[1], part[2], part[3], part[4])
      BY <1>5, <1>9
    <3> QED BY <3>1, <3>2, Zenon
  <2> HIDE DEF Ours
  <2>5. pos + 4 = e + 1 <=> Len(part) = 4
    BY <1>1, <1>2
  <2>6. pos + 4 = e + 1 => pos + 3 <= Len(text)
    BY <1>1
  <2>7. e + 1 # 0
    BY <1>1
  <2> QED BY <2>1, <2>2, <2>3, <2>4, <2>5, <2>6, <2>7 DEF part
<1>10. CASE ~ (a < 128 \/ a \in 194 .. 244)
  <2>1. Utf8Next(text, pos) = 0
    <3>1. Utf8Length(text[pos]) = 0 /\ 0 \in 0 .. 4
      BY <1>3, <1>10, LengthIs
    <3>2. Utf8Next(text, pos) = IF 0 <= 1 THEN 0 * (pos + 1)
                                ELSE IF Encodes(text, pos, 0) THEN pos + 0 ELSE 0
      BY <1>1, <3>1, NextIs
    <3> QED BY <1>1, <3>2
  <2>2. ~ Character(part)
    BY <1>5, <1>10
  <2>3. 0 # e + 1
    BY <1>1
  <2> QED BY <2>1, <2>2, <2>3 DEF part
<1>11. a < 128 \/ a \in 194 .. 223 \/ a \in 224 .. 239 \/ a \in 240 .. 244
       \/ ~ (a < 128 \/ a \in 194 .. 244)
  OBVIOUS
<1> QED BY <1>6, <1>7, <1>8, <1>9, <1>10, <1>11

LEMMA NextRange ==
  ASSUME NEW text \in Seq(Octets), NEW pos \in 1 .. Len(text)
  PROVE  Utf8Next(text, pos) = 0 \/ Utf8Next(text, pos) \in pos + 1 .. Len(text) + 1
<1> DEFINE a == text[pos]
<1>1. pos \in Nat /\ Len(text) \in Nat /\ pos <= Len(text)
  OBVIOUS
<1>2. a \in Nat
  <2>1. a \in Octets
    OBVIOUS
  <2>2. Octets \subseteq Nat
    BY DEF Octets
  <2> QED BY <2>1, <2>2
<1>3. PICK needed \in 0 .. 4 : Utf8Length(a) = needed
  <2> HIDE DEF a
  <2> QED BY <1>2, SMT DEF Utf8Length
<1>4. Utf8Next(text, pos) =
        IF needed <= 1 THEN needed * (pos + 1)
        ELSE IF Encodes(text, pos, needed) THEN pos + needed ELSE 0
  BY <1>1, <1>3, NextIs
<1>5. Encodes(text, pos, needed) => pos + needed - 1 <= Len(text)
  BY DEF Encodes
<1>6. needed = 0 \/ needed = 1 \/ needed \in 2 .. 4
  OBVIOUS
<1> QED BY <1>1, <1>4, <1>5, <1>6

-----------------------------------------------------------------------------
(* The loop over a text, and where it is after each turn.                   *)
Stepped(text, at) == IF at \in DOMAIN text THEN Utf8Next(text, at) ELSE at

ValidFolds(h, text) ==
  h = [t \in SUBSET DOMAIN text |->
         IF t = {} THEN 1
         ELSE LET x == Max(t)
              IN IF h[t \ {x}] \in DOMAIN text THEN Utf8Next(text, h[t \ {x}]) ELSE h[t \ {x}]]

LEMMA ValidIsFold ==
  ASSUME NEW text
  PROVE  Utf8Valid(text) <=> Len(text) + 1 = (CHOOSE h : ValidFolds(h, text))[DOMAIN text]
<1>1. FoldLeft(LAMBDA at, b : IF at \in DOMAIN text THEN Utf8Next(text, at) ELSE at, 1, text)
        = (CHOOSE h : ValidFolds(h, text))[DOMAIN text]
  BY Zenon DEF FoldLeft, MapThenFoldSet, ValidFolds
<1> QED BY <1>1, Zenon DEF Utf8Valid

Walks(p, text) ==
  /\ p \in [0 .. Len(text) -> 0 .. Len(text) + 1] /\ p[0] = 1
  /\ \A k \in 1 .. Len(text) : p[k] = Stepped(text, p[k - 1])

LEMMA ValidHasStates ==
  ASSUME NEW text \in Seq(Octets)
  PROVE  \E p : Walks(p, text) /\ (Utf8Valid(text) <=> p[Len(text)] = Len(text) + 1)
<1> DEFINE n == Len(text)
           A == 0 .. n + 1
           turn == [p \in A \X (1 .. n) |-> Stepped(text, p[1])]
<1>1. n \in Nat /\ DOMAIN text = 1 .. n
  OBVIOUS
<1>2. ASSUME NEW a \in 1 .. n
      PROVE  Utf8Next(text, a) = 0 \/ Utf8Next(text, a) \in a + 1 .. n + 1
  BY NextRange
<1> HIDE DEF n
<1>3. ASSUME NEW a \in A, NEW i \in 1 .. n
      PROVE  turn[<<a, i>>] = Stepped(text, a) /\ turn[<<a, i>>] \in A
  <2>1. Stepped(text, a) \in A
    <3>1. CASE a \in 1 .. n
      BY <1>1, <1>2, <3>1 DEF Stepped
    <3>2. CASE a \notin 1 .. n
      BY <1>1, <3>2 DEF Stepped
    <3> QED BY <3>1, <3>2
  <2> QED BY <2>1
<1>4. 1 \in A
  BY <1>1
<1> HIDE DEF turn, A
<1>5. StepsIn(A, turn, n)
  BY <1>3 DEF StepsIn
<1>6. PICK h : Folds(h, A, 1, turn, n)
  BY <1>1, <1>4, <1>5, FoldExists
<1>7. ASSUME NEW t \in SUBSET (1 .. n)
      PROVE  h[t] = IF t = {} THEN 1 ELSE Stepped(text, h[t \ {Max(t)}])
  <2>1. CASE t = {}
    BY <1>6, <2>1 DEF Folds
  <2>2. CASE t # {}
    <3>1. Max(t) \in 1 .. n /\ t \ {Max(t)} \in SUBSET (1 .. n)
      BY <1>1, <2>2, MaxOfPlaces
    <3>2. h[t \ {Max(t)}] \in A /\ h[t] = turn[<<h[t \ {Max(t)}], Max(t)>>]
      BY <1>6, <2>2, <3>1 DEF Folds
    <3> QED BY <1>3, <2>2, <3>1, <3>2
  <2> QED BY <2>1, <2>2
<1>8. \E f : ValidFolds(f, text)
  <2>1. h = [t \in SUBSET (1 .. n) |-> IF t = {} THEN 1 ELSE Stepped(text, h[t \ {Max(t)}])]
    BY <1>6, <1>7 DEF Folds
  <2>2. ValidFolds(h, text)
    BY <1>1, <2>1, Zenon DEF ValidFolds, Stepped
  <2> QED BY <2>2
<1> DEFINE f == CHOOSE e : ValidFolds(e, text)
<1>9. ValidFolds(f, text)
  BY <1>8, Zenon
<1>10. Utf8Valid(text) <=> n + 1 = f[1 .. n]
  BY <1>1, ValidIsFold DEF n
<1> HIDE DEF f
<1>11. Repeats(f, A, 1, turn, n)
  <2>1. \A t \in SUBSET (1 .. n) :
          f[t] = IF t = {} THEN 1 ELSE Stepped(text, f[t \ {Max(t)}])
    BY <1>1, <1>9, Zenon DEF ValidFolds, Stepped
  <2>2. f[{}] = 1
    BY <2>1
  <2>3. ASSUME NEW m \in 1 .. n, f[1 .. m - 1] \in A
        PROVE  f[1 .. m] = turn[<<f[1 .. m - 1], m>>]
    <3> DEFINE t == 1 .. m
    <3>1. t \in SUBSET (1 .. n) /\ t # {} /\ Max(t) = m /\ t \ {m} = 1 .. m - 1
      BY <1>1, PlacesUpTo
    <3> HIDE DEF t
    <3>2. f[t] = Stepped(text, f[1 .. m - 1])
      BY <2>1, <3>1
    <3> QED BY <1>3, <2>3, <3>2 DEF t
  <2> QED BY <2>2, <2>3 DEF Repeats
<1>12. PICK s : RunsThrough(s, A, 1, turn, n, f)
  BY <1>1, <1>4, <1>5, <1>11, FoldStates
<1>13. /\ s \in [0 .. n -> A] /\ s[0] = 1 /\ s[n] = f[1 .. n]
       /\ \A k \in 1 .. n : s[k] = turn[<<s[k - 1], k>>]
  BY <1>12 DEF RunsThrough
<1>14. \A k \in 1 .. n : s[k] = Stepped(text, s[k - 1])
  <2> TAKE k \in 1 .. n
  <2>1. s[k - 1] \in A
    BY <1>1, <1>13
  <2> QED BY <1>3, <1>13, <2>1
<1>15. Walks(s, text)
  BY <1>13, <1>14 DEF Walks, A, n
<1> QED BY <1>10, <1>13, <1>15 DEF n

(* It stops at 0 or goes on by at least one byte each turn.                  *)
LEMMA WalkFacts ==
  ASSUME NEW text \in Seq(Octets), NEW p, Walks(p, text)
  PROVE  \A k \in 1 .. Len(text) :
           /\ p[k - 1] \in 0 .. Len(text) + 1 /\ p[k] \in 0 .. Len(text) + 1
           /\ p[k - 1] \in {0, Len(text) + 1} => p[k] = p[k - 1]
           /\ p[k - 1] \in 1 .. Len(text) =>
                /\ p[k] = Utf8Next(text, p[k - 1])
                /\ p[k] = 0 \/ p[k] \in p[k - 1] + 1 .. Len(text) + 1
<1> DEFINE n == Len(text)
<1>1. n \in Nat /\ DOMAIN text = 1 .. n
  OBVIOUS
<1>2. ASSUME NEW a \in 1 .. n
      PROVE  Utf8Next(text, a) = 0 \/ Utf8Next(text, a) \in a + 1 .. n + 1
  BY NextRange
<1>3. /\ p \in [0 .. n -> 0 .. n + 1]
      /\ \A k \in 1 .. n : p[k] = Stepped(text, p[k - 1])
  BY DEF Walks
<1> HIDE DEF n
<1>4. ASSUME NEW k \in 1 .. n
      PROVE  /\ p[k - 1] \in 0 .. n + 1 /\ p[k] \in 0 .. n + 1
             /\ p[k - 1] \in {0, n + 1} => p[k] = p[k - 1]
             /\ p[k - 1] \in 1 .. n => /\ p[k] = Utf8Next(text, p[k - 1])
                                       /\ p[k] = 0 \/ p[k] \in p[k - 1] + 1 .. n + 1
  <2>1. k - 1 \in 0 .. n /\ k \in 0 .. n
    BY <1>1
  <2>2. PICK a \in 0 .. n + 1 : p[k - 1] = a
    BY <1>3, <2>1
  <2>3. p[k] \in 0 .. n + 1 /\ p[k] = Stepped(text, a)
    BY <1>3, <2>1, <2>2
  <2>4. CASE a \in 1 .. n
    <3>1. p[k] = Utf8Next(text, a)
      BY <1>1, <2>3, <2>4 DEF Stepped
    <3> QED BY <1>1, <1>2, <2>2, <2>3, <2>4, <3>1
  <2>5. CASE a \notin 1 .. n
    <3>1. p[k] = a
      BY <1>1, <2>3, <2>5 DEF Stepped
    <3> QED BY <1>1, <2>2, <2>3, <2>5, <3>1
  <2> QED BY <2>4, <2>5
<1> QED BY <1>4 DEF n
(* A walk that ends behind the text never stops, and goes forward.           *)
LEMMA WalkGoesOn ==
  ASSUME NEW text \in Seq(Octets), NEW p, Walks(p, text), p[Len(text)] = Len(text) + 1
  PROVE  /\ \A k \in 0 .. Len(text) : p[k] \in k + 1 .. Len(text) + 1
         /\ \A j, k \in 0 .. Len(text) : j <= k => p[j] <= p[k]
<1> DEFINE n == Len(text)
<1>1. n \in Nat
  OBVIOUS
<1>2. \A k \in 1 .. n :
        /\ p[k - 1] \in 0 .. n + 1 /\ p[k] \in 0 .. n + 1
        /\ p[k - 1] \in {0, n + 1} => p[k] = p[k - 1]
        /\ p[k - 1] \in 1 .. n => p[k] = 0 \/ p[k] \in p[k - 1] + 1 .. n + 1
  BY WalkFacts
<1>3. p[n] = n + 1 /\ p[0] = 1
  BY DEF Walks
<1> HIDE DEF n
<1>4. \A k \in 0 .. n : p[k] # 0
  <2> SUFFICES ASSUME NEW k \in 0 .. n, p[k] = 0 PROVE FALSE
    OBVIOUS
  <2> DEFINE good == {i \in 1 .. n + 1 : i - 1 < k \/ p[i - 1] = 0}
  <2>1. 1 \in good
    BY <1>1
  <2>2. \A i \in 1 .. n : i \in good => i + 1 \in good
    <3> SUFFICES ASSUME NEW i \in 1 .. n, i - 1 < k \/ p[i - 1] = 0
                 PROVE  i + 1 \in 1 .. n + 1 /\ (i < k \/ p[i] = 0)
      BY <1>1
    <3>1. i - 1 < k /\ i >= k => i = k
      BY <1>1
    <3>2. p[i - 1] = 0 => p[i] = 0
      BY <1>2
    <3> QED BY <1>1, <3>1, <3>2
  <2>3. n + 1 \in good
    <3> HIDE DEF good
    <3>1. \A i \in 1 .. n + 1 : i \in good
      BY <1>1, <2>1, <2>2, Stepwise
    <3> QED BY <1>1, <3>1
  <2>4. (n + 1) - 1 = n /\ ~ (n < k)
    BY <1>1
  <2>5. p[n] = 0
    BY <2>3, <2>4
  <2> QED BY <1>1, <1>3, <2>5
<1>5. \A k \in 1 .. n : /\ p[k - 1] \in 1 .. n + 1 /\ p[k] \in 1 .. n + 1
                        /\ p[k] = n + 1 \/ p[k] > p[k - 1]
                        /\ p[k] >= p[k - 1]
  <2> TAKE k \in 1 .. n
  <2>1. k - 1 \in 0 .. n /\ k \in 0 .. n
    BY <1>1
  <2>2. PICK a \in 0 .. n + 1 : p[k - 1] = a
    BY <1>2
  <2>3. PICK b \in 0 .. n + 1 : p[k] = b
    BY <1>2
  <2>4. a # 0 /\ b # 0
    BY <1>4, <2>1, <2>2, <2>3
  <2>5. a \in {0, n + 1} => b = a
    BY <1>2, <2>2, <2>3
  <2>6. a \in 1 .. n => b = 0 \/ b \in a + 1 .. n + 1
    BY <1>2, <2>2, <2>3
  <2>7. a \in 1 .. n + 1 /\ b \in 1 .. n + 1 /\ (b = n + 1 \/ b > a) /\ b >= a
    BY <1>1, <2>4, <2>5, <2>6
  <2> QED BY <2>2, <2>3, <2>7
<1>6. \A k \in 0 .. n : p[k] \in k + 1 .. n + 1
  <2> DEFINE good == {i \in 1 .. n + 1 : p[i - 1] \in i .. n + 1}
  <2>1. 1 \in good
    BY <1>1, <1>3
  <2>2. \A i \in 1 .. n : i \in good => i + 1 \in good
    <3> SUFFICES ASSUME NEW i \in 1 .. n, p[i - 1] \in i .. n + 1
                 PROVE  i + 1 \in 1 .. n + 1 /\ p[i] \in i + 1 .. n + 1
      BY <1>1
    <3>1. PICK a \in 1 .. n + 1 : p[i - 1] = a
      BY <1>5
    <3>2. PICK b \in 1 .. n + 1 : p[i] = b
      BY <1>5
    <3>3. a >= i /\ (b = n + 1 \/ b > a)
      BY <1>5, <3>1, <3>2
    <3> QED BY <1>1, <3>2, <3>3
  <2> HIDE DEF good
  <2>3. \A i \in 1 .. n + 1 : i \in good
    BY <1>1, <2>1, <2>2, Stepwise
  <2> TAKE k \in 0 .. n
  <2>4. k + 1 \in 1 .. n + 1 /\ (k + 1) - 1 = k
    BY <1>1
  <2>5. k + 1 \in good
    BY <2>3, <2>4
  <2> QED BY <2>4, <2>5 DEF good
<1>7. ASSUME NEW j \in 0 .. n, NEW k \in 0 .. n, j <= k
      PROVE  p[j] <= p[k]
  <2>1. PICK a \in 1 .. n + 1 : p[j] = a
    <3>1. p[j] \in j + 1 .. n + 1
      BY <1>6
    <3> QED BY <1>1, <3>1
  <2> DEFINE good == {i \in 1 .. n + 1 : i - 1 < j \/ a <= p[i - 1]}
  <2>2. 1 \in good
    BY <1>1, <2>1
  <2>3. \A i \in 1 .. n : i \in good => i + 1 \in good
    <3> SUFFICES ASSUME NEW i \in 1 .. n, i - 1 < j \/ a <= p[i - 1]
                 PROVE  i + 1 \in 1 .. n + 1 /\ (i < j \/ a <= p[i])
      BY <1>1
    <3>1. PICK b \in 1 .. n + 1 : p[i - 1] = b
      BY <1>5
    <3>2. PICK c \in 1 .. n + 1 : p[i] = c
      BY <1>5
    <3>3. c >= b
      BY <1>5, <3>1, <3>2
    <3>4. i = j => c = a
      BY <2>1, <3>2
    <3>5. i < j \/ i = j \/ a <= b
      BY <1>1, <3>1
    <3> QED BY <1>1, <3>2, <3>3, <3>4, <3>5
  <2> HIDE DEF good
  <2>4. \A i \in 1 .. n + 1 : i \in good
    BY <1>1, <2>2, <2>3, Stepwise
  <2>5. k + 1 \in 1 .. n + 1 /\ (k + 1) - 1 = k
    BY <1>1
  <2>6. k + 1 \in good
    BY <2>4, <2>5
  <2>7. k < j \/ a <= p[k]
    BY <2>5, <2>6 DEF good
  <2> QED BY <1>7, <2>1, <2>7
<1> QED BY <1>6, <1>7 DEF n

(* The end before e among some ends.                                        *)
Before(ends, e) == {0} \union {b \in ends : b < e}

LEMMA EndBefore ==
  ASSUME NEW n \in Nat, NEW ends \in SUBSET (1 .. n), NEW e \in 1 .. n,
         NEW a \in 0 .. n, a \in Before(ends, e), \A b \in ends : b < e => b <= a
  PROVE  Max(Before(ends, e)) = a
<1> DEFINE T == Before(ends, e)
<1>1. T \subseteq 0 .. n /\ a \in T /\ \A b \in T : b <= a
  <2>1. T \subseteq 0 .. n
    <3>1. {b \in ends : b < e} \subseteq 1 .. n
      OBVIOUS
    <3>2. 1 .. n \subseteq 0 .. n /\ 0 \in 0 .. n
      OBVIOUS
    <3> QED BY <3>1, <3>2, Zenon DEF Before
  <2>2. \A b \in T : b = 0 \/ (b \in ends /\ b < e)
    BY Zenon DEF Before
  <2>3. 0 <= a
    OBVIOUS
  <2> HIDE DEF T
  <2>4. \A b \in T : b <= a
    BY <2>2, <2>3
  <2> QED BY <2>1, <2>4 DEF T
<1> HIDE DEF T
<1>2. Max(T) \in T /\ \A b \in T : b <= Max(T)
  BY <1>1, MaxIsGreatest
<1>3. Max(T) \in 0 .. n /\ Max(T) <= a /\ a <= Max(T)
  BY <1>1, <1>2
<1> QED BY <1>3 DEF T

Cut(text, ends) ==
  /\ Len(text) \in ends
  /\ \A e \in ends : IsCharacter(SubSeq(text, 1 + Max(Before(ends, e)), e))

LEMMA CutIs ==
  ASSUME NEW text
  PROVE  IsUtf8(text) <=> text = <<>> \/ \E ends \in SUBSET DOMAIN text : Cut(text, ends)
BY Zenon DEF IsUtf8, Cut, Before

(* A character of the text, by where the next one starts.                   *)
LEMMA CharacterOf ==
  ASSUME NEW text \in Seq(Octets), NEW a \in 0 .. Len(text), NEW e \in a + 1 .. Len(text)
  PROVE  IsCharacter(SubSeq(text, 1 + a, e)) <=> Utf8Next(text, a + 1) = e + 1
<1>1. a + 1 \in 1 .. Len(text) /\ e \in (a + 1) .. Len(text) /\ 1 + a = a + 1
  OBVIOUS
<1> DEFINE part == SubSeq(text, a + 1, e)
<1>2. part \in Seq(Octets)
  BY <1>1, PartFacts
<1>3. Utf8Next(text, a + 1) = e + 1 <=> Character(part)
  BY <1>1, CharacterEnds
<1> HIDE DEF part
<1>4. IsCharacter(part) <=> Character(part)
  BY <1>2, CharacterIs
<1> QED BY <1>1, <1>3, <1>4 DEF part

LEMMA ValidIsUtf8 ==
  ASSUME NEW text \in Seq(Octets), Utf8Valid(text)
  PROVE  IsUtf8(text)
<1> DEFINE n == Len(text)
<1>1. n \in Nat /\ DOMAIN text = 1 .. n
  OBVIOUS
<1>2. PICK p : Walks(p, text) /\ p[n] = n + 1
  BY ValidHasStates
<1>3. /\ \A k \in 0 .. n : p[k] \in k + 1 .. n + 1
      /\ \A j, k \in 0 .. n : j <= k => p[j] <= p[k]
  BY <1>2, WalkGoesOn
<1>4. \A k \in 1 .. n :
        /\ p[k - 1] \in {0, n + 1} => p[k] = p[k - 1]
        /\ p[k - 1] \in 1 .. n => p[k] = Utf8Next(text, p[k - 1])
  BY <1>2, WalkFacts
<1>5. p[0] = 1
  BY <1>2 DEF Walks
<1>6. CASE n = 0
  <2>1. text = <<>>
    BY <1>6
  <2> QED BY <2>1, CutIs
<1>7. CASE n # 0
  <2> DEFINE ends == {e \in 1 .. n : \E k \in 1 .. n : p[k] = e + 1}
  <2>1. n \in ends
    BY <1>1, <1>2, <1>7
  <2>2. ASSUME NEW e \in ends
        PROVE  IsCharacter(SubSeq(text, 1 + Max(Before(ends, e)), e))
    <3> DEFINE T == {k \in 1 .. n : p[k] = e + 1}
    <3>1. T # {} /\ T \subseteq Nat
      OBVIOUS
    <3> HIDE DEF T
    <3>2. PICK k \in T : \A j \in T : k <= j
      BY <3>1, LeastElement
    <3>3. k \in 1 .. n /\ p[k] = e + 1 /\ e \in 1 .. n
      BY <2>2 DEF T
    <3>4. \A j \in 1 .. n : p[j] = e + 1 => k <= j
      BY <3>2 DEF T
    <3>5. PICK a \in 0 .. n : p[k - 1] = a + 1
      <4>1. k - 1 \in 0 .. n
        BY <1>1, <3>3
      <4>2. p[k - 1] \in (k - 1) + 1 .. n + 1
        BY <1>3, <4>1
      <4>3. p[k - 1] - 1 \in 0 .. n /\ p[k - 1] = (p[k - 1] - 1) + 1
        BY <1>1, <3>3, <4>2
      <4> QED BY <4>3
    <3>6. k = 1 \/ p[k - 1] # e + 1
      <4>1. k = 1 \/ (k - 1 \in 1 .. n /\ ~ k <= k - 1)
        BY <1>1, <3>3
      <4> QED BY <3>4, <4>1
    <3>7. k = 1 => a = 0
      BY <1>5, <3>5
    <3>8. a < e
      <4>1. k - 1 \in 0 .. n /\ k \in 0 .. n /\ k - 1 <= k
        BY <1>1, <3>3
      <4>2. p[k - 1] <= p[k]
        BY <1>3, <4>1
      <4>3. a <= e
        BY <1>1, <3>3, <3>5, <4>2
      <4>4. k # 1 => a # e
        BY <3>5, <3>6
      <4> QED BY <1>1, <3>3, <3>7, <4>3, <4>4
    <3>9. Utf8Next(text, a + 1) = e + 1
      <4>1. a + 1 \in 1 .. n
        BY <1>1, <3>3, <3>8
      <4>2. p[k - 1] \in 1 .. n
        BY <3>5, <4>1
      <4>3. p[k] = Utf8Next(text, p[k - 1])
        BY <1>4, <3>3, <4>2
      <4> QED BY <3>3, <3>5, <4>3
    <3>10. a \in Before(ends, e)
      <4>1. CASE k = 1
        BY <3>7, <4>1 DEF Before
      <4>2. CASE k # 1
        <5>1. k - 1 \in 1 .. n
          BY <1>1, <3>3, <4>2
        <5>2. p[k - 1] \in (k - 1) + 1 .. n + 1
          BY <1>3, <5>1
        <5>3. a \in 1 .. n
          BY <1>1, <3>3, <3>5, <3>8, <4>2, <5>2
        <5>4. a \in ends
          BY <3>5, <5>1, <5>3
        <5> HIDE DEF ends
        <5> QED BY <3>8, <5>4 DEF Before
      <4> QED BY <4>1, <4>2
    <3>11. \A b \in ends : b < e => b <= a
      <4> SUFFICES ASSUME NEW b \in 1 .. n, NEW j \in 1 .. n, p[j] = b + 1, b < e
                   PROVE  b <= a
        OBVIOUS
      <4>1. j < k
        <5> SUFFICES ASSUME k <= j PROVE FALSE
          BY <1>1, <3>3
        <5>1. k \in 0 .. n /\ j \in 0 .. n
          BY <1>1, <3>3
        <5>2. p[k] <= p[j]
          BY <1>3, <5>1
        <5> QED BY <3>3, <5>2
      <4>2. k - 1 \in 0 .. n /\ j \in 0 .. n /\ j <= k - 1
        BY <1>1, <3>3, <4>1
      <4>3. p[j] <= p[k - 1]
        BY <1>3, <4>2
      <4> QED BY <3>5, <4>3
    <3>12. ends \in SUBSET (1 .. n)
      OBVIOUS
    <3> HIDE DEF ends
    <3>13. Max(Before(ends, e)) = a
      BY <1>1, <3>3, <3>10, <3>11, <3>12, EndBefore
    <3>14. a \in 0 .. Len(text) /\ e \in a + 1 .. Len(text)
      BY <1>1, <3>3, <3>8
    <3>15. IsCharacter(SubSeq(text, 1 + a, e))
      BY <3>9, <3>14, CharacterOf
    <3> QED BY <3>13, <3>15
  <2>3. ends \in SUBSET DOMAIN text
    BY <1>1
  <2> HIDE DEF ends
  <2>4. Cut(text, ends)
    BY <2>1, <2>2 DEF Cut
  <2> QED BY <2>3, <2>4, CutIs
<1> QED BY <1>6, <1>7

LEMMA Utf8IsValid ==
  ASSUME NEW text \in Seq(Octets), IsUtf8(text)
  PROVE  Utf8Valid(text)
<1> DEFINE n == Len(text)
<1>1. n \in Nat /\ DOMAIN text = 1 .. n
  OBVIOUS
<1>2. PICK p : Walks(p, text) /\ (Utf8Valid(text) <=> p[n] = n + 1)
  BY ValidHasStates
<1>3. \A k \in 1 .. n :
        /\ p[k - 1] \in {0, n + 1} => p[k] = p[k - 1]
        /\ p[k - 1] \in 1 .. n => p[k] = Utf8Next(text, p[k - 1])
  BY <1>2, WalkFacts
<1>4. p[0] = 1
  BY <1>2 DEF Walks
<1>5. CASE text = <<>>
  <2>1. n = 0
    BY <1>5
  <2> QED BY <1>2, <1>4, <2>1
<1> HIDE DEF n
<1>6. CASE text # <<>>
  <2>1. PICK ends \in SUBSET (1 .. n) : Cut(text, ends)
    BY <1>1, <1>6, CutIs
  <2>2. n \in ends
    BY <2>1 DEF Cut, n
  <2>3. ASSUME NEW a \in {0} \union ends, a < n
        PROVE  \E e \in ends : a < e /\ Utf8Next(text, a + 1) = e + 1
    <3> DEFINE T == {e \in ends : a < e}
    <3>1. T # {} /\ T \subseteq Nat
      <4>1. n \in T
        BY <2>2, <2>3
      <4>2. T \subseteq Nat
        <5>1. T \subseteq ends /\ ends \subseteq 1 .. n
          BY Zenon
        <5>2. 1 .. n \subseteq Nat
          BY <1>1
        <5> QED BY <5>1, <5>2, Zenon
      <4> QED BY <4>1, <4>2
    <3> HIDE DEF T
    <3>2. PICK e \in T : \A b \in T : e <= b
      BY <3>1, LeastElement
    <3>3. e \in ends /\ a < e /\ e \in 1 .. n /\ a \in 0 .. n
      BY <1>1, <2>3, <3>2 DEF T
    <3>4. \A b \in ends : b < e => b <= a
      <4> TAKE b \in ends
      <4>1. b \in 1 .. n
        OBVIOUS
      <4>2. a < b => e <= b
        BY <3>2 DEF T
      <4> QED BY <1>1, <3>3, <4>1, <4>2
    <3>5. a \in Before(ends, e)
      BY <2>3, <3>3 DEF Before
    <3>6. Max(Before(ends, e)) = a
      BY <1>1, <3>3, <3>4, <3>5, EndBefore
    <3>7. IsCharacter(SubSeq(text, 1 + a, e))
      BY <2>1, <3>3, <3>6 DEF Cut
    <3>8. a \in 0 .. Len(text) /\ e \in a + 1 .. Len(text)
      BY <1>1, <3>3 DEF n
    <3>9. Utf8Next(text, a + 1) = e + 1
      BY <3>7, <3>8, CharacterOf
    <3> QED BY <3>3, <3>9
  <2> DEFINE good == {i \in 1 .. n + 1 :
                        \E a \in {0} \union ends : p[i - 1] = a + 1 /\ i - 1 <= a}
  <2>4. 1 \in good
    <3>1. 1 \in 1 .. n + 1 /\ 0 \in {0} \union ends /\ p[1 - 1] = 0 + 1 /\ 1 - 1 <= 0
      BY <1>1, <1>4
    <3> QED BY <3>1
  <2>5. ASSUME NEW i \in 1 .. n, i \in good
        PROVE  i + 1 \in good
    <3>1. PICK a \in {0} \union ends : p[i - 1] = a + 1 /\ i - 1 <= a
      BY <2>5
    <3>2. a \in 0 .. n /\ i + 1 \in 1 .. n + 1 /\ (i + 1) - 1 = i
      BY <1>1
    <3>3. CASE a = n
      <4>1. p[i] = a + 1
        BY <1>3, <3>1, <3>3
      <4> QED BY <3>1, <3>2, <3>3, <4>1
    <3>4. CASE a # n
      <4>1. PICK e \in ends : a < e /\ Utf8Next(text, a + 1) = e + 1
        <5>1. a < n
          BY <1>1, <3>2, <3>4
        <5> QED BY <2>3, <5>1
      <4>2. a + 1 \in 1 .. n
        BY <1>1, <3>2, <3>4
      <4>3. p[i] = e + 1
        BY <1>3, <3>1, <4>1, <4>2
      <4>4. i <= e /\ e \in {0} \union ends
        <5>1. e \in 1 .. n
          OBVIOUS
        <5> QED BY <1>1, <3>1, <3>2, <4>1, <5>1
      <4> QED BY <3>2, <4>3, <4>4
    <3> QED BY <3>3, <3>4
  <2> HIDE DEF good
  <2>6. \A i \in 1 .. n + 1 : i \in good
    BY <1>1, <2>4, <2>5, Stepwise
  <2>7. n + 1 \in good /\ (n + 1) - 1 = n
    BY <1>1, <2>6
  <2>8. PICK a \in {0} \union ends : p[n] = a + 1 /\ n <= a
    BY <2>7 DEF good
  <2>9. a \in 0 .. n
    BY <1>1
  <2>10. a = n
    BY <1>1, <2>8, <2>9
  <2> QED BY <1>2, <2>8, <2>10 DEF n
<1> QED BY <1>5, <1>6

(* The decoder takes a text of bytes, whatever its length, exactly when it   *)
(* can be cut into sequences of Unicode's table of well-formed ones:         *)
(* config_utf8_valid refuses overlong forms, surrogates, what lies past the  *)
(* last scalar and what is cut short, and nothing else.                      *)
THEOREM Utf8Theorem ==
  \A text \in Seq(Octets) : Utf8Valid(text) <=> IsUtf8(text)
BY ValidIsUtf8, Utf8IsValid

-----------------------------------------------------------------------------
(* The loop over the digits of a number.                                    *)
Digit(acc, c, limit) ==
  CASE acc.status # "ok" -> acc
    [] acc.status = "ok" /\ c \notin 0 .. 9 -> [acc EXCEPT !.status = "einval"]
    [] OTHER -> IF acc.number > (limit - c) \div 10
                THEN [acc EXCEPT !.status = "eoverflow"]
                ELSE [acc EXCEPT !.number = (10 * @ + c) % (MaxUnsigned + 1)]

Unread == [status |-> "ok", number |-> 0]

DigitFolds(h, text, limit) ==
  h = [t \in SUBSET DOMAIN text |->
         IF t = {} THEN Unread
         ELSE LET x == Max(t) IN Digit(h[t \ {x}], text[x], limit)]

LEMMA DigitsAreFold ==
  ASSUME NEW text, NEW limit
  PROVE  ReadDigits(text, limit) = (CHOOSE h : DigitFolds(h, text, limit))[DOMAIN text]
BY Zenon DEF ReadDigits, FoldLeft, MapThenFoldSet, DigitFolds, Digit, Unread

Readings == [status : {"ok", "einval", "eoverflow"}, number : Nat]

(* A digit that is read is one, and stays below the limit.                   *)
LEMMA DigitRead ==
  ASSUME NEW acc \in Readings, NEW c \in Nat, NEW limit \in Nat, limit >= 9, limit <= MaxUnsigned
  PROVE  /\ Digit(acc, c, limit) \in Readings
         /\ acc.status # "ok" => Digit(acc, c, limit).status # "ok"
         /\ Digit(acc, c, limit).status = "ok" =>
              /\ c \in 0 .. 9 /\ Digit(acc, c, limit).number = 10 * acc.number + c
              /\ Digit(acc, c, limit).number <= limit
<1> DEFINE new == Digit(acc, c, limit)
<1>1. PICK s \in {"ok", "einval", "eoverflow"}, m \in Nat :
        acc = [status |-> s, number |-> m]
  BY DEF Readings
<1>2. MaxUnsigned \in Nat
  BY ConfigurationAssumption
<1>3. CASE s # "ok"
  <2>1. new = acc
    BY <1>1, <1>3 DEF Digit
  <2> HIDE DEF new
  <2>9. /\ new \in Readings
        /\ acc.status # "ok" => new.status # "ok"
        /\ new.status = "ok" =>
             /\ c \in 0 .. 9 /\ new.number = 10 * acc.number + c /\ new.number <= limit
    BY <1>1, <1>3, <2>1
  <2> QED BY <2>9 DEF new
<1>4. CASE s = "ok" /\ c \notin 0 .. 9
  <2>1. new = [status |-> "einval", number |-> m]
    BY <1>1, <1>4 DEF Digit
  <2> HIDE DEF new
  <2>9. /\ new \in Readings
        /\ acc.status # "ok" => new.status # "ok"
        /\ new.status = "ok" =>
             /\ c \in 0 .. 9 /\ new.number = 10 * acc.number + c /\ new.number <= limit
    BY <1>1, <1>4, <2>1 DEF Readings
  <2> QED BY <2>9 DEF new
<1>5. CASE s = "ok" /\ c \in 0 .. 9 /\ m > (limit - c) \div 10
  <2>1. new = [status |-> "eoverflow", number |-> m]
    BY <1>1, <1>5 DEF Digit
  <2> HIDE DEF new
  <2>9. /\ new \in Readings
        /\ acc.status # "ok" => new.status # "ok"
        /\ new.status = "ok" =>
             /\ c \in 0 .. 9 /\ new.number = 10 * acc.number + c /\ new.number <= limit
    BY <1>1, <1>5, <2>1 DEF Readings
  <2> QED BY <2>9 DEF new
<1>6. CASE s = "ok" /\ c \in 0 .. 9 /\ ~ m > (limit - c) \div 10
  <2>1. new = [status |-> "ok", number |-> (10 * m + c) % (MaxUnsigned + 1)]
    BY <1>1, <1>6 DEF Digit
  <2>2. 10 * m + c <= limit /\ 10 * m + c \in Nat
    BY <1>6
  <2>3. (10 * m + c) % (MaxUnsigned + 1) = 10 * m + c
    BY <1>2, <2>2
  <2> HIDE DEF new
  <2>4. new = [status |-> "ok", number |-> 10 * m + c]
    BY <2>1, <2>3
  <2>9. /\ new \in Readings
        /\ acc.status # "ok" => new.status # "ok"
        /\ new.status = "ok" =>
             /\ c \in 0 .. 9 /\ new.number = 10 * acc.number + c /\ new.number <= limit
    BY <1>1, <1>6, <2>2, <2>4 DEF Readings
  <2> QED BY <2>9 DEF new
<1> QED BY <1>3, <1>4, <1>5, <1>6, <1>1

DigitsRead(s, text, limit) ==
  /\ s \in [0 .. Len(text) -> Readings] /\ s[0] = Unread
  /\ \A k \in 1 .. Len(text) : s[k] = Digit(s[k - 1], text[k], limit)

LEMMA DigitsHaveStates ==
  ASSUME NEW text \in Seq(Octets), NEW limit \in Nat, limit >= 9, limit <= MaxUnsigned
  PROVE  \E s : DigitsRead(s, text, limit) /\ ReadDigits(text, limit) = s[Len(text)]
<1> DEFINE n == Len(text)
           turn == [p \in Readings \X (1 .. n) |-> Digit(p[1], text[p[2]], limit)]
<1>1. n \in Nat /\ DOMAIN text = 1 .. n /\ \A i \in 1 .. n : text[i] \in Nat
  <2>1. n \in Nat /\ DOMAIN text = 1 .. n /\ \A i \in 1 .. n : text[i] \in Octets
    OBVIOUS
  <2>2. Octets \subseteq Nat
    BY DEF Octets
  <2> HIDE DEF n
  <2> QED BY <2>1, <2>2, Zenon
<1>2. Unread \in Readings
  BY DEF Unread, Readings
<1> HIDE DEF n
<1>3. ASSUME NEW a \in Readings, NEW i \in 1 .. n
      PROVE  turn[<<a, i>>] = Digit(a, text[i], limit) /\ turn[<<a, i>>] \in Readings
  <2>1. Digit(a, text[i], limit) \in Readings
    BY <1>1, DigitRead
  <2> QED BY <2>1
<1> HIDE DEF turn
<1>5. StepsIn(Readings, turn, n)
  BY <1>3 DEF StepsIn
<1>6. PICK h : Folds(h, Readings, Unread, turn, n)
  BY <1>1, <1>2, <1>5, FoldExists
<1>7. ASSUME NEW t \in SUBSET (1 .. n)
      PROVE  h[t] = IF t = {} THEN Unread ELSE Digit(h[t \ {Max(t)}], text[Max(t)], limit)
  <2>1. CASE t = {}
    BY <1>6, <2>1 DEF Folds
  <2>2. CASE t # {}
    <3>1. Max(t) \in 1 .. n /\ t \ {Max(t)} \in SUBSET (1 .. n)
      BY <1>1, <2>2, MaxOfPlaces
    <3>2. h[t \ {Max(t)}] \in Readings /\ h[t] = turn[<<h[t \ {Max(t)}], Max(t)>>]
      BY <1>6, <2>2, <3>1 DEF Folds
    <3> QED BY <1>3, <2>2, <3>1, <3>2
  <2> QED BY <2>1, <2>2
<1>8. \E f : DigitFolds(f, text, limit)
  <2>1. h = [t \in SUBSET (1 .. n) |->
               IF t = {} THEN Unread ELSE Digit(h[t \ {Max(t)}], text[Max(t)], limit)]
    BY <1>6, <1>7 DEF Folds
  <2>2. DigitFolds(h, text, limit)
    BY <1>1, <2>1, Zenon DEF DigitFolds
  <2> QED BY <2>2
<1> DEFINE f == CHOOSE e : DigitFolds(e, text, limit)
<1>9. DigitFolds(f, text, limit)
  BY <1>8, Zenon
<1>10. ReadDigits(text, limit) = f[1 .. n]
  BY <1>1, DigitsAreFold
<1> HIDE DEF f
<1>11. Repeats(f, Readings, Unread, turn, n)
  <2>1. \A t \in SUBSET (1 .. n) :
          f[t] = IF t = {} THEN Unread ELSE Digit(f[t \ {Max(t)}], text[Max(t)], limit)
    BY <1>1, <1>9, Zenon DEF DigitFolds
  <2>2. f[{}] = Unread
    BY <2>1
  <2>3. ASSUME NEW m \in 1 .. n, f[1 .. m - 1] \in Readings
        PROVE  f[1 .. m] = turn[<<f[1 .. m - 1], m>>]
    <3> DEFINE t == 1 .. m
    <3>1. t \in SUBSET (1 .. n) /\ t # {} /\ Max(t) = m /\ t \ {m} = 1 .. m - 1
      BY <1>1, PlacesUpTo
    <3> HIDE DEF t
    <3>2. f[t] = Digit(f[1 .. m - 1], text[m], limit)
      BY <2>1, <3>1
    <3> QED BY <1>3, <2>3, <3>2 DEF t
  <2> QED BY <2>2, <2>3 DEF Repeats
<1>12. PICK s : RunsThrough(s, Readings, Unread, turn, n, f)
  BY <1>1, <1>2, <1>5, <1>11, FoldStates
<1>13. /\ s \in [0 .. n -> Readings] /\ s[0] = Unread /\ s[n] = f[1 .. n]
       /\ \A k \in 1 .. n : s[k] = turn[<<s[k - 1], k>>]
  BY <1>12 DEF RunsThrough
<1>14. \A k \in 1 .. n : s[k] = Digit(s[k - 1], text[k], limit)
  <2> TAKE k \in 1 .. n
  <2>1. s[k - 1] \in Readings
    BY <1>1, <1>13
  <2> QED BY <1>3, <1>13, <2>1
<1>15. DigitsRead(s, text, limit)
  BY <1>13, <1>14 DEF DigitsRead, n
<1> QED BY <1>10, <1>13, <1>15 DEF n

(* The weights of the places of a number.                                   *)
Weights(w, digits) ==
  w = [i \in DOMAIN digits |-> IF i = Len(digits) THEN 1 ELSE 10 * w[i + 1]]

LEMMA PlaceValueIs ==
  ASSUME NEW digits
  PROVE  PlaceValue(digits) =
           SumFunctionOnSet([i \in DOMAIN digits |->
                               digits[i] * (CHOOSE w : Weights(w, digits))[i]], DOMAIN digits)
BY Zenon DEF PlaceValue, Weights

LEMMA WeightsExist ==
  ASSUME NEW S, NEW digits \in Seq(S)
  PROVE  LET w == CHOOSE w : Weights(w, digits)
         IN /\ \A i \in 1 .. Len(digits) : w[i] \in Nat
            /\ \A i \in 2 .. Len(digits) : w[i - 1] = 10 * w[i]
            /\ Len(digits) # 0 => w[Len(digits)] = 1
<1> DEFINE n == Len(digits)
           tenfold == [p \in Nat \X (1 .. n) |-> 10 * p[1]]
<1>1. n \in Nat /\ DOMAIN digits = 1 .. n
  OBVIOUS
<1> HIDE DEF n
<1>2. \A a \in Nat, i \in 1 .. n : tenfold[<<a, i>>] = 10 * a /\ 10 * a \in Nat
  OBVIOUS
<1> HIDE DEF tenfold
<1> DEFINE one == 1
<1> HIDE DEF one
<1>3. PICK h : Folds(h, Nat, one, tenfold, n)
  <2>1. StepsIn(Nat, tenfold, n)
    BY <1>2 DEF StepsIn
  <2>2. one \in Nat
    BY DEF one
  <2> QED BY <1>1, <2>1, <2>2, FoldExists
<1>4. /\ h[1 .. 0] = 1
      /\ \A k \in 1 .. n : h[1 .. k] = tenfold[<<h[1 .. k - 1], k>>] /\ h[1 .. k - 1] \in Nat
  <2>1. /\ h[1 .. 0] = one
        /\ \A k \in 1 .. n : h[1 .. k] = tenfold[<<h[1 .. k - 1], k>>] /\ h[1 .. k - 1] \in Nat
        /\ h[1 .. n] \in Nat
    BY <1>1, <1>3, FoldPrefixes
  <2> QED BY <2>1 DEF one
<1>5. \A k \in 1 .. n : h[1 .. k] = 10 * h[1 .. k - 1] /\ h[1 .. k] \in Nat
  BY <1>2, <1>4
<1> DEFINE v == [i \in 1 .. n |-> h[1 .. n - i]]
<1>6. ASSUME NEW i \in 1 .. n
      PROVE  v[i] = IF i = n THEN 1 ELSE 10 * v[i + 1]
  <2>1. CASE i = n
    <3>1. n - i = 0
      BY <1>1, <2>1
    <3> QED BY <1>4, <2>1, <3>1
  <2>2. CASE i # n
    <3>1. n - i \in 1 .. n /\ i + 1 \in 1 .. n /\ (n - i) - 1 = n - (i + 1)
      BY <1>1, <2>2
    <3>2. h[1 .. n - i] = 10 * h[1 .. (n - i) - 1]
      BY <1>5, <3>1
    <3>3. v[i] = h[1 .. n - i] /\ v[i + 1] = h[1 .. n - (i + 1)]
      BY <3>1
    <3> QED BY <2>2, <3>1, <3>2, <3>3
  <2> QED BY <2>1, <2>2
<1>7. \E w : Weights(w, digits)
  <2>1. v = [i \in 1 .. n |-> IF i = n THEN 1 ELSE 10 * v[i + 1]]
    BY <1>6
  <2> HIDE DEF v
  <2>2. Weights(v, digits)
    BY <1>1, <2>1, Zenon DEF Weights, n
  <2> QED BY <2>2
<1> HIDE DEF v
<1> DEFINE w == CHOOSE w : Weights(w, digits)
<1>8. Weights(w, digits)
  BY <1>7, Zenon
<1> HIDE DEF w
<1>9. \A i \in 1 .. n : w[i] = IF i = n THEN 1 ELSE 10 * w[i + 1]
  BY <1>1, <1>8, Zenon DEF Weights, n
<1>10. \A i \in 2 .. n : w[i - 1] = 10 * w[i]
  <2> TAKE i \in 2 .. n
  <2>1. i - 1 \in 1 .. n /\ i - 1 # n /\ (i - 1) + 1 = i
    BY <1>1
  <2> QED BY <1>9, <2>1
<1>11. n # 0 => w[n] = 1
  BY <1>1, <1>9
<1>12. \A i \in 1 .. n : w[i] \in Nat
  <2> DEFINE good == {k \in 1 .. n + 1 : k = 1 \/ w[n + 2 - k] \in Nat}
  <2>1. 1 \in good
    BY <1>1
  <2>2. ASSUME NEW k \in 1 .. n, k \in good PROVE k + 1 \in good
    <3>1. k + 1 \in 1 .. n + 1 /\ n + 2 - (k + 1) = n + 1 - k /\ n + 1 - k \in 1 .. n
      BY <1>1
    <3>2. CASE k = 1
      <4>1. n + 1 - k = n
        BY <1>1, <3>2
      <4>2. w[n + 1 - k] = 1
        BY <1>9, <3>1, <4>1
      <4> QED BY <3>1, <4>2
    <3>3. CASE k # 1
      <4>1. n + 1 - k # n /\ (n + 1 - k) + 1 = n + 2 - k
        BY <1>1, <3>3
      <4>2. w[n + 1 - k] = 10 * w[n + 2 - k]
        BY <1>9, <3>1, <4>1
      <4>3. w[n + 2 - k] \in Nat
        BY <2>2, <3>3
      <4>4. w[n + 1 - k] \in Nat
        BY <4>2, <4>3
      <4> QED BY <3>1, <4>4
    <3> QED BY <3>2, <3>3
  <2> HIDE DEF good
  <2>3. \A k \in 1 .. n + 1 : k \in good
    BY <1>1, <2>1, <2>2, Stepwise
  <2> TAKE i \in 1 .. n
  <2>4. n + 2 - i \in 1 .. n + 1 /\ n + 2 - i # 1 /\ n + 2 - (n + 2 - i) = i
    BY <1>1
  <2>5. n + 2 - i \in good
    BY <2>3, <2>4
  <2> QED BY <2>4, <2>5 DEF good
<1> QED BY <1>10, <1>11, <1>12 DEF w, n

LEMMA Distributes ==
  ASSUME NEW v \in Nat, NEW c \in Nat, NEW w \in Nat
  PROVE  (10 * v + c) * w = v * (10 * w) + c * w
BY SMT

(* What the digits come to is their value by place.                          *)
LEMMA DigitsByPlace ==
  ASSUME NEW S, NEW digits \in Seq(S), NEW v,
         \A k \in 0 .. Len(digits) : v[k] \in Nat, v[0] = 0,
         \A k \in 1 .. Len(digits) : digits[k] \in Nat /\ v[k] = 10 * v[k - 1] + digits[k]
  PROVE  PlaceValue(digits) = v[Len(digits)]
<1> DEFINE n == Len(digits)
           w == CHOOSE w : Weights(w, digits)
           part == [i \in DOMAIN digits |-> digits[i] * w[i]]
           start == [m \in 1 .. n + 1 |-> IF m = 1 THEN 0 ELSE v[m - 1] * w[m - 1]]
<1>1. n \in Nat /\ DOMAIN digits = 1 .. n
  OBVIOUS
<1>2. /\ \A k \in 0 .. n : v[k] \in Nat
      /\ \A k \in 1 .. n : digits[k] \in Nat /\ v[k] = 10 * v[k - 1] + digits[k]
  OBVIOUS
<1>3. /\ \A i \in 1 .. n : w[i] \in Nat
      /\ \A i \in 2 .. n : w[i - 1] = 10 * w[i]
      /\ n # 0 => w[n] = 1
  BY WeightsExist
<1>4. PlaceValue(digits) = SumFunctionOnSet(part, 1 .. n)
  BY <1>1, PlaceValueIs
<1> HIDE DEF n, w
<1>5. \A i \in 1 .. n : part[i] = digits[i] * w[i] /\ part[i] \in Nat
  <2> TAKE i \in 1 .. n
  <2>1. PICK a \in Nat, b \in Nat : a = digits[i] /\ b = w[i]
    BY <1>2, <1>3
  <2>2. part[i] = digits[i] * w[i]
    BY <1>1
  <2>3. a * b \in Nat
    BY SMT
  <2> HIDE DEF part
  <2> QED BY <2>1, <2>2, <2>3
<1>6. start[1] = 0
  BY <1>1
<1>7. ASSUME NEW m \in 1 .. n PROVE start[m + 1] = start[m] + part[m]
  <2>1. m + 1 \in 1 .. n + 1 /\ m + 1 # 1 /\ (m + 1) - 1 = m /\ m \in 1 .. n + 1
    BY <1>1
  <2>2. start[m + 1] = v[m] * w[m]
    BY <2>1
  <2>3. m - 1 \in 0 .. n
    BY <1>1
  <2>4. PICK a \in Nat, c \in Nat, x \in Nat : a = v[m - 1] /\ c = digits[m] /\ x = w[m]
    BY <1>2, <1>3, <2>3
  <2>5. v[m] = 10 * a + c
    BY <1>2, <2>4
  <2>6. start[m + 1] = a * (10 * x) + c * x
    <3>1. (10 * a + c) * x = a * (10 * x) + c * x
      BY Distributes
    <3> QED BY <2>2, <2>4, <2>5, <3>1
  <2>7. part[m] = c * x
    BY <1>5, <2>4
  <2>8. start[m] = a * (10 * x)
    <3>1. CASE m = 1
      <4>1. a = 0
        BY <2>4, <3>1
      <4>2. start[m] = 0
        BY <1>6, <3>1
      <4> QED BY <4>1, <4>2
    <3>2. CASE m # 1
      <4>1. m \in 2 .. n
        BY <1>1, <3>2
      <4>2. w[m - 1] = 10 * x
        BY <1>3, <2>4, <4>1
      <4>3. start[m] = v[m - 1] * w[m - 1]
        BY <2>1, <3>2
      <4> QED BY <2>4, <4>2, <4>3
    <3> QED BY <3>1, <3>2
  <2> QED BY <2>6, <2>7, <2>8
<1>8. start[n + 1] = v[n]
  <2>1. CASE n = 0
    <3>1. v[n] = 0 /\ n + 1 = 1
      BY <2>1
    <3> QED BY <1>6, <3>1
  <2>2. CASE n # 0
    <3>1. n + 1 \in 1 .. n + 1 /\ n + 1 # 1 /\ (n + 1) - 1 = n /\ n \in 0 .. n
      BY <1>1, <2>2
    <3>2. start[n + 1] = v[n] * w[n]
      BY <3>1
    <3> QED BY <1>2, <1>3, <2>2, <3>1, <3>2
  <2> QED BY <2>1, <2>2
<1> HIDE DEF part, start
<1>9. \A m \in 1 .. n + 1 : SumFunctionOnSet(part, 1 .. m - 1) = start[m]
  <2>1. \A i \in 1 .. n : part[i] \in Nat
    BY <1>5
  <2>2. \A m \in 1 .. n : start[m + 1] = start[m] + part[m]
    BY <1>7
  <2>3. SumsBefore(start, part, n)
    BY <1>1, <1>6, <2>1, <2>2, PartialSums DEF Accumulates
  <2> QED BY <2>3 DEF SumsBefore
<1>10. n + 1 \in 1 .. n + 1 /\ (n + 1) - 1 = n
  BY <1>1
<1>11. SumFunctionOnSet(part, 1 .. n) = start[n + 1]
  BY <1>9, <1>10
<1> QED BY <1>4, <1>8, <1>11 DEF n

(* A number that is read is its value by place, at most the limit.           *)
LEMMA DigitsMean ==
  ASSUME NEW text \in Seq(Octets), NEW limit \in Nat, limit >= 9, limit <= MaxUnsigned,
         ReadDigits(text, limit).status = "ok"
  PROVE  /\ ReadDigits(text, limit).number = PlaceValue(text)
         /\ PlaceValue(text) \in 0 .. MaxUnsigned
         /\ \A k \in 1 .. Len(text) : text[k] \in 0 .. 9
<1> DEFINE n == Len(text)
<1>1. n \in Nat /\ DOMAIN text = 1 .. n /\ \A i \in 1 .. n : text[i] \in Nat
  <2>1. n \in Nat /\ DOMAIN text = 1 .. n /\ \A i \in 1 .. n : text[i] \in Octets
    OBVIOUS
  <2>2. Octets \subseteq Nat
    BY DEF Octets
  <2> HIDE DEF n
  <2> QED BY <2>1, <2>2, Zenon
<1>2. PICK s : DigitsRead(s, text, limit) /\ ReadDigits(text, limit) = s[n]
  BY DigitsHaveStates
<1>3. /\ s \in [0 .. n -> Readings] /\ s[0] = Unread
      /\ \A k \in 1 .. n : s[k] = Digit(s[k - 1], text[k], limit)
  BY <1>2 DEF DigitsRead
<1>4. s[n].status = "ok"
  BY <1>2
<1> HIDE DEF n
<1>5. ASSUME NEW k \in 1 .. n
      PROVE  /\ s[k - 1] \in Readings /\ s[k] \in Readings
             /\ s[k - 1].status # "ok" => s[k].status # "ok"
             /\ s[k].status = "ok" => /\ text[k] \in 0 .. 9
                                      /\ s[k].number = 10 * s[k - 1].number + text[k]
                                      /\ s[k].number <= limit
  <2>1. k - 1 \in 0 .. n /\ k \in 0 .. n
    BY <1>1
  <2>2. s[k - 1] \in Readings /\ s[k] \in Readings
    BY <1>3, <2>1
  <2>3. PICK c \in Nat : c = text[k]
    BY <1>1
  <2>4. s[k] = Digit(s[k - 1], c, limit)
    BY <1>3, <2>3
  <2>5. /\ s[k - 1].status # "ok" => s[k].status # "ok"
        /\ s[k].status = "ok" => /\ c \in 0 .. 9 /\ s[k].number = 10 * s[k - 1].number + c
                                 /\ s[k].number <= limit
    BY <2>2, <2>4, DigitRead
  <2> QED BY <2>2, <2>3, <2>5
<1>6. ASSUME NEW k \in 0 .. n PROVE s[k].status = "ok"
  <2> SUFFICES ASSUME s[k].status # "ok" PROVE FALSE
    OBVIOUS
  <2> DEFINE good == {i \in 1 .. n + 1 : i - 1 < k \/ s[i - 1].status # "ok"}
  <2>1. CASE k = 0
    BY <1>3, <2>1 DEF Unread
  <2>2. CASE k # 0
    <3>1. 1 \in good
      BY <1>1, <2>2
    <3>2. ASSUME NEW i \in 1 .. n, i \in good PROVE i + 1 \in good
      <4>1. i + 1 \in 1 .. n + 1 /\ (i + 1) - 1 = i /\ (i < k \/ i - 1 >= k \/ i = k)
        BY <1>1
      <4>2. i < k \/ s[i].status # "ok"
        <5>1. i - 1 < k \/ s[i - 1].status # "ok"
          BY <3>2
        <5>2. s[i - 1].status # "ok" => s[i].status # "ok"
          BY <1>5
        <5>3. i - 1 < k => i < k \/ i = k
          BY <1>1
        <5> QED BY <5>1, <5>2, <5>3
      <4> QED BY <4>1, <4>2
    <3> HIDE DEF good
    <3>3. \A i \in 1 .. n + 1 : i \in good
      BY <1>1, <3>1, <3>2, Stepwise
    <3>4. n + 1 \in good /\ (n + 1) - 1 = n /\ ~ n < k
      BY <1>1, <3>3
    <3> QED BY <1>4, <3>4 DEF good
  <2> QED BY <2>1, <2>2
<1> DEFINE v == [k \in 0 .. n |-> s[k].number]
<1>7. /\ \A k \in 0 .. n : v[k] \in Nat
      /\ v[0] = 0
      /\ \A k \in 1 .. n : text[k] \in Nat /\ v[k] = 10 * v[k - 1] + text[k]
  <2>1. \A k \in 0 .. n : v[k] \in Nat
    BY <1>3 DEF Readings
  <2>2. v[0] = 0
    BY <1>1, <1>3 DEF Unread
  <2>3. ASSUME NEW k \in 1 .. n PROVE v[k] = 10 * v[k - 1] + text[k]
    <3>1. k \in 0 .. n /\ k - 1 \in 0 .. n
      BY <1>1
    <3>2. s[k].number = 10 * s[k - 1].number + text[k]
      BY <1>5, <1>6, <3>1
    <3> QED BY <3>1, <3>2
  <2> QED BY <1>1, <2>1, <2>2, <2>3
<1>8. v[n] = s[n].number
  BY <1>1
<1> HIDE DEF v
<1>9. PlaceValue(text) = v[n]
  BY <1>7, DigitsByPlace DEF n
<1>10. s[n].number \in 0 .. MaxUnsigned
  <2>1. MaxUnsigned \in Nat
    BY ConfigurationAssumption
  <2>2. CASE n = 0
    BY <1>3, <2>1, <2>2 DEF Unread
  <2>3. CASE n # 0
    <3>1. n \in 1 .. n /\ n \in 0 .. n
      BY <1>1, <2>3
    <3>2. s[n].number <= limit
      BY <1>4, <1>5, <3>1
    <3>3. s[n].number \in Nat
      BY <1>7, <1>8, <3>1
    <3> QED BY <2>1, <3>2, <3>3
  <2> QED BY <2>2, <2>3
<1>11. \A k \in 1 .. n : text[k] \in 0 .. 9
  <2> TAKE k \in 1 .. n
  <2>1. k \in 0 .. n
    BY <1>1
  <2> QED BY <1>5, <1>6, <2>1
<1> QED BY <1>2, <1>8, <1>9, <1>10, <1>11 DEF n

-----------------------------------------------------------------------------
(* The names of the choices of a schema in order differ.                    *)
LEMMA ChoicesDiffer ==
  ASSUME NEW S, NEW choices \in Seq(S), ChoiceFailure(choices) = "none"
  PROVE  \A i, j \in DOMAIN choices : choices[i].name = choices[j].name => i = j
<1> DEFINE bad == {i \in DOMAIN choices : ~ ChoiceNameValid(choices[i].name)}
           taken == {i \in DOMAIN choices :
                       \E j \in 1 .. i - 1 : \/ choices[j].name = choices[i].name
                                             \/ choices[j].value = choices[i].value}
<1>1. bad \union taken = {}
  <2>1. ChoiceFailure(choices) =
          CASE bad \union taken = {} -> "none"
            [] OTHER -> IF Min(bad \union taken) \in bad THEN "name" ELSE "descriptor"
    BY Zenon DEF ChoiceFailure
  <2> HIDE DEF bad, taken
  <2> QED BY <2>1
<1>2. \A i \in DOMAIN choices : \A j \in 1 .. i - 1 : choices[j].name # choices[i].name
  BY <1>1
<1>3. DOMAIN choices = 1 .. Len(choices) /\ Len(choices) \in Nat
  OBVIOUS
<1> SUFFICES ASSUME NEW i \in DOMAIN choices, NEW j \in DOMAIN choices,
                    choices[i].name = choices[j].name, i # j
             PROVE  FALSE
  OBVIOUS
<1>4. i \in 1 .. j - 1 \/ j \in 1 .. i - 1
  BY <1>3
<1> QED BY <1>2, <1>4

(* A number of either sign that is read is the value of its digits.          *)
LEMMA NumberMeans ==
  ASSUME NEW d \in Descriptors, d.kind \in Kinds, NEW digits \in Seq(Octets), NEW sign \in {1, -1},
         NEW limit \in Nat, limit >= 9, limit <= MaxUnsigned,
         ParseNumber(d, digits, sign, limit).code = "none"
  PROVE  LET parsed == ParseNumber(d, digits, sign, limit)
         IN /\ digits # <<>> /\ digits[1] \in 0 .. 9
            /\ parsed.number = sign * PlaceValue(digits) /\ PlaceValue(digits) \in Nat
            /\ parsed.number \in d.lo .. d.hi /\ parsed.text = <<>>
<1> DEFINE parsed == ParseNumber(d, digits, sign, limit)
           read == ReadDigits(digits, limit)
<1>1. d.kind # "none"
  BY DEF Kinds
<1>2. \A code, answer : Wrong(code, answer).code = code
  BY DEF Wrong
<1>3. digits # <<>> /\ parsed = NumberRead(d, read, sign)
  <2>1. parsed = IF digits = <<>> THEN Wrong(d.kind, "einval") ELSE NumberRead(d, read, sign)
    BY Zenon DEF ParseNumber
  <2> HIDE DEF parsed, read
  <2>2. parsed.code = "none"
    BY DEF parsed
  <2> QED BY <1>1, <1>2, <2>1, <2>2
<1>4. parsed.code = "none"
  OBVIOUS
<1> HIDE DEF parsed
<1>5. read.status = "ok" /\ sign * read.number \in d.lo .. d.hi
      /\ parsed = Right(sign * read.number, <<>>)
  <2> HIDE DEF read
  <2>1. NumberRead(d, read, sign) =
          CASE read.status # "ok" -> Wrong(d.kind, read.status)
            [] OTHER -> IF sign * read.number \in d.lo .. d.hi
                        THEN Right(sign * read.number, <<>>) ELSE Wrong("bounds", "einval")
    BY Zenon DEF NumberRead
  <2> DEFINE number == sign * read.number
             range == d.lo .. d.hi
  <2> HIDE DEF number, range
  <2>2. NumberRead(d, read, sign) =
          IF read.status # "ok" THEN Wrong(d.kind, read.status)
          ELSE IF number \in range THEN Right(number, <<>>) ELSE Wrong("bounds", "einval")
    BY <2>1 DEF number, range
  <2>3. read.status = "ok" /\ number \in range /\ parsed = Right(number, <<>>)
    BY <1>1, <1>2, <1>3, <1>4, <2>2
  <2> QED BY <2>3 DEF number, range
<1>6. /\ read.number = PlaceValue(digits)
      /\ PlaceValue(digits) \in 0 .. MaxUnsigned
      /\ \A k \in 1 .. Len(digits) : digits[k] \in 0 .. 9
  BY <1>5, DigitsMean
<1>7. PlaceValue(digits) \in Nat
  BY <1>6, ConfigurationAssumption
<1>8. digits[1] \in 0 .. 9
  <2>1. 1 \in 1 .. Len(digits)
    BY <1>3
  <2> QED BY <1>6, <2>1
<1> HIDE DEF read
<1>9. parsed.number = sign * PlaceValue(digits) /\ parsed.text = <<>>
      /\ parsed.number \in d.lo .. d.hi
  <2>1. parsed.number = sign * read.number /\ parsed.text = <<>>
    BY <1>5 DEF Right
  <2> QED BY <1>5, <1>6, <2>1
<1> QED BY <1>3, <1>7, <1>8, <1>9 DEF parsed

Means(d, text, parsed) ==
  /\ parsed.number = NumberMeant(d, text)
  /\ parsed.text = (IF d.kind = "utf8" THEN text ELSE <<>>)
  /\ Canonical(d, d.kind, parsed.number, parsed.text)

LEMMA ParseMeans ==
  ASSUME NEW d \in Descriptors, d.kind \in Kinds, ConstraintFailure(d) = "none",
         NEW text \in Seq(Octets), Parse(d, text).code = "none"
  PROVE  Means(d, text, Parse(d, text))
<1> DEFINE parsed == Parse(d, text)
           negative == text # <<>> /\ Head(text) = Minus
           choices == {i \in DOMAIN d.choices : d.choices[i].name = text}
<1>1. parsed =
        CASE d.kind = "bool" ->
               IF text \in {True, False} THEN Right(IF text = True THEN 1 ELSE 0, <<>>)
               ELSE Wrong("bool", "einval")
          [] d.kind = "u64" -> ParseNumber(d, text, 1, MaxUnsigned)
          [] d.kind = "i64" -> IF negative THEN ParseNumber(d, Tail(text), -1, MaxSigned + 1)
                          ELSE ParseNumber(d, text, 1, MaxSigned)
          [] d.kind = "utf8" ->
               CASE text = <<>> /\ "empty" \notin d.flags -> Wrong("empty", "einval")
                 [] Len(text) > d.hi -> Wrong("length", "einval")
                 [] OTHER -> IF ~ Utf8Valid(text) THEN Wrong("utf8", "einval")
                             ELSE Right(0, text)
          [] OTHER -> IF choices = {} THEN Wrong("enum", "einval")
                      ELSE Right(d.choices[Min(choices)].value, <<>>)
  BY Zenon DEF Parse
<1>2. parsed.code = "none"
  OBVIOUS
<1> HIDE DEF parsed, choices, negative
<1>3. \A code, answer : Wrong(code, answer).code = code
  BY DEF Wrong
<1>4. \A number, words : /\ Right(number, words).number = number
                         /\ Right(number, words).text = words
  BY DEF Right
<1>5. MaxUnsigned \in Nat /\ MaxSigned \in Nat /\ MaxSigned >= 9 /\ MaxUnsigned > MaxSigned
  BY ConfigurationAssumption
<1>6. d.lo \in Int /\ d.hi \in Int
  BY DEF Descriptors
<1>7. CASE d.kind = "bool"
  <2>1. parsed = Right(IF text = True THEN 1 ELSE 0, <<>>)
    <3>1. parsed = IF text \in {True, False} THEN Right(IF text = True THEN 1 ELSE 0, <<>>)
                   ELSE Wrong("bool", "einval")
      BY <1>1, <1>7
    <3> QED BY <1>2, <1>3, <3>1
  <2>2. NumberMeant(d, text) = IF text = True THEN 1 ELSE 0
    BY <1>7 DEF NumberMeant
  <2>3. parsed.number = (IF text = True THEN 1 ELSE 0) /\ parsed.text = <<>>
    BY <1>4, <2>1
  <2>4. parsed.number \in {0, 1}
    BY <2>3
  <2>5. Canonical(d, d.kind, parsed.number, parsed.text)
    BY <1>7, <2>3, <2>4 DEF Canonical
  <2>6. Means(d, text, parsed)
    BY <1>7, <2>2, <2>3, <2>5 DEF Means
  <2> QED BY <2>6 DEF parsed
<1>8. CASE d.kind = "u64"
  <2>1. parsed = ParseNumber(d, text, 1, MaxUnsigned)
    BY <1>1, <1>8
  <2>2. /\ text # <<>> /\ text[1] \in 0 .. 9
        /\ parsed.number = 1 * PlaceValue(text) /\ PlaceValue(text) \in Nat
        /\ parsed.number \in d.lo .. d.hi /\ parsed.text = <<>>
    <3>1. MaxUnsigned \in Nat /\ MaxUnsigned >= 9 /\ MaxUnsigned <= MaxUnsigned
          /\ 1 \in {1, -1}
      BY <1>5
    <3> QED BY <1>2, <2>1, <3>1, NumberMeans
  <2>3. text[1] # Minus
    BY <2>2 DEF Minus
  <2>4. NumberMeant(d, text) = PlaceValue(text)
    BY <1>8, <2>3 DEF NumberMeant
  <2>5. Canonical(d, d.kind, parsed.number, parsed.text)
    BY <1>8, <2>2 DEF Canonical
  <2>6. Means(d, text, parsed)
    BY <1>8, <2>2, <2>4, <2>5 DEF Means
  <2> QED BY <2>6 DEF parsed
<1>9. CASE d.kind = "i64" /\ ~ negative
  <2>1. parsed = ParseNumber(d, text, 1, MaxSigned)
    BY <1>1, <1>9
  <2>2. /\ text # <<>> /\ text[1] \in 0 .. 9
        /\ parsed.number = 1 * PlaceValue(text) /\ PlaceValue(text) \in Nat
        /\ parsed.number \in d.lo .. d.hi /\ parsed.text = <<>>
    <3>1. MaxSigned \in Nat /\ MaxSigned >= 9 /\ MaxSigned <= MaxUnsigned /\ 1 \in {1, -1}
      BY <1>5
    <3> QED BY <1>2, <2>1, <3>1, NumberMeans
  <2>3. text[1] # Minus
    BY <2>2 DEF Minus
  <2>4. NumberMeant(d, text) = PlaceValue(text)
    BY <1>9, <2>3 DEF NumberMeant
  <2>5. Canonical(d, d.kind, parsed.number, parsed.text)
    BY <1>9, <2>2 DEF Canonical
  <2>6. Means(d, text, parsed)
    BY <1>9, <2>2, <2>4, <2>5 DEF Means
  <2> QED BY <2>6 DEF parsed
<1>10. CASE d.kind = "i64" /\ negative
  <2>1. parsed = ParseNumber(d, Tail(text), -1, MaxSigned + 1)
    BY <1>1, <1>10
  <2> DEFINE digits == Tail(text)
  <2>2. digits \in Seq(Octets) /\ text[1] = Minus
    BY <1>10 DEF negative
  <2> HIDE DEF digits
  <2>3. /\ parsed.number = (-1) * PlaceValue(digits) /\ PlaceValue(digits) \in Nat
        /\ parsed.number \in d.lo .. d.hi /\ parsed.text = <<>>
    <3>1. MaxSigned + 1 \in Nat /\ MaxSigned + 1 >= 9 /\ MaxSigned + 1 <= MaxUnsigned
          /\ -1 \in {1, -1}
      BY <1>5
    <3>2. parsed = ParseNumber(d, digits, -1, MaxSigned + 1)
      BY <2>1 DEF digits
    <3> QED BY <1>2, <2>2, <3>1, <3>2, NumberMeans
  <2>4. NumberMeant(d, text) = - PlaceValue(digits)
    BY <1>10, <2>2 DEF NumberMeant, digits
  <2>5. Canonical(d, d.kind, parsed.number, parsed.text)
    BY <1>10, <2>3 DEF Canonical
  <2>6. Means(d, text, parsed)
    BY <1>10, <2>3, <2>4, <2>5 DEF Means
  <2> QED BY <2>6 DEF parsed
<1>11. CASE d.kind = "utf8"
  <2>1. /\ ~ (text = <<>> /\ "empty" \notin d.flags) /\ ~ Len(text) > d.hi
        /\ Utf8Valid(text) /\ parsed = Right(0, text)
    <3> DEFINE short == text = <<>> /\ "empty" \notin d.flags
               long == Len(text) > d.hi
               valid == Utf8Valid(text)
    <3> HIDE DEF short, long, valid
    <3>1. parsed = CASE short -> Wrong("empty", "einval")
                     [] long -> Wrong("length", "einval")
                     [] OTHER -> IF ~ valid THEN Wrong("utf8", "einval") ELSE Right(0, text)
      BY <1>1, <1>11 DEF short, long, valid
    <3>2. ~ short /\ ~ long /\ valid /\ parsed = Right(0, text)
      BY <1>2, <1>3, <3>1
    <3> QED BY <3>2 DEF short, long, valid
  <2>2. parsed.number = 0 /\ parsed.text = text /\ NumberMeant(d, text) = 0
    BY <1>4, <1>11, <2>1 DEF NumberMeant
  <2>3. Len(text) \in (IF "empty" \in d.flags THEN 0 ELSE 1) .. d.hi
    <3>1. Len(text) \in Nat /\ (text # <<>> => Len(text) >= 1)
      OBVIOUS
    <3> QED BY <1>6, <2>1, <3>1
  <2>4. Canonical(d, d.kind, parsed.number, parsed.text)
    BY <1>11, <2>1, <2>2, <2>3 DEF Canonical
  <2>5. Means(d, text, parsed)
    BY <1>11, <2>2, <2>4 DEF Means
  <2> QED BY <2>5 DEF parsed
<1>12. CASE d.kind = "enum"
  <2>1. choices # {} /\ parsed = Right(d.choices[Min(choices)].value, <<>>)
    <3>1. parsed = IF choices = {} THEN Wrong("enum", "einval")
                   ELSE Right(d.choices[Min(choices)].value, <<>>)
      BY <1>1, <1>12
    <3> QED BY <1>2, <1>3, <3>1
  <2>2. PICK i \in DOMAIN d.choices : i = Min(choices) /\ d.choices[i].name = text
    <3>1. choices \subseteq Nat
      <4>1. DOMAIN d.choices \subseteq Nat
        BY DEF Descriptors
      <4> QED BY <4>1 DEF choices
    <3>2. Min(choices) \in choices
      BY <2>1, <3>1, MinIsLeast
    <3> QED BY <3>2 DEF choices
  <2>3. \A c \in Range(d.choices) : c.name = text => c = d.choices[i]
    <3>1. d.choices \in Seq([name : Seq(Octets), value : Int])
      BY DEF Descriptors
    <3>2. ChoiceFailure(d.choices) = "none"
      BY <1>12 DEF ConstraintFailure
    <3>3. \A j \in DOMAIN d.choices : d.choices[j].name = text => j = i
      BY <2>2, <3>1, <3>2, ChoicesDiffer
    <3> QED BY <3>3 DEF Range
  <2>4. d.choices[i] \in Range(d.choices)
    BY DEF Range
  <2>5. (CHOOSE c \in Range(d.choices) : c.name = text) = d.choices[i]
    BY <2>2, <2>3, <2>4
  <2>6. NumberMeant(d, text) = d.choices[i].value
    BY <1>12, <2>5 DEF NumberMeant
  <2>7. parsed.number = d.choices[i].value /\ parsed.text = <<>>
    BY <1>4, <2>1, <2>2
  <2>8. Canonical(d, d.kind, parsed.number, parsed.text)
    BY <1>12, <2>4, <2>7 DEF Canonical
  <2>9. Means(d, text, parsed)
    BY <1>12, <2>6, <2>7, <2>8 DEF Means
  <2> QED BY <2>9 DEF parsed
<1> QED BY <1>7, <1>8, <1>9, <1>10, <1>11, <1>12 DEF Kinds

-----------------------------------------------------------------------------
(* What a schema that is accepted is.                                       *)
LEMMA AllOfFirst ==
  ASSUME NEW failures, DOMAIN failures \subseteq Nat, First(failures) = NoFailure
  PROVE  \A i \in DOMAIN failures : failures[i] = NoFailure
<1>1. \/ /\ First(failures) = NoFailure
         /\ \A i \in DOMAIN failures : failures[i] = NoFailure
      \/ \E i \in DOMAIN failures : /\ First(failures) = failures[i] /\ failures[i] # NoFailure
                                    /\ \A j \in DOMAIN failures : j < i => failures[j] = NoFailure
  BY FirstIsOne
<1> QED BY <1>1

DescriptorValid(schema, k) ==
  /\ FlagsValid(schema[k]) /\ schema[k].kind \in Kinds
  /\ NameFailure(schema, k) = "none" /\ ConstraintFailure(schema[k]) = "none"
  /\ DefaultValid(schema[k])

LEMMA SchemaValid ==
  ASSUME NEW schema, DOMAIN schema \subseteq Nat, ValidateSchema(schema) = NoFailure,
         NEW k \in DOMAIN schema
  PROVE  DescriptorValid(schema, k)
<1>1. DescriptorFailure(schema, k) = NoFailure
  <2> DEFINE list == [j \in DOMAIN schema |-> DescriptorFailure(schema, j)]
  <2>1. First(list) = NoFailure /\ DOMAIN list \subseteq Nat
    BY DEF ValidateSchema
  <2>2. k \in DOMAIN list /\ list[k] = DescriptorFailure(schema, k)
    OBVIOUS
  <2> HIDE DEF list
  <2>3. list[k] = NoFailure
    BY <2>1, <2>2, AllOfFirst
  <2> QED BY <2>2, <2>3
<1> DEFINE Coded(code) == IF code = "none" THEN NoFailure
                          ELSE Failure(code, "none", 0, k, "einval")
           flags == Coded(IF FlagsValid(schema[k]) THEN "none" ELSE "flags")
           kind == Coded(IF schema[k].kind \in Kinds THEN "none" ELSE "descriptor")
           name == Coded(NameFailure(schema, k))
           constraint == Coded(ConstraintFailure(schema[k]))
           default == IF DefaultValid(schema[k]) THEN NoFailure
                      ELSE Failure("default", "default", k, k, "einval")
           list == <<flags, kind, name, constraint, default>>
<1>2. First(list) = NoFailure
  <2>1. DescriptorFailure(schema, k) = First(list)
    BY Zenon DEF DescriptorFailure
  <2> HIDE DEF list
  <2> QED BY <1>1, <2>1
<1>3. \A code : Coded(code) = NoFailure => code = "none"
  BY DEF Failure, NoFailure
<1>4. default = NoFailure => DefaultValid(schema[k])
  BY DEF Failure, NoFailure
<1> HIDE DEF flags, kind, name, constraint, default
<1>5. flags = NoFailure /\ kind = NoFailure /\ name = NoFailure
      /\ constraint = NoFailure /\ default = NoFailure
  <2>1. /\ DOMAIN list = 1 .. 5 /\ list[1] = flags /\ list[2] = kind /\ list[3] = name
        /\ list[4] = constraint /\ list[5] = default
    OBVIOUS
  <2>2. 1 .. 5 \subseteq Nat /\ 1 \in 1 .. 5 /\ 2 \in 1 .. 5 /\ 3 \in 1 .. 5 /\ 4 \in 1 .. 5
        /\ 5 \in 1 .. 5
    OBVIOUS
  <2> HIDE DEF list
  <2>3. \A i \in 1 .. 5 : list[i] = NoFailure
    BY <1>2, <2>1, <2>2, AllOfFirst
  <2> QED BY <2>1, <2>2, <2>3
<1>6. FlagsValid(schema[k])
  <2>1. (IF FlagsValid(schema[k]) THEN "none" ELSE "flags") = "none"
    BY <1>3, <1>5 DEF flags
  <2> QED BY <2>1
<1>7. schema[k].kind \in Kinds
  <2>1. (IF schema[k].kind \in Kinds THEN "none" ELSE "descriptor") = "none"
    BY <1>3, <1>5 DEF kind
  <2> QED BY <2>1
<1>8. NameFailure(schema, k) = "none"
  BY <1>3, <1>5 DEF name
<1>9. ConstraintFailure(schema[k]) = "none"
  BY <1>3, <1>5 DEF constraint
<1> QED BY <1>4, <1>5, <1>6, <1>7, <1>8, <1>9 DEF DescriptorValid

(* A key has its names to itself, so that a name finds its key.              *)
SchemaOk(in) == IsInput(in) /\ ValidateSchema(in.schema) = NoFailure

LEMMA SchemaIs ==
  ASSUME NEW in, SchemaOk(in)
  PROVE  /\ Len(in.schema) \in Nat /\ DOMAIN in.schema = 1 .. Len(in.schema)
         /\ \A k \in DOMAIN in.schema :
              in.schema[k] \in Descriptors /\ DescriptorValid(in.schema, k)
<1>1. in.schema \in Seq(Descriptors)
  BY DEF SchemaOk, IsInput
<1>2. Len(in.schema) \in Nat /\ DOMAIN in.schema = 1 .. Len(in.schema)
  BY <1>1
<1>3. DOMAIN in.schema \subseteq Nat
  BY <1>2
<1>4. \A k \in DOMAIN in.schema : DescriptorValid(in.schema, k)
  BY <1>3, SchemaValid DEF SchemaOk
<1> QED BY <1>1, <1>2, <1>4

LEMMA NamesDiffer ==
  ASSUME NEW in, SchemaOk(in), NEW c \in 1 .. 3, NEW j \in DOMAIN in.schema,
         NEW k \in DOMAIN in.schema,
         in.schema[j].names[Classes[c]] = in.schema[k].names[Classes[c]]
  PROVE  j = k
<1> DEFINE schema == in.schema
<1>1. /\ Len(schema) \in Nat /\ DOMAIN schema = 1 .. Len(schema)
      /\ \A i \in DOMAIN schema : NameFailure(schema, i) = "none"
  BY SchemaIs DEF DescriptorValid
<1>2. Classes[c] = Namespaces[c + 1] /\ c + 1 \in 1 .. 4
  BY DEF Classes, Namespaces
<1>3. ASSUME NEW b \in DOMAIN schema, NEW a \in 1 .. b - 1
      PROVE  schema[a].names[Classes[c]] # schema[b].names[Classes[c]]
  <2> DEFINE Name(i, n) == schema[i].names[Namespaces[n]]
             bad == {n \in 1 .. 4 : Name(b, n) \in BadNames}
             taken == {n \in 1 .. 4 : \E i \in 1 .. b - 1 : Name(i, n) = Name(b, n)}
  <2>1. NameFailure(schema, b) =
          CASE bad \union taken = {} -> "none"
            [] OTHER -> IF Min(bad \union taken) \in bad THEN "name" ELSE "duplicate_name"
    BY Zenon DEF NameFailure
  <2>2. NameFailure(schema, b) = "none"
    BY <1>1
  <2>3. bad \union taken = {}
    <3> HIDE DEF bad, taken, schema
    <3> QED BY <2>1, <2>2
  <2>4. c + 1 \notin taken
    BY <2>3
  <2>5. ~ (Name(a, c + 1) = Name(b, c + 1))
    BY <1>2, <2>4
  <2> QED BY <1>2, <2>5
<1>4. j = k \/ j \in 1 .. k - 1 \/ k \in 1 .. j - 1
  BY <1>1
<1> QED BY <1>3, <1>4

LEMMA FoundIs ==
  ASSUME NEW in, SchemaOk(in), NEW c \in 1 .. 3, NEW name
  PROVE  /\ Find(in.schema, Classes[c], name) \in {0} \union DOMAIN in.schema
         /\ \A k \in DOMAIN in.schema :
              Find(in.schema, Classes[c], name) = k <=> in.schema[k].names[Classes[c]] = name
<1> DEFINE named == {k \in DOMAIN in.schema : in.schema[k].names[Classes[c]] = name}
<1>1. Find(in.schema, Classes[c], name) = IF named = {} THEN 0 ELSE Min(named)
  BY Zenon DEF Find
<1>2. Len(in.schema) \in Nat /\ DOMAIN in.schema = 1 .. Len(in.schema)
  BY SchemaIs
<1>3. \A j, k \in named : j = k
  BY NamesDiffer
<1>4. named \subseteq DOMAIN in.schema /\ named \subseteq Nat
  BY <1>2
<1>5. named # {} => Min(named) \in named
  <2> HIDE DEF named
  <2> QED BY <1>4, MinIsLeast
<1>6. \A k \in DOMAIN in.schema : k \in named <=> in.schema[k].names[Classes[c]] = name
  OBVIOUS
<1>7. 0 \notin DOMAIN in.schema
  BY <1>2
<1> HIDE DEF named
<1>8. Find(in.schema, Classes[c], name) \in {0} \union DOMAIN in.schema
  BY <1>1, <1>4, <1>5
<1>9. \A k \in DOMAIN in.schema : Find(in.schema, Classes[c], name) = k <=> k \in named
  BY <1>1, <1>3, <1>5, <1>7
<1> QED BY <1>6, <1>8, <1>9

-----------------------------------------------------------------------------
(* What sources that are accepted are.                                      *)
SourcesOk(in) == SchemaOk(in) /\ ValidateSources(in.schema, in.sources) = NoFailure

LEMMA RecordsAre ==
  ASSUME NEW in, IsInput(in), NEW c \in 1 .. 3
  PROVE  /\ in.sources[Classes[c]] \in Seq(Records)
         /\ Len(in.sources[Classes[c]]) \in Nat
         /\ DOMAIN in.sources[Classes[c]] = 1 .. Len(in.sources[Classes[c]])
<1>1. Classes[c] \in Range(Classes)
  BY DEF Range, Classes
<1>2. in.sources[Classes[c]] \in Seq(Records)
  BY <1>1 DEF IsInput
<1> QED BY <1>2

LEMMA RecordsValid ==
  ASSUME NEW in, SourcesOk(in), NEW c \in 1 .. 3, NEW r \in DOMAIN in.sources[Classes[c]]
  PROVE  RecordFailure(in.schema, Classes[c], in.sources[Classes[c]], r) = NoFailure
<1> DEFINE Class(j) == ValidateClass(in.schema, Classes[j], in.sources[Classes[j]])
           list == [j \in 1 .. 3 |-> Class(j)]
           records == in.sources[Classes[c]]
           Record(q) == RecordFailure(in.schema, Classes[c], records, q)
           row == [q \in DOMAIN records |-> Record(q)]
<1>1. IsInput(in) /\ First(list) = NoFailure
  <2>1. ValidateSources(in.schema, in.sources) = First(list)
    BY Zenon DEF ValidateSources
  <2> HIDE DEF list
  <2> QED BY <2>1 DEF SourcesOk, SchemaOk
<1>2. list[c] = NoFailure
  <2>1. DOMAIN list = 1 .. 3 /\ DOMAIN list \subseteq Nat
    OBVIOUS
  <2> HIDE DEF list
  <2> QED BY <1>1, <2>1, AllOfFirst
<1>3. Class(c) = NoFailure
  BY <1>2
<1>4. First(row) = NoFailure
  <2>1. Class(c) = First(row)
    BY Zenon DEF ValidateClass
  <2> HIDE DEF row, Class
  <2> QED BY <1>3, <2>1
<1>5. DOMAIN row = DOMAIN records /\ DOMAIN row \subseteq Nat /\ row[r] = Record(r)
  <2>1. DOMAIN records \subseteq Nat
    BY <1>1, RecordsAre
  <2>2. DOMAIN row = DOMAIN records /\ row[r] = Record(r)
    OBVIOUS
  <2> QED BY <2>1, <2>2
<1> HIDE DEF row, Record
<1>6. row[r] = NoFailure
  BY <1>4, <1>5, AllOfFirst
<1> QED BY <1>5, <1>6 DEF Record

(* A record that assigns a key says so: it is the only one of its class, and *)
(* its text is one of the key.                                               *)
LEMMA AssignmentIs ==
  ASSUME NEW in, SourcesOk(in), NEW c \in 1 .. 3, NEW k \in DOMAIN in.schema,
         NEW r \in DOMAIN in.sources[Classes[c]]
  PROVE  LET records == in.sources[Classes[c]]
         IN /\ KeyOf(in.schema, Classes[c], records[r]) = k <=> r \in Assignments(in, Classes[c], k)
            /\ r \in Assignments(in, Classes[c], k) =>
                 /\ ~ SeenBefore(in.schema, Classes[c], records, r, k)
                 /\ Parse(in.schema[k], records[r].value).code = "none"
                 /\ records[r].value \in Seq(Octets)
<1> DEFINE record == in.sources[Classes[c]][r]
           class == Classes[c]
<1>1. SchemaOk(in) /\ IsInput(in)
  BY DEF SourcesOk, SchemaOk
<1>2. record \in Records
  <2> DEFINE records == in.sources[Classes[c]]
  <2>1. records \in Seq(Records) /\ r \in DOMAIN records
    BY <1>1, RecordsAre
  <2> HIDE DEF records
  <2>2. records[r] \in Records
    BY <2>1
  <2> QED BY <2>2 DEF records
<1>3. Find(in.schema, class, record.name) = k <=> in.schema[k].names[class] = record.name
  BY <1>1, FoundIs
<1>4. k # 0
  BY <1>1, SchemaIs
<1>5. KeyOf(in.schema, class, record) = k
        <=> record.form = "assign" /\ record.name = in.schema[k].names[class]
  <2>1. KeyOf(in.schema, class, record) =
          IF record.form = "assign" THEN Find(in.schema, class, record.name) ELSE 0
    BY Zenon DEF KeyOf
  <2> HIDE DEF record, class
  <2> QED BY <1>3, <1>4, <2>1
<1>6. r \in Assignments(in, class, k)
        <=> record.form = "assign" /\ record.name = in.schema[k].names[class]
  BY DEF Assignments
<1>7. ASSUME r \in Assignments(in, class, k)
      PROVE  /\ ~ SeenBefore(in.schema, class, in.sources[class], r, k)
             /\ Parse(in.schema[k], record.value).code = "none"
  <2> DEFINE found == Find(in.schema, class, record.name)
             seen == SeenBefore(in.schema, class, in.sources[class], r, found)
             parsed == Parse(in.schema[found], record.value)
             Refuse(code, key, answer) == Failure(code, class, r - 1, key, answer)
             judged == IF parsed.code = "none" THEN NoFailure
                       ELSE Refuse(parsed.code, found, parsed.status)
  <2>1. RecordFailure(in.schema, class, in.sources[class], r) =
          CASE record.form = "skip" -> NoFailure
            [] record.form = "control" -> Refuse("nul", 0, "einval")
            [] record.form = "broken" -> Refuse("syntax", 0, "einval")
            [] OTHER ->
                 IF found = 0 THEN Refuse("unknown", 0, "enoent")
                 ELSE IF seen THEN Refuse("duplicate", found, "einval") ELSE judged
    BY Zenon DEF RecordFailure
  <2>2. RecordFailure(in.schema, class, in.sources[class], r) = NoFailure
    BY RecordsValid
  <2>3. record.form = "assign" /\ found = k
    BY <1>3, <1>6, <1>7
  <2>4. Refuse("duplicate", found, "einval") # NoFailure
    BY DEF Failure, NoFailure
  <2>5. parsed.code # "none" => judged # NoFailure
    BY DEF Failure, NoFailure
  <2> HIDE DEF found, seen, judged, record, class, Refuse, parsed
  <2>6. ~ seen /\ judged = NoFailure
    BY <1>4, <2>1, <2>2, <2>3, <2>4
  <2>7. parsed.code = "none"
    BY <2>5, <2>6
  <2>8. found = k
    BY <2>3
  <2> QED BY <2>6, <2>7, <2>8 DEF seen, parsed
<1>8. record.value \in Seq(Octets)
  BY <1>2 DEF Records
<1> QED BY <1>5, <1>6, <1>7, <1>8

LEMMA OneAssignment ==
  ASSUME NEW in, SourcesOk(in), NEW c \in 1 .. 3, NEW k \in DOMAIN in.schema
  PROVE  /\ Assignments(in, Classes[c], k) \subseteq DOMAIN in.sources[Classes[c]]
         /\ \A q, r \in Assignments(in, Classes[c], k) : q = r
         /\ Cardinality(Assignments(in, Classes[c], k)) <= 1
<1> DEFINE A == Assignments(in, Classes[c], k)
           records == in.sources[Classes[c]]
<1>1. A \subseteq DOMAIN records
  BY DEF Assignments
<1>2. DOMAIN records = 1 .. Len(records) /\ Len(records) \in Nat
  <2>1. IsInput(in)
    BY DEF SourcesOk, SchemaOk
  <2> QED BY <2>1, RecordsAre
<1>3. ASSUME NEW q \in A, NEW r \in A, q \in 1 .. r - 1
      PROVE  FALSE
  <2>1. KeyOf(in.schema, Classes[c], records[q]) = k
    BY <1>1, AssignmentIs
  <2>2. ~ SeenBefore(in.schema, Classes[c], records, r, k)
    BY <1>1, AssignmentIs
  <2> HIDE DEF records, A
  <2> QED BY <1>3, <2>1, <2>2 DEF SeenBefore
<1>4. \A q, r \in A : q = r
  <2> TAKE q, r \in A
  <2>1. q \in 1 .. Len(records) /\ r \in 1 .. Len(records)
    BY <1>1, <1>2
  <2>2. q = r \/ q \in 1 .. r - 1 \/ r \in 1 .. q - 1
    BY <1>2, <2>1
  <2> QED BY <1>3, <2>2
<1>5. Cardinality(A) <= 1
  <2> HIDE DEF A
  <2>1. CASE A = {}
    <3>1. Cardinality(A) = 0
      BY <2>1, FS_EmptySet
    <3> QED BY <3>1
  <2>2. CASE A # {}
    <3>1. PICK r : A = {r}
      BY <1>4, <2>2
    <3>2. Cardinality(A) = 1
      BY <3>1, FS_Singleton
    <3> QED BY <3>2
  <2> QED BY <2>1, <2>2
<1> QED BY <1>1, <1>4, <1>5

(* So a class leaves a resolution alone, or makes it that assignment.        *)
AssignedBy(in, c, k, r) ==
  Resolved(Parse(in.schema[k], in.sources[Classes[c]][r].value), Classes[c], r - 1)

LEMMA OverlayIs ==
  ASSUME NEW in, SourcesOk(in), NEW c \in 1 .. 3, NEW k \in DOMAIN in.schema, NEW resolution
  PROVE  LET new == Overlay(in.schema, Classes[c], in.sources[Classes[c]], k, resolution)
         IN /\ Assignments(in, Classes[c], k) = {} => new = resolution
            /\ \A r \in Assignments(in, Classes[c], k) : new = AssignedBy(in, c, k, r)
<1> DEFINE A == Assignments(in, Classes[c], k)
           records == in.sources[Classes[c]]
           n == Len(records)
           Value(r) == AssignedBy(in, c, k, r)
           new == Overlay(in.schema, Classes[c], records, k, resolution)
<1>0. IsInput(in)
  BY DEF SourcesOk, SchemaOk
<1>1. DOMAIN records = 1 .. n /\ n \in Nat /\ records \in Seq(Records)
  BY <1>0, RecordsAre
<1>2. /\ A \subseteq 1 .. n /\ \A q, r \in A : q = r
  BY <1>1, OneAssignment
<1>3. PICK s : OverlaySteps(s, in.schema, Classes[c], records, k, resolution)
  <2> HIDE DEF records
  <2> QED BY <1>1, OverlayHasStates
<1>4. /\ s[0] = resolution
      /\ \A r \in 1 .. n : s[r] = Overlaid(in.schema, Classes[c], records, k, s[r - 1], r)
      /\ s[n] = new
  BY <1>3 DEF OverlaySteps
<1>5. \A r \in 1 .. n : s[r] = IF r \in A THEN Value(r) ELSE s[r - 1]
  <2> TAKE r \in 1 .. n
  <2>1. KeyOf(in.schema, Classes[c], records[r]) = k <=> r \in A
    BY <1>1, AssignmentIs
  <2>2. s[r] = IF KeyOf(in.schema, Classes[c], records[r]) = k THEN Value(r) ELSE s[r - 1]
    BY <1>4 DEF Overlaid, AssignedBy
  <2> HIDE DEF A, Value
  <2> QED BY <2>1, <2>2
<1> HIDE DEF A, Value, new, n, records
<1>6. ASSUME NEW r \in A PROVE s[n] = Value(r)
  <2> DEFINE good == {i \in 1 .. n + 1 : i - 1 < r \/ s[i - 1] = Value(r)}
  <2>1. 1 \in good
    BY <1>1, <1>2
  <2>2. ASSUME NEW i \in 1 .. n, i \in good PROVE i + 1 \in good
    <3>1. i + 1 \in 1 .. n + 1 /\ (i + 1) - 1 = i /\ (i < r \/ i = r \/ (i > r /\ ~ i - 1 < r))
      BY <1>1, <1>2
    <3>2. i = r => s[i] = Value(r)
      BY <1>5
    <3>3. i > r => s[i] = s[i - 1]
      <4>1. i > r => i # r
        BY <1>1, <1>2
      <4>2. i # r => i \notin A
        BY <1>2
      <4> QED BY <1>5, <4>1, <4>2
    <3>4. i < r \/ s[i] = Value(r)
      BY <2>2, <3>1, <3>2, <3>3
    <3> QED BY <3>1, <3>4
  <2> HIDE DEF good
  <2>3. \A i \in 1 .. n + 1 : i \in good
    BY <1>1, <2>1, <2>2, Stepwise
  <2>4. n + 1 \in good /\ (n + 1) - 1 = n /\ ~ n < r
    BY <1>1, <1>2, <2>3
  <2> QED BY <2>4 DEF good
<1>7. ASSUME A = {} PROVE s[n] = resolution
  <2> DEFINE good == {i \in 1 .. n + 1 : s[i - 1] = resolution}
  <2>1. 1 \in good
    BY <1>1, <1>4
  <2>2. ASSUME NEW i \in 1 .. n, i \in good PROVE i + 1 \in good
    <3>1. i + 1 \in 1 .. n + 1 /\ (i + 1) - 1 = i
      BY <1>1
    <3>2. s[i] = s[i - 1]
      BY <1>5, <1>7
    <3> QED BY <2>2, <3>1, <3>2
  <2> HIDE DEF good
  <2>3. \A i \in 1 .. n + 1 : i \in good
    BY <1>1, <2>1, <2>2, Stepwise
  <2>4. n + 1 \in good /\ (n + 1) - 1 = n
    BY <1>1, <2>3
  <2> QED BY <2>4 DEF good
<1>8. (A = {} => new = resolution) /\ \A r \in A : new = Value(r)
  BY <1>4, <1>6, <1>7
<1> QED BY <1>8 DEF A, Value, new, records

(* A key resolves to the assignment of the highest class that has one.       *)
LEMMA ResolutionIs ==
  ASSUME NEW in, SourcesOk(in), NEW k \in DOMAIN in.schema
  PROVE  /\ Assigning(in, k) = {} =>
              Resolve(in.schema, in.sources, k) = Initially(in.schema, k)
         /\ Assigning(in, k) # {} =>
              /\ Max(Assigning(in, k)) \in 1 .. 3
              /\ Assignments(in, Classes[Max(Assigning(in, k))], k) # {}
              /\ \A r \in Assignments(in, Classes[Max(Assigning(in, k))], k) :
                   Resolve(in.schema, in.sources, k)
                     = AssignedBy(in, Max(Assigning(in, k)), k, r)
<1> DEFINE A(c) == Assignments(in, Classes[c], k)
           T == Assigning(in, k)
           settled == Resolve(in.schema, in.sources, k)
           initial == Initially(in.schema, k)
           Value(c, r) == AssignedBy(in, c, k, r)
<1>1. IsInput(in)
  BY DEF SourcesOk, SchemaOk
<1>2. PICK s : ResolveSteps(s, in, k)
  BY <1>1, ResolveHasStates
<1>3. s[0] = initial /\ s[3] = settled
      /\ \A c \in 1 .. 3 :
           s[c] = Overlay(in.schema, Classes[c], in.sources[Classes[c]], k, s[c - 1])
  BY <1>2 DEF ResolveSteps
<1>4. ASSUME NEW c \in 1 .. 3
      PROVE  /\ A(c) = {} => s[c] = s[c - 1]
             /\ \A r \in A(c) : s[c] = Value(c, r)
  <2> DEFINE before == s[c - 1]
  <2>1. s[c] = Overlay(in.schema, Classes[c], in.sources[Classes[c]], k, before)
    BY <1>3
  <2> HIDE DEF before
  <2>2. LET new == Overlay(in.schema, Classes[c], in.sources[Classes[c]], k, before)
        IN /\ Assignments(in, Classes[c], k) = {} => new = before
           /\ \A r \in Assignments(in, Classes[c], k) : new = AssignedBy(in, c, k, r)
    BY OverlayIs
  <2> QED BY <2>1, <2>2 DEF before
<1>5. T = {c \in 1 .. 3 : A(c) # {}}
  BY Zenon DEF Assigning
<1> HIDE DEF A, Value, initial, settled
<1>6. /\ s[1] = s[0] \/ A(1) # {}
      /\ s[2] = s[1] \/ A(2) # {}
      /\ s[3] = s[2] \/ A(3) # {}
  <2>1. 1 \in 1 .. 3 /\ 2 \in 1 .. 3 /\ 3 \in 1 .. 3 /\ 1 - 1 = 0 /\ 2 - 1 = 1 /\ 3 - 1 = 2
    OBVIOUS
  <2> QED BY <1>4, <2>1
<1> HIDE DEF T
<1>7. ASSUME T = {} PROVE settled = initial
  <2>1. A(1) = {} /\ A(2) = {} /\ A(3) = {}
    BY <1>5, <1>7
  <2> QED BY <1>3, <1>6, <2>1
<1>8. ASSUME T # {}
      PROVE  Max(T) \in 1 .. 3 /\ A(Max(T)) # {} /\ \A r \in A(Max(T)) : settled = Value(Max(T), r)
  <2>1. T \subseteq 0 .. 3
    BY <1>5
  <2>2. PICK m : m = Max(T)
    OBVIOUS
  <2>3. m \in T /\ \A c \in T : c <= m
    BY <1>8, <2>1, <2>2, MaxIsGreatest
  <2>4. m \in 1 .. 3 /\ A(m) # {} /\ \A c \in 1 .. 3 : c > m => A(c) = {}
    <3>1. m \in 1 .. 3 /\ A(m) # {}
      BY <1>5, <2>3
    <3>2. ASSUME NEW c \in 1 .. 3, c > m PROVE A(c) = {}
      BY <1>5, <2>3, <3>1, <3>2
    <3> QED BY <3>1, <3>2
  <2>5. s[3] = s[m]
    <3>1. m = 1 \/ m = 2 \/ m = 3
      BY <2>4
    <3>2. CASE m = 1
      <4>1. A(2) = {} /\ A(3) = {}
        BY <2>4, <3>2
      <4> QED BY <1>6, <3>2, <4>1
    <3>3. CASE m = 2
      <4>1. A(3) = {}
        BY <2>4, <3>3
      <4> QED BY <1>6, <3>3, <4>1
    <3>4. CASE m = 3
      BY <3>4
    <3> QED BY <3>1, <3>2, <3>3, <3>4
  <2>6. \A r \in A(m) : settled = Value(m, r)
    BY <1>3, <1>4, <2>4, <2>5
  <2> QED BY <2>2, <2>4, <2>6
<1> QED BY <1>7, <1>8 DEF A, T, Value, initial, settled

-----------------------------------------------------------------------------
(* What an input that is accepted is.                                       *)
Accepted(in) == SourcesOk(in) /\ \A k \in DOMAIN in.schema : Resolve(in.schema, in.sources, k).present

LEMMA AcceptedIs ==
  ASSUME NEW in, IsInput(in), Analyze(in.schema, in.sources) = NoFailure
  PROVE  Accepted(in)
<1>1. Len(in.schema) \in Nat /\ DOMAIN in.schema = 1 .. Len(in.schema)
  BY DEF IsInput
<1>2. PICK list : AnalysisSteps(list, in)
  BY AnalysisHasSteps
<1>3. DOMAIN list = 1 .. 2 + Len(in.schema) /\ First(list) = NoFailure
  BY <1>2 DEF AnalysisSteps
<1>4. DOMAIN list \subseteq Nat
  BY <1>1, <1>3
<1>5. \A i \in DOMAIN list : list[i] = NoFailure
  BY <1>3, <1>4, AllOfFirst
<1>6. ValidateSchema(in.schema) = NoFailure /\ ValidateSources(in.schema, in.sources) = NoFailure
  <2>1. 1 \in DOMAIN list /\ 2 \in DOMAIN list
    BY <1>1, <1>3
  <2> QED BY <1>2, <1>5, <2>1 DEF AnalysisSteps
<1>7. ASSUME NEW k \in DOMAIN in.schema
      PROVE  Resolve(in.schema, in.sources, k).present
  <2>1. 2 + k \in DOMAIN list /\ k \in 1 .. Len(in.schema)
    BY <1>1, <1>3
  <2>2. Missing(in, k) = NoFailure
    BY <1>2, <1>5, <2>1 DEF AnalysisSteps
  <2>3. Failure("required", "none", 0, k, "enoent") # NoFailure
    BY DEF Failure, NoFailure
  <2> QED BY <2>2, <2>3 DEF Missing
<1> QED BY <1>6, <1>7 DEF Accepted, SourcesOk, SchemaOk

(* A text is refused for its bytes only if they are not UTF-8.               *)
LEMMA SchemaCodes ==
  ASSUME NEW schema, DOMAIN schema \subseteq Nat
  PROVE  ValidateSchema(schema).code # "utf8"
<1>0. NoFailure.code # "utf8"
  BY DEF NoFailure, Failure
<1>1. ASSUME NEW k \in DOMAIN schema PROVE DescriptorFailure(schema, k).code # "utf8"
  <2> DEFINE Coded(code) == IF code = "none" THEN NoFailure
                            ELSE Failure(code, "none", 0, k, "einval")
             flags == Coded(IF FlagsValid(schema[k]) THEN "none" ELSE "flags")
             kind == Coded(IF schema[k].kind \in Kinds THEN "none" ELSE "descriptor")
             name == Coded(NameFailure(schema, k))
             constraint == Coded(ConstraintFailure(schema[k]))
             default == IF DefaultValid(schema[k]) THEN NoFailure
                        ELSE Failure("default", "default", k, k, "einval")
             list == <<flags, kind, name, constraint, default>>
  <2>1. DescriptorFailure(schema, k) = First(list)
    BY Zenon DEF DescriptorFailure
  <2>2. \A code : code # "utf8" => Coded(code).code # "utf8"
    BY DEF Failure, NoFailure
  <2>3. NameFailure(schema, k) # "utf8"
    BY DEF NameFailure
  <2>4. ConstraintFailure(schema[k]) # "utf8"
    <3>1. \A choices : ChoiceFailure(choices) # "utf8"
      BY DEF ChoiceFailure
    <3> QED BY <3>1 DEF ConstraintFailure
  <2>5. default.code # "utf8"
    BY DEF Failure, NoFailure
  <2>6. (IF FlagsValid(schema[k]) THEN "none" ELSE "flags") # "utf8"
    OBVIOUS
  <2>7. (IF schema[k].kind \in Kinds THEN "none" ELSE "descriptor") # "utf8"
    OBVIOUS
  <2>8. flags.code # "utf8" /\ kind.code # "utf8" /\ name.code # "utf8"
        /\ constraint.code # "utf8"
    <3> HIDE DEF Coded
    <3> QED BY <2>2, <2>3, <2>4, <2>6, <2>7
  <2> HIDE DEF flags, kind, name, constraint, default
  <2>9. /\ DOMAIN list = 1 .. 5 /\ list[1] = flags /\ list[2] = kind /\ list[3] = name
        /\ list[4] = constraint /\ list[5] = default
    OBVIOUS
  <2> HIDE DEF list
  <2>10. \A i \in DOMAIN list : list[i].code # "utf8"
    <3>1. \A i \in 1 .. 5 : i = 1 \/ i = 2 \/ i = 3 \/ i = 4 \/ i = 5
      OBVIOUS
    <3> QED BY <2>5, <2>8, <2>9, <3>1
  <2>11. DOMAIN list \subseteq Nat
    BY <2>9
  <2>12. First(list) = NoFailure \/ \E i \in DOMAIN list : First(list) = list[i]
    BY <2>11, FirstIsOne
  <2> QED BY <1>0, <2>1, <2>10, <2>12
<1> DEFINE list == [k \in DOMAIN schema |-> DescriptorFailure(schema, k)]
<1>2. DOMAIN list \subseteq Nat /\ \A i \in DOMAIN list : list[i].code # "utf8"
  BY <1>1
<1>3. ValidateSchema(schema) = First(list)
  BY Zenon DEF ValidateSchema
<1> HIDE DEF list
<1>4. First(list) = NoFailure \/ \E i \in DOMAIN list : First(list) = list[i]
  BY <1>2, FirstIsOne
<1> QED BY <1>0, <1>2, <1>3, <1>4

LEMMA ParseCode ==
  ASSUME NEW d, NEW text, Parse(d, text).code = "utf8"
  PROVE  ~ Utf8Valid(text)
<1> DEFINE Fine(parsed) == parsed.code # "utf8"
<1>1. \A number, bytes : Fine(Right(number, bytes))
  BY DEF Right
<1>2. \A code, answer : code # "utf8" => Fine(Wrong(code, answer))
  BY DEF Wrong
<1>3. ASSUME NEW digits, NEW sign, NEW limit, d.kind # "utf8"
      PROVE  Fine(ParseNumber(d, digits, sign, limit))
  <2>1. \A read : Fine(NumberRead(d, read, sign))
    <3> HIDE DEF Fine
    <3> QED BY <1>1, <1>2, <1>3 DEF NumberRead
  <2> HIDE DEF Fine
  <2> QED BY <1>1, <1>2, <1>3, <2>1 DEF ParseNumber
<1> HIDE DEF Fine
<1>4. Utf8Valid(text) => Fine(Parse(d, text))
  BY <1>1, <1>2, <1>3 DEF Parse
<1> QED BY <1>4 DEF Fine

LEMMA RecordCode ==
  ASSUME NEW schema, NEW class, NEW records, NEW r \in Int,
         RecordFailure(schema, class, records, r).code = "utf8"
  PROVE  /\ RecordFailure(schema, class, records, r).source = class
         /\ RecordFailure(schema, class, records, r).record + 1 = r
         /\ ~ Utf8Valid(records[r].value)
<1> DEFINE record == records[r]
           found == Find(schema, class, record.name)
           seen == SeenBefore(schema, class, records, r, found)
           parsed == Parse(schema[found], record.value)
           Refuse(code, key, answer) == Failure(code, class, r - 1, key, answer)
           judged == IF parsed.code = "none" THEN NoFailure
                     ELSE Refuse(parsed.code, found, parsed.status)
           failure == RecordFailure(schema, class, records, r)
<1>1. failure =
        CASE record.form = "skip" -> NoFailure
          [] record.form = "control" -> Refuse("nul", 0, "einval")
          [] record.form = "broken" -> Refuse("syntax", 0, "einval")
          [] OTHER ->
               IF found = 0 THEN Refuse("unknown", 0, "enoent")
               ELSE IF seen THEN Refuse("duplicate", found, "einval") ELSE judged
  BY Zenon DEF RecordFailure
<1>2. failure.code = "utf8"
  OBVIOUS
<1>3. /\ NoFailure.code # "utf8"
      /\ \A code, key, answer : Refuse(code, key, answer).code = code
  BY DEF NoFailure, Failure
<1>4. \A code, key, answer : /\ Refuse(code, key, answer).source = class
                             /\ Refuse(code, key, answer).record = r - 1
  BY DEF Failure
<1> HIDE DEF found, seen, record, Refuse, parsed, failure
<1>5. failure = Refuse(parsed.code, found, parsed.status) /\ parsed.code = "utf8"
  BY <1>1, <1>2, <1>3
<1>6. ~ Utf8Valid(record.value)
  BY <1>5, ParseCode DEF parsed
<1>7. failure.source = class /\ failure.record + 1 = r
  BY <1>4, <1>5
<1> QED BY <1>6, <1>7 DEF failure, record

LEMMA RefusedBytes ==
  ASSUME NEW in, IsInput(in), Analyze(in.schema, in.sources).code = "utf8"
  PROVE  LET failure == Analyze(in.schema, in.sources)
         IN ~ IsUtf8(in.sources[failure.source][failure.record + 1].value)
<1> DEFINE failure == Analyze(in.schema, in.sources)
<1>0. NoFailure.code # "utf8"
  BY DEF NoFailure, Failure
<1>1. Len(in.schema) \in Nat /\ DOMAIN in.schema = 1 .. Len(in.schema)
  BY DEF IsInput
<1>2. PICK list : AnalysisSteps(list, in)
  BY AnalysisHasSteps
<1>3. DOMAIN list = 1 .. 2 + Len(in.schema) /\ First(list) = failure
  BY <1>2 DEF AnalysisSteps
<1>4. DOMAIN list \subseteq Nat
  BY <1>1, <1>3
<1>5. failure.code = "utf8"
  OBVIOUS
<1> HIDE DEF failure
<1>6. PICK i \in DOMAIN list : failure = list[i]
  BY <1>0, <1>3, <1>4, <1>5, FirstIsOne
<1>7. i # 1
  <2>1. list[1].code # "utf8"
    BY <1>1, <1>2, SchemaCodes DEF AnalysisSteps
  <2> QED BY <1>5, <1>6, <2>1
<1>8. \A k \in 1 .. Len(in.schema) : i # 2 + k
  <2>1. \A k : Missing(in, k).code # "utf8"
    <3>1. \A k : Failure("required", "none", 0, k, "enoent").code # "utf8"
      BY DEF Failure
    <3> QED BY <1>0, <3>1 DEF Missing
  <2>2. \A k \in 1 .. Len(in.schema) : list[2 + k].code # "utf8"
    BY <1>2, <2>1 DEF AnalysisSteps
  <2> QED BY <1>5, <1>6, <2>2
<1>9. failure = ValidateSources(in.schema, in.sources)
  <2>1. i = 2
    BY <1>3, <1>6, <1>7, <1>8, AnalysisPlaces
  <2> QED BY <1>2, <1>6, <2>1 DEF AnalysisSteps
<1> DEFINE Class(c) == ValidateClass(in.schema, Classes[c], in.sources[Classes[c]])
           classes == [c \in 1 .. 3 |-> Class(c)]
<1>10. PICK c \in 1 .. 3 : failure = Class(c)
  <2>1. failure = First(classes)
    BY <1>9, Zenon DEF ValidateSources
  <2>2. DOMAIN classes = 1 .. 3 /\ DOMAIN classes \subseteq Nat
        /\ \A c \in 1 .. 3 : classes[c] = Class(c)
    OBVIOUS
  <2> HIDE DEF classes, Class
  <2>3. First(classes) = NoFailure \/ \E c \in DOMAIN classes : First(classes) = classes[c]
    BY <2>2, FirstIsOne
  <2> QED BY <1>0, <1>5, <2>1, <2>2, <2>3
<1> DEFINE records == in.sources[Classes[c]]
           Record(r) == RecordFailure(in.schema, Classes[c], records, r)
           row == [r \in DOMAIN records |-> Record(r)]
<1>11. records \in Seq(Records) /\ DOMAIN records = 1 .. Len(records) /\ Len(records) \in Nat
  BY RecordsAre
<1>12. PICK r \in DOMAIN records : failure = Record(r)
  <2>1. failure = First(row)
    BY <1>10, Zenon DEF ValidateClass
  <2>2. DOMAIN row = DOMAIN records /\ \A r \in DOMAIN records : row[r] = Record(r)
    OBVIOUS
  <2>3. DOMAIN row \subseteq Nat
    BY <1>11, <2>2
  <2> HIDE DEF row, Record
  <2>4. First(row) = NoFailure \/ \E r \in DOMAIN row : First(row) = row[r]
    BY <2>3, FirstIsOne
  <2> QED BY <1>0, <1>5, <2>1, <2>2, <2>4
<1>13. r \in Int /\ Record(r).code = "utf8"
  BY <1>5, <1>11, <1>12
<1>14. /\ Record(r).source = Classes[c] /\ Record(r).record + 1 = r
       /\ ~ Utf8Valid(records[r].value)
  <2> HIDE DEF records
  <2> QED BY <1>13, RecordCode
<1>15. records[r].value \in Seq(Octets)
  <2> HIDE DEF records
  <2>1. records[r] \in Records
    BY <1>11, <1>12
  <2> QED BY <2>1 DEF Records
<1>16. ~ IsUtf8(records[r].value)
  BY <1>14, <1>15, Utf8IsValid
<1>17. failure.source = Classes[c] /\ failure.record + 1 = r
  BY <1>12, <1>14
<1>18. ~ IsUtf8(in.sources[failure.source][failure.record + 1].value)
  BY <1>16, <1>17
<1> QED BY <1>18 DEF failure

-----------------------------------------------------------------------------
(* What the key of an input that is accepted resolves to.                   *)
Meant(in, k, number, text, place) ==
  LET d == in.schema[k]
      class == Classes[Max(Assigning(in, k))]
      r == CHOOSE r \in Assignments(in, class, k) : TRUE
      given == in.sources[class][r].value
  IN IF Assigning(in, k) = {}
     THEN /\ number = d.default.number /\ text = d.default.text
          /\ place = [source |-> "default", ordinal |-> k]
     ELSE /\ number = NumberMeant(d, given) /\ text = (IF d.kind = "utf8" THEN given ELSE <<>>)
          /\ place = [source |-> class, ordinal |-> r - 1]

(* It is also what arbor_config_validate accepts for that key.               *)
Acceptable(in, k, number, text, place) ==
  /\ Canonical(in.schema[k], in.schema[k].kind, number, text)
  /\ IsUtf8(text) /\ place.source # "none" /\ (place.source = "default" => place.ordinal = k)

KeyResolved(in, k) ==
  LET settled == Resolve(in.schema, in.sources, k)
  IN /\ Meant(in, k, settled.number, settled.text, settled.provenance)
     /\ Acceptable(in, k, settled.number, settled.text, settled.provenance)

LEMMA CanonicalIsUtf8 ==
  ASSUME NEW d, d.kind \in Kinds, NEW number, NEW text \in Seq(Octets), Canonical(d, d.kind, number, text)
  PROVE  IsUtf8(text)
<1>1. CASE d.kind = "utf8"
  <2>1. Utf8Valid(text)
    BY <1>1 DEF Canonical
  <2> QED BY <2>1, ValidIsUtf8
<1>2. CASE d.kind # "utf8"
  <2>1. text = <<>>
    BY <1>2 DEF Canonical
  <2> QED BY <2>1 DEF IsUtf8
<1> QED BY <1>1, <1>2

LEMMA FlagsTell ==
  ASSUME NEW d, FlagsValid(d), "default" \in d.flags
  PROVE  "required" \notin d.flags
<1>1. SUFFICES ASSUME "required" \in d.flags PROVE FALSE
  OBVIOUS
<1>2. d.flags \intersect {"required", "default"} = {"required", "default"}
  BY <1>1
<1>3. Cardinality({"required", "default"}) = 1
  BY <1>2 DEF FlagsValid
<1>4. \A S : Cardinality(S) = 1 /\ IsFiniteSet(S) => \E x : S = {x}
  <2> TAKE S
  <2>1. HAVE Cardinality(S) = 1 /\ IsFiniteSet(S)
  <2>2. S # {}
    BY <2>1, FS_EmptySet
  <2>3. PICK x : x \in S
    BY <2>2
  <2>4. IsFiniteSet(S \ {x}) /\ Cardinality(S \ {x}) = 0
    BY <2>1, <2>3, FS_RemoveElement
  <2>5. S \ {x} = {}
    BY <2>4, FS_EmptySet
  <2> QED BY <2>3, <2>5
<1>5. IsFiniteSet({"required", "default"})
  <2>1. IsFiniteSet({"required"} \union {"default"})
    <3>1. IsFiniteSet({"required"})
      BY FS_Singleton
    <3> QED BY <3>1, FS_AddElement
  <2>2. {"required"} \union {"default"} = {"required", "default"}
    OBVIOUS
  <2> QED BY <2>1, <2>2
<1>6. PICK x : {"required", "default"} = {x}
  BY <1>3, <1>4, <1>5
<1> QED BY <1>6

LEMMA KeyIsResolved ==
  ASSUME NEW in, Accepted(in), NEW k \in DOMAIN in.schema
  PROVE  KeyResolved(in, k)
<1> DEFINE d == in.schema[k]
           settled == Resolve(in.schema, in.sources, k)
           T == Assigning(in, k)
           class == Classes[Max(T)]
           A == Assignments(in, class, k)
           r == CHOOSE q \in A : TRUE
           given == in.sources[class][r].value
<1>1. SourcesOk(in) /\ SchemaOk(in) /\ settled.present
  BY DEF Accepted, SourcesOk
<1>2. /\ d \in Descriptors /\ d.kind \in Kinds /\ FlagsValid(d)
      /\ ConstraintFailure(d) = "none" /\ DefaultValid(d)
  BY <1>1, SchemaIs DEF DescriptorValid
<1>3. CASE T = {}
  <2>1. settled = Initially(in.schema, k)
    BY <1>1, <1>3, ResolutionIs
  <2>2. "default" \in d.flags
    <3>1. ~ Absent.present
      BY DEF Absent
    <3> QED BY <1>1, <2>1, <3>1 DEF Initially
  <2>3. settled = Resolved(d.default, "default", k)
    BY <2>1, <2>2 DEF Initially
  <2>4. /\ settled.number = d.default.number /\ settled.text = d.default.text
        /\ settled.provenance = [source |-> "default", ordinal |-> k]
    BY <2>3 DEF Resolved
  <2>5. Canonical(d, d.default.kind, d.default.number, d.default.text)
    BY <1>2, <2>2, FlagsTell DEF DefaultValid
  <2>6. d.default.kind = d.kind
    BY <2>5 DEF Canonical
  <2>7. Canonical(d, d.kind, settled.number, settled.text)
    BY <2>4, <2>5, <2>6
  <2>8. settled.text \in Seq(Octets)
    BY <1>2, <2>4 DEF Descriptors
  <2>9. IsUtf8(settled.text)
    <3> HIDE DEF d, settled
    <3> QED BY <1>2, <2>7, <2>8, CanonicalIsUtf8
  <2>10. settled.provenance.source = "default" /\ settled.provenance.ordinal = k
    BY <2>4
  <2>11. Acceptable(in, k, settled.number, settled.text, settled.provenance)
    BY <2>7, <2>9, <2>10 DEF Acceptable
  <2>12. Meant(in, k, settled.number, settled.text, settled.provenance)
    <3> HIDE DEF settled
    <3> QED BY <1>3, <2>4, Zenon DEF Meant
  <2> QED BY <2>11, <2>12 DEF KeyResolved
<1>4. CASE T # {}
  <2>1. /\ Max(T) \in 1 .. 3 /\ A # {}
        /\ \A q \in A : settled = AssignedBy(in, Max(T), k, q)
    BY <1>1, <1>4, ResolutionIs
  <2>2. r \in A
    BY <2>1
  <2>3. A \subseteq DOMAIN in.sources[class]
    BY DEF Assignments
  <2>4. Parse(d, given).code = "none" /\ given \in Seq(Octets)
    <3> HIDE DEF r, T, A
    <3>1. r \in DOMAIN in.sources[Classes[Max(T)]]
      BY <2>2, <2>3
    <3> QED BY <1>1, <2>1, <2>2, <3>1, AssignmentIs DEF A
  <2>5. Means(d, given, Parse(d, given))
    <3> HIDE DEF d, given
    <3> QED BY <1>2, <2>4, ParseMeans
  <2>6. settled = Resolved(Parse(d, given), class, r - 1)
    <3>1. settled = AssignedBy(in, Max(T), k, r)
      BY <2>1, <2>2
    <3> QED BY <3>1, Zenon DEF AssignedBy
  <2> HIDE DEF given, r, class, A, T
  <2>7. /\ settled.number = Parse(d, given).number /\ settled.text = Parse(d, given).text
        /\ settled.provenance = [source |-> class, ordinal |-> r - 1]
    <3> HIDE DEF settled, d
    <3> QED BY <2>6 DEF Resolved
  <2>8. /\ settled.number = NumberMeant(d, given)
        /\ settled.text = (IF d.kind = "utf8" THEN given ELSE <<>>)
        /\ Canonical(d, d.kind, settled.number, settled.text)
    <3> HIDE DEF settled, d
    <3> QED BY <2>5, <2>7 DEF Means
  <2>9. settled.text \in Seq(Octets)
    <3> HIDE DEF settled, d
    <3> QED BY <2>4, <2>8
  <2>10. IsUtf8(settled.text)
    <3> HIDE DEF d, settled
    <3> QED BY <1>2, <2>8, <2>9, CanonicalIsUtf8
  <2>11. settled.provenance.source = class
    BY <2>7
  <2>12. class \in {"file", "environment", "command_line"}
    BY <2>1 DEF class, Classes
  <2>13. Acceptable(in, k, settled.number, settled.text, settled.provenance)
    BY <2>8, <2>10, <2>11, <2>12 DEF Acceptable
  <2>14. Meant(in, k, settled.number, settled.text, settled.provenance)
    <3>1. /\ settled.number = NumberMeant(in.schema[k], given)
          /\ settled.text = (IF in.schema[k].kind = "utf8" THEN given ELSE <<>>)
      BY <2>8
    <3> HIDE DEF settled, d
    <3> QED BY <1>4, <2>7, <3>1, Zenon DEF Meant, given, r, class, A, T
  <2> QED BY <2>13, <2>14 DEF KeyResolved
<1> QED BY <1>3, <1>4

-----------------------------------------------------------------------------
(* The latest result holds every key of the input it was made from.         *)
Holding(f) == ResultHeld(from, f, values, provenance, persistent, prepared)

PublishedNow == prepared.guard => Accepted(from) /\ \E f : Holding(f)

(* The text of a key is where its entry points.                              *)
LEMMA TextIs ==
  ASSUME NEW f, Accepted(from), Holding(f), NEW k \in 1 .. Len(from.schema)
  PROVE  TextOf(values[k]) = Resolve(from.schema, from.sources, k).text
<1> DEFINE text == Resolve(from.schema, from.sources, k).text
           length == TextLength(from, k)
           at == values[k].at
<1>1. IsInput(from) /\ k \in DOMAIN from.schema /\ Len(from.schema) \in Nat
  BY SchemaIs DEF Accepted, SourcesOk, SchemaOk
<1>2. text \in Seq(Octets) /\ Len(text) = length /\ length \in Nat
  BY <1>1, ResolvedText DEF IsText, TextLength
<1>3. /\ f[k - 1] \in Nat
      /\ \A b \in 1 .. length : persistent[f[k - 1] + b] = text[b]
      /\ at = (IF length = 0 THEN 0 ELSE f[k - 1] + 1) /\ values[k].length = length
  <2>1. KeyHeld(from, k, f, values[k], provenance[k], persistent)
    BY DEF Holding, ResultHeld
  <2>2. at = (IF length = 0 THEN 0 ELSE f[k - 1] + 1) /\ values[k].length = length
    BY <2>1 DEF KeyHeld, Entry
  <2>3. f[k - 1] \in Nat
    <3>1. k - 1 \in 0 .. Len(from.schema)
      BY <1>1
    <3> QED BY <1>1, <3>1 DEF Holding, ResultHeld, Offsets
  <2> QED BY <2>1, <2>2, <2>3 DEF KeyHeld
<1>4. TextOf(values[k]) = SubSeq(persistent, at, at + length - 1)
  BY <1>3 DEF TextOf
<1> HIDE DEF text, length, at
<1>5. CASE length = 0
  <2>1. at + length - 1 < at /\ at \in Int /\ at + length - 1 \in Int
    BY <1>3, <1>5
  <2>2. SubSeq(persistent, at, at + length - 1) = <<>>
    BY <2>1, SubSeqEmpty
  <2>3. text = <<>>
    BY <1>2, <1>5
  <2> QED BY <1>4, <2>2, <2>3 DEF text
<1>6. CASE length # 0
  <2> DEFINE e == at + length - 1
             part == SubSeq(persistent, at, e)
  <2>1. at = f[k - 1] + 1 /\ at \in Int /\ e \in Int /\ at <= e /\ e - at + 1 = length
    BY <1>2, <1>3, <1>6
  <2> HIDE DEF e
  <2>2. \A b \in 1 .. length : persistent[at + b - 1] = text[b]
    <3> TAKE b \in 1 .. length
    <3>1. at + b - 1 = f[k - 1] + b
      BY <1>2, <1>3, <2>1
    <3> QED BY <1>3, <3>1
  <2>3. \A i \in at .. e : persistent[i] \in Octets
    <3> TAKE i \in at .. e
    <3>1. i - at + 1 \in 1 .. length /\ at + (i - at + 1) - 1 = i
      <4>1. PICK x \in Int, y \in Int, size \in Nat : x = at /\ y = e /\ size = length
        BY <1>2, <2>1
      <4>2. x <= y /\ y - x + 1 = size /\ i \in x .. y
        BY <2>1, <4>1
      <4>3. i - x + 1 \in 1 .. size /\ x + (i - x + 1) - 1 = i
        BY <4>2
      <4> QED BY <4>1, <4>3
    <3>2. persistent[i] = text[i - at + 1]
      BY <2>2, <3>1
    <3>3. text[i - at + 1] \in Octets
      BY <1>2, <3>1
    <3> QED BY <3>2, <3>3
  <2>4. part \in Seq(Octets) /\ Len(part) = length
        /\ \A i \in 1 .. length : part[i] = persistent[at + i - 1]
    BY <2>1, <2>3, SubSeqProperties
  <2>5. \A i \in 1 .. length : part[i] = text[i]
    BY <2>2, <2>4
  <2> HIDE DEF part
  <2>6. part = text
    BY <1>2, <2>4, <2>5
  <2> QED BY <1>4, <2>6 DEF part, e, text
<1> QED BY <1>5, <1>6

(* The texts follow each other without a gap.                                *)
LEMMA BytesAre ==
  ASSUME OutputsKept, NEW f, Accepted(from), Holding(f)
  PROVE  \A k \in 1 .. Len(from.schema) + 1 : BytesBefore(k) = f[k - 1]
<1> DEFINE n == Len(from.schema)
           w == [j \in DOMAIN values |-> values[j].length]
           start == [m \in 1 .. n + 1 |-> f[m - 1]]
<1>1. n \in Nat /\ Offsets(f, from) /\ n <= memory.values
      /\ \A k \in 1 .. n : values[k] = Entry(from, k, f)
  BY SchemaIs DEF Accepted, SourcesOk, Holding, ResultHeld, HasPlace, KeyHeld
<1>2. DOMAIN values = 1 .. memory.values /\ memory.values \in Nat
  BY DEF OutputsKept, IsRow, IsMemory
<1>3. \A j \in 1 .. n : w[j] = TextLength(from, j) /\ w[j] \in Nat
  <2> TAKE j \in 1 .. n
  <2>1. j \in DOMAIN values
    BY <1>1, <1>2
  <2>2. values[j].length = TextLength(from, j)
    <3>1. values[j] = Entry(from, j, f)
      BY <1>1
    <3>2. Entry(from, j, f).length = TextLength(from, j)
      BY DEF Entry
    <3> QED BY <3>1, <3>2
  <2>3. TextLength(from, j) \in Nat
    BY <1>1 DEF Offsets
  <2> QED BY <2>1, <2>2, <2>3
<1>4. start[1] = 0
  <2>1. 1 \in 1 .. n + 1 /\ 1 - 1 = 0
    BY <1>1
  <2> QED BY <1>1, <2>1 DEF Offsets
<1>5. \A m \in 1 .. n : start[m + 1] = start[m] + w[m]
  <2> TAKE m \in 1 .. n
  <2>1. m \in 1 .. n + 1 /\ m + 1 \in 1 .. n + 1 /\ (m + 1) - 1 = m
    BY <1>1
  <2>2. start[m + 1] = f[m] /\ start[m] = f[m - 1]
    BY <2>1
  <2>3. f[m] = f[m - 1] + TextLength(from, m)
    BY <1>1 DEF Offsets
  <2> QED BY <1>3, <2>2, <2>3
<1>6. \A k : BytesBefore(k) = SumFunctionOnSet(w, 1 .. k - 1)
  BY Zenon DEF BytesBefore
<1>7. \A k \in 1 .. n + 1 : start[k] = f[k - 1]
  OBVIOUS
<1> HIDE DEF w, start, n
<1>8. Accumulates(start, w, n)
  BY <1>3, <1>4, <1>5 DEF Accumulates
<1>9. SumsBefore(start, w, n)
  BY <1>1, <1>8, PartialSums
<1> QED BY <1>6, <1>7, <1>9 DEF SumsBefore, n

(* So arbor_config_validate accepts it.                                      *)
LEMMA ResultIsAccepted ==
  ASSUME OutputsKept, NEW f, Accepted(from), Holding(f)
  PROVE  ValidateStatus(from.schema) = "ok"
<1> DEFINE n == Len(from.schema)
<1>1. /\ n \in Nat /\ DOMAIN from.schema = 1 .. n /\ ValidateSchema(from.schema) = NoFailure
      /\ prepared.guard /\ prepared.count = n /\ prepared.bytes = f[n]
  BY SchemaIs DEF Accepted, SourcesOk, SchemaOk, Holding, ResultHeld
<1>2. \A k \in 1 .. n + 1 : BytesBefore(k) = f[k - 1]
  BY BytesAre
<1>3. /\ \A k \in 0 .. n : f[k] \in Nat
      /\ \A j, k \in 0 .. n : j <= k => f[j] <= f[k]
  BY <1>1, OffsetsGrow DEF Holding, ResultHeld
<1> HIDE DEF n
<1>4. ASSUME NEW k \in 1 .. n
      PROVE  StoredValid(from.schema, k)
  <2> DEFINE value == values[k]
             settled == Resolve(from.schema, from.sources, k)
  <2>1. TextOf(value) = settled.text
    BY TextIs DEF n
  <2>2. /\ value = Entry(from, k, f) /\ provenance[k] = settled.provenance
    BY DEF Holding, ResultHeld, KeyHeld, n
  <2>3. Acceptable(from, k, settled.number, settled.text, settled.provenance)
    BY <1>1, KeyIsResolved DEF KeyResolved
  <2>4. /\ value.kind = from.schema[k].kind /\ value.number = settled.number
        /\ value.at = (IF value.length = 0 THEN 0 ELSE f[k - 1] + 1)
    BY <2>2 DEF Entry
  <2> HIDE DEF value, settled
  <2>5. Canonical(from.schema[k], value.kind, value.number, TextOf(value))
    BY <2>1, <2>3, <2>4 DEF Acceptable
  <2>6. /\ provenance[k].source # "none"
        /\ provenance[k].source = "default" => provenance[k].ordinal = k
    BY <2>2, <2>3 DEF Acceptable
  <2>7. value.length # 0 => value.at = BytesBefore(k) + 1
    <3>1. k \in 1 .. n + 1
      BY <1>1
    <3> QED BY <1>2, <2>4, <3>1
  <2>8. BytesBefore(k + 1) <= prepared.bytes
    <3>1. k + 1 \in 1 .. n + 1 /\ (k + 1) - 1 = k /\ k \in 0 .. n /\ n \in 0 .. n /\ k <= n
      BY <1>1
    <3> QED BY <1>1, <1>2, <1>3, <3>1
  <2> QED BY <2>5, <2>6, <2>7, <2>8, Zenon DEF StoredValid, value
<1>5. BytesBefore(n + 1) = prepared.bytes
  <2>1. n + 1 \in 1 .. n + 1 /\ (n + 1) - 1 = n
    BY <1>1
  <2> QED BY <1>1, <1>2, <2>1
<1> QED BY <1>1, <1>4, <1>5, Zenon DEF ValidateStatus, n

(* And what it holds for a key is what the caller's sources say of it.       *)
LEMMA ResultIsMeant ==
  ASSUME NEW f, Accepted(from), Holding(f), NEW k \in DOMAIN from.schema
  PROVE  /\ \A c \in 1 .. 3 : Cardinality(Assignments(from, Classes[c], k)) <= 1
         /\ IsUtf8(TextOf(values[k]))
         /\ Meant(from, k, values[k].number, TextOf(values[k]), provenance[k])
<1>1. k \in 1 .. Len(from.schema)
  BY SchemaIs DEF Accepted, SourcesOk
<1> DEFINE settled == Resolve(from.schema, from.sources, k)
<1>2. /\ TextOf(values[k]) = settled.text
  BY <1>1, TextIs
<1>3. values[k].number = settled.number /\ provenance[k] = settled.provenance
  <2>1. KeyHeld(from, k, f, values[k], provenance[k], persistent)
    BY <1>1 DEF Holding, ResultHeld
  <2> QED BY <2>1 DEF KeyHeld, Entry
<1>4. /\ Meant(from, k, settled.number, settled.text, settled.provenance)
      /\ IsUtf8(settled.text)
  BY KeyIsResolved DEF KeyResolved, Acceptable
<1>5. \A c \in 1 .. 3 : Cardinality(Assignments(from, Classes[c], k)) <= 1
  BY OneAssignment DEF Accepted
<1> HIDE DEF settled
<1> QED BY <1>2, <1>3, <1>4, <1>5

LEMMA PublishedFollows ==
  ASSUME InputOfCaller, OutputsKept, PublishedNow
  PROVE  PublishedIsResolved
<1>1. ASSUME Analysis[input].code = "utf8"
      PROVE  ~ IsUtf8(input.sources[Analysis[input].source][Analysis[input].record + 1].value)
  <2>1. IsInput(input) /\ Analysis[input] = Analyze(input.schema, input.sources)
    BY AnalysisOf DEF InputOfCaller
  <2>2. Analyze(input.schema, input.sources).code = "utf8"
    BY <1>1, <2>1
  <2>3. ~ IsUtf8(input.sources[Analyze(input.schema, input.sources).source]
                              [Analyze(input.schema, input.sources).record + 1].value)
    BY <2>1, <2>2, RefusedBytes
  <2> QED BY <2>1, <2>3
<1>2. ASSUME prepared.guard, NEW k \in DOMAIN from.schema
      PROVE  LET d == from.schema[k]
                 class == Classes[Max(Assigning(from, k))]
                 r == CHOOSE r \in Assignments(from, class, k) : TRUE
                 text == from.sources[class][r].value
             IN /\ \A c \in 1 .. 3 : Cardinality(Assignments(from, Classes[c], k)) <= 1
                /\ IsUtf8(TextOf(values[k]))
                /\ IF Assigning(from, k) = {}
                   THEN HoldsValue(from, k, d.default.number, d.default.text, "default", k)
                   ELSE HoldsValue(from, k, NumberMeant(d, text),
                                   IF d.kind = "utf8" THEN text ELSE <<>>, class, r - 1)
  <2>1. PICK f : Accepted(from) /\ Holding(f)
    BY <1>2 DEF PublishedNow
  <2>2. /\ \A c \in 1 .. 3 : Cardinality(Assignments(from, Classes[c], k)) <= 1
        /\ IsUtf8(TextOf(values[k]))
        /\ Meant(from, k, values[k].number, TextOf(values[k]), provenance[k])
    BY <2>1, ResultIsMeant
  <2> QED BY <2>2, Zenon DEF Meant, HoldsValue
<1>3. prepared.guard => ValidateStatus(from.schema) = "ok"
  BY ResultIsAccepted DEF PublishedNow
<1> QED BY <1>1, <1>2, <1>3, Zenon DEF PublishedIsResolved

LEMMA PublishedInitially ==
  ASSUME ConfigInit
  PROVE  PublishedNow
BY DEF ConfigInit, PublishedNow, NoResult

LEMMA PublishedKept ==
  ASSUME ConfigInvariant, PublishedNow, [ConfigNext]_configVars
  PROVE  PublishedNow'
<1>1. CASE /\ UNCHANGED <<memory, values, provenance, persistent, prepared, from>>
  BY <1>1, Zenon DEF PublishedNow, Holding, ResultHeld, HasPlace
<1>2. CASE PrepareResult /\ PrepareFailure = NoFailure
  <2>1. /\ from' = input /\ memory' = memory
        /\ \E f : ResultHeld(input, f, values', provenance', persistent', prepared')
    BY <1>2, PrepareStores, PrepareStep DEF ConfigInvariant
  <2>2. Accepted(input)
    <3>1. Analysis[input] = NoFailure
      BY <1>2, PrepareFailureIs
    <3>2. IsInput(input) /\ Analyze(input.schema, input.sources) = NoFailure
      BY <3>1, AnalysisOf DEF ConfigInvariant, InputOfCaller
    <3> QED BY <3>2, AcceptedIs
  <2>3. PICK f : ResultHeld(input, f, values', provenance', persistent', prepared')
    BY <2>1
  <2>4. Holding(f)'
    BY <2>1, <2>3 DEF Holding, ResultHeld, HasPlace
  <2>5. Accepted(from')
    BY <2>1, <2>2
  <2>6. Accepted(from)'
    BY <2>5
  <2> QED BY <2>4, <2>6 DEF PublishedNow
<1>3. CASE PrepareResult /\ PrepareFailure # NoFailure
  <2>1. UNCHANGED <<memory, values, provenance, persistent, prepared, from>>
    BY <1>3, Zenon DEF PrepareResult, stored
  <2> QED BY <1>1, <2>1
<1>4. CASE Measure
  BY <1>1, <1>4, MeasureStep DEF stored
<1>5. CASE Validate
  BY <1>1, <1>5 DEF Validate, stored
<1>6. CASE Change
  BY <1>1, <1>6 DEF Change, stored
<1>7. CASE UNCHANGED configVars
  BY <1>1, <1>7 DEF configVars, stored
<1> QED BY <1>2, <1>3, <1>4, <1>5, <1>6, <1>7 DEF ConfigNext

(* What prepare publishes is what the sources say, for every schema, every   *)
(* text and every room: each key holds the value of the one assignment in    *)
(* the highest class that has one, as the number its digits stand for, or    *)
(* its default, with where it came from; every text is UTF-8, and one is     *)
(* refused for its bytes only if it is not; and arbor_config_validate accepts *)
(* the result however often the caller changes its inputs after.             *)
THEOREM PublishedTheorem ==
  ConfigSpec => []PublishedIsResolved
<1>1. ConfigInit => ConfigInvariant /\ PublishedNow
  BY ConfigInvariantInitially, PublishedInitially
<1>2. ConfigInvariant /\ PublishedNow /\ [ConfigNext]_configVars
        => ConfigInvariant' /\ PublishedNow'
  BY ConfigInvariantKept, PublishedKept
<1>3. ConfigInvariant /\ PublishedNow => PublishedIsResolved
  BY PublishedFollows DEF ConfigInvariant
<1> QED BY <1>1, <1>2, <1>3, PTL DEF ConfigSpec
-----------------------------------------------------------------------------
(***************************************************************************)
(* ConformanceCheck                                                        *)
(***************************************************************************)
(* What gates find in a document, what a report says of it, and the findings *)
(* whose rules are not those of the parse.                                   *)
Anchors(doc) == [offset : Places(doc), rule : Nat, severity : {Error, Warning}]

Ruled(doc) == [offset : Places(doc), rule : Nat \ {0, 1, 2}, severity : {Error, Warning}]

Diagnostics(doc) ==
  [offset : Places(doc), rule : Nat, severity : {Error, Warning}, sequence : Nat,
   line : Nat, column : Nat]

(* A list has each of the findings once: the discovery number tells which.   *)
Lists(list, wanted, doc) ==
  /\ list \in Seq(Diagnostics(doc)) /\ wanted \in Seq(Anchors(doc))
  /\ Len(list) = Len(wanted)
  /\ \A k \in 1 .. Len(list) :
       /\ list[k].sequence < Len(wanted)
       /\ SameKind(list[k], wanted[list[k].sequence + 1])
  /\ \A k, l \in 1 .. Len(list) : list[k].sequence = list[l].sequence => k = l

InOrder(list) == \A k, l \in 1 .. Len(list) : k < l => Compare(list[k], list[l])

LEMMA Materialized ==
  ASSUME NEW doc, NEW found \in Seq(Anchors(doc)), NEW base \in Nat
  PROVE  /\ Materialize(found, base) \in Seq(Diagnostics(doc))
         /\ Len(Materialize(found, base)) = Len(found)
         /\ \A i \in 1 .. Len(found) :
              /\ Materialize(found, base)[i].sequence = base + i - 1
              /\ SameKind(Materialize(found, base)[i], found[i])
<1> DEFINE n == Len(found)
           list == [i \in 1 .. n |-> Diagnostic(found[i], base + i - 1)]
<1>1. n \in Nat
  OBVIOUS
<1>2. ASSUME NEW i \in 1 .. n
      PROVE  /\ Diagnostic(found[i], base + i - 1) \in Diagnostics(doc)
             /\ Diagnostic(found[i], base + i - 1).sequence = base + i - 1
             /\ SameKind(Diagnostic(found[i], base + i - 1), found[i])
  <2>1. found[i] \in Anchors(doc)
    BY <1>2, ElementOfSeq
  <2>2. base + i - 1 \in Nat
    BY <1>1
  <2> QED BY <2>1, <2>2 DEF Anchors, Diagnostics, Diagnostic, SameKind
<1> HIDE DEF n
<1>3. list \in Seq(Diagnostics(doc)) /\ Len(list) = n
  <2>1. \A i \in 1 .. n : Diagnostic(found[i], base + i - 1) \in Diagnostics(doc)
    BY <1>2
  <2> HIDE DEF Diagnostics
  <2> QED BY <1>1, <2>1, IsASeq
<1>4. Materialize(found, base) = list
  BY DEF Materialize, n
<1> QED BY <1>2, <1>3, <1>4 DEF n

LEMMA MaterializedLists ==
  ASSUME NEW doc, NEW found \in Seq(Anchors(doc))
  PROVE  Lists(Materialize(found, 0), found, doc)
<1> DEFINE list == Materialize(found, 0)
           n == Len(found)
<1>1. /\ list \in Seq(Diagnostics(doc)) /\ Len(list) = n /\ n \in Nat
      /\ \A i \in 1 .. n : list[i].sequence = 0 + i - 1 /\ SameKind(list[i], found[i])
  BY Materialized
<1> HIDE DEF list, n
<1>2. ASSUME NEW k \in 1 .. n
      PROVE  list[k].sequence < n /\ SameKind(list[k], found[list[k].sequence + 1])
  <2>1. list[k].sequence = k - 1 /\ (k - 1) + 1 = k
    BY <1>1
  <2> QED BY <1>1, <2>1
<1>3. ASSUME NEW k \in 1 .. n, NEW l \in 1 .. n, list[k].sequence = list[l].sequence
      PROVE  k = l
  BY <1>1, <1>3
<1> QED BY <1>1, <1>2, <1>3 DEF Lists, list, n

LEMMA AppendedLists ==
  ASSUME NEW doc, NEW list, NEW wanted, Lists(list, wanted, doc), NEW found \in Seq(Anchors(doc))
  PROVE  /\ Lists(list \o Materialize(found, Len(list)), wanted \o found, doc)
         /\ Len(list \o Materialize(found, Len(list))) = Len(list) + Len(found)
<1> DEFINE n == Len(list)
           m == Len(found)
           more == Materialize(found, n)
           whole == list \o more
           want == wanted \o found
<1>1. /\ list \in Seq(Diagnostics(doc)) /\ wanted \in Seq(Anchors(doc)) /\ Len(wanted) = n
      /\ n \in Nat /\ m \in Nat
  BY DEF Lists
<1>2. /\ more \in Seq(Diagnostics(doc)) /\ Len(more) = m
      /\ \A i \in 1 .. m : more[i].sequence = n + i - 1 /\ SameKind(more[i], found[i])
  BY <1>1, Materialized
<1>3. /\ \A k \in 1 .. n : list[k].sequence < n /\ SameKind(list[k], wanted[list[k].sequence + 1])
      /\ \A k, l \in 1 .. n : list[k].sequence = list[l].sequence => k = l
  BY <1>1 DEF Lists
<1>4. \A k \in 1 .. n : list[k].sequence \in Nat
  <2> TAKE k \in 1 .. n
  <2>1. list[k] \in Diagnostics(doc)
    BY <1>1, ElementOfSeq
  <2> QED BY <2>1 DEF Diagnostics
<1> HIDE DEF more, n, m
<1>5. /\ whole \in Seq(Diagnostics(doc)) /\ Len(whole) = n + m
      /\ \A k \in 1 .. n + m : whole[k] = IF k <= n THEN list[k] ELSE more[k - n]
  <2>1. n = Len(list) /\ m = Len(more)
    BY <1>2 DEF n
  <2>2. list \in Seq(Diagnostics(doc)) /\ more \in Seq(Diagnostics(doc))
    BY <1>1, <1>2
  <2> HIDE DEF whole
  <2>3. whole = list \o more
    BY DEF whole
  <2>4. list \o more \in Seq(Diagnostics(doc)) /\ Len(list \o more) = n + m
    BY <2>1, <2>2, Concatenated
  <2>5. \A k \in 1 .. n + m : (list \o more)[k] = IF k <= n THEN list[k] ELSE more[k - n]
    BY <2>1, <2>2, Concatenated
  <2> QED BY <2>3, <2>4, <2>5
<1>6. /\ want \in Seq(Anchors(doc)) /\ Len(want) = n + m
      /\ \A k \in 1 .. n + m : want[k] = IF k <= n THEN wanted[k] ELSE found[k - n]
  <2>1. n = Len(wanted) /\ m = Len(found)
    BY <1>1 DEF m
  <2> HIDE DEF want
  <2>2. want = wanted \o found
    BY DEF want
  <2>3. wanted \o found \in Seq(Anchors(doc)) /\ Len(wanted \o found) = n + m
    BY <1>1, <2>1, Concatenated
  <2>4. \A k \in 1 .. n + m : (wanted \o found)[k] = IF k <= n THEN wanted[k] ELSE found[k - n]
    BY <1>1, <2>1, Concatenated
  <2> QED BY <2>2, <2>3, <2>4
<1> HIDE DEF whole, want
<1>7. ASSUME NEW k \in 1 .. n + m
      PROVE  /\ whole[k].sequence < n + m /\ SameKind(whole[k], want[whole[k].sequence + 1])
             /\ k <= n => whole[k].sequence = list[k].sequence
             /\ k > n => whole[k].sequence = k - 1
             /\ k <= n => whole[k].sequence < n
  <2>1. CASE k <= n
    <3>1. k \in 1 .. n /\ whole[k] = list[k]
      BY <1>1, <1>5, <2>1
    <3>2. list[k].sequence < n /\ list[k].sequence \in Nat
          /\ SameKind(list[k], wanted[list[k].sequence + 1])
      BY <1>3, <1>4, <3>1
    <3> DEFINE s == list[k].sequence + 1
    <3>3. s \in 1 .. n + m /\ s <= n
      BY <1>1, <3>2
    <3> HIDE DEF s
    <3>4. want[s] = wanted[s]
      BY <1>6, <3>3
    <3> QED BY <1>1, <2>1, <3>1, <3>2, <3>4 DEF s
  <2>2. CASE ~(k <= n)
    <3>1. k - n \in 1 .. m /\ whole[k] = more[k - n]
      BY <1>1, <1>5, <2>2
    <3>2. more[k - n].sequence = n + (k - n) - 1 /\ SameKind(more[k - n], found[k - n])
      BY <1>2, <3>1
    <3>3. n + (k - n) - 1 = k - 1 /\ (k - 1) + 1 = k /\ want[k] = found[k - n] /\ k - 1 < n + m
      BY <1>1, <1>6, <2>2
    <3> QED BY <1>1, <2>2, <3>1, <3>2, <3>3
  <2> QED BY <2>1, <2>2
<1>8. ASSUME NEW k \in 1 .. n + m, NEW l \in 1 .. n + m, whole[k].sequence = whole[l].sequence
      PROVE  k = l
  <2>1. CASE k <= n /\ l <= n
    <3>1. k \in 1 .. n /\ l \in 1 .. n /\ list[k].sequence = list[l].sequence
      BY <1>1, <1>7, <1>8, <2>1
    <3> QED BY <1>3, <3>1
  <2>2. CASE k > n /\ l > n
    BY <1>7, <1>8, <2>2
  <2>3. CASE k <= n /\ l > n
    <3>1. whole[k].sequence < n /\ whole[l].sequence = l - 1
      BY <1>7, <2>3
    <3> QED BY <1>1, <1>8, <2>3, <3>1
  <2>4. CASE l <= n /\ k > n
    <3>1. whole[l].sequence < n /\ whole[k].sequence = k - 1
      BY <1>7, <2>4
    <3> QED BY <1>1, <1>8, <2>4, <3>1
  <2> QED BY <1>1, <2>1, <2>2, <2>3, <2>4
<1>9. Lists(whole, want, doc)
  BY <1>5, <1>6, <1>7, <1>8 DEF Lists
<1> QED BY <1>5, <1>9 DEF whole, want, more, n, m

(* The comparison orders the diagnostics of a list, which differ in their    *)
(* discovery numbers.                                                        *)
ComparedTo(list) ==
  {p \in (1 .. Len(list)) \X (1 .. Len(list)) : Compare(list[p[1]], list[p[2]])}

LEMMA ListsTypes ==
  ASSUME NEW doc, doc.length \in Nat, NEW list, NEW wanted, Lists(list, wanted, doc)
  PROVE  /\ Len(list) \in Nat /\ list \in Seq(Diagnostics(doc))
         /\ \A k \in 1 .. Len(list) :
              /\ list[k] \in Diagnostics(doc)
              /\ list[k].offset \in 0 .. doc.length /\ list[k].rule \in Nat
              /\ list[k].severity \in Nat /\ list[k].sequence \in Nat
<1>1. Len(list) \in Nat /\ list \in Seq(Diagnostics(doc))
  BY DEF Lists
<1>2. ASSUME NEW k \in 1 .. Len(list)
      PROVE  /\ list[k] \in Diagnostics(doc)
             /\ list[k].offset \in 0 .. doc.length /\ list[k].rule \in Nat
             /\ list[k].severity \in Nat /\ list[k].sequence \in Nat
  <2>1. list[k] \in Diagnostics(doc)
    BY <1>1, ElementOfSeq
  <2> QED BY <2>1 DEF Diagnostics, Places, Error, Warning
<1> QED BY <1>1, <1>2

LEMMA CompareOrders ==
  ASSUME NEW doc, doc.length \in Nat, NEW list, NEW wanted, Lists(list, wanted, doc)
  PROVE  TotalOrder(ComparedTo(list), Len(list))
<1> DEFINE n == Len(list)
<1>1. /\ n \in Nat
      /\ \A k \in 1 .. n :
           /\ list[k].offset \in Nat /\ list[k].rule \in Nat
           /\ list[k].severity \in Nat /\ list[k].sequence \in Nat
  BY ListsTypes
<1>2. \A i, j \in 1 .. n : <<i, j>> \in ComparedTo(list) <=> Compare(list[i], list[j])
  BY DEF ComparedTo
<1>3. \A k, l \in 1 .. n : list[k].sequence = list[l].sequence => k = l
  BY DEF Lists
<1> HIDE DEF n
<1>4. \A i \in 1 .. n : ~Compare(list[i], list[i])
  BY <1>1 DEF Compare
<1>5. ASSUME NEW i \in 1 .. n, NEW j \in 1 .. n, NEW k \in 1 .. n,
             Compare(list[i], list[j]), Compare(list[j], list[k])
      PROVE  Compare(list[i], list[k])
  BY <1>1, <1>5 DEF Compare
<1>6. ASSUME NEW i \in 1 .. n, NEW j \in 1 .. n
      PROVE  i = j \/ Compare(list[i], list[j]) \/ Compare(list[j], list[i])
  BY <1>1, <1>3 DEF Compare
<1>7. TotalOrder(ComparedTo(list), n)
  <2>1. \A i, j, k \in 1 .. n :
          Compare(list[i], list[j]) /\ Compare(list[j], list[k]) => Compare(list[i], list[k])
    BY <1>5
  <2> QED BY <1>2, <1>4, <1>6, <2>1 DEF TotalOrder
<1> QED BY <1>7 DEF n

(* Sorting keeps what a list has and puts it in order.                       *)
LEMMA SortedLists ==
  ASSUME NEW doc, doc.length \in Nat, NEW list, NEW wanted, Lists(list, wanted, doc)
  PROVE  Lists(Sorted(list), wanted, doc) /\ InOrder(Sorted(list))
         /\ Len(Sorted(list)) = Len(list)
<1> DEFINE n == Len(list)
           rank(i) == Ranked(ComparedTo(list), n, i)
           base(k) == CHOOSE i \in DOMAIN list :
                        Cardinality({j \in DOMAIN list : Compare(list[j], list[i])}) = k - 1
           sorted == [k \in 1 .. n |-> list[base(k)]]
<1>1. /\ n \in Nat /\ list \in Seq(Diagnostics(doc))
      /\ \A k \in 1 .. n : list[k] \in Diagnostics(doc)
  BY ListsTypes
<1>2. DOMAIN list = 1 .. n
  BY <1>1
<1>3. ASSUME NEW i \in 1 .. n
      PROVE  rank(i) = Cardinality({j \in DOMAIN list : Compare(list[j], list[i])})
  <2>1. {j \in 1 .. n : <<j, i>> \in ComparedTo(list)}
          = {j \in DOMAIN list : Compare(list[j], list[i])}
    BY <1>2 DEF ComparedTo
  <2> QED BY <2>1 DEF Ranked
<1>4. /\ \A k \in 1 .. n : \E i \in 1 .. n : rank(i) = k - 1
      /\ \A i, j \in 1 .. n : rank(i) < rank(j) => <<i, j>> \in ComparedTo(list)
  BY <1>1, CompareOrders, RanksSort
<1>5. \A i, j \in 1 .. n : <<i, j>> \in ComparedTo(list) => Compare(list[i], list[j])
  BY DEF ComparedTo
<1> HIDE DEF rank
<1>6. ASSUME NEW k \in 1 .. n
      PROVE  base(k) \in 1 .. n /\ rank(base(k)) = k - 1
  <2>1. \E i \in DOMAIN list :
          Cardinality({j \in DOMAIN list : Compare(list[j], list[i])}) = k - 1
    BY <1>2, <1>3, <1>4
  <2>2. base(k) \in DOMAIN list
        /\ Cardinality({j \in DOMAIN list : Compare(list[j], list[base(k)])}) = k - 1
    BY <2>1, Zenon
  <2> HIDE DEF base
  <2>3. base(k) \in 1 .. n
    BY <1>2, <2>2
  <2> QED BY <1>3, <2>2, <2>3
<1> HIDE DEF base
<1>7. Sorted(list) = sorted
  BY <1>2, Zenon DEF Sorted, base
<1>8. /\ sorted \in Seq(Diagnostics(doc)) /\ Len(sorted) = n
      /\ \A k \in 1 .. n : sorted[k] = list[base(k)]
  <2>1. \A k \in 1 .. n : list[base(k)] \in Diagnostics(doc)
    BY <1>1, <1>6
  <2>2. \A k \in 1 .. n : sorted[k] = list[base(k)]
    OBVIOUS
  <2>3. sorted \in Seq(Diagnostics(doc)) /\ Len(sorted) = n
    BY <1>1, <2>1, IsASeq
  <2> QED BY <2>2, <2>3
<1>9. /\ wanted \in Seq(Anchors(doc)) /\ Len(wanted) = n
      /\ \A k \in 1 .. n :
           list[k].sequence < n /\ SameKind(list[k], wanted[list[k].sequence + 1])
      /\ \A k, l \in 1 .. n : list[k].sequence = list[l].sequence => k = l
  BY DEF Lists
<1> HIDE DEF sorted, n
<1>10. ASSUME NEW k \in 1 .. n, NEW l \in 1 .. n, sorted[k].sequence = sorted[l].sequence
       PROVE  k = l
  <2>1. base(k) = base(l)
    BY <1>6, <1>8, <1>9, <1>10
  <2>2. rank(base(k)) = k - 1 /\ rank(base(l)) = l - 1
    BY <1>6
  <2>3. k - 1 = l - 1
    BY <2>1, <2>2
  <2> QED BY <1>1, <2>3
<1>11. Lists(sorted, wanted, doc)
  <2>1. \A k \in 1 .. n :
          sorted[k].sequence < n /\ SameKind(sorted[k], wanted[sorted[k].sequence + 1])
    <3> TAKE k \in 1 .. n
    <3>1. base(k) \in 1 .. n /\ sorted[k] = list[base(k)]
      BY <1>6, <1>8
    <3> QED BY <1>9, <3>1
  <2> QED BY <1>8, <1>9, <1>10, <2>1 DEF Lists
<1>12. ASSUME NEW k \in 1 .. n, NEW l \in 1 .. n, k < l
       PROVE  Compare(sorted[k], sorted[l])
  <2>1. /\ base(k) \in 1 .. n /\ base(l) \in 1 .. n
        /\ rank(base(k)) = k - 1 /\ rank(base(l)) = l - 1
        /\ sorted[k] = list[base(k)] /\ sorted[l] = list[base(l)]
    BY <1>6, <1>8
  <2>2. rank(base(k)) < rank(base(l))
    BY <1>1, <1>12, <2>1
  <2> QED BY <1>4, <1>5, <2>1, <2>2
<1>13. InOrder(sorted)
  BY <1>8, <1>12 DEF InOrder
<1> QED BY <1>7, <1>8, <1>11, <1>13 DEF n

(* Line and column of a place, which is where the scan of the lines is when  *)
(* it gets there.                                                            *)
LineEnds(doc, at) == {n \in doc.newlines : n < at}

PlaceOf(doc, at) ==
  [at |-> at, line |-> 1 + Cardinality(LineEnds(doc, at)),
   column |-> at - Max(LineEnds(doc, at) \cup {-1})]

Scans(doc) == [at : Places(doc), line : Nat, column : Nat]

LEMMA MaxIs ==
  ASSUME NEW S, S \subseteq Int, NEW x \in S, \A y \in S : y <= x
  PROVE  Max(S) = x
<1>1. \E z \in S : \A y \in S : z >= y
  OBVIOUS
<1>2. Max(S) \in S /\ \A y \in S : Max(S) >= y
  BY <1>1, Zenon DEF Max
<1>3. Max(S) >= x /\ Max(S) <= x /\ Max(S) \in Int
  BY <1>2
<1> QED BY <1>3

LEMMA LineEndsFacts ==
  ASSUME NEW doc, doc.length \in Nat, doc.newlines \subseteq 0 .. doc.length,
         NEW at \in 0 .. doc.length
  PROVE  /\ LineEnds(doc, at) \subseteq 0 .. doc.length
         /\ \A n \in LineEnds(doc, at) : n < at
         /\ IsFiniteSet(LineEnds(doc, at)) /\ Cardinality(LineEnds(doc, at)) \in Nat
         /\ LineEnds(doc, at) = {} => Max(LineEnds(doc, at) \cup {-1}) = -1
         /\ LineEnds(doc, at) # {} =>
              /\ Max(LineEnds(doc, at) \cup {-1}) = Max(LineEnds(doc, at))
              /\ Max(LineEnds(doc, at)) \in LineEnds(doc, at)
<1> DEFINE E == LineEnds(doc, at)
<1>1. E \subseteq 0 .. doc.length /\ \A n \in E : n < at
  BY DEF LineEnds
<1>2. IsFiniteSet(E) /\ Cardinality(E) \in Nat
  <2>1. IsFiniteSet(0 .. doc.length)
    BY FS_Interval
  <2> HIDE DEF E
  <2>2. IsFiniteSet(E)
    BY <1>1, <2>1, FS_Subset
  <2> QED BY <2>2, FS_CardinalityType
<1> HIDE DEF E
<1>3. CASE E = {}
  <2>1. E \cup {-1} = {-1}
    BY <1>3
  <2>2. Max({-1}) = -1
    BY MaxIs
  <2> QED BY <1>1, <1>2, <1>3, <2>1, <2>2 DEF E
<1>4. CASE E # {}
  <2>1. Max(E) \in E /\ \A y \in E : y <= Max(E)
    BY <1>1, <1>4, MaxIsGreatest
  <2> DEFINE F == E \cup {-1}
             m == Max(E)
  <2>2. F \subseteq Int /\ m \in F /\ \A y \in F : y <= m
    <3>1. m \in E /\ \A y \in E : y <= m
      BY <2>1
    <3>2. E \subseteq Nat
      BY <1>1
    <3> HIDE DEF m
    <3> QED BY <3>1, <3>2
  <2> HIDE DEF F, m
  <2>3. Max(F) = m
    BY <2>2, MaxIs
  <2>4. Max(E \cup {-1}) = Max(E)
    BY <2>3 DEF F, m
  <2> QED BY <1>1, <1>2, <1>4, <2>1, <2>4 DEF E
<1> QED BY <1>3, <1>4

LEMMA AdvanceType ==
  ASSUME NEW doc, doc.length \in Nat, doc.newlines \subseteq 0 .. doc.length,
         NEW scan \in Scans(doc), NEW target \in 0 .. doc.length
  PROVE  Advance(doc, scan, target) \in Scans(doc)
<1> DEFINE crossed == {n \in doc.newlines : scan.at <= n /\ n < target}
<1>1. /\ scan.at \in 0 .. doc.length /\ scan.line \in Nat /\ scan.column \in Nat
  BY DEF Scans, Places
<1>2. Advance(doc, scan, target) =
        IF target <= scan.at THEN scan
        ELSE [at |-> target, line |-> scan.line + Cardinality(crossed),
              column |-> IF crossed = {} THEN scan.column + (target - scan.at)
                         ELSE target - Max(crossed)]
  <2>1. (IF target < doc.length THEN target ELSE doc.length) = target
    OBVIOUS
  <2> QED BY <2>1 DEF Advance
<1>3. crossed \subseteq 0 .. doc.length /\ \A n \in crossed : n < target
  OBVIOUS
<1> HIDE DEF crossed
<1>4. Cardinality(crossed) \in Nat
  <2>1. IsFiniteSet(0 .. doc.length)
    BY FS_Interval
  <2>2. IsFiniteSet(crossed)
    BY <1>3, <2>1, FS_Subset
  <2> QED BY <2>2, FS_CardinalityType
<1>5. crossed # {} => Max(crossed) \in crossed
  BY <1>3, MaxIsGreatest
<1>6. scan.line + Cardinality(crossed) \in Nat
  BY <1>1, <1>4
<1>7. ~(target <= scan.at) =>
        (IF crossed = {} THEN scan.column + (target - scan.at) ELSE target - Max(crossed)) \in Nat
  <2>1. CASE crossed = {}
    BY <1>1, <2>1
  <2>2. CASE crossed # {}
    <3> DEFINE m == Max(crossed)
    <3>1. m \in crossed
      BY <1>5, <2>2
    <3> HIDE DEF m
    <3>2. m \in Nat
      <4>1. m \in 0 .. doc.length
        BY <1>3, <3>1
      <4> QED BY <4>1
    <3>4. m < target
      BY <1>3, <3>1
    <3>3. target - m \in Nat
      BY <3>2, <3>4
    <3> QED BY <2>2, <3>3 DEF m
  <2> QED BY <2>1, <2>2
<1>8. scan \in Scans(doc) /\ target \in Places(doc)
  BY DEF Places
<1> QED BY <1>2, <1>6, <1>7, <1>8 DEF Scans

LEMMA AdvanceFinds ==
  ASSUME NEW doc, doc.length \in Nat, doc.newlines \subseteq 0 .. doc.length,
         NEW at \in 0 .. doc.length, NEW target \in 0 .. doc.length, at <= target
  PROVE  Advance(doc, PlaceOf(doc, at), target) = PlaceOf(doc, target)
<1> DEFINE scan == PlaceOf(doc, at)
           crossed == {n \in doc.newlines : at <= n /\ n < target}
           B == LineEnds(doc, at)
           E == LineEnds(doc, target)
<1>1. scan.at = at /\ scan.line = 1 + Cardinality(B) /\ scan.column = at - Max(B \cup {-1})
  BY DEF PlaceOf
<1>2. Advance(doc, scan, target) =
        IF target <= at THEN scan
        ELSE [at |-> target, line |-> scan.line + Cardinality(crossed),
              column |-> IF crossed = {} THEN scan.column + (target - at)
                         ELSE target - Max(crossed)]
  <2>1. (IF target < doc.length THEN target ELSE doc.length) = target
    OBVIOUS
  <2> HIDE DEF scan
  <2> QED BY <1>1, <2>1 DEF Advance
<1>3. CASE target <= at
  BY <1>2, <1>3
<1>4. CASE ~(target <= at)
  <2>1. /\ B \cup crossed = E /\ B \cap crossed = {}
    BY DEF LineEnds
  <2>2. /\ B \subseteq 0 .. doc.length /\ IsFiniteSet(B) /\ Cardinality(B) \in Nat
        /\ B = {} => Max(B \cup {-1}) = -1
        /\ B # {} => Max(B \cup {-1}) = Max(B) /\ Max(B) \in B
    BY LineEndsFacts
  <2>3. /\ E \subseteq 0 .. doc.length /\ IsFiniteSet(E) /\ Cardinality(E) \in Nat
        /\ E = {} => Max(E \cup {-1}) = -1
        /\ E # {} => Max(E \cup {-1}) = Max(E) /\ Max(E) \in E
    BY LineEndsFacts
  <2>4. /\ \A b \in B : b < at
        /\ \A c \in crossed : at <= c /\ c < target
    BY DEF LineEnds
  <2> HIDE DEF B, E, crossed, scan
  <2>5. IsFiniteSet(crossed) /\ crossed \subseteq 0 .. doc.length /\ Cardinality(crossed) \in Nat
    <3>1. crossed \in SUBSET E
      BY <2>1
    <3>2. IsFiniteSet(crossed)
      BY <2>3, <3>1, FS_Subset
    <3> QED BY <2>3, <3>1, <3>2, FS_CardinalityType
  <2>6. Cardinality(E) = Cardinality(B) + Cardinality(crossed)
    <3>1. Cardinality(B \cup crossed)
            = Cardinality(B) + Cardinality(crossed) - Cardinality(B \cap crossed)
      BY <2>2, <2>5, FS_Union
    <3>2. Cardinality(B \cap crossed) = 0
      BY <2>1, FS_EmptySet
    <3> QED BY <2>1, <2>2, <2>5, <3>1, <3>2
  <2>7. (IF crossed = {} THEN scan.column + (target - at) ELSE target - Max(crossed))
          = target - Max(E \cup {-1})
    <3>1. CASE crossed = {}
      <4>1. B = E
        BY <2>1, <3>1
      <4>2. Max(B \cup {-1}) \in Int
        <5>1. CASE B = {}
          BY <2>2, <5>1
        <5>2. CASE B # {}
          <6>1. Max(B) \in B /\ Max(B \cup {-1}) = Max(B)
            BY <2>2, <5>2
          <6>2. B \subseteq Int
            BY <2>2
          <6> QED BY <6>1, <6>2
        <5> QED BY <5>1, <5>2
      <4>3. scan.column = at - Max(E \cup {-1}) /\ Max(E \cup {-1}) \in Int
        BY <1>1, <4>1, <4>2
      <4> QED BY <3>1, <4>3
    <3>2. CASE crossed # {}
      <4>1. Max(crossed) \in crossed /\ \A y \in crossed : y <= Max(crossed)
        BY <2>5, <3>2, MaxIsGreatest
      <4> DEFINE m == Max(crossed)
      <4>2. E \subseteq Int /\ m \in E /\ \A y \in E : y <= m
        <5>1. m \in crossed /\ \A y \in crossed : y <= m
          BY <4>1
        <5> HIDE DEF m
        <5>2. E \subseteq Int /\ m \in Int /\ at <= m /\ m \in E
          <6>1. E \subseteq Int
            BY <2>3
          <6>2. m \in E
            BY <2>1, <5>1
          <6>3. at <= m
            BY <2>4, <5>1
          <6> QED BY <6>1, <6>2, <6>3
        <5>3. \A y \in E : y <= m
          <6> TAKE y \in E
          <6>1. y \in Int /\ (y \in B \/ y \in crossed)
            BY <2>1, <2>3
          <6> QED BY <2>4, <5>1, <5>2, <6>1
        <5> QED BY <5>2, <5>3
      <4> HIDE DEF m
      <4>3. Max(E) = m
        BY <4>2, MaxIs
      <4>4. Max(E \cup {-1}) = Max(crossed)
        BY <2>3, <4>2, <4>3 DEF m
      <4> QED BY <3>2, <4>4
    <3> QED BY <3>1, <3>2
  <2>8. scan.line + Cardinality(crossed) = 1 + Cardinality(E)
    BY <1>1, <2>2, <2>5, <2>6
  <2>9. Advance(doc, scan, target) =
          [at |-> target, line |-> 1 + Cardinality(E), column |-> target - Max(E \cup {-1})]
    BY <1>2, <1>4, <2>7, <2>8
  <2> QED BY <2>9 DEF PlaceOf, scan, E
<1>5. target <= at => target = at
  OBVIOUS
<1> QED BY <1>3, <1>4, <1>5

(* One turn of the loop that assigns lines and columns.                      *)
Start == [scan |-> [at |-> 0, line |-> 1, column |-> 1], out |-> <<>>]

PlacedAt(d, scan) == [d EXCEPT !.line = scan.line, !.column = scan.column]

Assigned(doc, acc, d) ==
  [scan |-> Advance(doc, acc.scan, d.offset),
   out |-> Append(acc.out, PlacedAt(d, Advance(doc, acc.scan, d.offset)))]

AssignFolds(h, doc, list) ==
  h = [t \in SUBSET (DOMAIN list) |->
         IF t = {} THEN Start
         ELSE LET x == Max(t) IN Assigned(doc, h[t \ {x}], list[x])]

LEMMA AssignIsFold ==
  ASSUME NEW doc, NEW list
  PROVE  AssignLineColumns(doc, list) =
           (CHOOSE h : AssignFolds(h, doc, list))[DOMAIN list].out
BY Zenon DEF AssignLineColumns, FoldLeft, MapThenFoldSet, AssignFolds, Assigned, PlacedAt, Start

LEMMA PlacedType ==
  ASSUME NEW doc, NEW d \in Diagnostics(doc), NEW scan \in Scans(doc)
  PROVE  /\ PlacedAt(d, scan) \in Diagnostics(doc)
         /\ PlacedAt(d, scan).offset = d.offset /\ PlacedAt(d, scan).rule = d.rule
         /\ PlacedAt(d, scan).severity = d.severity /\ PlacedAt(d, scan).sequence = d.sequence
         /\ PlacedAt(d, scan).line = scan.line /\ PlacedAt(d, scan).column = scan.column
BY DEF PlacedAt, Diagnostics, Scans

LEMMA PlaceType ==
  ASSUME NEW doc, doc.length \in Nat, doc.newlines \subseteq 0 .. doc.length,
         NEW at \in 0 .. doc.length
  PROVE  PlaceOf(doc, at) \in Scans(doc)
<1> DEFINE E == LineEnds(doc, at)
           m == Max(E \cup {-1})
<1>1. /\ E \subseteq 0 .. doc.length /\ \A n \in E : n < at
      /\ Cardinality(E) \in Nat
      /\ E = {} => m = -1
      /\ E # {} => m = Max(E) /\ Max(E) \in E
  BY LineEndsFacts
<1> HIDE DEF E, m
<1>2. at - m \in Nat
  <2>1. CASE E = {}
    BY <1>1, <2>1
  <2>2. CASE E # {}
    <3>1. m \in E
      BY <1>1, <2>2
    <3>2. m \in Int
      BY <1>1, <3>1
    <3>3. m < at
      BY <1>1, <3>1
    <3> QED BY <3>2, <3>3
  <2> QED BY <2>1, <2>2
<1>3. 1 + Cardinality(E) \in Nat /\ at \in Places(doc)
  BY <1>1 DEF Places
<1>4. PlaceOf(doc, at) = [at |-> at, line |-> 1 + Cardinality(E), column |-> at - m]
  BY DEF PlaceOf, E, m
<1> QED BY <1>2, <1>3, <1>4 DEF Scans

(* The places of a document. *)
IsSized(doc) == doc.length \in Nat /\ doc.newlines \subseteq 0 .. doc.length

(* The offsets of a list never go back. *)
Forward(list) == \A k, l \in 1 .. Len(list) : k < l => list[k].offset <= list[l].offset

(* A list whose offsets never go back gets the line and the column of every  *)
(* offset, and keeps all else.                                               *)
LEMMA AssignedPlaces ==
  ASSUME NEW doc, IsSized(doc), NEW list \in Seq(Diagnostics(doc)), Forward(list)
  PROVE  /\ AssignLineColumns(doc, list) \in Seq(Diagnostics(doc))
         /\ Len(AssignLineColumns(doc, list)) = Len(list)
         /\ \A k \in 1 .. Len(list) :
              AssignLineColumns(doc, list)[k] = PlacedAt(list[k], PlaceOf(doc, list[k].offset))
<1> DEFINE n == Len(list)
           D == Diagnostics(doc)
           A == [scan : Scans(doc), out : Seq(D)]
           turn == [p \in A \X (1 .. n) |-> Assigned(doc, p[1], list[p[2]])]
           placed(k) == PlacedAt(list[k], PlaceOf(doc, list[k].offset))
           at(k) == IF k = 1 THEN 0 ELSE list[k - 1].offset
<1>1. n \in Nat /\ DOMAIN list = 1 .. n
  OBVIOUS
<1>2. ASSUME NEW k \in 1 .. n
      PROVE  list[k] \in D /\ list[k].offset \in 0 .. doc.length
  <2>1. list[k] \in D
    BY <1>2, ElementOfSeq
  <2> QED BY <2>1 DEF Diagnostics, Places
<1>0. doc.length \in Nat /\ doc.newlines \subseteq 0 .. doc.length
  BY DEF IsSized
<1> HIDE DEF D, n
<1>3. ASSUME NEW a \in A, NEW k \in 1 .. n
      PROVE  /\ turn[<<a, k>>] = Assigned(doc, a, list[k]) /\ turn[<<a, k>>] \in A
  <2>1. a.scan \in Scans(doc) /\ a.out \in Seq(D)
    OBVIOUS
  <2> DEFINE s == Advance(doc, a.scan, list[k].offset)
             d == PlacedAt(list[k], s)
  <2>2. s \in Scans(doc)
    BY <1>0, <1>2, <2>1, AdvanceType
  <2> HIDE DEF s
  <2>3. d \in D
    BY <1>2, <2>2, PlacedType DEF D
  <2> HIDE DEF d
  <2>4. Append(a.out, d) \in Seq(D)
    BY <2>1, <2>3, AppendProperties
  <2>5. Assigned(doc, a, list[k]) = [scan |-> s, out |-> Append(a.out, d)]
    BY DEF Assigned, s, d
  <2>6. Assigned(doc, a, list[k]) \in A
    BY <2>2, <2>4, <2>5
  <2>7. turn[<<a, k>>] = Assigned(doc, a, list[k])
    OBVIOUS
  <2> QED BY <2>6, <2>7
<1>4. Start \in A
  <2>1. [at |-> 0, line |-> 1, column |-> 1] \in Scans(doc) /\ <<>> \in Seq(D)
    BY <1>0, EmptySeq DEF Scans, Places
  <2> QED BY <2>1 DEF Start
<1> HIDE DEF A, turn
<1>5. PICK h : Folds(h, A, Start, turn, n)
  BY <1>1, <1>3, <1>4, FoldExists DEF StepsIn
<1>6. ASSUME NEW t \in SUBSET (1 .. n)
      PROVE  h[t] = IF t = {} THEN Start ELSE Assigned(doc, h[t \ {Max(t)}], list[Max(t)])
  <2>1. CASE t = {}
    BY <1>5, <2>1 DEF Folds
  <2>2. CASE t # {}
    <3>1. Max(t) \in 1 .. n /\ t \ {Max(t)} \in SUBSET (1 .. n) /\ Max(t) = Max(t)
      BY <1>1, <2>2, MaxOfPlaces
    <3>2. h[t \ {Max(t)}] \in A /\ h[t] = turn[<<h[t \ {Max(t)}], Max(t)>>]
      BY <1>5, <2>2, <3>1 DEF Folds
    <3> QED BY <1>3, <2>2, <3>1, <3>2
  <2> QED BY <2>1, <2>2
<1>7. \E g : AssignFolds(g, doc, list)
  <2>1. h = [t \in SUBSET (1 .. n) |->
               IF t = {} THEN Start ELSE Assigned(doc, h[t \ {Max(t)}], list[Max(t)])]
    BY <1>5, <1>6 DEF Folds
  <2>2. AssignFolds(h, doc, list)
    BY <1>1, <2>1, Zenon DEF AssignFolds
  <2> QED BY <2>2
<1> DEFINE g == CHOOSE f : AssignFolds(f, doc, list)
<1>8. AssignFolds(g, doc, list)
  BY <1>7, Zenon
<1>9. AssignLineColumns(doc, list) = g[1 .. n].out
  BY <1>1, AssignIsFold
<1> HIDE DEF g
<1>10. /\ \A t \in SUBSET (1 .. n) :
            g[t] = IF t = {} THEN Start ELSE Assigned(doc, g[t \ {Max(t)}], list[Max(t)])
  BY <1>1, <1>8, Zenon DEF AssignFolds
<1>11. /\ g[1 .. 0] = Start
       /\ \A k \in 1 .. n : g[1 .. k] = Assigned(doc, g[1 .. k - 1], list[k])
  <2>1. 1 .. 0 = {} /\ {} \in SUBSET (1 .. n)
    OBVIOUS
  <2>2. g[{}] = Start
    BY <1>10, <2>1
  <2>3. ASSUME NEW k \in 1 .. n
        PROVE  g[1 .. k] = Assigned(doc, g[1 .. k - 1], list[k])
    <3> DEFINE t == 1 .. k
    <3>1. t \in SUBSET (1 .. n) /\ t # {} /\ Max(t) = k /\ t \ {k} = 1 .. k - 1
      BY <1>1, PlacesUpTo
    <3> HIDE DEF t
    <3>2. g[t] = Assigned(doc, g[1 .. k - 1], list[k])
      BY <1>10, <3>1
    <3> QED BY <3>2 DEF t
  <2> QED BY <2>1, <2>2, <2>3
<1> DEFINE AsPlaced(acc, k) ==
             /\ acc.scan = PlaceOf(doc, at(k))
             /\ acc.out \in Seq(D) /\ Len(acc.out) = k - 1
             /\ \A i \in 1 .. k - 1 : acc.out[i] = placed(i)
           good == {k \in 1 .. n + 1 : AsPlaced(g[1 .. k - 1], k)}
<1>12. 1 \in good
  <2>1. LineEnds(doc, 0) = {}
    BY <1>0 DEF LineEnds
  <2>2. Max(LineEnds(doc, 0) \cup {-1}) = -1 /\ Cardinality(LineEnds(doc, 0)) = 0
    <3>1. LineEnds(doc, 0) \cup {-1} = {-1}
      BY <2>1
    <3>2. Max({-1}) = -1
      BY MaxIs
    <3> QED BY <2>1, <3>1, <3>2, FS_EmptySet
  <2>3. PlaceOf(doc, 0) = [at |-> 0, line |-> 1, column |-> 1]
    BY <2>2 DEF PlaceOf
  <2>4. <<>> \in Seq(D) /\ Len(<<>>) = 0
    BY EmptySeq
  <2>5. AsPlaced(Start, 1)
    BY <2>3, <2>4 DEF Start
  <2>6. 1 - 1 = 0 /\ 1 \in 1 .. n + 1
    BY <1>1
  <2> HIDE DEF AsPlaced
  <2> QED BY <1>11, <2>5, <2>6
<1>13. ASSUME NEW k \in 1 .. n, k \in good
       PROVE  k + 1 \in good
  <2> DEFINE acc == g[1 .. k - 1]
             d == placed(k)
  <2>1. /\ acc.scan = PlaceOf(doc, at(k)) /\ acc.out \in Seq(D) /\ Len(acc.out) = k - 1
        /\ \A i \in 1 .. k - 1 : acc.out[i] = placed(i)
    BY <1>13
  <2>2. g[1 .. k] = Assigned(doc, acc, list[k])
    BY <1>11
  <2> HIDE DEF acc
  <2>3. Advance(doc, acc.scan, list[k].offset) = PlaceOf(doc, list[k].offset)
    <3>1. at(k) \in 0 .. doc.length /\ at(k) <= list[k].offset
      <4>1. CASE k = 1
        BY <1>0, <1>2, <4>1
      <4>2. CASE k # 1
        <5>1. k - 1 \in 1 .. n /\ k - 1 < k
          BY <1>1, <4>2
        <5>2. list[k - 1].offset <= list[k].offset
          BY <5>1 DEF Forward, n
        <5> QED BY <1>2, <4>2, <5>1, <5>2
      <4> QED BY <4>1, <4>2
    <3>2. list[k].offset \in 0 .. doc.length
      BY <1>2
    <3> HIDE DEF at
    <3> QED BY <1>0, <2>1, <3>1, <3>2, AdvanceFinds
  <2>4. g[1 .. k].scan = PlaceOf(doc, list[k].offset) /\ g[1 .. k].out = Append(acc.out, d)
    BY <2>2, <2>3 DEF Assigned
  <2>5. d \in D
    <3>1. list[k].offset \in 0 .. doc.length /\ list[k] \in D
      BY <1>2
    <3>2. PlaceOf(doc, list[k].offset) \in Scans(doc)
      BY <1>0, <3>1, PlaceType
    <3> QED BY <3>1, <3>2, PlacedType DEF D
  <2> HIDE DEF d
  <2>6. /\ Append(acc.out, d) \in Seq(D) /\ Len(Append(acc.out, d)) = k
        /\ \A i \in 1 .. k - 1 : Append(acc.out, d)[i] = acc.out[i]
        /\ Append(acc.out, d)[k] = d
    BY <2>1, <2>5, AppendProperties
  <2>7. \A i \in 1 .. k : Append(acc.out, d)[i] = placed(i)
    BY <2>1, <2>6 DEF d
  <2>8. (k + 1) - 1 = k /\ k + 1 \in 1 .. n + 1 /\ at(k + 1) = list[k].offset
    BY <1>1
  <2>9. AsPlaced(g[1 .. k], k + 1)
    BY <2>4, <2>6, <2>7, <2>8
  <2> HIDE DEF AsPlaced
  <2> QED BY <2>8, <2>9
<1>14. AsPlaced(g[1 .. n], n + 1)
  <2>1. \A k \in 1 .. n + 1 : k \in good
    <3> HIDE DEF good
    <3> QED BY <1>1, <1>12, <1>13, Stepwise
  <2>2. n + 1 \in 1 .. n + 1 /\ (n + 1) - 1 = n
    BY <1>1
  <2> HIDE DEF AsPlaced
  <2> QED BY <2>1, <2>2
<1> QED BY <1>1, <1>9, <1>14 DEF n, D

(* A report: all that is wanted, in order, each at its place.                *)
IsPlaced(list, doc) ==
  \A k \in 1 .. Len(list) :
    /\ list[k].line = PlaceOf(doc, list[k].offset).line
    /\ list[k].column = PlaceOf(doc, list[k].offset).column

IsReport(list, wanted, doc) == Lists(list, wanted, doc) /\ InOrder(list) /\ IsPlaced(list, doc)

LEMMA PlacedLists ==
  ASSUME NEW doc, IsSized(doc), NEW list, NEW wanted, Lists(list, wanted, doc), Forward(list)
  PROVE  /\ Lists(AssignLineColumns(doc, list), wanted, doc)
         /\ IsPlaced(AssignLineColumns(doc, list), doc)
         /\ InOrder(list) => InOrder(AssignLineColumns(doc, list))
         /\ Len(AssignLineColumns(doc, list)) = Len(list)
<1> DEFINE n == Len(list)
           out == AssignLineColumns(doc, list)
<1>0. doc.length \in Nat /\ doc.newlines \subseteq 0 .. doc.length
  BY DEF IsSized
<1>1. /\ n \in Nat /\ list \in Seq(Diagnostics(doc))
      /\ \A k \in 1 .. n : list[k] \in Diagnostics(doc) /\ list[k].offset \in 0 .. doc.length
  BY <1>0, ListsTypes
<1>2. /\ out \in Seq(Diagnostics(doc)) /\ Len(out) = n
      /\ \A k \in 1 .. n : out[k] = PlacedAt(list[k], PlaceOf(doc, list[k].offset))
  BY <1>1, AssignedPlaces
<1> HIDE DEF out
<1>3. ASSUME NEW k \in 1 .. n
      PROVE  /\ out[k].offset = list[k].offset /\ out[k].rule = list[k].rule
             /\ out[k].severity = list[k].severity /\ out[k].sequence = list[k].sequence
             /\ out[k].line = PlaceOf(doc, list[k].offset).line
             /\ out[k].column = PlaceOf(doc, list[k].offset).column
  <2>1. PlaceOf(doc, list[k].offset) \in Scans(doc)
    BY <1>0, <1>1, PlaceType
  <2> QED BY <1>1, <1>2, <2>1, PlacedType
<1>4. /\ wanted \in Seq(Anchors(doc)) /\ Len(wanted) = n
      /\ \A k \in 1 .. n :
           list[k].sequence < n /\ SameKind(list[k], wanted[list[k].sequence + 1])
      /\ \A k, l \in 1 .. n : list[k].sequence = list[l].sequence => k = l
  BY DEF Lists
<1> HIDE DEF n
<1>5. Lists(out, wanted, doc)
  <2>1. \A k \in 1 .. n :
          out[k].sequence < n /\ SameKind(out[k], wanted[out[k].sequence + 1])
    BY <1>3, <1>4 DEF SameKind
  <2>2. \A k, l \in 1 .. n : out[k].sequence = out[l].sequence => k = l
    BY <1>3, <1>4
  <2> QED BY <1>2, <1>4, <2>1, <2>2 DEF Lists
<1>6. IsPlaced(out, doc)
  BY <1>2, <1>3 DEF IsPlaced
<1>7. InOrder(list) => InOrder(out)
  <2> SUFFICES ASSUME InOrder(list), NEW k \in 1 .. n, NEW l \in 1 .. n, k < l
               PROVE  Compare(out[k], out[l])
    BY <1>2 DEF InOrder
  <2>1. Compare(list[k], list[l])
    BY DEF InOrder, n
  <2> QED BY <1>3, <2>1 DEF Compare
<1> QED BY <1>2, <1>5, <1>6, <1>7 DEF out, n

LEMMA OrderedIsForward ==
  ASSUME NEW doc, doc.length \in Nat, NEW list, NEW wanted, Lists(list, wanted, doc), InOrder(list)
  PROVE  Forward(list)
<1> SUFFICES ASSUME NEW k \in 1 .. Len(list), NEW l \in 1 .. Len(list), k < l
             PROVE  list[k].offset <= list[l].offset
  BY DEF Forward
<1>1. Compare(list[k], list[l])
  BY DEF InOrder
<1>2. list[k].offset \in Nat /\ list[l].offset \in Nat
  BY ListsTypes
<1> QED BY <1>1, <1>2 DEF Compare

LEMMA FinishedIsReport ==
  ASSUME NEW doc, IsSized(doc), NEW list, NEW wanted, Lists(list, wanted, doc)
  PROVE  IsReport(Finished(doc, list), wanted, doc) /\ Len(Finished(doc, list)) = Len(wanted)
<1> DEFINE sorted == Sorted(list)
<1>0. doc.length \in Nat
  BY DEF IsSized
<1>1. Lists(sorted, wanted, doc) /\ InOrder(sorted)
  BY <1>0, SortedLists
<1> HIDE DEF sorted
<1>2. Forward(sorted)
  BY <1>0, <1>1, OrderedIsForward
<1>3. /\ Lists(AssignLineColumns(doc, sorted), wanted, doc)
      /\ IsPlaced(AssignLineColumns(doc, sorted), doc)
      /\ InOrder(AssignLineColumns(doc, sorted))
  BY <1>1, <1>2, PlacedLists
<1>4. Finished(doc, list) = AssignLineColumns(doc, sorted)
  BY DEF Finished, sorted
<1>5. IsReport(Finished(doc, list), wanted, doc)
  BY <1>3, <1>4 DEF IsReport
<1>6. Len(Finished(doc, list)) = Len(wanted)
  BY <1>5 DEF IsReport, Lists
<1> QED BY <1>5, <1>6

(* What the checker promises of the list it publishes.                       *)
SaysAll(report, wanted, doc) ==
  /\ \A i \in DOMAIN wanted :
       Cardinality({j \in DOMAIN report : SameKind(report[j], wanted[i])})
         = Cardinality({j \in DOMAIN wanted : SameKind(wanted[j], wanted[i])})
  /\ \A i, j \in DOMAIN report : i < j =>
       /\ report[i].offset <= report[j].offset
       /\ report[i].offset = report[j].offset => report[i].rule <= report[j].rule
       /\ SameKind(report[i], report[j]) => report[i].sequence < report[j].sequence
  /\ \A i \in DOMAIN report :
       /\ report[i].line = 1 + Cardinality({n \in doc.newlines : n < report[i].offset})
       /\ report[i].column =
            report[i].offset - Max({n \in doc.newlines : n < report[i].offset} \cup {-1})

LEMMA ReportSaysAll ==
  ASSUME NEW doc, doc.length \in Nat, NEW list, NEW wanted, IsReport(list, wanted, doc)
  PROVE  SaysAll(list, wanted, doc)
<1> DEFINE n == Len(list)
<1>0. Lists(list, wanted, doc) /\ InOrder(list) /\ IsPlaced(list, doc)
  BY DEF IsReport
<1>1. /\ n \in Nat /\ list \in Seq(Diagnostics(doc))
      /\ \A k \in 1 .. n :
           /\ list[k].offset \in 0 .. doc.length /\ list[k].rule \in Nat
           /\ list[k].severity \in Nat /\ list[k].sequence \in Nat
  BY <1>0, ListsTypes
<1>2. /\ wanted \in Seq(Anchors(doc)) /\ Len(wanted) = n
      /\ \A k \in 1 .. n :
           list[k].sequence < n /\ SameKind(list[k], wanted[list[k].sequence + 1])
      /\ \A k, l \in 1 .. n : list[k].sequence = list[l].sequence => k = l
  BY <1>0 DEF Lists
<1>3. DOMAIN list = 1 .. n
  BY <1>1
<1>4. DOMAIN wanted = 1 .. n
  BY <1>2
<1> DEFINE f == [k \in 1 .. n |-> list[k].sequence + 1]
<1>5. OneToOne(f, n)
  <2>1. f \in [1 .. n -> 1 .. n]
    <3>1. \A k \in 1 .. n : list[k].sequence + 1 \in 1 .. n
      <4> TAKE k \in 1 .. n
      <4>1. list[k].sequence \in Nat /\ list[k].sequence < n
        BY <1>1, <1>2
      <4> HIDE DEF n
      <4> QED BY <1>1, <4>1
    <3> QED BY <3>1
  <2>2. \A k, l \in 1 .. n : f[k] = f[l] => k = l
    <3> TAKE k \in 1 .. n, l \in 1 .. n
    <3>1. list[k].sequence \in Nat /\ list[l].sequence \in Nat
      BY <1>1
    <3>2. f[k] = list[k].sequence + 1 /\ f[l] = list[l].sequence + 1
      OBVIOUS
    <3>3. list[k].sequence = list[l].sequence => k = l
      BY <1>2
    <3> HIDE DEF f, n
    <3> QED BY <3>1, <3>2, <3>3
  <2> HIDE DEF f
  <2> QED BY <2>1, <2>2 DEF OneToOne
<1>6. \A k \in 1 .. n : f[k] = list[k].sequence + 1
  OBVIOUS
<1> HIDE DEF n, f
<1>7. ASSUME NEW i \in 1 .. n
      PROVE  Cardinality({j \in DOMAIN list : SameKind(list[j], wanted[i])})
               = Cardinality({j \in DOMAIN wanted : SameKind(wanted[j], wanted[i])})
  <2> DEFINE P == {j \in 1 .. n : SameKind(list[j], wanted[i])}
             Q == {j \in 1 .. n : SameKind(wanted[j], wanted[i])}
  <2>1. ASSUME NEW k \in 1 .. n
        PROVE  k \in P <=> f[k] \in Q
    <3>1. f[k] \in 1 .. n
      BY <1>5 DEF OneToOne
    <3>2. SameKind(list[k], wanted[f[k]])
      BY <1>2, <1>6
    <3> QED BY <3>1, <3>2 DEF SameKind
  <2>2. P \in SUBSET (1 .. n) /\ Q \in SUBSET (1 .. n)
    OBVIOUS
  <2> HIDE DEF P, Q
  <2>3. Cardinality(P) = Cardinality(Q)
    BY <1>1, <1>5, <2>1, <2>2, OneToOneCounts
  <2> QED BY <1>3, <1>4, <2>3 DEF P, Q
<1>8. ASSUME NEW i \in 1 .. n, NEW j \in 1 .. n, i < j
      PROVE  /\ list[i].offset <= list[j].offset
             /\ list[i].offset = list[j].offset => list[i].rule <= list[j].rule
             /\ SameKind(list[i], list[j]) => list[i].sequence < list[j].sequence
  <2>1. Compare(list[i], list[j])
    BY <1>0, <1>8 DEF InOrder, n
  <2>2. /\ list[i].offset \in Nat /\ list[j].offset \in Nat
        /\ list[i].rule \in Nat /\ list[j].rule \in Nat
        /\ list[i].severity \in Nat /\ list[j].severity \in Nat
    BY <1>1
  <2> QED BY <2>1, <2>2 DEF Compare, SameKind
<1>9. ASSUME NEW i \in 1 .. n
      PROVE  /\ list[i].line = 1 + Cardinality({m \in doc.newlines : m < list[i].offset})
             /\ list[i].column =
                  list[i].offset - Max({m \in doc.newlines : m < list[i].offset} \cup {-1})
  <2>1. /\ list[i].line = PlaceOf(doc, list[i].offset).line
        /\ list[i].column = PlaceOf(doc, list[i].offset).column
    BY <1>0 DEF IsPlaced, n
  <2> QED BY <2>1 DEF PlaceOf, LineEnds
<1>10. \A i, j \in DOMAIN list : i < j =>
         /\ list[i].offset <= list[j].offset
         /\ list[i].offset = list[j].offset => list[i].rule <= list[j].rule
         /\ SameKind(list[i], list[j]) => list[i].sequence < list[j].sequence
  BY <1>3, <1>8
<1> QED BY <1>3, <1>4, <1>7, <1>9, <1>10, Zenon DEF SaysAll

(* What the gates and the groups find, row by row.                           *)
GateRows(doc) == [i \in 1 .. Len(Gates) |-> Findings(Gates[i], doc)]

GroupRows(doc) == [i \in 1 .. Len(Groups) |-> Findings(Groups[i], doc)]

Names ==
  {"g03_r1a", "g03_r2a", "g03_r3a", "g03_r4a", "g03_r5a", "g03_r7a", "g04_r1a", "g04_r2a",
   "g05_r1a", "g05_r2a", "g05_r3a", "g05_r4a", "g06", "g07", "g08", "g09", "g10", "g11",
   "g12", "g13", "g14", "g15", "g16"}

LEMMA GateNames ==
  /\ Gates \in Seq(Names) /\ Len(Gates) = 17
  /\ \A i \in 1 .. Len(Gates) : Gates[i] # "parse" /\ Gates[i] # "g02"
<1> DEFINE S == Seq(Names)
           b1 == <<"g03_r1a", "g03_r2a", "g03_r3a", "g03_r4a">>
           b2 == <<"g03_r5a">>
           b3 == <<"g03_r7a">>
           b4 == <<"g04_r1a", "g05_r1a", "g05_r2a", "g05_r3a", "g05_r4a", "g06",
                   "g07", "g08", "g09", "g10", "g11">>
<1>0. b1 \in S /\ b2 \in S /\ b3 \in S /\ b4 \in S
  <2>1. b1 \in S
    BY DEF Names
  <2>2. b2 \in S
    BY DEF Names
  <2>3. b3 \in S
    BY DEF Names
  <2>4. b4 \in S
    BY DEF Names
  <2> QED BY <2>1, <2>2, <2>3, <2>4
<1>1. Batches \in Seq(S) /\ Len(Batches) = 4
  <2>1. Batches = <<b1, b2, b3, b4>>
    BY DEF Batches
  <2> HIDE DEF S, b1, b2, b3, b4
  <2>2. <<b1, b2, b3, b4>> \in Seq(S) /\ Len(<<b1, b2, b3, b4>>) = 4
    BY <1>0
  <2> QED BY <2>1, <2>2
<1>2. /\ Len(Batches[1]) = 4 /\ Len(Batches[2]) = 1 /\ Len(Batches[3]) = 1
      /\ Len(Batches[4]) = 11
  BY DEF Batches
<1>4. Gates \in Seq(Names)
  BY <1>1, FlattenFacts DEF Gates
<1>5. PICK start : LaysOut(start, Batches, Gates)
  BY <1>1, FlattenFacts DEF Gates
<1>6. Len(Gates) = 17
  <2>1. /\ start[1] = 0 /\ start[2] = start[1] + Len(Batches[1])
        /\ start[3] = start[2] + Len(Batches[2]) /\ start[4] = start[3] + Len(Batches[3])
        /\ start[5] = start[4] + Len(Batches[4]) /\ Len(Gates) = start[5]
    <3>1. /\ start[1] = 0 /\ Len(Gates) = start[4 + 1]
          /\ \A m \in 1 .. 4 : start[m + 1] = start[m] + Len(Batches[m])
      BY <1>1, <1>5 DEF LaysOut
    <3> QED BY <3>1
  <2> QED BY <1>2, <2>1
<1>7. ASSUME NEW i \in 1 .. Len(Gates)
      PROVE  Gates[i] # "parse" /\ Gates[i] # "g02"
  <2>1. Gates[i] \in Names
    BY <1>4, ElementOfSeq
  <2> QED BY <2>1 DEF Names
<1> QED BY <1>4, <1>6, <1>7

LEMMA GroupNames == Groups \in Seq(Names) /\ Len(Groups) = 5
<1>1. Groups \in Seq(Names)
  BY DEF Groups, Names
<1>2. Len(Groups) = 5
  BY DEF Groups
<1> QED BY <1>1, <1>2

LEMMA DocumentSizes ==
  ASSUME NEW doc \in Documents
  PROVE  /\ IsDocument(doc) /\ IsSized(doc) /\ doc.length \in Nat
  BY DocumentsAssumption DEF IsDocument, IsSized, Places

LEMMA RuledAreAnchors ==
  ASSUME NEW doc, NEW found \in Seq(Ruled(doc))
  PROVE  found \in Seq(Anchors(doc))
<1>1. Ruled(doc) \subseteq Anchors(doc)
  BY DEF Ruled, Anchors
<1> QED BY <1>1, SeqMonotonic

LEMMA GatesFind ==
  ASSUME NEW doc \in Documents
  PROVE  /\ GateRows(doc) \in Seq(Seq(Ruled(doc))) /\ Len(GateRows(doc)) = Len(Gates)
         /\ \A i \in 1 .. Len(Gates) : GateRows(doc)[i] = Findings(Gates[i], doc)
         /\ GroupRows(doc) \in Seq(Seq(Ruled(doc))) /\ Len(GroupRows(doc)) = Len(Groups)
         /\ \A i \in 1 .. Len(Groups) : GroupRows(doc)[i] = Findings(Groups[i], doc)
         /\ Findings("g04_r2a", doc) \in Seq(Ruled(doc))
<1> DEFINE all == Gates \o Groups \o <<"g04_r2a">>
           n == Len(Gates)
           m == Len(Groups)
<1>1. /\ Gates \in Seq(Names) /\ Groups \in Seq(Names) /\ n \in Nat /\ m \in Nat
      /\ <<"g04_r2a">> \in Seq(Names) /\ Len(<<"g04_r2a">>) = 1
  <2>1. <<"g04_r2a">> \in Seq(Names) /\ Len(<<"g04_r2a">>) = 1
    BY DEF Names
  <2>2. Gates \in Seq(Names) /\ Groups \in Seq(Names)
    BY GateNames, GroupNames
  <2>3. n \in Nat /\ m \in Nat
    BY <2>2
  <2> QED BY <2>1, <2>2, <2>3
<1> HIDE DEF n, m
<1>2. /\ Gates \o Groups \in Seq(Names) /\ Len(Gates \o Groups) = n + m
      /\ \A k \in 1 .. n + m : (Gates \o Groups)[k] = IF k <= n THEN Gates[k] ELSE Groups[k - n]
  <2>1. n = Len(Gates) /\ m = Len(Groups)
    BY DEF n, m
  <2> QED BY <1>1, <2>1, Concatenated
<1>3. /\ all \in Seq(Names) /\ Len(all) = n + m + 1
      /\ \A k \in 1 .. n + m + 1 :
           all[k] = IF k <= n + m THEN (Gates \o Groups)[k] ELSE <<"g04_r2a">>[k - (n + m)]
  <2> DEFINE s == Gates \o Groups
             t == <<"g04_r2a">>
             sum == n + m
             one == 1
  <2>1. s \in Seq(Names) /\ t \in Seq(Names) /\ sum = Len(s) /\ one = Len(t)
    BY <1>1, <1>2
  <2> HIDE DEF s, t, sum, one
  <2>2. s \o t \in Seq(Names) /\ Len(s \o t) = sum + one
    BY <2>1, Concatenated
  <2>3. \A k \in 1 .. sum + one : (s \o t)[k] = IF k <= sum THEN s[k] ELSE t[k - sum]
    BY <2>1, Concatenated
  <2> QED BY <2>2, <2>3 DEF s, t, sum, one
<1> HIDE DEF all
<1>4. \A k \in 1 .. n + m + 1 : all[k] \in Range(all)
  BY <1>3 DEF Range
<1>5. \A gate \in Range(all) : Findings(gate, doc) \in Seq(Ruled(doc))
  BY DocumentsAssumption DEF IsFound, Ruled, all
<1>6. \A k \in 1 .. n : Findings(Gates[k], doc) \in Seq(Ruled(doc))
  <2> TAKE k \in 1 .. n
  <2>1. k \in 1 .. n + m + 1 /\ k <= n + m /\ k \in 1 .. n + m /\ k <= n
    BY <1>1
  <2>2. all[k] = Gates[k]
    BY <1>2, <1>3, <2>1
  <2> QED BY <1>4, <1>5, <2>1, <2>2
<1>7. \A k \in 1 .. m : Findings(Groups[k], doc) \in Seq(Ruled(doc))
  <2> TAKE k \in 1 .. m
  <2>1. n + k \in 1 .. n + m + 1 /\ n + k <= n + m /\ n + k \in 1 .. n + m /\ ~(n + k <= n)
        /\ (n + k) - n = k
    BY <1>1
  <2>2. all[n + k] = Groups[k]
    BY <1>2, <1>3, <2>1
  <2> QED BY <1>4, <1>5, <2>1, <2>2
<1>8. Findings("g04_r2a", doc) \in Seq(Ruled(doc))
  <2>1. n + m + 1 \in 1 .. n + m + 1 /\ ~(n + m + 1 <= n + m) /\ (n + m + 1) - (n + m) = 1
    BY <1>1
  <2>2. all[n + m + 1] = "g04_r2a"
    BY <1>3, <2>1
  <2> QED BY <1>4, <1>5, <2>1, <2>2
<1> DEFINE R == Seq(Ruled(doc))
<1>9. GateRows(doc) \in Seq(R) /\ Len(GateRows(doc)) = n
  <2> HIDE DEF R
  <2>1. \A k \in 1 .. n : Findings(Gates[k], doc) \in R
    BY <1>6 DEF R
  <2>2. [k \in 1 .. n |-> Findings(Gates[k], doc)] \in Seq(R)
        /\ Len([k \in 1 .. n |-> Findings(Gates[k], doc)]) = n
    BY <1>1, <2>1, IsASeq
  <2> QED BY <2>2 DEF GateRows, n
<1>10. GroupRows(doc) \in Seq(R) /\ Len(GroupRows(doc)) = m
  <2> HIDE DEF R
  <2>1. \A k \in 1 .. m : Findings(Groups[k], doc) \in R
    BY <1>7 DEF R
  <2>2. [k \in 1 .. m |-> Findings(Groups[k], doc)] \in Seq(R)
        /\ Len([k \in 1 .. m |-> Findings(Groups[k], doc)]) = m
    BY <1>1, <2>1, IsASeq
  <2> QED BY <2>2 DEF GroupRows, m
<1>11. /\ \A i \in 1 .. Len(Gates) : GateRows(doc)[i] = Findings(Gates[i], doc)
       /\ \A i \in 1 .. Len(Groups) : GroupRows(doc)[i] = Findings(Groups[i], doc)
  BY DEF GateRows, GroupRows
<1> QED BY <1>8, <1>9, <1>10, <1>11 DEF n, m

LEMMA ParseFinds ==
  ASSUME NEW doc \in Documents
  PROVE  /\ ParseAnchors(doc) \in Seq(Anchors(doc))
         /\ \A i \in 1 .. Len(ParseAnchors(doc)) : ParseAnchors(doc)[i].rule \in {1, 2}
         /\ Len(ParseAnchors(doc)) \in Nat
         /\ doc.length = 0 => ParseAnchors(doc) = <<>>
<1> DEFINE P == {a \in Anchors(doc) : a.rule \in {1, 2}}
           n == Len(doc.tokenizerErrors)
           m == Len(doc.treeErrors)
           s == [i \in 1 .. n |-> [offset |-> doc.tokenizerErrors[i], rule |-> 1, severity |-> Error]]
           t == [i \in 1 .. m |-> [offset |-> doc.treeErrors[i], rule |-> 2, severity |-> Error]]
<1>1. /\ doc.tokenizerErrors \in Seq(Places(doc)) /\ doc.treeErrors \in Seq(Places(doc))
      /\ n \in Nat /\ m \in Nat
      /\ doc.length = 0 => doc.tokenizerErrors = <<>> /\ doc.treeErrors = <<>>
  BY DocumentSizes DEF IsDocument
<1>2. \A i \in 1 .. n :
        [offset |-> doc.tokenizerErrors[i], rule |-> 1, severity |-> Error] \in P
  <2> TAKE i \in 1 .. n
  <2>1. doc.tokenizerErrors[i] \in Places(doc)
    BY <1>1, ElementOfSeq
  <2> QED BY <2>1 DEF Anchors
<1>3. \A i \in 1 .. m :
        [offset |-> doc.treeErrors[i], rule |-> 2, severity |-> Error] \in P
  <2> TAKE i \in 1 .. m
  <2>1. doc.treeErrors[i] \in Places(doc)
    BY <1>1, ElementOfSeq
  <2> QED BY <2>1 DEF Anchors
<1>4. s \in Seq(P) /\ t \in Seq(P)
  <2> HIDE DEF P, n, m
  <2> QED BY <1>1, <1>2, <1>3, IsASeq
<1>5. ParseAnchors(doc) = s \o t
  BY DEF ParseAnchors
<1>6. ParseAnchors(doc) \in Seq(P) /\ Len(ParseAnchors(doc)) \in Nat
  <2> HIDE DEF s, t, P
  <2> QED BY <1>4, <1>5, ConcatProperties
<1>7. ParseAnchors(doc) \in Seq(Anchors(doc))
  <2>1. P \subseteq Anchors(doc)
    OBVIOUS
  <2> HIDE DEF P
  <2> QED BY <1>6, <2>1, SeqMonotonic
<1>8. \A i \in 1 .. Len(ParseAnchors(doc)) : ParseAnchors(doc)[i].rule \in {1, 2}
  <2> TAKE i \in 1 .. Len(ParseAnchors(doc))
  <2>1. ParseAnchors(doc)[i] \in P
    <3> HIDE DEF P
    <3> QED BY <1>6, ElementOfSeq
  <2> QED BY <2>1
<1>9. doc.length = 0 => ParseAnchors(doc) = <<>>
  <2> SUFFICES ASSUME doc.length = 0 PROVE s \o t = <<>>
    BY <1>5
  <2>1. n = 0 /\ m = 0
    BY <1>1
  <2>2. Len(s) = 0 /\ Len(t) = 0
    BY <2>1
  <2>3. Len(s \o t) = 0 /\ s \o t \in Seq(P)
    <3> HIDE DEF s, t, P
    <3> QED BY <1>4, <2>2, ConcatProperties
  <2> HIDE DEF s, t, P
  <2> QED BY <2>3, EmptySeq
<1> QED BY <1>6, <1>7, <1>8, <1>9

LEMMA IssueIsRuled ==
  ASSUME NEW doc, NEW offset \in Places(doc), NEW ordinal \in Nat
  PROVE  Issue(ordinal, offset) \in Seq(Ruled(doc)) /\ Len(Issue(ordinal, offset)) = 1
<1> DEFINE a == [offset |-> offset, rule |-> 200 + ordinal, severity |-> Error]
           S == Ruled(doc)
<1>1. a \in S
  BY DEF Ruled
<1>2. Issue(ordinal, offset) = <<a>>
  BY DEF Issue
<1> HIDE DEF a, S
<1>3. <<a>> \in Seq(S) /\ Len(<<a>>) = 1
  BY <1>1
<1> QED BY <1>2, <1>3 DEF S

LEMMA NothingIsRuled ==
  ASSUME NEW doc
  PROVE  <<>> \in Seq(Ruled(doc)) /\ Len(<<>>) = 0
BY EmptySeq

LEMMA TwoRuled ==
  ASSUME NEW doc, NEW s \in Seq(Ruled(doc)), NEW t \in Seq(Ruled(doc))
  PROVE  s \o t \in Seq(Ruled(doc))
BY ConcatProperties

(* The checks of the document level, unless the parser contradicts itself.   *)
LEMMA DocumentChecks ==
  ASSUME NEW doc \in Documents, ~Contradicted(doc)
  PROVE  G02(doc) \in Seq(Ruled(doc))
<1> DEFINE R == Seq(Ruled(doc))
<1>1. IsDocument(doc)
  BY DocumentSizes
<1>2. 0 \in Places(doc)
  BY <1>1 DEF IsDocument, Places
<1>3. DoctypeRequired(doc) \in R
  BY <1>2, IssueIsRuled, NothingIsRuled DEF DoctypeRequired
<1>4. DoctypeSyntax(doc) \in R
  <2>1. doc.doctypeIssue # None => doc.doctypeIssue \in Places(doc)
    BY <1>1 DEF IsDocument
  <2> QED BY <2>1, IssueIsRuled, NothingIsRuled DEF DoctypeSyntax
<1>5. DoctypeLegacy(doc) \in R
  <2>1. CASE doc.legacyId # None
    <3> DEFINE a == [offset |-> doc.legacyId, rule |-> 203, severity |-> Warning]
               S == Ruled(doc)
    <3>1. doc.legacyId \in Places(doc)
      BY <1>1, <2>1 DEF IsDocument
    <3>2. a \in S
      BY <3>1 DEF Ruled
    <3>3. <<a>> \in Seq(S)
      <4> HIDE DEF a, S
      <4> QED BY <3>2
    <3> QED BY <3>3, NothingIsRuled DEF DoctypeLegacy
  <2>2. CASE doc.legacyId = None
    BY <2>2, NothingIsRuled DEF DoctypeLegacy
  <2> QED BY <2>1, <2>2
<1>6. \A i \in 1 .. 3 : G02Checks(doc)[i] # Contradiction
  BY DEF Contradicted
<1>7. HeadTitle(doc) \in R
  <2>1. HeadTitle(doc) # Contradiction
    BY <1>6 DEF G02Checks
  <2>2. Len(doc.titleTags) >= 2 => doc.titleTags[2] \in Places(doc)
    <3>1. doc.titleTags \in Seq(Places(doc))
      BY <1>1 DEF IsDocument
    <3>2. Len(doc.titleTags) \in Nat
      BY <3>1
    <3>3. Len(doc.titleTags) >= 2 => 2 \in 1 .. Len(doc.titleTags)
      BY <3>2
    <3> QED BY <3>1, <3>3, ElementOfSeq
  <2>3. Len(doc.titleTags) >= 2 => Issue(6, doc.titleTags[2]) \in R
    BY <2>2, IssueIsRuled
  <2>4. Issue(6, 0) \in R /\ <<>> \in R
    BY <1>2, IssueIsRuled, NothingIsRuled
  <2>5. CASE doc.titleChildren = 1
    BY <2>4, <2>5 DEF HeadTitle
  <2>6. CASE doc.titleChildren = 0
    BY <2>4, <2>6 DEF HeadTitle
  <2>7. CASE doc.titleChildren > 1 /\ Len(doc.titleTags) >= 2
    BY <2>3, <2>7 DEF HeadTitle
  <2>8. CASE ~(doc.titleChildren = 1) /\ ~(doc.titleChildren = 0)
             /\ ~(doc.titleChildren > 1 /\ Len(doc.titleTags) >= 2)
    <3>1. HeadTitle(doc) = Contradiction
      BY <2>8, Zenon DEF HeadTitle
    <3> QED BY <2>1, <3>1
  <2> QED BY <2>5, <2>6, <2>7, <2>8
<1>8. HeadBase(doc) \in R
  <2>1. HeadBase(doc) # Contradiction
    BY <1>6 DEF G02Checks
  <2>2. Len(doc.baseTags) >= 2 => doc.baseTags[2] \in Places(doc)
    <3>1. doc.baseTags \in Seq(Places(doc))
      BY <1>1 DEF IsDocument
    <3>2. Len(doc.baseTags) \in Nat
      BY <3>1
    <3>3. Len(doc.baseTags) >= 2 => 2 \in 1 .. Len(doc.baseTags)
      BY <3>2
    <3> QED BY <3>1, <3>3, ElementOfSeq
  <2>3. Len(doc.baseTags) >= 2 => Issue(7, doc.baseTags[2]) \in R
    BY <2>2, IssueIsRuled
  <2>4. <<>> \in R
    BY NothingIsRuled
  <2>5. CASE doc.baseChildren <= 1
    BY <1>1, <2>4, <2>5 DEF HeadBase, IsDocument
  <2>6. CASE doc.baseChildren > 1 /\ Len(doc.baseTags) >= 2
    BY <1>1, <2>3, <2>6 DEF HeadBase, IsDocument
  <2>7. CASE ~(doc.baseChildren <= 1) /\ ~(doc.baseChildren > 1 /\ Len(doc.baseTags) >= 2)
    <3>1. HeadBase(doc) = Contradiction
      BY <2>7, Zenon DEF HeadBase
    <3> QED BY <2>1, <3>1
  <2> QED BY <2>5, <2>6, <2>7
<1>9. BodySingleton(doc) \in R
  <2>1. BodySingleton(doc) # Contradiction
    BY <1>6 DEF G02Checks
  <2>2. doc.bodyTags \in Seq(Places(doc)) /\ Len(doc.bodyTags) \in Nat
    <3>1. doc.bodyTags \in Seq(Places(doc))
      BY <1>1 DEF IsDocument
    <3> QED BY <3>1
  <2>3. Len(doc.bodyTags) > 1 => Issue(8, doc.bodyTags[2]) \in R
    <3>1. Len(doc.bodyTags) > 1 => 2 \in 1 .. Len(doc.bodyTags)
      BY <2>2
    <3>2. Len(doc.bodyTags) > 1 => doc.bodyTags[2] \in Places(doc)
      BY <2>2, <3>1, ElementOfSeq
    <3> QED BY <3>2, IssueIsRuled
  <2>4. Issue(8, 0) \in R /\ <<>> \in R
    BY <1>2, IssueIsRuled, NothingIsRuled
  <2>5. CASE Len(doc.bodyTags) > 1
    BY <2>2, <2>3, <2>5 DEF BodySingleton
  <2>6. CASE Len(doc.bodyTags) <= 1 /\ doc.bodies = 1
    BY <2>2, <2>4, <2>6 DEF BodySingleton
  <2>7. CASE Len(doc.bodyTags) <= 1 /\ doc.bodies = 0
    BY <2>2, <2>4, <2>7 DEF BodySingleton
  <2>8. CASE ~(Len(doc.bodyTags) > 1) /\ ~(Len(doc.bodyTags) <= 1 /\ doc.bodies = 1)
             /\ ~(Len(doc.bodyTags) <= 1 /\ doc.bodies = 0)
    <3>1. BodySingleton(doc) = Contradiction
      BY <2>8, Zenon DEF BodySingleton
    <3> QED BY <2>1, <3>1
  <2> QED BY <2>5, <2>6, <2>7, <2>8
<1>10. FlattenSeq(G02Checks(doc)) \in R
  <2>1. G02Checks(doc) \in Seq(R)
    <3> HIDE DEF R
    <3> QED BY <1>7, <1>8, <1>9 DEF G02Checks
  <2> QED BY <2>1, FlattenFacts
<1> DEFINE a == DoctypeRequired(doc)
           b == DoctypeSyntax(doc)
           c == DoctypeLegacy(doc)
           d == FlattenSeq(G02Checks(doc))
<1>11. G02(doc) = a \o b \o c \o d
  BY DEF G02
<1> HIDE DEF a, b, c, d, R
<1>12. a \in R /\ b \in R /\ c \in R /\ d \in R
  BY <1>3, <1>4, <1>5, <1>10 DEF a, b, c, d
<1>13. a \o b \in R
  BY <1>12, TwoRuled DEF R
<1>14. a \o b \o c \in R
  BY <1>12, <1>13, TwoRuled DEF R
<1>15. a \o b \o c \o d \in R
  BY <1>12, <1>14, TwoRuled DEF R
<1> QED BY <1>11, <1>15 DEF R

(* What the first pass has to say of a document, and the groups after it.    *)
Legacy(doc) ==
  IF doc.badByte # None THEN <<Utf8Anchor(doc)>>
  ELSE IF doc.length = 0 THEN Issue(1, 0) \o Issue(6, 0)
  ELSE ParseAnchors(doc) \o G02(doc) \o FlattenSeq(GateRows(doc))

Grouped(doc) == FlattenSeq(GroupRows(doc))

Reads(doc) == doc.badByte = None /\ doc.length # 0

(* The findings of the parse, or of the decoding before it, come first.      *)
ReportFront(doc) == IF doc.badByte # None THEN <<Utf8Anchor(doc)>> ELSE ParseAnchors(doc)

LEMMA ExpectedOfDocument ==
  ASSUME NEW doc
  PROVE  Expected("document", doc) = Legacy(doc) \o Grouped(doc)
<1>1. CASE doc.badByte # None
  BY <1>1 DEF Expected, Legacy, Grouped, GroupRows
<1>2. CASE doc.badByte = None
  BY <1>2 DEF Expected, Legacy, Grouped, GroupRows, GateRows
<1> QED BY <1>1, <1>2

LEMMA ExpectedOfFragment ==
  ASSUME NEW doc \in Documents
  PROVE  Expected("fragment", doc) =
           IF doc.badByte # None THEN <<Utf8Anchor(doc)>>
           ELSE ParseAnchors(doc) \o Findings("g04_r2a", doc)
<1>1. CASE doc.badByte # None
  <2> DEFINE a == Utf8Anchor(doc)
  <2>1. Expected("fragment", doc) = <<a>> \o <<>>
    BY <1>1 DEF Expected
  <2> HIDE DEF a
  <2>2. <<a>> \o <<>> = <<a>>
    <3>1. <<a>> \in Seq({a})
      OBVIOUS
    <3> QED BY <3>1, ConcatEmptySeq
  <2> QED BY <1>1, <2>1, <2>2 DEF a
<1>2. CASE doc.badByte = None
  BY <1>2 DEF Expected
<1> QED BY <1>1, <1>2

(* The front of a report says what of the parse is in it.                    *)
LEMMA FrontFacts ==
  ASSUME NEW doc \in Documents
  PROVE  /\ ReportFront(doc) \in Seq(Anchors(doc))
         /\ \A i \in 1 .. Len(ReportFront(doc)) : ReportFront(doc)[i].rule \in {0, 1, 2}
         /\ Clean(doc) <=> Len(ReportFront(doc)) = 0
         /\ doc.badByte # None => <<Utf8Anchor(doc)>> \in Seq(Anchors(doc))
<1> DEFINE A == Seq(Anchors(doc))
           u == <<Utf8Anchor(doc)>>
           p == ParseAnchors(doc)
<1>0. IsDocument(doc)
  BY DocumentSizes
<1>1. doc.badByte # None => u \in A /\ Len(u) = 1 /\ u[1].rule = 0
  <2> SUFFICES ASSUME doc.badByte # None PROVE u \in A /\ Len(u) = 1 /\ u[1].rule = 0
    OBVIOUS
  <2> DEFINE a == Utf8Anchor(doc)
             S == Anchors(doc)
  <2>1. a \in S /\ a.rule = 0
    <3>1. doc.badByte \in Places(doc)
      BY <1>0 DEF IsDocument
    <3> QED BY <3>1 DEF Utf8Anchor, Anchors
  <2> HIDE DEF a, S
  <2>2. <<a>> \in Seq(S) /\ Len(<<a>>) = 1 /\ <<a>>[1] = a
    BY <2>1
  <2> QED BY <2>1, <2>2 DEF a, S
<1>2. p \in A /\ \A i \in 1 .. Len(p) : p[i].rule \in {1, 2}
  BY ParseFinds
<1>3. ReportFront(doc) \in A /\ \A i \in 1 .. Len(ReportFront(doc)) : ReportFront(doc)[i].rule \in {0, 1, 2}
  <2>1. CASE doc.badByte # None
    <3>1. ReportFront(doc) = u
      BY <2>1 DEF ReportFront
    <3>2. \A i \in 1 .. Len(u) : i = 1
      BY <1>1, <2>1
    <3> HIDE DEF u
    <3> QED BY <1>1, <2>1, <3>1, <3>2
  <2>2. CASE doc.badByte = None
    BY <1>2, <2>2 DEF ReportFront
  <2> QED BY <2>1, <2>2
<1>4. Clean(doc) <=> Len(ReportFront(doc)) = 0
  <2>1. CASE doc.badByte # None
    BY <1>1, <2>1 DEF Clean, ReportFront
  <2>2. CASE doc.badByte = None
    BY <2>2 DEF Clean, ReportFront
  <2> QED BY <2>1, <2>2
<1> QED BY <1>1, <1>3, <1>4 DEF A

LEMMA LegacyFacts ==
  ASSUME NEW doc \in Documents, Reads(doc) => ~Contradicted(doc)
  PROVE  /\ Legacy(doc) \in Seq(Anchors(doc)) /\ Grouped(doc) \in Seq(Anchors(doc))
         /\ Len(Expected("document", doc)) = Len(Legacy(doc)) + Len(Grouped(doc))
         /\ Expected("document", doc) \in Seq(Anchors(doc))
         /\ \E rest \in Seq(Ruled(doc)) : Expected("document", doc) = ReportFront(doc) \o rest
<1> DEFINE A == Seq(Anchors(doc))
           R == Seq(Ruled(doc))
           u == <<Utf8Anchor(doc)>>
           p == ParseAnchors(doc)
           w == Grouped(doc)
<1>0. IsDocument(doc) /\ 0 \in Places(doc)
  BY DocumentSizes DEF IsDocument, Places
<1>1. doc.badByte # None => u \in A
  BY FrontFacts
<1>2. w \in R
  BY GatesFind, FlattenFacts DEF Grouped
<1>3. p \in A
  BY ParseFinds
<1>4. ReportFront(doc) \in A
  BY FrontFacts
<1>6. PICK first \in R : Legacy(doc) = ReportFront(doc) \o first
  <2>1. CASE doc.badByte # None
    <3>1. u \o <<>> = u /\ <<>> \in R
      BY <1>1, <2>1, ConcatEmptySeq, NothingIsRuled
    <3>2. Legacy(doc) = u /\ ReportFront(doc) = u
      BY <2>1 DEF Legacy, ReportFront
    <3> HIDE DEF u, R
    <3> QED BY <3>1, <3>2
  <2>2. CASE doc.badByte = None /\ doc.length = 0
    <3> DEFINE two == Issue(1, 0) \o Issue(6, 0)
    <3>1. two \in R
      BY <1>0, IssueIsRuled, TwoRuled
    <3>2. Legacy(doc) = two /\ ReportFront(doc) = <<>>
      BY <2>2, ParseFinds DEF Legacy, ReportFront
    <3> HIDE DEF two
    <3>3. <<>> \o two = two
      BY <3>1, ConcatEmptySeq
    <3> HIDE DEF R
    <3> QED BY <3>1, <3>2, <3>3
  <2>3. CASE Reads(doc)
    <3> DEFINE q == G02(doc)
               r == FlattenSeq(GateRows(doc))
    <3>1. q \in R /\ r \in R
      BY <2>3, DocumentChecks, GatesFind, FlattenFacts
    <3>2. Legacy(doc) = p \o q \o r /\ ReportFront(doc) = p
      BY <2>3 DEF Legacy, ReportFront, Reads
    <3> HIDE DEF q, r
    <3>3. q \in A /\ r \in A
      BY <3>1, RuledAreAnchors
    <3>4. p \o q \o r = p \o (q \o r)
      BY <1>3, <3>3, ConcatAssociative
    <3>5. q \o r \in R
      BY <3>1, TwoRuled
    <3> HIDE DEF p, R
    <3> QED BY <3>2, <3>4, <3>5
  <2> QED BY <2>1, <2>2, <2>3 DEF Reads
<1>7. first \in A /\ w \in A
  BY <1>2, <1>6, RuledAreAnchors
<1> DEFINE f == ReportFront(doc)
           e == Expected("document", doc)
           l == Legacy(doc)
<1>8. f \in A /\ l = f \o first /\ e = l \o w
  BY <1>4, <1>6, ExpectedOfDocument
<1> HIDE DEF f, e, l, w
<1>9. l \in A
  BY <1>7, <1>8, ConcatProperties
<1>10. e \in A /\ Len(e) = Len(l) + Len(w)
  BY <1>7, <1>8, <1>9, ConcatProperties
<1>11. e = f \o (first \o w) /\ first \o w \in R
  <2>1. f \o first \o w = f \o (first \o w)
    BY <1>7, <1>8, ConcatAssociative
  <2>2. first \o w \in R
    BY <1>2, <1>6, TwoRuled
  <2> QED BY <1>8, <2>1, <2>2
<1>12. \E rest \in R : e = f \o rest
  <2> HIDE DEF R
  <2> QED BY <1>11
<1> QED BY <1>7, <1>9, <1>10, <1>12 DEF f, e, l, w

LEMMA FragmentFacts ==
  ASSUME NEW doc \in Documents
  PROVE  /\ Expected("fragment", doc) \in Seq(Anchors(doc))
         /\ \E rest \in Seq(Ruled(doc)) : Expected("fragment", doc) = ReportFront(doc) \o rest
         /\ doc.badByte = None =>
              Len(Expected("fragment", doc))
                = Len(ParseAnchors(doc)) + Len(Findings("g04_r2a", doc))
<1> DEFINE A == Seq(Anchors(doc))
           R == Seq(Ruled(doc))
           u == <<Utf8Anchor(doc)>>
           p == ParseAnchors(doc)
           x == Findings("g04_r2a", doc)
           e == Expected("fragment", doc)
<1>1. CASE doc.badByte # None
  <2>3. u \in A
    BY <1>1, FrontFacts
  <2>4. e = u /\ ReportFront(doc) = u
    BY <1>1, ExpectedOfFragment DEF ReportFront
  <2>5. u \o <<>> = u /\ <<>> \in R
    BY <2>3, ConcatEmptySeq, NothingIsRuled
  <2> HIDE DEF R, A, u, e
  <2>6. e \in A /\ \E rest \in R : e = ReportFront(doc) \o rest
    BY <2>3, <2>4, <2>5
  <2> QED BY <1>1, <2>6 DEF R, A, e
<1>2. CASE doc.badByte = None
  <2>1. p \in A /\ x \in R
    BY ParseFinds, GatesFind
  <2>2. e = p \o x /\ ReportFront(doc) = p
    BY <1>2, ExpectedOfFragment DEF ReportFront
  <2> HIDE DEF p, x, e
  <2>3. x \in A
    BY <2>1, RuledAreAnchors
  <2>4. e \in A /\ Len(e) = Len(p) + Len(x)
    BY <2>1, <2>2, <2>3, ConcatProperties
  <2> QED BY <2>1, <2>2, <2>4 DEF e, p, x
<1> QED BY <1>1, <1>2

(* A report is clean when nothing was found by the parse.                    *)
LEMMA CleanIs ==
  ASSUME NEW doc, NEW front \in Seq(Anchors(doc)), NEW rest \in Seq(Ruled(doc)),
         \A i \in 1 .. Len(front) : front[i].rule \in {0, 1, 2}
  PROVE  Len(front) = 0 <=> \A i \in DOMAIN (front \o rest) : (front \o rest)[i].rule \notin {0, 1, 2}
<1> DEFINE n == Len(front)
           m == Len(rest)
           whole == front \o rest
<1>1. rest \in Seq(Anchors(doc))
  BY RuledAreAnchors
<1> HIDE DEF n, m
<1>2. whole \in Seq(Anchors(doc)) /\ Len(whole) = n + m /\ n \in Nat /\ m \in Nat
  BY <1>1, Concatenated DEF n, m
<1>3. \A k \in 1 .. n + m : whole[k] = IF k <= n THEN front[k] ELSE rest[k - n]
  BY <1>1, Concatenated DEF n, m
<1> HIDE DEF whole
<1>4. DOMAIN whole = 1 .. n + m
  BY <1>2
<1>5. \A k \in 1 .. m : rest[k].rule \notin {0, 1, 2}
  <2> TAKE k \in 1 .. m
  <2>1. rest[k] \in Ruled(doc)
    BY ElementOfSeq DEF m
  <2> QED BY <2>1 DEF Ruled
<1>6. ASSUME n = 0, NEW k \in 1 .. n + m
      PROVE  whole[k].rule \notin {0, 1, 2}
  <2>1. k \in 1 .. m /\ ~(k <= n) /\ k - n = k
    BY <1>2, <1>6
  <2> QED BY <1>3, <1>5, <2>1
<1>7. ASSUME n # 0
      PROVE  1 \in 1 .. n + m /\ whole[1].rule \in {0, 1, 2}
  <2>1. 1 \in 1 .. n + m /\ 1 <= n /\ 1 \in 1 .. n
    BY <1>2, <1>7
  <2> QED BY <1>3, <2>1 DEF n
<1> QED BY <1>4, <1>6, <1>7 DEF n, whole

SumFolds(h, f, gates) ==
  h = [t \in SUBSET (DOMAIN gates) |->
         IF t = {} THEN 0 ELSE LET x == Max(t) IN h[t \ {x}] + f[gates[x]]]

LEMMA SumIsFold ==
  ASSUME NEW f, NEW gates
  PROVE  SumOf(f, gates) = (CHOOSE h : SumFolds(h, f, gates))[DOMAIN gates]
BY Zenon DEF SumOf, FoldLeft, MapThenFoldSet, SumFolds

(* The sum of counts is where the last of them leads.                        *)
Leads(start, f, gates) ==
  /\ start[1] = 0
  /\ \A m \in 1 .. Len(gates) :
       f[gates[m]] \in Nat /\ start[m + 1] = start[m] + f[gates[m]]

LEMMA SumLeads ==
  ASSUME NEW f, NEW S, NEW gates \in Seq(S), NEW start, Leads(start, f, gates)
  PROVE  SumOf(f, gates) = start[Len(gates) + 1]
<1> DEFINE n == Len(gates)
           turn == [p \in Nat \X (1 .. n) |-> p[1] + f[gates[p[2]]]]
<1>1. n \in Nat /\ DOMAIN gates = 1 .. n
  OBVIOUS
<1>2. \A i \in 1 .. n : f[gates[i]] \in Nat
  BY DEF Leads
<1>3. start[1] = 0 /\ \A m \in 1 .. n : start[m + 1] = start[m] + f[gates[m]]
  BY DEF Leads
<1> HIDE DEF n
<1>4. ASSUME NEW a \in Nat, NEW k \in 1 .. n
      PROVE  turn[<<a, k>>] = a + f[gates[k]] /\ turn[<<a, k>>] \in Nat
  <2>1. turn[<<a, k>>] = a + f[gates[k]]
    OBVIOUS
  <2>2. f[gates[k]] \in Nat
    BY <1>2
  <2> HIDE DEF turn
  <2> QED BY <2>1, <2>2
<1> HIDE DEF turn
<1>5. PICK h : Folds(h, Nat, 0, turn, n)
  BY <1>1, <1>4, FoldExists DEF StepsIn
<1>6. ASSUME NEW t \in SUBSET (1 .. n)
      PROVE  h[t] = IF t = {} THEN 0 ELSE h[t \ {Max(t)}] + f[gates[Max(t)]]
  <2>1. CASE t = {}
    BY <1>5, <2>1 DEF Folds
  <2>2. CASE t # {}
    <3>1. Max(t) \in 1 .. n /\ t \ {Max(t)} \in SUBSET (1 .. n) /\ Max(t) = Max(t)
      BY <1>1, <2>2, MaxOfPlaces
    <3>2. h[t \ {Max(t)}] \in Nat /\ h[t] = turn[<<h[t \ {Max(t)}], Max(t)>>]
      BY <1>5, <2>2, <3>1 DEF Folds
    <3> QED BY <1>4, <2>2, <3>1, <3>2
  <2> QED BY <2>1, <2>2
<1>7. \E g : SumFolds(g, f, gates)
  <2>1. h = [t \in SUBSET (1 .. n) |->
               IF t = {} THEN 0 ELSE h[t \ {Max(t)}] + f[gates[Max(t)]]]
    BY <1>5, <1>6 DEF Folds
  <2>2. SumFolds(h, f, gates)
    BY <1>1, <2>1, Zenon DEF SumFolds
  <2> QED BY <2>2
<1> DEFINE g == CHOOSE e : SumFolds(e, f, gates)
<1>8. SumFolds(g, f, gates)
  BY <1>7, Zenon
<1>9. SumOf(f, gates) = g[1 .. n]
  BY <1>1, SumIsFold
<1> HIDE DEF g
<1>10. \A t \in SUBSET (1 .. n) :
         g[t] = IF t = {} THEN 0 ELSE g[t \ {Max(t)}] + f[gates[Max(t)]]
  BY <1>1, <1>8, Zenon DEF SumFolds
<1> DEFINE good == {k \in 1 .. n + 1 : g[1 .. k - 1] = start[k]}
<1>11. 1 \in good
  <2>1. 1 .. 1 - 1 = {} /\ {} \in SUBSET (1 .. n) /\ 1 \in 1 .. n + 1
    BY <1>1
  <2>2. g[{}] = 0
    BY <1>10, <2>1
  <2> QED BY <1>3, <2>1, <2>2
<1>12. ASSUME NEW k \in 1 .. n, k \in good
       PROVE  k + 1 \in good
  <2> DEFINE t == 1 .. k
  <2>1. t \in SUBSET (1 .. n) /\ t # {} /\ Max(t) = k /\ t \ {k} = 1 .. k - 1
    BY <1>1, PlacesUpTo
  <2> HIDE DEF t
  <2>2. g[t] = g[1 .. k - 1] + f[gates[k]]
    BY <1>10, <2>1
  <2>3. g[1 .. k - 1] = start[k] /\ start[k + 1] = start[k] + f[gates[k]]
    BY <1>3, <1>12
  <2>4. (k + 1) - 1 = k /\ k + 1 \in 1 .. n + 1
    BY <1>1
  <2>5. g[1 .. k] = start[k + 1]
    BY <2>2, <2>3 DEF t
  <2> QED BY <2>4, <2>5
<1>13. g[1 .. n] = start[n + 1]
  <2>1. \A k \in 1 .. n + 1 : k \in good
    <3> HIDE DEF good
    <3> QED BY <1>1, <1>11, <1>12, Stepwise
  <2>2. n + 1 \in 1 .. n + 1 /\ (n + 1) - 1 = n
    BY <1>1
  <2> QED BY <2>1, <2>2
<1> QED BY <1>9, <1>13 DEF n

(* An entry of two lists one after the other. *)
LEMMA EntryOfBoth ==
  ASSUME NEW T, NEW a \in Seq(T), NEW b \in Seq(T), NEW m,
         m \in 1 .. Len(a) + Len(b)
  PROVE  (a \o b)[m] = IF m <= Len(a) THEN a[m] ELSE b[m - Len(a)]
<1>1. Len(a) \in Nat /\ Len(b) \in Nat
  OBVIOUS
<1> QED BY <1>1, ConcatProperties

(* The total of a measuring pass counts findings that are wanted: nothing is *)
(* refused for a total the report does not reach.                            *)
LEMMA TotalIsWanted ==
  ASSUME NEW doc \in Documents, Reads(doc), ~Contradicted(doc), NEW k \in 1 .. Len(Gates), NEW f,
         f["parse"] = Len(ParseAnchors(doc)), f["g02"] = Len(G02(doc)),
         \A i \in 1 .. k : f[Gates[i]] = Len(Findings(Gates[i], doc))
  PROVE  /\ SumOf(f, <<"parse", "g02">> \o SubSeq(Gates, 1, k)) \in Nat
         /\ SumOf(f, <<"parse", "g02">> \o SubSeq(Gates, 1, k)) <= Len(Legacy(doc))
<1> DEFINE S == Names \union {"parse", "g02"}
           two == <<"parse", "g02">>
           some == SubSeq(Gates, 1, k)
           gates == two \o some
           rows == GateRows(doc)
           p == Len(ParseAnchors(doc))
           q == Len(G02(doc))
           j(i) == Len(Joined(rows, i))
           start == [m \in 1 .. k + 3 |-> IF m = 1 THEN 0 ELSE IF m = 2 THEN p ELSE p + q + j(m - 3)]
<1>1. /\ rows \in Seq(Seq(Ruled(doc))) /\ Len(rows) = Len(Gates)
      /\ \A i \in 1 .. Len(Gates) : rows[i] = Findings(Gates[i], doc)
  BY GatesFind
<1>2. p \in Nat /\ q \in Nat
  <2>1. G02(doc) \in Seq(Ruled(doc))
    BY DocumentChecks
  <2> QED BY <2>1, ParseFinds
<1>3. Len(Gates) \in Nat /\ k \in 1 .. Len(Gates) /\ Gates \in Seq(Names)
  BY GateNames
<1>4. /\ \A i \in 0 .. k : j(i) \in Nat
      /\ \A i \in 1 .. k : j(i) = j(i - 1) + Len(rows[i]) /\ Len(rows[i]) \in Nat
      /\ j(0) = 0
  <2> DEFINE R == Seq(Ruled(doc))
  <2>1. ASSUME NEW i \in 0 .. k PROVE Joined(rows, i) \in R
    <3>1. i \in 0 .. Len(rows)
      BY <1>1, <1>3
    <3> HIDE DEF rows
    <3> QED BY <1>1, <3>1, JoinedFacts
  <2>2. ASSUME NEW i \in 1 .. k
        PROVE  rows[i] \in R /\ Joined(rows, i) = Joined(rows, i - 1) \o rows[i]
    <3>1. i \in 1 .. Len(rows)
      BY <1>1, <1>3
    <3> HIDE DEF rows
    <3>2. Joined(rows, i) = Joined(rows, i - 1) \o rows[i]
      BY <1>1, <3>1, JoinedFacts
    <3>3. rows[i] \in R
      BY <1>1, <3>1, ElementOfSeq
    <3> QED BY <3>2, <3>3
  <2>3. Joined(rows, 0) = <<>>
    <3> HIDE DEF rows
    <3> QED BY <1>1, JoinedFacts
  <2> HIDE DEF rows
  <2>4. ASSUME NEW i \in 1 .. k
        PROVE  j(i) = j(i - 1) + Len(rows[i]) /\ Len(rows[i]) \in Nat
    <3> DEFINE old == Joined(rows, i - 1)
               new == rows[i]
    <3>1. old \in R /\ new \in R /\ Joined(rows, i) = old \o new
      <4>1. i - 1 \in 0 .. k
        BY <1>3
      <4> HIDE DEF R
      <4> QED BY <2>1, <2>2, <4>1
    <3>2. Len(old \o new) = Len(old) + Len(new) /\ Len(new) \in Nat
      <4> HIDE DEF old, new
      <4> QED BY <3>1, ConcatProperties
    <3> QED BY <3>1, <3>2
  <2>5. \A i \in 0 .. k : j(i) \in Nat
    BY <2>1
  <2> QED BY <2>3, <2>4, <2>5
<1>5. j(k) <= Len(FlattenSeq(rows))
  <2>1. k \in 0 .. Len(rows)
    BY <1>1, <1>3
  <2> HIDE DEF rows
  <2> QED BY <1>1, <2>1, JoinedGrows
<1> HIDE DEF p, q, j
<1>6. /\ some \in Seq(Names) /\ Len(some) = k /\ \A i \in 1 .. k : some[i] = Gates[i]
  BY <1>3
<1>7. /\ two \in Seq(S) /\ Len(two) = 2 /\ two[1] = "parse" /\ two[2] = "g02"
  OBVIOUS
<1> HIDE DEF some, two, rows
<1>8. some \in Seq(S)
  BY <1>6, SeqMonotonic
<1> HIDE DEF S
<1>9. gates \in Seq(S) /\ Len(gates) = k + 2
  <2>1. gates \in Seq(S) /\ Len(gates) = Len(two) + Len(some)
    BY <1>7, <1>8, ConcatProperties
  <2> QED BY <1>3, <1>6, <1>7, <2>1
<1>10. \A m \in 1 .. k + 2 : gates[m] = IF m <= 2 THEN two[m] ELSE Gates[m - 2]
  <2> SUFFICES ASSUME NEW m \in 1 .. k + 2
               PROVE  gates[m] = IF m <= 2 THEN two[m] ELSE Gates[m - 2]
    OBVIOUS
  <2>1. Len(two) + Len(some) = k + 2 /\ Len(two) = 2
    BY <1>3, <1>6, <1>7
  <2>2. (two \o some)[m] = IF m <= Len(two) THEN two[m] ELSE some[m - Len(two)]
    <3>1. m \in 1 .. Len(two) + Len(some)
      BY <2>1
    <3>2. two \in Seq(S) /\ some \in Seq(S)
      BY <1>7, <1>8
    <3> HIDE DEF gates
    <3> QED BY ONLY <3>1, <3>2, EntryOfBoth
  <2>3. ~(m <= 2) => m - 2 \in 1 .. k
    BY <1>3
  <2>4. gates[m] = IF m <= 2 THEN two[m] ELSE some[m - 2]
    <3>1. gates[m] = (two \o some)[m]
      OBVIOUS
    <3> HIDE DEF gates
    <3> QED BY <2>1, <2>2, <3>1
  <2> HIDE DEF gates
  <2> QED BY <1>6, <2>3, <2>4
<1> HIDE DEF gates
<1>11. ASSUME NEW m \in 1 .. k + 2
       PROVE  f[gates[m]] \in Nat /\ start[m + 1] = start[m] + f[gates[m]]
  <2>1. CASE m = 1
    <3>1. gates[m] = "parse" /\ f[gates[m]] = p
      BY <1>3, <1>7, <1>10, <2>1 DEF p
    <3>2. start[m] = 0 /\ start[m + 1] = p
      BY <1>3, <2>1
    <3> HIDE DEF start
    <3> QED BY <1>2, <3>1, <3>2
  <2>2. CASE m = 2
    <3>1. gates[m] = "g02" /\ f[gates[m]] = q
      BY <1>3, <1>7, <1>10, <2>2 DEF q
    <3>2. start[m] = p /\ start[m + 1] = p + q + j(0)
      BY <1>3, <2>2
    <3> HIDE DEF start
    <3> QED BY <1>2, <1>4, <3>1, <3>2
  <2>3. CASE ~(m <= 2)
    <3> DEFINE i == m - 2
    <3>1. i \in 1 .. k /\ i \in 1 .. Len(Gates) /\ i - 1 \in 0 .. k /\ i \in 0 .. k
      BY <1>3, <2>3
    <3>2. gates[m] = Gates[i]
      BY <1>10, <2>3
    <3>3. f[Gates[i]] = Len(rows[i])
      BY <1>1, <3>1
    <3>4. start[m] = p + q + j(i - 1) /\ start[m + 1] = p + q + j(i)
      <4>1. start[m] = p + q + j(m - 3) /\ start[m + 1] = p + q + j((m + 1) - 3)
        BY <1>3, <2>3
      <4>2. m - 3 = i - 1 /\ (m + 1) - 3 = i
        OBVIOUS
      <4> HIDE DEF start, i
      <4> QED BY <4>1, <4>2
    <3>5. /\ j(i) = j(i - 1) + Len(rows[i]) /\ Len(rows[i]) \in Nat
          /\ j(i) \in Nat /\ j(i - 1) \in Nat
      BY <1>4, <3>1
    <3> HIDE DEF start, i
    <3> QED BY <1>2, <3>2, <3>3, <3>4, <3>5
  <2> QED BY <2>1, <2>2, <2>3
<1>12. start[1] = 0 /\ start[k + 3] = p + q + j(k)
  <2>1. start[1] = 0 /\ start[k + 3] = p + q + j((k + 3) - 3)
    BY <1>3
  <2>2. (k + 3) - 3 = k
    BY <1>3
  <2> HIDE DEF start
  <2> QED BY <2>1, <2>2
<1> HIDE DEF start
<1>13. SumOf(f, gates) = start[k + 3]
  <2>1. Leads(start, f, gates)
    BY <1>9, <1>11, <1>12 DEF Leads
  <2>2. SumOf(f, gates) = start[Len(gates) + 1]
    BY <1>9, <2>1, SumLeads
  <2>3. Len(gates) + 1 = k + 3
    BY <1>3, <1>9
  <2> QED BY <2>2, <2>3
<1>14. Len(Legacy(doc)) = p + q + Len(FlattenSeq(rows)) /\ Len(FlattenSeq(rows)) \in Nat
  <2> DEFINE a == ParseAnchors(doc)
             b == G02(doc)
             c == FlattenSeq(rows)
             A == Anchors(doc)
  <2>1. a \in Seq(A) /\ b \in Seq(A) /\ c \in Seq(A)
    <3>1. b \in Seq(Ruled(doc)) /\ c \in Seq(Ruled(doc))
      BY <1>1, DocumentChecks, FlattenFacts
    <3> QED BY <3>1, ParseFinds, RuledAreAnchors
  <2>2. Legacy(doc) = a \o b \o c
    BY DEF Legacy, Reads, rows
  <2> HIDE DEF a, b, c, A
  <2>3. a \o b \in Seq(A) /\ Len(a \o b) = Len(a) + Len(b)
    BY <2>1, ConcatProperties
  <2>4. Len(a \o b \o c) = Len(a \o b) + Len(c) /\ Len(c) \in Nat
    BY <2>1, <2>3, ConcatProperties
  <2> QED BY <2>2, <2>3, <2>4 DEF a, b, c, p, q
<1>15. SumOf(f, gates) \in Nat /\ SumOf(f, gates) <= Len(Legacy(doc))
  <2>1. k \in 0 .. k
    BY <1>3
  <2>2. j(k) \in Nat
    BY <1>4, <2>1
  <2> QED BY <1>2, <1>5, <1>12, <1>13, <1>14, <2>2
<1> QED BY <1>15 DEF gates, two, some

(* A call that cannot be answered: more findings than there is room for, or  *)
(* elements nested deeper than the groups' scanner can follow.               *)
Deep == call.doc.depth > MaxDepth

TooMuch ==
  \/ Required > call.capacity \/ Required > MaxDiagnostics
  \/ call.entry = "document" /\ Deep

(* An array that holds the report of a call, and nothing after it.           *)
Delivers(entry, doc, array, answer) ==
  /\ answer.count = Len(Expected(entry, doc))
  /\ SaysAll(SubSeq(array, 1, answer.count), Expected(entry, doc), doc)
  /\ answer.clean <=> \A i \in DOMAIN Expected(entry, doc) :
                        Expected(entry, doc)[i].rule \notin {0, 1, 2}
  /\ answer.count <= Len(array)
  /\ \A i \in DOMAIN array : array[i] = Untouched <=> i > answer.count

(* Between calls: nothing was asked yet, or the last call was answered.      *)
Fresh == status = "none" /\ result = Untouched /\ anchors = <<>>

Idle ==
  /\ arena = "none"
  /\ call.entry = "none" => Fresh
  /\ status = "OK" => Delivers(call.entry, call.doc, buffer, result) /\ ~TooMuch
  /\ status \notin {"none", "OK"} =>
       /\ result = Untouched /\ \A i \in DOMAIN buffer : buffer[i] = Untouched
       /\ status = "ENOSPC" => TooMuch

(* A call under way has told its caller nothing, up to its last pass.        *)
Running ==
  /\ status = "none" /\ result = Untouched
  /\ call.doc \in Documents /\ call.capacity \in Nat
  /\ call.entry \in {"document", "fragment"}
  /\ Len(buffer) = call.capacity /\ DOMAIN buffer = 1 .. call.capacity
  /\ pc # "fragment_publish" => \A i \in 1 .. call.capacity : buffer[i] = Untouched

FragmentSteps == {"fragment", "fragment_collect", "fragment_exact", "fragment_publish"}
FirstSteps == {"arena", "measure_groups", "scratch", "legacy"}
ReadingSteps == {"parse", "g02", "measure", "collect", "exact", "report"}
LastSteps == {"collect_groups", "total", "publish"}

(* What the passes done so far leave to the next one.                        *)
Staged ==
  /\ pc \in FragmentSteps => call.entry = "fragment" /\ arena = "none"
  /\ pc \in FirstSteps \cup ReadingSteps \cup LastSteps => call.entry = "document"
  /\ pc \in {"regions", "arena"} => arena = "none"
  /\ pc \in {"scratch", "legacy"} \cup ReadingSteps \cup LastSteps => ~Deep
  /\ pc \in {"regions"} \cup FirstSteps \cup {"parse", "g02", "measure"} => anchors = <<>>
  /\ pc \in ReadingSteps => Reads(call.doc)
  /\ pc \in (ReadingSteps \ {"parse", "g02"}) \cup LastSteps =>
       (Reads(call.doc) => ~Contradicted(call.doc))

Counts(gate, n) == gate \in DOMAIN measured /\ measured[gate] = n

Measured ==
  /\ pc \in {"g02", "measure"} => Counts("parse", Len(ParseAnchors(call.doc)))
  /\ pc = "measure" =>
       /\ Counts("g02", Len(G02(call.doc))) /\ step \in 1 .. Len(Gates)
       /\ \A i \in 1 .. step - 1 : Counts(Gates[i], Len(Findings(Gates[i], call.doc)))

Collected ==
  /\ pc = "collect" =>
       step \in 1 .. Len(Gates) /\ anchors = Joined(GateRows(call.doc), step - 1)
  /\ pc \in {"exact", "report"} => anchors = FlattenSeq(GateRows(call.doc))
  /\ pc = "report" => local = Materialize(ParseAnchors(call.doc), 0)
  /\ pc = "measure_groups" => step \in 1 .. Len(Groups)
  /\ pc = "collect_groups" =>
       step \in 1 .. Len(Groups) /\ anchors = Joined(GroupRows(call.doc), step - 1)
  /\ pc \in LastSteps => Lists(local, Legacy(call.doc), call.doc)
  /\ pc \in {"total", "publish"} => anchors = Grouped(call.doc)
  /\ pc = "publish" => ~TooMuch

FragmentStaged ==
  /\ pc \in FragmentSteps \ {"fragment"} => call.doc.badByte = None /\ ~TooMuch
  /\ pc \in {"fragment_exact", "fragment_publish"} => anchors = Findings("g04_r2a", call.doc)
  /\ pc = "fragment_publish" =>
       /\ local = Materialize(ParseAnchors(call.doc), 0)
       /\ \A i \in 1 .. call.capacity : i > Len(local) => buffer[i] = Untouched

CheckInvariant ==
  /\ CheckTypeOK
  /\ pc = "idle" => Idle
  /\ pc # "idle" => Running
  /\ Staged /\ Measured /\ Collected /\ FragmentStaged

(* Step lemmas. A step that answers with an error tells the caller nothing.  *)
LEMMA Returns ==
  ASSUME CheckInvariant, pc # "idle", pc # "fragment_publish", NEW value,
         value \in {"EINVAL", "ENOSPC", "ENOMEM", "EIO"}, Return(value),
         value = "ENOSPC" => TooMuch
  PROVE  CheckInvariant'
<1>1. pc' = "idle" /\ status' = value /\ arena' = "none" /\ result' = result
      /\ buffer' = buffer /\ call' = call /\ step' = step
  BY DEF Return
<1>2. Running /\ CheckTypeOK
  BY DEF CheckInvariant
<1>3. CheckTypeOK'
  BY <1>1, <1>2 DEF CheckTypeOK
<1>4. Idle'
  <2>1. call'.entry # "none" /\ result' = Untouched /\ status' \notin {"none", "OK"}
    BY <1>1, <1>2 DEF Running
  <2>2. \A i \in DOMAIN buffer' : buffer'[i] = Untouched
    BY <1>1, <1>2 DEF Running
  <2>3. TooMuch => TooMuch'
    BY <1>1 DEF TooMuch, Required, Deep
  <2> QED BY <1>1, <2>1, <2>2, <2>3 DEF Idle
<1>5. Staged' /\ Measured' /\ Collected' /\ FragmentStaged'
  BY <1>1 DEF Staged, Measured, Collected, FragmentStaged, FragmentSteps, FirstSteps,
     ReadingSteps, LastSteps
<1> QED BY <1>1, <1>3, <1>4, <1>5 DEF CheckInvariant

LEMMA InitHolds ==
  ASSUME CheckInit
  PROVE  CheckInvariant
<1>1. CheckTypeOK
  BY GateNames DEF CheckInit, CheckTypeOK
<1>2. Idle
  BY DEF CheckInit, Idle, Fresh
<1>3. Staged /\ Measured /\ Collected /\ FragmentStaged
  BY DEF CheckInit, Staged, Measured, Collected, FragmentStaged, FragmentSteps, FirstSteps,
     ReadingSteps, LastSteps
<1> QED BY <1>1, <1>2, <1>3 DEF CheckInit, CheckInvariant

LEMMA CallHolds ==
  ASSUME CheckInvariant, CallAny
  PROVE  CheckInvariant'
<1>1. PICK entry \in {"document", "fragment"}, doc \in Documents, capacity \in Capacities,
           regions \in {"good", "bad"}, options \in {"good", "bad"} :
             Call(entry, doc, capacity, regions, options)
  BY DEF CallAny
<1>2. /\ pc = "idle" /\ call.entry = "none" /\ pc' = "regions"
      /\ call'.entry = entry /\ call'.doc = doc /\ call'.capacity = capacity
      /\ buffer' = [i \in 1 .. capacity |-> Untouched]
      /\ step' = step /\ status' = status /\ anchors' = anchors /\ arena' = arena
      /\ result' = result
  BY <1>1 DEF Call
<1>3. Fresh /\ arena = "none" /\ CheckTypeOK
  BY <1>2 DEF CheckInvariant, Idle
<1>4. CheckTypeOK'
  BY <1>2, <1>3 DEF CheckTypeOK
<1>5. Running'
  <2>1. capacity \in Nat
    BY CapacitiesAssumption
  <2>2. Len(buffer') = capacity /\ DOMAIN buffer' = 1 .. capacity
        /\ \A i \in 1 .. capacity : buffer'[i] = Untouched
    BY <1>2, <2>1
  <2> QED BY <1>2, <1>3, <2>1, <2>2 DEF Running, Fresh
<1>6. Staged' /\ Measured' /\ Collected' /\ FragmentStaged'
  BY <1>2, <1>3 DEF Fresh, Staged, Measured, Collected, FragmentStaged, FragmentSteps,
     FirstSteps, ReadingSteps, LastSteps
<1> QED BY <1>2, <1>4, <1>5, <1>6 DEF CheckInvariant

(* A step that tells the caller nothing yet leaves the call running.         *)
LEMMA StillRunning ==
  ASSUME Running, pc # "fragment_publish", call' = call, buffer' = buffer, status' = status,
         result' = result
  PROVE  Running'
BY DEF Running

(* A step that goes on to another pass.                                      *)
LEMMA GoesOn ==
  ASSUME CheckInvariant, pc # "fragment_publish", pc # "idle",
         NEW next \in {"arena", "measure_groups", "scratch", "legacy",
               "parse", "g02", "measure", "collect", "exact", "report", "collect_groups",
               "total", "publish", "fragment", "fragment_collect", "fragment_exact"},
         Goto(next), call' = call, buffer' = buffer, status' = status, result' = result,
         arena' \in {"none", "live"}
  PROVE  CheckTypeOK' /\ Running' /\ pc' = next /\ step' = 1
<1>1. pc' = next /\ step' = 1
  BY DEF Goto
<1>2. CheckTypeOK /\ Running
  BY DEF CheckInvariant
<1>3. 1 \in 1 .. Len(Gates) + 1
  BY GateNames
<1>4. CheckTypeOK'
  BY <1>1, <1>2, <1>3 DEF CheckTypeOK
<1> QED BY <1>1, <1>2, <1>4, StillRunning

(* Only the parts of the invariant about the next pass are in question.      *)
LEMMA NextPass ==
  ASSUME CheckTypeOK', Running', pc' # "idle", Staged', Measured', Collected', FragmentStaged'
  PROVE  CheckInvariant'
BY DEF CheckInvariant

LEMMA RegionsHolds ==
  ASSUME CheckInvariant, ValidateRegions
  PROVE  CheckInvariant'
<1>1. pc = "regions"
  BY DEF ValidateRegions
<1>2. Running /\ Staged
  BY <1>1 DEF CheckInvariant
<1>3. CASE Return("EINVAL")
  BY <1>1, <1>3, Returns
<1>4. ASSUME ~Return("EINVAL") PROVE CheckInvariant'
  <2> DEFINE next == IF call.entry = "document" THEN "arena" ELSE "fragment"
  <2>1. /\ Goto(next) /\ call' = call /\ status' = status /\ result' = result
        /\ buffer' = buffer /\ arena' = arena /\ anchors' = anchors
    BY <1>4 DEF ValidateRegions
  <2>2. arena = "none" /\ anchors = <<>>
    BY <1>1, <1>2 DEF Staged
  <2>3. call.entry \in {"document", "fragment"}
    BY <1>2 DEF Running
  <2>4. CheckTypeOK' /\ Running' /\ pc' = next
    BY <1>1, <2>1, <2>2, GoesOn
  <2>5. Staged' /\ Measured' /\ Collected' /\ FragmentStaged'
    BY <2>1, <2>2, <2>3, <2>4 DEF Staged, Measured, Collected, FragmentStaged, FragmentSteps,
       FirstSteps, ReadingSteps, LastSteps
  <2> QED BY <2>4, <2>5, NextPass
<1> QED BY <1>3, <1>4

LEMMA ArenaHolds ==
  ASSUME CheckInvariant, CreateArena
  PROVE  CheckInvariant'
<1>1. pc = "arena"
  BY DEF CreateArena
<1>2. Running /\ Staged
  BY <1>1 DEF CheckInvariant
<1>3. CASE Return("ENOMEM")
  BY <1>1, <1>3, Returns
<1>4. ASSUME ~Return("ENOMEM") PROVE CheckInvariant'
  <2>1. /\ Goto("measure_groups") /\ call' = call /\ status' = status /\ result' = result
        /\ buffer' = buffer /\ arena' = "live" /\ anchors' = anchors
    BY <1>4 DEF CreateArena
  <2>2. call.entry = "document" /\ anchors = <<>>
    BY <1>1, <1>2 DEF Staged, FirstSteps
  <2>3. CheckTypeOK' /\ Running' /\ pc' = "measure_groups" /\ step' = 1
    BY <1>1, <2>1, GoesOn
  <2>4. 1 \in 1 .. Len(Groups)
    BY GroupNames
  <2>5. Staged' /\ Measured' /\ Collected' /\ FragmentStaged'
    BY <2>1, <2>2, <2>3, <2>4 DEF Staged, Measured, Collected, FragmentStaged, FragmentSteps,
       FirstSteps, ReadingSteps, LastSteps
  <2> QED BY <2>3, <2>5, NextPass
<1> QED BY <1>3, <1>4

LEMMA PassFailsHolds ==
  ASSUME CheckInvariant, PassFails
  PROVE  CheckInvariant'
<1>1. pc # "idle" /\ pc # "fragment_publish"
  BY DEF PassFails
<1>2. PICK e \in {"ENOMEM", "EIO"} : Return(e)
  BY DEF PassFails
<1> QED BY <1>1, <1>2, Returns

LEMMA MeasureGroupHolds ==
  ASSUME CheckInvariant, MeasureGroup
  PROVE  CheckInvariant'
<1>1. pc = "measure_groups"
  BY DEF MeasureGroup
<1>2. Running /\ Staged /\ Collected /\ CheckTypeOK
  BY <1>1 DEF CheckInvariant
<1>3. call.entry = "document" /\ anchors = <<>> /\ step \in 1 .. Len(Groups)
  BY <1>1, <1>2 DEF Staged, Collected, FirstSteps
<1>4. CASE Deep
  <2>1. Return("ENOSPC")
    BY <1>4 DEF MeasureGroup, Deep
  <2>2. TooMuch
    BY <1>3, <1>4 DEF TooMuch
  <2> QED BY <1>1, <2>1, <2>2, Returns
<1>5. CASE ~Deep
  <2>1. /\ call' = call /\ status' = status /\ result' = result
        /\ buffer' = buffer /\ arena' = arena /\ anchors' = anchors
        /\ IF step = Len(Groups) THEN Goto("scratch") ELSE pc' = pc /\ step' = step + 1
    BY <1>5 DEF MeasureGroup, Deep
  <2>2. CASE step = Len(Groups)
    <3>1. CheckTypeOK' /\ Running' /\ pc' = "scratch"
      <4>1. arena' \in {"none", "live"}
        BY <1>2, <2>1 DEF CheckTypeOK
      <4> QED BY <1>1, <2>1, <2>2, <4>1, GoesOn
    <3>2. ~Deep'
      BY <1>5, <2>1 DEF Deep
    <3>3. Staged' /\ Measured' /\ Collected' /\ FragmentStaged'
      BY <1>3, <2>1, <3>1, <3>2 DEF Staged, Measured, Collected, FragmentStaged, FragmentSteps,
         FirstSteps, ReadingSteps, LastSteps
    <3> QED BY <3>1, <3>3, NextPass
  <2>3. CASE step # Len(Groups)
    <3>1. pc' = "measure_groups" /\ step' = step + 1 /\ step' \in 1 .. Len(Groups)
      BY <1>1, <1>3, <2>1, <2>3, GroupNames
    <3>2. step' \in 1 .. Len(Gates) + 1
      BY <3>1, GateNames, GroupNames
    <3>3. CheckTypeOK'
      BY <1>2, <2>1, <3>1, <3>2 DEF CheckTypeOK
    <3>4. Running'
      BY <1>1, <1>2, <2>1, StillRunning
    <3>5. Staged' /\ Measured' /\ Collected' /\ FragmentStaged'
      BY <1>3, <2>1, <3>1 DEF Staged, Measured, Collected, FragmentStaged, FragmentSteps,
         FirstSteps, ReadingSteps, LastSteps
    <3> QED BY <3>1, <3>3, <3>4, <3>5, NextPass
  <2> QED BY <2>2, <2>3
<1> QED BY <1>4, <1>5

LEMMA ScratchHolds ==
  ASSUME CheckInvariant, AllocateScratch
  PROVE  CheckInvariant'
<1>1. /\ pc = "scratch" /\ Goto("legacy") /\ call' = call /\ status' = status
      /\ result' = result /\ buffer' = buffer /\ arena' = arena /\ anchors' = anchors
  BY DEF AllocateScratch
<1>2. Running /\ Staged /\ CheckTypeOK
  BY <1>1 DEF CheckInvariant
<1>3. call.entry = "document" /\ anchors = <<>> /\ ~Deep
  BY <1>1, <1>2 DEF Staged, FirstSteps
<1>4. CheckTypeOK' /\ Running' /\ pc' = "legacy"
  <2>1. arena' \in {"none", "live"}
    BY <1>1, <1>2 DEF CheckTypeOK
  <2> QED BY <1>1, <2>1, GoesOn
<1>5. ~Deep'
  BY <1>1, <1>3 DEF Deep
<1>6. Staged' /\ Measured' /\ Collected' /\ FragmentStaged'
  BY <1>1, <1>3, <1>4, <1>5 DEF Staged, Measured, Collected, FragmentStaged, FragmentSteps,
     FirstSteps, ReadingSteps, LastSteps
<1> QED BY <1>4, <1>6, NextPass

(* What the passes of the gates and of the groups hold after each of them.   *)
LEMMA GatesJoin ==
  ASSUME NEW doc \in Documents
  PROVE  /\ Joined(GateRows(doc), 0) = <<>>
         /\ \A k \in 1 .. Len(Gates) :
              Joined(GateRows(doc), k) = Joined(GateRows(doc), k - 1) \o Findings(Gates[k], doc)
         /\ Joined(GateRows(doc), Len(Gates)) = FlattenSeq(GateRows(doc))
<1> DEFINE rows == GateRows(doc)
<1>1. /\ rows \in Seq(Seq(Ruled(doc))) /\ Len(rows) = Len(Gates)
      /\ \A i \in 1 .. Len(Gates) : rows[i] = Findings(Gates[i], doc)
  BY GatesFind
<1> HIDE DEF rows
<1>2. /\ Joined(rows, 0) = <<>>
      /\ \A k \in 1 .. Len(rows) : Joined(rows, k) = Joined(rows, k - 1) \o rows[k]
      /\ Joined(rows, Len(rows)) = FlattenSeq(rows)
  BY <1>1, JoinedFacts
<1>3. /\ Joined(rows, 0) = <<>>
      /\ \A k \in 1 .. Len(Gates) : Joined(rows, k) = Joined(rows, k - 1) \o Findings(Gates[k], doc)
      /\ Joined(rows, Len(Gates)) = FlattenSeq(rows)
  BY <1>1, <1>2
<1> QED BY <1>3 DEF rows

LEMMA GroupsJoin ==
  ASSUME NEW doc \in Documents
  PROVE  /\ Joined(GroupRows(doc), 0) = <<>>
         /\ \A k \in 1 .. Len(Groups) :
              /\ Joined(GroupRows(doc), k) = Joined(GroupRows(doc), k - 1) \o Findings(Groups[k], doc)
              /\ Joined(GroupRows(doc), k - 1) \in Seq(Ruled(doc))
              /\ Findings(Groups[k], doc) \in Seq(Ruled(doc))
              /\ Len(Joined(GroupRows(doc), k)) <= Len(Grouped(doc))
         /\ Joined(GroupRows(doc), Len(Groups)) = Grouped(doc)
         /\ Grouped(doc) \in Seq(Ruled(doc))
<1> DEFINE rows == GroupRows(doc)
           R == Ruled(doc)
<1>1. /\ rows \in Seq(Seq(R)) /\ Len(rows) = Len(Groups)
      /\ \A i \in 1 .. Len(Groups) : rows[i] = Findings(Groups[i], doc)
  BY GatesFind
<1>2. Len(Groups) \in Nat
  BY GroupNames
<1>3. Grouped(doc) = FlattenSeq(rows)
  BY DEF Grouped
<1> HIDE DEF rows, R
<1>4. /\ Joined(rows, 0) = <<>>
      /\ \A k \in 1 .. Len(rows) : Joined(rows, k) = Joined(rows, k - 1) \o rows[k]
      /\ Joined(rows, Len(rows)) = FlattenSeq(rows)
      /\ \A k \in 0 .. Len(rows) : Joined(rows, k) \in Seq(R)
  BY <1>1, JoinedFacts
<1>5. \A k \in 1 .. Len(Groups) : rows[k] \in Seq(R)
  BY <1>1, ElementOfSeq
<1>6. \A k \in 0 .. Len(rows) : Len(Joined(rows, k)) <= Len(FlattenSeq(rows))
  BY <1>1, JoinedGrows
<1>7. FlattenSeq(rows) \in Seq(R)
  BY <1>1, FlattenFacts
<1>8. ASSUME NEW k \in 1 .. Len(Groups)
      PROVE  /\ Joined(rows, k) = Joined(rows, k - 1) \o Findings(Groups[k], doc)
             /\ Joined(rows, k - 1) \in Seq(R) /\ Findings(Groups[k], doc) \in Seq(R)
             /\ Len(Joined(rows, k)) <= Len(FlattenSeq(rows))
  <2>1. k \in 1 .. Len(rows) /\ k - 1 \in 0 .. Len(rows) /\ k \in 0 .. Len(rows)
    BY <1>1, <1>2
  <2>2. rows[k] = Findings(Groups[k], doc) /\ rows[k] \in Seq(R)
    BY <1>1, <1>5
  <2>3. Joined(rows, k - 1) \in Seq(R)
    BY <1>4, <2>1
  <2>4. Joined(rows, k) = Joined(rows, k - 1) \o rows[k]
    BY <1>4, <2>1
  <2>5. Len(Joined(rows, k)) <= Len(FlattenSeq(rows))
    BY <1>6, <2>1
  <2> QED BY <2>2, <2>3, <2>4, <2>5
<1>9. Joined(rows, Len(Groups)) = FlattenSeq(rows)
  BY <1>1, <1>4
<1> QED BY <1>3, <1>4, <1>7, <1>8, <1>9 DEF rows, R

(* The report of a document that does not decode is the place where.         *)
LEMMA Utf8Reports ==
  ASSUME NEW doc \in Documents, doc.badByte # None
  PROVE  /\ <<Utf8Anchor(doc)>> \in Seq(Anchors(doc)) /\ Len(<<Utf8Anchor(doc)>>) = 1
         /\ IsReport(Finished(doc, Materialize(<<Utf8Anchor(doc)>>, 0)), <<Utf8Anchor(doc)>>, doc)
         /\ Len(Finished(doc, Materialize(<<Utf8Anchor(doc)>>, 0))) = 1
<1> DEFINE a == Utf8Anchor(doc)
           only == <<a>>
           A == Anchors(doc)
<1>1. a \in A
  BY DocumentSizes DEF IsDocument, Utf8Anchor, Anchors
<1> HIDE DEF a, A
<1>2. only \in Seq(A) /\ Len(only) = 1
  BY <1>1
<1> HIDE DEF only
<1>3. Lists(Materialize(only, 0), only, doc)
  BY <1>2, MaterializedLists DEF A
<1>4. IsReport(Finished(doc, Materialize(only, 0)), only, doc)
      /\ Len(Finished(doc, Materialize(only, 0))) = Len(only)
  BY <1>3, DocumentSizes, FinishedIsReport
<1> QED BY <1>2, <1>4 DEF a, A, only

(* The report of the empty document: a doctype and a title are missing.      *)
LEMMA EmptyReports ==
  ASSUME NEW doc \in Documents, doc.length = 0
  PROVE  /\ Len(Issue(1, 0) \o Issue(6, 0)) = 2
         /\ Lists(AssignLineColumns(doc, Materialize(Issue(1, 0) \o Issue(6, 0), 0)),
                  Issue(1, 0) \o Issue(6, 0), doc)
<1> DEFINE a == Issue(1, 0)
           b == Issue(6, 0)
           both == a \o b
           list == Materialize(both, 0)
           R == Ruled(doc)
<1>1. a \in Seq(R) /\ b \in Seq(R) /\ Len(a) = 1 /\ Len(b) = 1
  <2>1. 0 \in Places(doc)
    BY DocumentSizes DEF Places
  <2> QED BY <2>1, IssueIsRuled
<1>2. both \in Seq(R) /\ Len(both) = 2
  <2> HIDE DEF a, b, R
  <2>1. both \in Seq(R) /\ Len(both) = Len(a) + Len(b)
    BY <1>1, ConcatProperties
  <2> QED BY <1>1, <2>1
<1> HIDE DEF both
<1>3. both \in Seq(Anchors(doc))
  BY <1>2, RuledAreAnchors DEF R
<1>4. Lists(list, both, doc)
  BY <1>3, MaterializedLists
<1> HIDE DEF list
<1>5. Forward(list)
  <2>1. \A k \in 1 .. Len(list) : list[k].offset \in 0 .. doc.length
    BY <1>4, DocumentSizes, ListsTypes
  <2> QED BY <2>1 DEF Forward
<1>6. Lists(AssignLineColumns(doc, list), both, doc)
  BY <1>4, <1>5, DocumentSizes, PlacedLists
<1> QED BY <1>2, <1>6 DEF both, list

(* What an answered document is to be reported for, in two parts.            *)
LEMMA RequiredOfDocument ==
  ASSUME call.entry = "document", call.doc \in Documents,
         Reads(call.doc) => ~Contradicted(call.doc)
  PROVE  /\ Required = Len(Legacy(call.doc)) + Len(Grouped(call.doc))
         /\ Len(Legacy(call.doc)) \in Nat /\ Len(Grouped(call.doc)) \in Nat
<1>1. /\ Legacy(call.doc) \in Seq(Anchors(call.doc)) /\ Grouped(call.doc) \in Seq(Anchors(call.doc))
      /\ Len(Expected("document", call.doc)) = Len(Legacy(call.doc)) + Len(Grouped(call.doc))
  BY LegacyFacts
<1> QED BY <1>1, LenProperties DEF Required

LEMMA LegacyBeginHolds ==
  ASSUME CheckInvariant, LegacyBegin
  PROVE  CheckInvariant'
<1> DEFINE doc == call.doc
<1>1. pc = "legacy"
  BY DEF LegacyBegin
<1>2. Running /\ Staged /\ CheckTypeOK
  BY <1>1 DEF CheckInvariant
<1>3. call.entry = "document" /\ anchors = <<>> /\ ~Deep /\ doc \in Documents
  BY <1>1, <1>2 DEF Staged, FirstSteps, Running
<1>4. arena \in {"none", "live"}
  BY <1>2 DEF CheckTypeOK
<1>5. 1 \in 1 .. Len(Groups)
  BY GroupNames
<1>6. Joined(GroupRows(doc), 1 - 1) = <<>>
  BY <1>3, GroupsJoin
<1>7. ASSUME Goto("collect_groups"), ~Reads(doc), Lists(local', Legacy(doc), doc),
             call' = call, status' = status, anchors' = anchors, arena' = arena,
             buffer' = buffer, result' = result
      PROVE  CheckInvariant'
  <2>1. CheckTypeOK' /\ Running' /\ pc' = "collect_groups" /\ step' = 1
    BY <1>1, <1>4, <1>7, GoesOn
  <2>2. ~Deep' /\ ~Reads(call'.doc)
    BY <1>3, <1>7 DEF Deep
  <2>3. Lists(local', Legacy(call'.doc), call'.doc) /\ anchors' = Joined(GroupRows(call'.doc), step' - 1)
    BY <1>3, <1>6, <1>7, <2>1
  <2>4. Staged' /\ Measured' /\ Collected' /\ FragmentStaged'
    BY <1>3, <1>5, <1>7, <2>1, <2>2, <2>3 DEF Staged, Measured, Collected, FragmentStaged,
       FragmentSteps, FirstSteps, ReadingSteps, LastSteps
  <2> QED BY <2>1, <2>4, NextPass
<1>8. CASE doc.badByte # None
  <2>1. ~(MaxDiagnostics < 1)
    BY DiagnosticsAssumption
  <2>2. /\ local' = Finished(doc, Materialize(<<Utf8Anchor(doc)>>, 0)) /\ Goto("collect_groups")
        /\ call' = call /\ status' = status /\ anchors' = anchors /\ arena' = arena
        /\ buffer' = buffer /\ result' = result
    BY <1>8, <2>1 DEF LegacyBegin
  <2>3. Lists(local', Legacy(doc), doc)
    BY <1>3, <1>8, <2>2, Utf8Reports DEF IsReport, Legacy
  <2>4. ~Reads(doc)
    BY <1>8 DEF Reads
  <2> QED BY <1>7, <2>2, <2>3, <2>4
<1>9. CASE doc.badByte = None /\ doc.length = 0
  <2>1. Legacy(doc) = Issue(1, 0) \o Issue(6, 0) /\ ~Reads(doc)
    BY <1>9 DEF Legacy, Reads
  <2>2. CASE MaxDiagnostics < 2
    <3>1. Return("ENOSPC")
      BY <1>9, <2>2 DEF LegacyBegin
    <3>2. Required > MaxDiagnostics
      <4>1. Len(Legacy(doc)) = 2
        BY <1>3, <1>9, <2>1, EmptyReports
      <4>2. Required = Len(Legacy(doc)) + Len(Grouped(doc)) /\ Len(Grouped(doc)) \in Nat
        BY <1>3, <2>1, RequiredOfDocument
      <4> HIDE DEF doc
      <4> QED BY <2>2, <4>1, <4>2, DiagnosticsAssumption
    <3> QED BY <1>1, <3>1, <3>2, Returns DEF TooMuch
  <2>3. CASE ~(MaxDiagnostics < 2)
    <3>1. /\ local' = AssignLineColumns(doc, Materialize(Issue(1, 0) \o Issue(6, 0), 0))
          /\ Goto("collect_groups") /\ call' = call /\ status' = status /\ anchors' = anchors
          /\ arena' = arena /\ buffer' = buffer /\ result' = result
      BY <1>9, <2>3 DEF LegacyBegin
    <3>2. Lists(local', Legacy(doc), doc)
      BY <1>3, <1>9, <2>1, <3>1, EmptyReports
    <3> QED BY <1>7, <2>1, <3>1, <3>2
  <2> QED BY <2>2, <2>3
<1>10. CASE doc.badByte = None /\ doc.length # 0
  <2>1. /\ Goto("parse") /\ call' = call /\ status' = status /\ anchors' = anchors
        /\ arena' = arena /\ buffer' = buffer /\ result' = result
    BY <1>10 DEF LegacyBegin
  <2>2. CheckTypeOK' /\ Running' /\ pc' = "parse"
    BY <1>1, <1>4, <2>1, GoesOn
  <2>3. ~Deep' /\ Reads(call'.doc)
    BY <1>3, <1>10, <2>1 DEF Deep, Reads
  <2>4. Staged' /\ Measured' /\ Collected' /\ FragmentStaged'
    BY <1>3, <2>1, <2>2, <2>3 DEF Staged, Measured, Collected, FragmentStaged,
       FragmentSteps, FirstSteps, ReadingSteps, LastSteps
  <2> QED BY <2>2, <2>4, NextPass
<1> QED BY <1>8, <1>9, <1>10

LEMMA ParseHolds ==
  ASSUME CheckInvariant, LegacyParse
  PROVE  CheckInvariant'
<1>1. /\ pc = "parse" /\ Goto("g02") /\ call' = call /\ status' = status /\ anchors' = anchors
      /\ arena' = arena /\ buffer' = buffer /\ result' = result
      /\ measured' = WithCount("parse", Len(ParseAnchors(call.doc)))
  BY DEF LegacyParse
<1>2. Running /\ Staged /\ CheckTypeOK
  BY <1>1 DEF CheckInvariant
<1>3. call.entry = "document" /\ anchors = <<>> /\ ~Deep /\ Reads(call.doc)
  BY <1>1, <1>2 DEF Staged, ReadingSteps
<1>4. CheckTypeOK' /\ Running' /\ pc' = "g02"
  <2>1. arena' \in {"none", "live"}
    BY <1>1, <1>2 DEF CheckTypeOK
  <2> QED BY <1>1, <2>1, GoesOn
<1>5. ~Deep' /\ Reads(call'.doc)
  BY <1>1, <1>3 DEF Deep
<1>6. Counts("parse", Len(ParseAnchors(call.doc)))'
  BY <1>1 DEF Counts, WithCount
<1>7. Staged' /\ Measured' /\ Collected' /\ FragmentStaged'
  BY <1>1, <1>3, <1>4, <1>5, <1>6 DEF Staged, Measured, Collected, FragmentStaged, FragmentSteps,
     FirstSteps, ReadingSteps, LastSteps
<1> QED BY <1>4, <1>7, NextPass

LEMMA G02Holds ==
  ASSUME CheckInvariant, LegacyG02
  PROVE  CheckInvariant'
<1>1. pc = "g02"
  BY DEF LegacyG02
<1>2. Running /\ Staged /\ Measured /\ CheckTypeOK
  BY <1>1 DEF CheckInvariant
<1>3. call.entry = "document" /\ anchors = <<>> /\ ~Deep /\ Reads(call.doc)
      /\ Counts("parse", Len(ParseAnchors(call.doc)))
  BY <1>1, <1>2 DEF Staged, Measured, ReadingSteps
<1>4. CASE Contradicted(call.doc)
  <2>1. Return("EIO")
    BY <1>4 DEF LegacyG02
  <2> QED BY <1>1, <2>1, Returns
<1>5. CASE ~Contradicted(call.doc)
  <2>1. /\ Goto("measure") /\ call' = call /\ status' = status /\ anchors' = anchors
        /\ arena' = arena /\ buffer' = buffer /\ result' = result
        /\ measured' = WithCount("g02", Len(G02(call.doc)))
    BY <1>5 DEF LegacyG02
  <2>2. CheckTypeOK' /\ Running' /\ pc' = "measure" /\ step' = 1
    <3>1. arena' \in {"none", "live"}
      BY <1>2, <2>1 DEF CheckTypeOK
    <3> QED BY <1>1, <2>1, <3>1, GoesOn
  <2>3. ~Deep' /\ Reads(call'.doc) /\ ~Contradicted(call'.doc)
    BY <1>3, <1>5, <2>1 DEF Deep
  <2>4. Counts("parse", Len(ParseAnchors(call.doc)))' /\ Counts("g02", Len(G02(call.doc)))'
    BY <1>3, <2>1 DEF Counts, WithCount
  <2>5. 1 \in 1 .. Len(Gates) /\ 1 .. 1 - 1 = {}
    BY GateNames
  <2>6. Staged' /\ Collected' /\ FragmentStaged'
    BY <1>3, <2>1, <2>2, <2>3 DEF Staged, Collected, FragmentStaged, FragmentSteps,
       FirstSteps, ReadingSteps, LastSteps
  <2>7. Measured'
    BY <2>2, <2>4, <2>5 DEF Measured
  <2> QED BY <2>2, <2>6, <2>7, NextPass
<1> QED BY <1>4, <1>5

LEMMA MeasureGateHolds ==
  ASSUME CheckInvariant, MeasureGate
  PROVE  CheckInvariant'
<1> DEFINE doc == call.doc
           now == WithCount(Gates[step], Len(Findings(Gates[step], doc)))
           total == SumOf(now, <<"parse", "g02">> \o SubSeq(Gates, 1, step))
<1>1. pc = "measure"
  BY DEF MeasureGate
<1>2. Running /\ Staged /\ Measured /\ CheckTypeOK
  BY <1>1 DEF CheckInvariant
<1>3. /\ call.entry = "document" /\ anchors = <<>> /\ ~Deep /\ Reads(doc) /\ ~Contradicted(doc)
      /\ doc \in Documents
  BY <1>1, <1>2 DEF Staged, Running, ReadingSteps
<1>4. /\ Counts("parse", Len(ParseAnchors(doc))) /\ Counts("g02", Len(G02(doc)))
      /\ step \in 1 .. Len(Gates)
      /\ \A i \in 1 .. step - 1 : Counts(Gates[i], Len(Findings(Gates[i], doc)))
  BY <1>1, <1>2 DEF Measured
<1>5. Len(Gates) = 17 /\ Gates[step] # "parse" /\ Gates[step] # "g02"
  BY <1>4, GateNames
<1>6. /\ "parse" \in DOMAIN now /\ now["parse"] = Len(ParseAnchors(doc))
      /\ "g02" \in DOMAIN now /\ now["g02"] = Len(G02(doc))
  BY <1>4, <1>5 DEF Counts, WithCount
<1>7. ASSUME NEW i \in 1 .. step
      PROVE  Gates[i] \in DOMAIN now /\ now[Gates[i]] = Len(Findings(Gates[i], doc))
  <2>1. CASE Gates[i] = Gates[step]
    BY <2>1 DEF WithCount
  <2>2. CASE Gates[i] # Gates[step]
    <3>1. i \in 1 .. step - 1
      BY <1>4, <1>5, <2>2
    <3>2. Gates[i] \in DOMAIN measured /\ measured[Gates[i]] = Len(Findings(Gates[i], doc))
      BY <1>4, <3>1 DEF Counts
    <3> QED BY <2>2, <3>2 DEF WithCount
  <2> QED BY <2>1, <2>2
<1> HIDE DEF now
<1>8. total \in Nat /\ total <= Len(Legacy(doc))
  BY <1>3, <1>4, <1>6, <1>7, TotalIsWanted
<1> HIDE DEF total
<1>9. CASE ClosesBatch(step) /\ total > MaxDiagnostics
  <2>1. Return("ENOSPC")
    BY <1>9 DEF MeasureGate, now, total
  <2>2. Required = Len(Legacy(doc)) + Len(Grouped(doc)) /\ Len(Grouped(doc)) \in Nat
        /\ Len(Legacy(doc)) \in Nat
    BY <1>3, RequiredOfDocument
  <2>3. Required > MaxDiagnostics
    <3> HIDE DEF doc
    <3> QED BY <1>8, <1>9, <2>2, DiagnosticsAssumption
  <2> QED BY <1>1, <2>1, <2>3, Returns DEF TooMuch
<1>10. CASE ~(ClosesBatch(step) /\ total > MaxDiagnostics)
  <2>1. /\ call' = call /\ status' = status /\ anchors' = anchors
        /\ arena' = arena /\ buffer' = buffer /\ result' = result /\ measured' = now
        /\ IF step = Len(Gates) THEN Goto("collect") ELSE pc' = pc /\ step' = step + 1
    BY <1>10 DEF MeasureGate, now, total
  <2>2. ~Deep' /\ Reads(call'.doc) /\ ~Contradicted(call'.doc)
    BY <1>3, <2>1 DEF Deep
  <2>3. arena' \in {"none", "live"}
    BY <1>2, <2>1 DEF CheckTypeOK
  <2>4. CASE step = Len(Gates)
    <3>1. CheckTypeOK' /\ Running' /\ pc' = "collect" /\ step' = 1
      BY <1>1, <2>1, <2>3, <2>4, GoesOn
    <3>2. Joined(GateRows(call'.doc), step' - 1) = <<>>
      <4>1. Joined(GateRows(doc), 0) = <<>> /\ 1 - 1 = 0
        BY <1>3, GatesJoin
      <4> QED BY <2>1, <3>1, <4>1
    <3>3. step' \in 1 .. Len(Gates)
      BY <1>5, <3>1
    <3>4. Staged' /\ Measured' /\ Collected' /\ FragmentStaged'
      BY <1>3, <2>1, <2>2, <3>1, <3>2, <3>3 DEF Staged, Measured, Collected, FragmentStaged,
         FragmentSteps, FirstSteps, ReadingSteps, LastSteps
    <3> QED BY <3>1, <3>4, NextPass
  <2>5. CASE step # Len(Gates)
    <3>1. pc' = "measure" /\ step' = step + 1
      BY <1>1, <2>1, <2>5
    <3>2. step + 1 \in 1 .. Len(Gates) /\ step + 1 \in 1 .. Len(Gates) + 1 /\ (step + 1) - 1 = step
      BY <1>4, <1>5, <2>5
    <3>3. CheckTypeOK'
      BY <1>2, <2>1, <2>3, <3>1, <3>2 DEF CheckTypeOK
    <3>4. Running'
      BY <1>1, <1>2, <2>1, StillRunning
    <3>5. Staged' /\ Collected' /\ FragmentStaged'
      BY <1>3, <2>1, <2>2, <3>1 DEF Staged, Collected, FragmentStaged,
         FragmentSteps, FirstSteps, ReadingSteps, LastSteps
    <3>6. Counts("parse", Len(ParseAnchors(doc)))' /\ Counts("g02", Len(G02(doc)))'
      BY <1>6, <2>1 DEF Counts
    <3>7. step' \in 1 .. Len(Gates) /\ step' - 1 = step
      BY <3>1, <3>2
    <3>8. \A i \in 1 .. step' - 1 : Counts(Gates[i], Len(Findings(Gates[i], doc)))'
      BY <1>7, <2>1, <3>7 DEF Counts
    <3>9. Measured'
      BY <3>1, <3>6, <3>7, <3>8 DEF Measured
    <3> QED BY <3>1, <3>3, <3>4, <3>5, <3>9, NextPass
  <2> QED BY <2>4, <2>5
<1> QED BY <1>9, <1>10

LEMMA CollectGateHolds ==
  ASSUME CheckInvariant, CollectGate
  PROVE  CheckInvariant'
<1> DEFINE doc == call.doc
           found == Findings(Gates[step], doc)
<1>1. pc = "collect"
  BY DEF CollectGate
<1>2. Running /\ Staged /\ Collected /\ CheckTypeOK
  BY <1>1 DEF CheckInvariant
<1>3. /\ call.entry = "document" /\ ~Deep /\ Reads(doc) /\ ~Contradicted(doc)
      /\ doc \in Documents /\ step \in 1 .. Len(Gates) /\ anchors = Joined(GateRows(doc), step - 1)
  BY <1>1, <1>2 DEF Staged, Running, Collected, ReadingSteps
<1>4. Len(Gates) = 17
  BY GateNames
<1>5. anchors \o found = Joined(GateRows(doc), step)
  BY <1>3, GatesJoin
<1> HIDE DEF found
<1>6. CASE Return("EIO")
  BY <1>1, <1>6, Returns
<1>7. CASE ~Return("EIO")
  <2>1. /\ call' = call /\ status' = status /\ anchors' = anchors \o found
        /\ arena' = arena /\ buffer' = buffer /\ result' = result
        /\ IF step = Len(Gates) THEN Goto("exact") ELSE pc' = pc /\ step' = step + 1
    BY <1>7 DEF CollectGate, found
  <2>2. ~Deep' /\ Reads(call'.doc) /\ ~Contradicted(call'.doc)
    BY <1>3, <2>1 DEF Deep
  <2>3. arena' \in {"none", "live"}
    BY <1>2, <2>1 DEF CheckTypeOK
  <2>4. CASE step = Len(Gates)
    <3>1. CheckTypeOK' /\ Running' /\ pc' = "exact"
      BY <1>1, <2>1, <2>3, <2>4, GoesOn
    <3>2. anchors' = FlattenSeq(GateRows(call'.doc))
      BY <1>3, <1>5, <2>1, <2>4, GatesJoin
    <3>3. Staged' /\ Measured' /\ Collected' /\ FragmentStaged'
      BY <1>3, <2>1, <2>2, <3>1, <3>2 DEF Staged, Measured, Collected, FragmentStaged,
         FragmentSteps, FirstSteps, ReadingSteps, LastSteps
    <3> QED BY <3>1, <3>3, NextPass
  <2>5. CASE step # Len(Gates)
    <3>1. pc' = "collect" /\ step' = step + 1
      BY <1>1, <2>1, <2>5
    <3>2. step + 1 \in 1 .. Len(Gates) /\ step + 1 \in 1 .. Len(Gates) + 1 /\ (step + 1) - 1 = step
      BY <1>3, <1>4, <2>5
    <3>3. CheckTypeOK'
      BY <1>2, <2>1, <2>3, <3>1, <3>2 DEF CheckTypeOK
    <3>4. Running'
      BY <1>1, <1>2, <2>1, StillRunning
    <3>5. Staged' /\ Measured' /\ FragmentStaged'
      BY <1>3, <2>1, <2>2, <3>1 DEF Staged, Measured, FragmentStaged,
         FragmentSteps, FirstSteps, ReadingSteps, LastSteps
    <3>6. step' \in 1 .. Len(Gates) /\ step' - 1 = step
      BY <3>1, <3>2
    <3>7. anchors' = Joined(GateRows(call'.doc), step' - 1)
      BY <1>5, <2>1, <3>6
    <3>8. Collected'
      BY <3>1, <3>6, <3>7 DEF Collected, LastSteps
    <3> QED BY <3>1, <3>3, <3>4, <3>5, <3>8, NextPass
  <2> QED BY <2>4, <2>5
<1> QED BY <1>6, <1>7

LEMMA ExactHolds ==
  ASSUME CheckInvariant, LegacyExact
  PROVE  CheckInvariant'
<1>1. /\ pc = "exact" /\ Goto("report") /\ call' = call /\ status' = status /\ anchors' = anchors
      /\ arena' = arena /\ buffer' = buffer /\ result' = result
      /\ local' = Materialize(ParseAnchors(call.doc), 0)
  BY DEF LegacyExact
<1>2. Running /\ Staged /\ Collected /\ CheckTypeOK
  BY <1>1 DEF CheckInvariant
<1>3. /\ call.entry = "document" /\ ~Deep /\ Reads(call.doc) /\ ~Contradicted(call.doc)
      /\ anchors = FlattenSeq(GateRows(call.doc))
  BY <1>1, <1>2 DEF Staged, Collected, ReadingSteps
<1>4. CheckTypeOK' /\ Running' /\ pc' = "report"
  <2>1. arena' \in {"none", "live"}
    BY <1>1, <1>2 DEF CheckTypeOK
  <2> QED BY <1>1, <2>1, GoesOn
<1>5. ~Deep' /\ Reads(call'.doc) /\ ~Contradicted(call'.doc)
  BY <1>1, <1>3 DEF Deep
<1>6. Staged' /\ Measured' /\ Collected' /\ FragmentStaged'
  BY <1>1, <1>3, <1>4, <1>5 DEF Staged, Measured, Collected, FragmentStaged, FragmentSteps,
     FirstSteps, ReadingSteps, LastSteps
<1> QED BY <1>4, <1>6, NextPass

(* The report of the first pass has all it found.                            *)
LEMMA LegacyReports ==
  ASSUME NEW doc \in Documents, Reads(doc), ~Contradicted(doc), NEW list,
         list = Materialize(ParseAnchors(doc), 0)
  PROVE  Lists(Finished(doc, list \o Materialize(G02(doc) \o FlattenSeq(GateRows(doc)), Len(list))),
               Legacy(doc), doc)
<1> DEFINE a == ParseAnchors(doc)
           b == G02(doc)
           c == FlattenSeq(GateRows(doc))
           R == Ruled(doc)
           A == Anchors(doc)
<1>1. a \in Seq(A) /\ b \in Seq(R) /\ c \in Seq(R)
  BY ParseFinds, DocumentChecks, GatesFind, FlattenFacts
<1>2. b \o c \in Seq(A)
  BY <1>1, TwoRuled, RuledAreAnchors
<1>3. Legacy(doc) = a \o b \o c
  BY DEF Legacy, Reads
<1>4. a \o b \o c = a \o (b \o c)
  <2>1. b \in Seq(A) /\ c \in Seq(A)
    BY <1>1, RuledAreAnchors
  <2> HIDE DEF a, b, c, A
  <2> QED BY <1>1, <2>1, ConcatAssociative
<1> HIDE DEF a, b, c, R, A
<1>5. Lists(list, a, doc)
  BY <1>1, MaterializedLists DEF a, A
<1>6. Lists(list \o Materialize(b \o c, Len(list)), a \o (b \o c), doc)
  BY <1>2, <1>5, AppendedLists DEF A
<1>7. Lists(Finished(doc, list \o Materialize(b \o c, Len(list))), a \o (b \o c), doc)
  BY <1>6, DocumentSizes, FinishedIsReport DEF IsReport
<1> QED BY <1>3, <1>4, <1>7 DEF b, c

LEMMA ReportHolds ==
  ASSUME CheckInvariant, LegacyReport
  PROVE  CheckInvariant'
<1> DEFINE doc == call.doc
<1>1. /\ pc = "report" /\ Goto("collect_groups") /\ call' = call /\ status' = status
      /\ anchors' = <<>> /\ arena' = arena /\ buffer' = buffer /\ result' = result
      /\ local' = Finished(doc, local \o Materialize(G02(doc) \o anchors, Len(local)))
  BY DEF LegacyReport
<1>2. Running /\ Staged /\ Collected /\ CheckTypeOK
  BY <1>1 DEF CheckInvariant
<1>3. /\ call.entry = "document" /\ ~Deep /\ Reads(doc) /\ ~Contradicted(doc)
      /\ doc \in Documents /\ anchors = FlattenSeq(GateRows(doc))
      /\ local = Materialize(ParseAnchors(doc), 0)
  BY <1>1, <1>2 DEF Staged, Collected, Running, ReadingSteps
<1>4. CheckTypeOK' /\ Running' /\ pc' = "collect_groups" /\ step' = 1
  <2>1. arena' \in {"none", "live"}
    BY <1>1, <1>2 DEF CheckTypeOK
  <2> QED BY <1>1, <2>1, GoesOn
<1>5. ~Deep' /\ Reads(call'.doc) /\ ~Contradicted(call'.doc)
  BY <1>1, <1>3 DEF Deep
<1>6. Lists(local', Legacy(call'.doc), call'.doc)
  BY <1>1, <1>3, LegacyReports
<1>7. anchors' = Joined(GroupRows(call'.doc), step' - 1) /\ step' \in 1 .. Len(Groups)
  <2>1. Joined(GroupRows(doc), 0) = <<>> /\ 1 - 1 = 0 /\ 1 \in 1 .. Len(Groups)
    BY <1>3, GroupsJoin, GroupNames
  <2> QED BY <1>1, <1>4, <2>1
<1>8. Staged' /\ Measured' /\ Collected' /\ FragmentStaged'
  BY <1>1, <1>3, <1>4, <1>5, <1>6, <1>7 DEF Staged, Measured, Collected, FragmentStaged,
     FragmentSteps, FirstSteps, ReadingSteps, LastSteps
<1> QED BY <1>4, <1>8, NextPass

LEMMA CollectGroupHolds ==
  ASSUME CheckInvariant, CollectGroup
  PROVE  CheckInvariant'
<1> DEFINE doc == call.doc
           found == Findings(Groups[step], doc)
<1>1. pc = "collect_groups"
  BY DEF CollectGroup
<1>2. Running /\ Staged /\ Collected /\ CheckTypeOK
  BY <1>1 DEF CheckInvariant
<1>3. /\ call.entry = "document" /\ ~Deep /\ (Reads(doc) => ~Contradicted(doc))
      /\ doc \in Documents /\ step \in 1 .. Len(Groups) /\ anchors = Joined(GroupRows(doc), step - 1)
      /\ Lists(local, Legacy(doc), doc)
  BY <1>1, <1>2 DEF Staged, Running, Collected, LastSteps
<1>4. Len(Groups) = 5 /\ Len(Gates) = 17
  BY GroupNames, GateNames
<1>5. /\ anchors \o found = Joined(GroupRows(doc), step)
      /\ anchors \in Seq(Ruled(doc)) /\ found \in Seq(Ruled(doc))
      /\ Len(Joined(GroupRows(doc), step)) <= Len(Grouped(doc))
  BY <1>3, GroupsJoin
<1> HIDE DEF found
<1>6. CASE Len(anchors) + Len(found) > MaxDiagnostics
  <2>1. Return("ENOSPC")
    BY <1>6 DEF CollectGroup, found
  <2>2. Len(anchors) + Len(found) <= Len(Grouped(doc))
        /\ Len(anchors) \in Nat /\ Len(found) \in Nat
    <3>1. Len(anchors \o found) = Len(anchors) + Len(found)
      BY <1>5, ConcatProperties
    <3>2. Len(anchors \o found) <= Len(Grouped(doc))
      BY <1>5
    <3> QED BY <1>5, <3>1, <3>2
  <2>3. Required = Len(Legacy(doc)) + Len(Grouped(doc)) /\ Len(Grouped(doc)) \in Nat
        /\ Len(Legacy(doc)) \in Nat
    BY <1>3, RequiredOfDocument
  <2>4. Required > MaxDiagnostics
    <3> HIDE DEF doc
    <3> QED BY <1>6, <2>2, <2>3, DiagnosticsAssumption
  <2> QED BY <1>1, <2>1, <2>4, Returns DEF TooMuch
<1>7. CASE ~(Len(anchors) + Len(found) > MaxDiagnostics)
  <2>1. /\ call' = call /\ status' = status /\ anchors' = anchors \o found /\ local' = local
        /\ arena' = arena /\ buffer' = buffer /\ result' = result
        /\ IF step = Len(Groups) THEN Goto("total") ELSE pc' = pc /\ step' = step + 1
    BY <1>7 DEF CollectGroup, found
  <2>2. ~Deep' /\ (Reads(call'.doc) => ~Contradicted(call'.doc))
        /\ Lists(local', Legacy(call'.doc), call'.doc)
    BY <1>3, <2>1 DEF Deep
  <2>3. arena' \in {"none", "live"}
    BY <1>2, <2>1 DEF CheckTypeOK
  <2>4. CASE step = Len(Groups)
    <3>1. CheckTypeOK' /\ Running' /\ pc' = "total"
      BY <1>1, <2>1, <2>3, <2>4, GoesOn
    <3>2. anchors' = Grouped(call'.doc)
      BY <1>3, <1>5, <2>1, <2>4, GroupsJoin
    <3>3. Staged' /\ Measured' /\ Collected' /\ FragmentStaged'
      BY <1>3, <2>1, <2>2, <3>1, <3>2 DEF Staged, Measured, Collected, FragmentStaged,
         FragmentSteps, FirstSteps, ReadingSteps, LastSteps
    <3> QED BY <3>1, <3>3, NextPass
  <2>5. CASE step # Len(Groups)
    <3>1. pc' = "collect_groups" /\ step' = step + 1
      BY <1>1, <2>1, <2>5
    <3>2. step + 1 \in 1 .. Len(Groups) /\ step + 1 \in 1 .. Len(Gates) + 1 /\ (step + 1) - 1 = step
      BY <1>3, <1>4, <2>5
    <3>3. CheckTypeOK'
      BY <1>2, <2>1, <2>3, <3>1, <3>2 DEF CheckTypeOK
    <3>4. Running'
      BY <1>1, <1>2, <2>1, StillRunning
    <3>5. Staged' /\ Measured' /\ FragmentStaged'
      BY <1>3, <2>1, <2>2, <3>1 DEF Staged, Measured, FragmentStaged,
         FragmentSteps, FirstSteps, ReadingSteps, LastSteps
    <3>6. step' \in 1 .. Len(Groups) /\ step' - 1 = step
      BY <3>1, <3>2
    <3>7. anchors' = Joined(GroupRows(call'.doc), step' - 1)
      BY <1>5, <2>1, <3>6
    <3>8. Collected'
      BY <2>2, <3>1, <3>6, <3>7 DEF Collected, LastSteps
    <3> QED BY <3>1, <3>3, <3>4, <3>5, <3>8, NextPass
  <2> QED BY <2>4, <2>5
<1> QED BY <1>6, <1>7

LEMMA TotalHolds ==
  ASSUME CheckInvariant, CheckTotal
  PROVE  CheckInvariant'
<1> DEFINE doc == call.doc
           total == Len(local) + Len(anchors)
<1>1. pc = "total"
  BY DEF CheckTotal
<1>2. Running /\ Staged /\ Collected /\ CheckTypeOK
  BY <1>1 DEF CheckInvariant
<1>3. /\ call.entry = "document" /\ ~Deep /\ (Reads(doc) => ~Contradicted(doc))
      /\ doc \in Documents /\ anchors = Grouped(doc) /\ Lists(local, Legacy(doc), doc)
  BY <1>1, <1>2 DEF Staged, Running, Collected, LastSteps
<1>4. Required = total
  <2>1. Required = Len(Legacy(doc)) + Len(Grouped(doc))
    BY <1>3, RequiredOfDocument
  <2>2. Len(local) = Len(Legacy(doc))
    BY <1>3 DEF Lists
  <2> QED BY <1>3, <2>1, <2>2
<1>5. TooMuch <=> total > MaxDiagnostics \/ total > call.capacity
  BY <1>3, <1>4 DEF TooMuch
<1> HIDE DEF total
<1>6. CASE TooMuch
  <2>1. Return("ENOSPC")
    BY <1>5, <1>6 DEF CheckTotal, total
  <2> QED BY <1>1, <1>6, <2>1, Returns
<1>7. CASE ~TooMuch
  <2>1. /\ call' = call /\ status' = status /\ anchors' = anchors /\ local' = local
        /\ arena' = arena /\ buffer' = buffer /\ result' = result /\ Goto("publish")
    BY <1>5, <1>7 DEF CheckTotal, total
  <2>2. ~Deep' /\ (Reads(call'.doc) => ~Contradicted(call'.doc))
        /\ Lists(local', Legacy(call'.doc), call'.doc)
    BY <1>3, <2>1 DEF Deep
  <2>3. ~TooMuch'
    BY <1>7, <2>1 DEF TooMuch, Required, Deep
  <2>4. CheckTypeOK' /\ Running' /\ pc' = "publish"
    <3>1. arena' \in {"none", "live"}
      BY <1>2, <2>1 DEF CheckTypeOK
    <3> QED BY <1>1, <2>1, <3>1, GoesOn
  <2>5. Staged' /\ Measured' /\ Collected' /\ FragmentStaged'
    BY <1>3, <2>1, <2>2, <2>3, <2>4 DEF Staged, Measured, Collected, FragmentStaged,
       FragmentSteps, FirstSteps, ReadingSteps, LastSteps
  <2> QED BY <2>4, <2>5, NextPass
<1> QED BY <1>6, <1>7

(* What an array is once a report was written at its front.                  *)
LEMMA Overwritten ==
  ASSUME NEW S, NEW final \in Seq(S), NEW c \in Nat, NEW array,
         Len(array) = c, DOMAIN array = 1 .. c, Len(final) <= c
  PROVE  /\ Len(Overwrite(array, final)) = c /\ DOMAIN Overwrite(array, final) = 1 .. c
         /\ SubSeq(Overwrite(array, final), 1, Len(final)) = final
         /\ \A i \in 1 .. c : Overwrite(array, final)[i]
                               = IF i <= Len(final) THEN final[i] ELSE array[i]
<1> DEFINE after == Overwrite(array, final)
           n == Len(final)
<1>1. after = [i \in 1 .. c |-> IF i <= n THEN final[i] ELSE array[i]]
  BY DEF Overwrite
<1>2. n \in Nat /\ final = [i \in 1 .. n |-> final[i]]
  BY LenProperties
<1> HIDE DEF after, n
<1>3. Len(after) = c /\ DOMAIN after = 1 .. c
      /\ \A i \in 1 .. c : after[i] = IF i <= n THEN final[i] ELSE array[i]
  BY <1>1
<1>4. SubSeq(after, 1, n) = [i \in 1 .. n |-> after[i]]
  BY <1>2
<1>5. \A i \in 1 .. n : after[i] = final[i]
  <2>1. n <= c
    BY DEF n
  <2> QED BY <1>2, <1>3, <2>1
<1>6. SubSeq(after, 1, n) = final
  BY <1>2, <1>4, <1>5
<1> QED BY <1>3, <1>6 DEF after, n

(* A report of all that is wanted, written at the front of an array that     *)
(* holds nothing behind it, is what the call promises.                       *)
LEMMA ReportDelivers ==
  ASSUME NEW entry, NEW doc \in Documents, NEW wanted, wanted = Expected(entry, doc),
         NEW final, IsReport(final, wanted, doc),
         NEW c \in Nat, Len(wanted) <= c, NEW array, Len(array) = c, DOMAIN array = 1 .. c,
         \A i \in 1 .. c : i > Len(final) => array[i] = Untouched,
         NEW clean, clean <=> \A i \in DOMAIN wanted : wanted[i].rule \notin {0, 1, 2}
  PROVE  Delivers(entry, doc, Overwrite(array, final), [count |-> Len(final), clean |-> clean])
<1> DEFINE after == Overwrite(array, final)
           answer == [count |-> Len(final), clean |-> clean]
           n == Len(final)
           D == Diagnostics(doc)
<1>1. final \in Seq(D) /\ n = Len(wanted) /\ n \in Nat
  BY LenProperties DEF IsReport, Lists
<1>2. /\ Len(after) = c /\ DOMAIN after = 1 .. c /\ SubSeq(after, 1, n) = final
      /\ \A i \in 1 .. c : after[i] = IF i <= n THEN final[i] ELSE array[i]
  BY <1>1, Overwritten
<1>3. \A i \in 1 .. n : final[i] # Untouched
  <2> TAKE i \in 1 .. n
  <2>1. final[i] \in D
    BY <1>1, ElementOfSeq
  <2>2. DOMAIN final[i] = {"offset", "rule", "severity", "sequence", "line", "column"}
    <3> DEFINE e == final[i]
    <3>1. e \in D
      BY <2>1
    <3> HIDE DEF e
    <3>2. DOMAIN e = {"offset", "rule", "severity", "sequence", "line", "column"}
      BY <3>1 DEF Diagnostics
    <3> QED BY <3>2 DEF e
  <2>3. DOMAIN Untouched = {"count"}
    BY DEF Untouched
  <2>4. "offset" \in DOMAIN final[i] /\ "offset" \notin DOMAIN Untouched
    BY <2>2, <2>3
  <2> QED BY <2>4
<1>4. SaysAll(final, wanted, doc)
  BY DocumentSizes, ReportSaysAll
<1>5. answer.count = n /\ answer.clean = clean
  OBVIOUS
<1> HIDE DEF after, answer, n
<1>6. \A i \in 1 .. c : after[i] = Untouched <=> i > n
  <2> TAKE i \in 1 .. c
  <2>1. CASE i <= n
    <3>1. i \in 1 .. n /\ ~(i > n)
      BY <1>1, <2>1
    <3>2. after[i] = final[i]
      BY <1>2, <2>1
    <3> QED BY <1>3, <3>1, <3>2
  <2>2. CASE ~(i <= n)
    <3>1. i > n
      BY <1>1, <2>2
    <3>2. after[i] = array[i]
      BY <1>2, <2>2
    <3> QED BY <3>1, <3>2 DEF n
  <2> QED BY <2>1, <2>2
<1>7. Delivers(entry, doc, after, answer)
  BY <1>1, <1>2, <1>4, <1>5, <1>6 DEF Delivers
<1> QED BY <1>7 DEF after, answer, n

(* A clean report has no finding of the parse. *)
LEMMA CleanOfDocument ==
  ASSUME NEW doc \in Documents, Reads(doc) => ~Contradicted(doc), NEW wanted,
         wanted = Expected("document", doc)
  PROVE  Clean(doc) <=> \A i \in DOMAIN wanted : wanted[i].rule \notin {0, 1, 2}
<1>1. PICK rest \in Seq(Ruled(doc)) : wanted = ReportFront(doc) \o rest
  BY LegacyFacts
<1> DEFINE f == ReportFront(doc)
<1>2. /\ f \in Seq(Anchors(doc)) /\ (Clean(doc) <=> Len(f) = 0)
      /\ \A i \in 1 .. Len(f) : f[i].rule \in {0, 1, 2}
  BY FrontFacts
<1> HIDE DEF f
<1>3. Len(f) = 0 <=> \A i \in DOMAIN (f \o rest) : (f \o rest)[i].rule \notin {0, 1, 2}
  BY <1>2, CleanIs
<1>4. wanted = f \o rest
  BY <1>1 DEF f
<1> QED BY <1>2, <1>3, <1>4

LEMMA CleanOfFragment ==
  ASSUME NEW doc \in Documents, NEW wanted, wanted = Expected("fragment", doc)
  PROVE  Clean(doc) <=> \A i \in DOMAIN wanted : wanted[i].rule \notin {0, 1, 2}
<1>1. PICK rest \in Seq(Ruled(doc)) : wanted = ReportFront(doc) \o rest
  BY FragmentFacts
<1> DEFINE f == ReportFront(doc)
<1>2. /\ f \in Seq(Anchors(doc)) /\ (Clean(doc) <=> Len(f) = 0)
      /\ \A i \in 1 .. Len(f) : f[i].rule \in {0, 1, 2}
  BY FrontFacts
<1> HIDE DEF f
<1>3. Len(f) = 0 <=> \A i \in DOMAIN (f \o rest) : (f \o rest)[i].rule \notin {0, 1, 2}
  BY <1>2, CleanIs
<1>4. wanted = f \o rest
  BY <1>1 DEF f
<1> QED BY <1>2, <1>3, <1>4

(* A call that is answered with its report. *)
LEMMA Answers ==
  ASSUME CheckTypeOK, status' = "OK", pc' = "idle", arena' = "none", step' = step, call' = call,
         call.entry # "none", Delivers(call.entry, call.doc, buffer', result'), ~TooMuch
  PROVE  CheckInvariant'
<1>1. CheckTypeOK'
  BY DEF CheckTypeOK
<1>2. ~TooMuch'
  BY DEF TooMuch, Required, Deep
<1>3. Delivers(call'.entry, call'.doc, buffer', result')
  OBVIOUS
<1>4. Idle'
  BY <1>2, <1>3 DEF Idle
<1>5. Staged' /\ Measured' /\ Collected' /\ FragmentStaged'
  BY DEF Staged, Measured, Collected, FragmentStaged, FragmentSteps, FirstSteps,
     ReadingSteps, LastSteps
<1> QED BY <1>1, <1>4, <1>5 DEF CheckInvariant

LEMMA PublishHolds ==
  ASSUME CheckInvariant, Publish
  PROVE  CheckInvariant'
<1> DEFINE doc == call.doc
           all == local \o Materialize(anchors, Len(local))
           final == Finished(doc, all)
           wanted == Expected("document", doc)
<1>1. /\ pc = "publish" /\ buffer' = Overwrite(buffer, final)
      /\ result' = [count |-> Len(final), clean |-> Clean(doc)]
      /\ status' = "OK" /\ arena' = "none" /\ pc' = "idle" /\ call' = call /\ step' = step
  BY DEF Publish
<1>2. Running /\ Staged /\ Collected /\ CheckTypeOK
  BY <1>1 DEF CheckInvariant
<1>3. /\ call.entry = "document" /\ ~Deep /\ (Reads(doc) => ~Contradicted(doc))
      /\ doc \in Documents /\ anchors = Grouped(doc) /\ Lists(local, Legacy(doc), doc) /\ ~TooMuch
  BY <1>1, <1>2 DEF Staged, Running, Collected, LastSteps
<1>4. /\ call.capacity \in Nat /\ Len(buffer) = call.capacity /\ DOMAIN buffer = 1 .. call.capacity
      /\ \A i \in 1 .. call.capacity : buffer[i] = Untouched
  BY <1>1, <1>2 DEF Running
<1>5. wanted = Legacy(doc) \o Grouped(doc) /\ wanted \in Seq(Anchors(doc))
      /\ Grouped(doc) \in Seq(Anchors(doc))
  BY <1>3, ExpectedOfDocument, LegacyFacts
<1>6. Clean(doc) <=> \A i \in DOMAIN wanted : wanted[i].rule \notin {0, 1, 2}
  BY <1>3, CleanOfDocument
<1> HIDE DEF all, wanted
<1>7. Lists(all, wanted, doc)
  BY <1>3, <1>5, AppendedLists DEF all
<1>8. IsReport(final, wanted, doc)
  BY <1>3, <1>7, DocumentSizes, FinishedIsReport
<1> HIDE DEF final
<1>9. Len(wanted) <= call.capacity
  <2>1. Required = Len(wanted) /\ Len(wanted) \in Nat
    BY <1>3, <1>5, LenProperties DEF Required, wanted
  <2> QED BY <1>3, <1>4, <2>1 DEF TooMuch
<1>10. Delivers(call.entry, doc, buffer', result')
  BY <1>1, <1>3, <1>4, <1>6, <1>8, <1>9, ReportDelivers DEF wanted
<1> QED BY <1>1, <1>2, <1>3, <1>10, Answers

LEMMA FragmentBeginHolds ==
  ASSUME CheckInvariant, FragmentBegin
  PROVE  CheckInvariant'
<1> DEFINE doc == call.doc
           u == <<Utf8Anchor(doc)>>
           final == Finished(doc, Materialize(u, 0))
           p == ParseAnchors(doc)
           x == Findings("g04_r2a", doc)
<1>1. pc = "fragment"
  BY DEF FragmentBegin
<1>2. Running /\ Staged /\ CheckTypeOK
  BY <1>1 DEF CheckInvariant
<1>3. call.entry = "fragment" /\ arena = "none" /\ doc \in Documents
  BY <1>1, <1>2 DEF Staged, Running, FragmentSteps
<1>4. /\ call.capacity \in Nat /\ Len(buffer) = call.capacity /\ DOMAIN buffer = 1 .. call.capacity
      /\ \A i \in 1 .. call.capacity : buffer[i] = Untouched
  BY <1>1, <1>2 DEF Running
<1>5. CASE doc.badByte # None
  <2>1. Expected("fragment", doc) = u
    BY <1>3, <1>5, ExpectedOfFragment
  <2>2. Len(u) = 1 /\ IsReport(final, u, doc) /\ Len(final) = 1
    BY <1>3, <1>5, Utf8Reports
  <2>3. Required = 1
    BY <1>3, <2>1, <2>2 DEF Required
  <2>4. Clean(doc) = FALSE
    BY <1>5 DEF Clean
  <2>5. FALSE <=> \A i \in DOMAIN u : u[i].rule \notin {0, 1, 2}
    BY <1>3, <2>1, <2>4, CleanOfFragment
  <2>6. CASE call.capacity < 1
    <3>1. Return("ENOSPC")
      BY <1>5, <2>6 DEF FragmentBegin
    <3>2. TooMuch
      BY <1>4, <2>3, <2>6 DEF TooMuch
    <3> QED BY <1>1, <3>1, <3>2, Returns
  <2>7. CASE ~(call.capacity < 1)
    <3>1. /\ buffer' = Overwrite(buffer, final) /\ result' = [count |-> 1, clean |-> FALSE]
          /\ status' = "OK" /\ arena' = arena /\ pc' = "idle" /\ call' = call /\ step' = step
      BY <1>5, <2>7 DEF FragmentBegin
    <3>2. ~TooMuch
      BY <1>3, <1>4, <2>3, <2>7, DiagnosticsAssumption DEF TooMuch
    <3> HIDE DEF u, final
    <3>3. Len(u) <= call.capacity
      BY <1>4, <2>2, <2>7
    <3>4. Delivers(call.entry, doc, Overwrite(buffer, final), [count |-> Len(final), clean |-> FALSE])
      BY <1>3, <1>4, <2>1, <2>2, <2>5, <3>3, ReportDelivers
    <3>5. Delivers(call.entry, doc, buffer', result')
      BY <2>2, <3>1, <3>4
    <3>6. call.entry # "none" /\ arena' = "none"
      BY <1>3, <3>1
    <3> QED BY <1>2, <3>1, <3>2, <3>5, <3>6, Answers
  <2> QED BY <2>6, <2>7
<1>6. CASE doc.badByte = None
  <2> DEFINE total == Len(p) + Len(x)
  <2>1. Required = total
    BY <1>3, <1>6, FragmentFacts DEF Required
  <2>2. TooMuch <=> total > MaxDiagnostics \/ total > call.capacity
    BY <1>3, <2>1 DEF TooMuch
  <2> HIDE DEF total
  <2>3. CASE TooMuch
    <3>1. Return("ENOSPC")
      BY <1>6, <2>2, <2>3 DEF FragmentBegin, total
    <3> QED BY <1>1, <2>3, <3>1, Returns
  <2>4. CASE ~TooMuch
    <3>1. /\ Goto("fragment_collect") /\ call' = call /\ status' = status /\ anchors' = anchors
          /\ local' = local /\ arena' = arena /\ buffer' = buffer /\ result' = result
      BY <1>6, <2>2, <2>4 DEF FragmentBegin, total
    <3>2. CheckTypeOK' /\ Running' /\ pc' = "fragment_collect"
      BY <1>1, <1>3, <3>1, GoesOn
    <3>3. ~TooMuch'
      BY <2>4, <3>1 DEF TooMuch, Required, Deep
    <3>4. Staged' /\ Measured' /\ Collected' /\ FragmentStaged'
      BY <1>3, <1>6, <3>1, <3>2, <3>3 DEF Staged, Measured, Collected, FragmentStaged,
         FragmentSteps, FirstSteps, ReadingSteps, LastSteps
    <3> QED BY <3>2, <3>4, NextPass
  <2> QED BY <2>3, <2>4
<1> QED BY <1>5, <1>6

LEMMA FragmentCollectHolds ==
  ASSUME CheckInvariant, FragmentCollect
  PROVE  CheckInvariant'
<1>1. /\ pc = "fragment_collect" /\ Goto("fragment_exact") /\ call' = call /\ status' = status
      /\ anchors' = Findings("g04_r2a", call.doc) /\ arena' = arena /\ buffer' = buffer
      /\ result' = result
  BY DEF FragmentCollect
<1>2. Staged /\ FragmentStaged
  BY <1>1 DEF CheckInvariant
<1>3. call.entry = "fragment" /\ arena = "none" /\ call.doc.badByte = None /\ ~TooMuch
  BY <1>1, <1>2 DEF Staged, FragmentStaged, FragmentSteps
<1>4. CheckTypeOK' /\ Running' /\ pc' = "fragment_exact"
  BY <1>1, <1>3, GoesOn
<1>5. ~TooMuch'
  BY <1>1, <1>3 DEF TooMuch, Required, Deep
<1>6. Staged' /\ Measured' /\ Collected' /\ FragmentStaged'
  BY <1>1, <1>3, <1>4, <1>5 DEF Staged, Measured, Collected, FragmentStaged,
     FragmentSteps, FirstSteps, ReadingSteps, LastSteps
<1> QED BY <1>4, <1>6, NextPass

(* What a fragment is to be reported for is no more than there is room for.  *)
LEMMA FragmentFits ==
  ASSUME call.entry = "fragment", call.doc \in Documents, call.doc.badByte = None, ~TooMuch,
         call.capacity \in Nat
  PROVE  /\ Required = Len(ParseAnchors(call.doc)) + Len(Findings("g04_r2a", call.doc))
         /\ Len(ParseAnchors(call.doc)) \in Nat /\ Len(Findings("g04_r2a", call.doc)) \in Nat
         /\ Required <= call.capacity
<1>1. Required = Len(ParseAnchors(call.doc)) + Len(Findings("g04_r2a", call.doc))
  BY FragmentFacts DEF Required
<1>2. Len(ParseAnchors(call.doc)) \in Nat /\ Len(Findings("g04_r2a", call.doc)) \in Nat
  BY ParseFinds, GatesFind, LenProperties
<1>3. ~(Required > call.capacity)
  BY DEF TooMuch
<1> QED BY <1>1, <1>2, <1>3

LEMMA FragmentExactHolds ==
  ASSUME CheckInvariant, FragmentExact
  PROVE  CheckInvariant'
<1> DEFINE doc == call.doc
           list == Materialize(ParseAnchors(doc), 0)
           c == call.capacity
<1>1. /\ pc = "fragment_exact" /\ Goto("fragment_publish") /\ call' = call /\ status' = status
      /\ anchors' = anchors /\ arena' = arena /\ result' = result
      /\ local' = list /\ buffer' = Overwrite(buffer, list)
  BY DEF FragmentExact
<1>2. Running /\ Staged /\ FragmentStaged /\ CheckTypeOK
  BY <1>1 DEF CheckInvariant
<1>3. call.entry = "fragment" /\ arena = "none" /\ doc.badByte = None /\ ~TooMuch
      /\ anchors = Findings("g04_r2a", doc) /\ doc \in Documents
  BY <1>1, <1>2 DEF Staged, FragmentStaged, FragmentSteps, Running
<1>4. /\ c \in Nat /\ Len(buffer) = c /\ DOMAIN buffer = 1 .. c
      /\ \A i \in 1 .. c : buffer[i] = Untouched
  BY <1>1, <1>2 DEF Running
<1>5. list \in Seq(Diagnostics(doc)) /\ Len(list) = Len(ParseAnchors(doc))
  BY <1>3, ParseFinds, Materialized
<1>6. Len(list) <= c /\ Len(list) \in Nat
  <2>1. /\ Required = Len(ParseAnchors(doc)) + Len(Findings("g04_r2a", doc))
        /\ Len(ParseAnchors(doc)) \in Nat /\ Len(Findings("g04_r2a", doc)) \in Nat
        /\ Required <= c
    BY <1>3, <1>4, FragmentFits
  <2> QED BY <1>4, <1>5, <2>1
<1> HIDE DEF list
<1>7. /\ Len(buffer') = c /\ DOMAIN buffer' = 1 .. c
      /\ \A i \in 1 .. c : buffer'[i] = IF i <= Len(list) THEN list[i] ELSE buffer[i]
  BY <1>1, <1>4, <1>5, <1>6, Overwritten
<1>8. \A i \in 1 .. c : i > Len(local') => buffer'[i] = Untouched
  <2> SUFFICES ASSUME NEW i \in 1 .. c, i > Len(list) PROVE buffer'[i] = Untouched
    BY <1>1
  <2>1. ~(i <= Len(list))
    BY <1>4, <1>6
  <2> QED BY <1>4, <1>7, <2>1
<1>9. pc' = "fragment_publish" /\ step' = 1
  BY <1>1 DEF Goto
<1>10. CheckTypeOK'
  <2>1. 1 \in 1 .. Len(Gates) + 1
    BY GateNames
  <2> QED BY <1>1, <1>2, <1>9, <2>1 DEF CheckTypeOK
<1>11. Running'
  <2>1. Len(buffer') = call'.capacity /\ DOMAIN buffer' = 1 .. call'.capacity
    BY <1>1, <1>7
  <2> QED BY <1>1, <1>2, <1>9, <2>1 DEF Running
<1>12. ~TooMuch'
  BY <1>1, <1>3 DEF TooMuch, Required, Deep
<1>13. Staged' /\ Measured' /\ Collected'
  BY <1>1, <1>3, <1>9 DEF Staged, Measured, Collected, FragmentSteps, FirstSteps, ReadingSteps,
     LastSteps
<1>14. FragmentStaged'
  BY <1>1, <1>3, <1>8, <1>9, <1>12 DEF FragmentStaged, FragmentSteps, list
<1> QED BY <1>9, <1>10, <1>11, <1>13, <1>14, NextPass

LEMMA FragmentPublishHolds ==
  ASSUME CheckInvariant, FragmentPublish
  PROVE  CheckInvariant'
<1> DEFINE doc == call.doc
           all == local \o Materialize(anchors, Len(local))
           final == Finished(doc, all)
           wanted == Expected("fragment", doc)
           p == ParseAnchors(doc)
           x == Findings("g04_r2a", doc)
<1>1. /\ pc = "fragment_publish" /\ buffer' = Overwrite(buffer, final)
      /\ result' = [count |-> Len(final), clean |-> Clean(doc)]
      /\ status' = "OK" /\ arena' = arena /\ pc' = "idle" /\ call' = call /\ step' = step
  BY DEF FragmentPublish
<1>2. Running /\ Staged /\ FragmentStaged /\ CheckTypeOK
  BY <1>1 DEF CheckInvariant
<1>3. /\ call.entry = "fragment" /\ arena = "none" /\ doc.badByte = None /\ ~TooMuch
      /\ anchors = x /\ doc \in Documents /\ local = Materialize(p, 0)
  BY <1>1, <1>2 DEF Staged, FragmentStaged, FragmentSteps, Running
<1>4. /\ call.capacity \in Nat /\ Len(buffer) = call.capacity /\ DOMAIN buffer = 1 .. call.capacity
      /\ \A i \in 1 .. call.capacity : i > Len(local) => buffer[i] = Untouched
  BY <1>1, <1>2 DEF Running, FragmentStaged
<1>5. p \in Seq(Anchors(doc)) /\ x \in Seq(Anchors(doc)) /\ wanted = p \o x
  <2>1. p \in Seq(Anchors(doc)) /\ x \in Seq(Ruled(doc))
    BY <1>3, ParseFinds, GatesFind
  <2> QED BY <1>3, <2>1, ExpectedOfFragment, RuledAreAnchors
<1>6. Clean(doc) <=> \A i \in DOMAIN wanted : wanted[i].rule \notin {0, 1, 2}
  BY <1>3, CleanOfFragment
<1>7. /\ Required = Len(p) + Len(x) /\ Len(p) \in Nat /\ Len(x) \in Nat
      /\ Required <= call.capacity /\ Required = Len(wanted)
  BY <1>3, <1>4, FragmentFits DEF Required
<1> HIDE DEF all, wanted, p, x
<1>8. Lists(all, wanted, doc) /\ Len(local) = Len(p)
  <2>1. Lists(local, p, doc)
    BY <1>3, <1>5, MaterializedLists
  <2>2. Lists(all, p \o x, doc)
    BY <1>3, <1>5, <2>1, AppendedLists DEF all
  <2> QED BY <1>5, <2>1, <2>2 DEF Lists
<1>9. IsReport(final, wanted, doc) /\ Len(final) = Len(wanted)
  BY <1>3, <1>8, DocumentSizes, FinishedIsReport
<1> HIDE DEF final
<1>10. \A i \in 1 .. call.capacity : i > Len(final) => buffer[i] = Untouched
  <2> SUFFICES ASSUME NEW i \in 1 .. call.capacity, i > Len(final) PROVE buffer[i] = Untouched
    OBVIOUS
  <2>1. i > Len(local)
    BY <1>7, <1>8, <1>9
  <2> QED BY <1>4, <2>1
<1>11. Len(wanted) <= call.capacity
  BY <1>7
<1>12. Delivers(call.entry, doc, Overwrite(buffer, final), [count |-> Len(final), clean |-> Clean(doc)])
  BY <1>3, <1>4, <1>6, <1>9, <1>10, <1>11, ReportDelivers DEF wanted
<1>13. Delivers(call.entry, doc, buffer', result')
  BY <1>1, <1>12
<1>14. call.entry # "none" /\ arena' = "none"
  BY <1>1, <1>3
<1> QED BY <1>1, <1>2, <1>3, <1>13, <1>14, Answers

(* Between calls and while nothing is done nothing changes. *)
LEMMA StutterHolds ==
  ASSUME CheckInvariant, UNCHANGED checkVars
  PROVE  CheckInvariant'
BY DEF CheckInvariant, checkVars, CheckTypeOK, Idle, Fresh, TooMuch, Required, Deep, Running,
   Staged, Measured, Counts, Collected, FragmentStaged

LEMMA NextHolds ==
  ASSUME CheckInvariant, [CheckNext]_checkVars
  PROVE  CheckInvariant'
BY StutterHolds, CallHolds, RegionsHolds, ArenaHolds, PassFailsHolds, MeasureGroupHolds,
   ScratchHolds, LegacyBeginHolds, ParseHolds, G02Holds, MeasureGateHolds, CollectGateHolds,
   ExactHolds, ReportHolds, CollectGroupHolds, TotalHolds, PublishHolds, FragmentBeginHolds,
   FragmentCollectHolds, FragmentExactHolds, FragmentPublishHolds
   DEF CheckNext

(* The inductive invariant: what each pass of a call leaves to the next, and  *)
(* to the caller.                                                            *)
THEOREM CheckInvariantHolds == CheckSpec => []CheckInvariant
<1>1. CheckInit => CheckInvariant
  BY InitHolds
<1>2. CheckInvariant /\ [CheckNext]_checkVars => CheckInvariant'
  BY NextHolds
<1> QED BY <1>1, <1>2, PTL DEF CheckSpec

(* Answered calls in terms of the invariant. *)
LEMMA InvariantAnswers ==
  ASSUME CheckInvariant
  PROVE  WholeReportOrNothing /\ ReportIsComplete /\ RefusedOnlyWhenFull
<1> SUFFICES ASSUME Answered
             PROVE  WholeReportOrNothing /\ ReportIsComplete /\ RefusedOnlyWhenFull
  BY DEF WholeReportOrNothing, ReportIsComplete, RefusedOnlyWhenFull
<1>1. Idle /\ status # "none"
  BY DEF Answered, CheckInvariant
<1>2. WholeReportOrNothing
  <2>1. arena = "none"
    BY <1>1 DEF Idle
  <2>2. status # "OK" => result = Untouched /\ \A i \in DOMAIN buffer : buffer[i] = Untouched
    BY <1>1 DEF Idle
  <2>3. status = "OK" => /\ result.count <= Len(buffer)
                         /\ \A i \in DOMAIN buffer : buffer[i] = Untouched <=> i > result.count
    BY <1>1 DEF Idle, Delivers
  <2> QED BY <2>1, <2>2, <2>3 DEF WholeReportOrNothing
<1>3. RefusedOnlyWhenFull
  <2>1. status = "ENOSPC" => TooMuch
    BY <1>1 DEF Idle
  <2>2. status = "OK" => ~TooMuch
    BY <1>1 DEF Idle
  <2> QED BY <2>1, <2>2 DEF RefusedOnlyWhenFull, TooMuch, Deep
<1>4. ReportIsComplete
  <2> DEFINE doc == call.doc
             report == SubSeq(buffer, 1, result.count)
             wanted == Expected(call.entry, doc)
  <2> SUFFICES ASSUME status = "OK"
               PROVE  ReportIsComplete
    BY DEF ReportIsComplete
  <2>1. Delivers(call.entry, doc, buffer, result)
    BY <1>1 DEF Idle
  <2>2. result.count = Len(wanted)
    BY <2>1 DEF Delivers
  <2>3. SaysAll(report, wanted, doc)
    BY <2>1 DEF Delivers
  <2>4. result.clean <=> \A i \in DOMAIN wanted : wanted[i].rule \notin {0, 1, 2}
    BY <2>1 DEF Delivers
  <2> HIDE DEF report, wanted
  <2>5. /\ \A i \in DOMAIN wanted :
             Cardinality({j \in DOMAIN report : SameKind(report[j], wanted[i])})
               = Cardinality({j \in DOMAIN wanted : SameKind(wanted[j], wanted[i])})
        /\ \A i, j \in DOMAIN report : i < j =>
             /\ report[i].offset <= report[j].offset
             /\ report[i].offset = report[j].offset => report[i].rule <= report[j].rule
             /\ SameKind(report[i], report[j]) => report[i].sequence < report[j].sequence
        /\ \A i \in DOMAIN report :
             /\ report[i].line = 1 + Cardinality({n \in doc.newlines : n < report[i].offset})
             /\ report[i].column =
                  report[i].offset - Max({n \in doc.newlines : n < report[i].offset} \cup {-1})
    BY <2>3 DEF SaysAll
  <2> QED BY <2>2, <2>4, <2>5, Zenon DEF ReportIsComplete, report, wanted
<1> QED BY <1>2, <1>3, <1>4

(* The caller of a check sees a whole report or nothing, whichever pass of   *)
(* the call fails, and the arena of the call is gone with its answer.        *)
THEOREM WholeReportTheorem == CheckSpec => []WholeReportOrNothing
BY CheckInvariantHolds, InvariantAnswers, PTL

(* A report has every finding of every gate once, in order, each with the    *)
(* line and the column of its own offset.                                    *)
THEOREM CompleteTheorem == CheckSpec => []ReportIsComplete
BY CheckInvariantHolds, InvariantAnswers, PTL

(* The six places that look at a limit refuse a document only when its whole *)
(* report is more than there is room for, or when it is nested too deep.     *)
THEOREM RefusedTheorem == CheckSpec => []RefusedOnlyWhenFull
BY CheckInvariantHolds, InvariantAnswers, PTL
=============================================================================
