----------------------------- MODULE Profiling -----------------------------
(***************************************************************************)
(* PROFILE0, src/c/profile.c: a session over the caller's arrays of region *)
(* descriptors and aggregates, and tokens for spans that may nest and end  *)
(* in any order.                                                           *)
(*                                                                         *)
(* The guard of a session is the ids it was prepared with, that of a token *)
(* its own contents; arrays and objects do not overlap.  The clock is the  *)
(* caller's: it may fail, stand still and go backwards.  A token may be    *)
(* copied, but not back to the address it was begun at.                    *)
(***************************************************************************)
EXTENDS Integers, Sequences, FiniteSetsExt

CONSTANTS
  Ids,                \* what callers write into descriptors, 0 among them
  Capacity,           \* of the arrays of descriptors and aggregates
  Tokens,             \* objects that can hold a token
  Times,              \* what the clock returns, negative when it fails
  MaxU64,             \* UINT64_MAX
  MaxSpans            \* bound: spans begun

ASSUME ProfilingAssumption ==
  /\ Ids \subseteq Nat /\ 0 \in Ids /\ Capacity \in Nat \ {0} /\ Times \subseteq Int
  /\ {MaxU64, MaxSpans} \subseteq Nat

VARIABLES
  descriptors, aggregates, \* the caller's arrays
  session,                 \* the ids it was prepared with, none before
  tokens,
  ret,
  begun, samples, dropped  \* history: spans begun, those each aggregate holds,
                           \* those the caller gave up

vars == <<descriptors, aggregates, session, tokens, ret, begun, samples, dropped>>

Empty == [count |-> 0, total |-> 0, min |-> 0, max |-> 0]

\* All zero bytes; span tells, for the history, whose the contents are.
Zero == [active |-> FALSE, region |-> 0, start |-> 0, identity |-> "nobody", span |-> 0]

Aggregate == [count : 0 .. MaxU64, total : 0 .. MaxU64, min : 0 .. MaxU64, max : 0 .. MaxU64]

TypeOK ==
  /\ descriptors \in [1 .. Capacity -> Ids] /\ aggregates \in [1 .. Capacity -> Aggregate]
  /\ Len(session) <= Capacity /\ begun \in 0 .. MaxSpans
  /\ \A t \in Tokens : tokens[t] = Zero \/ tokens[t].span \in 1 .. begun

Init ==
  /\ descriptors = [r \in 1 .. Capacity |-> 0]
  /\ aggregates = [r \in 1 .. Capacity |-> Empty]
  /\ session = <<>> /\ tokens = [t \in Tokens |-> Zero] /\ ret = "none"
  /\ begun = 0 /\ samples = [r \in 1 .. Capacity |-> {}] /\ dropped = {}
-----------------------------------------------------------------------------
(***************************************************************************)
(* The session                                                             *)
(***************************************************************************)
Spans(r) == {sample.span : sample \in samples[r]}

\* The first regions lose what they counted.
ZeroAggregates(count) ==
  /\ aggregates' = [r \in 1 .. Capacity |-> IF r <= count THEN Empty ELSE aggregates[r]]
  /\ samples' = [r \in 1 .. Capacity |-> IF r <= count THEN {} ELSE samples[r]]
  /\ dropped' = dropped \union UNION {Spans(r) : r \in 1 .. count}

\* profile_region_ids_valid
IdsValid(ids) ==
  /\ \A r \in DOMAIN ids : ids[r] # 0
  /\ \A q, r \in DOMAIN ids : ids[q] = ids[r] => q = r

\* arbor_profile_session_prepare, also over a session in use.
Prepare(count) ==
  LET ids == SubSeq(descriptors, 1, count)
  IN IF count # 0 /\ IdsValid(ids)
     THEN /\ session' = ids /\ ret' = "ok" /\ ZeroAggregates(count)
          /\ UNCHANGED <<descriptors, tokens, begun>>
     ELSE ret' = "einval"
          /\ UNCHANGED <<descriptors, aggregates, session, tokens, begun, samples, dropped>>

\* profile_session_runtime_validate
SessionValid ==
  LET ids == SubSeq(descriptors, 1, Len(session))
  IN session # <<>> /\ IdsValid(ids) /\ ids = session

\* arbor_profile_session_reset
Reset ==
  IF SessionValid
  THEN /\ ret' = "ok" /\ ZeroAggregates(Len(session))
       /\ UNCHANGED <<descriptors, session, tokens, begun>>
  ELSE ret' = "einval"
       /\ UNCHANGED <<descriptors, aggregates, session, tokens, begun, samples, dropped>>
\* arbor_profile_region_get
RegionGet(r) ==
  IF SessionValid /\ r <= Len(session)
  THEN [status |-> "ok", id |-> descriptors[r], aggregate |-> aggregates[r]]
  ELSE [status |-> "einval"]
-----------------------------------------------------------------------------
(***************************************************************************)
(* Spans                                                                   *)
(***************************************************************************)
Fail(status) ==
  /\ ret' = status
  /\ UNCHANGED <<descriptors, aggregates, session, tokens, begun, samples, dropped>>

\* arbor_profile_span_begin, with what the clock returns.
Begin(t, region, now) ==
  /\ begun < MaxSpans
  /\ IF ~ SessionValid \/ region > Len(session) \/ tokens[t] # Zero THEN Fail("einval")
     ELSE IF now < 0 THEN Fail("clock")
          ELSE /\ tokens' = [tokens EXCEPT ![t] =
                    [active |-> TRUE, region |-> region, start |-> now, identity |-> t,
                     span |-> begun + 1]]
               /\ begun' = begun + 1 /\ ret' = "ok"
               /\ UNCHANGED <<descriptors, aggregates, session, samples, dropped>>

\* Mutant: a token is good wherever it lies.
TokenValidAnywhere(t) ==
  tokens[t].active /\ SessionValid /\ tokens[t].region <= Len(session)

\* profile_span_runtime_validate
TokenValid(t) ==
  /\ tokens[t].active /\ tokens[t].identity = t
  /\ SessionValid /\ tokens[t].region <= Len(session)

\* The aggregate with one more duration in it.
Counted(a, ns) ==
  [count |-> a.count + 1, total |-> a.total + ns,
   min |-> IF a.count = 0 \/ ns < a.min THEN ns ELSE a.min,
   max |-> IF a.count = 0 \/ ns > a.max THEN ns ELSE a.max]

\* arbor_profile_span_end
EndStatus(t, now) ==
  CASE ~ TokenValid(t) -> "einval"
    [] TokenValid(t) /\ now < 0 -> "clock"
    [] TokenValid(t) /\ now \in 0 .. tokens[t].start - 1 -> "erange"
    [] OTHER ->
         LET sum == Counted(aggregates[tokens[t].region], now - tokens[t].start)
         IN IF sum.count > MaxU64 \/ sum.total > MaxU64 THEN "eoverflow" ELSE "ok"

End(t, now) ==
  LET token == tokens[t]
      ns == now - token.start
  IN IF EndStatus(t, now) # "ok" THEN Fail(EndStatus(t, now))
     ELSE /\ aggregates' = [aggregates EXCEPT ![token.region] = Counted(@, ns)]
          /\ samples' = [samples EXCEPT ![token.region] = @ \union {[span |-> token.span, ns |-> ns]}]
          /\ tokens' = [tokens EXCEPT ![t] = Zero] /\ ret' = "ok"
          /\ UNCHANGED <<descriptors, session, begun, dropped>>
-----------------------------------------------------------------------------
(***************************************************************************)
(* The caller's own memory                                                 *)
(***************************************************************************)
Describe(r, id) ==
  /\ descriptors' = [descriptors EXCEPT ![r] = id]
  /\ UNCHANGED <<aggregates, session, tokens, ret, begun, samples, dropped>>

Copy(from, to) ==
  /\ tokens[from].active /\ tokens[to] = Zero /\ tokens[from].identity # to
  /\ tokens' = [tokens EXCEPT ![to] = tokens[from]]
  /\ UNCHANGED <<descriptors, aggregates, session, ret, begun, samples, dropped>>

Original(t) == tokens[t].active /\ tokens[t].identity = t

Clear(t) ==
  /\ tokens[t].active /\ tokens' = [tokens EXCEPT ![t] = Zero]
  /\ dropped' = IF Original(t) THEN dropped \union {tokens[t].span} ELSE dropped
  /\ UNCHANGED <<descriptors, aggregates, session, ret, begun, samples>>

Next ==
  \/ \E count \in 0 .. Capacity : Prepare(count)
  \/ Reset
  \/ \E r \in 1 .. Capacity, id \in Ids : Describe(r, id)
  \/ \E t \in Tokens :
       \/ Clear(t)
       \/ \E to \in Tokens : Copy(t, to)
       \/ \E now \in Times : End(t, now) \/ \E r \in 1 .. Capacity : Begin(t, r, now)

Spec == Init /\ [][Next]_vars
-----------------------------------------------------------------------------
(***************************************************************************)
(* Properties                                                              *)
(***************************************************************************)
Durations(r) == {sample.ns : sample \in samples[r]}

Summary(r) ==
  IF samples[r] = {} THEN Empty
  ELSE [count |-> Cardinality(samples[r]),
        total |-> MapThenSumSet(LAMBDA sample : sample.ns, samples[r]),
        min |-> Min(Durations(r)), max |-> Max(Durations(r))]

\* Nothing is counted twice and nothing is lost: every span that began is open
\* in the token it began in, or in one aggregate, or was given up by the caller,
\* whatever copies there are of its token and however often its end failed; and
\* the aggregates say of their samples what they are meant to say.  What region_get
\* reads out is that of the region the session was prepared with, or nothing.
SpansAreAccounted ==
  LET open == {tokens[t].span : t \in {u \in Tokens : Original(u)}}
      sampled == UNION {Spans(r) : r \in 1 .. Capacity}
  IN /\ 1 .. begun = open \union sampled \union dropped
     /\ open \intersect (sampled \union dropped) = {} /\ sampled \intersect dropped = {}
     /\ \A q, r \in 1 .. Capacity : q # r => Spans(q) \intersect Spans(r) = {}
     /\ \A r \in 1 .. Capacity : aggregates[r] = Summary(r)
     /\ \A r \in DOMAIN session :
          RegionGet(r).status = "ok" =>
            RegionGet(r) = [status |-> "ok", id |-> session[r], aggregate |-> Summary(r)]
=============================================================================
