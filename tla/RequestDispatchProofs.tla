----------------------- MODULE RequestDispatchProofs -----------------------
(***************************************************************************)
(* The proofs about what serves a request.                                 *)
(*                                                                         *)
(* RequestDispatch, for every application, traffic and capacity: the       *)
(* sidecar of the response fields belongs to the request at work, and so   *)
(* do the fields that are sent, whatever callbacks append, mark and        *)
(* rewind; a request gets the first route that agrees with it and that     *)
(* route's parameters; and its callbacks are an onion.                     *)
(*                                                                         *)
(* ViewOutput, for every arena, templates and texts: the memory of chunks, *)
(* committed bodies and outputs at work stays theirs.                      *)
(***************************************************************************)
EXTENDS RequestDispatch, ViewOutput, LibraryFacts, FiniteSetTheorems, SequenceTheorems, TLAPS
-----------------------------------------------------------------------------
(***************************************************************************)
(* The invariant                                                           *)
(***************************************************************************)

(* Fields appended by request n, the last of them not after its append "last". *)
Own(flds, n, last) ==
  /\ \A i \in 1 .. Len(flds) : flds[i].request = n /\ flds[i].id <= last
  /\ \A i, j \in 1 .. Len(flds) : i < j => flds[i].id < flds[j].id

Mark == [request : Nat, fields : Seq(Field), undercut : BOOLEAN]

SidecarTypes ==
  /\ served \in Nat /\ issued \in Nat
  /\ fields \in Seq(Field) /\ Len(fields) <= FieldCapacity
  /\ mark \in Mark /\ output.fields \in Seq(Field)

MarkStands == mark.request = served /\ ~mark.undercut => IsPrefix(mark.fields, fields)

SidecarInvariant ==
  /\ SidecarTypes
  /\ Own(fields, served, issued)
  /\ Own(output.fields, served, issued)
  /\ MarkStands

(* The parts of the invariant are the property. *)
LEMMA InvariantSays == SidecarInvariant => FieldsBelongToRequest
BY DEF SidecarInvariant, FieldsBelongToRequest, Own, MarkStands
-----------------------------------------------------------------------------
(***************************************************************************)
(* Sequences of fields                                                     *)
(***************************************************************************)

(* A prefix, element by element. *)
LEMMA PrefixIsPointwise ==
  ASSUME NEW S, NEW s \in Seq(S), NEW t \in Seq(S)
  PROVE  IsPrefix(s, t) <=> Len(s) <= Len(t) /\ \A i \in 1 .. Len(s) : s[i] = t[i]
<1>1. Len(s) \in Nat /\ Len(t) \in Nat
  OBVIOUS
<1>2. /\ \A i \in 1 .. Len(s) : s[i] \in S
      /\ \A i \in 1 .. Len(t) : t[i] \in S
  OBVIOUS
<1>3. /\ SubSeq(s, 1, Len(s)) \in Seq(S) /\ Len(SubSeq(s, 1, Len(s))) = Len(s)
      /\ \A i \in 1 .. Len(s) : SubSeq(s, 1, Len(s))[i] = s[i]
  BY <1>1, <1>2, SubSeqProperties
<1>4. ASSUME Len(s) <= Len(t)
      PROVE  /\ SubSeq(t, 1, Len(s)) \in Seq(S) /\ Len(SubSeq(t, 1, Len(s))) = Len(s)
             /\ \A i \in 1 .. Len(s) : SubSeq(t, 1, Len(s))[i] = t[i]
  <2>1. \A i \in 1 .. Len(s) : t[i] \in S
    BY <1>1, <1>2, <1>4
  <2> QED BY <2>1, <1>1, SubSeqProperties
<1>5. ASSUME Len(s) <= Len(t), \A i \in 1 .. Len(s) : s[i] = t[i]
      PROVE  SubSeq(s, 1, Len(s)) = SubSeq(t, 1, Len(s))
  BY <1>3, <1>4, <1>5, SeqEqual
<1>6. ASSUME Len(s) <= Len(t), SubSeq(s, 1, Len(s)) = SubSeq(t, 1, Len(s))
      PROVE  \A i \in 1 .. Len(s) : s[i] = t[i]
  BY <1>3, <1>4, <1>6
<1> QED BY <1>5, <1>6 DEF IsPrefix

(* What one more append leaves. *)
LEMMA OwnGrows ==
  ASSUME NEW flds \in Seq(Field), NEW n \in Nat, NEW last \in Nat, NEW f \in Field,
         Own(flds, n, last), f.request = n, f.id = last + 1
  PROVE  Append(flds, f) \in Seq(Field) /\ Own(Append(flds, f), n, last + 1)
<1> DEFINE more == Append(flds, f)
<1>1. /\ more \in Seq(Field) /\ Len(more) = Len(flds) + 1 /\ Len(flds) \in Nat
      /\ more[Len(flds) + 1] = f
      /\ \A i \in 1 .. Len(flds) : more[i] = flds[i] /\ flds[i] \in Field
  OBVIOUS
<1>2. \A i \in 1 .. Len(flds) : flds[i].id \in Nat
  BY <1>1 DEF Field
<1> HIDE DEF more
<1>3. \A i \in 1 .. Len(more) : i \in 1 .. Len(flds) \/ i = Len(flds) + 1
  BY <1>1
<1>4. \A i \in 1 .. Len(more) : more[i].request = n /\ more[i].id <= last + 1
  BY <1>1, <1>2, <1>3 DEF Own
<1>5. ASSUME NEW i \in 1 .. Len(more), NEW j \in 1 .. Len(more), i < j
      PROVE  more[i].id < more[j].id
  <2>1. i \in 1 .. Len(flds)
    BY <1>1, <1>5
  <2>2. CASE j \in 1 .. Len(flds)
    BY <2>1, <2>2, <1>1, <1>5 DEF Own
  <2>3. CASE j = Len(flds) + 1
    BY <2>1, <2>3, <1>1, <1>2 DEF Own
  <2> QED BY <2>2, <2>3, <1>3
<1>6. Own(more, n, last + 1)
  BY <1>4, <1>5 DEF Own
<1> QED BY <1>1, <1>6 DEF more

(* What is appended later does not touch what there is. *)
LEMMA OwnLasts ==
  ASSUME NEW flds \in Seq(Field), NEW n \in Nat, NEW last \in Nat, Own(flds, n, last)
  PROVE  Own(flds, n, last + 1)
<1>1. \A i \in 1 .. Len(flds) : flds[i] \in Field
  OBVIOUS
<1>2. \A i \in 1 .. Len(flds) : flds[i].id \in Nat
  BY <1>1 DEF Field
<1> QED BY <1>2 DEF Own

LEMMA OwnEmpty ==
  ASSUME NEW n, NEW last
  PROVE  <<>> \in Seq(Field) /\ Own(<<>>, n, last)
BY DEF Own

(* A rewind keeps the first fields. *)
LEMMA FirstFields ==
  ASSUME NEW flds \in Seq(Field), NEW count \in Nat, count <= Len(flds)
  PROVE  /\ SubSeq(flds, 1, count) \in Seq(Field) /\ Len(SubSeq(flds, 1, count)) = count
         /\ \A i \in 1 .. count : SubSeq(flds, 1, count)[i] = flds[i]
<1>1. \A i \in 1 .. count : flds[i] \in Field
  OBVIOUS
<1> QED BY <1>1, SubSeqProperties

LEMMA OwnShrinks ==
  ASSUME NEW flds \in Seq(Field), NEW count \in Nat, count <= Len(flds),
         NEW n, NEW last, Own(flds, n, last)
  PROVE  Own(SubSeq(flds, 1, count), n, last)
<1>1. \A i \in 1 .. count : i \in 1 .. Len(flds)
  OBVIOUS
<1> QED BY <1>1, FirstFields DEF Own
-----------------------------------------------------------------------------
(***************************************************************************)
(* What a step sends                                                       *)
(***************************************************************************)

(* No callback starts with a response under way. *)
LEMMA RunSendsNothing ==
  ASSUME NEW callback, NEW i, Run(callback, i)
  PROVE  output'.fields = <<>>
BY DEF Run, Empty

LEMMA InwardSendsNothing ==
  ASSUME NEW list, NEW middlewares, NEW i, Inward(list, middlewares, i)
  PROVE  output'.fields = <<>>
BY RunSendsNothing DEF Inward

LEMMA FailSendsNothing ==
  ASSUME NEW status, Fail(status)
  PROVE  output'.fields = <<>>
BY DEF Fail, Empty

(* A response has the fields it was given, if it is sent. *)
LEMMA RespondSends ==
  ASSUME NEW req, NEW plan, NEW flds, Respond(req, plan, flds)
  PROVE  output'.fields \in {flds, <<>>}
<1>1. PICK capacity \in Capacities :
        Answer(Response(plan, flds),
               Serialize(req.method, req.connection, Response(plan, flds), capacity))
  BY DEF Respond
<1>2. output' \in {Sent(Response(plan, flds),
                        Serialize(req.method, req.connection, Response(plan, flds), capacity)),
                   Empty}
  BY <1>1 DEF Answer
<1> QED BY <1>2 DEF Sent, Response, Empty

LEMMA OutwardSends ==
  ASSUME NEW n, NEW plan, Outward(n, plan)
  PROVE  output'.fields \in {fields, <<>>}
BY RespondSends, RunSendsNothing DEF Outward

(* Until its first callback a request has no fields to send. *)
LEMMA EnterSendsNothing ==
  ASSUME NEW req, EnterMvc(req)
  PROVE  output'.fields = <<>>
<1> DEFINE routes == application.catalog.routes
           hits == {i \in 1 .. Len(routes) : Verdict(req, i) # "nomatch"}
           hit == FirstHit(hits)
           routed == hits # {} /\ Verdict(req, hit) = "match"
<1>1. \/ Inward(routes[hit].list, application.catalog.middlewares, 1)
      \/ Respond(req, NotFound, <<>>)
      \/ Fail(Verdict(req, hit))
  BY DEF EnterMvc
<1> HIDE DEF hit, routes
<1> QED BY <1>1, InwardSendsNothing, RespondSends, FailSendsNothing

LEMMA DispatchSendsNothing ==
  ASSUME NEW req, Dispatch(req)
  PROVE  output'.fields = <<>>
<1>1. Respond(req, BadRequest, <<>>) \/ Fail("einval") \/ EnterMvc(req) \/ Fail("enospc")
  BY DEF Dispatch
<1> QED BY <1>1, RespondSends, FailSendsNothing, EnterSendsNothing

LEMMA UndispatchedSendsNothing ==
  ASSUME NEW text, NEW status, Undispatched(text, status)
  PROVE  output'.fields = <<>>
BY FailSendsNothing DEF Undispatched

LEMMA ArriveSendsNothing ==
  ASSUME NEW text, Arrive(text)
  PROVE  output'.fields = <<>>
<1> DEFINE verdict == FrameScan(text, 1).verdict
           parsed == ParseRequest(text)
<1>1. Parsed(text, parsed) \/ Undispatched(text, verdict)
  BY DEF Arrive
<1>2. Parsed(text, parsed) =>
        \/ Dispatch(Understood(text, parsed, WalkHeaders(parsed.headers)))
        \/ Undispatched(text, parsed.status)
  BY DEF Parsed
<1> HIDE DEF verdict, parsed
<1> QED BY <1>1, <1>2, DispatchSendsNothing, UndispatchedSendsNothing
-----------------------------------------------------------------------------
(***************************************************************************)
(* Every step keeps the invariant                                          *)
(***************************************************************************)

(* A new request clears the sidecar: nothing of the last one is left. *)
LEMMA ArriveKeeps ==
  ASSUME SidecarInvariant, NEW text, Arrive(text)
  PROVE  SidecarInvariant'
<1>1. /\ served' = served + 1 /\ issued' = 0 /\ fields' = <<>> /\ mark' = NoMark
  BY DEF Arrive, FreshFields
<1>2. output'.fields = <<>>
  BY ArriveSendsNothing
<1>3. SidecarTypes'
  BY <1>1, <1>2, OwnEmpty, RequestDispatchAssumption
     DEF SidecarInvariant, SidecarTypes, Mark, NoMark
<1>4. Own(fields, served, issued)' /\ Own(output.fields, served, issued)'
  BY <1>1, <1>2, OwnEmpty DEF Own
<1>5. MarkStands'
  BY <1>1 DEF MarkStands, NoMark
<1> QED BY <1>3, <1>4, <1>5 DEF SidecarInvariant

(* A callback that returns leaves the sidecar alone; what is sent, if        *)
(* anything, is all of it.                                                   *)
LEMMA ReturnKeeps ==
  ASSUME SidecarInvariant, served' = served, UNCHANGED sidecar,
         output'.fields \in {fields, <<>>}
  PROVE  SidecarInvariant'
<1>1. fields' = fields /\ issued' = issued /\ mark' = mark
  BY DEF sidecar
<1>2. SidecarTypes'
  BY <1>1, OwnEmpty DEF SidecarInvariant, SidecarTypes
<1>3. Own(fields, served, issued)'
  BY <1>1 DEF SidecarInvariant, Own
<1>4. Own(output.fields, served, issued)'
  <2>1. CASE output'.fields = fields
    BY <2>1, <1>1 DEF SidecarInvariant, Own
  <2>2. CASE output'.fields = <<>>
    BY <2>2, OwnEmpty DEF Own
  <2> QED BY <2>1, <2>2
<1>5. MarkStands'
  BY <1>1 DEF SidecarInvariant, MarkStands
<1> QED BY <1>2, <1>3, <1>4, <1>5 DEF SidecarInvariant

LEMMA FrameKeeps ==
  ASSUME SidecarInvariant, served' = served, UNCHANGED sidecar, UNCHANGED output
  PROVE  SidecarInvariant'
<1>1. fields' = fields /\ issued' = issued /\ mark' = mark /\ output' = output
  BY DEF sidecar
<1> QED BY <1>1 DEF SidecarInvariant, SidecarTypes, Own, MarkStands

LEMMA CallbackReturns ==
  ASSUME SidecarInvariant, UNCHANGED <<routing, sidecar>>,
         \/ CallbackFails \/ BeforeContinues \/ ControllerReturns
         \/ \E plan \in Responses : BeforeResponds(plan) \/ PresenterReturns(plan)
                                    \/ AfterReturns(plan)
  PROVE  SidecarInvariant'
<1>1. output'.fields \in {fields, <<>>}
  <2>1. CASE CallbackFails
    BY <2>1, FailSendsNothing DEF CallbackFails
  <2>2. CASE BeforeContinues
    BY <2>2, InwardSendsNothing DEF BeforeContinues
  <2>3. CASE ControllerReturns
    BY <2>3, RunSendsNothing DEF ControllerReturns
  <2>4. ASSUME NEW plan, BeforeResponds(plan) \/ PresenterReturns(plan) \/ AfterReturns(plan)
        PROVE  output'.fields \in {fields, <<>>}
    <3>1. Fail("einval") \/ \E n : Outward(n, plan)
      BY <2>4 DEF BeforeResponds, PresenterReturns, AfterReturns
    <3> QED BY <3>1, FailSendsNothing, OutwardSends
  <2> QED BY <2>1, <2>2, <2>3, <2>4
<1>2. served' = served /\ UNCHANGED sidecar
  BY DEF routing
<1> QED BY <1>1, <1>2, ReturnKeeps

(* A field is numbered after all before it; what was there stays in front. *)
LEMMA AppendKeeps ==
  ASSUME SidecarInvariant, NEW line \in FieldLines, FieldAppend(line)
  PROVE  SidecarInvariant'
<1>1. served' = served /\ mark' = mark /\ output' = output
  BY DEF FieldAppend, routing
<1>2. CASE UNCHANGED <<fields, issued>>
  BY <1>1, <1>2, FrameKeeps DEF sidecar
<1>3. CASE ~ UNCHANGED <<fields, issued>>
  <2> DEFINE f == [request |-> served, id |-> issued + 1,
                   name |-> line.name, value |-> line.value]
  <2>1. /\ fields' = Append(fields, f) /\ issued' = issued + 1
        /\ Len(fields) < FieldCapacity
    <3>1. FieldAllowed(line) /\ ~(Len(fields) >= FieldCapacity)
      BY <1>3 DEF FieldAppend
    <3>2. Len(fields) \in Nat /\ FieldCapacity \in Nat
      BY RequestDispatchAssumption DEF SidecarInvariant, SidecarTypes
    <3> QED BY <3>1, <3>2 DEF FieldAppend
  <2>2. f \in Field /\ f.request = served /\ f.id = issued + 1
    BY RequestDispatchAssumption DEF SidecarInvariant, SidecarTypes, Field
  <2> HIDE DEF f
  <2>3. /\ fields \in Seq(Field) /\ served \in Nat /\ issued \in Nat /\ mark \in Mark
        /\ output.fields \in Seq(Field) /\ MarkStands
        /\ Own(fields, served, issued) /\ Own(output.fields, served, issued)
    BY DEF SidecarInvariant, SidecarTypes
  <2>4. Append(fields, f) \in Seq(Field) /\ Own(Append(fields, f), served, issued + 1)
    BY <2>2, <2>3, OwnGrows
  <2>5. Own(output.fields, served, issued + 1)
    BY <2>3, OwnLasts
  <2>6. /\ Len(Append(fields, f)) = Len(fields) + 1 /\ Len(fields) \in Nat
        /\ \A i \in 1 .. Len(fields) : Append(fields, f)[i] = fields[i]
    BY <2>2, <2>3
  <2>7. SidecarTypes'
    <3>1. Len(fields') <= FieldCapacity
      <4>1. FieldCapacity \in Nat
        BY RequestDispatchAssumption
      <4>2. Len(fields') = Len(fields) + 1
        BY <2>1, <2>6
      <4> QED BY <4>1, <4>2, <2>1, <2>6
    <3> QED BY <3>1, <1>1, <2>1, <2>3, <2>4 DEF SidecarTypes
  <2>8. Own(fields, served, issued)' /\ Own(output.fields, served, issued)'
    BY <1>1, <2>1, <2>4, <2>5 DEF Own
  <2>9. MarkStands'
    <3>1. mark.fields \in Seq(Field)
      BY <2>3 DEF Mark
    <3>2. IsPrefix(mark.fields, fields) => IsPrefix(mark.fields, Append(fields, f))
      <4>1. SUFFICES ASSUME IsPrefix(mark.fields, fields)
                     PROVE  IsPrefix(mark.fields, Append(fields, f))
        OBVIOUS
      <4>2. /\ Len(mark.fields) \in Nat /\ Len(mark.fields) <= Len(fields)
            /\ \A i \in 1 .. Len(mark.fields) : mark.fields[i] = fields[i]
        BY <4>1, <3>1, <2>3, PrefixIsPointwise
      <4>3. /\ Len(mark.fields) <= Len(Append(fields, f))
            /\ \A i \in 1 .. Len(mark.fields) : mark.fields[i] = Append(fields, f)[i]
        BY <4>2, <2>6
      <4> QED BY <4>3, <3>1, <2>4, PrefixIsPointwise
    <3> QED BY <3>2, <1>1, <2>1, <2>3 DEF MarkStands
  <2> QED BY <2>7, <2>8, <2>9 DEF SidecarInvariant
<1> QED BY <1>2, <1>3

LEMMA MarkKeeps ==
  ASSUME SidecarInvariant, FieldsMark
  PROVE  SidecarInvariant'
<1>1. /\ served' = served /\ fields' = fields /\ issued' = issued /\ output' = output
      /\ mark' = [request |-> served, fields |-> fields, undercut |-> FALSE]
  BY DEF FieldsMark, routing
<1>2. fields \in Seq(Field) /\ served \in Nat
  BY DEF SidecarInvariant, SidecarTypes
<1>3. IsPrefix(fields, fields)
  BY <1>2, PrefixIsPointwise
<1>4. SidecarTypes'
  BY <1>1, <1>2 DEF SidecarInvariant, SidecarTypes, Mark
<1>5. MarkStands'
  BY <1>1, <1>3 DEF MarkStands
<1>6. Own(fields, served, issued)' /\ Own(output.fields, served, issued)'
  BY <1>1 DEF SidecarInvariant, Own
<1> QED BY <1>4, <1>5, <1>6 DEF SidecarInvariant

(* A rewind that is not below the mark leaves the marked fields in front. *)
LEMMA RewindKeeps ==
  ASSUME SidecarInvariant, NEW count \in 0 .. FieldCapacity, FieldsRewind(count)
  PROVE  SidecarInvariant'
<1>1. served' = served /\ issued' = issued /\ output' = output
  BY DEF FieldsRewind, routing
<1>2. /\ fields \in Seq(Field) /\ Len(fields) \in Nat /\ FieldCapacity \in Nat /\ count \in Nat
      /\ Len(fields) <= FieldCapacity /\ mark \in Mark
      /\ Own(fields, served, issued) /\ Own(output.fields, served, issued) /\ MarkStands
  BY RequestDispatchAssumption DEF SidecarInvariant, SidecarTypes
<1>3. CASE count > Len(fields)
  <2>1. UNCHANGED sidecar
    BY <1>1, <1>3 DEF FieldsRewind, sidecar
  <2> QED BY <2>1, <1>1, FrameKeeps
<1>4. CASE ~(count > Len(fields))
  <2>1. /\ fields' = SubSeq(fields, 1, count)
        /\ mark' = [mark EXCEPT !.undercut = @ \/ count < Len(mark.fields)]
    BY <1>4 DEF FieldsRewind
  <2>2. count <= Len(fields)
    BY <1>2, <1>4
  <2>3. /\ fields' \in Seq(Field) /\ Len(fields') = count
        /\ \A i \in 1 .. count : fields'[i] = fields[i]
    BY <1>2, <2>1, <2>2, FirstFields
  <2>4. /\ mark'.fields = mark.fields /\ mark'.request = mark.request
        /\ mark'.undercut <=> (mark.undercut \/ count < Len(mark.fields))
        /\ mark' \in Mark
    BY <1>2, <2>1 DEF Mark
  <2>5. SidecarTypes'
    BY <1>1, <1>2, <2>2, <2>3, <2>4 DEF SidecarInvariant, SidecarTypes
  <2>6. Own(fields, served, issued)'
    BY <1>1, <1>2, <2>1, <2>2, OwnShrinks DEF Own
  <2>7. Own(output.fields, served, issued)'
    BY <1>1, <1>2 DEF Own
  <2>8. MarkStands'
    <3>1. SUFFICES ASSUME mark'.request = served', ~mark'.undercut
                   PROVE  IsPrefix(mark'.fields, fields')
      BY DEF MarkStands
    <3>2. mark.fields \in Seq(Field) /\ Len(mark.fields) \in Nat
      BY <1>2 DEF Mark
    <3>3. IsPrefix(mark.fields, fields) /\ Len(mark.fields) <= count
      BY <3>1, <3>2, <1>1, <1>2, <2>4 DEF MarkStands
    <3>4. \A i \in 1 .. Len(mark.fields) : mark.fields[i] = fields[i]
      BY <3>2, <3>3, <1>2, PrefixIsPointwise
    <3>5. \A i \in 1 .. Len(mark.fields) : mark.fields[i] = fields'[i]
      BY <3>2, <3>3, <3>4, <2>3, <1>2
    <3>6. IsPrefix(mark.fields, fields')
      BY <3>2, <3>3, <3>5, <2>3, PrefixIsPointwise
    <3> QED BY <3>6, <2>4
  <2> QED BY <2>5, <2>6, <2>7, <2>8 DEF SidecarInvariant
<1> QED BY <1>3, <1>4
-----------------------------------------------------------------------------
(***************************************************************************)
(* The invariant of the routing and of the callbacks                       *)
(***************************************************************************)

RouteEntry == [method : Seq(STRING), pattern : Seq(Seq(STRING)), list : Seq(Nat)]

AnyPlan == {NoPlan} \union UNION {Plans[c] : c \in Catalogs}

Entry == [call : {"before", "controller", "presenter", "after"} \X Nat, plan : AnyPlan]

Calls == {entry.call : entry \in Range(trace)}

(* A catalog is at work only when its patterns were found well formed and  *)
(* the parameters of all of them counted; before, nothing is served.       *)
ApplicationPrepared ==
  /\ application.ready =>
       /\ application.catalog \in Catalogs
       /\ \A r \in Range(application.catalog.routes) : SelfMatches(r)
       /\ application.maxParams = MaxParams(application.catalog.routes)
  /\ ~application.ready => request = NoRequest /\ route = 0 /\ pc = "idle"

HistoryTypes ==
  /\ trace \in Seq(Entry) /\ at \in Nat
  /\ pc \in {"idle", "before", "controller", "presenter", "after"}

(* No call is one of a middleware outside of the route's list. *)
CallsInList == route # 0 => \A call \in Calls : call[2] \in 0 .. Len(List)

(* A running callback is a layer of the onion, and exactly the layers      *)
(* outside of it have been passed; no middleware has responded on the way  *)
(* in.                                                                     *)
RunningInside ==
  pc # "idle" =>
    /\ route # 0 /\ output = Empty
    /\ <<pc, at>> \in Expected
    /\ Calls = {call \in Expected : Place(call) < Place(<<pc, at>>)}
    /\ pc # "after" => Early = {}

CallbackInvariant ==
  /\ ApplicationPrepared
  /\ HistoryTypes
  /\ route \in 0 .. Len(application.catalog.routes)
  /\ RouteIsFirstMatch
  /\ CallsInList
  /\ RunningInside
  /\ TraceIsOnion
-----------------------------------------------------------------------------
(***************************************************************************)
(* Counting parameters                                                     *)
(***************************************************************************)

(* Of the first n segments, one more for each that is a parameter. *)
LEMMA CountIsNatural ==
  ASSUME NEW pattern, NEW n \in Nat
  PROVE  /\ IsFiniteSet({i \in 1 .. n : pattern[i] \in Parameters})
         /\ CountParams(pattern, n) \in Nat
<1>1. IsFiniteSet(1 .. n)
  BY FS_Interval
<1>2. {i \in 1 .. n : pattern[i] \in Parameters} \in SUBSET (1 .. n)
  OBVIOUS
<1>3. IsFiniteSet({i \in 1 .. n : pattern[i] \in Parameters})
  BY <1>1, <1>2, FS_Subset
<1> QED BY <1>3, FS_CardinalityType DEF CountParams

LEMMA CountGrows ==
  ASSUME NEW pattern, NEW m \in Nat, NEW n \in Nat, m <= n
  PROVE  CountParams(pattern, m) <= CountParams(pattern, n)
<1> DEFINE upto(k) == {i \in 1 .. k : pattern[i] \in Parameters}
<1>1. IsFiniteSet(upto(n)) /\ upto(m) \in SUBSET upto(n)
  BY CountIsNatural
<1>2. Cardinality(upto(m)) <= Cardinality(upto(n))
  BY <1>1, FS_Subset
<1> QED BY <1>2 DEF CountParams

LEMMA CountNext ==
  ASSUME NEW pattern, NEW n \in Nat \ {0}, pattern[n] \in Parameters
  PROVE  CountParams(pattern, n) = CountParams(pattern, n - 1) + 1
<1> DEFINE upto(k) == {i \in 1 .. k : pattern[i] \in Parameters}
<1>1. n - 1 \in Nat /\ IsFiniteSet(upto(n - 1))
  BY CountIsNatural
<1>2. upto(n) = upto(n - 1) \union {n} /\ n \notin upto(n - 1)
  OBVIOUS
<1>3. Cardinality(upto(n - 1) \union {n}) = Cardinality(upto(n - 1)) + 1
  <2> HIDE DEF upto
  <2> QED BY <1>1, <1>2, FS_AddElement
<1>4. Cardinality(upto(n)) = Cardinality(upto(n - 1)) + 1
  <2> HIDE DEF upto
  <2> QED BY <1>2, <1>3
<1> QED BY <1>4 DEF CountParams

LEMMA CountIsBounded ==
  ASSUME NEW pattern, NEW n \in Nat
  PROVE  CountParams(pattern, n) <= n
<1>1. IsFiniteSet(1 .. n) /\ Cardinality(1 .. n) = n
  BY FS_Interval
<1>2. {i \in 1 .. n : pattern[i] \in Parameters} \in SUBSET (1 .. n)
  OBVIOUS
<1> QED BY <1>1, <1>2, FS_Subset DEF CountParams

(* The values are those at the places of the parameters, in order. *)
InOrder(pattern, path, values) ==
  LET places == {i \in 1 .. Len(path) : pattern[i] \in Parameters}
  IN /\ Len(values) = Cardinality(places)
     /\ \A i \in places : values[Cardinality({j \in places : j <= i})] = path[i]

LEMMA ParametersInOrder ==
  ASSUME NEW pattern, NEW path, Len(pattern) \in Nat, Len(path) = Len(pattern)
  PROVE  InOrder(pattern, path, ParamValues(pattern, path))
<1> DEFINE N == Len(pattern)
           places == {i \in 1 .. Len(path) : pattern[i] \in Parameters}
           values == ParamValues(pattern, path)
           first(k) == {i \in 1 .. N : CountParams(pattern, i) = k}
<1>1. N \in Nat /\ CountParams(pattern, N) \in Nat /\ Cardinality(places) = CountParams(pattern, N)
  BY CountIsNatural DEF CountParams
<1>2. values = [k \in 1 .. CountParams(pattern, N) |-> path[Min(first(k))]]
  BY DEF ParamValues
<1>3. Len(values) = Cardinality(places)
  <2> HIDE DEF first
  <2>1. values \in Seq({path[Min(first(k))] : k \in 1 .. CountParams(pattern, N)})
    BY <1>1, <1>2
  <2>2. Len(values) = CountParams(pattern, N)
    <3> HIDE DEF values
    <3> QED BY <1>1, <1>2
  <2> QED BY <1>1, <2>2
<1>4. ASSUME NEW i \in places
      PROVE  values[Cardinality({j \in places : j <= i})] = path[i]
  <2>1. i \in 1 .. N /\ i \in Nat \ {0} /\ i - 1 \in Nat /\ pattern[i] \in Parameters
    BY <1>1
  <2>2. {j \in places : j <= i} = {j \in 1 .. i : pattern[j] \in Parameters}
    BY <1>1, <2>1
  <2> DEFINE k == CountParams(pattern, i)
  <2>3. Cardinality({j \in places : j <= i}) = k
    BY <2>2 DEF CountParams
  <2>4. /\ k = CountParams(pattern, i - 1) + 1 /\ CountParams(pattern, i - 1) \in Nat
        /\ k <= CountParams(pattern, N)
    <3>1. k = CountParams(pattern, i - 1) + 1
      BY <2>1, CountNext
    <3>2. CountParams(pattern, i - 1) \in Nat
      BY <2>1, CountIsNatural
    <3>3. i \in Nat /\ i <= N
      BY <1>1, <2>1
    <3>4. k <= CountParams(pattern, N)
      BY <1>1, <3>3, CountGrows
    <3> HIDE DEF k
    <3> QED BY <3>1, <3>2, <3>4
  <2>5. k \in 1 .. CountParams(pattern, N)
    <3> HIDE DEF k
    <3> QED BY <1>1, <2>4
  <2>6. Min(first(k)) = i
    <3>1. i \in first(k) /\ first(k) \subseteq Nat
      BY <2>1
    <3>2. Min(first(k)) \in first(k) /\ Min(first(k)) <= i
      <4> HIDE DEF first, k
      <4> QED BY <3>1, MinIsLeast
    <3>3. PICK m \in first(k) : m = Min(first(k))
      BY <3>2
    <3>4. m \in 1 .. N /\ m <= i /\ CountParams(pattern, m) = k
      BY <3>2, <3>3
    <3>5. ~(m <= i - 1)
      <4>1. SUFFICES ASSUME m <= i - 1 PROVE FALSE
        OBVIOUS
      <4>2. CountParams(pattern, m) <= CountParams(pattern, i - 1)
        BY <3>4, <4>1, <2>1, CountGrows
      <4> HIDE DEF k
      <4> QED BY <4>2, <3>4, <2>4
    <3> QED BY <3>3, <3>4, <3>5, <2>1
  <2> HIDE DEF k, first
  <2>7. values[k] = path[i]
    BY <1>2, <2>5, <2>6
  <2> QED BY <2>3, <2>7
<1> QED BY <1>3, <1>4 DEF InOrder
-----------------------------------------------------------------------------
(***************************************************************************)
(* Matching                                                                *)
(***************************************************************************)

(* The application's room for parameters is enough for each of its routes. *)
LEMMA RoomForParameters ==
  ASSUME NEW routes \in Seq(RouteEntry), NEW i \in 1 .. Len(routes)
  PROVE  /\ MaxParams(routes) \in Nat
         /\ CountParams(routes[i].pattern, Len(routes[i].pattern)) <= MaxParams(routes)
<1> DEFINE n == Len(routes)
           f == [k \in 1 .. n |-> CountParams(routes[k].pattern, Len(routes[k].pattern))]
           counts == {0} \union {CountParams(r.pattern, Len(r.pattern)) : r \in Range(routes)}
<1>1. n \in Nat
  OBVIOUS
<1>2. ASSUME NEW k \in 1 .. n PROVE f[k] \in Nat
  <2>1. Len(routes[k].pattern) \in Nat
    BY DEF RouteEntry
  <2> QED BY <2>1, CountIsNatural
<1>3. PICK b \in Nat : \A k \in 1 .. n : f[k] <= b
  <2> HIDE DEF f, n
  <2> QED BY <1>1, <1>2, BoundedValues
<1>4. counts = {0} \union {f[k] : k \in 1 .. n}
  <2>1. \A c : c \in {CountParams(r.pattern, Len(r.pattern)) : r \in Range(routes)}
                 <=> \E k \in 1 .. n : c = f[k]
    BY DEF Range
  <2> QED BY <2>1
<1> HIDE DEF f
<1>5. counts \subseteq 0 .. b /\ counts # {}
  BY <1>2, <1>3, <1>4
<1>6. Max(counts) \in counts /\ \A c \in counts : c <= Max(counts)
  <2> HIDE DEF counts
  <2> QED BY <1>5, MaxIsGreatest
<1>7. f[i] \in counts
  BY <1>4
<1>8. Max(counts) \in Nat /\ f[i] <= Max(counts)
  <2> HIDE DEF counts
  <2>1. counts \subseteq Nat
    BY <1>5
  <2> QED BY <1>6, <1>7, <2>1
<1> QED BY <1>8 DEF f, MaxParams

(* A pattern that matches itself has segments, and no ill formed name. *)
LEMMA WellFormed ==
  ASSUME NEW r, Len(r.pattern) \in Nat, SelfMatches(r)
  PROVE  /\ r.pattern # <<>>
         /\ \A i \in 1 .. Len(r.pattern) : r.pattern[i] \notin BadNames
<1> DEFINE p == r.pattern
           N == Len(r.pattern)
           stops == {i \in 1 .. N : Obstacle(p, p, N, i) # "none"}
<1>1. RouteMatch(p, p, N) = "match"
  BY DEF SelfMatches
<1>2. p # <<>>
  BY <1>1 DEF RouteMatch
<1>3. stops = {}
  <2>1. SUFFICES ASSUME stops # {} PROVE FALSE
    OBVIOUS
  <2>2. Obstacle(p, p, N, Min(stops)) = "match"
    BY <1>1, <1>2, <2>1 DEF RouteMatch
  <2> QED BY <2>2, <1>2 DEF Obstacle
<1>4. ASSUME NEW i \in 1 .. N PROVE p[i] \notin BadNames
  <2>1. Obstacle(p, p, N, i) = "none"
    BY <1>3
  <2>2. ~(i > Len(p)) /\ ~(p[i] \in Parameters /\ p[i] \in BadNames)
    BY RequestDispatchAssumption
  <2> HIDE DEF p
  <2> QED BY <2>1, <2>2 DEF Obstacle
<1> QED BY <1>2, <1>4

(* Against a well formed pattern with room for its parameters, the matcher *)
(* says whether pattern and path agree, and nothing else.                  *)
LEMMA MatchMeansAgreement ==
  ASSUME NEW r \in RouteEntry, NEW req, NEW capacity \in Nat,
         r.pattern # <<>>, \A i \in 1 .. Len(r.pattern) : r.pattern[i] \notin BadNames,
         CountParams(r.pattern, Len(r.pattern)) <= capacity, r.method = req.method
  PROVE  /\ RouteMatch(r.pattern, req.path, capacity) \in {"match", "nomatch"}
         /\ RouteMatch(r.pattern, req.path, capacity) = "match" <=> Agrees(r, req)
<1> DEFINE p == r.pattern
           path == req.path
           N == Len(p)
           stops == {i \in 1 .. N : Obstacle(p, path, capacity, i) # "none"}
<1>1. N \in Nat /\ N # 0
  BY DEF RouteEntry
<1>2. ASSUME NEW i \in 1 .. N, p[i] \in Parameters
      PROVE  CountParams(p, i - 1) < capacity
  <2>1. i \in Nat \ {0} /\ i - 1 \in Nat /\ i <= N
    BY <1>1
  <2>2. /\ CountParams(p, i) = CountParams(p, i - 1) + 1 /\ CountParams(p, i) <= CountParams(p, N)
        /\ CountParams(p, i - 1) \in Nat /\ CountParams(p, N) \in Nat
    BY <1>1, <1>2, <2>1, CountNext, CountGrows, CountIsNatural
  <2> QED BY <2>2
<1>3. ASSUME NEW i \in 1 .. N
      PROVE  Obstacle(p, path, capacity, i) \in {"none", "nomatch"}
  <2>1. p[i] \notin BadNames
    OBVIOUS
  <2>2. p[i] \in Parameters => CountParams(p, i - 1) < capacity
    BY <1>2
  <2> HIDE DEF p, path
  <2> QED BY <2>1, <2>2 DEF Obstacle
<1>4. CASE path = <<>>
  <2>1. Len(path) # N
    BY <1>1, <1>4
  <2> QED BY <1>4, <2>1 DEF RouteMatch, Agrees
<1>5. CASE path # <<>> /\ stops # {}
  <2>1. Min(stops) \in stops
    <3>1. stops \subseteq Nat
      OBVIOUS
    <3> HIDE DEF stops
    <3> QED BY <3>1, <1>5, MinIsLeast
  <2>2. PICK i \in 1 .. N : i = Min(stops) /\ Obstacle(p, path, capacity, i) # "none"
    BY <2>1
  <2>3. Obstacle(p, path, capacity, i) = "nomatch"
    BY <2>2, <1>3
  <2>4. RouteMatch(p, path, capacity) = "nomatch"
    BY <1>5, <2>2, <2>3 DEF RouteMatch
  <2>5. ~Agrees(r, req)
    <3>1. SUFFICES ASSUME Agrees(r, req) PROVE FALSE
      OBVIOUS
    <3>2. /\ Len(path) = N
          /\ IF p[i] \in Parameters THEN path[i] # <<>> ELSE p[i] = path[i]
      BY <3>1 DEF Agrees
    <3>3. ~(i > Len(path)) /\ p[i] \notin BadNames
      BY <3>2, <1>1
    <3>4. p[i] \in Parameters => CountParams(p, i - 1) < capacity
      BY <1>2
    <3> HIDE DEF p, path
    <3> QED BY <2>3, <3>2, <3>3, <3>4 DEF Obstacle
  <2> QED BY <2>4, <2>5
<1>6. CASE path # <<>> /\ stops = {}
  <2>1. RouteMatch(p, path, capacity) = IF N = Len(path) THEN "match" ELSE "nomatch"
    BY <1>6 DEF RouteMatch
  <2>2. ASSUME N = Len(path), NEW i \in 1 .. N
        PROVE  IF p[i] \in Parameters THEN path[i] # <<>> ELSE p[i] = path[i]
    <3>1. Obstacle(p, path, capacity, i) = "none"
      BY <1>6
    <3>2. ~(i > Len(path)) /\ p[i] \notin BadNames
      BY <2>2, <1>1
    <3> HIDE DEF p, path
    <3> QED BY <3>1, <3>2 DEF Obstacle
  <2>3. N = Len(path) => Agrees(r, req)
    BY <2>2 DEF Agrees
  <2>4. Agrees(r, req) => N = Len(path)
    BY DEF Agrees
  <2> QED BY <2>1, <2>3, <2>4
<1> QED BY <1>4, <1>5, <1>6
-----------------------------------------------------------------------------
(***************************************************************************)
(* Routing a request                                                       *)
(***************************************************************************)

(* What is sent is the response asked for, if anything is. *)
LEMMA RespondAnswers ==
  ASSUME NEW req, NEW plan, NEW flds, Respond(req, plan, flds)
  PROVE  /\ pc' = "idle" /\ at' = 0
         /\ output' # Empty =>
              /\ output'.status = plan.status
              /\ ~output'.close => plan.keepAlive /\ req.connection = "keep"
<1>1. PICK capacity \in Capacities :
        Answer(Response(plan, flds),
               Serialize(req.method, req.connection, Response(plan, flds), capacity))
  BY DEF Respond
<1> DEFINE response == Response(plan, flds)
           result == Serialize(req.method, req.connection, response, capacity)
<1>2. response.status = plan.status /\ response.close = ~plan.keepAlive
  BY DEF Response
<1>3. result.status = "ok" => result.close = (req.connection # "keep" \/ response.close)
  <2> HIDE DEF response
  <2> QED BY DEF Serialize
<1>4. output' # Empty => result.status = "ok" /\ output' = Sent(response, result)
  <2> HIDE DEF result, response
  <2> QED BY <1>1 DEF Answer, result, response
<1>5. Sent(response, result).status = plan.status /\ Sent(response, result).close = result.close
  <2> HIDE DEF result, response
  <2> QED BY <1>2 DEF Sent
<1>6. pc' = "idle" /\ at' = 0
  BY DEF Respond, Done
<1> HIDE DEF result, response
<1> QED BY <1>2, <1>3, <1>4, <1>5, <1>6

LEMMA EntryAt ==
  ASSUME NEW routes \in Seq(RouteEntry), NEW k \in 1 .. Len(routes)
  PROVE  routes[k] \in RouteEntry /\ routes[k] \in Range(routes)
BY DEF Range

LEMMA RoutesAreEntries ==
  ASSUME ApplicationPrepared, application.ready
  PROVE  application.catalog.routes \in Seq(RouteEntry)
<1>1. application.catalog \in Catalogs
  BY DEF ApplicationPrepared
<1> QED BY <1>1, RequestDispatchAssumption DEF RouteEntry

(* Of a prepared catalog, a route's verdict says whether it agrees. *)
LEMMA VerdictMeansAgreement ==
  ASSUME ApplicationPrepared, application.ready, NEW req,
         NEW i \in 1 .. Len(application.catalog.routes)
  PROVE  /\ Verdict(req, i) \in {"match", "nomatch"}
         /\ Verdict(req, i) = "match" <=> Agrees(application.catalog.routes[i], req)
<1> DEFINE routes == application.catalog.routes
           r == routes[i]
<1>1. routes \in Seq(RouteEntry) /\ application.maxParams = MaxParams(routes)
      /\ SelfMatches(r)
  <2>1. routes \in Seq(RouteEntry)
    BY RoutesAreEntries
  <2>2. r \in Range(routes)
    <3>1. i \in 1 .. Len(routes)
      OBVIOUS
    <3> HIDE DEF routes
    <3> QED BY <2>1, <3>1, EntryAt
  <2> QED BY <2>1, <2>2 DEF ApplicationPrepared
<1>2. r \in RouteEntry /\ Len(r.pattern) \in Nat
  <2>1. r \in RouteEntry
    BY <1>1
  <2> HIDE DEF r
  <2> QED BY <2>1 DEF RouteEntry
<1>3. /\ application.maxParams \in Nat
      /\ CountParams(r.pattern, Len(r.pattern)) <= application.maxParams
  BY <1>1, RoomForParameters
<1>4. r.pattern # <<>> /\ \A k \in 1 .. Len(r.pattern) : r.pattern[k] \notin BadNames
  BY <1>1, <1>2, WellFormed
<1> HIDE DEF r
<1>5. CASE r.method = req.method
  <2>1. /\ RouteMatch(r.pattern, req.path, application.maxParams) \in {"match", "nomatch"}
        /\ RouteMatch(r.pattern, req.path, application.maxParams) = "match" <=> Agrees(r, req)
    BY <1>2, <1>3, <1>4, <1>5, MatchMeansAgreement
  <2> QED BY <2>1, <1>5 DEF Verdict, r
<1>6. CASE r.method # req.method
  BY <1>6 DEF Verdict, Agrees, r
<1> QED BY <1>5, <1>6

(* A request enters the first route that agrees with it, or is answered 404. *)
LEMMA EnterFirstMatch ==
  ASSUME ApplicationPrepared, application.ready, NEW req, EnterMvc(req)
  PROVE  LET routes == application.catalog.routes
             agreeing == {i \in 1 .. Len(routes) : Agrees(routes[i], req)}
         IN \/ /\ route' \in agreeing /\ \A i \in agreeing : route' <= i
               /\ params' = ParamValues(routes[route'].pattern, req.path)
               /\ Inward(routes[route'].list, application.catalog.middlewares, 1)
            \/ route' = 0 /\ agreeing = {} /\ Respond(req, NotFound, <<>>)
<1> DEFINE routes == application.catalog.routes
           agreeing == {i \in 1 .. Len(routes) : Agrees(routes[i], req)}
           hits == {i \in 1 .. Len(routes) : Verdict(req, i) # "nomatch"}
           hit == FirstHit(hits)
           routed == hits # {} /\ Verdict(req, hit) = "match"
<1>1. hits = agreeing /\ \A i \in hits : Verdict(req, i) = "match"
  BY VerdictMeansAgreement
<1>2. CASE hits = {}
  <2>1. route' = 0 /\ Respond(req, NotFound, <<>>)
    BY <1>2 DEF EnterMvc
  <2> QED BY <2>1, <1>1, <1>2
<1>3. CASE hits # {}
  <2>1. hits \subseteq Nat
    OBVIOUS
  <2>2. hit \in hits /\ \A i \in hits : hit <= i
    <3> HIDE DEF hits
    <3> QED BY <2>1, <1>3, MinIsLeast DEF FirstHit
  <2>3. routed
    <3> HIDE DEF hits, hit
    <3> QED BY <1>1, <1>3, <2>2
  <2>4. /\ route' = hit /\ params' = ParamValues(routes[hit].pattern, req.path)
        /\ Inward(routes[hit].list, application.catalog.middlewares, 1)
    <3>1. /\ route' = IF routed THEN hit ELSE 0
          /\ params' = IF routed THEN ParamValues(routes[hit].pattern, req.path) ELSE <<>>
          /\ CASE routed -> /\ Inward(routes[hit].list, application.catalog.middlewares, 1)
                            /\ UNCHANGED current
               [] hits = {} -> Respond(req, NotFound, <<>>)
               [] OTHER -> Fail(Verdict(req, hit))
      BY DEF EnterMvc
    <3> HIDE DEF routed, hit, hits, routes
    <3> QED BY <3>1, <2>3, <1>3
  <2>5. /\ route' \in agreeing /\ \A i \in agreeing : route' <= i
        /\ params' = ParamValues(routes[route'].pattern, req.path)
        /\ Inward(routes[route'].list, application.catalog.middlewares, 1)
    <3> HIDE DEF hits, hit, agreeing, routes
    <3> QED BY <1>1, <2>2, <2>4
  <2> QED BY <2>5
<1> QED BY <1>2, <1>3

(* A step that reads no new request, and sends nothing for one that has no *)
(* route.                                                                  *)
LEMMA RoutingFrame ==
  ASSUME RouteIsFirstMatch, UNCHANGED <<application, request, route, params>>,
         route # 0 \/ UNCHANGED output
  PROVE  RouteIsFirstMatch'
BY DEF RouteIsFirstMatch, Verdict

(* What follows from the route found. *)
LEMMA RouteFound ==
  ASSUME ApplicationPrepared, application.ready, NEW req, UNCHANGED application, request' = req,
         LET routes == application.catalog.routes
             agreeing == {i \in 1 .. Len(routes) : Agrees(routes[i], req)}
         IN \/ /\ route' \in agreeing /\ \A i \in agreeing : route' <= i
               /\ params' = ParamValues(routes[route'].pattern, req.path)
            \/ route' = 0 /\ (output' # Empty => agreeing = {} /\ output'.status = 404)
  PROVE  RouteIsFirstMatch' /\ route' \in 0 .. Len(application'.catalog.routes)
<1> DEFINE routes == application.catalog.routes
           agreeing == {i \in 1 .. Len(routes) : Agrees(routes[i], req)}
           places == {i \in 1 .. Len(req.path) : routes[route'].pattern[i] \in Parameters}
<1>1. routes \in Seq(RouteEntry)
  BY RoutesAreEntries
<1>2. route' \in 0 .. Len(routes)
  BY <1>1
<1>3. route' # 0 =>
        /\ route' \in agreeing /\ \A i \in agreeing : route' <= i
        /\ Len(params') = Cardinality(places)
        /\ \A i \in places : params'[Cardinality({j \in places : j <= i})] = req.path[i]
  <2>1. SUFFICES ASSUME route' # 0
                 PROVE  /\ route' \in agreeing /\ \A i \in agreeing : route' <= i
                        /\ Len(params') = Cardinality(places)
                        /\ \A i \in places :
                             params'[Cardinality({j \in places : j <= i})] = req.path[i]
    OBVIOUS
  <2>2. /\ route' \in agreeing /\ \A i \in agreeing : route' <= i
        /\ params' = ParamValues(routes[route'].pattern, req.path)
    BY <2>1
  <2>3. PICK k \in 1 .. Len(routes) : k = route' /\ Agrees(routes[k], req)
    BY <2>2
  <2> DEFINE r == routes[k]
  <2>4. r \in RouteEntry
    <3> HIDE DEF routes
    <3> QED BY <1>1, EntryAt
  <2>5. Len(r.pattern) \in Nat /\ Len(req.path) = Len(r.pattern)
    <3> HIDE DEF r
    <3>1. r.pattern \in Seq(Seq(STRING))
      BY <2>4 DEF RouteEntry
    <3>2. Agrees(r, req)
      BY <2>3 DEF r
    <3> QED BY <3>1, <3>2 DEF Agrees
  <2>6. InOrder(r.pattern, req.path, ParamValues(r.pattern, req.path))
    <3> HIDE DEF r
    <3> QED BY <2>5, ParametersInOrder
  <2>7. InOrder(routes[route'].pattern, req.path, params')
    BY <2>2, <2>3, <2>6
  <2> QED BY <2>2, <2>7 DEF InOrder
<1>4. \A i \in 1 .. Len(routes) : Verdict(req, i) \in {"match", "nomatch"}
  BY VerdictMeansAgreement
<1>5. \A i : Verdict(req, i)' = Verdict(req, i)
  BY DEF Verdict
<1>6. route' = 0 /\ output' # Empty => agreeing = {} /\ output'.status = 404
  OBVIOUS
<1>7. RouteIsFirstMatch'
  <2>1. application' = application /\ request' = req
    OBVIOUS
  <2> QED BY <2>1, <1>3, <1>4, <1>6 DEF RouteIsFirstMatch, Verdict
<1> QED BY <1>2, <1>7

LEMMA ArriveRoutes ==
  ASSUME ApplicationPrepared, NEW text \in Received, Arrive(text)
  PROVE  RouteIsFirstMatch' /\ route' \in 0 .. Len(application'.catalog.routes)
<1>1. application.ready /\ UNCHANGED application
  BY DEF Received, Arrive
<1> DEFINE verdict == FrameScan(text, 1).verdict
           parsed == ParseRequest(text)
           req == Understood(text, parsed, WalkHeaders(parsed.headers))
<1>2. Dispatch(req) \/ Undispatched(text, verdict) \/ Undispatched(text, parsed.status)
  BY DEF Arrive, Parsed
<1> HIDE DEF verdict, parsed, req
<1>3. ASSUME NEW status, Undispatched(text, status)
      PROVE  RouteIsFirstMatch' /\ route' \in 0 .. Len(application'.catalog.routes)
  <2>1. request'.host = FALSE /\ route' = 0
    BY <1>3 DEF Undispatched, NoRequest
  <2>2. application.catalog.routes \in Seq(RouteEntry)
    BY <1>1, RoutesAreEntries
  <2>3. Len(application'.catalog.routes) \in Nat
    BY <1>1, <2>2
  <2> QED BY <2>1, <2>3 DEF RouteIsFirstMatch, HostInvalid
<1>4. CASE Dispatch(req)
  <2>1. request' = req
    BY <1>4 DEF Dispatch
  <2>2. CASE HostInvalid(req) \/ ConnectionMalformed(req) \/ TargetInvalid(req)
    <3>1. route' = 0
      BY <1>4, <2>2 DEF Dispatch
    <3>2. application.catalog.routes \in Seq(RouteEntry)
      BY <1>1, RoutesAreEntries
    <3>3. Len(application'.catalog.routes) \in Nat
      BY <1>1, <3>2
    <3> QED BY <2>1, <2>2, <3>1, <3>3 DEF RouteIsFirstMatch
  <2>3. CASE ~(HostInvalid(req) \/ ConnectionMalformed(req) \/ TargetInvalid(req))
    <3>1. CASE EnterMvc(req)
      <4>1. Respond(req, NotFound, <<>>) => (output' # Empty => output'.status = 404)
        BY RespondAnswers DEF NotFound
      <4>2. LET routes == application.catalog.routes
                agreeing == {i \in 1 .. Len(routes) : Agrees(routes[i], req)}
            IN \/ /\ route' \in agreeing /\ \A i \in agreeing : route' <= i
                  /\ params' = ParamValues(routes[route'].pattern, req.path)
               \/ route' = 0 /\ (output' # Empty => agreeing = {} /\ output'.status = 404)
        BY <1>1, <3>1, <4>1, EnterFirstMatch
      <4> QED BY <1>1, <2>1, <4>2, RouteFound
    <3>2. CASE route' = 0 /\ Fail("enospc")
      <4>1. output' = Empty
        BY <3>2 DEF Fail
      <4> QED BY <1>1, <2>1, <3>2, <4>1, RouteFound
    <3> QED BY <1>4, <2>3, <3>1, <3>2 DEF Dispatch
  <2> QED BY <2>2, <2>3
<1> QED BY <1>2, <1>3, <1>4
-----------------------------------------------------------------------------
(***************************************************************************)
(* The onion                                                               *)
(***************************************************************************)

(* The list of the route at work. *)
LEMMA ListOfRoute ==
  ASSUME ApplicationPrepared, route \in 0 .. Len(application.catalog.routes), route # 0
  PROVE  /\ application.ready /\ List \in Seq(Nat) /\ Len(List) \in Nat
<1>1. application.ready
  BY DEF ApplicationPrepared
<1>2. application.catalog.routes \in Seq(RouteEntry)
  BY <1>1, RoutesAreEntries
<1>3. application.catalog.routes[route] \in RouteEntry
  BY <1>2
<1>4. List \in Seq(Nat)
  BY <1>3 DEF RouteEntry, List
<1> QED BY <1>1, <1>4

LEMMA OnionMembers ==
  ASSUME NEW n \in Nat, NEW responded \in BOOLEAN, NEW call
  PROVE  call \in Onion(n, responded) <=>
           \/ \E i \in 1 .. n : call = <<"before", i>> /\ Middleware(i).before
           \/ ~responded /\ (call = <<"controller", n>> \/ call = <<"presenter", n>>)
           \/ \E i \in 1 .. n : call = <<"after", i>> /\ Middleware(i).after
<1>1. call \in {<<"before", i>> : i \in {j \in 1 .. n : Middleware(j).before}}
        <=> \E i \in 1 .. n : call = <<"before", i>> /\ Middleware(i).before
  OBVIOUS
<1>2. call \in {<<"after", i>> : i \in {j \in 1 .. n : Middleware(j).after}}
        <=> \E i \in 1 .. n : call = <<"after", i>> /\ Middleware(i).after
  OBVIOUS
<1> QED BY <1>1, <1>2 DEF Onion

LEMMA Places ==
  ASSUME NEW i
  PROVE  /\ Place(<<"before", i>>) = i
         /\ Place(<<"controller", i>>) = Len(List) + 1
         /\ Place(<<"presenter", i>>) = Len(List) + 2
         /\ Place(<<"after", i>>) = 2 * Len(List) + 3 - i
BY DEF Place

(* An onion around the controller, or inside the middleware that responded. *)
Around(n, responded) ==
  n \in 0 .. Len(List) /\ responded \in BOOLEAN /\ (~responded => n = Len(List))

(* Which layer is at which place. *)
LEMMA LayerPlaces ==
  ASSUME Len(List) \in Nat, NEW n, NEW responded, Around(n, responded),
         NEW call \in Onion(n, responded)
  PROVE  /\ Place(call) \in 1 .. 2 * Len(List) + 2
         /\ \/ \E i \in 1 .. n : call = <<"before", i>> /\ Middleware(i).before /\ Place(call) = i
            \/ ~responded /\ call = <<"controller", n>> /\ Place(call) = Len(List) + 1
            \/ ~responded /\ call = <<"presenter", n>> /\ Place(call) = Len(List) + 2
            \/ \E i \in 1 .. n : /\ call = <<"after", i>> /\ Middleware(i).after
                                 /\ Place(call) = 2 * Len(List) + 3 - i
<1>1. n \in Nat /\ n <= Len(List) /\ responded \in BOOLEAN
  BY DEF Around
<1>2. \/ \E i \in 1 .. n : call = <<"before", i>> /\ Middleware(i).before
      \/ ~responded /\ (call = <<"controller", n>> \/ call = <<"presenter", n>>)
      \/ \E i \in 1 .. n : call = <<"after", i>> /\ Middleware(i).after
  BY <1>1, OnionMembers
<1>3. CASE \E i \in 1 .. n : call = <<"before", i>> /\ Middleware(i).before
  <2>1. PICK i \in 1 .. n : call = <<"before", i>> /\ Middleware(i).before
    BY <1>3
  <2>2. Place(call) = i
    BY <2>1, Places
  <2> QED BY <1>1, <2>1, <2>2
<1>4. CASE ~responded /\ call = <<"controller", n>>
  <2>1. Place(call) = Len(List) + 1
    BY <1>4, Places
  <2> QED BY <1>4, <2>1
<1>5. CASE ~responded /\ call = <<"presenter", n>>
  <2>1. Place(call) = Len(List) + 2
    BY <1>5, Places
  <2> QED BY <1>5, <2>1
<1>6. CASE \E i \in 1 .. n : call = <<"after", i>> /\ Middleware(i).after
  <2>1. PICK i \in 1 .. n : call = <<"after", i>> /\ Middleware(i).after
    BY <1>6
  <2>2. Place(call) = 2 * Len(List) + 3 - i
    BY <2>1, Places
  <2>3. 2 * Len(List) + 3 - i \in 1 .. 2 * Len(List) + 2
    BY <1>1
  <2> QED BY <2>1, <2>2, <2>3
<1> QED BY <1>2, <1>3, <1>4, <1>5, <1>6

(* No two layers are at one place. *)
LEMMA PlacesDistinguish ==
  ASSUME Len(List) \in Nat, NEW n, NEW responded, Around(n, responded),
         NEW c \in Onion(n, responded), NEW d \in Onion(n, responded), Place(c) = Place(d)
  PROVE  c = d
<1> DEFINE N == Len(List)
           Layer(x, p) ==
             \/ \E i \in 1 .. n : x = <<"before", i>> /\ p = i
             \/ x = <<"controller", n>> /\ p = N + 1
             \/ x = <<"presenter", n>> /\ p = N + 2
             \/ \E i \in 1 .. n : x = <<"after", i>> /\ p = 2 * N + 3 - i
<1>1. n \in 0 .. N /\ N \in Nat
  BY DEF Around
<1>2. Layer(c, Place(c)) /\ Layer(d, Place(d))
  BY LayerPlaces
<1> HIDE DEF N
<1>3. ASSUME NEW p, Layer(c, p), Layer(d, p)
      PROVE  c = d
  <2>1. CASE \E i \in 1 .. n : c = <<"before", i>> /\ p = i
    <3>1. p \in 1 .. n /\ c = <<"before", p>>
      BY <2>1
    <3>2. p <= N
      BY <3>1, <1>1
    <3>3. \E i \in 1 .. n : d = <<"before", i>> /\ p = i
      BY <1>1, <1>3, <3>1, <3>2
    <3> QED BY <3>1, <3>3
  <2>2. CASE c = <<"controller", n>> /\ p = N + 1
    BY <1>1, <1>3, <2>2
  <2>3. CASE c = <<"presenter", n>> /\ p = N + 2
    BY <1>1, <1>3, <2>3
  <2>4. CASE \E i \in 1 .. n : c = <<"after", i>> /\ p = 2 * N + 3 - i
    <3>1. PICK i \in 1 .. n : c = <<"after", i>> /\ p = 2 * N + 3 - i
      BY <2>4
    <3>2. p > N + 2
      BY <1>1, <3>1
    <3>3. PICK j \in 1 .. n : d = <<"after", j>> /\ p = 2 * N + 3 - j
      BY <1>1, <1>3, <3>2
    <3>4. i = j
      BY <1>1, <3>1, <3>3
    <3> QED BY <3>1, <3>3, <3>4
  <2> QED BY <1>3, <2>1, <2>2, <2>3, <2>4
<1> QED BY <1>2, <1>3
-----------------------------------------------------------------------------
(***************************************************************************)
(* Recording a call                                                        *)
(***************************************************************************)

LEMMA TracePointwise ==
  ASSUME HistoryTypes
  PROVE  /\ Len(trace) \in Nat
         /\ \A i : i \in DOMAIN trace <=> i \in 1 .. Len(trace)
         /\ \A i \in 1 .. Len(trace) : trace[i] \in Entry /\ trace[i].call \in Calls
         /\ \A call \in Calls : \E i \in 1 .. Len(trace) : call = trace[i].call
<1>1. trace \in Seq(Entry)
  BY DEF HistoryTypes
<1>2. \A i : i \in DOMAIN trace <=> i \in 1 .. Len(trace)
  BY <1>1
<1>3. \A i \in 1 .. Len(trace) : trace[i] \in Range(trace)
  BY <1>2 DEF Range
<1>4. \A entry \in Range(trace) : \E i \in 1 .. Len(trace) : entry = trace[i]
  BY <1>2 DEF Range
<1> QED BY <1>1, <1>2, <1>3, <1>4 DEF Calls

(* The onion expected is one around the controller, unless a middleware of  *)
(* the list responded.                                                      *)
LEMMA ExpectedOnion ==
  ASSUME HistoryTypes, CallsInList, route # 0, Len(List) \in Nat
  PROVE  \E n, responded : /\ Around(n, responded) /\ Expected = Onion(n, responded)
                           /\ responded <=> Early # {}
<1>1. CASE Early = {}
  <2>1. Around(Len(List), FALSE)
    BY DEF Around
  <2>2. Expected = Onion(Len(List), FALSE)
    BY <1>1 DEF Expected
  <2> QED BY <1>1, <2>1, <2>2
<1>2. CASE Early # {}
  <2>1. Early \subseteq Nat /\ \A i \in Early : i \in 1 .. Len(trace)
    BY TracePointwise DEF Early
  <2>2. Min(Early) \in Early
    BY <1>2, <2>1, MinIsLeast
  <2>3. trace[Min(Early)].call \in Calls
    BY <2>1, <2>2, TracePointwise
  <2> DEFINE n == trace[Min(Early)].call[2]
  <2>4. Around(n, TRUE)
    BY <2>3 DEF CallsInList, Around
  <2>5. Expected = Onion(n, TRUE)
    BY <1>2 DEF Expected
  <2> HIDE DEF n
  <2> QED BY <1>2, <2>4, <2>5
<1> QED BY <1>1, <1>2

LEMMA PlansAreAny ==
  ASSUME ApplicationPrepared, NEW plan \in Responses
  PROVE  plan \in AnyPlan
<1>1. application.catalog \in Catalogs /\ plan \in Plans[application.catalog]
  BY DEF ApplicationPrepared, Responses
<1> QED BY <1>1 DEF AnyPlan

LEMMA NoPlanIsAny == NoPlan \in AnyPlan
<1>1. NoPlan \in {NoPlan}
  OBVIOUS
<1> QED BY <1>1 DEF AnyPlan

LEMMA RecordedTrace ==
  ASSUME HistoryTypes, pc # "idle", NEW plan \in AnyPlan, Record(plan)
  PROVE  /\ trace' \in Seq(Entry) /\ Len(trace') = Len(trace) + 1 /\ Len(trace) \in Nat
         /\ trace'[Len(trace) + 1] = [call |-> <<pc, at>>, plan |-> plan]
         /\ \A i \in 1 .. Len(trace) : trace'[i] = trace[i]
         /\ \A i : i \in DOMAIN trace' <=> i \in 1 .. Len(trace) + 1
         /\ \A call : call \in Calls' <=> call \in Calls \/ call = <<pc, at>>
<1> DEFINE n == Len(trace)
           entry == [call |-> <<pc, at>>, plan |-> plan]
<1>1. trace \in Seq(Entry) /\ n \in Nat /\ trace' = Append(trace, entry) /\ entry \in Entry
  BY DEF HistoryTypes, Record, Entry
<1> HIDE DEF n, entry
<1>2. /\ trace' \in Seq(Entry) /\ Len(trace') = n + 1 /\ trace'[n + 1] = entry
      /\ \A i \in 1 .. n : trace'[i] = trace[i]
  BY <1>1 DEF n
<1>3. \A i : i \in DOMAIN trace' <=> i \in 1 .. n + 1
  BY <1>2
<1>4. ASSUME NEW call PROVE call \in Calls' <=> call \in Calls \/ call = <<pc, at>>
  <2>1. call \in Calls' <=> \E i \in 1 .. n + 1 : call = trace'[i].call
    BY <1>3 DEF Calls, Range
  <2>2. call \in Calls <=> \E i \in 1 .. n : call = trace[i].call
    BY <1>1 DEF Calls, Range, n
  <2>3. entry.call = <<pc, at>>
    BY DEF entry
  <2>4. \A i \in 1 .. n + 1 : i \in 1 .. n \/ i = n + 1
    BY <1>1
  <2>5. n + 1 \in 1 .. n + 1 /\ \A i \in 1 .. n : i \in 1 .. n + 1
    BY <1>1
  <2> QED BY <1>2, <2>1, <2>2, <2>3, <2>4, <2>5
<1> QED BY <1>1, <1>2, <1>3, <1>4 DEF n, entry

LEMMA OnionFrame ==
  ASSUME UNCHANGED <<application, route>>
  PROVE  /\ List' = List
         /\ \A n, responded : Onion(n, responded)' = Onion(n, responded)
         /\ \A call : Place(call)' = Place(call)
         /\ \A i : Middleware(i)' = Middleware(i)
BY DEF List, Onion, Middleware, Place

(* Only a middleware that responds before the controller changes what is   *)
(* expected: the layers inside of it are left out.                         *)
LEMMA RecordedExpected ==
  ASSUME HistoryTypes, pc # "idle", NEW plan \in AnyPlan, Record(plan),
         UNCHANGED <<application, route>>
  PROVE  /\ pc = "before" /\ plan # NoPlan /\ Early = {} => Expected' = Onion(at, TRUE)
         /\ ~(pc = "before" /\ plan # NoPlan) => Expected' = Expected /\ Early' = Early
<1> DEFINE n == Len(trace)
<1>1. /\ n \in Nat
      /\ trace'[n + 1].call = <<pc, at>> /\ trace'[n + 1].plan = plan
      /\ \A i \in 1 .. n : trace'[i] = trace[i]
      /\ \A i : i \in DOMAIN trace' <=> i \in 1 .. n + 1
      /\ \A i : i \in DOMAIN trace <=> i \in 1 .. n
  <2> DEFINE entry == [call |-> <<pc, at>>, plan |-> plan]
  <2>1. trace'[n + 1] = entry
    BY RecordedTrace
  <2>2. entry.call = <<pc, at>> /\ entry.plan = plan
    OBVIOUS
  <2> HIDE DEF entry
  <2> QED BY <2>1, <2>2, RecordedTrace, TracePointwise
<1> HIDE DEF n
<1>2. \A i : i \in 1 .. n + 1 <=> i \in 1 .. n \/ i = n + 1
  BY <1>1
<1>3. \A i : i \in Early' <=> \/ i \in Early
                              \/ i = n + 1 /\ pc = "before" /\ plan # NoPlan
  <2>1. \A i : i \in Early' <=> /\ i \in 1 .. n + 1
                                /\ trace'[i].call[1] = "before" /\ trace'[i].plan # NoPlan
    BY <1>1 DEF Early
  <2>2. \A i : i \in Early <=> /\ i \in 1 .. n
                               /\ trace[i].call[1] = "before" /\ trace[i].plan # NoPlan
    BY <1>1 DEF Early
  <2> QED BY <1>1, <1>2, <2>1, <2>2
<1>4. CASE pc = "before" /\ plan # NoPlan /\ Early = {}
  <2>1. Early' = {n + 1}
    BY <1>3, <1>4
  <2>2. Min(Early') = n + 1
    <3>1. Early' \subseteq Nat /\ Early' # {}
      BY <1>1, <2>1
    <3> QED BY <2>1, <3>1, MinIsLeast
  <2>3. PICK k : k = at
    OBVIOUS
  <2>4. trace'[Min(Early')].call[2] = k
    BY <1>1, <2>2, <2>3
  <2>5. Expected' = Onion(k, TRUE)'
    BY <2>1, <2>4 DEF Expected
  <2>6. Onion(k, TRUE)' = Onion(k, TRUE)
    BY OnionFrame
  <2> QED BY <1>4, <2>3, <2>5, <2>6
<1>5. CASE ~(pc = "before" /\ plan # NoPlan)
  <2>1. Early' = Early
    BY <1>3, <1>5
  <2>2. Early # {} => Min(Early) \in 1 .. n
    <3>1. Early \subseteq Nat /\ \A i \in Early : i \in 1 .. n
      BY <1>1 DEF Early
    <3> QED BY <3>1, MinIsLeast
  <2>3. Expected' = Expected
    BY <1>1, <2>1, <2>2, OnionFrame DEF Expected
  <2> QED BY <1>5, <2>1, <2>3
<1> QED BY <1>4, <1>5
-----------------------------------------------------------------------------
(***************************************************************************)
(* From one layer to the next                                              *)
(***************************************************************************)

Ascending == \A i, j \in DOMAIN trace : i < j => Place(trace[i].call) < Place(trace[j].call)

(* A step that has recorded the callback at work: exactly the layers up to *)
(* it have been passed, in order.                                          *)
Passed ==
  /\ trace' \in Seq(Entry)
  /\ <<pc, at>> \in Expected'
  /\ Calls' = {call \in Expected' : Place(call) <= Place(<<pc, at>>)}
  /\ Ascending' /\ CallsInList'

(* The layer at work is one of the onion, which is around the controller    *)
(* on the way in.                                                          *)
LEMMA LayerAtWork ==
  ASSUME CallbackInvariant, pc # "idle"
  PROVE  /\ route # 0 /\ application.ready /\ Len(List) \in Nat
         /\ \E n, responded : /\ Around(n, responded) /\ Expected = Onion(n, responded)
                              /\ responded <=> Early # {}
         /\ <<pc, at>> \in Expected /\ at \in 0 .. Len(List)
<1>1. route # 0 /\ <<pc, at>> \in Expected
  BY DEF CallbackInvariant, RunningInside
<1>2. application.ready /\ Len(List) \in Nat
  BY <1>1, ListOfRoute DEF CallbackInvariant
<1>3. PICK n, responded : /\ Around(n, responded) /\ Expected = Onion(n, responded)
                          /\ responded <=> Early # {}
  BY <1>1, <1>2, ExpectedOnion DEF CallbackInvariant
<1>4. at \in 0 .. Len(List)
  <2>1. n \in 0 .. Len(List)
    BY <1>3 DEF Around
  <2>2. \/ \E i \in 1 .. n : <<pc, at>> = <<"before", i>>
        \/ <<pc, at>> = <<"controller", n>> \/ <<pc, at>> = <<"presenter", n>>
        \/ \E i \in 1 .. n : <<pc, at>> = <<"after", i>>
    BY <1>1, <1>2, <1>3, LayerPlaces
  <2> QED BY <1>2, <2>1, <2>2
<1> QED BY <1>1, <1>2, <1>3, <1>4

LEMMA PassedWhenRecorded ==
  ASSUME CallbackInvariant, pc # "idle", NEW plan \in AnyPlan, Record(plan),
         UNCHANGED <<application, route>>
  PROVE  Passed
<1>1. /\ HistoryTypes /\ RunningInside /\ CallsInList /\ TraceIsOnion
  BY DEF CallbackInvariant
<1>2. /\ route # 0 /\ Len(List) \in Nat /\ <<pc, at>> \in Expected /\ at \in 0 .. Len(List)
  BY LayerAtWork
<1>3. PICK n, responded : /\ Around(n, responded) /\ Expected = Onion(n, responded)
                          /\ responded <=> Early # {}
  BY LayerAtWork
<1>4. Calls = {call \in Expected : Place(call) < Place(<<pc, at>>)}
  BY <1>1 DEF RunningInside
<1>5. /\ trace' \in Seq(Entry) /\ Len(trace') = Len(trace) + 1 /\ Len(trace) \in Nat
      /\ trace'[Len(trace) + 1] = [call |-> <<pc, at>>, plan |-> plan]
      /\ \A i \in 1 .. Len(trace) : trace'[i] = trace[i]
      /\ \A i : i \in DOMAIN trace' <=> i \in 1 .. Len(trace) + 1
      /\ \A call : call \in Calls' <=> call \in Calls \/ call = <<pc, at>>
  BY <1>1, RecordedTrace
<1>6. <<pc, at>> \in Expected' /\ Calls' = {call \in Expected' : Place(call) <= Place(<<pc, at>>)}
  <2> DEFINE here == <<pc, at>>
             N == Len(List)
  <2>1. CASE pc = "before" /\ plan # NoPlan
    <3>1. Early = {}
      BY <1>1, <2>1 DEF RunningInside
    <3>2. Expected' = Onion(at, TRUE)
      BY <1>1, <2>1, <3>1, RecordedExpected
    <3>3. Expected = Onion(N, FALSE) /\ n = N /\ responded = FALSE
      BY <1>3, <3>1 DEF Around
    <3>4. at \in 1 .. N /\ Middleware(at).before /\ Place(here) = at /\ here = <<"before", at>>
      BY <1>2, <1>3, <2>1, LayerPlaces
    <3>5. Around(at, TRUE) /\ here \in Onion(at, TRUE) /\ at \in Nat
      <4>1. at \in Nat /\ at \in 1 .. at /\ at \in 0 .. Len(List)
        BY <1>2, <3>4
      <4>2. here \in Onion(at, TRUE)
        <5>1. \E i \in 1 .. at : here = <<"before", i>> /\ Middleware(i).before
          BY <3>4, <4>1
        <5> HIDE DEF here
        <5> QED BY <4>1, <5>1, OnionMembers
      <4> QED BY <4>1, <4>2 DEF Around
    <3> HIDE DEF here, N
    <3>6. ASSUME NEW call \in Expected', Place(call) <= Place(here)
          PROVE  call \in Calls'
      <4>1. PICK i \in 1 .. at : call = <<"before", i>> /\ Middleware(i).before /\ Place(call) = i
        <5>1. \/ \E i \in 1 .. at :
                    call = <<"before", i>> /\ Middleware(i).before /\ Place(call) = i
              \/ \E i \in 1 .. at : /\ call = <<"after", i>> /\ Middleware(i).after
                                    /\ Place(call) = 2 * Len(List) + 3 - i
          BY <1>2, <3>2, <3>5, <3>6, LayerPlaces
        <5>2. ~ \E i \in 1 .. at : Place(call) = 2 * Len(List) + 3 - i
          BY <1>2, <3>4, <3>6 DEF N
        <5> QED BY <5>1, <5>2
      <4>2. CASE i = at
        BY <1>5, <3>4, <4>1, <4>2 DEF here
      <4>3. CASE i # at
        <5>1. i \in 1 .. N /\ N \in Nat
          BY <1>2, <3>4, <4>1 DEF N
        <5>2. call \in Onion(N, FALSE)
          BY <4>1, <5>1, OnionMembers
        <5>3. Place(call) < Place(here)
          BY <3>4, <4>1, <4>3
        <5> QED BY <1>4, <1>5, <3>3, <5>2, <5>3 DEF here
      <4> QED BY <4>2, <4>3
    <3>7. ASSUME NEW call \in Calls'
          PROVE  call \in Expected' /\ Place(call) <= Place(here)
      <4>1. CASE call = here
        <5>1. call \in Expected' /\ Place(call) = at
          BY <3>2, <3>4, <3>5, <4>1
        <5> QED BY <3>4, <3>5, <5>1
      <4>2. CASE call \in Calls
        <5>1. call \in Onion(N, FALSE) /\ Place(call) < at
          BY <1>4, <3>3, <3>4, <4>2 DEF here
        <5>2. Around(N, FALSE)
          BY <1>3, <3>3
        <5>3. \/ \E i \in 1 .. N :
                    call = <<"before", i>> /\ Middleware(i).before /\ Place(call) = i
              \/ Place(call) = N + 1 \/ Place(call) = N + 2
              \/ \E i \in 1 .. N : Place(call) = 2 * N + 3 - i
          BY <1>2, <5>1, <5>2, LayerPlaces DEF N
        <5>4. PICK i \in 1 .. N : call = <<"before", i>> /\ Middleware(i).before /\ Place(call) = i
          BY <1>2, <3>4, <5>1, <5>3 DEF N
        <5>5. i \in 1 .. at /\ at \in Nat
          BY <1>2, <5>1, <5>4
        <5>6. call \in Onion(at, TRUE)
          BY <5>4, <5>5, OnionMembers
        <5>7. Place(call) <= at
          BY <5>4, <5>5
        <5> QED BY <3>2, <3>4, <5>6, <5>7
      <4> QED BY <1>5, <4>1, <4>2 DEF here
    <3> QED BY <3>2, <3>5, <3>6, <3>7 DEF here
  <2>2. CASE ~(pc = "before" /\ plan # NoPlan)
    <3>1. Expected' = Expected
      BY <1>1, <2>2, RecordedExpected
    <3>2. \A call \in Expected : Place(call) \in Int
      BY <1>2, <1>3, LayerPlaces
    <3>3. \A call \in Expected : Place(call) = Place(here) => call = here
      BY <1>2, <1>3, PlacesDistinguish
    <3>4. here \in Expected
      BY <1>2
    <3>5. \A call : call \in Calls' <=> call \in Calls \/ call = here
      BY <1>5
    <3>6. Calls = {call \in Expected : Place(call) < Place(here)}
      BY <1>4
    <3> HIDE DEF here
    <3>7. \A call : call \in Calls' <=> call \in Expected /\ Place(call) <= Place(here)
      BY <3>2, <3>3, <3>4, <3>5, <3>6
    <3>8. Calls' = {call \in Expected' : Place(call) <= Place(here)}
      BY <3>1, <3>7
    <3> QED BY <3>1, <3>4, <3>8 DEF here
  <2> QED BY <2>1, <2>2
<1>7. Ascending'
  <2> SUFFICES ASSUME NEW i \in 1 .. Len(trace) + 1, NEW j \in 1 .. Len(trace) + 1, i < j
               PROVE  Place(trace'[i].call) < Place(trace'[j].call)
    BY <1>5, OnionFrame DEF Ascending
  <2>1. i \in 1 .. Len(trace) /\ trace'[i] = trace[i]
    BY <1>5
  <2>2. CASE j \in 1 .. Len(trace)
    <3>1. trace'[j] = trace[j] /\ i \in DOMAIN trace /\ j \in DOMAIN trace
      BY <1>1, <1>5, <2>1, <2>2, TracePointwise
    <3>2. Place(trace[i].call) < Place(trace[j].call)
      BY <1>1, <1>2, <3>1 DEF TraceIsOnion
    <3> QED BY <2>1, <3>1, <3>2
  <2>3. CASE j = Len(trace) + 1
    <3>1. trace[i].call \in Calls
      BY <1>1, <2>1, TracePointwise
    <3>2. Place(trace[i].call) < Place(<<pc, at>>)
      BY <1>4, <3>1
    <3>3. trace'[j].call = <<pc, at>>
      BY <1>5, <2>3
    <3> QED BY <2>1, <3>2, <3>3
  <2> QED BY <1>5, <2>2, <2>3
<1>8. CallsInList'
  <2>1. \A call \in Calls' : call[2] \in 0 .. Len(List)
    BY <1>1, <1>2, <1>5 DEF CallsInList
  <2> QED BY <2>1, OnionFrame DEF CallsInList
<1> QED BY <1>5, <1>6, <1>7, <1>8 DEF Passed

(* A callback that runs inside what has been passed keeps the onion. *)
Inside ==
  /\ HistoryTypes /\ CallsInList /\ Ascending /\ RunningInside
  /\ route # 0 /\ Len(List) \in Nat /\ pc # "idle"

LEMMA InsideIsOnion == Inside => TraceIsOnion
<1> SUFFICES ASSUME Inside PROVE TraceIsOnion
  OBVIOUS
<1>1. PICK n, responded : Around(n, responded) /\ Expected = Onion(n, responded)
  BY ExpectedOnion DEF Inside
<1>2. \A call \in Expected : Place(call) \in Int
  BY <1>1, LayerPlaces DEF Inside
<1>3. /\ output = Empty /\ <<pc, at>> \in Expected
      /\ Calls = {call \in Expected : Place(call) < Place(<<pc, at>>)}
  BY DEF Inside, RunningInside
<1> DEFINE here == <<pc, at>>
<1>4. \A call \in Expected, last \in Calls : Place(call) < Place(last) => call \in Calls
  <2>1. here \in Expected /\ Calls = {call \in Expected : Place(call) < Place(here)}
    BY <1>3
  <2> HIDE DEF here
  <2> QED BY <1>2, <2>1
<1>5. Calls \subseteq Expected
  BY <1>3
<1> QED BY <1>3, <1>4, <1>5 DEF TraceIsOnion, Inside, Ascending, Calls

LEMMA InsideNext == Inside' => TraceIsOnion'
BY InsideIsOnion, PTL

(* When no callback runs any more, the layers passed were those up to one; *)
(* or all, and the response is the last plan made.                         *)
Over ==
  /\ HistoryTypes /\ CallsInList /\ Ascending
  /\ route # 0 /\ Len(List) \in Nat /\ pc = "idle"
  /\ \E last \in Expected : Calls = {call \in Expected : Place(call) <= Place(last)}
  /\ output # Empty =>
       /\ Calls = Expected /\ trace # <<>>
       /\ LET plan == trace[Len(trace)].plan
          IN /\ plan # NoPlan /\ output.status = plan.status
             /\ ~output.close => plan.keepAlive /\ request.connection = "keep"

LEMMA OverIsOnion == Over => TraceIsOnion
<1> SUFFICES ASSUME Over PROVE TraceIsOnion
  OBVIOUS
<1>1. PICK m, responded : Around(m, responded) /\ Expected = Onion(m, responded)
  BY ExpectedOnion DEF Over
<1>2. \A call \in Expected : Place(call) \in Int
  BY <1>1, LayerPlaces DEF Over
<1>3. PICK far \in Expected : Calls = {call \in Expected : Place(call) <= Place(far)}
  BY DEF Over
<1>4. \A call \in Expected, last \in Calls : Place(call) < Place(last) => call \in Calls
  BY <1>2, <1>3
<1>5. Calls \subseteq Expected
  BY <1>3
<1> DEFINE answers == {i \in DOMAIN trace : trace[i].plan # NoPlan}
<1>6. output # Empty =>
        /\ Calls = Expected /\ answers # {}
        /\ output.status = trace[Max(answers)].plan.status
        /\ ~output.close => trace[Max(answers)].plan.keepAlive /\ request.connection = "keep"
  <2> SUFFICES ASSUME output # Empty
               PROVE  /\ Calls = Expected /\ answers # {}
                      /\ output.status = trace[Max(answers)].plan.status
                      /\ ~output.close =>
                           trace[Max(answers)].plan.keepAlive /\ request.connection = "keep"
    OBVIOUS
  <2> DEFINE n == Len(trace)
  <2>1. n \in Nat /\ \A i : i \in DOMAIN trace <=> i \in 1 .. n
    BY TracePointwise DEF Over
  <2>2. n # 0
    BY DEF Over, HistoryTypes
  <2>3. n \in answers /\ answers \subseteq 0 .. n /\ answers # {}
    <3>1. trace[n].plan # NoPlan
      BY DEF Over
    <3> HIDE DEF n
    <3> QED BY <2>1, <2>2, <3>1
  <2>4. Max(answers) = n
    <3> HIDE DEF answers, n
    <3>1. Max(answers) \in answers /\ n <= Max(answers)
      BY <2>1, <2>3, MaxIsGreatest
    <3>2. Max(answers) \in 0 .. n
      BY <2>3, <3>1
    <3> QED BY <2>1, <3>1, <3>2
  <2> QED BY <2>3, <2>4 DEF Over
<1> QED BY <1>4, <1>5, <1>6 DEF TraceIsOnion, Over, Ascending, Calls

LEMMA OverNext == Over' => TraceIsOnion'
BY OverIsOnion, PTL

(* What a step leaves to show. *)
OnionKept == HistoryTypes' /\ CallsInList' /\ RunningInside' /\ TraceIsOnion'

(* The next callback is the next layer. *)
LEMMA GoesOn ==
  ASSUME CallbackInvariant, pc # "idle", Passed, UNCHANGED <<application, route>>,
         pc' \in {"before", "controller", "presenter", "after"}, at' \in Nat, output' = Empty,
         NEW next \in Expected', next = <<pc', at'>>, pc' # "after" => Early' = {},
         \A call \in Expected' : Place(call) < Place(next) <=> Place(call) <= Place(<<pc, at>>)
  PROVE  OnionKept
<1>1. route' # 0 /\ Len(List') \in Nat
  BY LayerAtWork, OnionFrame
<1>2. HistoryTypes'
  BY DEF HistoryTypes, Passed
<1>3. RunningInside'
  <2>1. Calls' = {call \in Expected' : Place(call) <= Place(<<pc, at>>)}
    BY DEF Passed
  <2>2. Calls' = {call \in Expected' : Place(call)' < Place(next)'}
    BY <2>1, OnionFrame
  <2>3. Place(next)' = Place(<<pc, at>>)'
    OBVIOUS
  <2> QED BY <1>1, <2>2, <2>3 DEF RunningInside
<1>4. TraceIsOnion'
  BY <1>1, <1>2, <1>3, InsideNext DEF Inside, Passed
<1> QED BY <1>2, <1>3, <1>4 DEF OnionKept, Passed

(* A request that ends, with a response only when every layer was passed. *)
LEMMA EndsThere ==
  ASSUME CallbackInvariant, pc # "idle", Passed, UNCHANGED <<application, request, route>>,
         pc' = "idle", at' = 0, NEW plan, trace'[Len(trace')].plan = plan,
         output' # Empty =>
           /\ \A call \in Expected' : Place(call) <= Place(<<pc, at>>)
           /\ plan # NoPlan /\ output'.status = plan.status
           /\ ~output'.close => plan.keepAlive /\ request.connection = "keep"
  PROVE  OnionKept
<1>1. route' # 0 /\ Len(List') \in Nat
  BY LayerAtWork, OnionFrame
<1>2. HistoryTypes' /\ RunningInside'
  BY DEF HistoryTypes, Passed, RunningInside
<1>3. PICK here : here = <<pc, at>>
  OBVIOUS
<1>4. here \in Expected' /\ Calls' = {call \in Expected' : Place(call) <= Place(here)}
  BY <1>3 DEF Passed
<1>5. Calls' = {call \in Expected' : Place(call)' <= Place(here)'}
  BY <1>4, OnionFrame
<1>6. output' # Empty => Calls' = Expected'
  BY <1>3, <1>4
<1>7. trace' # <<>>
  <2>1. here \in Calls'
    <3>1. Place(here) <= Place(here)
      <4>1. Place(here) \in Int
        <5>1. Len(List) \in Nat /\ here \in Expected
          BY <1>3, LayerAtWork
        <5>2. PICK n, responded : Around(n, responded) /\ Expected = Onion(n, responded)
          BY LayerAtWork
        <5> QED BY <5>1, <5>2, LayerPlaces
      <4> QED BY <4>1
    <3> QED BY <1>4, <3>1
  <2> QED BY <2>1 DEF Calls, Range
<1>8. Over'
  <2>1. \E last \in Expected' : Calls' = {call \in Expected' : Place(call)' <= Place(last)'}
    BY <1>4, <1>5
  <2>2. HistoryTypes' /\ CallsInList' /\ Ascending'
    BY <1>2 DEF Passed
  <2> QED BY <1>1, <1>6, <1>7, <2>1, <2>2 DEF Over
<1>9. TraceIsOnion'
  BY <1>8, OverNext
<1> QED BY <1>2, <1>9 DEF OnionKept, Passed
-----------------------------------------------------------------------------
(***************************************************************************)
(* The callbacks' steps keep the onion                                     *)
(***************************************************************************)

(* Inwards: the first before callback that is left, or the controller. *)
LEMMA InwardNext ==
  ASSUME NEW list, NEW middlewares, Len(list) \in Nat, NEW i \in 1 .. Len(list) + 1,
         Inward(list, middlewares, i)
  PROVE  /\ output' = Empty
         /\ \/ /\ pc' = "before" /\ at' \in i .. Len(list) /\ middlewares[list[at']].before
               /\ \A j \in i .. Len(list) : middlewares[list[j]].before => at' <= j
            \/ /\ pc' = "controller" /\ at' = Len(list)
               /\ \A j \in i .. Len(list) : ~middlewares[list[j]].before
<1> DEFINE befores == {j \in i .. Len(list) : middlewares[list[j]].before}
<1>1. CASE befores = {}
  BY <1>1 DEF Inward, Run
<1>2. CASE befores # {}
  <2>1. befores \subseteq Nat
    OBVIOUS
  <2>2. Min(befores) \in befores /\ \A j \in befores : Min(befores) <= j
    <3> HIDE DEF befores
    <3> QED BY <1>2, <2>1, MinIsLeast
  <2>3. pc' = "before" /\ at' = Min(befores) /\ output' = Empty
    BY <1>2 DEF Inward, Run
  <2> QED BY <2>2, <2>3
<1> QED BY <1>1, <1>2

(* Outwards: the last after callback that is left, or the response. *)
LEMMA OutwardNext ==
  ASSUME NEW n \in Nat, NEW plan, Outward(n, plan)
  PROVE  \/ /\ pc' = "after" /\ at' \in 1 .. n /\ Middleware(at').after /\ output' = Empty
            /\ \A j \in 1 .. n : Middleware(j).after => j <= at'
         \/ (\A j \in 1 .. n : ~Middleware(j).after) /\ Respond(request, plan, fields)
<1> DEFINE afters == {j \in 1 .. n : Middleware(j).after}
<1>1. CASE afters = {}
  BY <1>1 DEF Outward
<1>2. CASE afters # {}
  <2>1. afters \subseteq 0 .. n
    OBVIOUS
  <2>2. Max(afters) \in afters /\ \A j \in afters : j <= Max(afters)
    <3> HIDE DEF afters
    <3> QED BY <1>2, <2>1, MaxIsGreatest
  <2>3. pc' = "after" /\ at' = Max(afters) /\ output' = Empty
    BY <1>2 DEF Outward, Run, NextAfter
  <2> QED BY <2>2, <2>3
<1> QED BY <1>1, <1>2

(* A plan that is valid is one. *)
LEMMA ValidIsPlan ==
  ASSUME NEW plan, PlanValid(plan)
  PROVE  plan # NoPlan
<1>1. NoPlan.status = 0
  BY DEF NoPlan
<1>2. plan.status \in 200 .. 599
  BY DEF PlanValid
<1> QED BY <1>1, <1>2

LEMMA PassedEnds ==
  ASSUME CallbackInvariant, pc # "idle", NEW plan \in AnyPlan, Record(plan),
         UNCHANGED <<application, routing>>, NEW status, Fail(status)
  PROVE  OnionKept
<1>1. Passed
  BY PassedWhenRecorded DEF routing
<1>2. /\ pc' = "idle" /\ at' = 0 /\ output' = Empty
      /\ UNCHANGED <<application, request, route>>
  BY DEF Fail, Done, routing
<1> QED BY <1>1, <1>2, EndsThere

(* The way out from a layer behind which only the after callbacks of the   *)
(* first m middlewares are left.                                           *)
LEMMA OutwardKeeps ==
  ASSUME CallbackInvariant, pc # "idle", NEW plan \in AnyPlan, Record(plan), PlanValid(plan),
         UNCHANGED <<application, routing>>,
         NEW n, NEW responded, Around(n, responded), Expected' = Onion(n, responded),
         NEW m \in 0 .. n, Outward(m, plan),
         \A call \in Expected' : \/ Place(call) <= Place(<<pc, at>>)
                                 \/ \E i \in 1 .. m : call = <<"after", i>>,
         \A i \in 1 .. m : ~(2 * Len(List) + 3 - i <= Place(<<pc, at>>))
  PROVE  OnionKept
<1>1. Passed /\ UNCHANGED <<application, route>> /\ UNCHANGED <<application, request, route>>
  BY PassedWhenRecorded DEF routing
<1>2. Len(List) \in Nat /\ n \in 0 .. Len(List) /\ m \in Nat /\ m <= n
  BY LayerAtWork DEF Around
<1>3. PICK here : here = <<pc, at>>
  OBVIOUS
<1>4. here \in Expected' /\ Place(here) \in Int
  <2>1. here \in Expected'
    BY <1>1, <1>3 DEF Passed
  <2> QED BY <1>2, <2>1, LayerPlaces
<1>5. CASE /\ pc' = "after" /\ at' \in 1 .. m /\ Middleware(at').after /\ output' = Empty
           /\ \A j \in 1 .. m : Middleware(j).after => j <= at'
  <2>1. PICK k \in 1 .. m : k = at' /\ Middleware(k).after
    BY <1>5
  <2> DEFINE next == <<"after", k>>
  <2>2. next \in Expected' /\ Place(next) = 2 * Len(List) + 3 - k
    <3>1. k \in 1 .. n /\ n \in Nat
      BY <1>2, <2>1
    <3> QED BY <2>1, <3>1, OnionMembers, Places DEF Around
  <2> HIDE DEF next
  <2>3. ASSUME NEW call \in Expected'
        PROVE  Place(call) < Place(next) <=> Place(call) <= Place(here)
    <3>1. Place(call) \in Int
      BY <1>2, LayerPlaces
    <3>2. Place(here) < Place(next)
      <4>1. ~(2 * Len(List) + 3 - k <= Place(here))
        BY <1>3, <2>1
      <4> QED BY <1>2, <1>4, <2>1, <2>2, <4>1
    <3>3. CASE Place(call) <= Place(here)
      BY <1>2, <1>4, <2>1, <2>2, <3>1, <3>2, <3>3
    <3>4. CASE ~(Place(call) <= Place(here))
      <4>1. PICK i \in 1 .. m : call = <<"after", i>>
        BY <1>3, <3>4
      <4>2. Middleware(i).after /\ Place(call) = 2 * Len(List) + 3 - i
        <5>1. call \in Onion(n, responded) /\ n \in Nat
          BY <1>2
        <5>2. \E j \in 1 .. n : call = <<"after", j>> /\ Middleware(j).after
          BY <4>1, <5>1, OnionMembers DEF Around
        <5> QED BY <4>1, <5>2, Places
      <4>3. i <= k
        BY <1>5, <2>1, <4>1, <4>2
      <4>4. ~(Place(call) < Place(next))
        BY <1>2, <2>1, <2>2, <4>1, <4>2, <4>3
      <4> QED BY <3>4, <4>4
    <3> QED BY <3>3, <3>4
  <2>4. next = <<pc', at'>>
    BY <1>5, <2>1 DEF next
  <2>5. /\ pc' \in {"before", "controller", "presenter", "after"} /\ at' \in Nat
        /\ output' = Empty /\ (pc' # "after" => Early' = {})
    BY <1>5, <2>1
  <2>6. \A call \in Expected' : Place(call) < Place(next) <=> Place(call) <= Place(<<pc, at>>)
    BY <1>3, <2>3
  <2> QED BY <1>1, <2>2, <2>4, <2>5, <2>6, GoesOn
<1>6. CASE (\A j \in 1 .. m : ~Middleware(j).after) /\ Respond(request, plan, fields)
  <2>1. \A call \in Expected' : Place(call) <= Place(<<pc, at>>)
    <3> SUFFICES ASSUME NEW call \in Expected', NEW i \in 1 .. m, call = <<"after", i>>
                 PROVE  FALSE
      OBVIOUS
    <3>1. n \in Nat /\ responded \in BOOLEAN /\ call \in Onion(n, responded)
      BY <1>2 DEF Around
    <3>2. \E j \in 1 .. n : call = <<"after", j>> /\ Middleware(j).after
      BY <3>1, OnionMembers
    <3> QED BY <1>6, <3>2
  <2>2. /\ pc' = "idle" /\ at' = 0
        /\ output' # Empty =>
             /\ output'.status = plan.status
             /\ ~output'.close => plan.keepAlive /\ request.connection = "keep"
    BY <1>6, RespondAnswers
  <2>3. plan # NoPlan
    BY ValidIsPlan
  <2>4. trace'[Len(trace')].plan = plan
    <3> DEFINE entry == [call |-> <<pc, at>>, plan |-> plan]
    <3>1. trace'[Len(trace')] = entry
      BY RecordedTrace DEF CallbackInvariant
    <3>2. entry.plan = plan
      OBVIOUS
    <3> HIDE DEF entry
    <3> QED BY <3>1, <3>2
  <2> QED BY <1>1, <2>1, <2>2, <2>3, <2>4, EndsThere
<1> QED BY <1>2, <1>5, <1>6, OutwardNext

(* Where the callback at work is. *)
LEMMA PlaceAtWork ==
  ASSUME Len(List) \in Nat, NEW n, NEW responded, Around(n, responded),
         <<pc, at>> \in Onion(n, responded)
  PROVE  /\ pc = "before" => at \in 1 .. n /\ Place(<<pc, at>>) = at
         /\ pc = "controller" => at = n /\ ~responded /\ Place(<<pc, at>>) = Len(List) + 1
         /\ pc = "presenter" => at = n /\ ~responded /\ Place(<<pc, at>>) = Len(List) + 2
         /\ pc = "after" => at \in 1 .. n /\ Place(<<pc, at>>) = 2 * Len(List) + 3 - at
<1>1. PICK call : call = <<pc, at>>
  OBVIOUS
<1>2. call[1] = pc /\ call[2] = at
  BY <1>1
<1>3. \/ \E i \in 1 .. n : call = <<"before", i>> /\ Place(call) = i
      \/ ~responded /\ call = <<"controller", n>> /\ Place(call) = Len(List) + 1
      \/ ~responded /\ call = <<"presenter", n>> /\ Place(call) = Len(List) + 2
      \/ \E i \in 1 .. n : call = <<"after", i>> /\ Place(call) = 2 * Len(List) + 3 - i
  BY <1>1, LayerPlaces
<1>4. /\ pc = "before" => at \in 1 .. n /\ Place(call) = at
      /\ pc = "controller" => at = n /\ ~responded /\ Place(call) = Len(List) + 1
      /\ pc = "presenter" => at = n /\ ~responded /\ Place(call) = Len(List) + 2
      /\ pc = "after" => at \in 1 .. n /\ Place(call) = 2 * Len(List) + 3 - at
  BY <1>2, <1>3
<1> QED BY <1>1, <1>4

LEMMA BeforeContinuesKeeps ==
  ASSUME CallbackInvariant, BeforeContinues
  PROVE  OnionKept
<1> DEFINE N == Len(List)
<1>1. /\ pc = "before" /\ Record(NoPlan) /\ NoPlan \in AnyPlan
      /\ UNCHANGED <<application, routing>> /\ UNCHANGED <<application, route>>
      /\ Inward(List, application.catalog.middlewares, at + 1)
  BY NoPlanIsAny DEF BeforeContinues, routing
<1>2. Passed
  BY <1>1, PassedWhenRecorded
<1>3. Early = {} /\ HistoryTypes
  BY <1>1 DEF CallbackInvariant, RunningInside
<1>4. Expected' = Expected /\ Early' = {}
  BY <1>1, <1>3, RecordedExpected
<1>5. N \in Nat /\ Expected = Onion(N, FALSE) /\ Around(N, FALSE) /\ <<pc, at>> \in Expected
  BY <1>1, <1>3, LayerAtWork DEF Expected, Around
<1>6. at \in 1 .. N /\ Place(<<pc, at>>) = at
  BY <1>1, <1>5, PlaceAtWork
<1>7. /\ output' = Empty
      /\ \/ /\ pc' = "before" /\ at' \in at + 1 .. N /\ Middleware(at').before
            /\ \A j \in at + 1 .. N : Middleware(j).before => at' <= j
         \/ /\ pc' = "controller" /\ at' = N
            /\ \A j \in at + 1 .. N : ~Middleware(j).before
  <2>1. at + 1 \in 1 .. N + 1
    BY <1>5, <1>6
  <2> QED BY <1>1, <1>5, <2>1, InwardNext DEF Middleware
<1>8. ASSUME NEW call \in Expected'
      PROVE  \/ \E i \in 1 .. N : call = <<"before", i>> /\ Middleware(i).before /\ Place(call) = i
             \/ Place(call) = N + 1 \/ Place(call) = N + 2
             \/ \E i \in 1 .. N : Place(call) = 2 * N + 3 - i
  BY <1>4, <1>5, LayerPlaces
<1>9. CASE /\ pc' = "before" /\ at' \in at + 1 .. N /\ Middleware(at').before
           /\ \A j \in at + 1 .. N : Middleware(j).before => at' <= j
  <2>1. PICK k \in at + 1 .. N : k = at' /\ Middleware(k).before
    BY <1>9
  <2>2. k \in 1 .. N /\ k \in Nat /\ at < k /\ k <= N
    BY <1>5, <1>6, <2>1
  <2> DEFINE next == <<"before", k>>
  <2>3. next \in Expected' /\ Place(next) = k
    BY <1>4, <1>5, <2>1, <2>2, OnionMembers, Places
  <2>4. next = <<pc', at'>>
    BY <1>9, <2>1
  <2> HIDE DEF next, N
  <2>5. ASSUME NEW call \in Expected'
        PROVE  Place(call) < Place(next) <=> Place(call) <= at
    <3>1. CASE \E i \in 1 .. N : call = <<"before", i>> /\ Middleware(i).before /\ Place(call) = i
      <4>1. PICK i \in 1 .. N : Middleware(i).before /\ Place(call) = i
        BY <3>1
      <4>2. ~(i <= at) => k <= i
        BY <1>5, <1>6, <1>9, <2>1, <4>1
      <4> QED BY <1>5, <1>6, <2>2, <2>3, <4>1, <4>2
    <3>2. CASE Place(call) = N + 1 \/ Place(call) = N + 2
      BY <1>5, <1>6, <2>2, <2>3, <3>2
    <3>3. CASE \E i \in 1 .. N : Place(call) = 2 * N + 3 - i
      BY <1>5, <1>6, <2>2, <2>3, <3>3
    <3> QED BY <1>8, <3>1, <3>2, <3>3
  <2>6. \A call \in Expected' : Place(call) < Place(next) <=> Place(call) <= Place(<<pc, at>>)
    BY <1>6, <2>5
  <2>7. pc' \in {"before", "controller", "presenter", "after"} /\ at' \in Nat
    BY <1>9, <2>1, <2>2
  <2> QED BY <1>1, <1>2, <1>4, <1>7, <2>3, <2>4, <2>6, <2>7, GoesOn
<1>10. CASE /\ pc' = "controller" /\ at' = N
            /\ \A j \in at + 1 .. N : ~Middleware(j).before
  <2>1. PICK k : k = N
    OBVIOUS
  <2> DEFINE next == <<"controller", k>>
  <2>2. next \in Expected' /\ Place(next) = N + 1
    BY <1>4, <1>5, <2>1, OnionMembers, Places
  <2>3. next = <<pc', at'>>
    BY <1>10, <2>1
  <2> HIDE DEF next, N
  <2>4. ASSUME NEW call \in Expected'
        PROVE  Place(call) < Place(next) <=> Place(call) <= at
    <3>1. CASE \E i \in 1 .. N : call = <<"before", i>> /\ Middleware(i).before /\ Place(call) = i
      <4>1. PICK i \in 1 .. N : Middleware(i).before /\ Place(call) = i
        BY <3>1
      <4>2. i <= at
        BY <1>5, <1>6, <1>10, <4>1
      <4> QED BY <1>5, <1>6, <2>2, <4>1, <4>2
    <3>2. CASE Place(call) = N + 1 \/ Place(call) = N + 2
      BY <1>5, <1>6, <2>2, <3>2
    <3>3. CASE \E i \in 1 .. N : Place(call) = 2 * N + 3 - i
      BY <1>5, <1>6, <2>2, <3>3
    <3> QED BY <1>8, <3>1, <3>2, <3>3
  <2>5. \A call \in Expected' : Place(call) < Place(next) <=> Place(call) <= Place(<<pc, at>>)
    BY <1>6, <2>4
  <2>6. pc' \in {"before", "controller", "presenter", "after"} /\ at' \in Nat
    BY <1>5, <1>10
  <2> QED BY <1>1, <1>2, <1>4, <1>7, <2>2, <2>3, <2>5, <2>6, GoesOn
<1> QED BY <1>7, <1>9, <1>10

(* A middleware that responds is left, and those inside of it are not entered. *)
LEMMA BeforeRespondsKeeps ==
  ASSUME CallbackInvariant, NEW plan \in AnyPlan, BeforeResponds(plan)
  PROVE  OnionKept
<1>1. /\ pc = "before" /\ Record(plan)
      /\ UNCHANGED <<application, routing>> /\ UNCHANGED <<application, route>>
      /\ IF PlanValid(plan) THEN Outward(at, plan) ELSE Fail("einval")
  BY DEF BeforeResponds, Entered, routing
<1>2. CASE ~PlanValid(plan)
  BY <1>1, <1>2, PassedEnds
<1>3. CASE PlanValid(plan)
  <2>1. Early = {} /\ HistoryTypes
    BY <1>1 DEF CallbackInvariant, RunningInside
  <2>2. PICK k : k = at
    OBVIOUS
  <2>3. Expected' = Onion(k, TRUE)
    BY <1>1, <1>3, <2>1, <2>2, ValidIsPlan, RecordedExpected
  <2>4. /\ Len(List) \in Nat /\ Expected = Onion(Len(List), FALSE) /\ Around(Len(List), FALSE)
        /\ <<pc, at>> \in Expected
    BY <1>1, <2>1, LayerAtWork DEF Expected, Around
  <2>5. k \in 1 .. Len(List) /\ Place(<<pc, at>>) = k
    BY <1>1, <2>2, <2>4, PlaceAtWork
  <2>6. Around(k, TRUE) /\ k \in 0 .. k
    BY <2>4, <2>5 DEF Around
  <2>7. ASSUME NEW call \in Expected'
        PROVE  Place(call) <= Place(<<pc, at>>) \/ \E i \in 1 .. k : call = <<"after", i>>
    <3>1. \/ \E i \in 1 .. k : Place(call) = i
          \/ \E i \in 1 .. k : call = <<"after", i>>
      BY <2>3, <2>4, <2>6, LayerPlaces
    <3> QED BY <2>4, <2>5, <3>1
  <2>8. \A i \in 1 .. k : ~(2 * Len(List) + 3 - i <= Place(<<pc, at>>))
    BY <2>4, <2>5
  <2>9. Outward(k, plan)
    BY <1>1, <1>3, <2>2
  <2> QED BY <1>1, <1>3, <2>3, <2>6, <2>7, <2>8, <2>9, OutwardKeeps
<1> QED BY <1>2, <1>3

LEMMA ControllerReturnsKeeps ==
  ASSUME CallbackInvariant, ControllerReturns
  PROVE  OnionKept
<1>1. /\ pc = "controller" /\ Record(NoPlan) /\ NoPlan \in AnyPlan
      /\ UNCHANGED <<application, routing>> /\ UNCHANGED <<application, route>>
      /\ pc' = "presenter" /\ at' = at /\ output' = Empty
  BY NoPlanIsAny DEF ControllerReturns, Run, routing
<1>2. Passed
  BY <1>1, PassedWhenRecorded
<1>3. Early = {} /\ HistoryTypes
  BY <1>1 DEF CallbackInvariant, RunningInside
<1>4. Expected' = Expected /\ Early' = {}
  BY <1>1, <1>3, RecordedExpected
<1>5. /\ Len(List) \in Nat /\ Expected = Onion(Len(List), FALSE) /\ Around(Len(List), FALSE)
      /\ <<pc, at>> \in Expected
  BY <1>1, <1>3, LayerAtWork DEF Expected, Around
<1>6. at = Len(List) /\ Place(<<pc, at>>) = Len(List) + 1
  BY <1>1, <1>5, PlaceAtWork
<1>7. PICK k : k = Len(List)
  OBVIOUS
<1> DEFINE next == <<"presenter", k>>
<1>8. next \in Expected' /\ Place(next) = k + 2
  BY <1>4, <1>5, <1>7, OnionMembers, Places
<1>9. next = <<pc', at'>>
  BY <1>1, <1>6, <1>7
<1> HIDE DEF next
<1>10. \A call \in Expected' : Place(call) < Place(next) <=> Place(call) <= Place(<<pc, at>>)
  <2> TAKE call \in Expected'
  <2>1. Place(call) \in 1 .. 2 * Len(List) + 2
    BY <1>4, <1>5, LayerPlaces
  <2>2. Place(call) \in Int
    BY <2>1
  <2> QED BY <1>5, <1>6, <1>7, <1>8, <2>2
<1>11. pc' \in {"before", "controller", "presenter", "after"} /\ at' \in Nat
  BY <1>1, <1>5, <1>6
<1> QED BY <1>1, <1>2, <1>4, <1>8, <1>9, <1>10, <1>11, GoesOn

LEMMA PresenterReturnsKeeps ==
  ASSUME CallbackInvariant, NEW plan \in AnyPlan, PresenterReturns(plan)
  PROVE  OnionKept
<1>1. /\ pc = "presenter" /\ Record(plan)
      /\ UNCHANGED <<application, routing>> /\ UNCHANGED <<application, route>>
      /\ IF PlanValid(plan) THEN Outward(at, plan) ELSE Fail("einval")
  BY DEF PresenterReturns, routing
<1>2. CASE ~PlanValid(plan)
  BY <1>1, <1>2, PassedEnds
<1>3. CASE PlanValid(plan)
  <2>1. Early = {} /\ HistoryTypes
    BY <1>1 DEF CallbackInvariant, RunningInside
  <2>2. Expected' = Expected
    BY <1>1, <2>1, RecordedExpected
  <2>3. /\ Len(List) \in Nat /\ Expected = Onion(Len(List), FALSE) /\ Around(Len(List), FALSE)
        /\ <<pc, at>> \in Expected
    BY <1>1, <2>1, LayerAtWork DEF Expected, Around
  <2>4. at = Len(List) /\ Place(<<pc, at>>) = Len(List) + 2
    BY <1>1, <2>3, PlaceAtWork
  <2>5. PICK k : k = Len(List)
    OBVIOUS
  <2>6. ASSUME NEW call \in Expected'
        PROVE  Place(call) <= Place(<<pc, at>>) \/ \E i \in 1 .. k : call = <<"after", i>>
    <3>1. \/ \E i \in 1 .. k : Place(call) = i
          \/ Place(call) = k + 1 \/ Place(call) = k + 2
          \/ \E i \in 1 .. k : call = <<"after", i>>
      BY <2>2, <2>3, <2>5, LayerPlaces
    <3> QED BY <2>3, <2>4, <2>5, <3>1
  <2>7. \A i \in 1 .. k : ~(2 * Len(List) + 3 - i <= Place(<<pc, at>>))
    BY <2>3, <2>4, <2>5
  <2>8. Outward(k, plan)
    BY <1>1, <1>3, <2>4, <2>5
  <2>9. k \in 0 .. k /\ Around(k, FALSE) /\ Expected' = Onion(k, FALSE)
    <3>1. k \in Nat
      BY <2>3, <2>5
    <3>2. Around(k, FALSE)
      BY <2>3, <2>5
    <3>3. Expected' = Onion(k, FALSE)
      BY <2>2, <2>3, <2>5
    <3>4. k \in 0 .. k
      BY <3>1
    <3> QED BY <3>2, <3>3, <3>4
  <2> QED BY <1>1, <1>3, <2>6, <2>7, <2>8, <2>9, OutwardKeeps
<1> QED BY <1>2, <1>3

LEMMA AfterReturnsKeeps ==
  ASSUME CallbackInvariant, NEW plan \in AnyPlan, AfterReturns(plan)
  PROVE  OnionKept
<1>1. /\ pc = "after" /\ Record(plan)
      /\ UNCHANGED <<application, routing>> /\ UNCHANGED <<application, route>>
      /\ IF PlanValid(plan) THEN Outward(at - 1, plan) ELSE Fail("einval")
  BY DEF AfterReturns, routing
<1>2. CASE ~PlanValid(plan)
  BY <1>1, <1>2, PassedEnds
<1>3. CASE PlanValid(plan)
  <2>1. Expected' = Expected
    BY <1>1, RecordedExpected DEF CallbackInvariant
  <2>2. Len(List) \in Nat /\ <<pc, at>> \in Expected
    BY <1>1, LayerAtWork
  <2>3. PICK n, responded : Around(n, responded) /\ Expected = Onion(n, responded)
    BY <1>1, LayerAtWork
  <2>4. n \in 0 .. Len(List)
    BY <2>3 DEF Around
  <2>5. PICK k : k = at
    OBVIOUS
  <2>6. k \in 1 .. n /\ Place(<<pc, at>>) = 2 * Len(List) + 3 - k
    BY <1>1, <2>2, <2>3, <2>5, PlaceAtWork
  <2>7. ASSUME NEW call \in Expected'
        PROVE  Place(call) <= Place(<<pc, at>>) \/ \E i \in 1 .. k - 1 : call = <<"after", i>>
    <3>1. \/ \E i \in 1 .. n : Place(call) = i
          \/ Place(call) = Len(List) + 1 \/ Place(call) = Len(List) + 2
          \/ \E i \in 1 .. n : call = <<"after", i>> /\ Place(call) = 2 * Len(List) + 3 - i
      BY <2>1, <2>2, <2>3, LayerPlaces
    <3>2. CASE \E i \in 1 .. n : call = <<"after", i>> /\ Place(call) = 2 * Len(List) + 3 - i
      <4>1. PICK i \in 1 .. n : call = <<"after", i>> /\ Place(call) = 2 * Len(List) + 3 - i
        BY <3>2
      <4>2. i \in 1 .. k - 1 \/ 2 * Len(List) + 3 - i <= 2 * Len(List) + 3 - k
        BY <2>2, <2>4, <2>6
      <4> QED BY <2>6, <4>1, <4>2
    <3> QED BY <2>2, <2>4, <2>6, <3>1, <3>2
  <2>8. \A i \in 1 .. k - 1 : ~(2 * Len(List) + 3 - i <= Place(<<pc, at>>))
    BY <2>2, <2>4, <2>6
  <2>9. Outward(k - 1, plan) /\ k - 1 \in 0 .. n /\ Expected' = Onion(n, responded)
    BY <1>1, <1>3, <2>1, <2>3, <2>4, <2>5, <2>6
  <2> QED BY <1>1, <1>3, <2>3, <2>7, <2>8, <2>9, OutwardKeeps
<1> QED BY <1>2, <1>3

(* A request that has just entered its route is at the outermost layer. *)
FirstLayer ==
  /\ HistoryTypes /\ trace = <<>> /\ output = Empty /\ route # 0 /\ Len(List) \in Nat
  /\ \/ /\ pc = "before" /\ at \in 1 .. Len(List) /\ Middleware(at).before
        /\ \A j \in 1 .. Len(List) : Middleware(j).before => at <= j
     \/ /\ pc = "controller" /\ at = Len(List)
        /\ \A j \in 1 .. Len(List) : ~Middleware(j).before

NothingPassed == trace = <<>>

LEMMA NothingCalled ==
  NothingPassed => Calls = {} /\ Early = {} /\ Expected = Onion(Len(List), FALSE)
<1> SUFFICES ASSUME trace = <<>>
             PROVE  Calls = {} /\ Early = {} /\ Expected = Onion(Len(List), FALSE)
  BY DEF NothingPassed
<1>1. Calls = {} /\ Early = {}
  BY DEF Calls, Early, Range
<1> QED BY <1>1 DEF Expected

LEMMA FirstLayerIsInside == FirstLayer => Inside
<1> SUFFICES ASSUME FirstLayer PROVE Inside
  OBVIOUS
<1>1. Calls = {} /\ Early = {} /\ Expected = Onion(Len(List), FALSE)
  BY NothingCalled DEF FirstLayer, NothingPassed
<1>2. PICK n : n = Len(List) /\ n \in Nat /\ Around(n, FALSE)
  BY DEF FirstLayer, Around
<1>3. PICK k : k = at
  OBVIOUS
<1>4. PICK here : here = <<pc, at>>
  OBVIOUS
<1>5. here \in Onion(n, FALSE)
  BY <1>2, <1>4, OnionMembers DEF FirstLayer
<1>6. ASSUME NEW call \in Onion(n, FALSE)
      PROVE  ~(Place(call) < Place(here))
  <2>1. \/ \E i \in 1 .. n : call = <<"before", i>> /\ Middleware(i).before /\ Place(call) = i
        \/ Place(call) = n + 1 \/ Place(call) = n + 2
        \/ \E i \in 1 .. n : Place(call) = 2 * n + 3 - i
    BY <1>2, LayerPlaces
  <2>2. CASE pc = "before"
    <3>1. k \in 1 .. n /\ \A j \in 1 .. n : Middleware(j).before => k <= j
      BY <1>2, <1>3, <2>2 DEF FirstLayer
    <3>2. Place(here) = k
      BY <1>3, <1>4, <2>2, Places
    <3> QED BY <1>2, <2>1, <3>1, <3>2
  <2>3. CASE pc = "controller"
    <3>1. \A j \in 1 .. n : ~Middleware(j).before
      BY <1>2, <2>3 DEF FirstLayer
    <3>2. Place(here) = n + 1
      BY <1>2, <1>4, <2>3, Places
    <3> QED BY <1>2, <2>1, <3>1, <3>2
  <2> QED BY <2>2, <2>3 DEF FirstLayer
<1>7. Calls = {call \in Expected : Place(call) < Place(here)} /\ here \in Expected
  BY <1>1, <1>2, <1>5, <1>6
<1>8. RunningInside
  BY <1>1, <1>4, <1>7 DEF RunningInside, FirstLayer
<1>9. CallsInList /\ Ascending
  BY <1>1 DEF CallsInList, Ascending, FirstLayer
<1> QED BY <1>8, <1>9 DEF Inside, FirstLayer

LEMMA FirstLayerNext == FirstLayer' => Inside'
BY FirstLayerIsInside, PTL

(* A request is answered, or it enters a route at the outermost layer. *)
LEMMA ArriveEnters ==
  ASSUME CallbackInvariant, NEW text \in Received, Arrive(text)
  PROVE  \/ route' = 0 /\ pc' = "idle" /\ at' = 0
         \/ /\ route' \in 1 .. Len(application.catalog.routes)
            /\ Inward(application.catalog.routes[route'].list,
                      application.catalog.middlewares, 1)
<1>1. application.ready /\ ApplicationPrepared
  BY DEF Received, CallbackInvariant
<1> DEFINE verdict == FrameScan(text, 1).verdict
           parsed == ParseRequest(text)
           req == Understood(text, parsed, WalkHeaders(parsed.headers))
<1>2. Dispatch(req) \/ Undispatched(text, verdict) \/ Undispatched(text, parsed.status)
  BY DEF Arrive, Parsed
<1> HIDE DEF verdict, parsed, req
<1>3. CASE Undispatched(text, verdict) \/ Undispatched(text, parsed.status)
  BY <1>3 DEF Undispatched, Fail, Done
<1>4. CASE Dispatch(req)
  <2>1. CASE EnterMvc(req)
    <3>1. Respond(req, NotFound, <<>>) => pc' = "idle" /\ at' = 0
      BY RespondAnswers
    <3> QED BY <1>1, <2>1, <3>1, EnterFirstMatch
  <2>2. CASE route' = 0 /\ Respond(req, BadRequest, <<>>)
    BY <2>2, RespondAnswers
  <2>3. CASE route' = 0 /\ \E status : Fail(status)
    BY <2>3 DEF Fail, Done
  <2> QED BY <1>4, <2>1, <2>2, <2>3 DEF Dispatch
<1> QED BY <1>2, <1>3, <1>4

LEMMA ArriveKeepsOnion ==
  ASSUME CallbackInvariant, NEW text \in Received, Arrive(text)
  PROVE  OnionKept
<1>1. /\ application.ready /\ UNCHANGED application /\ trace' = <<>>
      /\ ApplicationPrepared
  BY DEF Received, Arrive, CallbackInvariant
<1>2. CASE route' = 0 /\ pc' = "idle" /\ at' = 0
  <2>1. HistoryTypes'
    BY <1>1, <1>2 DEF HistoryTypes
  <2> QED BY <1>2, <2>1 DEF OnionKept, CallsInList, RunningInside, TraceIsOnion
<1>3. CASE /\ route' \in 1 .. Len(application.catalog.routes)
           /\ Inward(application.catalog.routes[route'].list, application.catalog.middlewares, 1)
  <2>1. PICK r \in 1 .. Len(application.catalog.routes) :
          /\ r = route'
          /\ Inward(application.catalog.routes[r].list, application.catalog.middlewares, 1)
    BY <1>3
  <2> DEFINE list == application.catalog.routes[r].list
  <2>2. list \in Seq(Nat)
    <3>1. application.catalog.routes \in Seq(RouteEntry)
      BY <1>1, RoutesAreEntries
    <3>2. application.catalog.routes[r] \in RouteEntry
      BY <3>1
    <3> QED BY <3>2 DEF RouteEntry
  <2>3. List' = list /\ \A i : Middleware(i)' = application.catalog.middlewares[list[i]]
    BY <1>1, <2>1 DEF List, Middleware
  <2> DEFINE middlewares == application.catalog.middlewares
             n == Len(list)
  <2>4. n \in Nat /\ 1 \in 1 .. n + 1
    BY <2>2
  <2>5. /\ output' = Empty
        /\ \/ /\ pc' = "before" /\ at' \in 1 .. n /\ middlewares[list[at']].before
              /\ \A j \in 1 .. n : middlewares[list[j]].before => at' <= j
           \/ /\ pc' = "controller" /\ at' = n
              /\ \A j \in 1 .. n : ~middlewares[list[j]].before
    <3>1. Inward(list, middlewares, 1)
      BY <2>1
    <3> HIDE DEF list, middlewares
    <3> QED BY <2>4, <3>1, InwardNext
  <2>6. HistoryTypes'
    <3>1. at' \in Nat /\ pc' \in {"before", "controller"}
      <4> HIDE DEF list, middlewares, n
      <4> QED BY <2>4, <2>5
    <3>2. trace' \in Seq(Entry)
      BY <1>1
    <3> QED BY <3>1, <3>2 DEF HistoryTypes
  <2>7. route' # 0 /\ Len(List)' \in Nat
    BY <2>1, <2>3, <2>4
  <2>8. FirstLayer'
    <3>1. Len(List)' = n
      BY <2>3
    <3>2. PICK k : k = at'
      OBVIOUS
    <3>3. \A i : Middleware(i)' = middlewares[list[i]]
      BY <2>3
    <3> HIDE DEF list, middlewares, n
    <3>4. (Middleware(at).before)' = Middleware(k)'.before
      BY <3>2 DEF Middleware
    <3>5. pc' = "before" => (Middleware(at).before)'
      BY <2>5, <3>2, <3>3, <3>4
    <3>6. \/ /\ pc' = "before" /\ at' \in 1 .. Len(List)'
             /\ \A j \in 1 .. Len(List)' : Middleware(j)'.before => at' <= j
          \/ /\ pc' = "controller" /\ at' = Len(List)'
             /\ \A j \in 1 .. Len(List)' : ~Middleware(j)'.before
      BY <2>5, <3>1, <3>3
    <3> QED BY <1>1, <2>5, <2>6, <2>7, <3>5, <3>6 DEF FirstLayer
  <2>9. Inside' /\ TraceIsOnion'
    BY <2>8, FirstLayerNext, InsideNext
  <2> QED BY <2>9 DEF OnionKept, Inside
<1> QED BY <1>2, <1>3, ArriveEnters
-----------------------------------------------------------------------------
(***************************************************************************)
(* The steps together                                                      *)
(***************************************************************************)

(* A step inside a request at work is one of the onion. *)
LEMMA CallbackKeeps ==
  ASSUME CallbackInvariant, pc # "idle", OnionKept, UNCHANGED <<application, routing>>
  PROVE  CallbackInvariant'
<1>1. route # 0 /\ application.ready
  BY LayerAtWork
<1>2. UNCHANGED <<application, request, route, params>>
  BY DEF routing
<1>3. RouteIsFirstMatch'
  BY <1>1, <1>2, RoutingFrame DEF CallbackInvariant
<1>4. ApplicationPrepared'
  BY <1>1, <1>2 DEF CallbackInvariant, ApplicationPrepared
<1>5. route' \in 0 .. Len(application'.catalog.routes)
  BY <1>2 DEF CallbackInvariant
<1> QED BY <1>3, <1>4, <1>5 DEF CallbackInvariant, OnionKept

(* The sidecar is no part of it. *)
LEMMA CallbackFrame ==
  ASSUME CallbackInvariant,
         UNCHANGED <<application, routing, pc, at, current, output, trace>>
  PROVE  CallbackInvariant'
<1>1. /\ UNCHANGED <<application, request, route, params>> /\ UNCHANGED <<application, route>>
      /\ UNCHANGED <<pc, at, output, trace>>
  BY DEF routing
<1>2. RouteIsFirstMatch'
  BY <1>1, RoutingFrame DEF CallbackInvariant
<1>3. ApplicationPrepared' /\ HistoryTypes' /\ route' \in 0 .. Len(application'.catalog.routes)
  BY <1>1 DEF CallbackInvariant, ApplicationPrepared, HistoryTypes
<1>4. Calls' = Calls /\ Early' = Early /\ Expected' = Expected /\ List' = List
  BY <1>1, OnionFrame DEF Calls, Early, Expected
<1>5. CallsInList'
  BY <1>1, <1>4 DEF CallsInList, CallbackInvariant
<1>6. \A call : Place(call)' = Place(call)
  BY <1>1, OnionFrame
<1>7. RunningInside'
  <2>1. Place(<<pc, at>>)' = Place(<<pc, at>>)
    BY <1>1, <1>4 DEF Place
  <2> QED BY <1>1, <1>4, <1>6, <2>1 DEF RunningInside, CallbackInvariant
<1>8. TraceIsOnion'
  BY <1>1, <1>4, <1>6 DEF TraceIsOnion, CallbackInvariant
<1> QED BY <1>2, <1>3, <1>5, <1>7, <1>8 DEF CallbackInvariant

(* What is prepared can be served without an error of matching. *)
LEMMA PrepareKeepsCallbacks ==
  ASSUME CallbackInvariant, NEW catalog \in Catalogs, Prepare(catalog)
  PROVE  CallbackInvariant'
<1>1. /\ ~application.ready /\ request = NoRequest /\ route = 0 /\ pc = "idle"
      /\ UNCHANGED <<application, routing, pc, at, current, output, trace>> \/ ret' = "ok"
  BY DEF Prepare, CallbackInvariant, ApplicationPrepared
<1>2. CASE ret' = "ok"
  <2>1. /\ application' = [ready |-> TRUE, catalog |-> catalog,
                           maxParams |-> MaxParams(catalog.routes)]
        /\ \E room \in BOOLEAN : PrepareStatus(catalog, room) = "ok"
        /\ UNCHANGED <<routing, pc, at, trace>>
    BY <1>2 DEF Prepare
  <2>2. \A r \in Range(catalog.routes) : SelfMatches(r)
    BY <2>1 DEF PrepareStatus
  <2>3. /\ application'.ready /\ application'.catalog = catalog
        /\ application'.maxParams = MaxParams(catalog.routes)
    BY <2>1
  <2>4. ApplicationPrepared'
    BY <2>2, <2>3 DEF ApplicationPrepared
  <2>5. route' = 0 /\ pc' = "idle" /\ request' = NoRequest /\ at' = at /\ trace' = trace
    BY <1>1, <2>1 DEF routing
  <2>6. route' \in 0 .. Len(application'.catalog.routes)
    <3>1. catalog.routes \in Seq(RouteEntry)
      BY RequestDispatchAssumption DEF RouteEntry
    <3>2. Len(catalog.routes) \in Nat
      BY <3>1
    <3> QED BY <2>3, <2>5, <3>2
  <2>7. RouteIsFirstMatch'
    BY <2>5 DEF RouteIsFirstMatch, NoRequest
  <2>8. HistoryTypes' /\ CallsInList' /\ RunningInside' /\ TraceIsOnion'
    BY <2>5 DEF HistoryTypes, CallsInList, RunningInside, TraceIsOnion, CallbackInvariant
  <2> QED BY <2>4, <2>6, <2>7, <2>8 DEF CallbackInvariant
<1> QED BY <1>1, <1>2, CallbackFrame

LEMMA ArriveKeepsCallbacks ==
  ASSUME CallbackInvariant, NEW text \in Received, Arrive(text)
  PROVE  CallbackInvariant'
<1>1. OnionKept
  BY ArriveKeepsOnion
<1>2. RouteIsFirstMatch' /\ route' \in 0 .. Len(application'.catalog.routes)
  BY ArriveRoutes DEF CallbackInvariant
<1>3. application.ready /\ UNCHANGED application
  BY DEF Received, Arrive
<1>4. ApplicationPrepared'
  BY <1>3 DEF ApplicationPrepared, CallbackInvariant
<1> QED BY <1>1, <1>2, <1>4 DEF CallbackInvariant, OnionKept

LEMMA CallbacksInitially == Init => CallbackInvariant
<1> SUFFICES ASSUME Init PROVE CallbackInvariant
  OBVIOUS
<1>1. /\ application = NoApplication /\ request = NoRequest /\ route = 0 /\ pc = "idle"
      /\ at = 0 /\ trace = <<>>
  BY DEF Init
<1>2. ~application.ready /\ application.catalog.routes = <<>>
  BY <1>1 DEF NoApplication, NoCatalog
<1>3. ApplicationPrepared /\ HistoryTypes
  BY <1>1, <1>2 DEF ApplicationPrepared, HistoryTypes
<1>4. RouteIsFirstMatch
  BY <1>1 DEF RouteIsFirstMatch, NoRequest
<1>5. route \in 0 .. Len(application.catalog.routes)
  BY <1>1, <1>2
<1> QED BY <1>1, <1>3, <1>4, <1>5 DEF CallbackInvariant, CallsInList, RunningInside, TraceIsOnion

LEMMA CallbacksKept == CallbackInvariant /\ [Next]_vars => CallbackInvariant'
<1> SUFFICES ASSUME CallbackInvariant, [Next]_vars PROVE CallbackInvariant'
  OBVIOUS
<1>1. ASSUME NEW catalog \in Catalogs, Prepare(catalog) PROVE CallbackInvariant'
  BY <1>1, PrepareKeepsCallbacks
<1>2. ASSUME NEW text \in Received, Arrive(text) PROVE CallbackInvariant'
  BY <1>2, ArriveKeepsCallbacks
<1>3. CASE CallbackFails
  <2>1. /\ pc # "idle" /\ Record(NoPlan) /\ NoPlan \in AnyPlan /\ \E status : Fail(status)
        /\ UNCHANGED <<application, routing>>
    BY <1>3, NoPlanIsAny DEF CallbackFails
  <2>2. OnionKept
    BY <2>1, PassedEnds
  <2> QED BY <2>1, <2>2, CallbackKeeps
<1>4. CASE BeforeContinues
  <2>1. pc # "idle" /\ UNCHANGED <<application, routing>>
    BY <1>4 DEF BeforeContinues
  <2> QED BY <1>4, <2>1, BeforeContinuesKeeps, CallbackKeeps
<1>5. ASSUME NEW plan \in Responses, BeforeResponds(plan) PROVE CallbackInvariant'
  <2>1. plan \in AnyPlan
    BY PlansAreAny DEF CallbackInvariant
  <2>2. pc # "idle" /\ UNCHANGED <<application, routing>>
    BY <1>5 DEF BeforeResponds
  <2> QED BY <1>5, <2>1, <2>2, BeforeRespondsKeeps, CallbackKeeps
<1>6. CASE ControllerReturns
  <2>1. pc # "idle" /\ UNCHANGED <<application, routing>>
    BY <1>6 DEF ControllerReturns
  <2> QED BY <1>6, <2>1, ControllerReturnsKeeps, CallbackKeeps
<1>7. ASSUME NEW plan \in Responses, PresenterReturns(plan) PROVE CallbackInvariant'
  <2>1. plan \in AnyPlan
    BY PlansAreAny DEF CallbackInvariant
  <2>2. pc # "idle" /\ UNCHANGED <<application, routing>>
    BY <1>7 DEF PresenterReturns
  <2> QED BY <1>7, <2>1, <2>2, PresenterReturnsKeeps, CallbackKeeps
<1>8. ASSUME NEW plan \in Responses, AfterReturns(plan) PROVE CallbackInvariant'
  <2>1. plan \in AnyPlan
    BY PlansAreAny DEF CallbackInvariant
  <2>2. pc # "idle" /\ UNCHANGED <<application, routing>>
    BY <1>8 DEF AfterReturns
  <2> QED BY <1>8, <2>1, <2>2, AfterReturnsKeeps, CallbackKeeps
<1>9. CASE \/ \E line \in FieldLines : FieldAppend(line)
           \/ FieldsMark
           \/ \E count \in 0 .. FieldCapacity : FieldsRewind(count)
  <2>1. UNCHANGED <<application, routing, pc, at, current, output, trace>>
    BY <1>9 DEF FieldAppend, FieldsMark, FieldsRewind
  <2> QED BY <2>1, CallbackFrame
<1>10. CASE UNCHANGED vars
  BY <1>10, CallbackFrame DEF vars
<1> QED BY <1>1, <1>2, <1>3, <1>4, <1>5, <1>6, <1>7, <1>8, <1>9, <1>10 DEF Next
-----------------------------------------------------------------------------
(***************************************************************************)
(* The theorems                                                            *)
(***************************************************************************)

LEMMA InvariantInitially == Init => SidecarInvariant
<1> SUFFICES ASSUME Init PROVE SidecarInvariant
  OBVIOUS
<1>1. /\ served = 0 /\ issued = 0 /\ fields = <<>> /\ mark = NoMark /\ output.fields = <<>>
  BY DEF Init, Empty
<1>2. SidecarTypes
  BY <1>1, OwnEmpty, RequestDispatchAssumption DEF SidecarTypes, Mark, NoMark
<1>3. MarkStands
  BY <1>1 DEF MarkStands, NoMark
<1> QED BY <1>1, <1>2, <1>3, OwnEmpty DEF SidecarInvariant

LEMMA InvariantKept == SidecarInvariant /\ [Next]_vars => SidecarInvariant'
<1> SUFFICES ASSUME SidecarInvariant, [Next]_vars PROVE SidecarInvariant'
  OBVIOUS
<1>1. ASSUME NEW catalog \in Catalogs, Prepare(catalog) PROVE SidecarInvariant'
  BY <1>1, FrameKeeps DEF Prepare, routing
<1>2. ASSUME NEW text \in Received, Arrive(text) PROVE SidecarInvariant'
  BY <1>2, ArriveKeeps
<1>3. ASSUME \/ CallbackFails \/ BeforeContinues \/ ControllerReturns
             \/ \E plan \in Responses : BeforeResponds(plan) \/ PresenterReturns(plan)
                                        \/ AfterReturns(plan)
      PROVE  SidecarInvariant'
  <2>1. UNCHANGED <<routing, sidecar>>
    BY <1>3 DEF CallbackFails, BeforeContinues, ControllerReturns, BeforeResponds,
                PresenterReturns, AfterReturns
  <2> QED BY <1>3, <2>1, CallbackReturns
<1>4. ASSUME NEW line \in FieldLines, FieldAppend(line) PROVE SidecarInvariant'
  BY <1>4, AppendKeeps
<1>5. ASSUME FieldsMark PROVE SidecarInvariant'
  BY <1>5, MarkKeeps
<1>6. ASSUME NEW count \in 0 .. FieldCapacity, FieldsRewind(count) PROVE SidecarInvariant'
  BY <1>6, RewindKeeps
<1>7. CASE UNCHANGED vars
  BY <1>7, FrameKeeps DEF vars, routing
<1> QED BY <1>1, <1>2, <1>3, <1>4, <1>5, <1>6, <1>7 DEF Next

(* The sidecar's variables keep their types and belong to the request at work, *)
(* in every state of every application.                                        *)
THEOREM InvariantHolds == Spec => []SidecarInvariant
BY InvariantInitially, InvariantKept, PTL DEF Spec

(* No field of one request is ever sent with another, fields are sent in the *)
(* order in which they were appended, and a mark stands for the fields it    *)
(* was taken over unless something rewound below it.                         *)
THEOREM FieldsTheorem == Spec => []FieldsBelongToRequest
BY InvariantHolds, InvariantSays, PTL

(* In every state of every application whose catalog was accepted, the       *)
(* callback at work is the next layer of the onion, and the route was chosen *)
(* from well formed patterns with room for all their parameters.             *)
THEOREM CallbacksHold == Spec => []CallbackInvariant
BY CallbacksInitially, CallbacksKept, PTL DEF Spec

LEMMA CallbackInvariantSays == CallbackInvariant => RouteIsFirstMatch /\ TraceIsOnion
BY DEF CallbackInvariant

(* Every request goes to the first route of the catalog that agrees with it, *)
(* with that route's parameters in their order; one that some route agrees   *)
(* with is never answered 404, and matching never fails: for every catalog   *)
(* of any number of routes, and patterns and paths of any length.            *)
THEOREM RouteTheorem == Spec => []RouteIsFirstMatch
BY CallbacksHold, CallbackInvariantSays, PTL

(* The callbacks of a request are an onion around the controller, or around  *)
(* the middleware that responded in its place: none is passed over or left   *)
(* twice, and what is sent is the last response made, when all were left;    *)
(* for lists of any length and whatever the callbacks return.                *)
THEOREM OnionTheorem == Spec => []TraceIsOnion
BY CallbacksHold, CallbackInvariantSays, PTL
-----------------------------------------------------------------------------
(***************************************************************************)
(* ViewOutput: the memory of the arena                                     *)
(***************************************************************************)

Regions == chunks \union bodies

(* Outputs at work that have memory.  One that was begun for no bytes may    *)
(* stand above the frontier, when memory below it was given back.            *)
Holders == {o \in Active : outputs[o].required > 0}

OutputState ==
  [state : {"IDLE", "ACTIVE", "COMMITTED"}, mark : 0 .. Capacity,
   required : 0 .. Capacity, length : 0 .. Capacity]

ArenaTypes ==
  /\ offset \in 0 .. Capacity
  /\ memory \in Seq(Symbols) /\ Len(memory) = Capacity
  /\ outputs \in [Outputs -> OutputState] /\ drafts \in [Outputs -> Seq(Symbols)]

(* Nobody's memory lies in another's or above the frontier.                  *)
Apart(a, end, b, last) == end <= b \/ last <= a

RegionsApart ==
  /\ \A r \in Regions : r.at \in Nat /\ r.length \in Nat \ {0} /\ EndOf(r) <= offset
  /\ \A r, s \in Regions : r # s => Apart(r.at, EndOf(r), s.at, EndOf(s))

HoldersApart ==
  /\ \A o \in Holders : OutputEnd(o) <= offset
  /\ \A o, p \in Holders :
       o # p => Apart(outputs[o].mark, OutputEnd(o), outputs[p].mark, OutputEnd(p))
  /\ \A r \in Regions, o \in Holders :
       Apart(r.at, EndOf(r), outputs[o].mark, OutputEnd(o))

ChunksAligned ==
  \A c \in chunks : c.alignment \in Nat \ {0} /\ (Base + c.at) % c.alignment = 0

(* What was committed, and what was appended so far, is in memory.           *)
BodiesThere ==
  \A b \in bodies :
    /\ b.text \in Seq(Symbols) /\ Len(b.text) = b.length
    /\ \A i \in 1 .. b.length : memory[b.at + i] = b.text[i]

DraftsThere ==
  \A o \in Active :
    /\ OutputEnd(o) <= Capacity /\ outputs[o].length <= outputs[o].required
    /\ Len(drafts[o]) = outputs[o].length
    /\ \A i \in 1 .. outputs[o].length : memory[outputs[o].mark + i] = drafts[o][i]

(* What a scan of a source with n fields leaves for the rendering.           *)
PartOf(n) ==
  [kind : {"literal"}, text : Seq(Symbols), slot : {0}]
    \union [kind : {"slot"}, text : {<<>>}, slot : 1 .. n]

ServedTemplate == [source : Seq(Symbols), fields : Seq(Seq(Symbols)), values : Seq(Seq(Symbols))]

ServingScanned ==
  \A i \in DOMAIN serving :
    /\ serving[i].template \in ServedTemplate
    /\ serving[i].parts \in Seq(PartOf(Len(serving[i].template.fields)))

ArenaInvariant ==
  /\ ArenaTypes /\ RegionsApart /\ HoldersApart /\ ChunksAligned
  /\ BodiesThere /\ DraftsThere /\ ServingScanned
-----------------------------------------------------------------------------
(* Of the products of a, none lies between 0 and a. *)
LEMMA NoProductBelow ==
  ASSUME NEW a \in Nat \ {0}, NEW k \in Int, 0 <= a * k, a * k < a
  PROVE  k = 0
<1>1. CASE k >= 1
  <2>1. a * k = a + a * (k - 1)
    OBVIOUS
  <2>2. a * (k - 1) >= 0
    <3> DEFINE j == k - 1
    <3>1. j \in Nat
      BY <1>1
    <3> QED BY <3>1
  <2> QED BY <2>1, <2>2
<1>2. CASE k <= -1
  <2>1. a * k = a * (k + 1) - a
    OBVIOUS
  <2>2. a * (k + 1) <= 0
    <3> DEFINE j == -(k + 1)
    <3>1. j \in Nat /\ k + 1 = -j
      BY <1>2
    <3>2. a * j >= 0
      BY <3>1
    <3>3. a * (-j) = -(a * j)
      BY <3>1
    <3> QED BY <3>1, <3>2, <3>3
  <2> QED BY <2>1, <2>2
<1> QED BY <1>1, <1>2

(* AlignUp gives a multiple of the alignment, not below the address. *)
LEMMA AlignUpFacts ==
  ASSUME NEW a \in Nat \ {0}, NEW x \in Nat
  PROVE  /\ AlignUp(x, a) \in Nat /\ x <= AlignUp(x, a) /\ AlignUp(x, a) <= x + a - 1
         /\ AlignUp(x, a) % a = 0
<1> DEFINE y == x + a - 1
           q == y \div a
<1>1. y \in Nat
  OBVIOUS
<1>2. q \in Int /\ y % a \in 0 .. a - 1 /\ y = a * q + (y % a)
  <2> HIDE DEF y
  <2> QED BY <1>1
<1>3. AlignUp(x, a) = q * a
  BY DEF AlignUp
<1>4. q * a = a * q
  BY <1>2
<1>5. a * q \in Int /\ x <= a * q /\ a * q <= y
  BY <1>1, <1>2
<1> DEFINE z == a * q
           p == z \div a
<1>6. p \in Int /\ z % a \in 0 .. a - 1 /\ z = a * p + (z % a)
  <2>1. z \in Int
    BY <1>5
  <2> HIDE DEF z
  <2> QED BY <2>1
<1>7. z % a = a * (q - p)
  <2>1. a * (q - p) = a * q - a * p
    <3> HIDE DEF q, p
    <3> QED BY <1>2, <1>6
  <2> QED BY <1>5, <1>6, <2>1
<1>8. q - p = 0
  <2> HIDE DEF q, p
  <2> QED BY <1>2, <1>6, <1>7, NoProductBelow
<1>9. z % a = 0
  BY <1>7, <1>8
<1> HIDE DEF q, p
<1> QED BY <1>3, <1>4, <1>5, <1>9

(* A text written at a place of the memory: the bytes there are the text's, the *)
(* others those of before.                                                     *)
LEMMA WriteFacts ==
  ASSUME NEW S, NEW bytes \in Seq(S), NEW pos \in Nat, NEW text \in Seq(S),
         pos + Len(text) <= Len(bytes)
  PROVE  LET new == Write(bytes, pos, text)
         IN /\ new \in Seq(S) /\ Len(new) = Len(bytes)
            /\ \A i \in 1 .. Len(text) : new[pos + i] = text[i]
            /\ \A i \in 1 .. Len(bytes) :
                 i <= pos \/ pos + Len(text) < i => new[i] = bytes[i]
<1> DEFINE n == Len(bytes)
           m == Len(text)
           front == SubSeq(bytes, 1, pos)
           back == SubSeq(bytes, pos + m + 1, n)
           half == front \o text
<1>1. n \in Nat /\ m \in Nat
  OBVIOUS
<1>2. \A i \in 1 .. n : bytes[i] \in S
  OBVIOUS
<1>3. pos + m <= n
  OBVIOUS
<1> HIDE DEF n, m
<1>4. front \in Seq(S) /\ Len(front) = pos /\ \A i \in 1 .. pos : front[i] = bytes[i]
  <2>1. \A i \in 1 .. pos : bytes[i] \in S
    BY <1>1, <1>2, <1>3
  <2> QED BY <1>1, <2>1, SubSeqProperties
<1>5. back \in Seq(S) /\ Len(back) = n - (pos + m)
      /\ \A i \in 1 .. n - (pos + m) : back[i] = bytes[pos + m + i]
  <2>1. \A i \in pos + m + 1 .. n : bytes[i] \in S
    BY <1>1, <1>2
  <2>2. /\ back \in Seq(S)
        /\ Len(back) = (IF pos + m + 1 <= n THEN n - (pos + m + 1) + 1 ELSE 0)
        /\ \A i \in 1 .. n - (pos + m + 1) + 1 : back[i] = bytes[(pos + m + 1) + i - 1]
    <3>1. pos + m + 1 \in Int /\ n \in Int
      BY <1>1
    <3> QED BY <2>1, <3>1, SubSeqProperties
  <2>3. Len(back) = n - (pos + m)
    BY <1>1, <1>3, <2>2
  <2>4. ASSUME NEW i \in 1 .. n - (pos + m)
        PROVE  back[i] = bytes[pos + m + i]
    <3>1. i \in 1 .. n - (pos + m + 1) + 1 /\ (pos + m + 1) + i - 1 = pos + m + i
      BY <1>1
    <3>2. back[i] = bytes[(pos + m + 1) + i - 1]
      BY <2>2, <3>1
    <3> HIDE DEF back
    <3> QED BY <3>1, <3>2
  <2> QED BY <2>2, <2>3, <2>4
<1>6. half \in Seq(S) /\ Len(half) = pos + m
      /\ \A k \in 1 .. pos + m : half[k] = IF k <= pos THEN front[k] ELSE text[k - pos]
  BY <1>4, Concatenated DEF m
<1> HIDE DEF front, back, half
<1>7. half \o back \in Seq(S) /\ Len(half \o back) = n
      /\ \A k \in 1 .. n : (half \o back)[k] = IF k <= pos + m THEN half[k] ELSE back[k - (pos + m)]
  <2> DEFINE r == n - (pos + m)
  <2>1. (pos + m) + r = n
    BY <1>1
  <2> HIDE DEF r
  <2>2. half \o back \in Seq(S) /\ Len(half \o back) = (pos + m) + r
        /\ \A k \in 1 .. (pos + m) + r :
             (half \o back)[k] = IF k <= pos + m THEN half[k] ELSE back[k - (pos + m)]
    BY <1>5, <1>6, Concatenated DEF r
  <2> QED BY <2>1, <2>2
<1>8. Write(bytes, pos, text) = half \o back
  BY DEF Write, half, front, back, n, m
<1> DEFINE new == half \o back
<1>9. \A i \in 1 .. m : new[pos + i] = text[i]
  <2> TAKE i \in 1 .. m
  <2>1. pos + i \in 1 .. n /\ pos + i <= pos + m /\ pos + i \in 1 .. pos + m /\ ~ (pos + i <= pos)
        /\ (pos + i) - pos = i
    BY <1>1, <1>3
  <2> QED BY <1>6, <1>7, <2>1
<1>10. ASSUME NEW i \in 1 .. n, i <= pos \/ pos + m < i
       PROVE  new[i] = bytes[i]
  <2>1. CASE i <= pos
    <3>1. i \in 1 .. pos /\ i <= pos + m /\ i \in 1 .. pos + m
      BY <1>1, <2>1
    <3> QED BY <1>4, <1>6, <1>7, <2>1, <3>1
  <2>2. CASE pos + m < i
    <3>1. i - (pos + m) \in 1 .. n - (pos + m) /\ ~ (i <= pos + m) /\ pos + m + (i - (pos + m)) = i
      BY <1>1, <2>2
    <3> QED BY <1>5, <1>7, <3>1
  <2> QED BY <1>10, <2>1, <2>2
<1> QED BY <1>7, <1>8, <1>9, <1>10 DEF n, m
-----------------------------------------------------------------------------
(* One turn of AppendAll. *)
AppendTurn(low, room, acc, piece) ==
  IF ~ acc.fits \/ acc.length + Len(piece) > room THEN [acc EXCEPT !.fits = FALSE]
  ELSE [acc EXCEPT !.bytes = Write(@, low + acc.length, piece), !.length = @ + Len(piece)]

AppendBase(length) == [fits |-> TRUE, length |-> length, bytes |-> memory]

AppendFolds(h, low, room, length, pieces) ==
  h = [t \in SUBSET (DOMAIN pieces) |->
         IF t = {} THEN AppendBase(length)
         ELSE LET x == Max(t) IN AppendTurn(low, room, h[t \ {x}], pieces[x])]

LEMMA AppendIsFold ==
  ASSUME NEW low, NEW room, NEW length, NEW pieces
  PROVE  AppendAll(low, room, length, pieces) =
           (CHOOSE h : AppendFolds(h, low, room, length, pieces))[DOMAIN pieces]
BY Zenon DEF AppendAll, FoldLeft, MapThenFoldSet, AppendFolds, AppendTurn, AppendBase

(* What an append may be asked for: the room of an output and the length it has. *)
Appends(low, room, length, pieces) ==
  /\ memory \in Seq(Symbols) /\ Len(memory) = Capacity /\ Capacity \in Nat
  /\ low \in Nat /\ room \in Nat /\ length \in 0 .. room /\ low + room <= Capacity
  /\ pieces \in Seq(Seq(Symbols))

Appending(room) ==
  {a \in [fits : BOOLEAN, length : 0 .. room, bytes : Seq(Symbols)] : Len(a.bytes) = Capacity}

(* What AppendTurn does to each of the three. *)
LEMMA TurnFacts ==
  ASSUME NEW low \in Nat, NEW room \in Nat, Capacity \in Nat, low + room <= Capacity,
         NEW a \in Appending(room), NEW piece \in Seq(Symbols)
  PROVE  LET next == AppendTurn(low, room, a, piece)
             going == a.fits /\ a.length + Len(piece) <= room
         IN /\ next \in Appending(room)
            /\ next.fits <=> going
            /\ ~ going => next.length = a.length /\ next.bytes = a.bytes
            /\ going =>
                 /\ next.length = a.length + Len(piece)
                 /\ \A i \in 1 .. Len(piece) : next.bytes[low + a.length + i] = piece[i]
                 /\ \A i \in 1 .. Capacity :
                      i <= low + a.length \/ low + a.length + Len(piece) < i =>
                        next.bytes[i] = a.bytes[i]
<1> DEFINE next == AppendTurn(low, room, a, piece)
           going == a.fits /\ a.length + Len(piece) <= room
<1>1. /\ a \in [fits : BOOLEAN, length : 0 .. room, bytes : Seq(Symbols)]
      /\ a.fits \in BOOLEAN /\ a.length \in 0 .. room /\ a.bytes \in Seq(Symbols)
      /\ Len(a.bytes) = Capacity
      /\ a = [fits |-> a.fits, length |-> a.length, bytes |-> a.bytes]
  BY DEF Appending
<1>2. Len(piece) \in Nat
  OBVIOUS
<1>3. CASE ~ going
  <2>1. ~ a.fits \/ a.length + Len(piece) > room
    BY <1>1, <1>2, <1>3
  <2>2. next = [fits |-> FALSE, length |-> a.length, bytes |-> a.bytes]
    BY <1>1, <2>1 DEF AppendTurn
  <2>3. next \in Appending(room)
    BY <1>1, <2>2 DEF Appending
  <2>4. next.fits = FALSE /\ next.length = a.length /\ next.bytes = a.bytes
    BY <2>2
  <2> HIDE DEF next, going
  <2> QED BY <1>3, <2>3, <2>4 DEF next, going
<1>4. CASE going
  <2> DEFINE pos == low + a.length
             bytes == Write(a.bytes, pos, piece)
  <2>1. pos \in Nat /\ pos + Len(piece) <= Len(a.bytes)
    BY <1>1, <1>2, <1>4
  <2>2. /\ bytes \in Seq(Symbols) /\ Len(bytes) = Capacity
        /\ \A i \in 1 .. Len(piece) : bytes[pos + i] = piece[i]
        /\ \A i \in 1 .. Capacity :
             i <= pos \/ pos + Len(piece) < i => bytes[i] = a.bytes[i]
    <3> HIDE DEF pos
    <3>1. LET new == Write(a.bytes, pos, piece)
          IN /\ new \in Seq(Symbols) /\ Len(new) = Len(a.bytes)
             /\ \A i \in 1 .. Len(piece) : new[pos + i] = piece[i]
             /\ \A i \in 1 .. Len(a.bytes) :
                  i <= pos \/ pos + Len(piece) < i => new[i] = a.bytes[i]
      BY <1>1, <2>1, WriteFacts
    <3> QED BY <1>1, <3>1
  <2>3. ~ (~ a.fits \/ a.length + Len(piece) > room)
    BY <1>1, <1>2, <1>4
  <2>4. next = [fits |-> a.fits, length |-> a.length + Len(piece), bytes |-> bytes]
    <3>1. next = [a EXCEPT !.bytes = Write(@, low + a.length, piece), !.length = @ + Len(piece)]
      BY <2>3 DEF AppendTurn
    <3> HIDE DEF next
    <3> QED BY <1>1, <3>1
  <2> HIDE DEF bytes
  <2>5. a.length + Len(piece) \in 0 .. room
    BY <1>1, <1>2, <1>4
  <2>6. next \in Appending(room)
    BY <1>1, <2>2, <2>4, <2>5 DEF Appending
  <2>7. next.fits = a.fits /\ next.length = a.length + Len(piece) /\ next.bytes = bytes
    BY <2>4
  <2> HIDE DEF next
  <2> QED BY <1>4, <2>2, <2>6, <2>7 DEF next
<1> HIDE DEF next, going
<1> QED BY <1>3, <1>4 DEF next, going

(* The states of AppendAll after each piece. *)
AppendStates(g, low, room, length, pieces) ==
  /\ g[0] = AppendBase(length)
  /\ \A k \in 0 .. Len(pieces) : g[k] \in Appending(room)
  /\ \A k \in 1 .. Len(pieces) : g[k] = AppendTurn(low, room, g[k - 1], pieces[k])

LEMMA AppendHasStates ==
  ASSUME NEW low, NEW room, NEW length, NEW pieces, Appends(low, room, length, pieces)
  PROVE  \E g : /\ AppendStates(g, low, room, length, pieces)
                /\ AppendAll(low, room, length, pieces) = g[Len(pieces)]
<1> DEFINE n == Len(pieces)
           A == Appending(room)
           base == AppendBase(length)
           turn == [p \in A \X (1 .. n) |-> AppendTurn(low, room, p[1], pieces[p[2]])]
<1>1. /\ n \in Nat /\ DOMAIN pieces = 1 .. n /\ \A i \in 1 .. n : pieces[i] \in Seq(Symbols)
      /\ Capacity \in Nat /\ low \in Nat /\ room \in Nat /\ low + room <= Capacity
      /\ length \in 0 .. room /\ memory \in Seq(Symbols) /\ Len(memory) = Capacity
  BY DEF Appends
<1> HIDE DEF n
<1>2. base \in A
  BY <1>1 DEF AppendBase, Appending
<1>3. ASSUME NEW a \in A, NEW i \in 1 .. n
      PROVE  /\ turn[<<a, i>>] = AppendTurn(low, room, a, pieces[i])
             /\ turn[<<a, i>>] \in A
  <2>1. turn[<<a, i>>] = AppendTurn(low, room, a, pieces[i])
    OBVIOUS
  <2>2. AppendTurn(low, room, a, pieces[i]) \in A
    <3>1. pieces[i] \in Seq(Symbols)
      BY <1>1
    <3> QED BY <1>1, <3>1, TurnFacts
  <2> HIDE DEF turn, A
  <2> QED BY <2>1, <2>2
<1> HIDE DEF A, turn, base
<1>4. PICK h : Folds(h, A, base, turn, n)
  BY <1>1, <1>2, <1>3, FoldExists DEF StepsIn
<1>5. ASSUME NEW t \in SUBSET (1 .. n)
      PROVE  h[t] = IF t = {} THEN base
                    ELSE AppendTurn(low, room, h[t \ {Max(t)}], pieces[Max(t)])
  <2>1. CASE t = {}
    BY <1>4, <2>1 DEF Folds
  <2>2. CASE t # {}
    <3>1. Max(t) \in 1 .. n /\ t \ {Max(t)} \in SUBSET (1 .. n) /\ Max(t) = Max(t)
      BY <1>1, <2>2, MaxOfPlaces
    <3>2. h[t \ {Max(t)}] \in A /\ h[t] = turn[<<h[t \ {Max(t)}], Max(t)>>]
      BY <1>4, <2>2, <3>1 DEF Folds
    <3> QED BY <1>3, <2>2, <3>1, <3>2
  <2> QED BY <2>1, <2>2
<1>6. \E f : AppendFolds(f, low, room, length, pieces)
  <2>1. h = [t \in SUBSET (1 .. n) |->
               IF t = {} THEN base
               ELSE AppendTurn(low, room, h[t \ {Max(t)}], pieces[Max(t)])]
    BY <1>4, <1>5 DEF Folds
  <2>2. AppendFolds(h, low, room, length, pieces)
    BY <1>1, <2>1, Zenon DEF AppendFolds, base
  <2> QED BY <2>2
<1> DEFINE f == CHOOSE e : AppendFolds(e, low, room, length, pieces)
<1>7. AppendFolds(f, low, room, length, pieces)
  BY <1>6, Zenon
<1>8. AppendAll(low, room, length, pieces) = f[1 .. n]
  BY <1>1, AppendIsFold
<1> HIDE DEF f
<1>9. Repeats(f, A, base, turn, n)
  <2>1. \A t \in SUBSET (1 .. n) :
          f[t] = IF t = {} THEN base
                 ELSE AppendTurn(low, room, f[t \ {Max(t)}], pieces[Max(t)])
    BY <1>1, <1>7, Zenon DEF AppendFolds, base
  <2>2. f[{}] = base
    BY <2>1
  <2>3. ASSUME NEW m \in 1 .. n, f[1 .. m - 1] \in A
        PROVE  f[1 .. m] = turn[<<f[1 .. m - 1], m>>]
    <3> DEFINE t == 1 .. m
    <3>1. t \in SUBSET (1 .. n) /\ t # {} /\ Max(t) = m /\ t \ {m} = 1 .. m - 1
      BY <1>1, PlacesUpTo
    <3> HIDE DEF t
    <3>2. f[t] = AppendTurn(low, room, f[1 .. m - 1], pieces[m])
      BY <2>1, <3>1
    <3> QED BY <1>3, <2>3, <3>2 DEF t
  <2> QED BY <2>2, <2>3 DEF Repeats
<1>10. f[1 .. n] = h[1 .. n]
  BY <1>1, <1>4, <1>9, FoldUnique
<1>11. /\ h[1 .. 0] = base
       /\ \A k \in 1 .. n : h[1 .. k] = turn[<<h[1 .. k - 1], k>>] /\ h[1 .. k - 1] \in A
       /\ h[1 .. n] \in A
  BY <1>1, <1>4, FoldPrefixes
<1> DEFINE g == [k \in 0 .. n |-> h[1 .. k]]
<1>12. \A k \in 0 .. n : g[k] = h[1 .. k]
  OBVIOUS
<1>13. g[0] = base /\ g[n] = h[1 .. n]
  BY <1>1, <1>11, <1>12
<1>14. ASSUME NEW k \in 0 .. n
       PROVE  g[k] \in A
  <2>1. CASE k = n
    BY <1>11, <1>12, <2>1
  <2>2. CASE k # n
    <3>1. k + 1 \in 1 .. n /\ (k + 1) - 1 = k
      BY <1>1, <2>2
    <3>2. h[1 .. (k + 1) - 1] \in A
      BY <1>11, <3>1
    <3> HIDE DEF g
    <3> QED BY <1>12, <3>1, <3>2
  <2> QED BY <2>1, <2>2
<1>15. ASSUME NEW k \in 1 .. n
       PROVE  g[k] = AppendTurn(low, room, g[k - 1], pieces[k])
  <2>1. k \in 0 .. n /\ k - 1 \in 0 .. n
    BY <1>1
  <2>2. h[1 .. k] = turn[<<h[1 .. k - 1], k>>] /\ h[1 .. k - 1] \in A
    BY <1>11
  <2> HIDE DEF g
  <2> QED BY <1>3, <1>12, <2>1, <2>2
<1> HIDE DEF g
<1>16. AppendStates(g, low, room, length, pieces)
  BY <1>13, <1>14, <1>15 DEF AppendStates, n, A, base
<1> QED BY <1>8, <1>10, <1>13, <1>16 DEF n

(* An append writes the pieces, one after the other, where the output ends, *)
(* and nowhere else than in its room; it fails just when there is too       *)
(* little of that.                                                          *)
LEMMA AppendAllFacts ==
  ASSUME NEW low, NEW room, NEW length, NEW pieces, Appends(low, room, length, pieces)
  PROVE  LET done == AppendAll(low, room, length, pieces)
             whole == FlattenSeq(pieces)
         IN /\ done.fits \in BOOLEAN /\ done.length \in Nat
            /\ done.bytes \in Seq(Symbols) /\ Len(done.bytes) = Capacity
            /\ \A i \in 1 .. Capacity :
                 i <= low + length \/ low + room < i => done.bytes[i] = memory[i]
            /\ whole \in Seq(Symbols)
            /\ done.fits <=> length + Len(whole) <= room
            /\ done.fits =>
                 /\ done.length = length + Len(whole)
                 /\ \A i \in 1 .. Len(whole) : done.bytes[low + length + i] = whole[i]
<1> DEFINE n == Len(pieces)
           so(k) == Joined(pieces, k)
<1>1. /\ n \in Nat /\ \A i \in 1 .. n : pieces[i] \in Seq(Symbols)
      /\ Capacity \in Nat /\ low \in Nat /\ room \in Nat /\ low + room <= Capacity
      /\ length \in 0 .. room /\ pieces \in Seq(Seq(Symbols))
  BY DEF Appends
<1>2. PICK g : /\ AppendStates(g, low, room, length, pieces)
               /\ AppendAll(low, room, length, pieces) = g[n]
  BY AppendHasStates
<1>3. /\ so(0) = <<>> /\ so(n) = FlattenSeq(pieces)
      /\ \A k \in 1 .. n : so(k) = so(k - 1) \o pieces[k]
      /\ \A k \in 0 .. n : so(k) \in Seq(Symbols)
  BY <1>1, JoinedFacts
<1> HIDE DEF n, so
<1> DEFINE P(k) ==
      LET a == g[k]
          m == Len(so(k))
      IN /\ \A i \in 1 .. Capacity :
              i <= low + length \/ low + room < i => a.bytes[i] = memory[i]
         /\ length <= a.length
         /\ a.fits <=> length + m <= room
         /\ a.fits =>
              /\ a.length = length + m
              /\ \A i \in 1 .. m : a.bytes[low + length + i] = so(k)[i]
           good == {k \in 1 .. n + 1 : P(k - 1)}
<1>4. 1 \in good
  <2>1. g[0] = [fits |-> TRUE, length |-> length, bytes |-> memory]
    BY <1>2 DEF AppendStates, AppendBase
  <2>2. g[0].fits = TRUE /\ g[0].length = length /\ g[0].bytes = memory
    BY <2>1
  <2>3. Len(so(0)) = 0
    BY <1>3
  <2>4. P(0)
    <3> DEFINE a == g[0]
               m == Len(so(0))
    <3>1. a.fits = TRUE /\ a.length = length /\ a.bytes = memory /\ m = 0
      BY <2>2, <2>3
    <3> HIDE DEF a, m
    <3>2. /\ \A i \in 1 .. Capacity :
               i <= low + length \/ low + room < i => a.bytes[i] = memory[i]
          /\ length <= a.length /\ a.length = length + m /\ length + m <= room
          /\ \A i \in 1 .. m : a.bytes[low + length + i] = so(0)[i]
      BY <1>1, <3>1
    <3> QED BY <3>1, <3>2 DEF a, m
  <2> HIDE DEF P
  <2>5. P(1 - 1) /\ 1 \in 1 .. n + 1
    BY <1>1, <2>4
  <2> QED BY <2>5
<1>5. ASSUME NEW k \in 1 .. n, k \in good
      PROVE  k + 1 \in good
  <2> DEFINE a == g[k - 1]
             next == g[k]
             piece == pieces[k]
             m == Len(so(k - 1))
             p == Len(piece)
  <2>1. P(k - 1)
    <3> HIDE DEF P
    <3> QED BY <1>5
  <2>2. k - 1 \in 0 .. n /\ k \in 0 .. n
    BY <1>1
  <2>3. a \in Appending(room) /\ piece \in Seq(Symbols) /\ next = AppendTurn(low, room, a, piece)
    BY <1>1, <1>2, <2>2 DEF AppendStates, n
  <2>4. a.fits \in BOOLEAN /\ a.length \in 0 .. room /\ p \in Nat /\ m \in Nat
    BY <1>3, <2>2, <2>3 DEF Appending
  <2> DEFINE going == a.fits /\ a.length + p <= room
  <2>5. /\ next \in Appending(room)
        /\ next.fits <=> going
        /\ ~ going => next.length = a.length /\ next.bytes = a.bytes
        /\ going =>
             /\ next.length = a.length + p
             /\ \A i \in 1 .. p : next.bytes[low + a.length + i] = piece[i]
             /\ \A i \in 1 .. Capacity :
                  i <= low + a.length \/ low + a.length + p < i =>
                    next.bytes[i] = a.bytes[i]
    <3> HIDE DEF a, next, piece
    <3> QED BY <1>1, <2>3, TurnFacts
  <2>6. /\ so(k) = so(k - 1) \o piece /\ Len(so(k)) = m + p
        /\ \A i \in 1 .. m + p : so(k)[i] = IF i <= m THEN so(k - 1)[i] ELSE piece[i - m]
    <3>1. so(k) = so(k - 1) \o piece /\ so(k - 1) \in Seq(Symbols)
      BY <1>3, <2>2
    <3> HIDE DEF piece
    <3>2. /\ Len(so(k - 1) \o piece) = m + p
          /\ \A i \in 1 .. m + p :
               (so(k - 1) \o piece)[i] = IF i <= m THEN so(k - 1)[i] ELSE piece[i - m]
      BY <2>3, <3>1, Concatenated
    <3> QED BY <3>1, <3>2
  <2>7. /\ \A i \in 1 .. Capacity :
             i <= low + length \/ low + room < i => a.bytes[i] = memory[i]
        /\ length <= a.length
        /\ a.fits <=> length + m <= room
        /\ a.fits =>
             /\ a.length = length + m
             /\ \A i \in 1 .. m : a.bytes[low + length + i] = so(k - 1)[i]
    BY <2>1
  <2> HIDE DEF a, next, piece, m, p, P
  <2>8. CASE ~ going
    <3>1. next.fits <=> length + (m + p) <= room
      BY <1>1, <2>4, <2>5, <2>7, <2>8
    <3>2. ~ next.fits
      BY <2>5, <2>8
    <3>3. next.length = a.length /\ next.bytes = a.bytes
      BY <2>5, <2>8
    <3>4. P(k)
      BY <2>6, <2>7, <3>1, <3>2, <3>3 DEF P, next
    <3> QED BY <1>1, <3>4 DEF good
  <2>9. CASE going
    <3>1. /\ a.length = length + m /\ length + m <= room
          /\ \A i \in 1 .. m : a.bytes[low + length + i] = so(k - 1)[i]
      BY <2>7, <2>9
    <3>2. /\ next.fits /\ next.length = length + (m + p)
          /\ \A i \in 1 .. p : next.bytes[low + (length + m) + i] = piece[i]
          /\ \A i \in 1 .. Capacity :
               i <= low + (length + m) \/ low + (length + m) + p < i =>
                 next.bytes[i] = a.bytes[i]
      BY <1>1, <2>4, <2>5, <2>9, <3>1
    <3>3. length + (m + p) <= room
      BY <1>1, <2>4, <2>9, <3>1
    <3>4. ASSUME NEW i \in 1 .. Capacity, i <= low + length \/ low + room < i
          PROVE  next.bytes[i] = memory[i]
      <4>1. i <= low + (length + m) \/ low + (length + m) + p < i
        BY <1>1, <2>4, <3>3, <3>4
      <4> QED BY <2>7, <3>2, <3>4, <4>1
    <3>5. ASSUME NEW i \in 1 .. m + p
          PROVE  next.bytes[low + length + i] = so(k)[i]
      <4>1. CASE i <= m
        <5>1. i \in 1 .. m /\ low + length + i \in 1 .. Capacity
              /\ low + length + i <= low + (length + m)
          BY <1>1, <2>4, <3>3, <4>1
        <5> QED BY <2>6, <3>1, <3>2, <4>1, <5>1
      <4>2. CASE ~ (i <= m)
        <5>1. i - m \in 1 .. p /\ low + (length + m) + (i - m) = low + length + i
          BY <1>1, <2>4, <4>2
        <5>2. next.bytes[low + (length + m) + (i - m)] = piece[i - m]
          BY <3>2, <5>1
        <5>3. next.bytes[low + length + i] = piece[i - m]
          BY <5>1, <5>2
        <5> QED BY <2>6, <4>2, <5>3
      <4> QED BY <4>1, <4>2
    <3>6. length <= next.length
      BY <1>1, <2>4, <3>2
    <3>7. P(k)
      BY <2>6, <3>2, <3>3, <3>4, <3>5, <3>6 DEF P, next
    <3> QED BY <1>1, <3>7 DEF good
  <2> QED BY <2>8, <2>9
<1>6. P(n)
  <2> HIDE DEF P
  <2>1. \A k \in 1 .. n + 1 : k \in good
    <3> HIDE DEF good
    <3> QED BY <1>1, <1>4, <1>5, Stepwise
  <2>2. n + 1 \in 1 .. n + 1 /\ (n + 1) - 1 = n
    BY <1>1
  <2> QED BY <2>1, <2>2
<1>7. g[n] \in Appending(room)
  BY <1>1, <1>2 DEF AppendStates, n
<1>8. g[n].fits \in BOOLEAN /\ g[n].length \in Nat /\ g[n].bytes \in Seq(Symbols)
      /\ Len(g[n].bytes) = Capacity
  BY <1>1, <1>7 DEF Appending
<1>9. so(n) = FlattenSeq(pieces) /\ so(n) \in Seq(Symbols)
  BY <1>1, <1>3
<1> QED BY <1>2, <1>6, <1>8, <1>9
-----------------------------------------------------------------------------
(* The parts of the types, each by itself. *)
LEMMA ArenaFacts ==
  ASSUME ArenaTypes
  PROVE  /\ Base \in Nat /\ Capacity \in Nat /\ offset \in Nat /\ offset <= Capacity
         /\ memory \in Seq(Symbols) /\ Len(memory) = Capacity
         /\ \A o \in Outputs :
              /\ outputs[o] \in OutputState /\ drafts[o] \in Seq(Symbols)
              /\ outputs[o].mark \in Nat /\ outputs[o].required \in Nat
              /\ outputs[o].length \in Nat /\ OutputEnd(o) \in Nat
              /\ outputs[o].mark <= Capacity /\ outputs[o].required <= Capacity
              /\ outputs[o].length <= Capacity
              /\ OutputEnd(o) = outputs[o].mark + outputs[o].required
         /\ Active \subseteq Outputs /\ Holders \subseteq Active
<1>1. Base \in Nat /\ Capacity \in Nat
  BY ViewOutputAssumption
<1>2. ASSUME NEW o \in Outputs
      PROVE  /\ outputs[o] \in OutputState /\ drafts[o] \in Seq(Symbols)
             /\ outputs[o].mark \in 0 .. Capacity /\ outputs[o].required \in 0 .. Capacity
             /\ outputs[o].length \in 0 .. Capacity
  <2>1. outputs[o] \in OutputState /\ drafts[o] \in Seq(Symbols)
    BY DEF ArenaTypes
  <2> QED BY <2>1 DEF OutputState
<1> QED BY <1>1, <1>2 DEF ArenaTypes, Active, Holders, OutputEnd

(* What a chunk that fits is. *)
LEMMA RoomFacts ==
  ASSUME ArenaTypes, NEW size \in Nat, NEW alignment \in Nat,
         AllocStatus(size, alignment) = "ok"
  PROVE  /\ alignment # 0 /\ AlignedOffset(alignment) \in Nat
         /\ offset <= AlignedOffset(alignment) /\ AlignedOffset(alignment) + size <= Capacity
         /\ (Base + AlignedOffset(alignment)) % alignment = 0
         /\ alignment = 1 => AlignedOffset(alignment) = offset
<1>1. Base \in Nat /\ Capacity \in Nat /\ offset \in Nat
  BY ArenaFacts
<1>2. alignment # 0 /\ ~ (AlignedOffset(alignment) + size > Capacity)
  BY DEF AllocStatus
<1> DEFINE x == Base + offset
           up == AlignUp(x, alignment)
<1>3. /\ up \in Nat /\ x <= up /\ up <= x + alignment - 1
      /\ up % alignment = 0
  <2>1. x \in Nat /\ alignment \in Nat \ {0}
    BY <1>1, <1>2
  <2> HIDE DEF x
  <2> QED BY <2>1, AlignUpFacts
<1>4. AlignedOffset(alignment) = up - Base
  BY DEF AlignedOffset
<1>5. Base + AlignedOffset(alignment) = up
  <2> HIDE DEF up
  <2> QED BY <1>1, <1>3, <1>4
<1> HIDE DEF up
<1> QED BY <1>1, <1>2, <1>3, <1>4, <1>5
-----------------------------------------------------------------------------
(* A region of its own above the frontier is apart from all others. *)
LEMMA RegionAdded ==
  ASSUME ArenaTypes, RegionsApart, HoldersApart, NEW region,
         region.at \in Nat, region.length \in Nat, offset <= region.at,
         EndOf(region) <= offset', offset' \in 0 .. Capacity, outputs' = outputs,
         Regions' \subseteq Regions \union Keep(region)
  PROVE  RegionsApart' /\ HoldersApart'
<1>1. /\ offset \in Nat /\ Capacity \in Nat /\ Active \subseteq Outputs /\ Holders \subseteq Active
      /\ \A o \in Outputs : outputs[o].mark \in Nat /\ OutputEnd(o) \in Nat
  BY ArenaFacts
<1>2. offset' \in Nat /\ offset <= offset' /\ EndOf(region) = region.at + region.length
  BY <1>1 DEF EndOf
<1>3. Holders' = Holders /\ \A o : OutputEnd(o)' = OutputEnd(o)
  BY DEF Holders, Active, OutputEnd
<1>4. ASSUME NEW r \in Regions'
      PROVE  r \in Regions \/ (r = region /\ r.length > 0)
  BY DEF Keep
<1>5. \A r \in Regions : /\ r.at \in Nat /\ r.length \in Nat \ {0} /\ EndOf(r) <= offset
                         /\ EndOf(r) \in Nat
  BY DEF RegionsApart, EndOf
<1>6. ASSUME NEW r \in Regions'
      PROVE  r.at \in Nat /\ r.length \in Nat \ {0} /\ EndOf(r) <= offset'
  <2>1. CASE r \in Regions
    BY <1>1, <1>2, <1>5, <2>1
  <2>2. CASE r = region /\ r.length > 0
    BY <1>2, <2>2
  <2> QED BY <1>4, <2>1, <2>2
<1>7. ASSUME NEW r \in Regions', NEW s \in Regions', r # s
      PROVE  Apart(r.at, EndOf(r), s.at, EndOf(s))
  <2>1. CASE r \in Regions /\ s \in Regions
    BY <1>7, <2>1 DEF RegionsApart
  <2>2. CASE r \in Regions /\ s = region
    BY <1>1, <1>5, <2>2 DEF Apart
  <2>3. CASE r = region /\ s \in Regions
    BY <1>1, <1>5, <2>3 DEF Apart
  <2> QED BY <1>4, <1>7, <2>1, <2>2, <2>3
<1>8. ASSUME NEW r \in Regions', NEW o \in Holders
      PROVE  Apart(r.at, EndOf(r), outputs[o].mark, OutputEnd(o))
  <2>1. CASE r \in Regions
    BY <2>1 DEF HoldersApart
  <2>2. CASE r = region
    <3>1. OutputEnd(o) <= offset /\ o \in Outputs
      BY <1>1 DEF HoldersApart
    <3> QED BY <1>1, <2>2, <3>1 DEF Apart
  <2> QED BY <1>4, <2>1, <2>2
<1>9. \A r : EndOf(r)' = EndOf(r)
  BY DEF EndOf
<1>10. RegionsApart'
  BY <1>6, <1>7, <1>9 DEF RegionsApart, Apart, EndOf
<1>11. /\ \A o \in Holders : OutputEnd(o) <= offset'
       /\ \A o, p \in Holders :
            o # p => Apart(outputs[o].mark, OutputEnd(o), outputs[p].mark, OutputEnd(p))
  BY <1>1, <1>2 DEF HoldersApart
<1>12. HoldersApart'
  BY <1>3, <1>8, <1>11 DEF HoldersApart, Apart, EndOf, OutputEnd
<1> QED BY <1>10, <1>12

(* The frontier goes back no further than to the end of what is kept. *)
LEMMA FrontierBack ==
  ASSUME RegionsApart, HoldersApart, Regions' \subseteq Regions, Holders' \subseteq Holders,
         \A o \in Holders' : outputs'[o] = outputs[o],
         \A r \in Regions' : EndOf(r) <= offset',
         \A o \in Holders' : OutputEnd(o) <= offset'
  PROVE  RegionsApart' /\ HoldersApart'
<1>1. \A o \in Holders' : OutputEnd(o)' = OutputEnd(o) /\ outputs'[o].mark = outputs[o].mark
  BY DEF OutputEnd
<1>2. /\ \A r \in Regions' : r.at \in Nat /\ r.length \in Nat \ {0} /\ EndOf(r) <= offset'
      /\ \A r, s \in Regions' : r # s => Apart(r.at, EndOf(r), s.at, EndOf(s))
  BY DEF RegionsApart
<1>3. RegionsApart'
  BY <1>2 DEF RegionsApart, Apart, EndOf
<1>4. /\ \A o \in Holders' : OutputEnd(o) <= offset'
      /\ \A o, p \in Holders' :
           o # p => Apart(outputs[o].mark, OutputEnd(o), outputs[p].mark, OutputEnd(p))
      /\ \A r \in Regions', o \in Holders' :
           Apart(r.at, EndOf(r), outputs[o].mark, OutputEnd(o))
  BY DEF HoldersApart
<1>5. HoldersApart'
  BY <1>1, <1>4 DEF HoldersApart, Apart, EndOf, OutputEnd
<1> QED BY <1>3, <1>5
-----------------------------------------------------------------------------
(* A call that is refused changes nothing of it. *)
LEMMA NothingChanged ==
  ASSUME ArenaInvariant,
         UNCHANGED <<offset, memory, outputs, chunks, bodies, drafts, serving>>
  PROVE  ArenaInvariant'
<1>1. /\ Regions' = Regions /\ Active' = Active /\ Holders' = Holders
      /\ \A o : OutputEnd(o)' = OutputEnd(o)
  BY DEF Regions, Active, Holders, OutputEnd
<1>2. ArenaTypes' /\ ServingScanned' /\ ChunksAligned'
  BY DEF ArenaInvariant, ArenaTypes, ServingScanned, ChunksAligned
<1>3. RegionsApart' /\ HoldersApart'
  BY <1>1 DEF ArenaInvariant, RegionsApart, HoldersApart, EndOf, OutputEnd, Apart
<1>4. BodiesThere' /\ DraftsThere'
  BY <1>1 DEF ArenaInvariant, BodiesThere, DraftsThere, OutputEnd
<1> QED BY <1>2, <1>3, <1>4 DEF ArenaInvariant

(* An allocation puts the frontier behind a chunk of its own. *)
LEMMA AllocKeeps ==
  ASSUME ArenaInvariant, NEW size \in Lengths, NEW alignment \in Alignments,
         Alloc(size, alignment), serving' = serving
  PROVE  ArenaInvariant'
<1> DEFINE pos == AlignedOffset(alignment)
           region == [at |-> pos, length |-> size, alignment |-> alignment]
<1>1. size \in Nat /\ alignment \in Nat
  BY ViewOutputAssumption
<1>2. ArenaTypes /\ RegionsApart /\ HoldersApart /\ ChunksAligned /\ BodiesThere /\ DraftsThere
      /\ ServingScanned
  BY DEF ArenaInvariant
<1>3. CASE AllocStatus(size, alignment) # "ok"
  BY <1>3, NothingChanged DEF Alloc
<1>4. CASE AllocStatus(size, alignment) = "ok"
  <2>1. /\ offset' = pos + size /\ chunks' = chunks \union Keep(region)
        /\ UNCHANGED <<memory, outputs, bodies, drafts, serving>>
    BY <1>4 DEF Alloc
  <2>2. /\ alignment # 0 /\ pos \in Nat /\ offset <= pos /\ pos + size <= Capacity
        /\ (Base + pos) % alignment = 0
    BY <1>1, <1>2, <1>4, RoomFacts
  <2> HIDE DEF pos
  <2>3. offset' \in 0 .. Capacity
    BY <1>1, <2>1, <2>2
  <2>4. region.at = pos /\ region.length = size /\ region.alignment = alignment
        /\ EndOf(region) = pos + size
    BY DEF EndOf
  <2> HIDE DEF region
  <2>5. Regions' \subseteq Regions \union Keep(region)
    BY <2>1 DEF Regions
  <2>6. RegionsApart' /\ HoldersApart'
    <3>1. region.at \in Nat /\ region.length \in Nat /\ offset <= region.at
          /\ EndOf(region) <= offset'
      BY <1>1, <2>1, <2>2, <2>3, <2>4
    <3> QED BY <1>2, <2>1, <2>3, <2>5, <3>1, RegionAdded
  <2>7. ArenaTypes'
    BY <1>2, <2>1, <2>3 DEF ArenaTypes
  <2>8. ChunksAligned'
    <3> SUFFICES ASSUME NEW c \in chunks'
                 PROVE  c.alignment \in Nat \ {0} /\ (Base + c.at) % c.alignment = 0
      BY DEF ChunksAligned
    <3>1. CASE c \in chunks
      BY <1>2, <3>1 DEF ChunksAligned
    <3>2. CASE c \in Keep(region)
      <4>1. c = region
        BY <3>2 DEF Keep
      <4> QED BY <1>1, <2>2, <2>4, <4>1
    <3> QED BY <2>1, <3>1, <3>2
  <2>9. BodiesThere' /\ DraftsThere' /\ ServingScanned'
    BY <1>2, <2>1 DEF BodiesThere, DraftsThere, ServingScanned, Active, OutputEnd
  <2> QED BY <2>6, <2>7, <2>8, <2>9 DEF ArenaInvariant
<1> QED BY <1>3, <1>4

(* Memory is given back from the top, not below an output at work. *)
LEMMA ArenaRewindKeeps ==
  ASSUME ArenaInvariant, NEW low \in 0 .. Capacity, Rewind(low), serving' = serving
  PROVE  ArenaInvariant'
<1>1. ArenaTypes /\ RegionsApart /\ HoldersApart /\ ChunksAligned /\ BodiesThere /\ DraftsThere
      /\ ServingScanned
  BY DEF ArenaInvariant
<1>2. /\ \A o \in Active : OutputEnd(o) <= low
      /\ offset' = (IF low <= offset THEN low ELSE offset)
      /\ chunks' = {c \in chunks : EndOf(c) <= low}
      /\ bodies' = {b \in bodies : EndOf(b) <= low}
      /\ UNCHANGED <<memory, outputs, drafts, serving>>
  BY DEF Rewind
<1>3. offset \in Nat /\ Capacity \in Nat /\ offset <= Capacity /\ Holders \subseteq Active
  BY <1>1, ArenaFacts
<1>4. offset' \in 0 .. Capacity
  BY <1>2, <1>3
<1>5. Regions' \subseteq Regions /\ \A r \in Regions' : EndOf(r) <= low
  BY <1>2 DEF Regions
<1>6. Holders' = Holders /\ Active' = Active /\ \A o : OutputEnd(o)' = OutputEnd(o)
  BY <1>2 DEF Holders, Active, OutputEnd
<1>7. \A r \in Regions' : EndOf(r) <= offset'
  BY <1>1, <1>2, <1>5 DEF RegionsApart
<1>8. \A o \in Holders' : OutputEnd(o) <= offset'
  BY <1>1, <1>2, <1>3, <1>6 DEF HoldersApart
<1>9. RegionsApart' /\ HoldersApart'
  BY <1>1, <1>2, <1>5, <1>6, <1>7, <1>8, FrontierBack
<1>10. ArenaTypes' /\ ServingScanned'
  BY <1>1, <1>2, <1>4 DEF ArenaTypes, ServingScanned
<1>11. ChunksAligned' /\ BodiesThere'
  BY <1>1, <1>2 DEF ChunksAligned, BodiesThere
<1>12. DraftsThere'
  BY <1>1, <1>2, <1>6 DEF DraftsThere, OutputEnd
<1> QED BY <1>9, <1>10, <1>11, <1>12 DEF ArenaInvariant

(* With the next request nobody holds anything. *)
LEMMA NobodyHolds ==
  ASSUME offset' = 0, chunks' = {}, bodies' = {}, outputs' = [o \in Outputs |-> Idle],
         drafts' = [o \in Outputs |-> <<>>], memory' \in Seq(Symbols), Len(memory') = Capacity,
         ServingScanned'
  PROVE  ArenaInvariant'
<1>1. Capacity \in Nat
  BY ViewOutputAssumption
<1>2. Active' = {} /\ Holders' = {}
  <2>1. \A o \in Outputs : outputs'[o].state # "ACTIVE"
    BY DEF Idle
  <2> QED BY <2>1 DEF Active, Holders
<1>3. ArenaTypes'
  <2>1. Idle \in OutputState
    BY <1>1 DEF Idle, OutputState
  <2>2. outputs' \in [Outputs -> OutputState]
    BY <2>1
  <2>3. drafts' \in [Outputs -> Seq(Symbols)] /\ offset' \in 0 .. Capacity
    BY <1>1
  <2>4. OutputState' = OutputState
    BY DEF OutputState
  <2> QED BY <2>2, <2>3, <2>4 DEF ArenaTypes
<1>4. RegionsApart' /\ HoldersApart' /\ ChunksAligned' /\ BodiesThere' /\ DraftsThere'
  BY <1>2 DEF RegionsApart, HoldersApart, ChunksAligned, BodiesThere, DraftsThere, Regions
<1> QED BY <1>3, <1>4 DEF ArenaInvariant

LEMMA ResetKeeps ==
  ASSUME ArenaInvariant, Reset, serving' = serving
  PROVE  ArenaInvariant'
<1>1. memory' = memory /\ memory \in Seq(Symbols) /\ Len(memory) = Capacity /\ ServingScanned
  BY DEF Reset, ArenaInvariant, ArenaTypes
<1>2. ServingScanned'
  BY <1>1 DEF ServingScanned
<1> QED BY <1>1, <1>2, NobodyHolds DEF Reset
-----------------------------------------------------------------------------
(* An output that is begun takes the memory from the frontier on. *)
LEMMA BeginKeeps ==
  ASSUME ArenaInvariant, NEW o \in Outputs, NEW length \in Lengths, Begin(o, length),
         serving' = serving
  PROVE  ArenaInvariant'
<1> DEFINE status == IF outputs[o].state = "ACTIVE" THEN "einval" ELSE AllocStatus(length, 1)
           begun == [state |-> "ACTIVE", mark |-> offset, required |-> length, length |-> 0]
<1>1. length \in Nat
  BY ViewOutputAssumption
<1>2. ArenaTypes /\ RegionsApart /\ HoldersApart /\ ChunksAligned /\ BodiesThere /\ DraftsThere
      /\ ServingScanned
  BY DEF ArenaInvariant
<1>3. CASE status # "ok"
  <2>1. UNCHANGED <<offset, memory, outputs, chunks, bodies, drafts, serving>>
    BY <1>3 DEF Begin
  <2> QED BY <2>1, NothingChanged
<1>4. CASE status = "ok"
  <2>1. outputs[o].state # "ACTIVE" /\ AllocStatus(length, 1) = "ok"
    BY <1>4
  <2>2. /\ outputs' = [outputs EXCEPT ![o] = begun]
        /\ offset' = offset + length /\ drafts' = [drafts EXCEPT ![o] = <<>>]
        /\ UNCHANGED <<memory, chunks, bodies, serving>>
    BY <1>4 DEF Begin
  <2>3. offset + length <= Capacity
    BY <1>1, <1>2, <2>1, RoomFacts
  <2>4. /\ offset \in Nat /\ Capacity \in Nat
        /\ outputs \in [Outputs -> OutputState] /\ drafts \in [Outputs -> Seq(Symbols)]
        /\ \A p \in Outputs : outputs[p].mark \in Nat /\ OutputEnd(p) \in Nat
        /\ Active \subseteq Outputs /\ Holders \subseteq Active
    BY <1>2, ArenaFacts DEF ArenaTypes
  <2>5. /\ begun.state = "ACTIVE" /\ begun.mark = offset /\ begun.required = length
        /\ begun.length = 0 /\ begun \in OutputState
    BY <1>1, <2>3, <2>4 DEF OutputState
  <2> HIDE DEF begun, status
  <2>6. /\ outputs'[o] = begun /\ drafts'[o] = <<>>
        /\ \A p \in Outputs : p # o => outputs'[p] = outputs[p] /\ drafts'[p] = drafts[p]
    BY <2>2, <2>4
  <2>7. /\ OutputEnd(o)' = offset + length
        /\ \A p \in Outputs : p # o => OutputEnd(p)' = OutputEnd(p)
    BY <2>5, <2>6 DEF OutputEnd
  <2>8. /\ Active' = Active \union {o} /\ o \notin Active
    BY <2>1, <2>4, <2>5, <2>6 DEF Active
  <2>9. Holders' \subseteq Holders \union {o} /\ o \notin Holders
    BY <2>4, <2>6, <2>8 DEF Holders
  <2>10. ArenaTypes'
    <3>1. outputs' \in [Outputs -> OutputState]
      BY <2>2, <2>4, <2>5
    <3>2. drafts' \in [Outputs -> Seq(Symbols)]
      <4>1. <<>> \in Seq(Symbols)
        OBVIOUS
      <4> QED BY <2>2, <2>4, <4>1
    <3>3. offset' \in 0 .. Capacity /\ OutputState' = OutputState
      BY <1>1, <2>2, <2>3, <2>4 DEF OutputState
    <3> QED BY <1>2, <2>2, <3>1, <3>2, <3>3 DEF ArenaTypes
  <2>11. Regions' = Regions /\ \A r \in Regions : EndOf(r) <= offset /\ EndOf(r) <= offset'
    <3>1. \A r \in Regions : EndOf(r) <= offset /\ EndOf(r) \in Nat
      BY <1>2 DEF RegionsApart, EndOf
    <3> QED BY <1>1, <2>2, <2>4, <3>1 DEF Regions
  <2>12. RegionsApart'
    BY <1>2, <2>11 DEF RegionsApart, Apart, EndOf
  <2>13. HoldersApart'
    <3>1. ASSUME NEW p \in Holders, p # o
          PROVE  /\ outputs'[p].mark = outputs[p].mark /\ OutputEnd(p)' = OutputEnd(p)
                 /\ OutputEnd(p) <= offset /\ OutputEnd(p) <= offset' /\ OutputEnd(p) \in Nat
      BY <1>1, <1>2, <2>2, <2>4, <2>6, <2>7, <3>1 DEF HoldersApart
    <3>2. outputs'[o].mark = offset /\ OutputEnd(o)' = offset' /\ offset' \in Nat
      BY <1>1, <2>2, <2>4, <2>5, <2>6, <2>7
    <3>3. \A p \in Holders' : OutputEnd(p)' <= offset'
      BY <2>9, <3>1, <3>2
    <3>4. ASSUME NEW p \in Holders', NEW q \in Holders', p # q
          PROVE  Apart(outputs'[p].mark, OutputEnd(p)', outputs'[q].mark, OutputEnd(q)')
      <4>1. CASE p # o /\ q # o
        <5>1. p \in Holders /\ q \in Holders
          BY <2>9, <4>1
        <5>2. Apart(outputs[p].mark, OutputEnd(p), outputs[q].mark, OutputEnd(q))
          BY <1>2, <3>4, <5>1 DEF HoldersApart
        <5> QED BY <3>1, <4>1, <5>1, <5>2
      <4>2. CASE p # o /\ q = o
        BY <2>9, <3>1, <3>2, <4>2 DEF Apart
      <4>3. CASE p = o /\ q # o
        BY <2>9, <3>1, <3>2, <4>3 DEF Apart
      <4> QED BY <3>4, <4>1, <4>2, <4>3
    <3>5. ASSUME NEW r \in Regions, NEW p \in Holders'
          PROVE  Apart(r.at, EndOf(r), outputs'[p].mark, OutputEnd(p)')
      <4>1. CASE p # o
        <5>1. p \in Holders
          BY <2>9, <4>1
        <5>2. Apart(r.at, EndOf(r), outputs[p].mark, OutputEnd(p))
          BY <1>2, <5>1 DEF HoldersApart
        <5> QED BY <3>1, <4>1, <5>1, <5>2
      <4>2. CASE p = o
        BY <2>11, <3>2, <4>2 DEF Apart
      <4> QED BY <4>1, <4>2
    <3> QED BY <2>11, <3>3, <3>4, <3>5 DEF HoldersApart, Apart, EndOf, OutputEnd
  <2>14. ChunksAligned' /\ BodiesThere' /\ ServingScanned'
    BY <1>2, <2>2 DEF ChunksAligned, BodiesThere, ServingScanned
  <2>15. DraftsThere'
    <3> SUFFICES ASSUME NEW p \in Active'
                 PROVE  /\ OutputEnd(p)' <= Capacity
                        /\ outputs'[p].length <= outputs'[p].required
                        /\ Len(drafts'[p]) = outputs'[p].length
                        /\ \A i \in 1 .. outputs'[p].length :
                             memory'[outputs'[p].mark + i] = drafts'[p][i]
      BY DEF DraftsThere
    <3>1. CASE p = o
      <4>1. Len(drafts'[p]) = 0 /\ outputs'[p].length = 0 /\ outputs'[p].required = length
        BY <2>5, <2>6, <3>1
      <4> QED BY <1>1, <2>3, <2>7, <3>1, <4>1
    <3>2. CASE p # o
      <4>1. p \in Active /\ p \in Outputs
        BY <2>4, <2>8, <3>2
      <4> QED BY <1>2, <2>2, <2>6, <2>7, <3>2, <4>1 DEF DraftsThere
    <3> QED BY <3>1, <3>2
  <2> QED BY <2>10, <2>12, <2>13, <2>14, <2>15 DEF ArenaInvariant
<1> QED BY <1>3, <1>4
-----------------------------------------------------------------------------
(* Who writes into the memory of an output at work changes nobody else's. *)
LEMMA OthersMemory ==
  ASSUME ArenaInvariant, NEW o \in Active, NEW new,
         \A i \in 1 .. Capacity :
           i <= outputs[o].mark \/ OutputEnd(o) < i => new[i] = memory[i]
  PROVE  /\ \A b \in bodies : \A i \in 1 .. b.length : new[b.at + i] = memory[b.at + i]
         /\ \A p \in Active : p # o =>
              \A i \in 1 .. outputs[p].length :
                new[outputs[p].mark + i] = memory[outputs[p].mark + i]
<1>1. ArenaTypes /\ RegionsApart /\ HoldersApart /\ DraftsThere
  BY DEF ArenaInvariant
<1>2. /\ offset \in Nat /\ Capacity \in Nat /\ offset <= Capacity /\ Active \subseteq Outputs
      /\ \A p \in Outputs :
           /\ outputs[p].mark \in Nat /\ outputs[p].required \in Nat /\ outputs[p].length \in Nat
           /\ OutputEnd(p) \in Nat /\ OutputEnd(p) = outputs[p].mark + outputs[p].required
  BY <1>1, ArenaFacts
<1>3. o \in Holders \/ (outputs[o].required = 0 /\ OutputEnd(o) = outputs[o].mark)
  BY <1>2 DEF Holders
<1>4. ASSUME NEW b \in bodies, NEW i \in 1 .. b.length
      PROVE  new[b.at + i] = memory[b.at + i]
  <2>1. /\ b.at \in Nat /\ b.length \in Nat /\ b.at + b.length <= offset /\ b \in Regions
        /\ EndOf(b) = b.at + b.length
    BY <1>1 DEF RegionsApart, Regions, EndOf
  <2>2. b.at + i \in 1 .. Capacity /\ b.at < b.at + i /\ b.at + i <= EndOf(b)
    BY <1>2, <2>1
  <2>3. b.at + i <= outputs[o].mark \/ OutputEnd(o) < b.at + i
    <3>1. CASE o \in Holders
      <4>1. EndOf(b) <= outputs[o].mark \/ OutputEnd(o) <= b.at
        BY <1>1, <2>1, <3>1 DEF HoldersApart, Apart
      <4> QED BY <1>2, <2>1, <2>2, <4>1
    <3>2. CASE outputs[o].required = 0 /\ OutputEnd(o) = outputs[o].mark
      BY <1>2, <2>1, <3>2
    <3> QED BY <1>3, <3>1, <3>2
  <2> QED BY <2>2, <2>3
<1>5. ASSUME NEW p \in Active, p # o, NEW i \in 1 .. outputs[p].length
      PROVE  new[outputs[p].mark + i] = memory[outputs[p].mark + i]
  <2> DEFINE k == outputs[p].mark + i
  <2>1. /\ OutputEnd(p) <= Capacity /\ outputs[p].length <= outputs[p].required
        /\ p \in Outputs /\ o \in Outputs
    BY <1>1, <1>2 DEF DraftsThere
  <2>2. /\ k \in 1 .. Capacity /\ outputs[p].mark < k /\ k <= OutputEnd(p)
        /\ outputs[p].required > 0
    BY <1>2, <2>1
  <2>3. p \in Holders
    BY <2>2 DEF Holders
  <2>4. k <= outputs[o].mark \/ OutputEnd(o) < k
    <3>1. CASE o \in Holders
      <4>1. OutputEnd(p) <= outputs[o].mark \/ OutputEnd(o) <= outputs[p].mark
        BY <1>1, <1>5, <2>3, <3>1 DEF HoldersApart, Apart
      <4> QED BY <1>2, <2>1, <2>2, <4>1
    <3>2. CASE outputs[o].required = 0 /\ OutputEnd(o) = outputs[o].mark
      BY <1>2, <2>1, <3>2
    <3> QED BY <1>3, <3>1, <3>2
  <2> QED BY <2>2, <2>4
<1> QED BY <1>4, <1>5

(* An output at the frontier gives its memory back, whatever it wrote there. *)
LEMMA AbortKeeps ==
  ASSUME ArenaInvariant, NEW o \in Outputs, ActiveValid(o), AbortValidated(o),
         memory' \in Seq(Symbols), Len(memory') = Capacity,
         \A i \in 1 .. Capacity :
           i <= outputs[o].mark \/ OutputEnd(o) < i => memory'[i] = memory[i],
         UNCHANGED <<chunks, bodies, serving>>
  PROVE  ArenaInvariant'
<1>1. ArenaTypes /\ RegionsApart /\ HoldersApart /\ ChunksAligned /\ BodiesThere /\ DraftsThere
      /\ ServingScanned
  BY DEF ArenaInvariant
<1>2. o \in Active /\ OutputEnd(o) = offset
  BY DEF ActiveValid, Active
<1>3. /\ offset \in Nat /\ Capacity \in Nat /\ offset <= Capacity
      /\ outputs \in [Outputs -> OutputState] /\ drafts \in [Outputs -> Seq(Symbols)]
      /\ Active \subseteq Outputs /\ Holders \subseteq Active
      /\ \A p \in Outputs :
           /\ outputs[p].mark \in Nat /\ outputs[p].mark <= Capacity
           /\ outputs[p].required \in Nat /\ OutputEnd(p) \in Nat
           /\ OutputEnd(p) = outputs[p].mark + outputs[p].required
  BY <1>1, ArenaFacts DEF ArenaTypes
<1>4. /\ offset' = outputs[o].mark /\ outputs' = [outputs EXCEPT ![o] = Idle]
      /\ drafts' = [drafts EXCEPT ![o] = <<>>]
  BY DEF AbortValidated
<1>5. Idle \in OutputState /\ Idle.state # "ACTIVE"
  BY <1>3 DEF Idle, OutputState
<1>6. /\ outputs'[o] = Idle
      /\ \A p \in Outputs : p # o => outputs'[p] = outputs[p] /\ drafts'[p] = drafts[p]
  BY <1>3, <1>4
<1>7. Active' = Active \ {o}
  BY <1>3, <1>5, <1>6 DEF Active
<1>8. Holders' = Holders \ {o}
  BY <1>3, <1>6, <1>7 DEF Holders
<1>9. Regions' = Regions
  BY DEF Regions
<1>10. o \in Holders \/ outputs[o].mark = offset
  BY <1>2, <1>3 DEF Holders
<1>11. ASSUME NEW r \in Regions
       PROVE  EndOf(r) <= offset'
  <2>1. r.at \in Nat /\ r.length \in Nat \ {0} /\ EndOf(r) <= offset
        /\ EndOf(r) = r.at + r.length
    BY <1>1 DEF RegionsApart, EndOf
  <2>2. CASE o \in Holders
    <3>1. EndOf(r) <= outputs[o].mark \/ offset <= r.at
      BY <1>1, <1>2, <2>2 DEF HoldersApart, Apart
    <3> QED BY <1>3, <1>4, <2>1, <3>1
  <2>3. CASE outputs[o].mark = offset
    BY <1>4, <2>1, <2>3
  <2> QED BY <1>10, <2>2, <2>3
<1>12. ASSUME NEW p \in Holders'
       PROVE  OutputEnd(p) <= offset' /\ outputs'[p] = outputs[p]
  <2>1. /\ p \in Holders /\ p # o /\ p \in Outputs /\ OutputEnd(p) <= offset
        /\ outputs[p].required > 0
    BY <1>1, <1>3, <1>8 DEF HoldersApart, Holders
  <2>2. CASE o \in Holders
    <3>1. OutputEnd(p) <= outputs[o].mark \/ offset <= outputs[p].mark
      BY <1>1, <1>2, <2>1, <2>2 DEF HoldersApart, Apart
    <3> QED BY <1>3, <1>4, <1>6, <2>1, <3>1
  <2>3. CASE outputs[o].mark = offset
    BY <1>4, <1>6, <2>1, <2>3
  <2> QED BY <1>10, <2>2, <2>3
<1>13. RegionsApart' /\ HoldersApart'
  BY <1>1, <1>8, <1>9, <1>11, <1>12, FrontierBack
<1>14. ArenaTypes'
  <2>1. outputs' \in [Outputs -> OutputState]
    BY <1>3, <1>4, <1>5
  <2>2. drafts' \in [Outputs -> Seq(Symbols)]
    <3>1. <<>> \in Seq(Symbols)
      OBVIOUS
    <3> QED BY <1>3, <1>4, <3>1
  <2>3. offset' \in 0 .. Capacity /\ OutputState' = OutputState
    BY <1>3, <1>4 DEF OutputState
  <2> QED BY <2>1, <2>2, <2>3 DEF ArenaTypes
<1>15. /\ \A b \in bodies : \A i \in 1 .. b.length : memory'[b.at + i] = memory[b.at + i]
       /\ \A p \in Active : p # o =>
            \A i \in 1 .. outputs[p].length :
              memory'[outputs[p].mark + i] = memory[outputs[p].mark + i]
  BY <1>2, OthersMemory
<1>16. BodiesThere'
  BY <1>1, <1>15 DEF BodiesThere
<1>17. DraftsThere'
  <2> SUFFICES ASSUME NEW p \in Active'
               PROVE  /\ OutputEnd(p)' <= Capacity
                      /\ outputs'[p].length <= outputs'[p].required
                      /\ Len(drafts'[p]) = outputs'[p].length
                      /\ \A i \in 1 .. outputs'[p].length :
                           memory'[outputs'[p].mark + i] = drafts'[p][i]
    BY DEF DraftsThere
  <2>1. p \in Active /\ p \in Outputs /\ p # o
    BY <1>3, <1>7
  <2>2. outputs'[p] = outputs[p] /\ drafts'[p] = drafts[p] /\ OutputEnd(p)' = OutputEnd(p)
    BY <1>6, <2>1 DEF OutputEnd
  <2> QED BY <1>1, <1>15, <2>1, <2>2 DEF DraftsThere
<1>18. ChunksAligned' /\ ServingScanned'
  BY <1>1 DEF ChunksAligned, ServingScanned
<1> QED BY <1>13, <1>14, <1>16, <1>17, <1>18 DEF ArenaInvariant
-----------------------------------------------------------------------------
(* An active output may append any pieces. *)
LEMMA ActiveAppends ==
  ASSUME ArenaInvariant, NEW o \in Outputs, ActiveValid(o), NEW pieces \in Seq(Seq(Symbols))
  PROVE  Appends(outputs[o].mark, outputs[o].required, outputs[o].length, pieces)
<1>1. ArenaTypes
  BY DEF ArenaInvariant
<1>2. /\ Capacity \in Nat /\ offset \in Nat /\ offset <= Capacity
      /\ memory \in Seq(Symbols) /\ Len(memory) = Capacity
      /\ outputs[o].mark \in Nat /\ outputs[o].required \in Nat /\ outputs[o].length \in Nat
      /\ OutputEnd(o) = outputs[o].mark + outputs[o].required
  BY <1>1, ArenaFacts
<1>3. OutputEnd(o) = offset /\ outputs[o].length <= outputs[o].required
  BY DEF ActiveValid
<1> QED BY <1>2, <1>3 DEF Appends

(* It takes them all, behind what it had, or none and gives its memory back. *)
LEMMA AppendPiecesKeeps ==
  ASSUME ArenaInvariant, NEW o \in Outputs, ActiveValid(o), NEW pieces \in Seq(Seq(Symbols)),
         AppendPieces(o, pieces), UNCHANGED <<chunks, bodies, serving>>
  PROVE  ArenaInvariant'
<1> DEFINE low == outputs[o].mark
           room == outputs[o].required
           length == outputs[o].length
           done == AppendAll(low, room, length, pieces)
           whole == FlattenSeq(pieces)
<1>1. ArenaTypes /\ RegionsApart /\ HoldersApart /\ ChunksAligned /\ BodiesThere /\ DraftsThere
      /\ ServingScanned
  BY DEF ArenaInvariant
<1>2. /\ Capacity \in Nat /\ offset \in Nat /\ offset <= Capacity
      /\ outputs \in [Outputs -> OutputState] /\ drafts \in [Outputs -> Seq(Symbols)]
      /\ Active \subseteq Outputs /\ Holders \subseteq Active
      /\ outputs[o] \in OutputState
      /\ low \in Nat /\ room \in Nat /\ length \in Nat /\ OutputEnd(o) = low + room
      /\ room <= Capacity
  BY <1>1, ArenaFacts DEF ArenaTypes
<1>3. o \in Active /\ OutputEnd(o) = offset /\ length <= room
  BY DEF ActiveValid, Active
<1>4. Appends(low, room, length, pieces)
  BY ActiveAppends
<1>5. /\ memory' = done.bytes
      /\ done.fits => /\ outputs' = [outputs EXCEPT ![o].length = done.length]
                      /\ drafts' = [drafts EXCEPT ![o] = @ \o whole]
                      /\ offset' = offset
      /\ ~ done.fits => AbortValidated(o)
  BY Zenon DEF AppendPieces
<1> HIDE DEF done, whole, low, room, length
<1>6. /\ done.fits \in BOOLEAN /\ done.length \in Nat
      /\ done.bytes \in Seq(Symbols) /\ Len(done.bytes) = Capacity
      /\ \A i \in 1 .. Capacity :
           i <= low + length \/ low + room < i => done.bytes[i] = memory[i]
      /\ whole \in Seq(Symbols)
      /\ done.fits <=> length + Len(whole) <= room
      /\ done.fits =>
           /\ done.length = length + Len(whole)
           /\ \A i \in 1 .. Len(whole) : done.bytes[low + length + i] = whole[i]
  BY <1>4, AppendAllFacts DEF done, whole
<1>7. ASSUME NEW i \in 1 .. Capacity, i <= low \/ OutputEnd(o) < i
      PROVE  memory'[i] = memory[i]
  <2>1. i <= low + length \/ low + room < i
    BY <1>2, <1>7
  <2> QED BY <1>5, <1>6, <2>1
<1>8. CASE ~ done.fits
  <2>1. AbortValidated(o) /\ memory' \in Seq(Symbols) /\ Len(memory') = Capacity
    BY <1>5, <1>6, <1>8
  <2> QED BY <1>7, <2>1, AbortKeeps DEF low
<1>9. CASE done.fits
  <2> DEFINE n == Len(whole)
             next == [outputs[o] EXCEPT !.length = done.length]
  <2>1. n \in Nat /\ done.length = length + n /\ length + n <= room
    BY <1>6, <1>9
  <2>2. /\ outputs' = [outputs EXCEPT ![o] = next]
        /\ drafts' = [drafts EXCEPT ![o] = drafts[o] \o whole] /\ offset' = offset
    BY <1>2, <1>5, <1>9
  <2>3. /\ next.state = "ACTIVE" /\ next.mark = low /\ next.required = room
        /\ next.length = length + n /\ next \in OutputState
    <3>1. outputs[o].state = "ACTIVE"
      BY DEF ActiveValid
    <3>2. done.length \in 0 .. Capacity
      BY <1>2, <2>1
    <3> QED BY <1>2, <2>1, <3>1, <3>2 DEF OutputState, low, room
  <2> HIDE DEF next
  <2>4. /\ drafts[o] \in Seq(Symbols) /\ Len(drafts[o]) = length
        /\ \A i \in 1 .. length : memory[low + i] = drafts[o][i]
    BY <1>1, <1>2, <1>3 DEF DraftsThere, low, length
  <2>5. /\ drafts[o] \o whole \in Seq(Symbols) /\ Len(drafts[o] \o whole) = length + n
        /\ \A i \in 1 .. length + n :
             (drafts[o] \o whole)[i] = IF i <= length THEN drafts[o][i] ELSE whole[i - length]
    <3>1. length = Len(drafts[o]) /\ n = Len(whole)
      BY <2>4
    <3> HIDE DEF n
    <3> QED BY <1>6, <2>4, <3>1, Concatenated
  <2>6. /\ outputs'[o] = next /\ drafts'[o] = drafts[o] \o whole
        /\ \A p \in Outputs : p # o => outputs'[p] = outputs[p] /\ drafts'[p] = drafts[p]
    BY <1>2, <2>2
  <2>7. \A p \in Outputs : /\ outputs'[p].state = outputs[p].state
                           /\ outputs'[p].mark = outputs[p].mark
                           /\ outputs'[p].required = outputs[p].required
    <3>1. outputs[o].state = "ACTIVE"
      BY DEF ActiveValid
    <3> QED BY <2>3, <2>6, <3>1 DEF low, room
  <2>8. /\ Active' = Active /\ Regions' = Regions
        /\ \A p \in Outputs : OutputEnd(p)' = OutputEnd(p)
    BY <1>2, <2>7 DEF Active, OutputEnd, Regions
  <2>9. Holders' = Holders
    BY <1>2, <2>7, <2>8 DEF Holders
  <2>10. RegionsApart'
    BY <1>1, <2>2, <2>8 DEF RegionsApart, Apart, EndOf
  <2>11. HoldersApart'
    <3>1. \A p \in Holders : p \in Outputs /\ outputs'[p].mark = outputs[p].mark
                             /\ OutputEnd(p)' = OutputEnd(p)
      BY <1>2, <2>7, <2>8
    <3> QED BY <1>1, <2>2, <2>8, <2>9, <3>1 DEF HoldersApart, Apart, EndOf
  <2>12. ArenaTypes'
    <3>1. outputs' \in [Outputs -> OutputState]
      BY <1>2, <2>2, <2>3
    <3>2. drafts' \in [Outputs -> Seq(Symbols)]
      BY <1>2, <2>2, <2>5
    <3>3. OutputState' = OutputState
      BY DEF OutputState
    <3> QED BY <1>1, <1>5, <1>6, <2>2, <3>1, <3>2, <3>3 DEF ArenaTypes
  <2>13. /\ \A b \in bodies : \A i \in 1 .. b.length : memory'[b.at + i] = memory[b.at + i]
         /\ \A p \in Active : p # o =>
              \A i \in 1 .. outputs[p].length :
                memory'[outputs[p].mark + i] = memory[outputs[p].mark + i]
    BY <1>3, <1>7, OthersMemory DEF low
  <2>14. BodiesThere'
    BY <1>1, <2>13 DEF BodiesThere
  <2>15. ASSUME NEW i \in 1 .. length + n
         PROVE  memory'[low + i] = (drafts[o] \o whole)[i]
    <3>1. CASE i <= length
      <4>1. low + i \in 1 .. Capacity /\ low + i <= low + length /\ i \in 1 .. length
        BY <1>2, <1>3, <2>1, <3>1
      <4> QED BY <1>5, <1>6, <2>4, <2>5, <3>1, <4>1
    <3>2. CASE ~ (i <= length)
      <4>1. i - length \in 1 .. n /\ low + length + (i - length) = low + i
        BY <1>2, <2>1, <3>2
      <4>2. done.bytes[low + length + (i - length)] = whole[i - length]
        BY <1>6, <1>9, <4>1 DEF n
      <4> QED BY <1>5, <2>5, <3>2, <4>1, <4>2
    <3> QED BY <3>1, <3>2
  <2>16. DraftsThere'
    <3> SUFFICES ASSUME NEW p \in Active
                 PROVE  /\ OutputEnd(p)' <= Capacity
                        /\ outputs'[p].length <= outputs'[p].required
                        /\ Len(drafts'[p]) = outputs'[p].length
                        /\ \A i \in 1 .. outputs'[p].length :
                             memory'[outputs'[p].mark + i] = drafts'[p][i]
      BY <2>8 DEF DraftsThere
    <3>1. CASE p = o
      <4>1. OutputEnd(p)' <= Capacity
        BY <1>2, <1>3, <2>8, <3>1
      <4>2. outputs'[p].length = length + n /\ outputs'[p].required = room
            /\ outputs'[p].mark = low /\ drafts'[p] = drafts[o] \o whole
        BY <2>3, <2>6, <3>1
      <4> QED BY <2>1, <2>5, <2>15, <4>1, <4>2
    <3>2. CASE p # o
      <4>1. p \in Outputs /\ outputs'[p] = outputs[p] /\ drafts'[p] = drafts[p]
            /\ OutputEnd(p)' = OutputEnd(p)
        BY <1>2, <2>6, <2>8, <3>2
      <4> QED BY <1>1, <2>13, <3>2, <4>1 DEF DraftsThere
    <3> QED BY <3>1, <3>2
  <2>17. ChunksAligned' /\ ServingScanned'
    BY <1>1 DEF ChunksAligned, ServingScanned
  <2> QED BY <2>10, <2>11, <2>12, <2>14, <2>16, <2>17 DEF ArenaInvariant
<1> QED BY <1>6, <1>8, <1>9

(* The text an output has so far. *)
LEMMA ContentsText ==
  ASSUME ArenaInvariant, NEW o \in Outputs, ActiveValid(o)
  PROVE  Contents(o) \in Seq(Symbols)
<1>1. ArenaTypes
  BY DEF ArenaInvariant
<1>2. /\ Capacity \in Nat /\ offset \in Nat /\ offset <= Capacity
      /\ memory \in Seq(Symbols) /\ Len(memory) = Capacity
      /\ outputs[o].mark \in Nat /\ outputs[o].required \in Nat /\ outputs[o].length \in Nat
      /\ OutputEnd(o) = outputs[o].mark + outputs[o].required
  BY <1>1, ArenaFacts
<1>3. OutputEnd(o) = offset /\ outputs[o].length <= outputs[o].required
  BY DEF ActiveValid
<1>4. \A i \in outputs[o].mark + 1 .. outputs[o].mark + outputs[o].length : memory[i] \in Symbols
  <2> TAKE i \in outputs[o].mark + 1 .. outputs[o].mark + outputs[o].length
  <2>1. i \in 1 .. Len(memory)
    BY <1>2, <1>3
  <2> QED BY <1>2, <2>1
<1>5. outputs[o].mark + 1 \in Int /\ outputs[o].mark + outputs[o].length \in Int
  BY <1>2
<1> QED BY <1>4, <1>5, SubSeqProperties DEF Contents

LEMMA ShortTexts ==
  ASSUME NEW S, NEW a \in S, NEW b \in S, NEW c \in S, NEW d \in S, NEW e \in S
  PROVE  /\ <<a>> \in Seq(S) /\ Len(<<a>>) = 1
         /\ <<a, b, c, d>> \in Seq(S) /\ Len(<<a, b, c, d>>) = 4
         /\ <<a, b, c, d, e>> \in Seq(S) /\ Len(<<a, b, c, d, e>>) = 5
<1>1. <<a>> \in Seq(S)
  OBVIOUS
<1>2. <<a, b, c, d>> \in Seq(S)
  OBVIOUS
<1>3. <<a, b, c, d, e>> \in Seq(S)
  OBVIOUS
<1>4. Len(<<a>>) = 1 /\ Len(<<a, b, c, d>>) = 4 /\ Len(<<a, b, c, d, e>>) = 5
  OBVIOUS
<1> QED BY <1>1, <1>2, <1>3, <1>4

(* The entities of a text are texts. *)
LEMMA EscapedText ==
  ASSUME NEW byte \in Symbols
  PROVE  /\ Escaped(byte) \in Seq(Symbols) /\ Expansion(byte) \in Nat
         /\ Len(Escaped(byte)) = 1 + Expansion(byte)
<1>0. {"&", "a", "m", "p", "l", "t", "g", ";"} \subseteq Symbols
  BY ViewOutputAssumption
<1>1. CASE byte = "&"
  <2>0. <<"&", "a", "m", "p", ";">> \in Seq(Symbols) /\ Len(<<"&", "a", "m", "p", ";">>) = 5
    BY <1>0, ShortTexts
  <2>1. Escaped(byte) = <<"&", "a", "m", "p", ";">>
    BY <1>1 DEF Escaped
  <2>2. Expansion(byte) = 4
    BY <1>1 DEF Expansion
  <2>3. Escaped(byte) \in Seq(Symbols) /\ Len(Escaped(byte)) = 5
    BY <2>0, <2>1, Zenon
  <2> QED BY <2>2, <2>3
<1>2. CASE byte = "<"
  <2>0. <<"&", "l", "t", ";">> \in Seq(Symbols) /\ Len(<<"&", "l", "t", ";">>) = 4
    BY <1>0, ShortTexts
  <2>1. Escaped(byte) = <<"&", "l", "t", ";">>
    BY <1>2 DEF Escaped
  <2>2. Expansion(byte) = 3
    BY <1>2 DEF Expansion
  <2>3. Escaped(byte) \in Seq(Symbols) /\ Len(Escaped(byte)) = 4
    BY <2>0, <2>1, Zenon
  <2> QED BY <2>2, <2>3
<1>3. CASE byte = ">"
  <2>0. <<"&", "g", "t", ";">> \in Seq(Symbols) /\ Len(<<"&", "g", "t", ";">>) = 4
    BY <1>0, ShortTexts
  <2>1. Escaped(byte) = <<"&", "g", "t", ";">>
    BY <1>3 DEF Escaped
  <2>2. Expansion(byte) = 3
    BY <1>3 DEF Expansion
  <2>3. Escaped(byte) \in Seq(Symbols) /\ Len(Escaped(byte)) = 4
    BY <2>0, <2>1, Zenon
  <2> QED BY <2>2, <2>3
<1>4. CASE byte \notin {"&", "<", ">"}
  <2>0. <<byte>> \in Seq(Symbols) /\ Len(<<byte>>) = 1
    BY <1>0, ShortTexts
  <2>1. Escaped(byte) = <<byte>>
    BY <1>4 DEF Escaped
  <2>2. Expansion(byte) = 0
    BY <1>4 DEF Expansion
  <2>3. Escaped(byte) \in Seq(Symbols) /\ Len(Escaped(byte)) = 1
    BY <2>0, <2>1, Zenon
  <2> QED BY <2>2, <2>3
<1> QED BY <1>1, <1>2, <1>3, <1>4

LEMMA PiecesOfText ==
  ASSUME NEW text \in Seq(Symbols)
  PROVE  /\ EscapedPieces(text) \in Seq(Seq(Symbols)) /\ Len(EscapedPieces(text)) = Len(text)
         /\ \A i \in 1 .. Len(text) : EscapedPieces(text)[i] = Escaped(text[i])
         /\ <<text>> \in Seq(Seq(Symbols))
<1> DEFINE n == Len(text)
<1>1. n \in Nat /\ DOMAIN text = 1 .. n /\ \A i \in 1 .. n : text[i] \in Symbols
  OBVIOUS
<1>2. EscapedPieces(text) = [i \in 1 .. n |-> Escaped(text[i])]
  BY <1>1 DEF EscapedPieces
<1>3. \A i \in 1 .. n : Escaped(text[i]) \in Seq(Symbols)
  BY <1>1, EscapedText
<1> HIDE DEF n
<1> QED BY <1>1, <1>2, <1>3 DEF n
-----------------------------------------------------------------------------
(* A committed output becomes a body of its place and its text. *)
LEMMA CommitsBody ==
  ASSUME ArenaInvariant, NEW o \in Outputs, ActiveValid(o),
         outputs[o].length = outputs[o].required,
         outputs' = [outputs EXCEPT ![o].state = "COMMITTED", ![o].mark = 0],
         bodies' = bodies \union Keep(Body(outputs[o].mark, drafts[o])),
         UNCHANGED <<offset, memory, drafts, chunks, serving>>
  PROVE  ArenaInvariant'
<1> DEFINE low == outputs[o].mark
           n == outputs[o].length
           next == [outputs[o] EXCEPT !.state = "COMMITTED", !.mark = 0]
           region == Body(low, drafts[o])
<1>1. ArenaTypes /\ RegionsApart /\ HoldersApart /\ ChunksAligned /\ BodiesThere /\ DraftsThere
      /\ ServingScanned
  BY DEF ArenaInvariant
<1>2. /\ Capacity \in Nat /\ offset \in Nat /\ offset <= Capacity
      /\ outputs \in [Outputs -> OutputState] /\ drafts \in [Outputs -> Seq(Symbols)]
      /\ Active \subseteq Outputs /\ Holders \subseteq Active
      /\ outputs[o] \in OutputState /\ drafts[o] \in Seq(Symbols)
      /\ low \in Nat /\ n \in Nat /\ OutputEnd(o) = low + n
      /\ \A p \in Outputs : OutputEnd(p) \in Nat
  BY <1>1, ArenaFacts DEF ArenaTypes
<1>3. o \in Active /\ OutputEnd(o) = offset
  BY DEF ActiveValid, Active
<1>4. /\ Len(drafts[o]) = n /\ \A i \in 1 .. n : memory[low + i] = drafts[o][i]
  BY <1>1, <1>3 DEF DraftsThere
<1>5. outputs' = [outputs EXCEPT ![o] = next]
  BY <1>2
<1>6. /\ next \in OutputState /\ next.state = "COMMITTED"
  <2> DEFINE half == [outputs[o] EXCEPT !.state = "COMMITTED"]
  <2>1. half \in OutputState /\ half.state = "COMMITTED"
    BY <1>2 DEF OutputState
  <2>2. next = [half EXCEPT !.mark = 0]
    OBVIOUS
  <2> HIDE DEF half, next
  <2>3. 0 \in 0 .. Capacity
    BY <1>2
  <2> QED BY <2>1, <2>2, <2>3 DEF OutputState
<1> HIDE DEF next
<1>7. outputs'[o] = next /\ \A p \in Outputs : p # o => outputs'[p] = outputs[p]
  BY <1>2, <1>5
<1>8. Active' = Active \ {o} /\ Holders' = Holders \ {o}
  <2>1. Active' = Active \ {o}
    BY <1>2, <1>6, <1>7 DEF Active
  <2> QED BY <1>2, <1>7, <2>1 DEF Holders
<1>9. \A p \in Active' : p \in Active /\ p \in Outputs /\ outputs'[p] = outputs[p]
                         /\ OutputEnd(p)' = OutputEnd(p)
  BY <1>2, <1>7, <1>8 DEF OutputEnd
<1>10. /\ region.at = low /\ region.length = n /\ region.text = drafts[o]
       /\ EndOf(region) = OutputEnd(o)
  BY <1>2, <1>4 DEF Body, EndOf
<1> HIDE DEF region
<1>11. ASSUME NEW r \in Regions'
       PROVE  r \in Regions \/ (r = region /\ n > 0 /\ o \in Holders)
  <2>1. r \in Regions \/ r \in Keep(region)
    BY DEF Regions, region
  <2>2. r \in Keep(region) => r = region /\ n > 0
    BY <1>10 DEF Keep
  <2>3. n > 0 => o \in Holders
    BY <1>3 DEF Holders
  <2> QED BY <2>1, <2>2, <2>3
<1>12. RegionsApart'
  <2>1. ASSUME NEW r \in Regions'
        PROVE  r.at \in Nat /\ r.length \in Nat \ {0} /\ EndOf(r) <= offset
    <3>1. CASE r \in Regions
      BY <1>1, <3>1 DEF RegionsApart
    <3>2. CASE r = region /\ n > 0
      BY <1>2, <1>3, <1>10, <3>2
    <3> QED BY <1>11, <3>1, <3>2
  <2>2. ASSUME NEW r \in Regions', NEW s \in Regions', r # s
        PROVE  Apart(r.at, EndOf(r), s.at, EndOf(s))
    <3>1. CASE r \in Regions /\ s \in Regions
      BY <1>1, <2>2, <3>1 DEF RegionsApart
    <3>2. CASE r \in Regions /\ s = region /\ o \in Holders
      BY <1>1, <1>10, <3>2 DEF HoldersApart
    <3>3. CASE r = region /\ s \in Regions /\ o \in Holders
      <4>1. Apart(s.at, EndOf(s), r.at, EndOf(r))
        BY <1>1, <1>10, <3>3 DEF HoldersApart
      <4> QED BY <4>1 DEF Apart
    <3> QED BY <1>11, <2>2, <3>1, <3>2, <3>3
  <2> QED BY <2>1, <2>2 DEF RegionsApart, Apart, EndOf
<1>13. HoldersApart'
  <2>1. \A p \in Holders' : p \in Holders /\ p # o /\ outputs'[p].mark = outputs[p].mark
                            /\ OutputEnd(p)' = OutputEnd(p)
    BY <1>2, <1>7, <1>8 DEF OutputEnd
  <2>2. ASSUME NEW r \in Regions', NEW p \in Holders'
        PROVE  Apart(r.at, EndOf(r), outputs[p].mark, OutputEnd(p))
    <3>1. CASE r \in Regions
      BY <1>1, <2>1, <3>1 DEF HoldersApart
    <3>2. CASE r = region /\ o \in Holders
      BY <1>1, <1>10, <2>1, <3>2 DEF HoldersApart
    <3> QED BY <1>11, <3>1, <3>2
  <2>3. \A p \in Holders' : OutputEnd(p) <= offset
    BY <1>1, <2>1 DEF HoldersApart
  <2>4. \A p, q \in Holders' :
          p # q => Apart(outputs[p].mark, OutputEnd(p), outputs[q].mark, OutputEnd(q))
    BY <1>1, <2>1 DEF HoldersApart
  <2> QED BY <2>1, <2>2, <2>3, <2>4 DEF HoldersApart, Apart, EndOf
<1>14. ArenaTypes'
  <2>1. outputs' \in [Outputs -> OutputState]
    BY <1>2, <1>5, <1>6
  <2>2. OutputState' = OutputState
    BY DEF OutputState
  <2> QED BY <1>1, <2>1, <2>2 DEF ArenaTypes
<1>15. BodiesThere'
  <2> SUFFICES ASSUME NEW b \in bodies'
               PROVE  /\ b.text \in Seq(Symbols) /\ Len(b.text) = b.length
                      /\ \A i \in 1 .. b.length : memory[b.at + i] = b.text[i]
    BY DEF BodiesThere
  <2>1. CASE b \in bodies
    BY <1>1, <2>1 DEF BodiesThere
  <2>2. CASE b \in Keep(region)
    <3>1. b = region
      BY <2>2 DEF Keep
    <3> QED BY <1>2, <1>4, <1>10, <3>1
  <2> QED BY <2>1, <2>2 DEF region
<1>16. DraftsThere'
  <2> SUFFICES ASSUME NEW p \in Active'
               PROVE  /\ OutputEnd(p)' <= Capacity
                      /\ outputs'[p].length <= outputs'[p].required
                      /\ Len(drafts'[p]) = outputs'[p].length
                      /\ \A i \in 1 .. outputs'[p].length :
                           memory'[outputs'[p].mark + i] = drafts'[p][i]
    BY DEF DraftsThere
  <2>1. p \in Active /\ outputs'[p] = outputs[p] /\ OutputEnd(p)' = OutputEnd(p)
    BY <1>9
  <2> QED BY <1>1, <2>1 DEF DraftsThere
<1>17. ChunksAligned' /\ ServingScanned'
  BY <1>1 DEF ChunksAligned, ServingScanned
<1> QED BY <1>12, <1>13, <1>14, <1>15, <1>16, <1>17 DEF ArenaInvariant

(* An output that is given up without a write gives back its memory. *)
LEMMA GivesUp ==
  ASSUME ArenaInvariant, NEW o \in Outputs, ActiveValid(o), AbortValidated(o),
         UNCHANGED <<memory, chunks, bodies, serving>>
  PROVE  ArenaInvariant'
<1>1. memory \in Seq(Symbols) /\ Len(memory) = Capacity
  BY DEF ArenaInvariant, ArenaTypes
<1> QED BY <1>1, AbortKeeps

LEMMA CommitKeeps ==
  ASSUME ArenaInvariant, NEW o \in Outputs, Commit(o), serving' = serving
  PROVE  ArenaInvariant'
<1>1. CASE ~ ActiveValid(o)
  BY <1>1, NothingChanged DEF Commit, Refuse
<1>2. CASE ActiveValid(o) /\ outputs[o].length # outputs[o].required
  BY <1>2, GivesUp DEF Commit
<1>3. CASE ActiveValid(o) /\ outputs[o].length = outputs[o].required
  BY <1>3, CommitsBody DEF Commit
<1> QED BY <1>1, <1>2, <1>3

LEMMA AbortCallKeeps ==
  ASSUME ArenaInvariant, NEW o \in Outputs, Abort(o), serving' = serving
  PROVE  ArenaInvariant'
<1>1. CASE ~ ActiveValid(o)
  BY <1>1, NothingChanged DEF Abort, Refuse
<1>2. CASE ActiveValid(o)
  BY <1>2, GivesUp DEF Abort
<1> QED BY <1>1, <1>2

LEMMA HtmlAppendOwnKeeps ==
  ASSUME ArenaInvariant, NEW o \in Outputs, HtmlAppendOwn(o), serving' = serving
  PROVE  ArenaInvariant'
BY GivesUp DEF HtmlAppendOwn

LEMMA AppendTextKeeps ==
  ASSUME ArenaInvariant, NEW o \in Outputs, NEW text \in Seq(Symbols), AppendText(o, text),
         serving' = serving
  PROVE  ArenaInvariant'
<1>1. CASE ~ ActiveValid(o)
  BY <1>1, NothingChanged DEF AppendText, Refuse
<1>2. CASE ActiveValid(o)
  <2>1. <<text>> \in Seq(Seq(Symbols))
    OBVIOUS
  <2> QED BY <1>2, <2>1, AppendPiecesKeeps DEF AppendText
<1> QED BY <1>1, <1>2

LEMMA HtmlAppendKeeps ==
  ASSUME ArenaInvariant, NEW o \in Outputs, NEW text \in Seq(Symbols), HtmlAppend(o, text),
         serving' = serving
  PROVE  ArenaInvariant'
<1>1. CASE ~ ActiveValid(o)
  BY <1>1, NothingChanged DEF HtmlAppend, Refuse
<1>2. CASE ActiveValid(o)
  <2>1. EscapedPieces(text) \in Seq(Seq(Symbols))
    BY PiecesOfText
  <2> QED BY <1>2, <2>1, AppendPiecesKeeps DEF HtmlAppend
<1> QED BY <1>1, <1>2

(* What an output already holds, appended once more. *)
LEMMA AppendOwnKeeps ==
  ASSUME ArenaInvariant, NEW o \in Outputs, AppendOwn(o), serving' = serving
  PROVE  ArenaInvariant'
<1>1. CASE ~ ActiveValid(o)
  BY <1>1, NothingChanged DEF AppendOwn, AppendText, Refuse
<1>2. CASE ActiveValid(o)
  <2>1. Contents(o) \in Seq(Symbols)
    BY <1>2, ContentsText
  <2> QED BY <2>1, AppendTextKeeps DEF AppendOwn
<1> QED BY <1>1, <1>2
-----------------------------------------------------------------------------
(* Who writes above the frontier changes nobody's memory. *)
LEMMA AboveMemory ==
  ASSUME ArenaInvariant, NEW new, \A i \in 1 .. Capacity : i <= offset => new[i] = memory[i]
  PROVE  /\ \A b \in bodies : \A i \in 1 .. b.length : new[b.at + i] = memory[b.at + i]
         /\ \A p \in Active :
              \A i \in 1 .. outputs[p].length :
                new[outputs[p].mark + i] = memory[outputs[p].mark + i]
<1>1. ArenaTypes /\ RegionsApart /\ HoldersApart /\ DraftsThere
  BY DEF ArenaInvariant
<1>2. /\ offset \in Nat /\ Capacity \in Nat /\ offset <= Capacity /\ Active \subseteq Outputs
      /\ \A p \in Outputs :
           /\ outputs[p].mark \in Nat /\ outputs[p].required \in Nat /\ outputs[p].length \in Nat
           /\ OutputEnd(p) = outputs[p].mark + outputs[p].required
  BY <1>1, ArenaFacts
<1>3. ASSUME NEW b \in bodies, NEW i \in 1 .. b.length
      PROVE  new[b.at + i] = memory[b.at + i]
  <2>1. b.at \in Nat /\ b.length \in Nat /\ b.at + b.length <= offset
    BY <1>1 DEF RegionsApart, Regions, EndOf
  <2>2. b.at + i \in 1 .. Capacity /\ b.at + i <= offset
    BY <1>2, <2>1
  <2> QED BY <2>2
<1>4. ASSUME NEW p \in Active, NEW i \in 1 .. outputs[p].length
      PROVE  new[outputs[p].mark + i] = memory[outputs[p].mark + i]
  <2>1. p \in Outputs /\ outputs[p].length <= outputs[p].required
    BY <1>1, <1>2 DEF DraftsThere
  <2>2. p \in Holders
    BY <1>2, <2>1 DEF Holders
  <2>3. OutputEnd(p) <= offset
    BY <1>1, <2>2 DEF HoldersApart
  <2>4. outputs[p].mark + i \in 1 .. Capacity /\ outputs[p].mark + i <= offset
    BY <1>2, <2>1, <2>3
  <2> QED BY <2>4
<1> QED BY <1>3, <1>4

(* The parts that are rendered: texts of their own, or the values of slots. *)
FilledPart == [kind : {"literal", "slot"}, text : Seq(Symbols), slot : Nat]

LEMMA FilledParts ==
  ASSUME NEW n \in Nat, NEW parts \in Seq(PartOf(n)), NEW values \in Seq(Seq(Symbols)),
         Len(values) = n
  PROVE  Filled(parts, values) \in Seq(FilledPart)
<1>1. Len(parts) \in Nat /\ DOMAIN parts = 1 .. Len(parts)
      /\ \A i \in 1 .. Len(parts) : parts[i] \in PartOf(n)
  OBVIOUS
<1>2. ASSUME NEW part \in PartOf(n)
      PROVE  (IF IsLiteral(part) THEN part ELSE [part EXCEPT !.text = values[part.slot]])
                \in FilledPart
  <2>1. CASE IsLiteral(part)
    <3>1. part \in [kind : {"literal"}, text : Seq(Symbols), slot : {0}]
      BY <2>1 DEF PartOf, IsLiteral
    <3> QED BY <2>1, <3>1 DEF FilledPart
  <2>2. CASE ~ IsLiteral(part)
    <3>1. part \in [kind : {"slot"}, text : {<<>>}, slot : 1 .. n]
      BY <2>2 DEF PartOf, IsLiteral
    <3>2. values[part.slot] \in Seq(Symbols) /\ part.slot \in Nat
      BY <3>1
    <3> DEFINE word == values[part.slot]
    <3>3. [part EXCEPT !.text = word] = [kind |-> part.kind, text |-> word, slot |-> part.slot]
      <4> HIDE DEF word
      <4> QED BY <3>1
    <3> HIDE DEF word
    <3>4. [part EXCEPT !.text = word] \in FilledPart
      BY <3>1, <3>2, <3>3 DEF FilledPart, word
    <3> QED BY <2>2, <3>4 DEF word
  <2> QED BY <2>1, <2>2
<1> DEFINE fill(part) == IF IsLiteral(part) THEN part
                         ELSE [part EXCEPT !.text = values[part.slot]]
<1>3. Filled(parts, values) = [i \in 1 .. Len(parts) |-> fill(parts[i])]
  BY <1>1 DEF Filled
<1>4. \A i \in 1 .. Len(parts) : fill(parts[i]) \in FilledPart
  BY <1>1, <1>2
<1> HIDE DEF fill
<1> QED BY <1>1, <1>3, <1>4

(* What they are written as. *)
LEMMA PiecesOfParts ==
  ASSUME NEW parts \in Seq(FilledPart)
  PROVE  /\ [i \in DOMAIN parts |-> PartPieces(parts[i])] \in Seq(Seq(Seq(Symbols)))
         /\ FlattenSeq([i \in DOMAIN parts |-> PartPieces(parts[i])]) \in Seq(Seq(Symbols))
<1> DEFINE rows == [i \in DOMAIN parts |-> PartPieces(parts[i])]
<1>1. Len(parts) \in Nat /\ DOMAIN parts = 1 .. Len(parts)
      /\ \A i \in 1 .. Len(parts) : parts[i] \in FilledPart
  OBVIOUS
<1>2. ASSUME NEW part \in FilledPart
      PROVE  PartPieces(part) \in Seq(Seq(Symbols))
  <2>1. part.text \in Seq(Symbols)
    BY DEF FilledPart
  <2>2. EscapedPieces(part.text) \in Seq(Seq(Symbols)) /\ <<part.text>> \in Seq(Seq(Symbols))
    BY <2>1, PiecesOfText
  <2> QED BY <2>2 DEF PartPieces
<1>3. rows \in Seq(Seq(Seq(Symbols)))
  BY <1>1, <1>2
<1> HIDE DEF rows
<1>4. FlattenSeq(rows) \in Seq(Seq(Symbols))
  BY <1>3, FlattenFacts
<1> QED BY <1>3, <1>4 DEF rows

(* A sum of numbers is one. *)
LEMMA SumIsNumber ==
  ASSUME NEW n \in Nat, NEW w, DOMAIN w = 1 .. n, \A i \in 1 .. n : w[i] \in Nat
  PROVE  SumFunction(w) \in Nat
<1>1. IsFiniteSet(1 .. n)
  BY FS_Interval
<1>2. SumFunctionOnSet(w, 1 .. n) = Cardinality(Cells(w, 1 .. n))
  BY <1>1, SumOfRows
<1>3. Cardinality(Cells(w, 1 .. n)) \in Nat
  BY <1>1, CellsAreFinite, FS_CardinalityType
<1> QED BY <1>2, <1>3 DEF SumFunction

LEMMA MeasureOfPart ==
  ASSUME NEW part \in FilledPart
  PROVE  Measured(part) \in Nat
<1> DEFINE text == part.text
           more == [i \in DOMAIN text |-> Expansion(text[i])]
<1>1. text \in Seq(Symbols)
  BY DEF FilledPart
<1> HIDE DEF text
<1>2. Len(text) \in Nat /\ DOMAIN text = 1 .. Len(text)
      /\ \A i \in 1 .. Len(text) : text[i] \in Symbols
  BY <1>1
<1>3. DOMAIN more = 1 .. Len(text) /\ \A i \in 1 .. Len(text) : more[i] \in Nat
  BY <1>2, EscapedText
<1> HIDE DEF more
<1>4. SumFunction(more) \in Nat
  BY <1>2, <1>3, SumIsNumber
<1> QED BY <1>2, <1>4 DEF Measured, text, more

LEMMA MeasureOfParts ==
  ASSUME NEW parts \in Seq(FilledPart)
  PROVE  Sum(parts) \in Nat
<1> DEFINE each == [i \in DOMAIN parts |-> Measured(parts[i])]
<1>1. Len(parts) \in Nat /\ DOMAIN parts = 1 .. Len(parts)
      /\ \A i \in 1 .. Len(parts) : parts[i] \in FilledPart
  OBVIOUS
<1>2. DOMAIN each = 1 .. Len(parts) /\ \A i \in 1 .. Len(parts) : each[i] \in Nat
  BY <1>1, MeasureOfPart
<1> HIDE DEF each
<1>3. SumFunction(each) \in Nat
  BY <1>1, <1>2, SumIsNumber
<1> QED BY <1>3 DEF Sum, each
-----------------------------------------------------------------------------
(* A rendering writes above the frontier, which it moves behind its text or *)
(* leaves where it was.                                                     *)
LEMMA RendersParts ==
  ASSUME ArenaInvariant, NEW parts \in Seq(FilledPart), NEW needed \in Nat,
         RenderFilled(parts, needed), UNCHANGED <<outputs, chunks, drafts, serving>>
  PROVE  ArenaInvariant'
<1> DEFINE status == AllocStatus(needed, 1)
           pieces == FlattenSeq([i \in DOMAIN parts |-> PartPieces(parts[i])])
           done == AppendAll(offset, needed, 0, pieces)
           text == SubSeq(done.bytes, offset + 1, offset')
           region == Body(offset, text)
<1>1. ArenaTypes /\ RegionsApart /\ HoldersApart /\ ChunksAligned /\ BodiesThere /\ DraftsThere
      /\ ServingScanned
  BY DEF ArenaInvariant
<1>2. /\ Capacity \in Nat /\ offset \in Nat /\ offset <= Capacity
      /\ memory \in Seq(Symbols) /\ Len(memory) = Capacity
  BY <1>1, ArenaFacts
<1>3. /\ memory' = (IF status = "ok" THEN done.bytes ELSE memory)
      /\ status # "ok" => answer' = status
      /\ IF answer' = "ok"
         THEN offset' = offset + needed /\ bodies' = bodies \union Keep(region)
         ELSE UNCHANGED <<offset, bodies>>
  BY DEF RenderFilled, RenderParts
<1>4. CASE status # "ok"
  <2>1. UNCHANGED <<offset, memory, bodies>>
    BY <1>3, <1>4
  <2> QED BY <2>1, NothingChanged
<1>5. CASE status = "ok"
  <2>1. offset + needed <= Capacity
    <3>1. AlignedOffset(1) = offset /\ AlignedOffset(1) + needed <= Capacity
      BY <1>1, <1>5, RoomFacts
    <3> QED BY <3>1
  <2>2. Appends(offset, needed, 0, pieces)
    <3>1. pieces \in Seq(Seq(Symbols))
      BY PiecesOfParts
    <3> HIDE DEF pieces
    <3> QED BY <1>2, <2>1, <3>1 DEF Appends
  <2> HIDE DEF pieces
  <2>3. /\ done.bytes \in Seq(Symbols) /\ Len(done.bytes) = Capacity
        /\ \A i \in 1 .. Capacity :
             i <= offset + 0 \/ offset + needed < i => done.bytes[i] = memory[i]
    BY <2>2, AppendAllFacts
  <2>4. memory' = done.bytes
    BY <1>3, <1>5
  <2> HIDE DEF done, region
  <2>5. /\ memory' \in Seq(Symbols) /\ Len(memory') = Capacity
        /\ \A i \in 1 .. Capacity : i <= offset => memory'[i] = memory[i]
    BY <1>2, <2>3, <2>4
  <2>6. /\ \A b \in bodies : \A i \in 1 .. b.length : memory'[b.at + i] = memory[b.at + i]
        /\ \A p \in Active :
             \A i \in 1 .. outputs[p].length :
               memory'[outputs[p].mark + i] = memory[outputs[p].mark + i]
    BY <2>5, AboveMemory
  <2>7. Active' = Active /\ Holders' = Holders /\ \A p : OutputEnd(p)' = OutputEnd(p)
    BY DEF Active, Holders, OutputEnd
  <2>8. DraftsThere'
    <3> SUFFICES ASSUME NEW p \in Active
                 PROVE  /\ OutputEnd(p)' <= Capacity
                        /\ outputs'[p].length <= outputs'[p].required
                        /\ Len(drafts'[p]) = outputs'[p].length
                        /\ \A i \in 1 .. outputs'[p].length :
                             memory'[outputs'[p].mark + i] = drafts'[p][i]
      BY <2>7 DEF DraftsThere
    <3> QED BY <1>1, <2>6, <2>7 DEF DraftsThere
  <2>9. ChunksAligned' /\ ServingScanned'
    BY <1>1 DEF ChunksAligned, ServingScanned
  <2>10. CASE answer' # "ok"
    <3>1. offset' = offset /\ bodies' = bodies
      BY <1>3, <2>10
    <3>2. Regions' = Regions
      BY <3>1 DEF Regions
    <3>3. RegionsApart' /\ HoldersApart'
      BY <1>1, <2>7, <3>1, <3>2 DEF RegionsApart, HoldersApart, Apart, EndOf, OutputEnd
    <3>4. ArenaTypes'
      BY <1>1, <2>5, <3>1 DEF ArenaTypes
    <3>5. BodiesThere'
      BY <1>1, <2>6, <3>1 DEF BodiesThere
    <3> QED BY <2>8, <2>9, <3>3, <3>4, <3>5 DEF ArenaInvariant
  <2>11. CASE answer' = "ok"
    <3>1. offset' = offset + needed /\ bodies' = bodies \union Keep(region)
      BY <1>3, <2>11
    <3>2. /\ text \in Seq(Symbols) /\ Len(text) = needed
          /\ \A i \in 1 .. needed : text[i] = memory'[offset + i]
      <4> DEFINE bytes == done.bytes
      <4>1. /\ offset + 1 \in Int /\ offset' \in Int
            /\ offset' - (offset + 1) + 1 = needed
        BY <1>2, <3>1
      <4>2. \A i \in offset + 1 .. offset' : bytes[i] \in Symbols
        BY <1>2, <2>1, <2>3, <3>1
      <4>3. /\ text \in Seq(Symbols)
            /\ Len(text) = (IF offset + 1 <= offset' THEN offset' - (offset + 1) + 1 ELSE 0)
            /\ \A i \in 1 .. offset' - (offset + 1) + 1 : text[i] = bytes[(offset + 1) + i - 1]
        <5> HIDE DEF bytes
        <5> QED BY <4>1, <4>2, SubSeqProperties DEF bytes
      <4> HIDE DEF text, bytes
      <4>4. Len(text) = needed
        BY <1>2, <3>1, <4>1, <4>3
      <4>5. \A i \in 1 .. needed : text[i] = memory'[offset + i]
        <5> TAKE i \in 1 .. needed
        <5>1. (offset + 1) + i - 1 = offset + i
          BY <1>2
        <5> QED BY <2>4, <4>1, <4>3, <5>1 DEF bytes
      <4> QED BY <4>3, <4>4, <4>5
    <3> HIDE DEF text
    <3>3. /\ region.at = offset /\ region.length = needed /\ region.text = text
          /\ EndOf(region) = offset'
      BY <3>1, <3>2 DEF region, Body, EndOf
    <3>4. offset' \in 0 .. Capacity /\ region.at \in Nat /\ region.length \in Nat
          /\ offset <= region.at /\ EndOf(region) <= offset'
      BY <1>2, <2>1, <3>1, <3>3
    <3>5. Regions' \subseteq Regions \union Keep(region)
      BY <3>1 DEF Regions
    <3>6. RegionsApart' /\ HoldersApart'
      BY <1>1, <3>4, <3>5, RegionAdded
    <3>7. ArenaTypes'
      BY <1>1, <2>5, <3>4 DEF ArenaTypes
    <3>8. BodiesThere'
      <4> SUFFICES ASSUME NEW b \in bodies'
                   PROVE  /\ b.text \in Seq(Symbols) /\ Len(b.text) = b.length
                          /\ \A i \in 1 .. b.length : memory'[b.at + i] = b.text[i]
        BY DEF BodiesThere
      <4>1. CASE b \in bodies
        BY <1>1, <2>6, <4>1 DEF BodiesThere
      <4>2. CASE b \in Keep(region)
        <5>1. b = region
          BY <4>2 DEF Keep
        <5> QED BY <3>2, <3>3, <5>1
      <4> QED BY <3>1, <4>1, <4>2
    <3> QED BY <2>8, <2>9, <3>6, <3>7, <3>8 DEF ArenaInvariant
  <2> QED BY <2>10, <2>11
<1> QED BY <1>4, <1>5

LEMMA RenderKeeps ==
  ASSUME ArenaInvariant, NEW i \in DOMAIN serving, Render(serving[i]), serving' = serving
  PROVE  ArenaInvariant'
<1> DEFINE asked == serving[i].template
           parts == Filled(serving[i].parts, asked.values)
<1>1. asked \in ServedTemplate /\ serving[i].parts \in Seq(PartOf(Len(asked.fields)))
  BY DEF ArenaInvariant, ServingScanned
<1>2. asked.values \in Seq(Seq(Symbols)) /\ Len(asked.fields) \in Nat
  BY <1>1 DEF ServedTemplate
<1>3. CASE Len(asked.values) # Len(asked.fields)
  BY <1>3, NothingChanged DEF Render
<1>4. CASE Len(asked.values) = Len(asked.fields)
  <2>1. parts \in Seq(FilledPart)
    BY <1>1, <1>2, <1>4, FilledParts
  <2>2. RenderFilled(parts, Sum(parts)) /\ UNCHANGED <<outputs, chunks, drafts>>
    BY <1>4 DEF Render
  <2> HIDE DEF parts
  <2> QED BY <2>1, <2>2, MeasureOfParts, RendersParts
<1> QED BY <1>3, <1>4
-----------------------------------------------------------------------------
(***************************************************************************)
(* ViewOutput: what a scan of a source leaves                              *)
(***************************************************************************)

ScanStatuses == {"ok", "einval", "enoent"}
RawKinds == {"none", "script", "plaintext"}

(* Where the loop of a scan can be, for a table of n fields.                *)
ScanState(n) ==
  [status : ScanStatuses, cursor : Nat \ {0}, literal : Nat \ {0}, candidate : BOOLEAN,
   raw : RawKinds, parts : Seq(PartOf(n))]

(* A piece of a source that was scanned: it ends at a place or is wrong.     *)
PieceEnds(piece) ==
  piece.status \in ScanStatuses /\ (piece.status = "ok" => piece.end \in Nat \ {0})

(* There is a first place of some, or none. *)
LEMMA FirstPlace ==
  ASSUME NEW n \in Nat, NEW start \in Nat, NEW places
  PROVE  \E i \in (start .. n) \union {n + 1} :
           /\ i > n \/ i \in places
           /\ \A j \in start .. i - 1 : j > n \/ j \notin places
<1> DEFINE there == {i \in start .. n : i \in places}
<1>1. CASE there = {}
  <2>1. \A j \in start .. (n + 1) - 1 : j \notin places
    BY <1>1
  <2> QED BY <2>1
<1>2. CASE there # {}
  <2>1. there \subseteq Nat
    OBVIOUS
  <2>2. PICK i \in there : \A j \in there : i <= j
    <3> HIDE DEF there
    <3> QED BY <1>2, <2>1, LeastElement
  <2>3. \A j \in start .. i - 1 : j \notin places
    <3> TAKE j \in start .. i - 1
    <3>1. j \in start .. n /\ ~ (i <= j)
      BY <2>2
    <3> QED BY <2>2, <3>1
  <2> QED BY <2>2, <2>3
<1> QED BY <1>1, <1>2

(* A part of a text is one. *)
LEMMA PartOfText ==
  ASSUME NEW text \in Seq(Symbols), NEW low \in Nat \ {0}, NEW high \in Int, high <= Len(text)
  PROVE  SubSeq(text, low, high) \in Seq(Symbols)
<1>1. \A i \in low .. high : text[i] \in Symbols
  <2> TAKE i \in low .. high
  <2>1. i \in 1 .. Len(text)
    OBVIOUS
  <2> QED BY <2>1
<1> QED BY <1>1, SubSeqProperties

(* A tag ends at a place. *)
LEMMA TagCloses ==
  ASSUME NEW source \in Seq(Symbols), NEW start \in Nat
  PROVE  TagClose(source, start) \in Nat
<1> DEFINE After(quote, c) ==
             CASE quote # "" -> IF c = quote THEN "" ELSE quote
               [] OTHER -> IF c \in {"'", "\""} THEN c ELSE ""
           QuoteAt(i) == FoldLeft(After, "", SubSeq(source, start, i - 1))
           Ends(i) == At(source, i, Open) \/ (source[i] = ">" /\ QuoteAt(i) = "")
           n == Len(source)
           holds == {i \in start .. n : Ends(i)}
           place == FirstFrom(source, start, Ends)
<1>1. n \in Nat
  OBVIOUS
<1>2. \E i \in (start .. n) \union {n + 1} :
        /\ i > n \/ i \in holds
        /\ \A j \in start .. i - 1 : j > n \/ j \notin holds
  <2> HIDE DEF holds, n
  <2> QED BY <1>1, FirstPlace
<1>3. \E i \in (start .. n) \union {n + 1} :
        /\ i > n \/ Ends(i)
        /\ \A j \in start .. i - 1 : j > n \/ ~ Ends(j)
  <2> HIDE DEF Ends
  <2>1. PICK i \in (start .. n) \union {n + 1} :
        /\ i > n \/ i \in holds
        /\ \A j \in start .. i - 1 : j > n \/ j \notin holds
    BY <1>2
  <2>2. \A j \in start .. i - 1 : j > n \/ ~ Ends(j)
    BY <1>1, <2>1
  <2> QED BY <2>1, <2>2
<1>4. place \in (start .. n) \union {n + 1}
  <2> HIDE DEF Ends
  <2> QED BY <1>3, Zenon DEF FirstFrom
<1>5. place + 1 \in Nat
  <2> HIDE DEF place
  <2> QED BY <1>1, <1>4
<1>6. TagClose(source, start) \in {place + 1, 0}
  BY Zenon DEF TagClose
<1> HIDE DEF place
<1> QED BY <1>5, <1>6
-----------------------------------------------------------------------------
(* A tag ends at a place or is wrong. *)
LEMMA TagEnds ==
  ASSUME NEW source \in Seq(Symbols), NEW start \in Nat
  PROVE  PieceEnds(ScanTag(source, start))
<1>1. ASSUME NEW isEnd \in BOOLEAN, NEW first \in Nat
      PROVE  PieceEnds(TagFrom(source, isEnd, first))
  <2> DEFINE Holds(i) == TagNameBoundary(source[i])
             n == Len(source)
             places == {i \in first .. n : Holds(i)}
             boundary == FirstFrom(source, first, Holds)
  <2>1. n \in Nat
    OBVIOUS
  <2>2. \E i \in (first .. n) \union {n + 1} :
          /\ i > n \/ i \in places
          /\ \A j \in first .. i - 1 : j > n \/ j \notin places
    <3> HIDE DEF places, n
    <3> QED BY <2>1, FirstPlace
  <2>3. \E i \in (first .. n) \union {n + 1} :
          /\ i > n \/ Holds(i)
          /\ \A j \in first .. i - 1 : j > n \/ ~ Holds(j)
    <3> HIDE DEF Holds
    <3> QED BY <2>1, <2>2
  <2>4. boundary \in (first .. n) \union {n + 1}
    <3> HIDE DEF Holds
    <3> QED BY <2>3, Zenon DEF FirstFrom
  <2>5. boundary \in Nat
    <3> HIDE DEF boundary
    <3> QED BY <2>1, <2>4
  <2> DEFINE end == TagClose(source, boundary)
             tag == TagNamed(source, isEnd, first, boundary, end)
  <2>6. end \in Nat
    <3> HIDE DEF boundary
    <3> QED BY <2>5, TagCloses
  <2>7. TagFrom(source, isEnd, first) = tag
    BY Zenon DEF TagFrom
  <2> HIDE DEF boundary, end
  <2>8. PieceEnds(tag)
    <3>1. CASE end = 0
      BY <3>1 DEF TagNamed, Bad, PieceEnds, ScanStatuses
    <3>2. CASE end # 0
      <4> DEFINE name == LowerName(SubSeq(source, first, boundary - 1))
      <4>1. tag = [status |-> "ok", end |-> end, isEnd |-> isEnd, name |-> name]
        BY <3>2 DEF TagNamed
      <4> HIDE DEF name, tag
      <4>2. tag.status = "ok" /\ tag.end = end
        BY <4>1
      <4> QED BY <2>6, <3>2, <4>2 DEF PieceEnds, ScanStatuses
    <3> QED BY <3>1, <3>2
  <2> QED BY <2>7, <2>8
<1>2. start + 1 \in Nat /\ start + 2 \in Nat
  OBVIOUS
<1> QED BY <1>1, <1>2 DEF ScanTag

LEMMA CommentEnds ==
  ASSUME NEW source \in Seq(Symbols), NEW start \in Nat
  PROVE  PieceEnds(ScanComment(source, start))
<1> DEFINE Holds(j) == At(source, j, Open) \/ At(source, j, CommentEnd)
           n == Len(source)
           first == start + 4
           places == {i \in first .. n : Holds(i)}
           place == FirstFrom(source, first, Holds)
<1>1. n \in Nat /\ first \in Nat
  OBVIOUS
<1>2. \E i \in (first .. n) \union {n + 1} :
        /\ i > n \/ i \in places
        /\ \A j \in first .. i - 1 : j > n \/ j \notin places
  <2> HIDE DEF places, n, first
  <2> QED BY <1>1, FirstPlace
<1>3. \E i \in (first .. n) \union {n + 1} :
        /\ i > n \/ Holds(i)
        /\ \A j \in first .. i - 1 : j > n \/ ~ Holds(j)
  <2> HIDE DEF Holds, first
  <2> QED BY <1>1, <1>2
<1>4. place \in (first .. n) \union {n + 1}
  <2> HIDE DEF Holds, first
  <2> QED BY <1>3, Zenon DEF FirstFrom
<1>5. place + 3 \in Nat \ {0}
  <2> HIDE DEF place, first
  <2> QED BY <1>1, <1>4
<1>6. ScanComment(source, start) =
        IF At(source, place, CommentEnd) THEN [status |-> "ok", end |-> place + 3] ELSE Bad
  BY Zenon DEF ScanComment
<1> HIDE DEF place
<1> QED BY <1>5, <1>6 DEF PieceEnds, ScanStatuses, Bad

(* The slot that a name resolves to, or one past the last. *)
LEMMA ResolvesToSlot ==
  ASSUME NEW names \in Seq(Seq(Symbols)), NEW name
  PROVE  Resolve(names, name) \in 1 .. Len(names) + 1
<1> DEFINE Holds(j) == names[j] = name
           n == Len(names)
           places == {i \in 1 .. n : Holds(i)}
<1>1. n \in Nat
  OBVIOUS
<1>2. \E i \in (1 .. n) \union {n + 1} :
        /\ i > n \/ i \in places
        /\ \A j \in 1 .. i - 1 : j > n \/ j \notin places
  <2> HIDE DEF places, n
  <2> QED BY <1>1, FirstPlace
<1>3. \E i \in (1 .. n) \union {n + 1} :
        /\ i > n \/ Holds(i)
        /\ \A j \in 1 .. i - 1 : j > n \/ ~ Holds(j)
  <2> HIDE DEF Holds
  <2> QED BY <1>1, <1>2
<1>4. FirstFrom(names, 1, Holds) \in (1 .. n) \union {n + 1}
  <2> HIDE DEF Holds
  <2> QED BY <1>3, Zenon DEF FirstFrom
<1>5. Resolve(names, name) \in (1 .. n) \union {n + 1}
  BY <1>4, Zenon DEF Resolve
<1> QED BY <1>1, <1>5

(* A placeholder ends at a place and names a slot, or is wrong. *)
LEMMA PlaceholderEnds ==
  ASSUME NEW source \in Seq(Symbols), NEW names \in Seq(Seq(Symbols)), NEW start \in Nat
  PROVE  LET found == ParsePlaceholder(source, start, names)
         IN PieceEnds(found) /\ (found.status = "ok" => found.slot \in 1 .. Len(names))
<1> DEFINE Sound(found) ==
      PieceEnds(found) /\ (found.status = "ok" => found.slot \in 1 .. Len(names))
<1>1. ASSUME NEW first, NEW last \in Nat
      PROVE  Sound(PlaceholderNamed(source, names, first, last))
  <2> DEFINE Holds(i) == source[i] # " "
             n == Len(source)
             places == {i \in last .. n : Holds(i)}
             close == FirstFrom(source, last, Holds)
             slot == Resolve(names, SubSeq(source, first, last - 1))
             piece == PlaceholderNamed(source, names, first, last)
  <2>1. n \in Nat
    OBVIOUS
  <2>2. \E i \in (last .. n) \union {n + 1} :
          /\ i > n \/ i \in places
          /\ \A j \in last .. i - 1 : j > n \/ j \notin places
    <3> HIDE DEF places, n
    <3> QED BY <2>1, FirstPlace
  <2>3. \E i \in (last .. n) \union {n + 1} :
          /\ i > n \/ Holds(i)
          /\ \A j \in last .. i - 1 : j > n \/ ~ Holds(j)
    <3> HIDE DEF Holds
    <3> QED BY <2>1, <2>2
  <2>4. close \in (last .. n) \union {n + 1}
    <3> HIDE DEF Holds
    <3> QED BY <2>3, Zenon DEF FirstFrom
  <2>5. close + 2 \in Nat \ {0}
    <3> HIDE DEF close
    <3> QED BY <2>1, <2>4
  <2>6. slot \in 1 .. Len(names) + 1
    BY ResolvesToSlot
  <2> DEFINE known == [status |-> "ok", end |-> close + 2, slot |-> slot]
             unknown == [status |-> "enoent"]
  <2>7. \/ piece = Bad
        \/ piece = unknown
        \/ piece = known /\ ~ (slot > Len(names))
    <3>1. piece =
            CASE first > Len(source) \/ ~ At(source, close, Close) -> Bad
              [] OTHER ->
                   CASE ~ IdentifierStart(source[first]) -> Bad
                     [] IdentifierStart(source[first]) /\ slot > Len(names) -> unknown
                     [] OTHER -> known
      BY Zenon DEF PlaceholderNamed
    <3> HIDE DEF piece, known, unknown, close, slot
    <3> QED BY <3>1
  <2> HIDE DEF close, slot, piece
  <2>8. Sound(Bad) /\ Sound(unknown)
    BY DEF PieceEnds, ScanStatuses, Bad
  <2>9. ASSUME ~ (slot > Len(names))
        PROVE  Sound(known)
    <3>1. slot \in 1 .. Len(names)
      BY <2>6, <2>9
    <3>2. known.status = "ok" /\ known.end = close + 2 /\ known.slot = slot
      OBVIOUS
    <3> HIDE DEF known
    <3> QED BY <2>5, <3>1, <3>2 DEF PieceEnds, ScanStatuses
  <2> HIDE DEF known, unknown, Sound
  <2> QED BY <2>7, <2>8, <2>9 DEF piece
<1>2. ASSUME NEW first \in Nat
      PROVE  Sound(PlaceholderFrom(source, names, first))
  <2> DEFINE Holds(i) == ~ IdentifierContinue(source[i])
             n == Len(source)
             next == first + 1
             places == {i \in next .. n : Holds(i)}
             last == FirstFrom(source, next, Holds)
  <2>1. n \in Nat /\ next \in Nat
    OBVIOUS
  <2>2. \E i \in (next .. n) \union {n + 1} :
          /\ i > n \/ i \in places
          /\ \A j \in next .. i - 1 : j > n \/ j \notin places
    <3> HIDE DEF places, n, next
    <3> QED BY <2>1, FirstPlace
  <2>3. \E i \in (next .. n) \union {n + 1} :
          /\ i > n \/ Holds(i)
          /\ \A j \in next .. i - 1 : j > n \/ ~ Holds(j)
    <3> HIDE DEF Holds, next
    <3> QED BY <2>1, <2>2
  <2>4. last \in (next .. n) \union {n + 1}
    <3> HIDE DEF Holds, next
    <3> QED BY <2>3, Zenon DEF FirstFrom
  <2>5. last \in Nat
    <3> HIDE DEF last, next
    <3> QED BY <2>1, <2>4
  <2>6. PlaceholderFrom(source, names, first) = PlaceholderNamed(source, names, first, last)
    BY Zenon DEF PlaceholderFrom
  <2> HIDE DEF last, Sound
  <2> QED BY <1>1, <2>5, <2>6
<1> DEFINE Holds(i) == source[i] # " "
           n == Len(source)
           next == start + 2
           places == {i \in next .. n : Holds(i)}
           first == FirstFrom(source, next, Holds)
<1>3. n \in Nat /\ next \in Nat
  OBVIOUS
<1>4. \E i \in (next .. n) \union {n + 1} :
        /\ i > n \/ i \in places
        /\ \A j \in next .. i - 1 : j > n \/ j \notin places
  <2> HIDE DEF places, n, next
  <2> QED BY <1>3, FirstPlace
<1>5. \E i \in (next .. n) \union {n + 1} :
        /\ i > n \/ Holds(i)
        /\ \A j \in next .. i - 1 : j > n \/ ~ Holds(j)
  <2> HIDE DEF Holds, next
  <2> QED BY <1>3, <1>4
<1>6. first \in (next .. n) \union {n + 1}
  <2> HIDE DEF Holds, next
  <2> QED BY <1>5, Zenon DEF FirstFrom
<1>7. first \in Nat
  <2> HIDE DEF first, next
  <2> QED BY <1>3, <1>6
<1>8. ParsePlaceholder(source, start, names) = PlaceholderFrom(source, names, first)
  BY Zenon DEF ParsePlaceholder
<1>9. Sound(PlaceholderFrom(source, names, first))
  <2> HIDE DEF first, Sound
  <2> QED BY <1>2, <1>7
<1> QED BY <1>8, <1>9, Zenon
-----------------------------------------------------------------------------
(* One component of the scan's state after another is assigned. *)
LEMMA ScanAssigns ==
  ASSUME NEW n \in Nat, NEW s \in ScanState(n)
  PROVE  /\ s.status \in ScanStatuses /\ s.cursor \in Nat \ {0} /\ s.literal \in Nat \ {0}
         /\ s.candidate \in BOOLEAN /\ s.raw \in RawKinds /\ s.parts \in Seq(PartOf(n))
         /\ \A v \in ScanStatuses : [s EXCEPT !.status = v] \in ScanState(n)
         /\ \A v \in Nat \ {0} :
              /\ [s EXCEPT !.cursor = v] \in ScanState(n)
              /\ [s EXCEPT !.cursor = v].parts = s.parts
              /\ [s EXCEPT !.literal = v] \in ScanState(n)
              /\ [s EXCEPT !.literal = v].parts = s.parts
         /\ \A v \in BOOLEAN :
              /\ [s EXCEPT !.candidate = v] \in ScanState(n)
              /\ [s EXCEPT !.candidate = v].parts = s.parts
         /\ \A v \in RawKinds :
              /\ [s EXCEPT !.raw = v] \in ScanState(n)
              /\ [s EXCEPT !.raw = v].parts = s.parts
         /\ \A v \in Seq(PartOf(n)) : [s EXCEPT !.parts = v] \in ScanState(n)
<1> DEFINE Parts == Seq(PartOf(n))
<1> HIDE DEF Parts
<1>1. s \in [status : ScanStatuses, cursor : Nat \ {0}, literal : Nat \ {0},
             candidate : BOOLEAN, raw : RawKinds, parts : Parts]
  BY DEF ScanState, Parts
<1>2. /\ s.status \in ScanStatuses /\ s.cursor \in Nat \ {0} /\ s.literal \in Nat \ {0}
      /\ s.candidate \in BOOLEAN /\ s.raw \in RawKinds /\ s.parts \in Parts
  BY <1>1
<1>3. \A v \in ScanStatuses : [s EXCEPT !.status = v] \in ScanState(n)
  BY <1>1 DEF ScanState, Parts
<1>4. \A v \in Nat \ {0} :
        [s EXCEPT !.cursor = v] \in ScanState(n) /\ [s EXCEPT !.cursor = v].parts = s.parts
  BY <1>1 DEF ScanState, Parts
<1>5. \A v \in Nat \ {0} :
        [s EXCEPT !.literal = v] \in ScanState(n) /\ [s EXCEPT !.literal = v].parts = s.parts
  BY <1>1 DEF ScanState, Parts
<1>6. \A v \in BOOLEAN :
        [s EXCEPT !.candidate = v] \in ScanState(n)
        /\ [s EXCEPT !.candidate = v].parts = s.parts
  BY <1>1 DEF ScanState, Parts
<1>7. \A v \in RawKinds :
        [s EXCEPT !.raw = v] \in ScanState(n) /\ [s EXCEPT !.raw = v].parts = s.parts
  BY <1>1 DEF ScanState, Parts
<1>8. \A v \in Parts : [s EXCEPT !.parts = v] \in ScanState(n)
  BY <1>1 DEF ScanState, Parts
<1> QED BY <1>2, <1>3, <1>4, <1>5, <1>6, <1>7, <1>8 DEF Parts

LEMMA ScanFails ==
  ASSUME NEW n \in Nat, NEW s \in ScanState(n), NEW piece, piece.status \in ScanStatuses
  PROVE  FailScan(s, piece) \in ScanState(n)
BY ScanAssigns DEF FailScan

LEMMA ScanSkips ==
  ASSUME NEW n \in Nat, NEW s \in ScanState(n), NEW end \in Nat \ {0}, NEW raw \in RawKinds
  PROVE  Skip(s, end, raw) \in ScanState(n) /\ Skip(s, end, raw).parts = s.parts
<1> DEFINE a == [s EXCEPT !.cursor = end]
           b == [a EXCEPT !.raw = raw]
           c == [b EXCEPT !.candidate = FALSE]
<1>1. Skip(s, end, raw) = c
  BY DEF Skip
<1>2. a \in ScanState(n) /\ a.parts = s.parts
  BY ScanAssigns
<1> HIDE DEF a
<1>3. b \in ScanState(n) /\ b.parts = a.parts
  BY <1>2, ScanAssigns
<1> HIDE DEF b
<1>4. FALSE \in BOOLEAN
  OBVIOUS
<1>5. c \in ScanState(n) /\ c.parts = b.parts
  BY <1>3, <1>4, ScanAssigns
<1> HIDE DEF c
<1> QED BY <1>1, <1>2, <1>3, <1>5

(* A literal is added to the parts as one of them. *)
LEMMA AddsLiteral ==
  ASSUME NEW n \in Nat, NEW parts \in Seq(PartOf(n)), NEW text \in Seq(Symbols)
  PROVE  AddLiteral(parts, text) \in Seq(PartOf(n))
<1>1. LiteralPart(text) \in PartOf(n)
  BY DEF LiteralPart, PartOf
<1> DEFINE Parts == PartOf(n)
           part == LiteralPart(text)
<1> HIDE DEF Parts, part
<1>2. Append(parts, part) \in Seq(Parts)
  BY <1>1 DEF Parts, part
<1> QED BY <1>2 DEF AddLiteral, Parts, part

LEMMA KindOfRaw ==
  ASSUME NEW name
  PROVE  RawKind(name) \in RawKinds
<1>1. <<"script">>[1] = "script" /\ <<"plaintext">>[1] = "plaintext"
  OBVIOUS
<1> QED BY <1>1 DEF RawKind, RawKinds

(* One turn of the scan. *)
LEMMA ScanStepKeeps ==
  ASSUME NEW source \in Seq(Symbols), NEW names \in Seq(Seq(Symbols)),
         NEW s \in ScanState(Len(names)), s.cursor <= Len(source)
  PROVE  ScanStep(source, names, s) \in ScanState(Len(names))
<1> DEFINE n == Len(names)
           States == ScanState(n)
<1>1. n \in Nat /\ Len(source) \in Nat
  OBVIOUS
<1> HIDE DEF n
<1>2. s \in States
  BY DEF n
<1>3. /\ s.cursor \in Nat \ {0} /\ s.cursor \in Nat /\ s.literal \in Nat \ {0}
      /\ s.candidate \in BOOLEAN /\ s.raw \in RawKinds /\ s.parts \in Seq(PartOf(n))
  BY <1>1, <1>2, ScanAssigns
<1>4. "none" \in RawKinds /\ Bad.status \in ScanStatuses
  BY DEF RawKinds, Bad, ScanStatuses
<1>5. FailScan(s, Bad) \in States
  BY <1>1, <1>2, <1>4, ScanFails
<1>6. PieceEnds(ScanTag(source, s.cursor)) /\ PieceEnds(ScanComment(source, s.cursor))
  BY <1>3, TagEnds, CommentEnds
<1>7. s.cursor + 1 \in Nat \ {0}
  BY <1>3
<1>8. ASSUME NEW piece, PieceEnds(piece), piece.status # "ok"
      PROVE  FailScan(s, piece) \in States
  BY <1>1, <1>2, <1>8, ScanFails DEF PieceEnds
<1>9. ASSUME NEW piece, PieceEnds(piece), ~ (piece.status # "ok"), NEW raw \in RawKinds
      PROVE  Skip(s, piece.end, raw) \in States
  BY <1>1, <1>2, <1>9, ScanSkips DEF PieceEnds
<1>10. InRawText(source, s) \in States
  <2>1. [s EXCEPT !.cursor = s.cursor + 1] \in States
    BY <1>1, <1>2, <1>7, ScanAssigns
  <2>2. AfterRawEnd(s, ScanTag(source, s.cursor)) \in States
    <3> DEFINE tag == ScanTag(source, s.cursor)
    <3> HIDE DEF tag, States
    <3> QED BY <1>4, <1>6, <1>8, <1>9 DEF AfterRawEnd, tag
  <2> HIDE DEF States
  <2> QED BY <1>5, <2>1, <2>2 DEF InRawText
<1>11. AfterComment(s, ScanComment(source, s.cursor)) \in States
  <2> DEFINE comment == ScanComment(source, s.cursor)
  <2> HIDE DEF comment, States
  <2> QED BY <1>4, <1>6, <1>8, <1>9 DEF AfterComment, comment
<1>12. AfterTag(s, ScanTag(source, s.cursor)) \in States
  <2> DEFINE tag == ScanTag(source, s.cursor)
  <2>1. RawKind(tag.name) \in RawKinds
    BY KindOfRaw
  <2> HIDE DEF tag, States
  <2>2. CASE tag.status # "ok"
    <3>1. FailScan(s, tag) \in States
      BY <1>6, <1>8, <2>2 DEF tag
    <3>2. AfterTag(s, tag) = FailScan(s, tag)
      BY <2>2 DEF AfterTag
    <3> QED BY <3>1, <3>2 DEF tag
  <2>3. CASE ~ (tag.status # "ok")
    <3>1. Skip(s, tag.end, "none") \in States /\ Skip(s, tag.end, RawKind(tag.name)) \in States
      BY <1>4, <1>6, <1>9, <2>1, <2>3 DEF tag
    <3>2. AfterTag(s, tag) \in {Skip(s, tag.end, "none"), FailScan(s, Bad),
                                Skip(s, tag.end, RawKind(tag.name))}
      BY <2>3 DEF AfterTag
    <3> QED BY <1>5, <3>1, <3>2 DEF tag
  <2> QED BY <2>2, <2>3
<1>13. LET before == SubSeq(source, s.literal, s.cursor - 1)
       IN AfterPlaceholder(s, ParsePlaceholder(source, s.cursor, names), before) \in States
  <2> DEFINE before == SubSeq(source, s.literal, s.cursor - 1)
             found == ParsePlaceholder(source, s.cursor, names)
  <2>1. before \in Seq(Symbols)
    <3>1. s.cursor - 1 \in Int /\ s.cursor - 1 <= Len(source)
      BY <1>1, <1>3
    <3> QED BY <1>3, <3>1, PartOfText
  <2>2. PieceEnds(found) /\ (found.status = "ok" => found.slot \in 1 .. n)
    BY <1>3, PlaceholderEnds DEF n
  <2> HIDE DEF found, before
  <2>3. CASE s.candidate
    <3>1. AfterPlaceholder(s, found, before) = FailScan(s, Bad)
      BY <2>3 DEF AfterPlaceholder
    <3> QED BY <1>5, <3>1 DEF found, before
  <2>4. CASE ~ s.candidate /\ found.status # "ok"
    <3>1. AfterPlaceholder(s, found, before) = FailScan(s, found)
      BY <2>4 DEF AfterPlaceholder
    <3> QED BY <1>8, <2>2, <2>4, <3>1 DEF found, before
  <2>5. CASE ~ s.candidate /\ found.status = "ok"
    <3> DEFINE a == Skip(s, found.end, "none")
               b == [a EXCEPT !.literal = found.end]
               parts == Append(AddLiteral(b.parts, before), SlotPart(found.slot))
               c == [b EXCEPT !.parts = parts]
    <3>1. found.end \in Nat \ {0} /\ found.slot \in 1 .. n
      BY <2>2, <2>5 DEF PieceEnds
    <3>2. a \in ScanState(n) /\ a.parts = s.parts
      BY <1>1, <1>2, <1>4, <3>1, ScanSkips
    <3>3. AfterPlaceholder(s, found, before) =
            [a EXCEPT !.literal = found.end,
                      !.parts = Append(AddLiteral(@, before), SlotPart(found.slot))]
      BY <2>5 DEF AfterPlaceholder
    <3> HIDE DEF a
    <3>4. AfterPlaceholder(s, found, before) = c
      BY <3>3
    <3>5. b \in ScanState(n) /\ b.parts \in Seq(PartOf(n))
      <4>1. b \in ScanState(n)
        BY <1>1, <3>1, <3>2, ScanAssigns
      <4> HIDE DEF b
      <4> QED BY <1>1, <4>1, ScanAssigns
    <3> HIDE DEF b
    <3>6. parts \in Seq(PartOf(n))
      <4>1. AddLiteral(b.parts, before) \in Seq(PartOf(n))
        BY <1>1, <2>1, <3>5, AddsLiteral
      <4>2. SlotPart(found.slot) \in PartOf(n)
        BY <3>1 DEF SlotPart, PartOf
      <4> DEFINE P == PartOf(n)
                 front == AddLiteral(b.parts, before)
                 part == SlotPart(found.slot)
      <4> HIDE DEF P, front, part
      <4>3. Append(front, part) \in Seq(P)
        BY <4>1, <4>2 DEF P, front, part
      <4> QED BY <4>3 DEF P, front, part
    <3> HIDE DEF parts
    <3>7. c \in ScanState(n)
      BY <1>1, <3>5, <3>6, ScanAssigns
    <3> HIDE DEF c
    <3> QED BY <3>4, <3>7 DEF found, before
  <2> QED BY <1>3, <2>3, <2>4, <2>5
<1>14. [s EXCEPT !.cursor = s.cursor + 1,
                 !.candidate = CandidateAfter(s.candidate, source[s.cursor])] \in States
  <2> DEFINE a == [s EXCEPT !.cursor = s.cursor + 1]
             seen == CandidateAfter(s.candidate, source[s.cursor])
  <2>1. a \in ScanState(n)
    BY <1>1, <1>2, <1>7, ScanAssigns
  <2>2. seen \in BOOLEAN
    BY DEF CandidateAfter
  <2>3. [s EXCEPT !.cursor = s.cursor + 1, !.candidate = seen] = [a EXCEPT !.candidate = seen]
    OBVIOUS
  <2> HIDE DEF a, seen
  <2>4. [a EXCEPT !.candidate = seen] \in ScanState(n)
    BY <1>1, <2>1, <2>2, ScanAssigns
  <2> QED BY <2>3, <2>4 DEF seen
<1> DEFINE in == InRawText(source, s)
           comment == AfterComment(s, ScanComment(source, s.cursor))
           tag == AfterTag(s, ScanTag(source, s.cursor))
           found == AfterPlaceholder(s, ParsePlaceholder(source, s.cursor, names),
                                     SubSeq(source, s.literal, s.cursor - 1))
           on == [s EXCEPT !.cursor = s.cursor + 1,
                           !.candidate = CandidateAfter(s.candidate, source[s.cursor])]
<1>15. ScanStep(source, names, s) =
         CASE s.raw # "none" -> in
           [] s.raw = "none" /\ At(source, s.cursor, CommentStart) -> comment
           [] s.raw = "none" /\ source[s.cursor] = "<" /\ ~ At(source, s.cursor, CommentStart) ->
                tag
           [] s.raw = "none" /\ At(source, s.cursor, Open) -> found
           [] OTHER -> on
  BY DEF ScanStep
<1> HIDE DEF in, comment, tag, found, on
<1>16. ScanStep(source, names, s) \in {in, comment, tag, found, on}
  BY <1>15
<1>17. in \in States /\ comment \in States /\ tag \in States /\ found \in States /\ on \in States
  BY <1>10, <1>11, <1>12, <1>13, <1>14 DEF in, comment, tag, found, on
<1> HIDE DEF States
<1> QED BY <1>16, <1>17 DEF n, States
-----------------------------------------------------------------------------
(* The loop of the scan. *)
ScanTurn(source, names, s) ==
  IF s.status = "ok" /\ s.cursor <= Len(source) THEN ScanStep(source, names, s) ELSE s

ScanFolds(h, source, names) ==
  h = [t \in SUBSET (DOMAIN source) |->
         IF t = {} THEN ScanStart
         ELSE LET x == Max(t) IN ScanTurn(source, names, h[t \ {x}])]

LEMMA ScanIsFold ==
  ASSUME NEW source, NEW names
  PROVE  Scan(source, names) =
           ScanEnd(source, (CHOOSE h : ScanFolds(h, source, names))[DOMAIN source])
BY Zenon DEF Scan, FoldLeft, MapThenFoldSet, ScanFolds, ScanTurn

(* The parts that a scan leaves: texts, and slots of the table. *)
LEMMA ScanLeavesParts ==
  ASSUME NEW source \in Seq(Symbols), NEW names \in Seq(Seq(Symbols))
  PROVE  Scan(source, names).parts \in Seq(PartOf(Len(names)))
<1> DEFINE m == Len(names)
           n == Len(source)
           A == ScanState(m)
           turn == [p \in A \X (1 .. n) |-> ScanTurn(source, names, p[1])]
<1>1. n \in Nat /\ m \in Nat /\ DOMAIN source = 1 .. n
  OBVIOUS
<1>2. ScanStart \in A
  <2>1. <<>> \in Seq(PartOf(m))
    OBVIOUS
  <2> QED BY <2>1 DEF ScanStart, ScanState, ScanStatuses, RawKinds
<1>3. ASSUME NEW a \in A, NEW i \in 1 .. n
      PROVE  turn[<<a, i>>] = ScanTurn(source, names, a) /\ turn[<<a, i>>] \in A
  <2>1. turn[<<a, i>>] = ScanTurn(source, names, a)
    OBVIOUS
  <2>2. ScanTurn(source, names, a) \in A
    BY ScanStepKeeps DEF ScanTurn
  <2> HIDE DEF turn, A
  <2> QED BY <2>1, <2>2
<1> HIDE DEF A, turn, n, m
<1>4. PICK h : Folds(h, A, ScanStart, turn, n)
  BY <1>1, <1>2, <1>3, FoldExists DEF StepsIn
<1>5. ASSUME NEW t \in SUBSET (1 .. n)
      PROVE  h[t] = IF t = {} THEN ScanStart ELSE ScanTurn(source, names, h[t \ {Max(t)}])
  <2>1. CASE t = {}
    BY <1>4, <2>1 DEF Folds
  <2>2. CASE t # {}
    <3>1. Max(t) \in 1 .. n /\ t \ {Max(t)} \in SUBSET (1 .. n)
      BY <1>1, <2>2, MaxOfPlaces
    <3>2. h[t \ {Max(t)}] \in A /\ h[t] = turn[<<h[t \ {Max(t)}], Max(t)>>]
      BY <1>4, <2>2, <3>1 DEF Folds
    <3> QED BY <1>3, <2>2, <3>1, <3>2
  <2> QED BY <2>1, <2>2
<1>6. \E f : ScanFolds(f, source, names)
  <2>1. h = [t \in SUBSET (1 .. n) |->
               IF t = {} THEN ScanStart ELSE ScanTurn(source, names, h[t \ {Max(t)}])]
    BY <1>4, <1>5 DEF Folds
  <2>2. ScanFolds(h, source, names)
    BY <1>1, <2>1, Zenon DEF ScanFolds
  <2> QED BY <2>2
<1> DEFINE f == CHOOSE e : ScanFolds(e, source, names)
<1>7. ScanFolds(f, source, names)
  BY <1>6, Zenon
<1>8. Scan(source, names) = ScanEnd(source, f[1 .. n])
  BY <1>1, ScanIsFold
<1> HIDE DEF f
<1>9. Repeats(f, A, ScanStart, turn, n)
  <2>1. \A t \in SUBSET (1 .. n) :
          f[t] = IF t = {} THEN ScanStart ELSE ScanTurn(source, names, f[t \ {Max(t)}])
    BY <1>1, <1>7, Zenon DEF ScanFolds
  <2>2. f[{}] = ScanStart
    BY <2>1
  <2>3. ASSUME NEW k \in 1 .. n, f[1 .. k - 1] \in A
        PROVE  f[1 .. k] = turn[<<f[1 .. k - 1], k>>]
    <3> DEFINE t == 1 .. k
    <3>1. t \in SUBSET (1 .. n) /\ t # {} /\ Max(t) = k /\ t \ {k} = 1 .. k - 1
      BY <1>1, PlacesUpTo
    <3> HIDE DEF t
    <3>2. f[t] = ScanTurn(source, names, f[1 .. k - 1])
      BY <2>1, <3>1
    <3> QED BY <1>3, <2>3, <3>2 DEF t
  <2> QED BY <2>2, <2>3 DEF Repeats
<1>10. f[1 .. n] \in A
  <2>1. f[1 .. n] = h[1 .. n]
    BY <1>1, <1>4, <1>9, FoldUnique
  <2>2. h[1 .. n] \in A
    BY <1>1, <1>4, FoldPrefixes
  <2> QED BY <2>1, <2>2
<1> DEFINE end == f[1 .. n]
           last == SubSeq(source, end.literal, n)
           parts == AddLiteral(end.parts, last)
<1>11. end.literal \in Nat \ {0} /\ end.parts \in Seq(PartOf(m)) /\ end \in ScanState(m)
  BY <1>1, <1>10, ScanAssigns DEF A
<1>12. parts \in Seq(PartOf(m))
  <2>1. last \in Seq(Symbols)
    BY <1>1, <1>11, PartOfText DEF n
  <2> HIDE DEF last, end
  <2> QED BY <1>1, <1>11, <2>1, AddsLiteral
<1>13. ScanEnd(source, end) =
         IF end.status # "ok" THEN end ELSE [end EXCEPT !.parts = parts]
  BY DEF ScanEnd, n
<1> HIDE DEF end, parts
<1>14. [end EXCEPT !.parts = parts].parts = parts
  BY <1>11 DEF ScanState
<1> QED BY <1>8, <1>11, <1>12, <1>13, <1>14 DEF m, end
-----------------------------------------------------------------------------
(***************************************************************************)
(* ViewOutput: the invariant                                               *)
(***************************************************************************)

(* Start-up scans what is served and leaves the arena alone. *)
LEMMA ServeKeeps ==
  ASSUME ArenaInvariant, Serve
  PROVE  ArenaInvariant'
<1>1. UNCHANGED <<offset, memory, outputs, chunks, bodies, drafts>>
  BY DEF Serve, held
<1>2. serving' = [i \in DOMAIN Served |->
                    [template |-> Served[i],
                     parts |-> Scan(Served[i].source, Served[i].fields).parts]]
  BY DEF Serve
<1>3. \A i \in DOMAIN Served : Served[i] \in ServedTemplate
  <2>1. Served \in Seq(ServedTemplate)
    BY ViewOutputAssumption DEF ServedTemplate
  <2> QED BY <2>1
<1>4. ServingScanned'
  <2> SUFFICES ASSUME NEW i \in DOMAIN serving'
               PROVE  /\ serving'[i].template \in ServedTemplate
                      /\ serving'[i].parts \in Seq(PartOf(Len(serving'[i].template.fields)))
    BY DEF ServingScanned, ServedTemplate, PartOf
  <2> DEFINE asked == Served[i]
             parts == Scan(asked.source, asked.fields).parts
  <2>1. i \in DOMAIN Served /\ serving'[i].template = asked /\ serving'[i].parts = parts
    BY <1>2
  <2>2. asked \in ServedTemplate
    BY <1>3, <2>1
  <2> HIDE DEF asked
  <2>3. asked.source \in Seq(Symbols) /\ asked.fields \in Seq(Seq(Symbols))
    BY <2>2 DEF ServedTemplate
  <2>4. parts \in Seq(PartOf(Len(asked.fields)))
    BY <2>3, ScanLeavesParts
  <2> HIDE DEF parts
  <2> QED BY <2>1, <2>2, <2>4
<1>5. /\ Regions' = Regions /\ Active' = Active /\ Holders' = Holders
      /\ \A o : OutputEnd(o)' = OutputEnd(o)
  BY <1>1 DEF Regions, Active, Holders, OutputEnd
<1>6. ArenaTypes' /\ ChunksAligned'
  BY <1>1 DEF ArenaInvariant, ArenaTypes, ChunksAligned
<1>7. RegionsApart' /\ HoldersApart'
  BY <1>1, <1>5 DEF ArenaInvariant, RegionsApart, HoldersApart, EndOf, OutputEnd, Apart
<1>8. BodiesThere' /\ DraftsThere'
  BY <1>1, <1>5 DEF ArenaInvariant, BodiesThere, DraftsThere, OutputEnd
<1> QED BY <1>4, <1>6, <1>7, <1>8 DEF ArenaInvariant

(* Every call of a request. *)
LEMMA RequestKeeps ==
  ASSUME ArenaInvariant, Request
  PROVE  ArenaInvariant'
<1>1. serving' = serving
  BY DEF Request
<1>2. CASE \E size \in Lengths, alignment \in Alignments : Alloc(size, alignment)
  BY <1>1, <1>2, AllocKeeps
<1>3. CASE \E low \in 0 .. Capacity : Rewind(low)
  BY <1>1, <1>3, ArenaRewindKeeps
<1>4. CASE Reset
  BY <1>1, <1>4, ResetKeeps
<1>5. ASSUME NEW o \in Outputs, \E length \in Lengths : Begin(o, length)
      PROVE  ArenaInvariant'
  BY <1>1, <1>5, BeginKeeps
<1>6. ASSUME NEW o \in Outputs, NEW text \in Texts, AppendText(o, text) \/ HtmlAppend(o, text)
      PROVE  ArenaInvariant'
  <2>1. text \in Seq(Symbols)
    BY ViewOutputAssumption
  <2> QED BY <1>1, <1>6, <2>1, AppendTextKeeps, HtmlAppendKeeps
<1>7. ASSUME NEW o \in Outputs, AppendOwn(o) \/ HtmlAppendOwn(o) \/ Commit(o) \/ Abort(o)
      PROVE  ArenaInvariant'
  BY <1>1, <1>7, AppendOwnKeeps, HtmlAppendOwnKeeps, CommitKeeps, AbortCallKeeps
<1>8. CASE \E i \in DOMAIN serving : Render(serving[i])
  BY <1>1, <1>8, RenderKeeps
<1> QED BY <1>2, <1>3, <1>4, <1>5, <1>6, <1>7, <1>8, Zenon DEF Request

LEMMA ArenaInitially ==
  ASSUME ViewInit
  PROVE  ArenaInvariant
<1>1. Capacity \in Nat /\ "" \in Symbols
  BY ViewOutputAssumption
<1>2. /\ offset = 0 /\ chunks = {} /\ bodies = {} /\ serving = <<>>
      /\ memory = [b \in 1 .. Capacity |-> ""]
      /\ outputs = [o \in Outputs |-> Idle] /\ drafts = [o \in Outputs |-> <<>>]
  BY DEF ViewInit
<1>3. ArenaTypes
  <2>1. Idle \in OutputState
    <3>1. Capacity \in Nat
      BY <1>1
    <3> QED BY <3>1 DEF Idle, OutputState
  <2>2. memory \in Seq(Symbols) /\ Len(memory) = Capacity
    <3> DEFINE blank == ""
    <3>1. blank \in Symbols /\ Capacity \in Nat /\ memory = [b \in 1 .. Capacity |-> blank]
      BY <1>1, <1>2
    <3> HIDE DEF blank
    <3> QED BY <3>1
  <2>3. <<>> \in Seq(Symbols)
    OBVIOUS
  <2>4. offset \in 0 .. Capacity
    <3>1. Capacity \in Nat /\ offset = 0
      BY <1>1, <1>2
    <3> QED BY <3>1
  <2>5. outputs \in [Outputs -> OutputState] /\ drafts \in [Outputs -> Seq(Symbols)]
    BY <1>2, <2>1, <2>3
  <2> QED BY <2>2, <2>4, <2>5 DEF ArenaTypes
<1>4. Active = {} /\ Holders = {} /\ Regions = {}
  <2>1. \A o \in Outputs : outputs[o].state # "ACTIVE"
    BY <1>2 DEF Idle
  <2> QED BY <1>2, <2>1 DEF Active, Holders, Regions
<1>5. chunks = {} /\ bodies = {} /\ serving = <<>>
  BY <1>2
<1>6. RegionsApart /\ HoldersApart /\ ChunksAligned /\ BodiesThere /\ DraftsThere
      /\ ServingScanned
  BY <1>4, <1>5
     DEF RegionsApart, HoldersApart, ChunksAligned, BodiesThere, DraftsThere, ServingScanned
<1> QED BY <1>3, <1>6 DEF ArenaInvariant

(* What is proved of every reachable state: the memory of regions and of    *)
(* outputs at work lies apart and below the frontier, and holds the text    *)
(* that was written; templates served have scanned parts.                   *)
THEOREM ArenaInvariantHolds == ViewSpec => []ArenaInvariant
<1>1. ViewInit => ArenaInvariant
  BY ArenaInitially
<1>2. ArenaInvariant /\ [ViewNext]_viewVars => ArenaInvariant'
  <2> SUFFICES ASSUME ArenaInvariant, [ViewNext]_viewVars
               PROVE  ArenaInvariant'
    OBVIOUS
  <2>1. CASE Serve
    BY <2>1, ServeKeeps
  <2>2. CASE \E in \in Inputs : PrepareTemplate(in)
    BY <2>2, NothingChanged DEF PrepareTemplate, held
  <2>3. CASE Request
    BY <2>3, RequestKeeps
  <2>4. CASE UNCHANGED viewVars
    BY <2>4, NothingChanged DEF viewVars, held
  <2> QED BY <2>1, <2>2, <2>3, <2>4 DEF ViewNext, StartUp
<1> QED BY <1>1, <1>2, PTL DEF ViewSpec

(* It says that live memory is intact. *)
LEMMA ArenaKeepsMemory ==
  ASSUME ArenaInvariant
  PROVE  LiveMemoryIntact
<1> DEFINE span(o) == outputs[o].mark + 1 .. OutputEnd(o)
           Working == {Body(outputs[o].mark, drafts[o]) : o \in Active}
<1>1. ArenaTypes /\ RegionsApart /\ HoldersApart /\ ChunksAligned /\ BodiesThere /\ DraftsThere
  BY DEF ArenaInvariant
<1>2. /\ Capacity \in Nat /\ offset \in Nat /\ offset <= Capacity
      /\ memory \in Seq(Symbols) /\ Len(memory) = Capacity
      /\ Active \subseteq Outputs /\ Holders \subseteq Active
      /\ \A o \in Outputs :
           /\ drafts[o] \in Seq(Symbols)
           /\ outputs[o].mark \in Nat /\ outputs[o].required \in Nat /\ outputs[o].length \in Nat
           /\ OutputEnd(o) = outputs[o].mark + outputs[o].required
  BY <1>1, ArenaFacts
<1>3. \A r \in Regions : /\ r.at \in Nat /\ r.length \in Nat /\ EndOf(r) <= offset
                         /\ EndOf(r) = r.at + r.length /\ EndOf(r) \in Nat
  BY <1>1 DEF RegionsApart, EndOf
<1>4. ASSUME NEW o \in Active, o \notin Holders
      PROVE  span(o) = {}
  BY <1>2, <1>4 DEF Holders
<1>5. \A r, s \in Regions : r # s => Bytes(r) \intersect Bytes(s) = {}
  <2> SUFFICES ASSUME NEW r \in Regions, NEW s \in Regions, r # s
               PROVE  Bytes(r) \intersect Bytes(s) = {}
    OBVIOUS
  <2>1. EndOf(r) <= s.at \/ EndOf(s) <= r.at
    BY <1>1 DEF RegionsApart, Apart
  <2> QED BY <1>3, <2>1 DEF Bytes
<1>6. \A o, p \in Active : o # p => span(o) \intersect span(p) = {}
  <2> SUFFICES ASSUME NEW o \in Active, NEW p \in Active, o # p
               PROVE  span(o) \intersect span(p) = {}
    OBVIOUS
  <2>1. CASE o \in Holders /\ p \in Holders
    <3>1. OutputEnd(o) <= outputs[p].mark \/ OutputEnd(p) <= outputs[o].mark
      BY <1>1, <2>1 DEF HoldersApart, Apart
    <3>2. ASSUME NEW a \in Nat, NEW m \in Nat, NEW b \in Nat, NEW n \in Nat, m <= b \/ n <= a
          PROVE  (a + 1 .. m) \intersect (b + 1 .. n) = {}
      BY <3>2
    <3>3. OutputEnd(o) \in Nat /\ OutputEnd(p) \in Nat /\ outputs[o].mark \in Nat
          /\ outputs[p].mark \in Nat
      BY <1>2
    <3> QED BY <3>1, <3>2, <3>3
  <2> QED BY <1>4, <2>1
<1>7. \A r \in Regions, o \in Active : Bytes(r) \intersect span(o) = {}
  <2> SUFFICES ASSUME NEW r \in Regions, NEW o \in Active
               PROVE  Bytes(r) \intersect span(o) = {}
    OBVIOUS
  <2>1. CASE o \in Holders
    <3>1. EndOf(r) <= outputs[o].mark \/ OutputEnd(o) <= r.at
      BY <1>1, <2>1 DEF HoldersApart, Apart
    <3> QED BY <1>2, <1>3, <3>1 DEF Bytes
  <2> QED BY <1>4, <2>1
<1>8. \A r \in Regions : Bytes(r) \subseteq 1 .. offset
  BY <1>2, <1>3 DEF Bytes
<1>9. \A c \in chunks : (Base + c.at) % c.alignment = 0
  BY <1>1 DEF ChunksAligned
<1>10. ASSUME NEW pos \in Nat, NEW text \in Seq(Symbols), pos + Len(text) <= Capacity,
              \A i \in 1 .. Len(text) : memory[pos + i] = text[i]
       PROVE  SubSeq(memory, pos + 1, pos + Len(text)) = text
  <2> DEFINE n == Len(text)
             there == SubSeq(memory, pos + 1, pos + n)
  <2>1. n \in Nat /\ pos + 1 \in Int /\ pos + n \in Int
    OBVIOUS
  <2>2. \A i \in pos + 1 .. pos + n : memory[i] \in Symbols
    <3> TAKE i \in pos + 1 .. pos + n
    <3>1. i \in 1 .. Len(memory)
      BY <1>2, <1>10
    <3> QED BY <1>2, <3>1
  <2>3. /\ there \in Seq(Symbols)
        /\ Len(there) = (IF pos + 1 <= pos + n THEN (pos + n) - (pos + 1) + 1 ELSE 0)
        /\ \A i \in 1 .. (pos + n) - (pos + 1) + 1 : there[i] = memory[(pos + 1) + i - 1]
    <3> HIDE DEF n
    <3> QED BY <2>1, <2>2, SubSeqProperties
  <2> HIDE DEF there, n
  <2>4. Len(there) = n
    BY <2>1, <2>3
  <2>5. \A i \in 1 .. n : there[i] = text[i]
    <3> TAKE i \in 1 .. n
    <3>1. (pos + 1) + i - 1 = pos + i /\ (pos + n) - (pos + 1) + 1 = n
      BY <2>1
    <3>2. memory[pos + i] = text[i]
      BY <1>10 DEF n
    <3> QED BY <2>3, <3>1, <3>2
  <2>6. there = text
    <3>1. DOMAIN there = 1 .. n /\ there = [i \in 1 .. n |-> there[i]]
      BY <2>3, <2>4
    <3>2. text = [i \in 1 .. n |-> text[i]]
      BY DEF n
    <3> QED BY <2>5, <3>1, <3>2
  <2> QED BY <2>6 DEF there, n
<1>11. ASSUME NEW b \in bodies
       PROVE  SubSeq(memory, b.at + 1, EndOf(b)) = b.text
  <2>1. /\ b.at \in Nat /\ b.text \in Seq(Symbols) /\ Len(b.text) = b.length
        /\ EndOf(b) = b.at + Len(b.text) /\ EndOf(b) <= Capacity
        /\ \A i \in 1 .. Len(b.text) : memory[b.at + i] = b.text[i]
    <3>1. b \in Regions
      BY DEF Regions
    <3>2. b.at \in Nat /\ EndOf(b) = b.at + b.length /\ EndOf(b) <= offset /\ EndOf(b) \in Nat
      BY <1>3, <3>1
    <3>3. /\ b.text \in Seq(Symbols) /\ Len(b.text) = b.length
          /\ \A i \in 1 .. b.length : memory[b.at + i] = b.text[i]
      BY <1>1 DEF BodiesThere
    <3> QED BY <1>2, <3>2, <3>3
  <2> QED BY <1>10, <2>1
<1>12. ASSUME NEW o \in Active
       PROVE  LET b == Body(outputs[o].mark, drafts[o])
              IN SubSeq(memory, b.at + 1, EndOf(b)) = b.text
  <2> DEFINE pos == outputs[o].mark
             text == drafts[o]
             b == Body(pos, text)
  <2>1. /\ pos \in Nat /\ text \in Seq(Symbols) /\ pos + Len(text) <= Capacity
        /\ \A i \in 1 .. Len(text) : memory[pos + i] = text[i]
    <3>1. o \in Outputs
      BY <1>2
    <3>2. /\ OutputEnd(o) <= Capacity /\ outputs[o].length <= outputs[o].required
          /\ Len(text) = outputs[o].length
          /\ \A i \in 1 .. outputs[o].length : memory[pos + i] = text[i]
      BY <1>1 DEF DraftsThere
    <3> QED BY <1>2, <3>1, <3>2
  <2> HIDE DEF pos, text
  <2>2. b.at = pos /\ b.text = text /\ EndOf(b) = pos + Len(text)
    BY DEF Body, EndOf
  <2>3. SubSeq(memory, pos + 1, pos + Len(text)) = text
    BY <1>10, <2>1
  <2> QED BY <2>2, <2>3 DEF pos, text
<1>13. \A b \in bodies \union Working : SubSeq(memory, b.at + 1, EndOf(b)) = b.text
  BY <1>11, <1>12
<1> QED BY <1>5, <1>6, <1>7, <1>8, <1>9, <1>13 DEF LiveMemoryIntact, Regions

(* What callers hold stays theirs: chunks, committed bodies and outputs at  *)
(* work share no byte, lie below the frontier, chunks where they were asked *)
(* for, and hold what was appended, through any calls of arena.asm,         *)
(* buffer.asm and view.c in any order.                                      *)
THEOREM LiveMemoryTheorem == ViewSpec => []LiveMemoryIntact
<1>1. ArenaInvariant => LiveMemoryIntact
  BY ArenaKeepsMemory
<1> QED BY <1>1, ArenaInvariantHolds, PTL
=============================================================================
