-------------------------- MODULE RequestDispatch --------------------------
(***************************************************************************)
(* One request on its way from its bytes (HttpMessage, HttpFields) through *)
(* http1_dispatch (src/c/http_mvc.c), the application capability           *)
(* (application_foundation.c) and the routes, middlewares, controller and  *)
(* presenter of MVC0 (mvc.c), up to the bytes of its response              *)
(* (HttpResponse).                                                         *)
(*                                                                         *)
(* A step ends where a callback of the application starts or returns; a    *)
(* running callback may add, mark and rewind response fields.  A path is   *)
(* the sequence of its segments after the first slash ("/a/" is            *)
(* << <<"a">>, <<>> >>), the empty sequence is one without that slash.     *)
(* Memory regions are taken to be disjoint and the sidecar's guards        *)
(* intact.                                                                 *)
(***************************************************************************)
EXTENDS HttpGrammar, HttpResponse

CONSTANTS
  Catalogs,                 \* what the application may prepare
  Parameters, BadNames,     \* pattern segments ":name", well and ill formed
  Traffic,                  \* what may arrive for a catalog
  Plans,                    \* responses of its callbacks, invalid too
  FieldLines,               \* response fields callbacks append, invalid too
  FieldCapacity,            \* of the response fields
  Capacities,               \* of the output buffer
  MaxRequests, MaxAppends   \* bounds, by catalog: requests, appends within one

ASSUME RequestDispatchAssumption ==
  /\ {FieldCapacity, MaxU64} \union Capacities \subseteq Nat
  /\ {MaxRequests, MaxAppends} \subseteq [Catalogs -> Nat]
  /\ \A line \in FieldLines : line.name \in Seq(STRING) /\ line.value \in Seq(STRING)
  /\ \A c \in Catalogs :
       c.routes \in Seq([method : Seq(STRING), pattern : Seq(Seq(STRING)), list : Seq(Nat)])
  /\ Parameters \intersect BadNames = {}

VARIABLES
  application,      \* the prepared catalog and its maximal parameter count
  request, served,  \* the request at work as it was understood, and its number
  route, params,    \* its route's index, or 0, and the parameters' values
  pc, at,           \* the callback running, and its place in the route's list
  current,          \* the response so far
  fields, issued,   \* the sidecar: response fields; appends of this request
  mark,             \* a mark some callback of this request took
  output, ret,      \* what was serialized, the status of the last call
  trace             \* history: the callbacks of this request and their plans

routing == <<request, served, route, params>>
sidecar == <<fields, issued, mark>>
vars == <<application, routing, pc, at, current, sidecar, output, ret, trace>>

NoPlan == [status |-> 0, body |-> <<>>, keepAlive |-> FALSE]
Empty == [status |-> 0, fields |-> <<>>, body |-> <<>>, close |-> FALSE, wire |-> <<>>]
NoRequest == [text |-> <<>>, status |-> "none", message |-> 0, fields |-> <<>>,
              method |-> <<>>, path |-> <<>>, host |-> FALSE, connection |-> "keep",
              target |-> FALSE]
NoMark == [request |-> 0, fields |-> <<>>, undercut |-> TRUE]
NoCatalog == [routes |-> <<>>, middlewares |-> <<>>]
NoApplication == [ready |-> FALSE, catalog |-> NoCatalog, maxParams |-> 0]
Field == [request : Nat, id : Nat, name : Seq(STRING), value : Seq(STRING)]
Statuses == {"none", "ok", "again", "failed", "einval", "enospc", "eexist", "eoverflow"}

TypeOK ==
  /\ application \in [ready : BOOLEAN, catalog : Catalogs \union {NoCatalog},
                      maxParams : Nat]
  /\ request.text \in Seq(STRING)
  /\ request.status \in Statuses /\ request.connection \in {"keep", "close", "malformed"}
  /\ served \in Nat
  /\ route \in 0 .. Len(application.catalog.routes) /\ params \in Seq(Seq(STRING))
  /\ pc \in {"idle", "before", "controller", "presenter", "after"} /\ at \in Nat
  /\ current \in UNION Range(Plans) \union {NoPlan}
  /\ fields \in Seq(Field) /\ Len(fields) <= FieldCapacity
  /\ issued \in Nat /\ ret \in Statuses
  /\ mark \in [request : Nat, fields : Seq(Field), undercut : BOOLEAN]
  /\ output \in [status : Nat, fields : Seq(Field), body : Seq(STRING), close : BOOLEAN,
                wire : Seq(STRING)]

Init ==
  /\ application = NoApplication
  /\ request = NoRequest /\ served = 0 /\ route = 0 /\ params = <<>>
  /\ pc = "idle" /\ at = 0 /\ current = NoPlan
  /\ fields = <<>> /\ issued = 0 /\ mark = NoMark
  /\ output = Empty /\ ret = "none" /\ trace = <<>>
-----------------------------------------------------------------------------
(***************************************************************************)
(* Route patterns                                                          *)
(***************************************************************************)
\* How many parameters the first n segments hold.
CountParams(pattern, n) == Cardinality({i \in 1 .. n : pattern[i] \in Parameters})

\* What stops route_pattern_match at segment i, "none" if nothing does.
Obstacle(pattern, path, capacity, i) ==
  CASE i > Len(path) -> "nomatch"
    [] i = Len(path) /\ path[i] = <<>> /\ pattern[i] # <<>> -> "nomatch"
    [] OTHER ->
         CASE pattern[i] \in BadNames -> "einval"
           [] pattern[i] \in Parameters /\ path[i] = <<>> -> "nomatch"
           [] pattern[i] \in Parameters /\ path[i] # <<>> ->
                IF CountParams(pattern, i - 1) < capacity THEN "none" ELSE "enospc"
           [] OTHER -> IF pattern[i] = path[i] THEN "none" ELSE "nomatch"

\* arbor_route_match: segment by segment.
RouteMatch(pattern, path, capacity) ==
  LET stops == {i \in 1 .. Len(pattern) : Obstacle(pattern, path, capacity, i) # "none"}
  IN CASE pattern = <<>> -> "einval"
       [] pattern # <<>> /\ path = <<>> -> "nomatch"
       [] OTHER -> IF stops # {} THEN Obstacle(pattern, path, capacity, Min(stops))
                   ELSE IF Len(pattern) = Len(path) THEN "match" ELSE "nomatch"

\* The records route_pattern_match writes.
ParamValues(pattern, path) ==
  [k \in 1 .. CountParams(pattern, Len(pattern)) |->
     path[Min({i \in 1 .. Len(pattern) : CountParams(pattern, i) = k})]]
-----------------------------------------------------------------------------
(***************************************************************************)
(* Preparing the application                                               *)
(***************************************************************************)
\* catalog_validate_shape.
ShapeValid(catalog) ==
  /\ \A m \in 1 .. Len(catalog.middlewares) :
       catalog.middlewares[m].before \/ catalog.middlewares[m].after
  /\ \A r \in 1 .. Len(catalog.routes) : LET list == catalog.routes[r].list IN
       /\ Range(list) \subseteq 1 .. Len(catalog.middlewares)
       /\ IsInjective(list)

HasDuplicates(routes) ==
  \E i, j \in 1 .. Len(routes) :
    /\ i # j /\ routes[i].method = routes[j].method /\ routes[i].pattern = routes[j].pattern

\* The scratch holds as many parameters as the longest pattern has bytes.
SelfMatches(r) == RouteMatch(r.pattern, r.pattern, Len(r.pattern)) = "match"

MaxParams(routes) ==
  Max({0} \union {CountParams(r.pattern, Len(r.pattern)) : r \in Range(routes)})

PrepareStatus(catalog, room) ==
  CASE ~ShapeValid(catalog) -> "einval"
    [] ShapeValid(catalog) /\ ~room -> "enospc"
    [] ShapeValid(catalog) /\ room /\ HasDuplicates(catalog.routes) -> "eexist"
    [] OTHER -> IF \A r \in Range(catalog.routes) : SelfMatches(r) THEN "ok" ELSE "einval"

Prepare(catalog) ==
  /\ pc = "idle" /\ ~application.ready
  /\ \E room \in BOOLEAN :
       /\ ret' = PrepareStatus(catalog, room)
       /\ application' =
            IF ret' = "ok"
            THEN [ready |-> TRUE, catalog |-> catalog, maxParams |-> MaxParams(catalog.routes)]
            ELSE application
  /\ UNCHANGED <<routing, pc, at, current, sidecar, output, trace>>
-----------------------------------------------------------------------------
(***************************************************************************)
(* Ending a request                                                        *)
(***************************************************************************)
List == application.catalog.routes[route].list

Middleware(i) == application.catalog.middlewares[List[i]]

\* arbor_response_plan_validate.
PlanValid(plan) ==
  /\ plan.status \in 200 .. 599
  /\ plan.status \in BodilessStatuses => plan.body = <<>>

NotFound == [status |-> 404, body |-> <<>>, keepAlive |-> TRUE]
BadRequest == [status |-> 400, body |-> <<>>, keepAlive |-> FALSE]

Done == pc' = "idle" /\ at' = 0 /\ current' = NoPlan

Fail(status) == Done /\ ret' = status /\ output' = Empty

\* arbor_http_response_make: the application's flag is the other way round.
Response(plan, flds) ==
  [status |-> plan.status, fields |-> flds, body |-> plan.body, close |-> ~plan.keepAlive]

Sent(response, result) ==
  [status |-> response.status, fields |-> response.fields, body |-> response.body,
   close |-> result.close, wire |-> result.wire]

Answer(response, result) ==
  /\ ret' = result.status
  /\ output' = IF result.status = "ok" THEN Sent(response, result) ELSE Empty

\* The output buffer may be too small.
Respond(req, plan, flds) ==
  /\ \E capacity \in Capacities :
       Answer(Response(plan, flds),
              Serialize(req.method, req.connection, Response(plan, flds), capacity))
  /\ Done
-----------------------------------------------------------------------------
(***************************************************************************)
(* From one callback to the next                                           *)
(***************************************************************************)
\* The transport has sent the last response, or closed, before it dispatches.
Run(callback, i) == pc' = callback /\ at' = i /\ output' = Empty /\ UNCHANGED ret

\* The next before callback, or the controller.
Inward(list, middlewares, i) ==
  LET befores == {j \in i .. Len(list) : middlewares[list[j]].before}
  IN IF befores = {} THEN Run("controller", Len(list)) ELSE Run("before", Min(befores))

NextAfter(afters) == Max(afters)

\* The next after callback of the first n middlewares, or the response.
Outward(n, plan) ==
  LET afters == {j \in 1 .. n : Middleware(j).after}
  IN IF afters = {} THEN Respond(request, plan, fields)
     ELSE Run("after", NextAfter(afters)) /\ current' = plan

Record(plan) == trace' = Append(trace, [call |-> <<pc, at>>, plan |-> plan])

\* A callback's negative number is its status; a positive number, or a result
\* that fails its validation, is EINVAL.  No after callback runs.
CallbackFails ==
  /\ pc # "idle"
  /\ \E status \in {"failed", "einval"} : Fail(status)
  /\ Record(NoPlan) /\ UNCHANGED <<application, routing, sidecar>>

BeforeContinues ==
  /\ pc = "before" /\ Record(NoPlan)
  /\ Inward(List, application.catalog.middlewares, at + 1)
  /\ UNCHANGED <<application, routing, current, sidecar>>

\* Mutant: the middleware that responds does not count as entered.
EnteredBefore(i) == i - 1

Entered(i) == i

BeforeResponds(plan) ==
  /\ pc = "before" /\ Record(plan)
  /\ IF PlanValid(plan) THEN Outward(Entered(at), plan) ELSE Fail("einval")
  /\ UNCHANGED <<application, routing, sidecar>>

ControllerReturns ==
  /\ pc = "controller" /\ Record(NoPlan) /\ Run("presenter", at)
  /\ UNCHANGED <<application, routing, current, sidecar>>

PresenterReturns(plan) ==
  /\ pc = "presenter" /\ Record(plan)
  /\ IF PlanValid(plan) THEN Outward(at, plan) ELSE Fail("einval")
  /\ UNCHANGED <<application, routing, sidecar>>

AfterReturns(plan) ==
  /\ pc = "after" /\ Record(plan)
  /\ IF PlanValid(plan) THEN Outward(at - 1, plan) ELSE Fail("einval")
  /\ UNCHANGED <<application, routing, sidecar>>
-----------------------------------------------------------------------------
(***************************************************************************)
(* Taking a request                                                        *)
(***************************************************************************)
Verdict(req, i) ==
  LET r == application.catalog.routes[i]
  IN IF r.method = req.method THEN RouteMatch(r.pattern, req.path, application.maxParams)
     ELSE "nomatch"

\* Mutant: the scan does not stop at the first match.
LastHit(hits) == Max(hits)

FirstHit(hits) == Min(hits)

\* mvc_request_dispatch up to its first callback.
EnterMvc(req) ==
  LET routes == application.catalog.routes
      hits == {i \in 1 .. Len(routes) : Verdict(req, i) # "nomatch"}
      hit == FirstHit(hits)
      routed == hits # {} /\ Verdict(req, hit) = "match"
  IN /\ route' = IF routed THEN hit ELSE 0
     /\ params' = IF routed THEN ParamValues(routes[hit].pattern, req.path) ELSE <<>>
     /\ CASE routed -> /\ Inward(routes[hit].list, application.catalog.middlewares, 1)
                       /\ UNCHANGED current
          [] hits = {} -> Respond(req, NotFound, <<>>)
          [] OTHER -> Fail(Verdict(req, hit))

\* Mutant: the exchange of the last request is not cleared.
KeptFields == fields

FreshFields == <<>>

HostInvalid(req) == ~req.host

ConnectionMalformed(req) == req.connection = "malformed"

\* A path that request_target refuses, for instance with a fragment.
TargetInvalid(req) == ~req.target

\* What the dispatcher finds out about a parsed request.
Understood(text, parsed, walk) ==
  [text |-> text, status |-> "ok", message |-> parsed.message, fields |-> walk.fields,
   method |-> parsed.method, path |-> PathOf(parsed.target),
   host |-> HostAccepted(parsed.target, walk), connection |-> ConnectionClose(walk),
   target |-> TargetAccepted(parsed.target)]

\* http1_dispatch.
Dispatch(req) ==
  /\ request' = req
  /\ IF HostInvalid(req) \/ ConnectionMalformed(req)
     THEN route' = 0 /\ params' = <<>> /\ Respond(req, BadRequest, <<>>)
     ELSE \/ /\ TargetInvalid(req) /\ route' = 0 /\ params' = <<>> /\ Fail("einval")
          \/ /\ ~TargetInvalid(req) /\ EnterMvc(req)
          \/ \* the arena has no room for the parameters
             /\ ~TargetInvalid(req) /\ application.maxParams # 0
             /\ route' = 0 /\ params' = <<>> /\ Fail("enospc")

\* More has to come, or the transport closes the connection.
Undispatched(text, status) ==
  /\ request' = [NoRequest EXCEPT !.text = text, !.status = status]
  /\ route' = 0 /\ params' = <<>> /\ Fail(status)

Parsed(text, parsed) ==
  IF parsed.status = "ok"
  THEN Dispatch(Understood(text, parsed, WalkHeaders(parsed.headers)))
  ELSE Undispatched(text, parsed.status)

Received == IF application.ready THEN Traffic[application.catalog] ELSE {}

\* A connection's buffer, until its first request is dispatched or refused.
Arrive(text) ==
  /\ pc = "idle" /\ served < MaxRequests[application.catalog]
  /\ served' = served + 1 /\ trace' = <<>>
  /\ fields' = FreshFields /\ issued' = 0 /\ mark' = NoMark /\ UNCHANGED application
  /\ LET verdict == FrameScan(text, 1).verdict
     IN IF verdict = "end" THEN Parsed(text, ParseRequest(text)) ELSE Undispatched(text, verdict)
-----------------------------------------------------------------------------
(***************************************************************************)
(* The sidecar, from inside a callback                                     *)
(***************************************************************************)
InCallback == pc # "idle"

FieldAppend(line) ==
  /\ InCallback /\ issued < MaxAppends[application.catalog]
  /\ CASE ~FieldAllowed(line) -> ret' = "einval" /\ UNCHANGED <<fields, issued>>
       [] FieldAllowed(line) /\ Len(fields) >= FieldCapacity ->
            ret' = "enospc" /\ UNCHANGED <<fields, issued>>
       [] OTHER ->
            /\ fields' = Append(fields, [request |-> served, id |-> issued + 1,
                                       name |-> line.name, value |-> line.value])
            /\ issued' = issued + 1 /\ ret' = "ok"
  /\ UNCHANGED <<application, routing, pc, at, current, mark, output, trace>>

FieldsMark ==
  /\ InCallback /\ ret' = "ok"
  /\ mark' = [request |-> served, fields |-> fields, undercut |-> FALSE]
  /\ UNCHANGED <<application, routing, pc, at, current, fields, issued, output, trace>>

\* To any count, whoever took it.
FieldsRewind(count) ==
  /\ InCallback
  /\ IF count > Len(fields)
     THEN ret' = "einval" /\ UNCHANGED <<fields, mark>>
     ELSE /\ ret' = "ok" /\ fields' = SubSeq(fields, 1, count)
          /\ mark' = [mark EXCEPT !.undercut = @ \/ count < Len(mark.fields)]
  /\ UNCHANGED <<application, routing, pc, at, current, issued, output, trace>>
-----------------------------------------------------------------------------
Responses == IF application.ready THEN Plans[application.catalog] ELSE {}

Next ==
  \/ \E catalog \in Catalogs : Prepare(catalog)
  \/ \E text \in Received : Arrive(text)
  \/ CallbackFails
  \/ BeforeContinues
  \/ \E plan \in Responses : BeforeResponds(plan)
  \/ ControllerReturns
  \/ \E plan \in Responses : PresenterReturns(plan)
  \/ \E plan \in Responses : AfterReturns(plan)
  \/ \E line \in FieldLines : FieldAppend(line)
  \/ FieldsMark
  \/ \E count \in 0 .. FieldCapacity : FieldsRewind(count)

Spec == Init /\ [][Next]_vars
-----------------------------------------------------------------------------
(***************************************************************************)
(* Properties                                                              *)
(***************************************************************************)
\* A pattern and a path agree, said without the matcher's order of tests.
Agrees(r, req) ==
  /\ r.method = req.method /\ Len(r.pattern) = Len(req.path)
  /\ \A i \in 1 .. Len(r.pattern) :
       IF r.pattern[i] \in Parameters THEN req.path[i] # <<>> ELSE r.pattern[i] = req.path[i]

\* mvc_request_dispatch gives a request to the first route in catalog order
\* that agrees with it, with the values of that route's parameters in order,
\* whatever else overlaps; a request that some route agrees with is never
\* answered 404, and matching against a prepared catalog never fails, for
\* ill-formed names or for room.
RouteIsFirstMatch ==
  request.status = "ok" /\ ~HostInvalid(request) /\ ~ConnectionMalformed(request)
  /\ ~TargetInvalid(request) =>
    LET routes == application.catalog.routes
        agreeing == {i \in 1 .. Len(routes) : Agrees(routes[i], request)}
        places == {i \in 1 .. Len(request.path) : routes[route].pattern[i] \in Parameters}
    IN /\ route # 0 =>
            /\ route \in agreeing /\ \A i \in agreeing : route <= i
            /\ Len(params) = Cardinality(places)
            /\ \A i \in places :
                 params[Cardinality({j \in places : j <= i})] = request.path[i]
       /\ route = 0 /\ output # Empty => agreeing = {} /\ output.status = 404
       /\ \A i \in 1 .. Len(routes) : Verdict(request, i) \in {"match", "nomatch"}

\* The calls around the first n middlewares of the list, and in the middle the
\* controller and the presenter unless one of those responded.
Onion(n, responded) ==
  {<<"before", i>> : i \in {j \in 1 .. n : Middleware(j).before}}
  \union (IF responded THEN {} ELSE {<<"controller", n>>, <<"presenter", n>>})
  \union {<<"after", i>> : i \in {j \in 1 .. n : Middleware(j).after}}

\* The order of the calls: inwards, then outwards.
Place(call) ==
  CASE call[1] = "before" -> call[2]
    [] call[1] = "controller" -> Len(List) + 1
    [] call[1] = "presenter" -> Len(List) + 2
    [] OTHER -> 2 * Len(List) + 3 - call[2]

\* The middlewares that responded before the controller: one or none.
Early == {i \in DOMAIN trace : trace[i].call[1] = "before" /\ trace[i].plan # NoPlan}

\* The onion this request is in.
Expected == IF Early = {} THEN Onion(Len(List), FALSE)
         ELSE Onion(trace[Min(Early)].call[2], TRUE)

\* Whatever middlewares, controller and presenter do, the callbacks of a
\* request are an onion: every middleware entered is left once, the last one
\* first, also when one of them responds in place of the controller, none is
\* passed over, and a response is sent only when all are left; it is the last
\* one made, and not kept alive against the request or the application.
TraceIsOnion ==
  route # 0 =>
    LET calls == {entry.call : entry \in Range(trace)}
        answers == {i \in DOMAIN trace : trace[i].plan # NoPlan}
    IN /\ calls \subseteq Expected
       /\ \A i, j \in DOMAIN trace : i < j => Place(trace[i].call) < Place(trace[j].call)
       /\ \A call \in Expected, last \in calls : Place(call) < Place(last) => call \in calls
       /\ output # Empty =>
            /\ calls = Expected /\ answers # {}
            /\ output.status = trace[Max(answers)].plan.status
            /\ ~output.close =>
                 trace[Max(answers)].plan.keepAlive /\ request.connection = "keep"

\* The sidecar is the request's own: its fields were appended by this
\* request's callbacks and are sent in that order, and a mark taken in this
\* request still stands for the fields it was taken over, unless something
\* rewound below it.
FieldsBelongToRequest ==
  LET own(flds) ==
        /\ \A i \in 1 .. Len(flds) : flds[i].request = served /\ flds[i].id <= issued
        /\ \A i, j \in 1 .. Len(flds) : i < j => flds[i].id < flds[j].id
  IN /\ own(fields) /\ own(output.fields)
     /\ mark.request = served /\ ~mark.undercut => IsPrefix(mark.fields, fields)

\* What the scanners of http_parser.asm and http_header.asm, resumed also where
\* a line end was cut, and the grammars of http.c make of the bytes
\* is what the grammar says: dispatched when a head without a mistake and its
\* body are there, awaited while they are not, refused otherwise; with the
\* fields, the host and the wish to close that the text has, and a request
\* whose Host or Connection is bad is answered 400 before any callback sees it.
RequestIsUnderstood ==
  [][served' # served =>
       LET text == request'.text
           framed == FrameScan(text, 1)
           told == HeadFields(text)
           hosts == SelectSeq(told, LAMBDA f : IsWord(f.name, "host"))
           options == ValuesOf(told, "connection")
           refused == ~request'.host \/ request'.connection = "malformed"
       IN /\ request'.status =
               CASE Strayed(text) -> "einval"
                 [] ~Strayed(text) /\ HeadEnd(text) > Len(text) -> "again"
                 [] ~Strayed(text) /\ HeadEnd(text) <= Len(text) /\ GoodSoFar(text) ->
                      IF Whole(text) THEN "ok" ELSE "again"
                 [] OTHER -> IF request'.status = "eoverflow" THEN "eoverflow" ELSE "einval"
          /\ \A cut \in {i \in DOMAIN text : text[i] \in {"cr", "lf"}} :
               LET first == FrameScan(SubSeq(text, 1, cut), 1)
               IN first.verdict = "again" => FrameScan(text, first.at) = framed
          /\ request'.status = "ok" =>
               /\ request'.message = HeadEnd(text) + 1 + BodyLength(text)
               /\ request'.fields = told
               /\ request'.host =
                    /\ GoodTarget(Line(text, 1)) /\ Len(hosts) = 1
                    /\ GoodHost(hosts[1].value)
               /\ request'.connection =
                    CASE \E value \in options : ~GoodConnection(value) -> "malformed"
                      [] OTHER -> IF \E value \in options : AsksToClose(value) THEN "close"
                                  ELSE "keep"
               /\ refused => pc' = "idle"
               /\ output' # Empty => (output'.status = 400) = refused]_vars

\* A client that reads a response the way RFC 9112 frames it finds the status,
\* the fields the callbacks appended, in order, and the body, and nothing is
\* left over or missing that would shift the next response; it is told when
\* the server closes; and the length reserved is the length written.
ResponseIsFramed ==
  [][output' # output /\ output' # Empty =>
       LET wire == output'.wire
           method == request'.method
           told == HeadFields(wire)
           own == SelectSeq(told, LAMBDA f : ~IsWord(f.name, "content-length")
                                             /\ ~IsWord(f.name, "connection"))
       IN /\ StatusOf(wire) = output'.status /\ ~Strayed(wire)
          /\ ClientBody(method, wire) = (IF method = <<"HEAD">> THEN <<>> ELSE output'.body)
          /\ BodyEnd(method, wire) = Len(wire)
          /\ LengthLines(wire) # {} => BodyLength(wire) = Len(output'.body)
          /\ own = [k \in DOMAIN output'.fields |->
                      [name |-> output'.fields[k].name, value |-> Trim(output'.fields[k].value)]]
          /\ output'.close = \E value \in ValuesOf(told, "connection") : AsksToClose(value)
          /\ Required(method, output', output'.close) = Len(wire)]_vars
=============================================================================
