# A verification development for Arborcore

Arborcore is a web framework for x86-64 Linux: an assembly core (buffers, an
arena, sockets and epoll, the HTTP/1 parser), a C layer over it (HTTP
semantics, MVC dispatch, views, configuration, the host that serves
connections), an application layer (a capability kernel, a service runtime, DDD
support), a checker of HTML conformance, and a browser side.  The modules here
model the parts that keep state across steps and the scanners whose reading of
their input matters to the rest, check them with TLC on small instances and
prove with TLAPS, for every instance, the invariants and the refinements of the
components that keep state across steps: the host, the transport, the service
runtime, the unit of work, the capability kernel and the sidecar of the adapter.  Paths
below are relative to the repository.

## Inventory

| Component | State it keeps | Operations | Hard behaviour | What makes it correct |
|---|---|---|---|---|
| HTTP/MVC host HOST1, `src/c/linux_http_mvc_host.c`, `src/asm/event.asm` | phase, listener and epoll descriptors, slots, drain deadline, shutdown result | prepare, open, step, run, begin_drain, close, validate | a poll loop between peers, clock, stop signal and failing system calls; descriptors handed out again | each drain participant counted once, no descriptor lost, no wait past the deadline, no connection left beside a free slot, drains end |
| Capability kernel AF2, `src/c/capability_kernel.c` | workspace of prepare, published catalog | prepare, validate, find, find_module, resolve | ordering with ties and cycles, flat index arithmetic, memory of the caller's that overlaps | providers first, canonical order, the loop status means a cycle, queries agree |
| Service runtime AF3, `src/c/application_service.c` | a record for each managed module, runtime state | prepare, resolve, find_ready, stop, validate | callbacks that fail or ask back at any point, writes over memory still needed | dependency order, last in first out, all or nothing |
| DDD support AF4, `src/c/ddd_support.c` | event journal, unit of work | append, checkpoint, rewind, clear, begin, commit, rollback, reset | failing transaction callbacks, stale checkpoints | a failed commit leaves no events, an active unit can be ended |
| Transport and connection, `src/asm/application_transport.asm`, `connection.asm`, `server.asm` | connection state, counters, buffers, epoll registration | accept, handle_once, close | partial reads and writes, pipelining, keep-alive | responses in order, no byte lost, interest always armed |
| HTTP/1 parsing and formatting, `src/asm/http_parser.asm`, `http_header.asm`, `request_target.asm`, `http_response_v2.asm`, `src/c/http.c` | the position of the frame scan | frame scan, parse, field queries, Host, Connection, response make and serialize | three scanners over the same bytes, the first resumed where the bytes were cut | all read the same request; what is sent can be framed by a client |
| HTTP to MVC adapter HTTP1, `src/c/http_mvc.c` | field sidecar, response under construction | append, mark, rewind, dispatch | memory reused from request to request, stale marks | a response carries the fields of its own request |
| MVC core MVC0 and routing, `src/c/mvc.c`, `src/asm/route_pattern.asm` | prepared application, request under dispatch | prepare, dispatch | overlapping patterns, middlewares that respond early or fail | the first route that agrees; before callbacks in order, after callbacks in reverse, one response |
| Application foundation AF1, `src/c/application_foundation.c` | none | invoke, response plan | | a response reaches the adapter only when valid |
| Buffers and arena, `src/asm/buffer.asm`, `arena.asm` | length, capacity, offset | append, consume, reset, alloc, rewind | alignment of addresses, sources inside the buffer | what is handed out is disjoint, aligned and below the frontier |
| View core VIEW0, `src/c/view.c` | prepared templates; an output at the arena's frontier | compile, render, begin, append, commit, abort | a scanner that jumps from tag to tag; outputs and allocations that overlap in time; two passes that must agree | a substitution stands only in plain text; nobody's memory is overwritten; what was measured is what is written |
| Configuration CONFIG0, `src/c/config.c` | none between calls; the published configuration | measure, prepare, validate | four classes of sources with names of their own, limits of numbers and of UTF-8, failures reported into shared memory | the highest class wins, measure is exact, a failure writes nothing |
| Profiling PROFILE0, `src/c/profile.c` | a session over regions and aggregates; tokens of open spans | prepare, reset, begin, end, region_get | tokens are copied and sessions prepared again while spans are open; a clock that fails or goes back; saturation | every span counted once or given up |
| HTML conformance checker, `tools/c/view0_conformance/native.c`, `lexbor_adapter.c`, `g03_r1a.c`, `g03_r2a.c`, `g03_r3a.c`, `g03_r4a.c`, `g03_r7a.c`, `g09.c` | a frame for each level of depth, counters of ancestors, lists of diagnostics | check of a document, check of a fragment, a walk for each gate | judgments that must wait for what follows; one frame per level used again and again; every gate run twice, once to count | a report is complete, sorted and within limits, or there is none; one pass finds what the whole document says is wrong |
| Other gates of the checker, ECMAScript front end | none that lasts | | long tables and grammars of single values | not modelled |
| Geometry, renderer, browser side | floating-point state | | numeric precision | not modelled |
| Bridges, primitives, system call wrappers | none | | | not modelled |

### How they interact

`run` of the host is the only thread.  A step asks epoll, and for every ready
slot calls `arbor_http_mvc_server_step`, which reads, frames, calls
`http1_dispatch` for one request at a time and writes.  `http1_dispatch` builds
a field sidecar at the front of the request arena, parses the head, invokes the
application's capability (AF1), whose MVC implementation routes the request and
runs the callbacks, and serializes the answer.  The application registers its
modules as capabilities (AF2), prepares their services in the catalog's order
(AF3) before it opens the host, and stops them after the host has closed; it
reads its configuration and prepares its templates at start-up.  A controller
may use a unit of work (AF4), render a view into the request arena, and measure
itself with profiling.  The conformance checker is a tool beside the server: it
parses a page and lets its gates walk over the tree.  Interaction is by calls
and callbacks on one thread; concurrency comes from peers, the kernel, the clock
and the stop request.

## The modules

| Module | Models | Role |
|---|---|---|
| `Host` | HOST1 | detailed specification |
| `HostLifecycle` | what the host promises of phases and drains | abstract; `Host` implements it |
| `CapabilityKernel` | AF2 | detailed specification |
| `ServiceRuntime` | AF3 | detailed specification, on catalogs as `CapabilityKernel` publishes them |
| `OrderedResources` | acquire after what one needs, release before it | abstract; `ServiceRuntime` implements it |
| `Transport` | one connection | detailed specification |
| `RequestExchange` | one request at a time, answered in order | abstract; `Transport` implements it |
| `UnitOfWork` | AF4 | detailed specification |
| `StagedEvents` | events kept or dropped together | abstract; `UnitOfWork` implements it |
| `HttpMessage`, `HttpFields`, `HttpResponse` | frame scan, head parser, fields, Host and Connection, target; responses to bytes | algorithms, used by `RequestDispatch` |
| `HttpGrammar` | the same texts by the grammars of HTTP/1.1 and URIs | reference definition |
| `RequestDispatch` | HTTP1, MVC0, AF1: one request from its bytes to those of its response | detailed specification |
| `Configuration` | CONFIG0, with the reference for UTF-8 (`IsUtf8`) | the three entry points and the algorithms under them |
| `HtmlTemplate` | the scanner and the preparation of templates | algorithms, used by `ViewOutput` |
| `TemplateGrammar` | what a template means, symbol by symbol | reference definition |
| `ViewOutput` | VIEW0's templates and outputs, the arena, buffers | detailed specification |
| `Profiling` | PROFILE0 | detailed specification |
| `ConformanceCheck` | `native.c`: passes, limits, order and publication | detailed specification; what a gate finds is a constant |
| `HtmlDocument` | a parsed document and the tables of elements | shared definitions |
| `ElementContext`, `ContentModel`, `DescendantExclusion`, `PalpableContent`, `TableModel` | the gates g03_r1a, g03_r2a, g03_r3a and g03_r4a, g03_r7a, g09 | a gate's state and handlers, each (but the last) with the definition over whole documents it is compared with |
| `TableReference` | what the table gate must find, said of slots | reference definition |
| `DocumentWalk` | the walk of `lexbor_adapter.c` with the gates on it | composes the five gate modules |
| `HostProofs`, `TransportProofs`, `ServiceRuntimeProofs`, `UnitOfWorkProofs`, `CapabilityKernelProofs` | | theorems about the module named |
| `RequestDispatchProofs` | | theorems about `RequestDispatch` and `ViewOutput` |
| `SupportProofs` | | theorems about `Profiling`, `Configuration` and `ConformanceCheck` |
| `LibraryFacts` | the operators of the community modules on finite sets and sequences | lemmas the theorems share |
| `MC...` | | instances for TLC, one for each specification whose constants a `.cfg` cannot write down |
| `MCSupport` | | the instance of `Profiling`, `MCConfiguration` and `MCConformanceCheck` together |

Where one component calls another, the caller's module has the call reduced to
the outcomes the callee's module shows.  `Host` treats a server step as a choice
among: closed, kept with more work, kept without; `Transport!NoLostWakeup` is
the statement that a server step leaves nothing else.  `Transport` treats the
dispatch callback as a choice of failure or of a response, of any length, that
keeps or ends the connection; `RequestDispatch` models that callback.
`ConformanceCheck` takes what each gate finds as given; `DocumentWalk` models
how six gates find it.

### Host

A host between two system calls cannot be interrupted, so an action runs from
one point where the outside may act (a clock read, the epoll wait, an accept,
the next connection to be advanced) to the next; `pc` names the point.  `Open`,
`BeginDrain`, `Step`, `Run` and `Close` are the entry points; `RunLooks` is the
loop of `run`, `DrainCheck` and `DrainCountAndCheck` the deadline tests of
`draining_step`, `WaitReturns`, `HandleEvent` and the two `BatchDone` actions
its event batch, `AcceptReady` and `AcceptFull` `accept_ready`.  Every system
call that can fail is a choice, and so is the clock.  The environment is
`Connect`, `PeerActs`, `StopSignal`, `Tick`.

Abstracted: overlap checks of caller memory, the bounds of counters, the
clamp of a wait to `INT_MAX`, the validation of the application.  An `EINTR`
inside `epoll_wait` is retried by the wrapper, so a stop request is seen only
at the loop's boundary, and the model does the same.

### CapabilityKernel

`Prepare` validates the descriptors and the caller's memory, `Resolve` finds the
provider of each requirement, `Select` is one pick of the ordering loop,
`Publish` writes the catalog; a cut between them lets the properties speak of
the workspace.  `CatalogValid`, `Find`, `FindModule` and `ResolveRequirement`
are the validator and the queries.  A call names the pairs of memory regions
that overlap (`shares`); `Write` notes which inputs a write would reach
(`touched`).  The flat arrays of bindings and resolutions are `FlattenSeq` of a
row for each module, and `BindingIndex` adds up the counts of the modules before,
as `binding_index_for_export` does.  Structure headers, null pointers and the byte counts of measure
are left out, and so is what the validator
asks of a catalog that holds by the way `Publish` writes it: that the catalog's own
count of resolutions is the counted one, and which requirement a resolution is for
(`capability_kernel.c:831`, 884-886).

### ServiceRuntime

`Prepare`, then a `PrepareRecord` and a `PrepareReturns` for each record, then
`Publish`, or `RollbackRecord` and `RollbackReturns` for each record ready;
`Stop`, `StopRecord`, `StopReturns`, `StopDone`.  A callback runs between the
two steps of its record; what it may ask (`resolve`, `find_ready`, `validate`,
a nested `stop`) changes nothing and is an operator whose answer the properties
constrain at every such point.  The history `held` is the set of modules prepared and not
undone.  `ExpectedDescriptors` says by rank which descriptor each record must
have.  `InputFault` keeps the order of tests of
prepare: descriptors and the headers of the interfaces they declare, room,
overlaps.  `Written` are the regions a call has written; they may overlap no
other it was given.  A context that a prepare callback
lets escape is undefined in C and not modelled.

### Transport

A call of `application_transport_handle_once` is cut at each system call and
around the dispatch callback, so the peer may send, read or close in between.
A byte of input is its position in the peer's stream, a byte of output the
request it answers and its place in that response; a stream is a sequence of
requests with a header end, an end and whether it is well formed.  Left out:
the carriage return that the frame scan keeps back (`HttpMessage` has it), a
failing `accept4`, the exits for a callback that breaks its contract with an answer that is empty,
too long or neither kept nor closed
(`application_transport.asm:236-237`, 246-253), and `server_handle_http_once`, an older loop with its own
router.

### UnitOfWork

The journal's operations, and `Begin`, `Commit` and `Rollback` cut around the
authority's callback.  During a callback events may be appended.  `disciplined`,
chosen at the start, says what kind of caller there is: an undisciplined one may
also rewind and clear the journal under an active unit, which the documentation
forbids.  An event is the number of its append; its payload is the size it
takes.  Events that a begin callback appends before it fails stay in the
journal: the code rewinds only what follows a successful begin.  A rewind keeps
the generation, so a checkpoint above one rewound to is accepted again once as
many events of the same sizes follow; the history variable `undercut` marks such
checkpoints, and no property claims they mean anything.

What `begin` is given, an `Offer`, says what the authority's table validates to,
whether the transaction's memory fits and which regions of memory overlap; the
unit keeps it in `view`.  `TableStatus`, `StateStatus`, `BeginOverlaps` and
`ViewStatus` are the four lists of checks the code makes of it, in `begin` and
again in every later call.  The two queries, `EventViewStatus` and
`ActiveTransactionStatus`, are operators, and the properties say what they
answer.  Reentrant lifecycle calls are not modelled.

### HttpMessage, HttpFields, HttpResponse, HttpGrammar

A text is a sequence of lexemes: single bytes, or words that no scanner looks
into.  `FrameScan` is the scan that may be resumed after any prefix,
`ParseRequest` the head parser with its bounds, and the walk over fields, Host
and Connection are those of `http_header.asm` and `http.c`.  `HttpGrammar` says
the same without a scanner: a text is good when it can be taken apart the way
its rule is written.  `HttpResponse` is `arbor_http_response_make` and the
serializer, with the statuses that have no body, HEAD and CONNECT.

### RequestDispatch

`Prepare` is `arbor_mvc_application_prepare`; `Arrive` is `http1_dispatch` of
the bytes of a request and `mvc_request_dispatch` up to the first callback; an
action for each return of a callback carries on to the next callback or to the
serialized response; `FieldAppend`, `FieldsMark` and `FieldsRewind` happen
inside a callback.  A path is the sequence of its segments.  `Obstacle` keeps
the order of tests of `route_pattern_match`, so that its error statuses come out
as the code's.  The guards of the sidecar, memory regions and the layout of the
arena are left out.

### Configuration

`Measure`, `PrepareResult` and `Validate` are the entry points, with every failure in
the order the code tests for it (`ValidateSchema`, `ValidateClass`,
`ValidateSources`, `Resolve`, then the overlaps).  `Analysis`, `Needs` and
`Resolution` tabulate what these compute, which TLC then evaluates once.  A
source is a sequence of records or of vectors with a name and a value; a value
is text.  A number is read digit by digit against small limits, as the code does
against those of 64 bits; a text is decoded byte by byte (`Utf8Next`), and
`IsUtf8` says by the definition of UTF-8 what the decoder must accept.  A
diagnostic may be reported into memory the call also reads or writes, so
`Overlap` is modelled.  `CallerAssumption` says what a caller's schema, sources
and memory are; TLC evaluates it.  (`ConfigInit`, `ConfigSpec` and, in
`ConformanceCheck`, `CheckInit`, `CheckSpec` carry prefixes because
`SupportProofs` extends three specifications at once.)  Left out: byte offsets of a diagnostic, null pointers,
structure headers, the NUL byte that `config_utf8_valid` refuses with the ill-formed
ones (`config.c:233-236`), and the scanning of bytes into records.

### HtmlTemplate, TemplateGrammar, ViewOutput

`HtmlTemplate` scans a source the way `view.c` does, from tag to tag and comment
to comment, twice: to measure and to emit.  `TemplateGrammar` reads it symbol by
symbol as a tokenizer.  `Symbols` is what a byte can be.  `ViewOutput` has two
stages.  At start-up `PrepareTemplate`
compiles a source into little storage, also into storage used before.  Then
requests are served with one arena at an absolute base address: `Alloc`,
`Rewind` and `Reset` are `arena.asm`'s, `Begin`, `AppendText`, `HtmlAppend` (also
of an output's own bytes), `Commit` and `Abort` those of an output, `Render` the
rendering of a prepared template, one uninterrupted call.  Applications
interleave these as they like, and may allocate above an output at work, which
`docs/VIEW_CORE_VIEW0.md` forbids and the code answers by refusing that output
from then on; they do not rewind below an output, and a reset starts a new
request.  The history variables `chunks`, `bodies` and `drafts` hold what the
caller believes to own.  (`ViewInit`, `ViewNext`, `ViewSpec` and `viewVars` carry
prefixes because `RequestDispatchProofs` extends both specifications.)

### Profiling

A session is the ids it was prepared with; a token is plain memory whose guard
depends on its address, so `Copy` makes an object that is not the token.
`Describe` is the application writing into its own descriptors under a session.
`End` may fail at the clock, at a clock that went back, and at a counter that is
full.  The history `samples` and `dropped` say what became of each span.

### ConformanceCheck

One call, cut at every pass over parser and arena, each of which may fail: the
groups are measured, scratch memory allocated, the legacy report collected gate
by gate after measuring each, the groups collected, the total checked, the
report sorted, given lines and columns and published; the fragment entry
collects into the caller's array directly.  A document is what the parser and
the gates say of it; `DocumentsAssumption` says no more than that the places
told of lie in the document, that the gates' rules are not those of the parse, and
that an empty document has no parse errors.  The error numbers of a failing pass and of bad arguments
(EFBIG and E2BIG among them) are one each, since no property tells them apart.
`Sorted` is `qsort` by what it
achieves with a comparison that never calls two entries equal.

### HtmlDocument, the gates, DocumentWalk

A document is the sequence of its nodes in document order.  `Observe` is the way
down of the walk: `enter` of the gate with the ancestors counted so far, the
attributes, the direct children, `complete`; `Leave` is the way up.  A gate is a
record of frames, one for each level, and of what it found; the next element of
a level uses the frame again.  `WalkAgain` is the second walk of a gate that must
know what the element-context gate has reported.  The elements, attributes and
restrictions are the code's tables; an attribute is in the set only when its
value is one that matters.  What the definitions over the whole document say of
each rule (`Misplaced`, `Mismatched`, `Excluded`, `Overfull`, `Bare`,
`TablesAreJudged`) uses no frame and no order of visits.  The one exception is the
late text of an option (third finding).  `LaidOut` gives the place and both extents
of every cell; the number of associations is compared for documents in whose tables
no cells overlap, because on overlapping cells the scan passes over cells that share
columns with one it has been at, and slots do not say which those are.

## What the runs check

Every run but three must hold; those three are the findings below.  Deadlock is
checked except where a bound ends the behaviours (`request_dispatch`).

| Run | Instance | What it shows |
|---|---|---|
| `host` | 2 slots, 2 events, 1 queued connection, clock 0 to 3, waits and timeout 2, fair | accounting, descriptors, validity, deadlines; drains are fixed once; implements `HostLifecycle`; drains end, a stop is obeyed, a queued connection gets a free slot |
| `host_begin_drain` | 1 slot | the first finding; expected to fail |
| `capability_kernel` | all graphs on 3 modules in 5 placements; 2 modules with every defect of a declaration; every pair of regions over each other | `PreparedIsRight`: published catalogs validate, providers come first, ELOOP means a cycle, find and resolve agree, a failing call writes nothing over its inputs |
| `service_runtime` | 3 modules: chain, fork, join, independent; callbacks that succeed, fail or return a positive number; overlapping regions, broken interface headers | `RuntimeStaysValid`: all or nothing, the runtime validates at every callback, the first failure is reported, nothing read later is written over; requirements resolve during prepare; implements `OrderedResources` |
| `transport` | streams of up to 3 requests, 3 bytes of input, 2 of output, 1 in the kernel, 2 requests a call, 2 connections in turn, fair | responses in order and whole, no lost wakeup, connections refused for cause; implements `RequestExchange`; a request that arrived is answered or the connection ends |
| `unit_of_work` | 2 records, 3 bytes, 3 events of no or two bytes, 2 generations, callers of both kinds | the journal validates, checkpoints mean what they meant, the authority is asked once; for disciplined callers a unit can always be ended and ends atomically, whatever memory its begin was given; implements `StagedEvents` |
| `request_dispatch` | 128 routing catalogs, 21 middleware lists, 2 requests in a row with 2 fields and 3 appends; 22 kinds of texts, some 9,000, to applications that answer without a callback; output buffers of 17 and 80 | first match with its parameters, callbacks in onion order, fields and marks belong to their request; a request is understood as the grammar says, wherever its bytes were cut; a response is framed by its length, or the connection closes |
| `support` | profiling: 2 regions, 2 tokens, 3 spans, counters full at 2, a clock that reads 0 or 2, runs back and fails | every span is open, counted once or given up; aggregates are those of their samples |
| ... | configuration: files of up to 2 records over vectors, names that cross between classes, every short text of a number, texts of up to 4 bytes at the bounds of UTF-8, ill-formed schemas, outputs of every size and place | the published value is the one of the highest class that sets it, prepare takes exactly what measure said, a failing call writes nothing but the diagnostic it may write |
| ... | the conformance checker: some hundred documents of five bytes, arrays of 0, 3 and 5, at most 4 diagnostics, depth 2 | a call publishes the complete sorted report or leaves the caller's memory alone, and refuses for room only when there is none |
| `view_output` | some 17,000 sources of three fragments, 3 parts and 8 bytes of storage; an arena of 5 bytes at an odd address, 2 outputs, allocations of 0, 1 and 4 bytes, 6 templates | a prepared template means what a tokenizer says; memory that is held is disjoint, aligned and intact; a rendering fits to the byte or leaves no trace |
| `view_substitutions` | sources with a "{{" in every kind of place | the second finding; expected to fail |
| `conformance_gates` | some 39,000 documents, each family for the gate it concerns, depth 9 | what a gate reports while it streams is what its definition over the whole document says, each finding once |
| `option_mixing` | what a select and a datalist hold, for the content-model gate alone | the third finding; expected to fail |

`support` is one run because the three parts share nothing and call each other
never: a behaviour picks one, the others stay at a first state.  A conformance
check that has returned may be looked at for ever, so a deadlock there would be a
call that does not return.

Why these bounds are enough to be of interest.  Two slots are the least with a
full and a not-full host and two participants of a drain that end differently;
one queued connection is the least that can wait beside a free slot; the clock
passes the deadline and reaches its last value, where `now + timeout`
overflows.  Three modules are the least with a cycle that is not a pair, a fork
and a join.  Three bytes of input hold a request and part of the next, and the
last stream holds one that never fits; one byte in the kernel makes every
response partial.  Two records and three bytes let the record count and the
bytes run out separately.  Three middlewares are the least with an inner one, an
outer one and one that lacks a callback on each side.  Two records of a file let
a key be set twice and an unknown one follow a good one; four bytes are the
longest code point.  The texts of requests vary one rule at a time around a good
request, and up to two or three lexemes where a rule is about neighbours (line
ends, lengths, list members, address groups).  Five bytes of arena hold the
longest entity exactly, or an output of four beside a chunk of one; `view_output`
forgets in its VIEW the last call and the bytes that nobody may read.  A
counter that holds two is full after the second of three spans.  Four
diagnostics lie between the sizes of the reports of the documents, on every
side of both limits.  Three or four children are the least with one before, one
after and one twice, which is what the pending judgments of the gates depend
on; the frames of a level are used by several elements, and nesting to nine
covers each restriction with an element between.

Bounds that only limit the search are named in the modules: `ClockMax`
(stands for `INT64_MAX`), `MaxBacklog`, `SendSpace`, `MaxConnections`,
`MaxEvents`, `MaxGeneration` and `MaxU64` (stand for `UINT64_MAX`), `MaxI64`,
`MaxRequests`, `MaxAppends`, `MaxChanges`, `MaxSpans`, `Again`, `Lengths`; and an
application is prepared once.

### Fairness

`Host!FairSpec` takes weak fairness of the host's own steps: one thread runs
it, and no step blocks but the wait, which has a timeout.  `Tick` has strong
fairness, because a wait that has timed out disables it for a moment, while an
infinite execution takes infinite time.  Nothing is assumed of callers, peers
or the stop request.  `Transport!FairSpec` assumes that a call goes on to its
end, that the host comes back for an event (what `Host` shows), closes a
connection that failed, and that the peer reads what it is sent; it does not
assume that the peer sends.

### Findings

**The listener stays open.**  `docs/LINUX_HTTP_MVC_HOST_HOST1.md:100-101` says that beginning a drain changes
the phase and closes the listener, and
`host/arborcore-linux-http-mvc-host-1.contract:69` requires the listener to go
first.  `arbor_linux_http_mvc_host_begin_drain` (line 813) validates the host
first, and `host_slot_storage_valid` wants the input buffer of an inactive slot
to be empty.  Closing a slot does not empty it; only the next accept into that
slot does.  So when the last connection of a slot ended in the middle of a
request, or with a pipelined request unread behind a `Connection: close`,
`begin_drain` returns `EINVAL`, the phase stays ACCEPTING and the listener open;
`validate`, `close` and `run` refuse likewise until the slot is used again.
`host_begin_drain` finds it with one slot.  `HostStaysValid` speaks of
`host_runtime_validate`, the weaker check of the step functions, which does
hold.

**A placeholder in the name of a tag.**  `docs/VIEW_CORE_VIEW0.md:288-291` says that
substitutions are rejected inside tags, and line 305 that a literal `{{` has no
source escape.  `template_scan_tag` takes everything up to a boundary for the
tag's name (`src/c/view.c:796-800`) and does not look for `{{` there, as it does in
the rest of the tag; `<b{{name}}>` is prepared, with the placeholder as literal
bytes.  `view_substitutions` finds it (`TagsTakeNoSubstitution`).  Either reading of
such a mark is consistent by itself, so `PreparedIsExact` admits, for the name of a
tag only, what the document says (`SourceVerdict`) and what the code does
(`LenientVerdict`); everywhere else each `{{` is a placeholder or a mistake.

**Text after a div in an option.**  `docs/VIEW_CORE_VIEW0.md:1289-1290` says that an
option without a label, outside a datalist, admits div elements or phrasing
content, and
`tests/c/view0_v1n1_g03_r2a_content_model_test.c:124-126` that one with a div and a
span is one error.  `g03_r2a.c` compares the two branches only when an element
arrives (759-761); text sets its branch afterwards (796-799), and no case of
`finalize_parent` looks again.  `<option><div></div>text</option>` is therefore not
reported, text before the div is.  `option_mixing` finds it (`MixedOptionsAreFound`).
`FindingsAreExact` counts those options (`LateText`: no known element follows the
text, and without it nothing would be wrong) as not reported, and every other
mistake of an option as reported.

### Observations

Met while modelling; the models do what the code does, and no property is
claimed where the code and its documents leave the matter open.

- `g03_r2a.c` leaves a ruby whose opening `rp` is not followed by `rt` to the
  element-context gate ("An opening rp not followed by rt is already R1-owned.").
  In `<ruby><rt></rt><rp></rp></ruby>` the `rp` follows an `rt`, so that gate is
  content, and neither reports it.  `FindingsAreExact` therefore asks of rubies
  only that what is reported is wrong and not owned by the other gate.
- `g09.c` stops recording at its limit of diagnostics without saying so;
  `g03_r3a.c` answers E2BIG when the element-context gate reported more than its
  array of offsets holds.  Both limits are far above the documents checked.
- A span begun before a session is prepared again over the same region ends into the
  new session.
- `http_parse_request` by itself answers EAGAIN for a lone line feed after a field
  line; the frame scan, which runs first, refuses it.

## What is proved

A theorem holds for every value of the constants that satisfies its module's
assumption.  The assumptions only give types and sizes: natural numbers, at least
one slot, one event, one generation; descriptors that are records of numbers and
sequences; streams whose requests follow each other; for `ServiceRuntime` a
catalog in an order of its dependencies, which is what `CapabilityKernel` is
proved to publish; names and values of fields, and the routes of a catalog, that
are sequences; pattern segments of which none is both a parameter and ill formed;
for `Configuration` schemas, sources and capacities of the types the headers declare
(`CallerAssumption`), and a signed type that holds a digit and is narrower than the
unsigned one (`ConfigurationAssumption`); for `ConformanceCheck` what `DocumentsAssumption` says of a
parsed document and of findings, about which nothing else is known; for `ViewOutput`
that texts, sources, names and values are sequences of symbols (`ViewOutputAssumption`).

| Module | Theorems | Properties |
|---|---|---|
| `HostProofs` | `InvariantHolds`, `TypeCorrect`, `AccountingHolds`, `HostValidHolds`, `DeadlineHolds`, `DescriptorsTheorem`, `DrainIsFixed`, `LifecycleImplemented` | `TypeOK`, `DrainAccounting`, `HostStaysValid`, `WaitRespectsDeadline`, `DescriptorsOwned`, `DrainFixedOnce`, `ImplementsLifecycle` |
| `TransportProofs` | `InvariantHolds`, `ResponsesTheorem`, `WakeupTheorem`, `RefusalTheorem`, `ExchangeImplemented` | `ResponsesInOrder`, `NoLostWakeup`, `RefusedForCause`, `ImplementsExchange` |
| `ServiceRuntimeProofs` | `InvariantHolds`, `RuntimeTheorem`, `ResolveTheorem`, `ResourcesImplemented` | `RuntimeStaysValid`, `ResolveDuringPrepare`, `ImplementsOrderedResources` |
| `UnitOfWorkProofs` | `InvariantHolds`, `JournalValidates`, `CheckpointTheorem`, `AuthorityTheorem`, `UnitCanEnd`, `UnitEndsAtomically`, `StagingImplemented` | all six of the run |
| `SupportProofs`, about `Profiling` | `InvariantHolds`, `TypeCorrect`, `AccountingTheorem` | `SpansAreAccounted` |
| ... about `Configuration` | `PublishedTheorem`, `MeasureIsExactTheorem`, `FailureWritesNothingTheorem`, `Utf8Theorem` | all three of the run |
| ... about `ConformanceCheck` | `CheckInvariantHolds`, `WholeReportTheorem`, `CompleteTheorem`, `RefusedTheorem` | `WholeReportOrNothing`, `ReportIsComplete`, `RefusedOnlyWhenFull` |
| `CapabilityKernelProofs` | `InvariantHolds`, `TypeCorrect`, `PreparedTheorem` | `TypeOK`, `PreparedIsRight` |
| `RequestDispatchProofs` | `InvariantHolds`, `FieldsTheorem`, `CallbacksHold`, `RouteTheorem`, `OnionTheorem` | `FieldsBelongToRequest`, `RouteIsFirstMatch`, `TraceIsOnion` |
| ... about `ViewOutput` | `ArenaInvariantHolds`, `LiveMemoryTheorem` | `LiveMemoryIntact` |

Each module has the same shape: lemmas on the operators of the model, lemmas that
an expression keeps its value when certain variables do, one lemma for each
action that the inductive invariant survives it, and the theorems, whose temporal
part is one step.

**Host.**  `HostInvariant` strengthens the properties, none of which is
inductive.  Accounting needs validity (a participant is counted when its slot is
active, and only validity ties that to the phase); the deadline needs
`DeadlineArithmetic`, which follows the two locals that carry it into the wait;
both need `PointMatchesPhase`, because a step is cut while it holds them.  The
actions that end a drain share `FinishDrain`, so their effect is a lemma
(`FinishDrainEffect`, `DrainAtOnceEffect`, `FinishBegunEffect`).
`DescriptorsOwned` is inductive beside it once one knows that an accept takes a
descriptor that is free; the cases of a failing call are where it is used.  For
the refinement every action is shown to be of a few kinds (quiet, one participant
leaves, the drain begins, the host closes); each kind is a step or a stutter of
`HostLifecycle`.

**Transport.**  `TransportInvariant` says where the requests of the stream lie in
the buffer: what was consumed ends the request answered last
(`ConsumedWhatWasAnswered`), the next one starts there, the framing state agrees
with it (`FramingSound`), and the wire ends where the response was left off
(`WireEndsWhereWritten`).  `AtFront` derives that exactly one request starts at
the front of the buffer, from which the causes of a refusal follow.  For the
refinement one must count the requests that have arrived whole; `ArrivedEnough`
shows by finite-set theorems that a request dispatched is one of them.

**ServiceRuntime.**  The records of prepare are the managed modules in the
catalog's order (`RecordsAreSorted`); the invariant says of each point of a call
which prefix of them is active.  `NeededComeBefore` then gives the dependency
order: what a module needs has a smaller index, so it is held while its user is.
`FewerBefore` and `ExpectedIsSorted` compare the ranks by which `runtime_validate`
recomputes the order.  That writes stay apart (`WrittenIsApart`) follows from the
overlap tests having passed before the first write.

**UnitOfWork.**  The strengthening is `UnitAnchored` (an active unit's checkpoint
is at a boundary of the journal over the events of its beginning), `SavedSound`
(a checkpoint not undercut covers a prefix of the present events) and `EndsGrow`
(the ends of records never decrease): the last is what induction over the records
would give, and is carried through the steps instead.  For `StagedEvents` the
journal is cut at the unit's checkpoint into what is kept and what is staged;
`CutAndJoin` and `GrowCut` say how the parts change.

**CapabilityKernel.**  Nothing in `PreparedIsRight` refers to a step, so the
invariant carries what the arrays mean: `Wired` (the provider and the capability
of a requirement are those of the one compatible export), `Counted` (a module's
indegree is the number of its requirements whose provider is not yet placed) and
`Canonical` (each module placed is the lowest of those that were ready).  From
these, as in Kahn's algorithm: a module placed has its providers before it; an
order of all modules excludes a cycle (`OrderedNotCyclic`), and the modules left
when none is ready form one (`StuckIsCyclic`), so that ELOOP means a cycle and
nothing else.  The catalog's flat arrays are read back through their layout
(`BindingPlaces`, `ResolutionPlaces`), so that the validator, which recomputes
order and offsets, accepts them (`CompleteIsValid`) and the three queries answer
with the export and the module that were declared (`CompleteAnswers`).

**RequestDispatch.**  `SidecarInvariant` is the property with the types it needs.
The point is that no other step touches the sidecar: a refused request leaves the
old response out of sight, a dispatch starts with no fields, and a rewind
shortens them without reordering.  That a mark not undercut stands for its fields
is a fact about prefixes (`PrefixIsPointwise`).

`CallbackInvariant` carries the other two.  `ApplicationPrepared` remembers what
prepare has checked: every pattern matches itself, so no name in it is ill formed
(`WellFormed`), and the room for parameters is that of the longest
(`RoomForParameters`); hence the matcher's cascade of tests says agreement and
nothing else (`MatchMeansAgreement`), and the k-th value written belongs to the k-th
parameter (`ParametersInOrder`, by counting).  For the onion, `RunningInside` says
which callbacks have run when one is running: those whose `Place` is below its own.
`TraceIsOnion` alone allows any running callback and so is not inductive.  A
callback's return records one call (`PassedWhenRecorded`); then either the next
callback is the next layer (`GoesOn`) or the request ends (`EndsThere`).  A
middleware that responds exchanges the onion for the smaller one inside which it is.

**ViewOutput.**  `LiveMemoryIntact` speaks of memory that a caller holds; for it to be
inductive one needs that nobody's memory lies above the frontier, where the next
allocation goes (`RegionsApart`, `HoldersApart`), and for each text which bytes it is
(`BodiesThere`, `DraftsThere`).  An output begun for no bytes may stand above the
frontier once memory below it was given back, and commits nothing, so these conjuncts
speak of outputs that have memory (`Holders`); a draft invariant that claimed the
same of every output at work would be false.  An append is a fold over pieces, each refused when it
does not fit; `AppendAllFacts` says of the whole fold that it writes the pieces one
after another, nowhere but in the output's room, and fails just for want of it.
`OthersMemory` and `AboveMemory` then say what such a write leaves alone,
`FrontierBack` and `RegionAdded` what moving the frontier does.  An output's own
bytes may be escaped into itself (`HtmlAppendOwn`), where the text read is the draft
before the write.  The rendering of a template relies on what a scan leaves: parts
that are literals or slots within the fields' count (`ScanLeavesParts`, through every
way a tag, a comment and a placeholder can end), or measuring would read beyond
the values.

**Profiling.**  The strengthening of `SpansAreAccounted` is that no two tokens
are the original of one span (`SpansApart`); without it an end could take a span
from a token and leave it in another.  Only `Copy` could break it, and a copy's
identity is not its address.  An end adds to an aggregate what the summary of one
sample more needs (`SummaryGrows`), where the sum is counted with the cells of
`LibraryFacts`; that the sample is a new one follows from its span having been open.

**Configuration.**  `MeasureIsExact` relates two calls that compute separately:
measure adds up lengths, prepare lays texts out and checks each against what is
left.  `ConfigInvariant` adds that a promise is the measurement of the present
input (`MeasuredNow`).  That a fold over sources is the recursion it reads as is
`OverlayIsFold` and `ResolveIsFold`; `RequirementsAreOffsets` says that measuring
yields the offset behind the last text, `StoreHolds` and `LoopHolds` that storing puts
each value where the offsets say and leaves the texts before alone, so prepare runs
out of room exactly when the measured size is not there (`PrepareStores`).  `FailuresAreTold` is the other half:
a failure is never reported with an OK status, through every place a failure can
come from.  `FailureWritesNothing` then is a case analysis over the overlap tests,
which come before the first write (`MeasureWrites`, `PrepareWrites`).

`PublishedIsResolved` compares four algorithms with their meaning, and each is an
argument of its own over texts or sources of any length.  A character: the scalar
computed from the bits of the bytes passes the code's three tests exactly when the
bytes are in a row of Unicode's table (`CharacterIs`); a text: where the walk over it
stops are the ends of a cut into characters, and a cut forces the walk through its
ends (`ValidIsUtf8`, `Utf8IsValid`).  A number: as long as the reader has not failed
its accumulator is the value of the digits so far, below the limit, so that it never
wraps (`DigitRead`, `DigitsHaveStates`), and that is the sum by places
(`DigitsByPlace`).  A schema that was accepted has names that differ in a class
(`NamesDiffer`), so a name finds its key and a class has at most one assignment
(`OneAssignment`); the overlay of a class then is that assignment or what was there
(`OverlayIs`), and the last of the three wins (`ResolutionIs`).  `PublishedNow` is the
invariant: the input of the latest result was accepted and the result holds each of
its keys.  It outlives every change of the caller's inputs, because the result refers
to nothing of theirs (`PublishedKept`), and validate, which adds the lengths up again,
comes to the same offsets (`BytesAre`, `ResultIsAccepted`).

**ConformanceCheck.**  `CheckInvariant` says for each pass what the ones before
left to it: the counts measured, the findings joined up to the present gate
(`Joined`, `GatesJoin`, `GroupsJoin`), and that the list of diagnostics has each
finding once (`Lists`).  The discovery number is the witness: it tells which finding
an entry stands for, so that it survives sorting, placing and the merge of the
groups' findings behind an already sorted list (`AppendedLists`, `SortedLists`,
`PlacedLists`).  Sorting is an argument about ranks: in a total order the number of
entries before an entry takes every value once (`RanksSort`), and `CompareOrders`
shows the comparison to be total on a list, where discovery numbers differ.  The scan that
assigns lines never goes back; `AssignedPlaces` shows that on a list whose offsets
never decrease it gives each entry the place of its offset, whatever lines a first
run left.  `ReportSaysAll` derives the counting form of `ReportIsComplete` by a bijection.
For `RefusedOnlyWhenFull` each of the early totals is shown to count only what the
report will have (`TotalIsWanted`, `JoinedGrows`), and the last to be the report's
size.

**LibraryFacts.**  `FlattenSeq` and `MapThenFoldSet` are defined by recursive
functions, about which the provers know nothing until one knows that a function
with such an equation exists.  `FlattenExists` and `SumExists` prove that, with a
least counterexample instead of an induction; `FlattenFacts` then gives the layout of
a flattened sequence and `PartialSums` the sums over an initial segment.
`MinIsLeast` and its companions do the same for `Min` and `Max`, which are choices;
`BoundedValues` gives a maximum to the values of a function on an initial segment.
`FoldExists`, `FoldPrefixes` and `FoldStates` do for `FoldLeft` what `FlattenExists`
does for `FlattenSeq`; `Stepwise` is the induction along a sequence the proofs use with them;
`OneToOneCounts` and `RanksSort` are the facts on counting that sorting needs.

Only model-checked:

- Liveness (`DrainTerminates`, `BacklogServed`, `EveryRequestAnswered`): fairness
  and ENABLED are out of the prover's reach.
- `RequestIsUnderstood` and `ResponseIsFramed` compare scanners with `HttpGrammar`,
  which takes an induction on the text.
- `ViewOutput` and `DocumentWalk`: the comparisons with their
  reference definitions (`TemplateGrammar`, the definitions over whole
  documents, `TableReference`) are inductions over the data as well, and
  `TableModel` declares RECURSIVE operators.

## Not modelled, and why

Disjointness of memory regions, which most entry points check at length, is a
precondition of every model but `Configuration`, `CapabilityKernel` and
`ServiceRuntime`; there it is part of the calls.  In particular the overlap
checks of `http.c`, `http_mvc.c` and `view.c` are left out, and those of the
bindings that `resolve` and `find_ready` write.

`request.c` and the older paths: `server_handle_http_once`, the dispatch of
`application_transport` without MVC, `http_response.asm`, `router.asm` and
`arbor_route_dispatch`, twins of what is modelled.

The remaining gates of the checker (g04 to g08, g10 to g16, g03_r5a) and the
ECMAScript front end judge attributes, URLs, dates, identifiers, patterns and scripts by long tables and
grammars of single values, without state that lasts from node to node; the walk
and the way a gate reports are modelled.  The HTML parser is vendored.

The scanning of configuration bytes into records, the UTF-8 check of a template
source, percent, hex and base64 codecs and number formatting are functions of
data; the repository's tests cover them by tables.  Geometry and renderer
compute with floating point.  The browser side runs in WebAssembly around them.
System call wrappers are choices of outcome where they are used.

## Plan

1. `RequestArena`: the arena of `ViewOutput` and the sidecar's layout in
   `http_mvc.c` (alignment slack, resets by callbacks, the parameters at the
   front of the application's arena), composed with `RequestDispatch`.  It would
   cover the one hazard without a property (`src/c/mvc.c:610`).
2. The gates g04 and g10, which keep tables of identifiers across the walk.
3. The older server loop `server_handle_http_once` beside `Transport`.
