-------------------------- MODULE ConformanceCheck --------------------------
(***************************************************************************)
(* The HTML conformance checker of tools/c/view0_conformance: how one call *)
(* of arbor_view0_native_check_configured (or of the fragment-model        *)
(* entry) runs its gates twice, once to measure and once to collect,       *)
(* reserves exactly what was measured, and publishes one sorted report in  *)
(* the caller's array, or nothing at all.                                  *)
(*                                                                         *)
(* What a gate finds in a document is the constant operator Findings: the  *)
(* modules of the gates define it.  The parser and the arena are external: *)
(* every pass over them may fail, also the second time.                    *)
(***************************************************************************)
EXTENDS Integers, Sequences, FiniteSets, SequencesExt, FiniteSetsExt

CONSTANTS
    Documents,        \* inputs: what the parser says of each of them
    Capacities,       \* lengths of the caller's diagnostic array
    MaxDiagnostics,   \* ARBOR_VIEW0_NATIVE_MAX_DIAGNOSTICS
    MaxDepth,         \* ARBOR_VIEW0_NATIVE_V1N3_MAX_HTML_DEPTH
    Findings(_, _)    \* Findings(gate, document): anchors in discovery order

ASSUME DiagnosticsAssumption == MaxDiagnostics \in Nat \ {0}
ASSUME CapacitiesAssumption == Capacities \subseteq Nat

VARIABLES
    pc,        \* the next step of the call; "idle" between calls
    call,      \* its arguments
    step,      \* index of the gate or group the step is at
    status,    \* what the call returned
    measured,  \* gate -> number of findings of the measuring pass
    anchors,   \* findings collected so far, in gate order
    local,     \* diagnostics written so far (arena copy, or the caller's)
    arena,     \* "none" or "live": the transient support arena
    buffer,    \* the caller's diagnostic array
    result     \* the caller's result record

checkVars == <<pc, call, step, status, measured, anchors, local, arena, buffer, result>>

None == -1
Untouched == [count |-> None]
Error == 1
Warning == 2

(* The gates of check_v1n2 in the order they are measured; the capacity is *)
(* checked after each batch.                                               *)
Batches ==
    << <<"g03_r1a", "g03_r2a", "g03_r3a", "g03_r4a">>,
       <<"g03_r5a">>,
       <<"g03_r7a">>,
       <<"g04_r1a", "g05_r1a", "g05_r2a", "g05_r3a", "g05_r4a", "g06",
         "g07", "g08", "g09", "g10", "g11">> >>
Gates == FlattenSeq(Batches)
ClosesBatch(i) == \E b \in 1..Len(Batches) : i = Len(FlattenSeq(SubSeq(Batches, 1, b)))

(* The groups check_configured adds to them. *)
Groups == <<"g12", "g13", "g14", "g15", "g16">>

(* What the parser and the gates tell lies in the document: after its last  *)
(* byte at the latest.  The findings of the gates have rules of their own,  *)
(* and an empty document leaves the parser nothing to find.                 *)
Places(doc) == 0..doc.length

IsDocument(doc) ==
    /\ {doc.length, doc.depth, doc.doctypes, doc.titleChildren, doc.baseChildren,
        doc.bodies} \subseteq Nat
    /\ {doc.badByte, doc.doctypeIssue, doc.legacyId} \subseteq Places(doc) \union {None}
    /\ doc.newlines \subseteq Places(doc)
    /\ doc.tokenizerErrors \in Seq(Places(doc)) /\ doc.treeErrors \in Seq(Places(doc))
    /\ doc.titleTags \in Seq(Places(doc)) /\ doc.baseTags \in Seq(Places(doc))
    /\ doc.bodyTags \in Seq(Places(doc))
    /\ doc.length = 0 => doc.tokenizerErrors = <<>> /\ doc.treeErrors = <<>>

IsFound(doc, found) ==
    found \in Seq([offset : Places(doc), rule : Nat \ {0, 1, 2}, severity : {Error, Warning}])

ASSUME DocumentsAssumption ==
    \A doc \in Documents :
        /\ IsDocument(doc)
        /\ \A gate \in Range(Gates \o Groups \o <<"g04_r2a">>) : IsFound(doc, Findings(gate, doc))

SumOf(f, gates) == FoldLeft(LAMBDA total, g : total + f[g], 0, gates)

-----------------------------------------------------------------------------
(* Diagnostics. *)

Diagnostic(anchor, sequence) ==
    [offset |-> anchor.offset, rule |-> anchor.rule, severity |-> anchor.severity,
     sequence |-> sequence, line |-> 0, column |-> 0]

(* Materialises a sequence of anchors from discovery sequence number "from". *)
Materialize(found, from) == [i \in 1..Len(found) |-> Diagnostic(found[i], from + i - 1)]

(* A comparison that puts the rule before the place. *)
CompareRuleFirst(a, b) ==
    \/ a.rule < b.rule
    \/ a.rule = b.rule /\ a.offset < b.offset
    \/ a.rule = b.rule /\ a.offset = b.offset /\ a.sequence < b.sequence

(* diagnostic_compare: offset, then rule, then severity, then discovery. *)
Compare(a, b) ==
    \/ a.offset < b.offset
    \/ a.offset = b.offset /\ a.rule < b.rule
    \/ a.offset = b.offset /\ a.rule = b.rule /\ a.severity < b.severity
    \/ a.offset = b.offset /\ a.rule = b.rule /\ a.severity = b.severity
       /\ a.sequence < b.sequence

(* The scan of assign_line_columns: one pass over the input, which never    *)
(* goes back, carries line and column from one diagnostic to the next.      *)
Advance(doc, scan, target) ==
    LET stop == IF target < doc.length THEN target ELSE doc.length
        crossed == {n \in doc.newlines : scan.at <= n /\ n < stop}
    IN IF stop <= scan.at THEN scan
       ELSE [at |-> stop,
             line |-> scan.line + Cardinality(crossed),
             column |-> IF crossed = {} THEN scan.column + (stop - scan.at)
                        ELSE stop - Max(crossed)]

AssignLineColumns(doc, diagnostics) ==
    FoldLeft(LAMBDA acc, d :
                 LET scan == Advance(doc, acc.scan, d.offset)
                 IN [scan |-> scan,
                     out |-> Append(acc.out, [d EXCEPT !.line = scan.line,
                                                       !.column = scan.column])],
             [scan |-> [at |-> 0, line |-> 1, column |-> 1], out |-> <<>>],
             diagnostics).out

(* qsort by a comparison that never finds two diagnostics alike: each goes   *)
(* where as many come before it as do in its order.                          *)
Sorted(diagnostics) ==
    [k \in DOMAIN diagnostics |->
        diagnostics[CHOOSE i \in DOMAIN diagnostics :
            Cardinality({j \in DOMAIN diagnostics :
                            Compare(diagnostics[j], diagnostics[i])}) = k - 1]]

Finished(doc, diagnostics) == AssignLineColumns(doc, Sorted(diagnostics))

Utf8Anchor(doc) == [offset |-> doc.badByte, rule |-> 0, severity |-> Error]
ParseAnchors(doc) ==
    [i \in 1..Len(doc.tokenizerErrors) |->
        [offset |-> doc.tokenizerErrors[i], rule |-> 1, severity |-> Error]]
    \o [i \in 1..Len(doc.treeErrors) |->
        [offset |-> doc.treeErrors[i], rule |-> 2, severity |-> Error]]

-----------------------------------------------------------------------------
(* The document-level checks (G02) over the facts of the parse.            *)

Issue(ordinal, offset) == <<[offset |-> offset, rule |-> 200 + ordinal, severity |-> Error]>>

DoctypeRequired(doc) == IF doc.doctypes = 0 THEN Issue(1, 0) ELSE <<>>

(* g02_doctype_syntax_check: where the first authored DOCTYPE leaves the    *)
(* admitted forms (None: it does not).                                      *)
DoctypeSyntax(doc) == IF doc.doctypeIssue = None THEN <<>> ELSE Issue(2, doc.doctypeIssue)

DoctypeLegacy(doc) ==
    IF doc.doctypeIssue = None /\ doc.legacyId # None
    THEN <<[offset |-> doc.legacyId, rule |-> 203, severity |-> Warning]>>
    ELSE <<>>

(* A second child of the head without a second authored start tag is a      *)
(* contradiction of the parser's evidence: EIO.                             *)
Contradiction == <<[offset |-> None]>>

HeadTitle(doc) ==
    CASE doc.titleChildren = 1 -> <<>>
      [] doc.titleChildren = 0 -> Issue(6, 0)
      [] doc.titleChildren > 1 /\ Len(doc.titleTags) >= 2 -> Issue(6, doc.titleTags[2])
      [] OTHER -> Contradiction

HeadBase(doc) ==
    CASE doc.baseChildren <= 1 -> <<>>
      [] doc.baseChildren > 1 /\ Len(doc.baseTags) >= 2 -> Issue(7, doc.baseTags[2])
      [] OTHER -> Contradiction

BodySingleton(doc) ==
    CASE Len(doc.bodyTags) > 1 -> Issue(8, doc.bodyTags[2])
      [] Len(doc.bodyTags) <= 1 /\ doc.bodies = 1 -> <<>>
      [] Len(doc.bodyTags) <= 1 /\ doc.bodies = 0 -> Issue(8, 0)
      [] OTHER -> Contradiction

G02Checks(doc) == <<HeadTitle(doc), HeadBase(doc), BodySingleton(doc)>>
Contradicted(doc) == \E i \in 1..3 : G02Checks(doc)[i] = Contradiction
G02(doc) == DoctypeRequired(doc) \o DoctypeSyntax(doc) \o DoctypeLegacy(doc)
            \o FlattenSeq(G02Checks(doc))

-----------------------------------------------------------------------------
(* One call. *)

CheckTypeOK ==
    /\ pc \in {"idle", "regions", "options", "arena", "measure_groups", "scratch", "legacy",
               "parse", "g02", "measure", "collect", "exact", "report", "collect_groups",
               "total", "publish", "fragment", "fragment_collect", "fragment_exact",
               "fragment_publish"}
    /\ status \in {"none", "OK", "EINVAL", "ENOSPC", "ENOMEM", "EIO"}
    /\ step \in 1..Len(Gates) + 1
    /\ arena \in {"none", "live"}

CheckInit ==
    /\ pc = "idle"
    /\ call = [entry |-> "none"]
    /\ step = 1
    /\ status = "none"
    /\ measured = <<>>
    /\ anchors = <<>>
    /\ local = <<>>
    /\ arena = "none"
    /\ buffer = <<>>
    /\ result = Untouched

Call(entry, doc, capacity, regions, options) ==
    /\ pc = "idle" /\ call.entry = "none"
    /\ call' = [entry |-> entry, doc |-> doc, capacity |-> capacity,
                regions |-> regions, options |-> options]
    /\ buffer' = [i \in 1..capacity |-> Untouched]
    /\ pc' = "regions"
    /\ UNCHANGED <<step, status, measured, anchors, local, arena, result>>

Goto(next) == pc' = next /\ step' = 1

(* The counts of the measuring pass with one more of them. *)
WithCount(gate, count) ==
    [g \in DOMAIN measured \union {gate} |-> IF g = gate THEN count ELSE measured[g]]

(* Every error return of check_configured destroys the arena first. *)
Return(value) ==
    /\ status' = value
    /\ pc' = "idle"
    /\ arena' = "none"
    /\ UNCHANGED <<call, step, measured, anchors, local, buffer, result>>

(* validate_output_regions; validate_v1n3_options runs only when the        *)
(* regions are good and only for the document entry.                        *)
ValidateRegions ==
    /\ pc = "regions"
    /\ IF call.regions = "bad" \/ (call.entry = "document" /\ call.options = "bad")
       THEN Return("EINVAL")
       ELSE /\ Goto(IF call.entry = "document" THEN "arena" ELSE "fragment")
            /\ UNCHANGED <<call, status, measured, anchors, local, arena, buffer, result>>

CreateArena ==
    /\ pc = "arena"
    /\ \/ Return("ENOMEM")
       \/ /\ arena' = "live"
          /\ Goto("measure_groups")
          /\ UNCHANGED <<call, status, measured, anchors, local, buffer, result>>

(* Any pass over the parser or the arena may fail; a second pass that does   *)
(* not repeat the first one's evidence is an EIO of the same kind.           *)
PassFails ==
    /\ pc \in {"measure_groups", "scratch", "parse", "measure", "collect", "exact",
               "collect_groups", "fragment", "fragment_collect", "fragment_exact"}
    /\ ~(pc \in {"fragment"} /\ call.doc.badByte # None)
    /\ \E e \in {"ENOMEM", "EIO"} : Return(e)

(* measure_v1n3_group: the groups' own scanner keeps a stack of open        *)
(* elements and gives up when the document is deeper.                       *)
MeasureGroup ==
    /\ pc = "measure_groups"
    /\ IF call.doc.depth > MaxDepth
       THEN Return("ENOSPC")
       ELSE /\ measured' = WithCount(Groups[step], Len(Findings(Groups[step], call.doc)))
            /\ IF step = Len(Groups) THEN Goto("scratch")
               ELSE pc' = pc /\ step' = step + 1
            /\ UNCHANGED <<call, status, anchors, local, arena, buffer, result>>

(* lexbor_mraw_clean, then the local diagnostics and anchors. *)
AllocateScratch ==
    /\ pc = "scratch"
    /\ Goto("legacy")
    /\ UNCHANGED <<call, status, measured, anchors, local, arena, buffer, result>>

(* The early answers of check_v1n2, which works in the local array, whose   *)
(* capacity is MaxDiagnostics: invalid UTF-8 and the empty document.        *)
LegacyBegin ==
    /\ pc = "legacy"
    /\ CASE call.doc.badByte # None ->
              IF MaxDiagnostics < 1 THEN Return("ENOSPC")
              ELSE /\ local' = Finished(call.doc, Materialize(<<Utf8Anchor(call.doc)>>, 0))
                   /\ Goto("collect_groups")
                   /\ UNCHANGED <<call, status, measured, anchors, arena, buffer, result>>
         [] call.doc.badByte = None /\ call.doc.length = 0 ->
              IF MaxDiagnostics < 2 THEN Return("ENOSPC")
              ELSE /\ local' = AssignLineColumns(call.doc,
                                   Materialize(Issue(1, 0) \o Issue(6, 0), 0))
                   /\ Goto("collect_groups")
                   /\ UNCHANGED <<call, status, measured, anchors, arena, buffer, result>>
         [] OTHER ->
              /\ Goto("parse")
              /\ UNCHANGED <<call, status, measured, anchors, local, arena, buffer, result>>

LegacyParse ==
    /\ pc = "parse"
    /\ measured' = WithCount("parse", Len(ParseAnchors(call.doc)))
    /\ Goto("g02")
    /\ UNCHANGED <<call, status, anchors, local, arena, buffer, result>>

LegacyG02 ==
    /\ pc = "g02"
    /\ IF Contradicted(call.doc)
       THEN Return("EIO")
       ELSE /\ measured' = WithCount("g02", Len(G02(call.doc)))
            /\ Goto("measure")
            /\ UNCHANGED <<call, status, anchors, local, arena, buffer, result>>

(* The totals include everything measured so far; the capacity is checked   *)
(* at the end of each batch, before the next gate runs.                     *)
MeasureGate ==
    /\ pc = "measure"
    /\ LET now == WithCount(Gates[step], Len(Findings(Gates[step], call.doc)))
           total == SumOf(now, <<"parse", "g02">> \o SubSeq(Gates, 1, step))
       IN IF ClosesBatch(step) /\ total > MaxDiagnostics
          THEN Return("ENOSPC")
          ELSE /\ measured' = now
               /\ IF step = Len(Gates) THEN Goto("collect")
                  ELSE pc' = pc /\ step' = step + 1
               /\ UNCHANGED <<call, status, anchors, local, arena, buffer, result>>

CollectGate ==
    /\ pc = "collect"
    /\ IF measured[Gates[step]] > MaxDiagnostics - Len(anchors)
       THEN Return("EIO")
       ELSE /\ anchors' = anchors \o Findings(Gates[step], call.doc)
            /\ IF step = Len(Gates) THEN Goto("exact")
               ELSE pc' = pc /\ step' = step + 1
            /\ UNCHANGED <<call, status, measured, local, arena, buffer, result>>

(* lexbor_collect_exact: the last step of check_v1n2 that can fail. *)
LegacyExact ==
    /\ pc = "exact"
    /\ local' = Materialize(ParseAnchors(call.doc), 0)
    /\ Goto("report")
    /\ UNCHANGED <<call, status, measured, anchors, arena, buffer, result>>

LegacyReport ==
    /\ pc = "report"
    /\ local' = Finished(call.doc, local \o Materialize(G02(call.doc) \o anchors, Len(local)))
    /\ anchors' = <<>>
    /\ Goto("collect_groups")
    /\ UNCHANGED <<call, status, measured, arena, buffer, result>>

CollectGroup ==
    /\ pc = "collect_groups"
    /\ LET found == Findings(Groups[step], call.doc)
       IN IF Len(anchors) + Len(found) > MaxDiagnostics
          THEN Return("ENOSPC")
          ELSE /\ anchors' = anchors \o found
               /\ IF step = Len(Groups) THEN Goto("total")
                  ELSE pc' = pc /\ step' = step + 1
               /\ UNCHANGED <<call, status, measured, local, arena, buffer, result>>

(* A check that wants one entry more than the report has. *)
CheckTotalExclusive ==
    /\ pc = "total"
    /\ LET total == Len(local) + Len(anchors)
       IN IF total > MaxDiagnostics \/ total >= call.capacity
          THEN Return("ENOSPC")
          ELSE /\ Goto("publish")
               /\ UNCHANGED <<call, status, measured, anchors, local, arena, buffer, result>>

(* Only here is the caller's own capacity looked at. *)
CheckTotal ==
    /\ pc = "total"
    /\ LET total == Len(local) + Len(anchors)
       IN IF total > MaxDiagnostics \/ total > call.capacity
          THEN Return("ENOSPC")
          ELSE /\ Goto("publish")
               /\ UNCHANGED <<call, status, measured, anchors, local, arena, buffer, result>>

Overwrite(array, values) ==
    [i \in 1..Len(array) |-> IF i <= Len(values) THEN values[i] ELSE array[i]]

Clean(doc) == doc.badByte = None /\ Len(ParseAnchors(doc)) = 0

Publish ==
    /\ pc = "publish"
    /\ LET final == Finished(call.doc, local \o Materialize(anchors, Len(local)))
       IN /\ buffer' = Overwrite(buffer, final)
          /\ result' = [count |-> Len(final), clean |-> Clean(call.doc)]
          /\ local' = final
    /\ status' = "OK" /\ arena' = "none" /\ pc' = "idle"
    /\ UNCHANGED <<call, step, measured, anchors>>

-----------------------------------------------------------------------------
(* arbor_view0_native_check_fragment_model: one gate (g04_r2a), which       *)
(* writes in the caller's array.                                            *)

FragmentBegin ==
    /\ pc = "fragment"
    /\ IF call.doc.badByte # None
       THEN IF call.capacity < 1 THEN Return("ENOSPC")
            ELSE LET final == Finished(call.doc, Materialize(<<Utf8Anchor(call.doc)>>, 0))
                 IN /\ buffer' = Overwrite(buffer, final)
                    /\ result' = [count |-> 1, clean |-> FALSE]
                    /\ status' = "OK" /\ pc' = "idle"
                    /\ UNCHANGED <<call, step, measured, anchors, local, arena>>
       ELSE LET total == Len(ParseAnchors(call.doc)) + Len(Findings("g04_r2a", call.doc))
            IN IF total > MaxDiagnostics \/ total > call.capacity
               THEN Return("ENOSPC")
               ELSE /\ measured' = WithCount("g04_r2a", Len(Findings("g04_r2a", call.doc)))
                    /\ Goto("fragment_collect")
                    /\ UNCHANGED <<call, status, anchors, local, arena, buffer, result>>

(* Publishing the parser's findings before the gate's are collected. *)
FragmentCollectPublishes ==
    /\ pc = "fragment_collect"
    /\ anchors' = Findings("g04_r2a", call.doc)
    /\ buffer' = Overwrite(buffer, Materialize(ParseAnchors(call.doc), 0))
    /\ Goto("fragment_exact")
    /\ UNCHANGED <<call, status, measured, local, arena, result>>

FragmentCollect ==
    /\ pc = "fragment_collect"
    /\ anchors' = Findings("g04_r2a", call.doc)
    /\ Goto("fragment_exact")
    /\ UNCHANGED <<call, status, measured, local, arena, buffer, result>>

(* lexbor_fragment_collect_exact writes the caller's array. *)
FragmentExact ==
    /\ pc = "fragment_exact"
    /\ local' = Materialize(ParseAnchors(call.doc), 0)
    /\ buffer' = Overwrite(buffer, local')
    /\ Goto("fragment_publish")
    /\ UNCHANGED <<call, status, measured, anchors, arena, result>>

FragmentPublish ==
    /\ pc = "fragment_publish"
    /\ LET final == Finished(call.doc, local \o Materialize(anchors, Len(local)))
       IN /\ buffer' = Overwrite(buffer, final)
          /\ result' = [count |-> Len(final), clean |-> Clean(call.doc)]
          /\ local' = final
    /\ status' = "OK" /\ pc' = "idle"
    /\ UNCHANGED <<call, step, measured, anchors, arena>>

CallAny ==
    \E entry \in {"document", "fragment"}, doc \in Documents, capacity \in Capacities,
       regions \in {"good", "bad"}, options \in {"good", "bad"} :
        Call(entry, doc, capacity, regions, options)

CheckNext ==
    \/ CallAny
    \/ ValidateRegions \/ CreateArena \/ PassFails
    \/ MeasureGroup \/ AllocateScratch
    \/ LegacyBegin \/ LegacyParse \/ LegacyG02 \/ MeasureGate \/ CollectGate
    \/ LegacyExact \/ LegacyReport
    \/ CollectGroup \/ CheckTotal \/ Publish
    \/ FragmentBegin \/ FragmentCollect \/ FragmentExact \/ FragmentPublish

CheckSpec == CheckInit /\ [][CheckNext]_checkVars

-----------------------------------------------------------------------------
(* Properties. *)

(* All an answered document is to be reported for, whatever order it was     *)
(* found in.                                                                 *)
Expected(entry, doc) ==
    CASE doc.badByte # None ->
            <<Utf8Anchor(doc)>>
            \o (IF entry = "document"
                THEN FlattenSeq([i \in 1..Len(Groups) |-> Findings(Groups[i], doc)]) ELSE <<>>)
      [] doc.badByte = None /\ entry = "fragment" ->
            ParseAnchors(doc) \o Findings("g04_r2a", doc)
      [] OTHER ->
            (IF doc.length = 0 THEN Issue(1, 0) \o Issue(6, 0)
             ELSE ParseAnchors(doc) \o G02(doc)
                  \o FlattenSeq([i \in 1..Len(Gates) |-> Findings(Gates[i], doc)]))
            \o FlattenSeq([i \in 1..Len(Groups) |-> Findings(Groups[i], doc)])

Answered == pc = "idle" /\ status # "none"
Required == Len(Expected(call.entry, call.doc))

(* The caller sees a whole report or nothing: a call that returns an error,  *)
(* at whichever of its passes, has not touched the array or the result (the  *)
(* fragment entry writes the caller's array before it is done, so nothing    *)
(* after that may fail), a call that succeeds has written the entries it     *)
(* counts and no other, and no call leaves its arena behind.                 *)
WholeReportOrNothing ==
    /\ Answered => arena = "none"
    /\ Answered /\ status # "OK" =>
        /\ result = Untouched
        /\ \A i \in DOMAIN buffer : buffer[i] = Untouched
    /\ Answered /\ status = "OK" =>
        /\ result.count <= Len(buffer)
        /\ \A i \in DOMAIN buffer : buffer[i] = Untouched <=> i > result.count

(* A published report lists every finding of every gate exactly once, by     *)
(* offset, rule, severity and discovery, each with the line and the column   *)
(* of its own offset: the scan that assigns them never goes back, so it is   *)
(* right only on a list that is already in order, and it runs again on a     *)
(* list that holds lines of a first run.                                     *)
SameKind(a, b) == a.offset = b.offset /\ a.rule = b.rule /\ a.severity = b.severity
ReportIsComplete ==
    Answered /\ status = "OK" =>
        LET doc == call.doc
            report == SubSeq(buffer, 1, result.count)
            wanted == Expected(call.entry, doc)
            Before(offset) == {n \in doc.newlines : n < offset}
        IN /\ result.count = Len(wanted)
           /\ \A i \in DOMAIN wanted :
                Cardinality({j \in DOMAIN report : SameKind(report[j], wanted[i])})
                = Cardinality({j \in DOMAIN wanted : SameKind(wanted[j], wanted[i])})
           /\ \A i, j \in DOMAIN report : i < j =>
                /\ report[i].offset <= report[j].offset
                /\ report[i].offset = report[j].offset => report[i].rule <= report[j].rule
                /\ SameKind(report[i], report[j]) => report[i].sequence < report[j].sequence
           /\ \A i \in DOMAIN report :
                /\ report[i].line = 1 + Cardinality(Before(report[i].offset))
                /\ report[i].column = report[i].offset
                                      - Max(Before(report[i].offset) \cup {-1})
           /\ result.clean <=> \A i \in DOMAIN wanted : wanted[i].rule \notin {0, 1, 2}

(* A call is refused for want of room exactly when there is none: the        *)
(* document needs more records than the array or the checker's own limit     *)
(* has, or its elements are nested deeper than the groups' scanner can       *)
(* follow.  The limits are looked at in six places, five of them before all  *)
(* the findings are known.                                                   *)
RefusedOnlyWhenFull ==
    Answered =>
        LET full == Required > call.capacity \/ Required > MaxDiagnostics
            deep == call.entry = "document" /\ call.doc.depth > MaxDepth
        IN /\ status = "ENOSPC" => full \/ deep
           /\ status = "OK" => ~full /\ ~deep
=============================================================================
