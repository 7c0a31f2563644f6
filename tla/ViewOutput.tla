----------------------------- MODULE ViewOutput -----------------------------
(***************************************************************************)
(* Templates prepared at start-up and the arena of a request: HtmlTemplate *)
(* over storage, the arena (src/asm/arena.asm), the outputs that VIEW0     *)
(* builds at its frontier (src/c/view.c) over buffers (buffer.asm), and    *)
(* the rendering of a prepared template.                                   *)
(*                                                                         *)
(* A byte is a symbol of HtmlTemplate, "" what nobody wrote.  Callers mix  *)
(* outputs, allocations and rewinds as they like but do not take back      *)
(* memory under an output at work.  Spans are representable, and           *)
(* structures overlap nothing.                                             *)
(***************************************************************************)
EXTENDS TemplateGrammar, FiniteSetsExt

CONSTANTS
  Symbols,               \* what a byte can be
  Base, Capacity,        \* the arena's address and its size
  Outputs,               \* output objects
  Texts,                 \* what callers append
  Inputs,                \* sources with their field tables
  Again,                 \* bound: inputs whose storage is used again
  PartRoom, LiteralRoom, \* of the storage
  Served,                \* templates with values, as a sequence
  Alignments,            \* what callers ask for
  Lengths                \* bound: of allocations and outputs

ASSUME ViewOutputAssumption ==
  /\ {Base, Capacity, PartRoom, LiteralRoom} \subseteq Nat
  /\ Alignments \subseteq Nat /\ Lengths \subseteq Nat /\ Again \subseteq Inputs
  /\ {"", "&", "a", "m", "p", "l", "t", "g", ";"} \subseteq Symbols
  /\ Texts \subseteq Seq(Symbols)
  /\ Served \in Seq([source : Seq(Symbols), fields : Seq(Seq(Symbols)),
                     values : Seq(Seq(Symbols))])

VARIABLES
  storage, template,     \* parts and bytes, and the descriptor published over them
  input,                 \* history: what was prepared last
  serving, texts,        \* what is served after start-up, each template with storage
                         \* of its own, and, a history, what each is to render
  offset, memory,        \* the arena's frontier and bytes
  outputs,               \* the output objects
  chunks, bodies, drafts,\* history: memory the caller holds, what was committed,
                         \* what was appended to each output
  op, answer             \* the last call, with its template, and its status

prepared == <<storage, template, input>>
held == <<chunks, bodies, drafts>>
viewVars == <<prepared, serving, texts, offset, memory, outputs, held, op, answer>>

Idle == [state |-> "IDLE", mark |-> 0, required |-> 0, length |-> 0]
ViewStatuses == {"none", "ok", "einval", "enospc", "enoent", "eexist"}
NoTemplate == [parts |-> 0, literals |-> 0, values |-> 0]
EmptyPart == [kind |-> "none", slot |-> 0, length |-> 0, at |-> 0]

ViewTypeOK ==
  /\ offset \in 0 .. Capacity /\ DOMAIN memory = 1 .. Capacity
  /\ Len(storage.parts) = PartRoom /\ Len(storage.bytes) = LiteralRoom
  /\ template.parts \in 0 .. PartRoom /\ template.literals \in 0 .. LiteralRoom
  /\ outputs \in [Outputs -> [state : {"IDLE", "ACTIVE", "COMMITTED"}, mark : 0 .. Capacity,
                              required : 0 .. Capacity, length : 0 .. Capacity]]
  /\ answer \in ViewStatuses

ViewInit ==
  /\ storage = [parts |-> [i \in 1 .. PartRoom |-> EmptyPart],
                bytes |-> [b \in 1 .. LiteralRoom |-> ""]]
  /\ template = NoTemplate /\ input = <<>> /\ serving = <<>> /\ texts = <<>>
  /\ offset = 0 /\ memory = [b \in 1 .. Capacity |-> ""]
  /\ outputs = [o \in Outputs |-> Idle]
  /\ chunks = {} /\ bodies = {} /\ drafts = [o \in Outputs |-> <<>>]
  /\ op = <<"none">> /\ answer = "none"

Return(call, status) == op' = <<call>> /\ answer' = status

Body(at, text) == [at |-> at, length |-> Len(text), text |-> text]

\* Memory that somebody holds: not the memory of no bytes.
Keep(region) == {r \in {region} : r.length > 0}
-----------------------------------------------------------------------------
(***************************************************************************)
(* Start-up                                                                *)
(***************************************************************************)
\* Bytes after a text was written at an offset, where there is room for it.
Write(bytes, at, text) ==
  SubSeq(bytes, 1, at) \o text \o SubSeq(bytes, at + Len(text) + 1, Len(bytes))

\* arbor_view_html_template_prepare: all checks, then the parts, then the check
\* of what is there, then the descriptor.
Publish(in, candidate, stored, bytes) ==
  /\ storage' = [parts |-> stored, bytes |-> bytes]
  /\ IF PreparedValid(candidate, stored)
     THEN template' = candidate /\ input' = in /\ answer' = "ok"
     ELSE UNCHANGED <<template, input>> /\ answer' = "einval"

Store(in, parts) ==
  Publish(in, [parts |-> Len(parts), literals |-> Len(LiteralBytes(parts)), values |-> Len(in[2])],
          Write(storage.parts, 0, [i \in DOMAIN parts |-> Stored(parts, i)]),
          Write(storage.bytes, 0, LiteralBytes(parts)))

PrepareScanned(in, parts, status) ==
  IF status = "ok" THEN Store(in, parts)
  ELSE UNCHANGED <<storage, template, input>> /\ answer' = status

PrepareInput(in, scan) ==
  PrepareScanned(in, scan.parts,
                 TemplateStatus(FieldTableStatus(in[2]), scan, PartRoom, LiteralRoom))

PrepareTemplate(in) ==
  /\ PrepareInput(in, Scan(in[1], in[2]))
  /\ op' = <<"prepare", in>> /\ UNCHANGED <<serving, texts, offset, memory, outputs, held>>

\* The entity that stands for a byte in HTML text.
Escaped(byte) ==
  CASE byte = "&" -> <<"&", "a", "m", "p", ";">>
    [] byte = "<" -> <<"&", "l", "t", ";">>
    [] byte = ">" -> <<"&", "g", "t", ";">>
    [] OTHER -> <<byte>>

\* The text of a meaning and its values: every value escaped.
Rendered(meaning, values) ==
  LET Written(i) == IF meaning[i].slot = 0 THEN <<meaning[i].symbol>>
                    ELSE FlattenSeq([k \in DOMAIN values[meaning[i].slot] |->
                                       Escaped(values[meaning[i].slot][k])])
  IN FlattenSeq([i \in DOMAIN meaning |-> Written(i)])

\* The application has its templates and takes requests.
Serve ==
  /\ serving' = [i \in DOMAIN Served |->
                   [template |-> Served[i],
                    parts |-> Scan(Served[i].source, Served[i].fields).parts]]
  /\ texts' = [i \in DOMAIN Served |->
                 IF Len(Served[i].values) # Len(Served[i].fields) THEN <<>>
                 ELSE Rendered(Meaning(Served[i].source, Served[i].fields), Served[i].values)]
  /\ op' = <<"serve">> /\ answer' = "none"
  /\ UNCHANGED <<prepared, offset, memory, outputs, held>>
-----------------------------------------------------------------------------
(***************************************************************************)
(* The arena                                                               *)
(***************************************************************************)
AlignUp(address, alignment) == ((address + alignment - 1) \div alignment) * alignment

\* The offset a chunk of this alignment starts at: addresses are aligned, not offsets.
AlignedOffset(alignment) == AlignUp(Base + offset, alignment) - Base

AllocStatus(size, alignment) ==
  CASE alignment = 0 \/ alignment \notin {2 ^ k : k \in 0 .. alignment} -> "einval"
    [] OTHER -> IF AlignedOffset(alignment) + size > Capacity THEN "enospc" ELSE "ok"

\* arena_alloc_aligned, by the application
Alloc(size, alignment) ==
  LET status == AllocStatus(size, alignment)
      at == AlignedOffset(alignment)
  IN /\ Return("alloc", status)
     /\ IF status = "ok"
        THEN /\ offset' = at + size
             /\ chunks' = chunks \union Keep([at |-> at, length |-> size, alignment |-> alignment])
        ELSE UNCHANGED <<offset, chunks>>
     /\ UNCHANGED <<memory, outputs, bodies, drafts>>

EndOf(region) == region.at + region.length
Active == {o \in Outputs : outputs[o].state = "ACTIVE"}
OutputEnd(o) == outputs[o].mark + outputs[o].required

\* arena_rewind, by the application, to a mark above every output at work.
Rewind(mark) ==
  /\ \A o \in Active : OutputEnd(o) <= mark
  /\ Return("rewind", IF mark <= offset THEN "ok" ELSE "einval")
  /\ offset' = IF mark <= offset THEN mark ELSE offset
  /\ chunks' = {c \in chunks : EndOf(c) <= mark}
  /\ bodies' = {b \in bodies : EndOf(b) <= mark}
  /\ UNCHANGED <<memory, outputs, drafts>>

\* arena_reset: the next request, with output objects of its own.
Reset ==
  /\ offset' = 0 /\ chunks' = {} /\ bodies' = {} /\ Return("reset", "ok")
  /\ outputs' = [o \in Outputs |-> Idle] /\ drafts' = [o \in Outputs |-> <<>>]
  /\ UNCHANGED memory
-----------------------------------------------------------------------------
(***************************************************************************)
(* Outputs                                                                 *)
(***************************************************************************)
\* Mutant: the frontier may have moved on.
ActiveValidBelow(o) ==
  /\ outputs[o].state = "ACTIVE"
  /\ OutputEnd(o) <= offset /\ outputs[o].length <= outputs[o].required

\* output_active_validate
ActiveValid(o) ==
  /\ outputs[o].state = "ACTIVE"
  /\ OutputEnd(o) = offset /\ outputs[o].length <= outputs[o].required

\* arbor_view_output_begin
Begin(o, length) ==
  LET status == IF outputs[o].state = "ACTIVE" THEN "einval" ELSE AllocStatus(length, 1)
  IN /\ Return("begin", status)
     /\ IF status = "ok"
        THEN /\ outputs' = [outputs EXCEPT ![o] = [state |-> "ACTIVE", mark |-> offset,
                                                   required |-> length, length |-> 0]]
             /\ offset' = offset + length /\ drafts' = [drafts EXCEPT ![o] = <<>>]
        ELSE UNCHANGED <<offset, outputs, drafts>>
     /\ UNCHANGED <<memory, chunks, bodies>>

\* output_abort_validated
AbortValidated(o) ==
  /\ offset' = outputs[o].mark
  /\ outputs' = [outputs EXCEPT ![o] = Idle]
  /\ drafts' = [drafts EXCEPT ![o] = <<>>]

\* A run of buffer_append into [mark, mark + required), as far as there is room.
AppendAll(mark, required, length, pieces) ==
  LET Step(acc, piece) ==
        IF ~ acc.fits \/ acc.length + Len(piece) > required THEN [acc EXCEPT !.fits = FALSE]
        ELSE [acc EXCEPT !.bytes = Write(@, mark + acc.length, piece),
                         !.length = @ + Len(piece)]
  IN FoldLeft(Step, [fits |-> TRUE, length |-> length, bytes |-> memory], pieces)

\* An active output takes the pieces or gives its memory back.
AppendPieces(o, pieces) ==
  LET done == AppendAll(outputs[o].mark, outputs[o].required, outputs[o].length, pieces)
  IN /\ memory' = done.bytes
     /\ IF done.fits
        THEN /\ outputs' = [outputs EXCEPT ![o].length = done.length]
             /\ drafts' = [drafts EXCEPT ![o] = @ \o FlattenSeq(pieces)]
             /\ UNCHANGED offset
        ELSE AbortValidated(o)
     /\ Return("append", IF done.fits THEN "ok" ELSE "enospc")

Refuse(call) ==
  /\ Return(call, "einval") /\ UNCHANGED <<offset, memory, outputs, drafts>>

Contents(o) == SubSeq(memory, outputs[o].mark + 1, outputs[o].mark + outputs[o].length)

\* arbor_view_output_append, from outside or from what the output already holds.
AppendText(o, text) ==
  /\ IF ActiveValid(o) THEN AppendPieces(o, <<text>>) ELSE Refuse("append")
  /\ UNCHANGED <<chunks, bodies>>

AppendOwn(o) == AppendText(o, Contents(o))

\* What the entity of a byte adds to the length.
Expansion(byte) == CASE byte = "&" -> 4 [] byte \in {"<", ">"} -> 3 [] OTHER -> 0

EscapedPieces(text) == [i \in DOMAIN text |-> Escaped(text[i])]

\* arbor_view_html_text_append.  The code appends a run of plain bytes in one
\* piece; piece by piece differs only above the frontier an abort goes back to.
HtmlAppend(o, text) ==
  /\ IF ActiveValid(o) THEN AppendPieces(o, EscapedPieces(text)) ELSE Refuse("append")
  /\ UNCHANGED <<chunks, bodies>>

\* A text inside the output itself is refused, for escaping would overwrite it.
HtmlAppendOwn(o) ==
  /\ ActiveValid(o) /\ outputs[o].length > 0
  /\ AbortValidated(o) /\ Return("append", "einval")
  /\ UNCHANGED <<memory, chunks, bodies>>

\* arbor_view_output_commit, of an output that is full.
Commit(o) ==
  /\ IF ~ ActiveValid(o) THEN Refuse("commit") /\ UNCHANGED bodies
     ELSE IF outputs[o].length # outputs[o].required
          THEN AbortValidated(o) /\ Return("commit", "einval") /\ UNCHANGED <<memory, bodies>>
          ELSE /\ outputs' = [outputs EXCEPT ![o].state = "COMMITTED", ![o].mark = 0]
               /\ bodies' = bodies \union Keep(Body(outputs[o].mark, drafts[o]))
               /\ Return("commit", "ok") /\ UNCHANGED <<offset, memory, drafts>>
  /\ UNCHANGED chunks

\* arbor_view_output_abort
Abort(o) ==
  /\ IF ActiveValid(o) THEN AbortValidated(o) /\ Return("abort", "ok") /\ UNCHANGED memory
     ELSE Refuse("abort")
  /\ UNCHANGED <<chunks, bodies>>
-----------------------------------------------------------------------------
(***************************************************************************)
(* Rendering                                                               *)
(***************************************************************************)
\* Mutant: entities are measured by the number of their letters.
MeasuredShort(part) ==
  IF IsLiteral(part) THEN Len(part.text)
  ELSE Len(part.text)
       + SumFunction([i \in DOMAIN part.text |->
                        IF Escaped(part.text[i]) = <<part.text[i]>> THEN 0 ELSE 3])

\* arbor_view_measure_add and arbor_view_html_text_measure
Measured(part) ==
  IF IsLiteral(part) THEN Len(part.text)
  ELSE Len(part.text) + SumFunction([i \in DOMAIN part.text |-> Expansion(part.text[i])])

PartPieces(part) == IF IsLiteral(part) THEN <<part.text>> ELSE EscapedPieces(part.text)

\* The parts of a template, each slot with its value.
Filled(parts, values) ==
  [i \in DOMAIN parts |->
     IF IsLiteral(parts[i]) THEN parts[i] ELSE [parts[i] EXCEPT !.text = values[parts[i].slot]]]

\* An output of its own takes the parts, as many bytes as were measured.
RenderParts(parts, needed, room) ==
  LET done == AppendAll(offset, needed, 0, FlattenSeq([i \in DOMAIN parts |-> PartPieces(parts[i])]))
  IN /\ memory' = IF room = "ok" THEN done.bytes ELSE memory
     /\ answer' = CASE room # "ok" -> room
                 [] OTHER -> IF ~ done.fits THEN "enospc"
                             ELSE IF done.length # needed THEN "einval" ELSE "ok"
     /\ IF answer' = "ok"
        THEN /\ offset' = offset + needed
             /\ bodies' = bodies \union Keep(Body(offset, SubSeq(done.bytes, offset + 1, offset')))
        ELSE UNCHANGED <<offset, bodies>>

RenderFilled(parts, needed) == RenderParts(parts, needed, AllocStatus(needed, 1))

Sum(parts) == SumFunction([i \in DOMAIN parts |-> Measured(parts[i])])

\* arbor_view_html_template_render of a template served.
Render(template_view) ==
  /\ IF Len(template_view.template.values) # Len(template_view.template.fields)
     THEN answer' = "einval" /\ UNCHANGED <<offset, memory, bodies>>
     ELSE LET parts == Filled(template_view.parts, template_view.template.values)
          IN RenderFilled(parts, Sum(parts))
  /\ UNCHANGED <<outputs, chunks, drafts>>

StartUp ==
  /\ serving = <<>>
  /\ \/ Serve
     \/ input \in {<<>>} \union Again /\ \E in \in Inputs : PrepareTemplate(in)

Request ==
  /\ serving # <<>> /\ UNCHANGED <<prepared, serving, texts>>
  /\ \/ \E size \in Lengths, alignment \in Alignments : Alloc(size, alignment)
     \/ \E mark \in 0 .. Capacity : Rewind(mark)
     \/ Reset
     \/ \E o \in Outputs :
          \/ \E length \in Lengths : Begin(o, length)
          \/ \E text \in Texts : AppendText(o, text) \/ HtmlAppend(o, text)
          \/ AppendOwn(o) \/ HtmlAppendOwn(o) \/ Commit(o) \/ Abort(o)
     \/ \E i \in DOMAIN serving : Render(serving[i]) /\ op' = <<"render", i>>

ViewNext == StartUp \/ Request

ViewSpec == ViewInit /\ [][ViewNext]_viewVars
-----------------------------------------------------------------------------
(***************************************************************************)
(* Properties                                                              *)
(***************************************************************************)
Bytes(region) == region.at + 1 .. EndOf(region)

\* What callers hold is theirs, whatever else goes on in the arena: chunks,
\* committed bodies and outputs at work share no byte and lie below the
\* frontier, chunks at the address asked for, bodies and outputs with exactly
\* the bytes appended.  In particular an output that lost the frontier to
\* another allocation takes nothing back and writes nothing any more.
LiveMemoryIntact ==
  LET regions == chunks \union bodies
      Place(o) == outputs[o].mark + 1 .. OutputEnd(o)
      working == {Body(outputs[o].mark, drafts[o]) : o \in Active}
  IN /\ \A r, s \in regions : r # s => Bytes(r) \intersect Bytes(s) = {}
     /\ \A o, p \in Active : o # p => Place(o) \intersect Place(p) = {}
     /\ \A r \in regions, o \in Active : Bytes(r) \intersect Place(o) = {}
     /\ \A r \in regions : Bytes(r) \subseteq 1 .. offset
     /\ \A c \in chunks : (Base + c.at) % c.alignment = 0
     /\ \A b \in bodies \union working : SubSeq(memory, b.at + 1, EndOf(b)) = b.text

\* Rendering either commits at the frontier what the template's source says,
\* with every value escaped, which it measured to the byte, or fails for want
\* of room or for too many or few values and leaves the frontier: with room for
\* it, no append and no commit fails.
RenderAllOrNothing ==
  [][op'[1] = "render" =>
       LET asked == serving[op'[2]].template
           text == texts[op'[2]] IN
       IF Len(asked.values) # Len(asked.fields) THEN answer' = "einval" /\ UNCHANGED <<offset, bodies>>
       ELSE IF offset + Len(text) <= Capacity
       THEN /\ answer' = "ok" /\ offset' = offset + Len(text)
            /\ SubSeq(memory', offset + 1, offset') = text
       ELSE answer' = "enospc" /\ UNCHANGED <<offset, bodies>>]_viewVars

\* The meaning of what is stored.
StoredMeaning(descriptor, stored) ==
  LET Decoded(part) ==
        IF IsLiteral(part)
        THEN LET text == StoredText(part, stored.bytes) IN [j \in DOMAIN text |-> Symbol(text[j])]
        ELSE <<[slot |-> part.slot, symbol |-> ""]>>
  IN FlattenSeq([i \in 1 .. descriptor.parts |-> Decoded(stored.parts[i])])

\* How many parts a meaning takes: its slots and its longest runs of text.
PartsOf(meaning) ==
  Cardinality({i \in DOMAIN meaning :
    meaning[i].slot # 0 \/ i = 1 \/ (i > 1 /\ meaning[IF i > 1 THEN i - 1 ELSE 1].slot # 0)})

StoresMeaning(in, meaning) ==
  IF \/ PartsOf(meaning) > PartRoom
     \/ Cardinality({i \in DOMAIN meaning : meaning[i].slot = 0}) > LiteralRoom
  THEN answer' = "enospc" /\ UNCHANGED <<storage, template>>
  ELSE /\ answer' = "ok" /\ template'.values = Len(in[2])
       /\ StoredMeaning(template', storage') = meaning

IsExact(in, verdict) ==
  IF verdict = "ok" THEN StoresMeaning(in, Meaning(in[1], in[2]))
  ELSE answer' = verdict /\ UNCHANGED <<storage, template>>

\* What is to be said of an input: its field table comes before its source.
Said(in, verdict) ==
  LET table == FieldTableStatus(in[2]) IN IF table = "ok" THEN verdict ELSE table

\* Prepare accepts exactly the sources in which every "{{" is a placeholder in
\* plain text, with a field that there is, and that end where text may end; for
\* a source it refuses, or that it has no room for, it says why, and leaves the
\* template of before in place, parts, bytes and all.  What it publishes, over
\* storage used before too, means what the source means, placeholder for
\* placeholder and byte for byte.  Only a "{{" in the name of a tag may be
\* taken for a mistake or for part of the name: the code takes it for part of
\* the name, its document does not (see TagsTakeNoSubstitution).
PreparedIsExact ==
  [][op'[1] = "prepare" =>
       LET in == op'[2] IN
       \/ IsExact(in, Said(in, SourceVerdict(in[1], in[2])))
       \/ IsExact(in, Said(in, LenientVerdict(in[1], in[2])))]_viewVars

\* As docs/VIEW_CORE_VIEW0.md:287-291 and 305 have it, a substitution is admitted
\* in plain text only and rejected inside tags, attribute values, comments and raw
\* text, and a "{{" cannot be written as a literal: what prepare accepts has every
\* "{{" in plain text.  It has not, when one stands in the name of a tag: see the
\* README.
TagsTakeNoSubstitution ==
  [][op'[1] = "prepare" /\ answer' = "ok" =>
       LET source == op'[2][1]
       IN \A i \in Marks(source) : Positions(source)[i].mode = "data"]_viewVars
=============================================================================
