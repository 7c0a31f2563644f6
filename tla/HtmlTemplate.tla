---------------------------- MODULE HtmlTemplate ----------------------------
(***************************************************************************)
(* VIEW0 T1, src/c/view.c: how a template source is scanned and prepared.  *)
(*                                                                         *)
(* A source is a sequence of symbols.  A symbol stands for one byte, or    *)
(* for a word of letters that is never cut: the names of elements and      *)
(* fields.  A name is a sequence of symbols.                               *)
(***************************************************************************)
EXTENDS Integers, Sequences, SequencesExt

Punctuation == {"<", ">", "/", "!", "-", "{", "}", "&", "#", ";", "'", "\"", " "}
Numerals == {"7"}

\* ascii_identifier_start and ascii_identifier_continue, for words
IdentifierStart(c) == c \notin Punctuation \union Numerals
IdentifierContinue(c) == c \notin Punctuation

\* ascii_lower, for the words that differ by it
LowerWord(c) == IF c = "SCRIPT" THEN "script" ELSE c
LowerName(name) == [i \in DOMAIN name |-> LowerWord(name[i])]

\* The least place from start on where a test holds, or the one past the end.
FirstFrom(source, start, Holds(_)) ==
  CHOOSE i \in (start .. Len(source)) \union {Len(source) + 1} :
    /\ i > Len(source) \/ Holds(i)
    /\ \A j \in start .. i - 1 : j > Len(source) \/ ~ Holds(j)

At(source, i, text) ==
  i + Len(text) - 1 <= Len(source) /\ SubSeq(source, i, i + Len(text) - 1) = text

Open == <<"{", "{">>
Close == <<"}", "}">>
-----------------------------------------------------------------------------
(***************************************************************************)
(* Fields                                                                  *)
(***************************************************************************)
\* template_field_name_valid
FieldNameValid(name) ==
  name # <<>> /\ IdentifierStart(name[1]) /\ \A i \in DOMAIN name : IdentifierContinue(name[i])

\* template_field_table_validate: the first name that is wrong tells how.
FieldTableStatus(fields) ==
  LET Repeated(i) == \E j \in 1 .. i - 1 : fields[j] = fields[i]
      Wrong(i) == ~ FieldNameValid(fields[i]) \/ Repeated(i)
      wrong == FirstFrom(fields, 1, Wrong)
  IN CASE wrong > Len(fields) -> "ok"
       [] OTHER -> IF FieldNameValid(fields[wrong]) THEN "eexist" ELSE "einval"

\* template_field_resolve: the slot, or one past the last.
Resolve(fields, name) == FirstFrom(fields, 1, LAMBDA i : fields[i] = name)
-----------------------------------------------------------------------------
(***************************************************************************)
(* The pieces of a source: each gives its status, and where it ends        *)
(***************************************************************************)
Bad == [status |-> "einval"]

TagNameBoundary(c) == c \in {">", "/", " "}

\* The end of a tag whose name ends at start: past the first ">" outside of
\* quotes; 0 when there is none, or a "{{" before.
TagClose(source, start) ==
  LET After(quote, c) ==
        CASE quote # "" -> IF c = quote THEN "" ELSE quote
          [] OTHER -> IF c \in {"'", "\""} THEN c ELSE ""
      QuoteAt(i) == FoldLeft(After, "", SubSeq(source, start, i - 1))
      Ends(i) == At(source, i, Open) \/ (source[i] = ">" /\ QuoteAt(i) = "")
      i == FirstFrom(source, start, Ends)
  IN IF At(source, i, <<">">>) THEN i + 1 ELSE 0

\* template_scan_tag: the name lies from first to boundary - 1.
TagNamed(source, isEnd, first, boundary, end) ==
  IF end = 0 THEN Bad
  ELSE [status |-> "ok", end |-> end, isEnd |-> isEnd,
        name |-> LowerName(SubSeq(source, first, boundary - 1))]

TagFrom(source, isEnd, first) ==
  LET boundary == FirstFrom(source, first, LAMBDA i : TagNameBoundary(source[i]))
  IN TagNamed(source, isEnd, first, boundary, TagClose(source, boundary))

ScanTag(source, start) ==
  IF At(source, start + 1, <<"/">>) THEN TagFrom(source, TRUE, start + 2)
  ELSE TagFrom(source, FALSE, start + 1)

CommentStart == <<"<", "!", "-", "-">>
CommentEnd == <<"-", "-", ">">>

\* template_scan_comment
ScanComment(source, start) ==
  LET i == FirstFrom(source, start + 4,
                     LAMBDA j : At(source, j, Open) \/ At(source, j, CommentEnd))
  IN IF At(source, i, CommentEnd) THEN [status |-> "ok", end |-> i + 3] ELSE Bad

\* template_raw_kind_from_name: script and plaintext stand for the ten.
RawKind(name) == IF name \in {<<"script">>, <<"plaintext">>} THEN name[1] ELSE "none"

\* template_raw_end_matches
RawEndMatches(source, start, kind) ==
  /\ At(source, start, <<"<", "/">>) /\ start + 2 <= Len(source)
  /\ LowerWord(source[start + 2]) = kind
  /\ start + 3 > Len(source) \/ TagNameBoundary(source[start + 3])

\* template_parse_placeholder: the name lies from first to last - 1.
PlaceholderNamed(source, fields, first, last) ==
  LET close == FirstFrom(source, last, LAMBDA i : source[i] # " ")
      slot == Resolve(fields, SubSeq(source, first, last - 1))
  IN CASE first > Len(source) \/ ~ At(source, close, Close) -> Bad
       [] OTHER ->
            CASE ~ IdentifierStart(source[first]) -> Bad
              [] IdentifierStart(source[first]) /\ slot > Len(fields) -> [status |-> "enoent"]
              [] OTHER -> [status |-> "ok", end |-> close + 2, slot |-> slot]

PlaceholderFrom(source, fields, first) ==
  PlaceholderNamed(source, fields, first,
                   FirstFrom(source, first + 1, LAMBDA i : ~ IdentifierContinue(source[i])))

ParsePlaceholder(source, start, fields) ==
  PlaceholderFrom(source, fields, FirstFrom(source, start + 2, LAMBDA i : source[i] # " "))
-----------------------------------------------------------------------------
(***************************************************************************)
(* The scan                                                                *)
(***************************************************************************)
LiteralPart(text) == [kind |-> "literal", text |-> text, slot |-> 0]
SlotPart(slot) == [kind |-> "slot", text |-> <<>>, slot |-> slot]

\* template_scan_literal_add: no part for no bytes.
AddLiteral(parts, text) == IF text = <<>> THEN parts ELSE Append(parts, LiteralPart(text))

\* Mutant: a reference that may be going on is forgotten at the next character.
CandidateAfterLast(candidate, c) == c = "&"

\* Whether the characters up to here could be the front of a reference.
CandidateAfter(candidate, c) ==
  c = "&" \/ (candidate /\ (IdentifierContinue(c) \/ c = "#"))

\* template_scan: where the loop is, since where it has added no part, and what
\* it remembers of the characters before.
ScanStart ==
  [status |-> "ok", cursor |-> 1, literal |-> 1, candidate |-> FALSE, raw |-> "none",
   parts |-> <<>>]

FailScan(s, piece) == [s EXCEPT !.status = piece.status]
Skip(s, end, raw) == [s EXCEPT !.cursor = end, !.raw = raw, !.candidate = FALSE]

AfterTag(s, tag) ==
  CASE tag.status # "ok" -> FailScan(s, tag)
    [] OTHER -> IF tag.isEnd THEN Skip(s, tag.end, "none")
                ELSE IF tag.name = <<"svg">> THEN FailScan(s, Bad)
                ELSE Skip(s, tag.end, RawKind(tag.name))

AfterComment(s, comment) ==
  IF comment.status # "ok" THEN FailScan(s, comment) ELSE Skip(s, comment.end, "none")

AfterRawEnd(s, tag) == IF tag.status # "ok" THEN FailScan(s, tag) ELSE Skip(s, tag.end, "none")

AfterPlaceholder(s, found, before) ==
  CASE s.candidate -> FailScan(s, Bad)
    [] ~ s.candidate /\ found.status # "ok" -> FailScan(s, found)
    [] OTHER -> [Skip(s, found.end, "none") EXCEPT
                   !.literal = found.end,
                   !.parts = Append(AddLiteral(@, before), SlotPart(found.slot))]

\* In the raw text of an element only its end tag counts.
InRawText(source, s) ==
  CASE At(source, s.cursor, Open) -> FailScan(s, Bad)
    [] s.raw # "plaintext" /\ RawEndMatches(source, s.cursor, s.raw) ->
         AfterRawEnd(s, ScanTag(source, s.cursor))
    [] OTHER -> [s EXCEPT !.cursor = @ + 1]

\* One turn of the loop, of a scan that goes on.
ScanStep(source, fields, s) ==
  CASE s.raw # "none" -> InRawText(source, s)
    [] s.raw = "none" /\ At(source, s.cursor, CommentStart) ->
         AfterComment(s, ScanComment(source, s.cursor))
    [] s.raw = "none" /\ source[s.cursor] = "<" /\ ~ At(source, s.cursor, CommentStart) ->
         AfterTag(s, ScanTag(source, s.cursor))
    [] s.raw = "none" /\ At(source, s.cursor, Open) ->
         AfterPlaceholder(s, ParsePlaceholder(source, s.cursor, fields),
                          SubSeq(source, s.literal, s.cursor - 1))
    [] OTHER -> [s EXCEPT !.cursor = @ + 1, !.candidate = CandidateAfter(@, source[s.cursor])]

ScanEnd(source, end) ==
  IF end.status # "ok" THEN end
  ELSE [end EXCEPT !.parts = AddLiteral(@, SubSeq(source, end.literal, Len(source)))]

\* Every turn gets on by a symbol at least.
Scan(source, fields) ==
  LET Turn(s, c) == IF s.status = "ok" /\ s.cursor <= Len(source)
                    THEN ScanStep(source, fields, s) ELSE s
  IN ScanEnd(source, FoldLeft(Turn, ScanStart, source))
-----------------------------------------------------------------------------
(***************************************************************************)
(* Preparation                                                             *)
(***************************************************************************)
IsLiteral(part) == part.kind = "literal"
LiteralBytes(parts) == FlattenSeq([i \in DOMAIN parts |-> parts[i].text])

\* A part as it is stored: a literal by its place in the copied bytes.
Stored(parts, i) ==
  [kind |-> parts[i].kind, slot |-> parts[i].slot, length |-> Len(parts[i].text),
   at |-> IF IsLiteral(parts[i]) THEN Len(LiteralBytes(SubSeq(parts, 1, i - 1))) ELSE 0]

\* arbor_view_html_template_measure and _prepare up to the first write: what
\* the caller is told about a field table, what a scan found, and the room.
TemplateStatus(table, scan, partRoom, literalRoom) ==
  CASE table # "ok" -> table
    [] table = "ok" /\ scan.status # "ok" -> scan.status
    [] OTHER -> IF Len(scan.parts) > partRoom \/ Len(LiteralBytes(scan.parts)) > literalRoom
                THEN "enospc" ELSE "ok"

\* template_prepared_validate, of the descriptor over what is stored.
PreparedValid(template, stored) ==
  LET lengths == [i \in 1 .. template.parts |-> stored[i].length]
      Before(i) == FoldLeft(LAMBDA sum, n : sum + n, 0, SubSeq(lengths, 1, i - 1))
  IN /\ \A i \in 1 .. template.parts :
          IF stored[i].kind = "literal"
          THEN stored[i].length > 0 /\ stored[i].slot = 0 /\ stored[i].at = Before(i)
          ELSE stored[i].length = 0 /\ stored[i].slot \in 1 .. template.values
     /\ Before(template.parts + 1) = template.literals

\* The text of a stored part.
StoredText(part, bytes) == SubSeq(bytes, part.at + 1, part.at + part.length)
=============================================================================
