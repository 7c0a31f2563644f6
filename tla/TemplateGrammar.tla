-------------------------- MODULE TemplateGrammar --------------------------
(***************************************************************************)
(* What a template source means, told without a scanner that jumps: where  *)
(* in HTML every symbol stands is found symbol by symbol, as a tokenizer   *)
(* does, and each "{{" is judged by where it stands.  The words are those  *)
(* of HtmlTemplate; the rules those of docs/VIEW_CORE_VIEW0.md, T1.        *)
(***************************************************************************)
EXTENDS HtmlTemplate

\* Where the next symbol stands.  name is the tag's or the end tag's so far,
\* quote the open quote of a tag, dashes how many end a comment so far.
Data == [mode |-> "data", name |-> <<>>, end |-> FALSE, quote |-> "", dashes |-> 0]

OpensRaw(p) == ~ p.end /\ RawKind(LowerName(p.name)) # "none"

\* After the ">" of a tag.
Closed(p) ==
  IF OpensRaw(p) THEN [Data EXCEPT !.mode = "raw", !.quote = RawKind(LowerName(p.name))]
  ELSE Data

\* In raw text quote is the element's name; "</" and that name end it.
InRaw(p, c) ==
  LET Reread == [p EXCEPT !.mode = IF c = "<" THEN "rawless" ELSE "raw", !.name = <<>>]
  IN CASE p.quote = "plaintext" -> p
       [] OTHER ->
            CASE p.mode = "rawless" /\ c = "/" -> [p EXCEPT !.mode = "rawname"]
              [] p.mode = "rawname" /\ c \notin {"<", ">", "/", " "} ->
                   [p EXCEPT !.name = Append(@, c)]
              [] p.mode = "rawname" /\ TagNameBoundary(c) ->
                   IF LowerName(p.name) = <<p.quote>>
                   THEN IF c = ">" THEN Data ELSE [Data EXCEPT !.mode = "tag", !.end = TRUE]
                   ELSE Reread
              [] OTHER -> Reread

InName(p, c) ==
  CASE c = "/" /\ p.name = <<>> /\ ~ p.end -> [p EXCEPT !.end = TRUE]
    [] c = ">" -> Closed(p)
    [] c \in {"/", " "} /\ ~ (c = "/" /\ p.name = <<>> /\ ~ p.end) -> [p EXCEPT !.mode = "tag"]
    [] OTHER ->
         IF c = "-" /\ p.name = <<"!", "-">> /\ ~ p.end
         THEN [Data EXCEPT !.mode = "comment"] ELSE [p EXCEPT !.name = Append(@, c)]

InTag(p, c) ==
  CASE p.quote # "" -> [p EXCEPT !.quote = IF c = @ THEN "" ELSE @]
    [] p.quote = "" /\ c \in {"'", "\""} -> [p EXCEPT !.quote = c]
    [] p.quote = "" /\ c = ">" -> Closed(p)
    [] OTHER -> p

InComment(p, c) ==
  CASE c = "-" -> [p EXCEPT !.dashes = @ + 1]
    [] c = ">" /\ p.dashes >= 2 -> Data
    [] OTHER -> [p EXCEPT !.dashes = 0]

Advance(p, c) ==
  CASE p.mode = "data" -> IF c = "<" THEN [p EXCEPT !.mode = "name"] ELSE p
    [] p.mode = "name" -> InName(p, c)
    [] p.mode = "tag" -> InTag(p, c)
    [] p.mode = "comment" -> InComment(p, c)
    [] OTHER -> InRaw(p, c)

\* Where each symbol stands, and where the text after the last one would.
Positions(source) ==
  FoldLeft(LAMBDA places, c : Append(places, Advance(places[Len(places)], c)), <<Data>>, source)

\* A reference is going on if only its characters follow an "&" of the text.
ReferenceGoesOn(source, places, i) ==
  \E k \in 1 .. i - 1 :
    /\ source[k] = "&" /\ \A j \in k .. i - 1 : places[j].mode = "data"
    /\ \A j \in k + 1 .. i - 1 : IdentifierContinue(source[j]) \/ source[j] = "#"

\* The names that a placeholder beginning at i can have: one, or none.
Named(source, i) ==
  LET Padding(text) == \A k \in DOMAIN text : text[k] = " "
      Spans(a, b) ==
        /\ a <= b /\ FieldNameValid(SubSeq(source, a, b))
        /\ Padding(SubSeq(source, i + 2, a - 1))
        /\ \E z \in b + 1 .. Len(source) :
             At(source, z, Close) /\ Padding(SubSeq(source, b + 1, z - 1))
      inside == i + 2 .. Len(source)
  IN {SubSeq(source, s[1], s[2]) : s \in {p \in inside \X inside : Spans(p[1], p[2])}}

\* Every "{{" of a source, and those in the name of a tag.
Marks(source) == {i \in DOMAIN source : At(source, i, Open)}
NameMarks(source, places) == {i \in Marks(source) : places[i].mode = "name"}

\* What is wrong with the "{{" at i.
MarkStatus(source, places, fields, i) ==
  LET known == {fields[k] : k \in DOMAIN fields}
  IN CASE places[i].mode # "data" \/ ReferenceGoesOn(source, places, i)
            \/ Named(source, i) = {} -> "einval"
       [] OTHER -> IF Named(source, i) \subseteq known THEN "ok" ELSE "enoent"

\* The places of the ">" that ends an svg start tag.
Foreign(source, places) ==
  {i \in DOMAIN source :
     /\ source[i] = ">" /\ places[i].mode \in {"name", "tag"} /\ places[i].quote = ""
     /\ ~ places[i].end /\ LowerName(places[i].name) = <<"svg">>}

Unfinished(p) ==
  \/ p.mode \in {"name", "tag", "comment"}
  \/ p.mode = "rawname" /\ LowerName(p.name) = <<p.quote>>

\* What there is to say of a source: the first thing that is wrong decides.
VerdictOf(source, places, fields, wrong) ==
  CASE wrong = {} -> IF Unfinished(places[Len(places)]) THEN "einval" ELSE "ok"
    [] OTHER ->
         LET first == CHOOSE i \in wrong : \A j \in wrong : i <= j
         IN IF first \in Marks(source) THEN MarkStatus(source, places, fields, first)
            ELSE "einval"

VerdictAt(source, places, fields, marks) ==
  VerdictOf(source, places, fields,
            {i \in marks : MarkStatus(source, places, fields, i) # "ok"}
              \union Foreign(source, places))

\* Each "{{" is a placeholder or a mistake, as docs/VIEW_CORE_VIEW0.md says.
SourceVerdict(source, fields) ==
  VerdictAt(source, Positions(source), fields, Marks(source))

\* The same, but a "{{" in the name of a tag is part of the name.
LenientVerdict(source, fields) ==
  LET places == Positions(source)
  IN VerdictAt(source, places, fields, Marks(source) \ NameMarks(source, places))

\* The placeholders of a source that is accepted, with the text around them:
\* each symbol of the text as itself, each placeholder as its slot.
Symbol(c) == [slot |-> 0, symbol |-> c]
Meaning(source, fields) ==
  LET places == Positions(source)
      marks == {i \in Marks(source) : places[i].mode = "data"}
      CloseOf(i) == FirstFrom(source, i, LAMBDA z : At(source, z, Close)) + 1
      Slot(i) == CHOOSE k \in DOMAIN fields : fields[k] \in Named(source, i)
      Written(i) ==
        CASE i \in marks -> <<[slot |-> Slot(i), symbol |-> ""]>>
          [] i \notin marks /\ (\E m \in marks : i \in m .. CloseOf(m)) -> <<>>
          [] OTHER -> <<Symbol(source[i])>>
  IN FlattenSeq([i \in DOMAIN source |-> Written(i)])
=============================================================================
