--------------------------- MODULE Configuration ---------------------------
(***************************************************************************)
(* The typed configuration of src/c/config.c: a caller with a schema and   *)
(* three classes of sources measures the storage a result needs, prepares  *)
(* the result in memory of its own, and validates it later.  Every call is *)
(* one step; the caller may change its sources between calls.              *)
(*                                                                         *)
(* A text is a sequence of symbols: the digits, the minus sign, a letter,  *)
(* the bytes from 128 on as themselves, and one symbol for each of the     *)
(* words true and false.  A record is a line of the file or an entry of a  *)
(* vector; form says how far its syntax holds.  Byte offsets are left out, *)
(* pointers are not null, and the schema's header is in order.             *)
(***************************************************************************)
EXTENDS Integers, Sequences, SequencesExt, FiniteSetsExt

CONSTANTS
  Scenarios,             \* what the caller starts with: [input, memory], an input
                         \* a [schema, sources], a memory the outputs' room and overlaps
  Replacements,          \* the inputs it may change to
  BadNames,              \* names the schema may not use
  MaxUnsigned, MaxSigned,  \* the largest numbers of the two integer types
  MaxChanges             \* bound: how often the caller changes its inputs

ASSUME ConfigurationAssumption ==
  /\ MaxUnsigned \in Nat /\ MaxSigned \in Nat /\ MaxSigned >= 9 /\ MaxUnsigned > MaxSigned
  /\ MaxChanges \in Nat

VARIABLES
  input, changes,               \* the schema and sources, and their changes
  memory,                       \* what the caller passes as outputs
  requirements,                 \* what measure wrote
  values, provenance, persistent, prepared, \* what prepare wrote
  diagnostic,                   \* what either wrote on a failure
  op, outcome,                  \* the last call and its status
  promised, from                \* history: measure's status for this input;
                                \* the input of the latest result

stored == <<values, provenance, persistent, prepared>>
configVars ==
  <<input, changes, memory, requirements, stored, diagnostic, op, outcome, promised, from>>

Minus == 10
Letter == 11
True == <<13>>
False == <<14>>

Octets == 0 .. 255
Kinds == {"bool", "u64", "i64", "utf8", "enum"}
Namespaces == <<"key", "file", "environment", "command_line">>
Classes == <<"file", "environment", "command_line">>
Writables == {"result", "values", "provenance", "scratch", "persistent"}

NoValue == [kind |-> "none", number |-> 0, text |-> <<>>]
Unwritten == [kind |-> "none", number |-> 0, at |-> 0, length |-> 0]
Nowhere == [source |-> "none", ordinal |-> 0]
NoResult == [guard |-> FALSE, count |-> 0, bytes |-> 0]
NoRequirements == [count |-> 0, persistent |-> 0]
NoInput == [schema |-> <<>>, sources |-> <<>>]

\* config_fail: the diagnostic and the status that goes with it.
Failure(code, source, record, key, status) ==
  [code |-> code, source |-> source, record |-> record, key |-> key, status |-> status]
NoFailure == Failure("none", "none", 0, 0, "ok")

ConfigTypeOK ==
  /\ changes \in 0 .. MaxChanges
  /\ requirements \in [count : Nat, persistent : Nat]
  /\ values \in Seq([kind : Kinds \union {"none"}, number : Int, at : Nat, length : Nat])
  /\ provenance \in Seq([source : {"none", "default"} \union Range(Classes), ordinal : Nat])
  /\ persistent \in Seq(Octets) /\ prepared \in [guard : BOOLEAN, count : Nat, bytes : Nat]
  /\ Len(values) = memory.values /\ Len(provenance) = memory.provenance
  /\ Len(persistent) = memory.persistent
  /\ op \in {"none", "measure", "prepare", "validate"}
  /\ {outcome, promised} \subseteq {"none", "ok", "einval", "enoent", "enospc", "eoverflow"}
  /\ DOMAIN from = DOMAIN input

ConfigInit ==
  /\ \E s \in Scenarios : input = s.input /\ memory = s.memory
  /\ changes = 0
  /\ requirements = NoRequirements
  /\ values = [k \in 1 .. memory.values |-> Unwritten]
  /\ provenance = [k \in 1 .. memory.provenance |-> Nowhere]
  /\ persistent = [b \in 1 .. memory.persistent |-> 0] /\ prepared = NoResult
  /\ diagnostic = NoFailure /\ op = "none" /\ outcome = "none"
  /\ promised = "none" /\ from = NoInput
-----------------------------------------------------------------------------
(***************************************************************************)
(* The schema                                                              *)
(***************************************************************************)
\* How many bytes a character has by its first byte; 0 for none that begins one.
Utf8Length(first) ==
  CASE first < 128 -> 1 [] first \in 194 .. 223 -> 2 [] first \in 224 .. 239 -> 3
    [] first \in 240 .. 244 -> 4 [] OTHER -> 0

LeastScalar == <<0, 128, 2048, 65536>>

\* As many as the bits a first byte gives to its character tell apart.
LeadValues == <<128, 32, 16, 8>>

\* The number a character stands for, six bits from each byte that follows.
Scalar(lead, rest) == FoldLeft(LAMBDA n, b : 64 * n + (b % 64), lead, rest)

\* Where the character at ends, 0 if it is not one.
Utf8Next(text, at) ==
  LET needed == Utf8Length(text[at])
      rest == SubSeq(text, at + 1, at + needed - 1)
      scalar == Scalar(text[at] % LeadValues[needed], rest)
  IN CASE needed <= 1 -> needed * (at + 1)
       [] OTHER -> IF /\ at + needed - 1 <= Len(text) /\ Range(rest) \subseteq 128 .. 191
                      /\ LeastScalar[needed] <= scalar /\ scalar <= 1114111
                      /\ scalar \notin 55296 .. 57343
                   THEN at + needed ELSE 0

\* config_utf8_valid
Utf8Valid(text) ==
  Len(text) + 1 =
    FoldLeft(LAMBDA at, b : IF at \in DOMAIN text THEN Utf8Next(text, at) ELSE at, 1, text)

\* config_value_canonical, without the fields a value of its kind lacks.
Canonical(d, kind, number, text) ==
  /\ kind = d.kind
  /\ kind # "utf8" => text = <<>>
  /\ CASE kind = "bool" -> number \in {0, 1}
       [] kind \in {"u64", "i64"} -> number \in d.lo .. d.hi
       [] kind = "utf8" -> /\ number = 0 /\ Utf8Valid(text)
                           /\ Len(text) \in (IF "empty" \in d.flags THEN 0 ELSE 1) .. d.hi
       [] OTHER -> \E c \in Range(d.choices) : c.value = number

FlagsValid(d) ==
  /\ Cardinality(d.flags \intersect {"required", "default"}) = 1
  /\ "empty" \in d.flags => d.kind = "utf8"

\* The first namespace whose name is ill formed, or taken by a descriptor before.
NameFailure(schema, k) ==
  LET Name(j, n) == schema[j].names[Namespaces[n]]
      bad == {n \in 1 .. 4 : Name(k, n) \in BadNames}
      taken == {n \in 1 .. 4 : \E j \in 1 .. k - 1 : Name(j, n) = Name(k, n)}
  IN CASE bad \union taken = {} -> "none"
       [] OTHER -> IF Min(bad \union taken) \in bad THEN "name" ELSE "duplicate_name"

ChoiceNameValid(name) ==
  name # <<>> /\ Head(name) # Minus /\ \A b \in Range(name) : b < 128

ChoiceFailure(choices) ==
  LET bad == {i \in DOMAIN choices : ~ ChoiceNameValid(choices[i].name)}
      taken == {i \in DOMAIN choices :
                  \E j \in 1 .. i - 1 : \/ choices[j].name = choices[i].name
                                        \/ choices[j].value = choices[i].value}
  IN CASE bad \union taken = {} -> "none"
       [] OTHER -> IF Min(bad \union taken) \in bad THEN "name" ELSE "descriptor"

\* The constraints of the other kinds must be zero.
ConstraintFailure(d) ==
  CASE d.kind \in {"u64", "i64"} ->
         IF d.lo <= d.hi /\ d.choices = <<>> THEN "none" ELSE "descriptor"
    [] d.kind = "utf8" -> IF d.lo = 0 /\ d.choices = <<>> THEN "none" ELSE "descriptor"
    [] d.kind = "bool" ->
         IF d.lo = 0 /\ d.hi = 0 /\ d.choices = <<>> THEN "none" ELSE "descriptor"
    [] OTHER -> IF d.lo = 0 /\ d.hi = 0 /\ d.choices # <<>>
                THEN ChoiceFailure(d.choices) ELSE "descriptor"

DefaultValid(d) ==
  IF "required" \in d.flags THEN d.default = NoValue
  ELSE Canonical(d, d.default.kind, d.default.number, d.default.text)

First(failures) ==
  LET bad == {i \in DOMAIN failures : failures[i] # NoFailure}
  IN IF bad = {} THEN NoFailure ELSE failures[Min(bad)]

DescriptorFailure(schema, k) ==
  LET d == schema[k]
      Coded(code) == IF code = "none" THEN NoFailure ELSE Failure(code, "none", 0, k, "einval")
  IN First(<<Coded(IF FlagsValid(d) THEN "none" ELSE "flags"),
             Coded(IF d.kind \in Kinds THEN "none" ELSE "descriptor"),
             Coded(NameFailure(schema, k)), Coded(ConstraintFailure(d)),
             IF DefaultValid(d) THEN NoFailure
             ELSE Failure("default", "default", k, k, "einval")>>)

\* config_validate_schema
ValidateSchema(schema) == First([k \in DOMAIN schema |-> DescriptorFailure(schema, k)])
-----------------------------------------------------------------------------
(***************************************************************************)
(* Texts and records                                                       *)
(***************************************************************************)
\* The loop over the digits of a number that may not exceed limit.
ReadDigits(text, limit) ==
  LET Step(acc, c) ==
        CASE acc.status # "ok" -> acc
          [] acc.status = "ok" /\ c \notin 0 .. 9 -> [acc EXCEPT !.status = "einval"]
          [] OTHER -> IF acc.number > (limit - c) \div 10
                      THEN [acc EXCEPT !.status = "eoverflow"]
                      ELSE [acc EXCEPT !.number = (10 * @ + c) % (MaxUnsigned + 1)]
  IN FoldLeft(Step, [status |-> "ok", number |-> 0], text)

Wrong(code, status) == [code |-> code, status |-> status, number |-> 0, text |-> <<>>]
Right(number, text) == [code |-> "none", status |-> "ok", number |-> number, text |-> text]

NumberRead(d, read, sign) ==
  CASE read.status # "ok" -> Wrong(d.kind, read.status)
    [] OTHER -> IF sign * read.number \in d.lo .. d.hi THEN Right(sign * read.number, <<>>)
                ELSE Wrong("bounds", "einval")

ParseNumber(d, digits, sign, limit) ==
  IF digits = <<>> THEN Wrong(d.kind, "einval")
  ELSE NumberRead(d, ReadDigits(digits, limit), sign)

\* config_parse_text_value
Parse(d, text) ==
  LET negative == text # <<>> /\ Head(text) = Minus
      choices == {i \in DOMAIN d.choices : d.choices[i].name = text}
  IN CASE d.kind = "bool" ->
            IF text \in {True, False} THEN Right(IF text = True THEN 1 ELSE 0, <<>>)
            ELSE Wrong("bool", "einval")
       [] d.kind = "u64" -> ParseNumber(d, text, 1, MaxUnsigned)
       [] d.kind = "i64" -> IF negative THEN ParseNumber(d, Tail(text), -1, MaxSigned + 1)
                       ELSE ParseNumber(d, text, 1, MaxSigned)
       [] d.kind = "utf8" ->
            CASE text = <<>> /\ "empty" \notin d.flags -> Wrong("empty", "einval")
              [] Len(text) > d.hi -> Wrong("length", "einval")
              [] OTHER -> IF ~ Utf8Valid(text) THEN Wrong("utf8", "einval")
                          ELSE Right(0, text)
       [] OTHER -> IF choices = {} THEN Wrong("enum", "einval")
                   ELSE Right(d.choices[Min(choices)].value, <<>>)

\* config_find_descriptor, 0 for an unknown name.
Find(schema, namespace, name) ==
  LET named == {k \in DOMAIN schema : schema[k].names[namespace] = name}
  IN IF named = {} THEN 0 ELSE Min(named)

\* The key a record assigns to, 0 if it assigns to none.
KeyOf(schema, class, record) ==
  IF record.form = "assign" THEN Find(schema, class, record.name) ELSE 0

SeenBefore(schema, class, records, r, k) ==
  \E q \in 1 .. r - 1 : KeyOf(schema, class, records[q]) = k

RecordFailure(schema, class, records, r) ==
  LET record == records[r]
      k == Find(schema, class, record.name)
      Fail(code, key, status) == Failure(code, class, r - 1, key, status)
      Judged(parsed) == IF parsed.code = "none" THEN NoFailure
                        ELSE Fail(parsed.code, k, parsed.status)
  IN CASE record.form = "skip" -> NoFailure
       [] record.form = "control" -> Fail("nul", 0, "einval")
       [] record.form = "broken" -> Fail("syntax", 0, "einval")
       [] OTHER ->
            IF k = 0 THEN Fail("unknown", 0, "enoent")
            ELSE IF SeenBefore(schema, class, records, r, k) THEN Fail("duplicate", k, "einval")
                 ELSE Judged(Parse(schema[k], record.value))

\* config_validate_file and config_validate_vector
ValidateClass(schema, class, records) ==
  First([r \in DOMAIN records |-> RecordFailure(schema, class, records, r)])

ValidateSources(schema, sources) ==
  First([c \in 1 .. 3 |-> ValidateClass(schema, Classes[c], sources[Classes[c]])])
-----------------------------------------------------------------------------
(***************************************************************************)
(* Resolution                                                              *)
(***************************************************************************)
Absent == [present |-> FALSE, number |-> 0, text |-> <<>>, provenance |-> Nowhere]

Resolved(value, source, ordinal) ==
  [present |-> TRUE, number |-> value.number, text |-> value.text,
   provenance |-> [source |-> source, ordinal |-> ordinal]]

\* Mutant: an assignment does not override one of a lower class.
OverlayUnset(schema, class, records, k, resolution) ==
  LET Step(acc, r) ==
        IF /\ KeyOf(schema, class, records[r]) = k
           /\ acc.provenance.source \in {"none", "default"}
        THEN Resolved(Parse(schema[k], records[r].value), class, r - 1) ELSE acc
  IN FoldLeft(Step, resolution, [r \in DOMAIN records |-> r])

\* The records of one class over what the classes before resolved to.
Overlay(schema, class, records, k, resolution) ==
  LET Step(acc, r) ==
        IF KeyOf(schema, class, records[r]) = k
        THEN Resolved(Parse(schema[k], records[r].value), class, r - 1) ELSE acc
  IN FoldLeft(Step, resolution, [r \in DOMAIN records |-> r])

\* config_resolve_descriptor; the sources are valid by then.
Resolve(schema, sources, k) ==
  LET d == schema[k]
      initial == IF "default" \in d.flags
                 THEN Resolved(d.default, "default", k) ELSE Absent
  IN FoldLeft(LAMBDA acc, class : Overlay(schema, class, sources[class], k, acc),
              initial, Classes)

\* config_analyze
Analyze(schema, sources) ==
  First(<<ValidateSchema(schema), ValidateSources(schema, sources)>>
        \o [k \in DOMAIN schema |->
              IF Resolve(schema, sources, k).present THEN NoFailure
              ELSE Failure("required", "none", 0, k, "enoent")])

\* Text is copied for every descriptor that holds text.
Requirements(schema, sources) ==
  [count |-> Len(schema),
   persistent |-> FoldLeft(LAMBDA sum, k : sum + Len(Resolve(schema, sources, k).text), 0,
                           [k \in DOMAIN schema |-> k])]

\* What these compute, for every input of the caller.
Inputs == {s.input : s \in Scenarios} \union Replacements
Analysis == [i \in Inputs |-> Analyze(i.schema, i.sources)]
Needs == [i \in Inputs |-> Requirements(i.schema, i.sources)]
Resolution == [i \in Inputs |-> [k \in DOMAIN i.schema |-> Resolve(i.schema, i.sources, k)]]

\* What an input and the outputs are at all: a schema is of descriptors, every
\* source one of records, and an overlap is one of two regions of the same call,
\* of the diagnostic only where there is one.
IsText(text) == text \in Seq(Octets)

Descriptors ==
  [kind : STRING, flags : SUBSET {"required", "default", "empty"},
   default : [kind : STRING, number : Int, text : Seq(Octets)], lo : Int, hi : Int,
   choices : Seq([name : Seq(Octets), value : Int]), names : [Range(Namespaces) -> STRING]]

Records ==
  [form : {"assign", "skip", "control", "broken"}, name : STRING, value : Seq(Octets)]

IsInput(in) ==
  /\ in.schema \in Seq(Descriptors)
  /\ \A c \in Range(Classes) : in.sources[c] \in Seq(Records)

IsMemory(outputs) ==
  /\ {outputs.values, outputs.provenance, outputs.scratch, outputs.persistent} \subseteq Nat
  /\ \A pair \in outputs.overlaps :
       /\ \E a, b \in pair : a # b /\ pair = {a, b}
       /\ \/ pair \subseteq {"inputs", "requirements", "diagnostic"}
          \/ pair \subseteq {"inputs", "storage", "diagnostic"} \union Writables
       /\ "diagnostic" \in pair => outputs.diagnostic

WellTyped ==
  (\A s \in Scenarios : IsMemory(s.memory)) /\ \A in \in Inputs : IsInput(in)

ASSUME CallerAssumption == WellTyped
-----------------------------------------------------------------------------
(***************************************************************************)
(* The calls                                                               *)
(***************************************************************************)
Overlap(a, b) == a # b /\ {a, b} \in memory.overlaps

PublishDiagnostic(failure, writable) ==
  diagnostic' = IF failure # NoFailure /\ memory.diagnostic /\ writable
                THEN failure ELSE diagnostic

AliasFailure == Failure("alias", "none", 0, 0, "einval")

\* config_diagnostic_writable_for_measure_failure
MeasureDiagnosticFree ==
  \A region \in {"inputs", "requirements"} : ~ Overlap("diagnostic", region)

MeasureAliased ==
  \/ Overlap("requirements", "inputs")
  \/ memory.diagnostic /\ ~ MeasureDiagnosticFree

\* arbor_config_measure
Measure ==
  LET failure == First(<<Analysis[input], IF MeasureAliased THEN AliasFailure ELSE NoFailure>>)
  IN /\ op' = "measure" /\ outcome' = failure.status /\ promised' = failure.status
     /\ requirements' = IF failure = NoFailure THEN Needs[input] ELSE requirements
     /\ PublishDiagnostic(failure, MeasureDiagnosticFree)
     /\ UNCHANGED <<input, changes, memory, stored, from>>

\* config_diagnostic_writable_for_prepare_failure
PrepareDiagnosticFree ==
  \A region \in {"inputs", "storage"} \union Writables : ~ Overlap("diagnostic", region)

\* Mutant: the outputs are compared with each other only.
PrepareAliasedOutputs ==
  \/ \E w, region \in Writables : Overlap(w, region)
  \/ memory.diagnostic /\ ~ PrepareDiagnosticFree

\* config_prepare_ranges
PrepareAliased ==
  \/ \E w \in Writables, region \in {"inputs", "storage"} \union Writables : Overlap(w, region)
  \/ memory.diagnostic /\ ~ PrepareDiagnosticFree

\* Mutant: the scratch array is forgotten.
HasRoomButScratch(needed) ==
  /\ memory.values >= needed.count /\ memory.provenance >= needed.count
  /\ memory.persistent >= needed.persistent

HasRoom(needed) ==
  /\ memory.values >= needed.count /\ memory.provenance >= needed.count
  /\ memory.scratch >= needed.count /\ memory.persistent >= needed.persistent

PrepareFailure ==
  First(<<Analysis[input], IF PrepareAliased THEN AliasFailure ELSE NoFailure,
          IF HasRoom(Needs[input]) THEN NoFailure
          ELSE Failure("capacity", "none", 0, 0, "enospc")>>)

\* One turn of the loop of arbor_config_prepare: text goes to the next bytes.
Store(acc, k) ==
  LET kind == input.schema[k].kind
      resolution == Resolution[input][k]
      length == Len(resolution.text)
  IN [offset |-> acc.offset + length,
      persistent |-> [b \in DOMAIN acc.persistent |->
                        IF b \in acc.offset + 1 .. acc.offset + length
                        THEN resolution.text[b - acc.offset] ELSE acc.persistent[b]],
      values |-> [acc.values EXCEPT
                    ![k] = [kind |-> kind, number |-> resolution.number,
                            at |-> IF length = 0 THEN 0 ELSE acc.offset + 1,
                            length |-> length]],
      provenance |-> [acc.provenance EXCEPT ![k] = resolution.provenance]]

PublishResult(final) ==
  /\ values' = final.values /\ provenance' = final.provenance
  /\ persistent' = final.persistent
  /\ prepared' = [guard |-> TRUE, count |-> Len(input.schema), bytes |-> Needs[input].persistent]
  /\ from' = input

\* arbor_config_prepare
PrepareResult ==
  LET failure == PrepareFailure IN
  /\ op' = "prepare" /\ outcome' = failure.status
  /\ IF failure = NoFailure
     THEN PublishResult(FoldLeft(Store, [offset |-> 0, persistent |-> persistent,
                                         values |-> values, provenance |-> provenance],
                                 [k \in DOMAIN input.schema |-> k]))
     ELSE UNCHANGED <<stored, from>>
  /\ PublishDiagnostic(failure, PrepareDiagnosticFree)
  /\ UNCHANGED <<input, changes, memory, requirements, promised>>

\* The text a stored value points to.
TextOf(value) == SubSeq(persistent, value.at, value.at + value.length - 1)

\* arbor_config_validate: the texts must follow each other without a gap.
BytesBefore(k) == SumFunctionOnSet([j \in DOMAIN values |-> values[j].length], 1 .. k - 1)

StoredValid(schema, k) ==
  LET value == values[k]
  IN /\ Canonical(schema[k], value.kind, value.number, TextOf(value))
     /\ provenance[k].source # "none"
     /\ provenance[k].source = "default" => provenance[k].ordinal = k
     /\ value.length # 0 => /\ value.at = BytesBefore(k) + 1
                            /\ BytesBefore(k + 1) <= prepared.bytes

ValidateStatus(schema) ==
  IF /\ ValidateSchema(schema) = NoFailure
     /\ prepared.guard /\ prepared.count = Len(schema)
     /\ \A k \in DOMAIN schema : StoredValid(schema, k)
     /\ BytesBefore(Len(schema) + 1) = prepared.bytes
  THEN "ok" ELSE "einval"

Validate ==
  /\ op' = "validate" /\ outcome' = ValidateStatus(input.schema)
  /\ UNCHANGED <<input, changes, memory, requirements, stored, diagnostic, promised, from>>

\* The caller's schema and sources are its own; it changes them between calls.
Change ==
  /\ changes < MaxChanges
  /\ input' \in Replacements \ {input}
  /\ changes' = changes + 1 /\ op' = "none" /\ outcome' = "none" /\ promised' = "none"
  /\ UNCHANGED <<memory, requirements, stored, diagnostic, from>>

ConfigNext == Measure \/ PrepareResult \/ Validate \/ Change

ConfigSpec == ConfigInit /\ [][ConfigNext]_configVars
-----------------------------------------------------------------------------
(***************************************************************************)
(* Properties                                                              *)
(***************************************************************************)
\* What a text means, digit by place instead of digit by digit.
PlaceValue(digits) ==
  LET weight[i \in DOMAIN digits] == IF i = Len(digits) THEN 1 ELSE 10 * weight[i + 1]
  IN SumFunctionOnSet([i \in DOMAIN digits |-> digits[i] * weight[i]], DOMAIN digits)

NumberMeant(d, text) ==
  CASE d.kind = "bool" -> IF text = True THEN 1 ELSE 0
    [] d.kind = "utf8" -> 0
    [] d.kind = "enum" -> (CHOOSE c \in Range(d.choices) : c.name = text).value
    [] OTHER -> IF text[1] = Minus THEN - PlaceValue(Tail(text)) ELSE PlaceValue(text)

\* The assignments to key k in a class, and the classes that have one.
Assignments(in, class, k) ==
  {r \in DOMAIN in.sources[class] :
     /\ in.sources[class][r].form = "assign"
     /\ in.sources[class][r].name = in.schema[k].names[class]}

Assigning(in, k) == {c \in 1 .. 3 : Assignments(in, Classes[c], k) # {}}

HoldsValue(in, k, number, text, source, ordinal) ==
  /\ values[k].number = number /\ TextOf(values[k]) = text
  /\ provenance[k] = [source |-> source, ordinal |-> ordinal]

\* Unicode's table of well-formed byte sequences, and a text cut into them.
Trail == 128 .. 191
WellFormed ==
  << <<0 .. 127>>, <<194 .. 223, Trail>>, <<{224}, 160 .. 191, Trail>>,
     <<(225 .. 239) \ {237}, Trail, Trail>>, <<{237}, 128 .. 159, Trail>>,
     <<{240}, 144 .. 191, Trail, Trail>>, <<241 .. 243, Trail, Trail, Trail>>,
     <<{244}, 128 .. 143, Trail, Trail>> >>

IsCharacter(part) ==
  \E row \in Range(WellFormed) :
    Len(row) = Len(part) /\ \A i \in DOMAIN part : part[i] \in row[i]

IsUtf8(text) ==
  text = <<>> \/ \E ends \in SUBSET DOMAIN text :
    /\ Len(text) \in ends
    /\ \A e \in ends : IsCharacter(SubSeq(text, 1 + Max({0} \union {b \in ends : b < e}), e))

\* The result of the latest prepare holds, for every key, the value of the one
\* assignment in the highest class that has one (default < file < environment <
\* command line), read as the number its digits stand for, and says where that
\* assignment is; the classes below have at most one assignment each; and
\* arbor_config_validate accepts the result.  A text is refused for its bytes
\* only if they are not UTF-8, and what is published as text is.
PublishedIsResolved ==
  /\ op = "measure" /\ Analysis[input].code = "utf8" =>
       ~ IsUtf8(input.sources[Analysis[input].source][Analysis[input].record + 1].value)
  /\ prepared.guard =>
    /\ ValidateStatus(from.schema) = "ok"
    /\ \A k \in DOMAIN from.schema :
         LET d == from.schema[k]
             class == Classes[Max(Assigning(from, k))]
             r == CHOOSE r \in Assignments(from, class, k) : TRUE
             text == from.sources[class][r].value
         IN /\ \A c \in 1 .. 3 : Cardinality(Assignments(from, Classes[c], k)) <= 1
            /\ IsUtf8(TextOf(values[k]))
            /\ IF Assigning(from, k) = {}
               THEN HoldsValue(from, k, d.default.number, d.default.text, "default", k)
               ELSE HoldsValue(from, k, NumberMeant(d, text),
                               IF d.kind = "utf8" THEN text ELSE <<>>, class, r - 1)

\* What measure promised is what prepare does with the same input: it succeeds
\* exactly when every capacity is at least the measured one and nothing
\* overlaps, then uses no more than that, and otherwise fails as measure failed.
MeasureIsExact ==
  op = "prepare" /\ promised # "none" /\ memory.overlaps = {} =>
    IF promised = "ok"
    THEN /\ outcome = IF /\ memory.values >= requirements.count
                         /\ memory.provenance >= requirements.count
                         /\ memory.scratch >= requirements.count
                         /\ memory.persistent >= requirements.persistent
                      THEN "ok" ELSE "enospc"
         /\ outcome = "ok" =>
              /\ prepared = [guard |-> TRUE, count |-> requirements.count,
                             bytes |-> requirements.persistent]
              /\ \A k \in 1 .. prepared.count :
                   values[k].at + values[k].length <= prepared.bytes + 1
    ELSE outcome = promised

\* A call that fails writes none of its outputs, not even in part; a call that
\* succeeds leaves the diagnostic alone; nothing is written to an output that
\* shares memory with an input or another output, the diagnostic included.
FailureWritesNothing ==
  [][/\ outcome' # "ok" => UNCHANGED <<requirements, stored>>
     /\ outcome' = "ok" => UNCHANGED diagnostic
     /\ \A pair \in memory.overlaps :
          /\ "diagnostic" \in pair /\ (op' = "prepare" => "requirements" \notin pair)
             /\ (op' = "measure" => pair \ {"diagnostic"} \subseteq {"inputs", "requirements"}) =>
               UNCHANGED diagnostic
          /\ "requirements" \in pair => UNCHANGED requirements
          /\ pair \intersect Writables # {} /\ "requirements" \notin pair => UNCHANGED stored]_configVars
=============================================================================
