-------------------------- MODULE MCConfiguration --------------------------
(***************************************************************************)
(* Small schemas whose names cross between the classes, every file of up   *)
(* to two records over short vectors, every short text of a number, and    *)
(* schemas with one thing wrong; outputs of every size around the measured *)
(* one, and outputs that overlap.                                          *)
(***************************************************************************)
EXTENDS Configuration

Names(key, file, environment, command) ==
  [key |-> key, file |-> file, environment |-> environment, command_line |-> command]

Value(kind, number, text) == [kind |-> kind, number |-> number, text |-> text]

Descriptor(kind, flags, default, lo, hi, choices, names) ==
  [kind |-> kind, flags |-> flags, default |-> default, lo |-> lo, hi |-> hi,
   choices |-> choices, names |-> names]

L == Letter

Limit == Descriptor("u64", {"default"}, Value("u64", 7, <<>>), 0, 12, <<>>,
                    Names("x", "a", "b", "a"))
Title == Descriptor("utf8", {"required"}, NoValue, 0, 2, <<>>, Names("y", "b", "a", "b"))
Motto == Descriptor("utf8", {"default", "empty"}, Value("utf8", 0, <<L>>), 0, 2, <<>>,
                    Names("z", "c", "c", "c"))
Mode == Descriptor("enum", {"default"}, Value("enum", -1, <<>>), 0, 0,
                   <<[name |-> <<L>>, value |-> -1], [name |-> <<1>>, value |-> 4]>>,
                   Names("w", "d", "d", "d"))
Switch == Descriptor("bool", {"required"}, NoValue, 0, 0, <<>>, Names("v", "e", "e", "e"))

Unsigned == Descriptor("u64", {"default"}, Value("u64", 0, <<>>), 0, 60, <<>>,
                       Names("x", "a", "a", "a"))
Signed == Descriptor("i64", {"default"}, Value("i64", -32, <<>>), -32, 30, <<>>,
                     Names("x", "a", "a", "a"))

Assign(name, value) == [form |-> "assign", name |-> name, value |-> value]
Skip == [form |-> "skip", name |-> "", value |-> <<>>]
Control == [form |-> "control", name |-> "", value |-> <<>>]
Broken == [form |-> "broken", name |-> "", value |-> <<>>]

UpTo(n, S) == UNION {[1 .. m -> S] : m \in 0 .. n}

Given(file, environment, command) ==
  [file |-> file, environment |-> environment, command_line |-> command]

In(schema, sources) == [schema |-> schema, sources |-> sources]

\* A number and a text, the names of one class being those of another key in the next.
Layered ==
  {In(<<Limit, Title>>, Given(f, e, c)) :
     f \in UpTo(2, {Assign("a", <<1, 2>>), Assign("a", <<9, 9>>), Assign("b", <<L>>),
                    Assign("b", <<L, L, L>>), Assign("c", <<1>>), Skip, Broken}),
     e \in UpTo(1, {Assign("a", <<L, L>>), Assign("b", <<9>>), Assign("a", <<255>>),
                    Control})
           \union {<<Assign("b", <<1>>), Assign("b", <<1>>)>>},
     c \in UpTo(1, {Assign("a", <<0, 3>>), Assign("b", <<L>>), Assign("b", <<>>)})}

\* Two texts and the other kinds: what is copied, and in which order.
Packed ==
  {In(<<Motto, Mode, Title, Switch>>,
      Given(<<Assign("b", t), Assign("e", b)>>, e, c)) :
     t \in {<<L>>, <<L, L>>}, b \in {True, False, <<L>>},
     e \in UpTo(1, {Assign("c", <<>>), Assign("c", <<L, L>>), Assign("d", <<1>>)}),
     c \in UpTo(1, {Assign("c", <<1>>), Assign("d", <<L>>), Assign("d", <<2>>),
                    Assign("e", True)})}

Texts == UpTo(3, {0, 3, 6, 9, Minus, L})

Numbers ==
  {In(<<d>>, Given(<<>>, <<>>, <<Assign("a", t)>>)) : d \in {Unsigned, Signed}, t \in Texts}

\* Texts of up to four bytes, those at the bounds of every range of UTF-8.
Bytes == {L, 128, 143, 144, 159, 160, 191, 193, 194, 224, 237, 239, 240, 244, 245, 255}
ByteTexts ==
  UpTo(2, Bytes) \union {<<a, b, c>> : a, b \in Bytes, c \in {L, 128, 191, 194}}
  \union {<<a, b, c, d>> : a \in {240, 241, 244, 245}, b \in Bytes, c \in {L, 128, 191},
                          d \in {L, 128}}

Encoded ==
  {In(<<[Title EXCEPT !.hi = 4]>>, Given(<<>>, <<>>, <<Assign("b", t)>>)) : t \in ByteTexts}

\* One thing wrong with the schema.
IllFormed ==
  {In(schema, Given(<<Assign("b", <<L>>)>>, <<>>, <<>>)) : schema \in
     { <<[Limit EXCEPT !.flags = {}], Title>>,
       <<[Limit EXCEPT !.flags = {"default", "required"}], Title>>,
       <<[Limit EXCEPT !.flags = {"default", "empty"}], Title>>,
       <<[Limit EXCEPT !.kind = "other"], Title>>,
       <<[Limit EXCEPT !.names.file = ""], Title>>,
       <<Limit, [Title EXCEPT !.names.environment = "b"]>>,
       <<[Limit EXCEPT !.lo = 13], Title>>,
       <<[Limit EXCEPT !.hi = 6], Title>>,
       <<[Mode EXCEPT !.choices = <<>>], Title>>,
       <<[Mode EXCEPT !.choices[2].name = <<L>>], Title>>,
       <<[Mode EXCEPT !.choices[2].value = -1], Title>>,
       <<[Mode EXCEPT !.choices[1].name = <<>>], Title>>,
       <<[Motto EXCEPT !.default.text = <<>>, !.flags = {"default"}], Title>>,
       <<[Switch EXCEPT !.lo = 1], Title>>,
       <<Limit, [Title EXCEPT !.default = Motto.default]>>,
       <<>> }}


\* One that is accepted with less text, one with more, and one that is refused.
MCReplacements ==
  {In(<<Limit, Title>>, Given(<<>>, <<Assign("a", <<L, L>>)>>, <<Assign("b", <<L>>)>>)),
   In(<<Motto, Mode, Title, Switch>>,
      Given(<<Assign("b", <<L, L>>), Assign("e", False)>>, <<Assign("c", <<L, L>>)>>, <<>>)),
   In(<<Limit, Title>>, Given(<<Skip, Broken>>, <<>>, <<>>))}

Memory(v, p, s, t, overlaps, supplied) ==
  [values |-> v, provenance |-> p, scratch |-> s, persistent |-> t,
   overlaps |-> overlaps, diagnostic |-> supplied]

Ample == Memory(4, 4, 4, 4, {}, TRUE)

Memories ==
  {Ample, Memory(4, 4, 4, 4, {}, FALSE), Memory(2, 2, 2, 1, {}, TRUE), Memory(1, 2, 2, 2, {}, TRUE),
   Memory(2, 1, 4, 3, {}, TRUE), Memory(2, 2, 1, 2, {}, TRUE)}
  \union {Memory(4, 4, 4, 4, {pair}, TRUE) : pair \in
     {{"diagnostic", "inputs"}, {"diagnostic", "values"}, {"diagnostic", "storage"},
      {"diagnostic", "requirements"}, {"persistent", "inputs"}, {"values", "provenance"},
      {"result", "storage"}, {"requirements", "inputs"}}}

Nothing == In(<<>>, Given(<<>>, <<>>, <<>>))

\* Every input with room enough; every memory with a few inputs.
MCScenarios ==
  {[input |-> i, memory |-> Ample] : i \in Layered \union Packed \union Numbers
                                                  \union Encoded \union IllFormed}
  \union {[input |-> i, memory |-> m] : i \in Packed \union IllFormed \union MCReplacements \union {Nothing},
                                       m \in Memories}

MCBadNames == {""}
=============================================================================
