---------------------------- MODULE MCViewOutput ----------------------------
(***************************************************************************)
(* Templates of up to three fragments, prepared into little storage, twice *)
(* into the same; then an arena at an odd address, two outputs that may    *)
(* overlap in time, and templates that need less, as much as, and more     *)
(* than there is.                                                          *)
(***************************************************************************)
EXTENDS ViewOutput

MCFragments ==
  {<<"{", "{", "name", "}", "}">>, <<"{", "{", " ", "name", " ", "}", "}">>, <<"{", "{">>, <<"{">>,
   <<"}", "}">>, <<"{", "{", "b", "}", "}">>, <<"<", "b", ">">>, <<"<", "b", " ", "b", "'">>,
   <<"'", ">">>, <<"<", "/", "b", ">">>, <<"<", "!", "-", "-">>, <<"-", "-", ">">>,
   <<"<", "script", ">">>, <<"<", "/", "SCRIPT", ">">>, <<"<", "/", "script">>, <<"&", "b">>,
   <<";">>, <<"b">>, <<" ">>, <<"<", "svg", ">">>, <<"<", "plaintext", ">">>, <<"<">>, <<">">>,
   <<"7">>, <<"-">>, <<"/">>}

MCSymbols ==
  Punctuation \union Numerals
    \union {"", "a", "b", "g", "l", "m", "name", "p", "plaintext", "SCRIPT", "script", "svg", "t", "x"}

MCFields == <<<<"name">>, <<"x">>>>
MCText == <<"b", "{", "{", "name", "}", "}", "b">>
MCWrongFields == {<<>>, <<<<"x">>, <<"x">>>>, <<<<"7">>, <<"7">>>>, <<<<"x">>, <<"x">>, <<"7">>>>}

MCInputs ==
  {<<a \o b \o c, MCFields>> : a, b, c \in MCFragments} \union {<<MCText, f>> : f \in MCWrongFields}

MCAgain == {<<MCText, MCFields>>}

\* A placeholder wherever in HTML one can be written.
MCEverywhere ==
  {<<before \o <<"{", "{", "name", "}", "}">> \o after, MCFields>> :
     before \in {<<>>, <<"<", "b">>, <<"<", "b", " ">>, <<"<", "/", "b">>, <<"<", "!", "-", "-">>,
                <<"<", "script", ">">>, <<"<", "b", " ", "b", "'">>},
     after \in {<<>>, <<">">>, <<"'", ">">>, <<"-", "-", ">">>, <<"<", "/", "script", ">">>}}

MCTexts == {<<"b">>, <<"<">>}

Template(source, values) == [source |-> source, fields |-> MCFields, values |-> values]

MCServed ==
  <<Template(<<>>, <<<<>>, <<>>>>), Template(<<"{", "{", "name", "}", "}", "b">>, <<<<"<">>, <<>>>>),
    Template(<<"-", "{", "{", "x", "}", "}">>, <<<<>>, <<"b", "b">>>>),
    Template(<<"{", "{", "x", "}", "}", "{", "{", "name", "}", "}">>, <<<<"&">>, <<>>>>),
    Template(<<"{", "{", "x", "}", "}", "b">>, <<<<>>, <<"b", ">">>>>),
    Template(<<"b">>, <<<<"b">>>>)>>

MCSymmetry == Permutations(Outputs)

\* What a state is to the steps that follow: not the last call, which only the
\* step that made it is judged by, nor bytes and fields that nobody may read.
MCView ==
  LET Known(o) == IF o \in Active THEN <<outputs[o], drafts[o]>> ELSE <<>>
  IN IF serving # <<>>
     THEN <<offset, [b \in 1 .. offset |-> memory[b]], [o \in Outputs |-> Known(o)], chunks, bodies>>
     ELSE <<storage, template, input>>
=============================================================================
