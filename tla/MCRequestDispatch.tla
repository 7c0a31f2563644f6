------------------------- MODULE MCRequestDispatch -------------------------
(***************************************************************************)
(* Three middlewares (both callbacks, only before, only after), one or two *)
(* routes of a few patterns that overlap, paths that fit one, both or      *)
(* none; response fields where one middleware is around the controller,    *)
(* and there a second request with the leavings of the first; the texts of *)
(* every kind below, to applications that answer them without a callback.  *)
(***************************************************************************)
EXTENDS RequestDispatch

Middlewares(last) ==
  << [before |-> TRUE, after |-> TRUE], [before |-> TRUE, after |-> last],
     [before |-> FALSE, after |-> TRUE] >>

Route(method, pattern, list) == [method |-> <<method>>, pattern |-> pattern, list |-> list]

\* Routing: overlapping, parameterized, ill-formed and duplicate patterns.
a == <<"a">>  x == <<":x">>  y == <<":y">>

Patterns == {<<>>, << <<>> >>, <<a>>, <<x>>, << <<":">> >>, <<a, <<>> >>, <<a, x>>, <<x, y>>}

RoutingCatalogs ==
  {[routes |-> <<Route(m, p, <<1>>), Route("GET", q, <<>>)>>, middlewares |-> Middlewares(FALSE)] :
     m \in {"GET", "CONNECT"}, p \in Patterns, q \in Patterns}

\* Middleware: every order of what a route may list, and lists it may not.
Lists == {<<>>, <<1>>, <<2, 1>>, <<1, 2, 3>>, <<3, 1, 2>>, <<3, 3>>, <<4>>}

ListCatalogs ==
  {[routes |-> <<Route("GET", <<a>>, l)>>, middlewares |-> ms] :
     l \in Lists, ms \in {Middlewares(FALSE), Middlewares(TRUE),
                          <<[before |-> FALSE, after |-> FALSE]>>}}

FieldCatalog == [routes |-> <<Route("GET", <<a>>, <<1>>)>>, middlewares |-> Middlewares(TRUE)]

\* Applications without routes, one for each kind of text they are sent.
NoRoutes(kind) ==
  [routes |-> <<>>, middlewares |-> [m \in 1 .. kind |-> [before |-> TRUE, after |-> TRUE]]]

Kinds == 1 .. 22

\* One middleware, to answer with every plan and method.
AnswerCatalog ==
  [routes |-> <<Route("HEAD", <<a>>, <<>>), Route("GET", <<a>>, <<>>)>>, middlewares |-> <<>>]

MCCatalogs ==
  RoutingCatalogs \union ListCatalogs \union {AnswerCatalog} \union {NoRoutes(k) : k \in Kinds}

MCMaxAppends == [c \in MCCatalogs |-> CASE c = FieldCatalog -> 3
                                        [] c = AnswerCatalog -> 1 [] OTHER -> 0]
MCMaxRequests == [c \in MCCatalogs |-> IF c = FieldCatalog THEN 2 ELSE 1]

MCParameters == {x, y}
MCBadNames == {<<":">>}
-----------------------------------------------------------------------------
(***************************************************************************)
(* Texts                                                                   *)
(***************************************************************************)
FieldText(name, value) == <<name, ":", " ">> \o value \o Crlf

Message(method, target, lines) ==
  <<method, " ">> \o target \o <<" ", "HTTP/1.1">> \o Crlf \o lines \o Crlf

HostLine == FieldText("Host", a)

Request(method, target) == Message(method, target, HostLine)

MCRouted ==
  {Request("GET", target) :
     target \in {<<"*">>, <<"/">>, <<"/", "a">>, <<"/", "a", "?", "/">>, <<"/", "a", "/">>,
                 <<"/", "a", "/", "f">>, <<"/", "#">>}}
  \union {Request("CONNECT", <<"/", "a">>), Message("GET", <<"/", "a">>, <<>>),
          Message("GET", <<"/", "a">>, HostLine \o FieldText("Connection", <<"Close">>)),
          Message("GET", <<"/", "a">>, HostLine \o FieldText("connection", <<";">>))}

Answered ==
  {Message(method, <<"/", "a">>, HostLine \o line) :
     method \in {"GET", "HEAD"}, line \in {<<>>, FieldText("Connection", <<"close">>)}}

Upto(set, n) == UNION {[1 .. k -> set] : k \in 0 .. n}

\* Request lines of a few pieces.
RequestLines(n) ==
  {text \o Crlf \o HostLine \o Crlf :
     text \in [1 .. n -> {"GET", " ", "/", "HTTP/1.1", "ctl"}]}

Blocks == {Crlf, <<"cr">>, <<"lf">>, <<"X">>, <<":">>, <<" ">>, <<"ctl">>, HostLine,
           FieldText("Content-Length", <<"1">>), FieldText("transfer-encoding", a)}

\* What may follow the request line: lines, parts of lines and their ends.
Framings(n) ==
  {<<"GET", " ", "/", " ", "HTTP/1.1">> \o Crlf \o FlattenSeq(blocks) :
     blocks \in [1 .. n -> Blocks]}

\* Lengths around what has arrived and around the largest number.
Lengths ==
  {Message("GET", <<"/">>, HostLine \o FieldText("content-length", length)) \o body :
     length \in Upto({"0", "1", "9", "a"}, 3), body \in {<<>>, a, <<"a", "GET">>}}

\* Host: short texts, then addresses by their groups.
HostBytes == {"f", "1", ":", ".", "[", "]", "%", "v", "/"}

Groups16 == {<<>>, <<"f">>, <<"f", "1", "F", "0">>, <<"f", "f", "f", "f", "f">>}

Run16(n) == FlattenSeq([k \in 1 .. n |-> IF k = 1 THEN <<"f">> ELSE <<":", "1">>])

Tails == {<<>>, <<"1", ".", "2", ".", "5", ".", "0">>, <<"1", ".", "2", ".", "5">>}

Addresses ==
  {Run16(n) \o middle \o Run16(m) \o joint \o tail :
     n \in 0 .. 8, middle \in {<<>>, <<":">>, <<":", ":">>}, m \in 0 .. 8,
     joint \in {<<>>, <<":">>}, tail \in Tails}

Octet4(octet) == <<":", ":", "1", ".">> \o octet \o <<".", "0", ".", "0">>

Hosts ==
  << {<<>>}, [1 .. 1 -> HostBytes], [1 .. 2 -> HostBytes], [1 .. 3 -> HostBytes],
     {<<"[">> \o address \o <<"]">> : address \in Addresses},
     {<<"[">> \o Octet4(octet) \o <<"]">> : octet \in Upto({"0", "1", "2", "5", "6", "f"}, 3)},
     {<<"[", ":">> \o group \o <<":", ":">> \o other \o <<"]">> \o port :
        group \in Groups16, other \in Groups16,
        port \in {<<>>, <<":">>, <<":", "8", "0">>, <<":", "f">>, <<"8">>}},
     {<<"[", "v">> \o text \o <<"]">> : text \in Upto({"f", "v", ".", ":", "!"}, 4)} >>

Connection1 ==
  {Message("GET", <<"/">>, HostLine \o FieldText("Connection", value)) :
     value \in Upto({"close", "keep-alive", ",", " ", "tab", ";"}, 3)}

Connection2 ==
  {Message("GET", <<"/">>, FieldText("connection", one) \o HostLine \o FieldText("Connection", two)) :
     one \in {<<"Close">>, <<"keep-alive">>, <<";">>}, two \in {<<"close">>, <<";">>, <<>>}}

Texts ==
  [n \in 1 .. 4 |-> Framings(n - 1)] \o [n \in 1 .. 6 |-> RequestLines(n - 1)]
  \o <<Lengths, Connection1, Connection2, {Message("GET", <<"/">>, HostLine \o HostLine)}>>
  \o [k \in DOMAIN Hosts |-> {Message("GET", <<"/">>, FieldText("Host", host)) : host \in Hosts[k]}]

ASSUME KindsAssumption == DOMAIN Texts = Kinds

MCTraffic == [c \in MCCatalogs |-> CASE c = AnswerCatalog -> Answered
                                     [] c = FieldCatalog -> {Request("GET", <<"/", "a">>)}
                                     [] c.routes = <<>> -> Texts[Len(c.middlewares)]
                                     [] OTHER -> MCRouted]

Line1(name, value) == [name |-> name, value |-> value]

MCFieldLines ==
  {Line1(<<"X">>, <<" ", "a">>), Line1(<<"X", "-", "a">>, <<>>),
   Line1(<<"Content-Length">>, <<"1">>), Line1(<<"X">>, Crlf), Line1(<<>>, a)}

Plan(status, body, keepAlive) == [status |-> status, body |-> body, keepAlive |-> keepAlive]

Routine == {Plan(200, a, TRUE), Plan(404, <<>>, FALSE), Plan(204, a, TRUE)}

MCPlans ==
  [c \in MCCatalogs |->
     CASE c = AnswerCatalog ->
            Routine \union {Plan(200, [k \in 1 .. 12 |-> "obs"], TRUE), Plan(204, <<>>, TRUE),
                            Plan(304, <<>>, TRUE), Plan(205, <<>>, TRUE)}
       [] c = FieldCatalog -> {Plan(200, a, TRUE), Plan(304, <<>>, FALSE)}
       [] OTHER -> Routine]
=============================================================================
