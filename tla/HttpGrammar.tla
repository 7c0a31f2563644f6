---------------------------- MODULE HttpGrammar ----------------------------
(***************************************************************************)
(* The same texts said without a scanner, as the grammars of HTTP/1.1 and  *)
(* of URIs say them, within what the library supports.  A text is good     *)
(* when it can be taken apart the way its rule is written.                 *)
(***************************************************************************)
EXTENDS HttpFields

Part(text, from, to) == SubSeq(text, from, to)

Is(text, rule) == text # <<>> /\ OnlyOf(text, rule)
-----------------------------------------------------------------------------
(***************************************************************************)
(* Host = uri-host [ ":" port ]                                            *)
(***************************************************************************)
GoodRegName(text) ==
  LET escape(i) == /\ text[i] = "%" /\ i + 2 <= Len(text)
                   /\ OnlyOf(Part(text, i + 1, i + 2), HexDigits)
  IN text # <<>> /\ \A i \in DOMAIN text : text[i] \in UriPlain \/ escape(i)

Octets == {<<Digit[a + 1]>> : a \in 0 .. 9}
          \union {<<Digit[a + 1], Digit[b + 1]>> : a \in 1 .. 9, b \in 0 .. 9}
          \union {<<"1", Digit[a + 1], Digit[b + 1]>> : a \in 0 .. 9, b \in 0 .. 9}
          \union {<<"2", Digit[a + 1], Digit[b + 1]>> : a \in 0 .. 4, b \in 0 .. 9}
          \union {<<"2", "5", Digit[a + 1]>> : a \in 0 .. 5}

GoodIpv4(text) ==
  LET dots == {i \in DOMAIN text : text[i] = "."}
      ends == {i \in 1 .. Len(text) + 1 : i = Len(text) + 1 \/ i \in dots}
      before(i) == Max({0} \union {j \in dots : j < i})
  IN Cardinality(dots) = 3 /\ \A i \in ends : Part(text, before(i) + 1, i - 1) \in Octets

\* Groups of four digits at most, between colons; an IPv4 address may stand
\* for the last two.
Groups(text, mayEndInIpv4) ==
  LET parts == Pieces(text, ":")
      last == parts[Len(parts)]
      hex(part) == Len(part) \in 1 .. 4 /\ OnlyOf(part, HexDigits)
  IN CASE text = <<>> -> 0
       [] text # <<>> /\ (\A k \in DOMAIN parts : hex(parts[k])) -> Len(parts)
       [] OTHER -> IF mayEndInIpv4 /\ GoodIpv4(last)
                      /\ \A k \in 1 .. Len(parts) - 1 : hex(parts[k])
                   THEN Len(parts) + 1 ELSE 99

GoodIpv6(text) ==
  \/ text # <<>> /\ Groups(text, TRUE) = 8
  \/ \E i \in 1 .. Len(text) - 1 :
       /\ Part(text, i, i + 1) = <<":", ":">>
       /\ Groups(Part(text, 1, i - 1), FALSE) + Groups(Part(text, i + 2, Len(text)), TRUE) <= 7

GoodIpvFuture(text) ==
  \E i \in 3 .. Len(text) - 1 :
    /\ text[1] = "v" /\ text[i] = "."
    /\ Is(Part(text, 2, i - 1), HexDigits)
    /\ Is(Part(text, i + 1, Len(text)), UriPlain \union {":"})

GoodHost(text) ==
  \E n \in 1 .. Len(text) :
    LET host == Part(text, 1, n)
        inner == Part(text, 2, n - 1)
    IN /\ \/ GoodRegName(host)
          \/ host[1] = "[" /\ host[n] = "]" /\ (GoodIpv6(inner) \/ GoodIpvFuture(inner))
       /\ n < Len(text) => text[n + 1] = ":" /\ OnlyOf(Part(text, n + 2, Len(text)), Digits)
-----------------------------------------------------------------------------
(***************************************************************************)
(* Connection = #( connection-option )                                     *)
(***************************************************************************)
Options(value) == {Trim(Pieces(value, ",")[k]) : k \in DOMAIN Pieces(value, ",")}

GoodConnection(value) == \A option \in Options(value) : OnlyOf(option, TokenBytes)

AsksToClose(value) == \E option \in Options(value) : IsWord(option, "close")
-----------------------------------------------------------------------------
(***************************************************************************)
(* A head: lines that end with CRLF, up to an empty one                    *)
(***************************************************************************)
Pairs(text) == {i \in 1 .. Len(text) - 1 : Part(text, i, i + 1) = Crlf}

\* Where the empty line is, Len(text) + 1 while there is none.
HeadEnd(text) ==
  LET pairs == Pairs(text) IN Min({i \in pairs : i - 2 \in pairs} \union {Len(text) + 1})

\* The start of each whole line of the head.
Lines(text) ==
  LET pairs == Pairs(text)
      end == HeadEnd(text)
  IN {s \in {1} \union {i + 2 : i \in pairs} : s < end /\ \E i \in pairs : i >= s}

Line(text, s) == Part(text, s, Min({i \in Pairs(text) : i >= s}) - 1)

\* A line end in the head that is not CRLF.  The last byte may yet become one.
Strayed(text) ==
  \E i \in 1 .. Min({HeadEnd(text), Len(text)}) :
    \/ text[i] = "lf" /\ (i = 1 \/ text[i - 1] # "cr")
    \/ text[i] = "cr" /\ i < Len(text) /\ text[i + 1] # "lf"

GoodRequestLine(line) ==
  \E i, j \in DOMAIN line :
    /\ i < j /\ line[i] = " " /\ Part(line, j, Len(line)) = <<" ", "HTTP/1.1">>
    /\ Is(Part(line, 1, i - 1), TokenBytes) /\ Is(Part(line, i + 1, j - 1), VisibleBytes)

\* origin-form, or asterisk-form
GoodTarget(line) ==
  \E i \in DOMAIN line :
    /\ line[i] = " " /\ " " \notin Range(Part(line, 1, i - 1))
    /\ line[i + 1] = "/" \/ Part(line, i + 1, i + 2) = <<"*", " ">>

NameOf(line) == Part(line, 1, FirstOf(line, 1, {":"}) - 1)
ValueOf(line) == Trim(Part(line, FirstOf(line, 1, {":"}) + 1, Len(line)))

GoodFieldLine(line) ==
  /\ ":" \in Range(line) /\ Is(NameOf(line), TokenBytes) /\ OnlyOf(ValueOf(line), ValueBytes)
  /\ ~IsWord(NameOf(line), "transfer-encoding")

LengthLines(text) ==
  {s \in Lines(text) \ {1} : IsWord(NameOf(Line(text, s)), "content-length")}

GoodLength(value) == Is(value, Digits) /\ ParseU64(value) >= 0

GoodSoFar(text) ==
  LET lines == Lines(text)
      lengths == LengthLines(text)
  IN /\ 1 \in lines => GoodRequestLine(Line(text, 1))
     /\ \A s \in lines \ {1} : GoodFieldLine(Line(text, s))
     /\ Cardinality(lengths) <= 1
     /\ \A s \in lengths : GoodLength(ValueOf(Line(text, s)))

BodyLength(text) ==
  LET lengths == LengthLines(text)
  IN IF lengths = {} THEN 0 ELSE ParseU64(ValueOf(Line(text, CHOOSE s \in lengths : TRUE)))

\* The head and the body have arrived.
Whole(text) ==
  HeadEnd(text) <= Len(text) /\ HeadEnd(text) + 1 + BodyLength(text) <= Len(text)

\* The fields of a whole head, in order.
HeadFields(text) ==
  LET lines == Lines(text) \ {1}
      starts == SelectSeq([i \in DOMAIN text |-> i], LAMBDA i : i \in lines)
      field(line) == [name |-> NameOf(line), value |-> ValueOf(line)]
  IN FoldLeft(LAMBDA all, s : Append(all, field(Line(text, s))), <<>>, starts)

ValuesOf(fields, word) ==
  {fields[k].value : k \in {k \in DOMAIN fields : IsWord(fields[k].name, word)}}
-----------------------------------------------------------------------------
(***************************************************************************)
(* A response, as a client takes it from the connection                    *)
(***************************************************************************)
StatusOf(wire) ==
  100 * DigitValue(wire[3]) + 10 * DigitValue(wire[4]) + DigitValue(wire[5])

\* RFC 9112, 6.3: no body after HEAD, or with 204 and 304; else as long as
\* Content-Length says, and without one up to the end of the connection.
BodyEnd(method, wire) ==
  CASE method = <<"HEAD">> \/ StatusOf(wire) \in {204, 304} -> HeadEnd(wire) + 1
    [] OTHER -> IF LengthLines(wire) = {} THEN MaxU64
                ELSE HeadEnd(wire) + 1 + BodyLength(wire)

ClientBody(method, wire) == Part(wire, HeadEnd(wire) + 2, BodyEnd(method, wire))
=============================================================================
