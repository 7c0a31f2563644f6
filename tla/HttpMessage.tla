---------------------------- MODULE HttpMessage ----------------------------
(***************************************************************************)
(* A request as bytes: what http_frame_scan and http_parse_request (src/   *)
(* asm/http_parser.asm) make of what has arrived, how the fields of a      *)
(* parsed head are walked (http_header.asm, http.c), and what http.c reads *)
(* from the fields Host and Connection.                                    *)
(*                                                                         *)
(* Text is a sequence of lexemes.  A lexeme is one byte, or a word whose   *)
(* bytes no scanner tells apart ("GET", "close"); every length counts      *)
(* lexemes.  "cr", "lf", "tab" are those bytes, "ctl" any other control or *)
(* DEL, "obs" a byte above 127.                                            *)
(***************************************************************************)
EXTENDS Integers, Sequences, SequencesExt, FiniteSetsExt

CONSTANT MaxU64     \* stands for UINT64_MAX

Digit == <<"0", "1", "2", "3", "4", "5", "6", "7", "8", "9">>
Digits == Range(Digit)
HexDigits == Digits \union {"f", "F"}
Words == {"GET", "HEAD", "CONNECT", "host", "Host", "connection", "Connection", "close",
          "Close", "keep-alive", "content-length", "Content-Length", "transfer-encoding",
          "Transfer-Encoding", "upgrade", "trailer", "X"}
Letters == Words \union {"f", "F", "v", "a"}
TokenBytes == Digits \union Letters \union {"%", "-", ".", "!", "*"}
\* 0x21 to 0x7e
VisibleBytes == TokenBytes \union {":", "/", "?", "#", "[", "]", ",", ";", "@", "HTTP/1.1"}
White == {" ", "tab"}
ValueBytes == VisibleBytes \union White \union {"obs"}

Crlf == <<"cr", "lf">>

\* bytes_equal_ascii_ci, span_equal_literal_ci: words of one spelling.
Lower(c) == CASE c = "Host" -> "host"                     [] c = "Close" -> "close"
              [] c = "Connection" -> "connection"         [] c = "F" -> "f"
              [] c = "Content-Length" -> "content-length"
              [] c = "Transfer-Encoding" -> "transfer-encoding"
              [] OTHER -> c

IsWord(text, word) == Len(text) = 1 /\ Lower(text[1]) = word

OnlyOf(text, bytes) == Range(text) \subseteq bytes

\* Len(text) + 1 when there is none.
FirstOf(text, from, bytes) ==
  Min({i \in from .. Len(text) : text[i] \in bytes} \union {Len(text) + 1})

Trim(text) ==
  LET kept == {i \in DOMAIN text : text[i] \notin White}
  IN IF kept = {} THEN <<>> ELSE SubSeq(text, Min(kept), Max(kept))

Pieces(text, mark) ==
  FoldLeft(LAMBDA all, c : IF c = mark THEN Append(all, <<>>)
                           ELSE [all EXCEPT ![Len(all)] = Append(@, c)],
           << <<>> >>, text)

DigitValue(c) == (CHOOSE i \in DOMAIN Digit : Digit[i] = c) - 1

Einval == -22
Eoverflow == -75

\* bytes_parse_u64_decimal: the first byte that does not fit decides.
ParseU64(text) ==
  FoldLeft(LAMBDA n, c : CASE n < 0 -> n
                           [] n >= 0 /\ c \notin Digits -> Einval
                           [] OTHER -> IF 10 * n + DigitValue(c) > MaxU64 THEN Eoverflow
                                       ELSE 10 * n + DigitValue(c),
           IF text = <<>> THEN Einval ELSE 0, text)
-----------------------------------------------------------------------------
(***************************************************************************)
(* Framing, resumed at the frontier as bytes arrive                        *)
(***************************************************************************)
\* One turn of the loop of http_frame_scan.
FrameStep(text, s) ==
  LET i == s.at
      next(k) == IF i + k <= Len(text) THEN text[i + k] ELSE "none"
  IN CASE next(0) = "none" -> s
       [] next(0) = "lf" \/ (next(0) = "cr" /\ next(1) \notin {"lf", "none"}) ->
            [s EXCEPT !.verdict = "einval"]
       [] next(0) = "cr" /\ next(1) = "none" -> s
       [] next(0) = "cr" /\ next(1) = "lf" ->
            [at |-> i + 2,
             verdict |-> IF i > 2 /\ SubSeq(text, i - 2, i - 1) = Crlf THEN "end" ELSE "again"]
       [] OTHER -> [s EXCEPT !.at = i + 1]

FrameScan(text, frontier) ==
  FoldLeft(LAMBDA s, c : IF s.verdict = "again" THEN FrameStep(text, s) ELSE s,
           [at |-> frontier, verdict |-> "again"], text)
-----------------------------------------------------------------------------
(***************************************************************************)
(* http_parse_request                                                      *)
(***************************************************************************)
\* strict_crlf: 0 for a line that has not ended yet.
LineEnd(text, from) ==
  LET pairs == {i \in from .. Len(text) - 1 : text[i] = "cr" /\ text[i + 1] = "lf"}
      line == from .. (IF pairs = {} THEN Len(text) ELSE Min(pairs) - 1)
      stray == {i \in line : text[i] = "lf" \/ (text[i] = "cr" /\ i < Len(text))}
  IN IF stray # {} THEN Einval ELSE IF pairs = {} THEN 0 ELSE Min(pairs)

\* The two spaces of a request line, and what must be around them.
RequestLine(line) ==
  LET first == FirstOf(line, 1, {" "})
      second == FirstOf(line, first + 1, {" "})
      method == SubSeq(line, 1, first - 1)
      target == SubSeq(line, first + 1, second - 1)
  IN [valid |-> /\ second <= Len(line) /\ method # <<>> /\ target # <<>>
                /\ OnlyOf(method, TokenBytes) /\ OnlyOf(target, VisibleBytes)
                /\ SubSeq(line, second + 1, Len(line)) = <<"HTTP/1.1">>,
      method |-> method, target |-> target]

FieldLine(line) ==
  LET colon == FirstOf(line, 1, {":"})
      name == SubSeq(line, 1, colon - 1)
      value == SubSeq(line, colon + 1, Len(line))
  IN [valid |-> /\ colon <= Len(line) /\ name # <<>>
                /\ OnlyOf(name, TokenBytes) /\ OnlyOf(value, ValueBytes),
      name |-> name, value |-> Trim(value)]

Unparsed == [status |-> "again", method |-> <<>>, target |-> <<>>, headers |-> <<>>,
             body |-> 0, available |-> 0, length |-> 0, message |-> 0, needed |-> 0]

Give(status) == [Unparsed EXCEPT !.status = status]

\* The frame is known as soon as the head is complete.
HeadComplete(text, p, start) ==
  LET available == Len(text) - (p.at + 1)
      length == IF p.length < 0 THEN 0 ELSE p.length
      needed == p.at + 1 + length
  IN CASE length > available ->
            [Unparsed EXCEPT !.needed = IF needed > MaxU64 THEN MaxU64 ELSE needed]
       [] OTHER -> [p.request EXCEPT !.status = "ok", !.headers = SubSeq(text, start, p.at - 1),
                      !.body = p.at + 2, !.available = available, !.length = length,
                      !.message = needed, !.needed = needed]

\* Mutant: a second Content-Length replaces the first.
ParsedLastLength(text, p, end, field) ==
  LET length == ParseU64(field.value)
      isLength == IsWord(field.name, "content-length")
  IN IF ~field.valid \/ IsWord(field.name, "transfer-encoding") \/ (isLength /\ length < 0)
     THEN [p EXCEPT !.request = Give(IF length = Eoverflow THEN "eoverflow" ELSE "einval")]
     ELSE [p EXCEPT !.at = end + 2, !.length = IF isLength THEN length ELSE @]

ParsedField(text, p, end, field) ==
  LET length == ParseU64(field.value)
      isLength == IsWord(field.name, "content-length")
  IN CASE ~field.valid \/ IsWord(field.name, "transfer-encoding") ->
            [p EXCEPT !.request = Give("einval")]
       [] field.valid /\ isLength /\ (p.length >= 0 \/ length = Einval) ->
            [p EXCEPT !.request = Give("einval")]
       [] field.valid /\ isLength /\ p.length < 0 /\ length = Eoverflow ->
            [p EXCEPT !.request = Give("eoverflow")]
       [] OTHER -> [p EXCEPT !.at = end + 2, !.length = IF isLength THEN length ELSE @]

\* One turn of header_loop.
ParsedLine(text, p, start) ==
  LET end == LineEnd(text, p.at)
  IN CASE p.at + 1 > Len(text) \/ end = 0 -> [p EXCEPT !.request = Give("again")]
       [] p.at + 1 <= Len(text) /\ end < 0 -> [p EXCEPT !.request = Give("einval")]
       [] end = p.at -> [p EXCEPT !.request = HeadComplete(text, p, start)]
       [] OTHER -> ParsedField(text, p, end, FieldLine(SubSeq(text, p.at, end - 1)))

ParsedHead(text, end, line) ==
  IF ~line.valid THEN Give("einval")
  ELSE FoldLeft(LAMBDA p, c : IF p.request.status = "line" THEN ParsedLine(text, p, end + 2)
                              ELSE p,
                [request |-> [Unparsed EXCEPT !.status = "line", !.method = line.method,
                                              !.target = line.target],
                 at |-> end + 2, length |-> -1], text).request

ParseRequest(text) ==
  LET end == LineEnd(text, 1)
  IN CASE end = 0 -> Give("again")
       [] end < 0 -> Give("einval")
       [] OTHER -> ParsedHead(text, end, RequestLine(SubSeq(text, 1, end - 1)))
-----------------------------------------------------------------------------
(***************************************************************************)
(* Walking the fields of a head                                            *)
(***************************************************************************)
\* http0_header_next_asm and arbor_http_request_header_next.
HeaderNext(headers, w) ==
  LET end == FirstOf(headers, w.at, {"cr", "lf"})
      field == FieldLine(SubSeq(headers, w.at, end - 1))
  IN IF /\ end < Len(headers) /\ SubSeq(headers, end, end + 1) = Crlf
        /\ end > w.at /\ field.valid
     THEN [w EXCEPT !.at = end + 2,
                    !.fields = Append(@, [name |-> field.name, value |-> field.value])]
     ELSE [w EXCEPT !.ok = FALSE]

WalkHeaders(headers) ==
  FoldLeft(LAMBDA w, c : IF w.ok /\ w.at <= Len(headers) THEN HeaderNext(headers, w) ELSE w,
           [ok |-> TRUE, at |-> 1, fields |-> <<>>], headers)

FieldsNamed(fields, word) == SelectSeq(fields, LAMBDA f : IsWord(f.name, word))
=============================================================================
