---------------------------- MODULE HttpResponse ----------------------------
(***************************************************************************)
(* A response from what the application asked for to the bytes in the      *)
(* output buffer: arbor_http_response_make and _serialize (src/c/http.c)   *)
(* and http0_response_serialize_asm (src/asm/http_response_v2.asm).        *)
(***************************************************************************)
EXTENDS HttpMessage

BodilessStatuses == {204, 205, 304}

ReservedNames ==
  {"content-length", "connection", "transfer-encoding", "trailer", "upgrade"}

\* token_span_valid
TokenValid(text) == text # <<>> /\ OnlyOf(text, TokenBytes)

\* field_value_valid
FieldValueValid(text) == OnlyOf(text, ValueBytes)

\* arbor_http_field_validate
FieldValid(field) == TokenValid(field.name) /\ FieldValueValid(field.value)

\* What the adapter lets a callback append.
FieldAllowed(field) ==
  /\ FieldValid(field)
  /\ \A word \in ReservedNames : ~IsWord(field.name, word)

\* arbor_http_response_validate.
ResponseValid(response) ==
  /\ response.status \in 200 .. 599
  /\ response.status \in BodilessStatuses => response.body = <<>>
  /\ \A i \in DOMAIN response.fields : FieldAllowed(response.fields[i])

ReasonPhrase(status) ==
  IF status \in {200, 204, 205, 304, 400, 404} THEN <<"reason">> ELSE <<>>

\* u64_format_decimal.
Decimal(n) ==
  LET high == {k \in 0 .. 5 : n >= 10 ^ k} \union {0}
  IN [k \in 1 .. Max(high) + 1 |-> Digit[((n \div (10 ^ (Max(high) + 1 - k))) % 10) + 1]]

\* method_is
IsMethod(method, word) == method = <<word>>

\* Mutant: a response to HEAD carries the body it describes.
SendsAnyBody(method, response) ==
  response.status \notin BodilessStatuses /\ response.body # <<>>

\* What arbor_http_response_serialize decides before it calls the assembly.
SendsBody(method, response) ==
  ~IsMethod(method, "HEAD") /\ response.status \notin BodilessStatuses /\ response.body # <<>>

SendsLength(response) == response.status \notin {204, 304}

HttpVersion == <<"HTTP/1.1", " ">>
LengthPrefix == <<"Content-Length", ":", " ">>
CloseLine == <<"Connection", ":", " ", "close">> \o Crlf

SumOf(lengths) == FoldLeft(LAMBDA n, k : n + k, 0, lengths)

\* The length added up before anything is appended.
Required(method, response, close) ==
  LET fieldLength(f) == Len(f.name) + 2 + Len(f.value) + 2
  IN Len(HttpVersion) + 3 + 1 + 2 + Len(ReasonPhrase(response.status))
     + SumOf([i \in DOMAIN response.fields |-> fieldLength(response.fields[i])])
     + (IF SendsLength(response)
        THEN Len(LengthPrefix) + Len(Decimal(Len(response.body))) + 2 ELSE 0)
     + (IF close THEN Len(CloseLine) ELSE 0)
     + 2 + (IF SendsBody(method, response) THEN Len(response.body) ELSE 0)

\* What is then appended, piece by piece.
Appended(method, response, close) ==
  HttpVersion \o Decimal(response.status) \o <<" ">> \o ReasonPhrase(response.status) \o Crlf
  \o FoldLeft(LAMBDA all, f : all \o f.name \o <<":", " ">> \o f.value \o Crlf,
              <<>>, response.fields)
  \o (IF SendsLength(response)
      THEN LengthPrefix \o Decimal(Len(response.body)) \o Crlf ELSE <<>>)
  \o (IF close THEN CloseLine ELSE <<>>)
  \o Crlf \o (IF SendsBody(method, response) THEN response.body ELSE <<>>)

\* Into an empty buffer; connection is what the request's fields say, and a
\* malformed one closes.
Serialize(method, connection, response, capacity) ==
  LET close == connection # "keep" \/ response.close
      fits == Required(method, response, close) <= capacity
      refused == ~ResponseValid(response)
                 \/ (IsMethod(method, "CONNECT") /\ response.status \in 200 .. 299)
  IN CASE refused -> [status |-> "einval", wire |-> <<>>, close |-> FALSE]
       [] ~refused /\ ~fits -> [status |-> "enospc", wire |-> <<>>, close |-> FALSE]
       [] OTHER -> [status |-> "ok", wire |-> Appended(method, response, close),
                    close |-> close]
=============================================================================
