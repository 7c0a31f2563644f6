----------------------------- MODULE HttpFields -----------------------------
(***************************************************************************)
(* What src/c/http.c reads from the fields of a request: the host it is    *)
(* addressed to and whether the connection is to be closed; and the path   *)
(* request_target.asm cuts from the target.                                *)
(***************************************************************************)
EXTENDS HttpMessage

UriUnreserved == Digits \union Letters \union {"-", "."}
UriSubDelims == {"!", "*", ",", ";"}
UriPlain == UriUnreserved \union UriSubDelims
-----------------------------------------------------------------------------
(***************************************************************************)
(* Host                                                                    *)
(***************************************************************************)
PctEncodedAt(text, i) ==
  /\ i + 2 <= Len(text) /\ text[i] = "%"
  /\ {text[i + 1], text[i + 2]} \subseteq HexDigits

\* at: the next byte to look at, Len(text) + 1 at the end, 0 after a refusal.
RegNameValid(text) ==
  LET step(at, c) ==
        CASE at \notin DOMAIN text -> at
          [] at \in DOMAIN text /\ text[at] \in UriPlain -> at + 1
          [] OTHER -> IF PctEncodedAt(text, at) THEN at + 3 ELSE 0
  IN text # <<>> /\ FoldLeft(step, 1, text) = Len(text) + 1

OctetValid(text) ==
  /\ Len(text) \in 1 .. 3 /\ OnlyOf(text, Digits)
  /\ Len(text) > 1 => text[1] # "0"
  /\ FoldLeft(LAMBDA n, c : 10 * n + DigitValue(c), 0, text) <= 255

Ipv4Valid(text) ==
  LET parts == Pieces(text, ".")
  IN Len(parts) = 4 /\ \A k \in 1 .. 4 : OctetValid(parts[k])

H16Valid(text) == Len(text) \in 1 .. 4 /\ OnlyOf(text, HexDigits)

\* The colon after a group, and a second one that stands for the groups left
\* out.
AfterGroup(text, s, end) ==
  CASE end = Len(text) + 1 -> [s EXCEPT !.at = end]
    [] end = Len(text) -> [s EXCEPT !.bad = TRUE]
    [] OTHER -> IF text[end + 1] # ":" THEN [s EXCEPT !.at = end + 1]
                ELSE [s EXCEPT !.at = end + 2, !.bad = s.compressed, !.compressed = TRUE]

\* One turn of the loop of ipv6_address_valid.
Ipv6Group(text, s, end) ==
  LET segment == SubSeq(text, s.at, end - 1)
  IN CASE segment = <<>> -> [s EXCEPT !.bad = TRUE]
       [] segment # <<>> /\ "." \in Range(segment) ->
            [s EXCEPT !.at = Len(text) + 1, !.groups = @ + 2,
                      !.bad = end <= Len(text) \/ ~Ipv4Valid(segment) \/ s.groups > 6]
       [] OTHER -> IF ~H16Valid(segment) \/ s.groups >= 8 THEN [s EXCEPT !.bad = TRUE]
                   ELSE AfterGroup(text, [s EXCEPT !.groups = @ + 1], end)

Ipv6Valid(text) ==
  LET leading == Len(text) >= 2 /\ SubSeq(text, 1, 2) = <<":", ":">>
      start == [at |-> IF leading THEN 3 ELSE 1, groups |-> 0, compressed |-> leading,
                bad |-> ~leading /\ text[1] = ":"]
      s == FoldLeft(LAMBDA t, c : IF t.bad \/ t.at > Len(text) THEN t
                                  ELSE Ipv6Group(text, t, FirstOf(text, t.at, {":"})),
                    start, text)
  IN ~s.bad /\ (IF s.compressed THEN s.groups < 8 ELSE s.groups = 8)

IpvFutureValid(text) ==
  LET dot == FirstOf(text, 2, {"."})
  IN /\ Len(text) >= 4 /\ text[1] = "v" /\ dot > 2 /\ dot < Len(text)
     /\ OnlyOf(SubSeq(text, 2, dot - 1), HexDigits)
     /\ OnlyOf(SubSeq(text, dot + 1, Len(text)), UriPlain \union {":"})

IpLiteralValid(text) == text # <<>> /\ (IpvFutureValid(text) \/ Ipv6Valid(text))

\* The literal ends at the first "]", a name at the first ":".
HostValueValid(text) ==
  LET bracketed == text[1] = "["
      end == IF bracketed THEN FirstOf(text, 2, {"]"}) + 1 ELSE FirstOf(text, 1, {":"})
  IN /\ text # <<>>
     /\ IF bracketed THEN end <= Len(text) + 1 /\ IpLiteralValid(SubSeq(text, 2, end - 2))
                     ELSE RegNameValid(SubSeq(text, 1, end - 1))
     /\ end <= Len(text) => text[end] = ":" /\ OnlyOf(SubSeq(text, end + 1, Len(text)), Digits)

\* arbor_http_request_host_validate.
HostAccepted(target, walk) ==
  LET hosts == FieldsNamed(walk.fields, "host")
  IN /\ target[1] = "/" \/ target = <<"*">>
     /\ walk.ok /\ Len(hosts) = 1 /\ HostValueValid(hosts[1].value)
-----------------------------------------------------------------------------
(***************************************************************************)
(* Connection                                                              *)
(***************************************************************************)
\* connection_value_has_close, byte by byte: between elements, in a token, or
\* in the space after one.
ConnectionByte(s, c) ==
  CASE c \in TokenBytes ->
         IF s.mode = "after" THEN [s EXCEPT !.mode = "malformed"]
         ELSE [s EXCEPT !.mode = IF @ = "malformed" THEN @ ELSE "token", !.token = Append(@, c)]
    [] c = "," /\ s.mode # "malformed" -> [s EXCEPT !.mode = "between", !.token = <<>>]
    [] c \in White -> [s EXCEPT !.mode = IF @ = "token" THEN "after" ELSE @, !.token = <<>>]
    [] OTHER -> [s EXCEPT !.mode = "malformed"]

ConnectionOf(value) ==
  LET step(s, c) ==
        LET next == ConnectionByte(s, c)
        IN [next EXCEPT !.close = @ \/ (s.mode = "token" /\ next.mode # "token"
                                        /\ IsWord(s.token, "close"))]
      last == FoldLeft(step, [mode |-> "between", token |-> <<>>, close |-> FALSE], value)
  IN CASE last.mode = "malformed" -> "malformed"
       [] OTHER -> IF last.close \/ IsWord(last.token, "close") THEN "close" ELSE "keep"

\* arbor_http_request_connection_close: the first field that is malformed
\* decides.
ConnectionClose(walk) ==
  LET found == {ConnectionOf(f.value) : f \in Range(FieldsNamed(walk.fields, "connection"))}
  IN CASE ~walk.ok \/ "malformed" \in found -> "malformed"
       [] OTHER -> IF "close" \in found THEN "close" ELSE "keep"
-----------------------------------------------------------------------------
(***************************************************************************)
(* Target                                                                  *)
(***************************************************************************)
\* request_target_split.
TargetAccepted(target) ==
  target = <<"*">> \/ (target[1] = "/" /\ "#" \notin Range(target))

\* The path's segments after its first slash; none for "*".
PathOf(target) ==
  LET end == FirstOf(target, 1, {"?"})
  IN IF target = <<"*">> THEN <<>> ELSE Pieces(SubSeq(target, 2, end - 1), "/")
=============================================================================
