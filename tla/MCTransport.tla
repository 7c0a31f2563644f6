---------------------------- MODULE MCTransport ----------------------------
(***************************************************************************)
(* Streams of up to three requests: pipelined ones, one that asks to close *)
(* with another behind it, a malformed one behind a good one, one that     *)
(* does not fit the buffer.  The header of a request takes one byte.       *)
(***************************************************************************)
EXTENDS Transport

Request(from, to, wellFormed, close) ==
  [start |-> from, head |-> from + 1, end |-> to, wellFormed |-> wellFormed,
   close |-> close]

Good(from, to) == Request(from, to, TRUE, FALSE)

MCStreams ==
  { <<Good(0, 2), Good(2, 3), Good(3, 5)>>,
    <<Good(0, 1), Request(1, 3, TRUE, TRUE), Good(3, 4)>>,
    <<Good(0, 2), [Request(2, 4, FALSE, FALSE) EXCEPT !.head = 4]>>,
    <<Good(0, 1), Good(1, 5)>> }
=============================================================================
