--------------------------- MODULE RequestExchange ---------------------------
(***************************************************************************)
(* What a connection promises its peer: requests are answered one at a     *)
(* time, in order, and none before it has arrived as a whole.              *)
(***************************************************************************)
EXTENDS Naturals

VARIABLES open, asked, served, busy

vars == <<open, asked, served, busy>>

Init == open = FALSE /\ asked = 0 /\ served = 0 /\ busy = FALSE

\* A connection, or an attempt that fails.
Open ==
  /\ ~open /\ open' \in BOOLEAN
  /\ asked' = 0 /\ served' = 0 /\ busy' = FALSE

\* The last byte of another request arrives.
Ask == asked' = asked + 1 /\ UNCHANGED <<open, served, busy>>

Begin ==
  /\ open /\ ~busy /\ served < asked
  /\ busy' = TRUE /\ UNCHANGED <<open, asked, served>>

\* The last byte of the response is handed over; the connection may end here.
Answer ==
  /\ busy /\ busy' = FALSE /\ served' = served + 1
  /\ open' \in BOOLEAN /\ UNCHANGED asked

Fail == open /\ open' = FALSE /\ busy' = FALSE /\ UNCHANGED <<asked, served>>

Next == Open \/ Ask \/ Begin \/ Answer \/ Fail

Spec == Init /\ [][Next]_vars
=============================================================================
