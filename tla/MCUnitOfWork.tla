---------------------------- MODULE MCUnitOfWork ----------------------------
(***************************************************************************)
(* A journal of two records and three bytes, three events of no or two    *)
(* bytes, two generations, and any checkpoint; begin is given memory of    *)
(* its own, a table or a state that is not right, or any two regions over  *)
(* each other.                                                             *)
(***************************************************************************)
EXTENDS UnitOfWork

MCSizes == {0, 2}

\* Two regions of which one is not of the journal; without the binding over the
\* table, which is accepted and only makes every unit twice.
Pairs ==
  {{a, b} : a \in Regions \ JournalRegions, b \in Regions}
  \ ({{r} : r \in Regions} \cup {{"binding", "interface"}})

MCOffers ==
  {NoOffer, [NoOffer EXCEPT !.table = "eprotonosupport"], [NoOffer EXCEPT !.fits = FALSE]}
  \cup {[NoOffer EXCEPT !.shares = {pair}] : pair \in Pairs}
=============================================================================
