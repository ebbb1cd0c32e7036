--------------------------- MODULE MCCatalogCache ---------------------------
(* Values of the constants of CatalogCache for TLC. *)
EXTENDS CatalogCache

CONSTANTS y1, q1

OneSync == {y1}
OneSearch == {q1}
ThreeItems == {1, 2, 3}
\* The search matches every card.
Matches == [s \in OneSearch |-> ThreeItems]
=============================================================================
