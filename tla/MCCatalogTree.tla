--------------------------- MODULE MCCatalogTree ----------------------------
(* Values of the constants of CatalogAdmin and CatalogTree for TLC. *)
EXTENDS CatalogTree, TLC

CONSTANTS a1, a2

\* The system category 0; 2 in 1, which is a root; 3 yet to be created.
TheCats == {0, 1, 2, 3}
\* Card 4 in category 2; 5 yet to be created.
TheItems == {4, 5}
\* Unit 6, and 7 yet to be created.
TheUnits == {6, 7}
TheNew == {3, 5, 7}
ThePlaces == (0 :> Nowhere) @@ (1 :> Nowhere) @@ (2 :> 1) @@ (3 :> Nowhere) @@ (4 :> 2)
               @@ (5 :> 0) @@ (6 :> Nowhere) @@ (7 :> Nowhere)
TwoAdmins == {a1, a2}
\* One edits or divides; the other does anything.
TheKinds == (a1 :> {"edit", "split"}) @@ (a2 :> {"edit", "create", "delete", "merge", "split"})
=============================================================================
