---------------------------- MODULE MCOperation -----------------------------
(* Values of the constants of Operation for TLC. *)
EXTENDS Operation, TLC

CONSTANTS s1, s2, far, gone, i1, i2, p1, c1, c2, k1, k2

ThreeSites == {s1, s2, far}
OnePage == {p1}
TwoCreates == {c1, c2}
Submit1 == {k1}
Cancel1 == {k2}
NoCancels == {}

Catalog(i, q) ==
  [kind |-> "catalog", item |-> i, name |-> TRUE, unit |-> None, category |-> None,
   tmp |-> None, qty |-> q]
Temporary(key, q) ==
  [kind |-> "temporary", item |-> None, name |-> TRUE, unit |-> None, category |-> None,
   tmp |-> key, qty |-> q]
Draft(type, site, dest, lines) ==
  [type |-> type, site |-> site, source |-> site, dest |-> dest, recipient |-> FALSE,
   dated |-> TRUE, lines |-> lines, key |-> None]

\* A storekeeper bound to s1, who sees s2 as well.
Bound == [p \in Pages |-> s1]
Access == [p \in Pages |-> {s1, s2}]
Rights == [p \in Pages |-> {s1}]

\* A chief storekeeper may operate every warehouse.
Unbound == [p \in Pages |-> None]
All == [p \in Pages |-> Sites]

MixedReceive == Draft("RECEIVE", s1, None, <<Catalog(i1, 2), Temporary("t1", 1)>>)

SomeInputs == {
  MixedReceive,
  Draft("MOVE", s1, s2, <<Catalog(i1, 1), Catalog(i2, 1)>>),
  Draft("MOVE", s1, far, <<Catalog(i1, 1)>>),       \* not a warehouse the user sees
  Draft("MOVE", s2, s1, <<Catalog(i1, 1)>>),        \* rendered while bound to s2
  Draft("MOVE", s1, gone, <<Catalog(i1, 1)>>),      \* to a warehouse that was deleted
  Draft("RECEIVE", s1, None, <<Catalog(i1, -1)>>) } \* was an ADJUSTMENT when it was entered
OneInput == {MixedReceive}
=============================================================================
