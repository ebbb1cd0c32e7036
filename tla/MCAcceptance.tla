---------------------------- MODULE MCAcceptance ----------------------------
(* Values of the constants of Acceptance and AssetRegisters for TLC. *)
EXTENDS AssetRegisters, TLC

CONSTANTS r1, r2, q1, q2

Typed(a, x) == [acc |-> a, lst |-> x]
Blank == Typed(0, 0)

\* Three lines of 2, 1 and 1, read one row per call, of which the client reads two.
ThreeLines == {1, 2, 3}
ThreeQty == [l \in ThreeLines |-> IF l = 1 THEN 2 ELSE 1]
Only(l, entry) == [m \in ThreeLines |-> IF m = l THEN entry ELSE Blank]
ThreeForms == {
  <<Blank, Typed(1, 0), Typed(1, 0)>>,              \* the prefilled page, once line 1 is settled
  <<Typed(0, 2), Typed(1, 0), Blank>>,              \* the first page, line 1 lost
  Only(1, Typed(Unreadable, 1)),                    \* one field unreadable, half of line 1
  Only(1, Typed(2, 1)),                             \* more than there is
  Only(1, Typed(1, -1)),                            \* a negative loss
  Only(1, Blank) }                                  \* nothing at all

\* One line of 2 that every request wants a part of.
OneLine == {1}
OneQty == (1 :> 2)
OneForms == {(1 :> Typed(1, 0)), (1 :> Typed(1, 1)), (1 :> Typed(0, 1))}

TwoRequests == {r1, r2}
TwoResolves == {q1, q2}
NoResolves == {}
OwnPage == [r \in Requests |-> r]
SamePage == [r \in Requests |-> r1]
=============================================================================
