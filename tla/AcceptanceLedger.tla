-------------------------- MODULE AcceptanceLedger --------------------------
(***************************************************************************)
(* What the acceptance of one operation promises, whatever the number of   *)
(* users, pages, retries and lost answers: a submission of the acceptance  *)
(* form is booked at most once, and as it was written.  Every line it asks *)
(* for moves by what it asks, from "pending" to "in stock" or "lost", and  *)
(* no other line moves; a submission that asks for more than is pending of *)
(* one line is not booked at all.                                          *)
(***************************************************************************)
EXTENDS Integers

CONSTANTS
  Lines,      \* the lines of the operation
  Qty,        \* Qty[l]: the quantity of line l when the operation was submitted
  Requests    \* the submissions of the acceptance form

VARIABLES
  pending,    \* pending[l]: not accepted yet
  stock,      \* stock[l]: accepted into the destination's balance
  lost,       \* lost[l]: recorded as lost
  asked,      \* asked[r][l]: what submission r asks of line l
  booked      \* the submissions that took effect

ledger == <<pending, stock, lost, asked, booked>>

Share == [acc : Int, lst : Int]
NoShare == [acc |-> 0, lst |-> 0]
Nothing == [l \in Lines |-> NoShare]

Init ==
  /\ pending = Qty
  /\ stock = [l \in Lines |-> 0]
  /\ lost = [l \in Lines |-> 0]
  /\ asked = [r \in Requests |-> Nothing]
  /\ booked = {}

\* A submission is written once, and is what it is from then on.
Write(r) ==
  /\ asked[r] = Nothing
  /\ asked'[r] \in [Lines -> Share]
  /\ asked' = [asked EXCEPT ![r] = asked'[r]]
  /\ UNCHANGED <<pending, stock, lost, booked>>

\* It is booked as a whole.
Accept(r) ==
  /\ r \notin booked
  /\ asked[r] # Nothing
  /\ \A l \in Lines :
       /\ asked[r][l].acc >= 0
       /\ asked[r][l].lst >= 0
       /\ asked[r][l].acc + asked[r][l].lst <= pending[l]
  /\ pending' = [l \in Lines |-> pending[l] - asked[r][l].acc - asked[r][l].lst]
  /\ stock' = [l \in Lines |-> stock[l] + asked[r][l].acc]
  /\ lost' = [l \in Lines |-> lost[l] + asked[r][l].lst]
  /\ booked' = booked \cup {r}
  /\ UNCHANGED asked

Next == \E r \in Requests : Write(r) \/ Accept(r)

Spec == Init /\ [][Next]_ledger
=============================================================================
