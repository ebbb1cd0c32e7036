---------------------------- MODULE AssetLedger -----------------------------
(***************************************************************************)
(* What the acceptance of an operation and the resolution of its losses    *)
(* promise together: goods are pending, in the balance of the destination, *)
(* open as a loss, or away (returned to the source or written off).  Each  *)
(* submission takes effect at most once, exactly as it was written, and    *)
(* goods only ever move forward.                                           *)
(***************************************************************************)
EXTENDS Integers

CONSTANTS
  Lines,      \* the lines of the operation
  Qty,        \* Qty[l]: the quantity of line l when the operation was submitted
  Requests,   \* the submissions of the acceptance form
  Resolves    \* the submissions of the form that resolves a loss

VARIABLES
  pending,    \* pending[l]: not accepted yet
  stock,      \* stock[l]: in the balance of the destination
  open,       \* open[l]: lost, and nobody has said what became of it
  away,       \* away[l]: returned to the source, or written off
  asked,      \* asked[r][l]: what submission r of the acceptance asks of line l
  told,       \* told[q]: of which line resolution q says what became of how much
  booked      \* the submissions that took effect

assets == <<pending, stock, open, away, asked, told, booked>>

Zero == [l \in Lines |-> 0]
Share == [acc : Int, lst : Int]
NoShare == [acc |-> 0, lst |-> 0]
Nothing == [l \in Lines |-> NoShare]
Actions == {"found_to_destination", "return_to_source", "write_off"}
Fates == [line : Lines, action : Actions, qty : Nat]
Untold == [line |-> 0, action |-> "write_off", qty |-> 0]

Init ==
  /\ pending = Qty
  /\ stock = Zero
  /\ open = Zero
  /\ away = Zero
  /\ asked = [r \in Requests |-> Nothing]
  /\ told = [q \in Resolves |-> Untold]
  /\ booked = {}

\* A submission of either form is written once, and is what it is from then on.
Write(r) ==
  /\ asked[r] = Nothing
  /\ asked'[r] \in [Lines -> Share]
  /\ asked' = [asked EXCEPT ![r] = asked'[r]]
  /\ UNCHANGED <<pending, stock, open, away, told, booked>>

Tell(q) ==
  /\ told[q] = Untold
  /\ told'[q] \in Fates
  /\ told' = [told EXCEPT ![q] = told'[q]]
  /\ UNCHANGED <<pending, stock, open, away, asked, booked>>

\* A submission of the acceptance form moves what it asks for, and all of it, out of
\* "pending".
Accept(r) ==
  /\ r \notin booked
  /\ asked[r] # Nothing
  /\ \A l \in Lines :
       /\ asked[r][l].acc >= 0
       /\ asked[r][l].lst >= 0
       /\ asked[r][l].acc + asked[r][l].lst <= pending[l]
  /\ pending' = [l \in Lines |-> pending[l] - asked[r][l].acc - asked[r][l].lst]
  /\ stock' = [l \in Lines |-> stock[l] + asked[r][l].acc]
  /\ open' = [l \in Lines |-> open[l] + asked[r][l].lst]
  /\ booked' = booked \cup {r}
  /\ UNCHANGED <<away, asked, told>>

\* A resolution moves what it says, of the line it names, out of "open" to the side it
\* names.
Resolve(q) ==
  /\ q \notin booked
  /\ told[q] # Untold
  /\ told[q].qty \in 1 .. open[told[q].line]
  /\ open' = [open EXCEPT ![told[q].line] = @ - told[q].qty]
  /\ IF told[q].action = "found_to_destination"
     THEN stock' = [stock EXCEPT ![told[q].line] = @ + told[q].qty] /\ UNCHANGED away
     ELSE away' = [away EXCEPT ![told[q].line] = @ + told[q].qty] /\ UNCHANGED stock
  /\ booked' = booked \cup {q}
  /\ UNCHANGED <<pending, asked, told>>

Next ==
  \/ \E r \in Requests : Write(r) \/ Accept(r)
  \/ \E q \in Resolves : Tell(q) \/ Resolve(q)

Spec == Init /\ [][Next]_assets
=============================================================================
