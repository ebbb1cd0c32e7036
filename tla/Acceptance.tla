----------------------------- MODULE Acceptance -----------------------------
(***************************************************************************)
(* Acceptance of the lines of one submitted RECEIVE or MOVE operation:     *)
(* AcceptanceSubmitView.post, the page loop that re-reads the pending      *)
(* register, the validation of the form, and the POST of accept-lines.     *)
(*                                                                         *)
(* A request is one POST of the acceptance form.  Any number of requests   *)
(* run at the same time (other users, other tabs, a second press of the    *)
(* same button), and each of the HTTP calls a request makes can fail, time *)
(* out, or be carried out after the client has given up on it.             *)
(*                                                                         *)
(* Quantities are counted in thousandths, the scale QTY_SCALE the forms    *)
(* round to, so they are integers.                                         *)
(***************************************************************************)
EXTENDS Integers, FiniteSets

CONSTANTS
  Lines,       \* operation_line_id of the lines, in the order the server lists them
  Qty,         \* Qty[l]: what the submitted operation says of line l
  Requests,    \* POSTs of the acceptance form
  PageOf,      \* PageOf[r]: the rendered page whose form request r sends
  Forms,       \* what users type into the form
  Unreadable,  \* a quantity field that does not hold a number
  PageCap,     \* rows the client asks for at most per call (100)
  MaxRows,     \* rows the client collects at most (PENDING_ACCEPTANCE_PAGE_SIZE)
  MaxPages     \* pages the client asks for at most (SAFEGUARD_MAX_PAGES)

Entries == Int \cup {Unreadable}
FormType == [Lines -> [acc : Entries, lst : Entries]]

\* The call sites pass max_rows = 200 and 10000, both multiples of the cap of 100.
ASSUME AcceptanceAssumption ==
  /\ Lines \subseteq Nat /\ IsFiniteSet(Lines)
  /\ Qty \in [Lines -> Nat]
  /\ Forms \subseteq FormType
  /\ Unreadable \notin Int
  /\ PageCap \in Nat \ {0} /\ MaxRows \in Nat \ {0} /\ MaxPages \in Nat \ {0}
  /\ MaxRows % PageCap = 0

\* The acceptance asks for 200 rows in at most 50 pages of 100.
ASSUME PageLimitAssumption == MaxRows <= MaxPages * PageCap

VARIABLES
  pending, stock, lost,  \* the server's registers, per line
  booked,                \* requests the server has booked
  wire,                  \* requests whose accept-lines call the server has yet to handle
  answer,                \* answer[r]: what the server replied to the call of r
  pc,                    \* pc[r]: where AcceptanceSubmitView.post is
  form,                  \* form[r]: the quantities request r carries
  rows,                  \* rows[r][l]: remaining_by_line, 0 for a line that was not read
  got,                   \* got[r]: number of rows collected so far
  page,                  \* page[r]: the page to ask for next
  outcome,               \* outcome[r]: the message the user is shown
  raced                  \* history: another request was booked after r began to read

registers == <<pending, stock, lost>>
server == <<registers, booked, wire, answer>>
reading == <<rows, got, page>>
vars == <<registers, booked, wire, answer, pc, form, rows, got, page, outcome, raced>>

Refusals == {"conflict", "bad_data", "refused"}
Outcomes == {"none", "success", "settled", "invalid", "unavailable"} \cup Refusals

TypeOK ==
  /\ pending \in [Lines -> Nat]
  /\ stock \in [Lines -> Nat]
  /\ lost \in [Lines -> Nat]
  /\ booked \subseteq Requests
  /\ wire \subseteq Requests
  /\ answer \in [Requests -> {"none", "success"} \cup Refusals]
  /\ pc \in [Requests -> {"new", "fetching", "checking", "sent", "done"}]
  /\ form \in [Requests -> FormType]
  /\ rows \in [Requests -> [Lines -> Nat]]
  /\ got \in [Requests -> 0 .. MaxRows]
  /\ page \in [Requests -> 1 .. MaxPages + 1]
  /\ outcome \in [Requests -> Outcomes]
  /\ raced \in [Requests -> BOOLEAN]

-----------------------------------------------------------------------------
(* The pending register as the server lists it: only lines with something  *)
(* left, cut into pages by the order of their ids.                         *)

PendingLines == {l \in Lines : pending[l] > 0}
Rank(l) == Cardinality({m \in PendingLines : m <= l})
ServerPage(p, size) ==
  {l \in PendingLines : (p - 1) * size < Rank(l) /\ Rank(l) <= p * size}

(* The form.  An unreadable quantity is taken for 0, and a line with two   *)
(* zeros is left out of the payload.                                       *)

ToQty(e) == IF e = Unreadable THEN 0 ELSE e
Acc(r, l) == ToQty(form[r][l].acc)
Lst(r, l) == ToQty(form[r][l].lst)
Posted(r) == {l \in Lines : Acc(r, l) # 0 \/ Lst(r, l) # 0}

\* Mutant: a negative quantity is taken.
FitsMutant(r, left) == \A l \in Posted(r) : Acc(r, l) + Lst(r, l) <= left[l]

\* The lines of request r ask for no more than what is left of each.
Fits(r, left) ==
  \A l \in Posted(r) :
    /\ Acc(r, l) >= 0
    /\ Lst(r, l) >= 0
    /\ Acc(r, l) + Lst(r, l) <= left[l]

\* Mutant: each quantity is compared with the remaining one, and not their sum.
ValidMutant(r) ==
  \A l \in Posted(r) : Acc(r, l) \in 0 .. rows[r][l] /\ Lst(r, l) \in 0 .. rows[r][l]

\* validate_acceptance_lines raises no error.
Valid(r) == Fits(r, rows[r])

NoEntry == [l \in Lines |-> [acc |-> 0, lst |-> 0]]

Init ==
  /\ pending = Qty
  /\ stock = [l \in Lines |-> 0]
  /\ lost = [l \in Lines |-> 0]
  /\ booked = {}
  /\ wire = {}
  /\ answer = [r \in Requests |-> "none"]
  /\ pc = [r \in Requests |-> "new"]
  /\ form = [r \in Requests |-> NoEntry]
  /\ rows = [r \in Requests |-> [l \in Lines |-> 0]]
  /\ got = [r \in Requests |-> 0]
  /\ page = [r \in Requests |-> 1]
  /\ outcome = [r \in Requests |-> "none"]
  /\ raced = [r \in Requests |-> FALSE]

-----------------------------------------------------------------------------
(* A user presses the button of a page.  Nothing ties the request to the   *)
(* page: a second press sends the same quantities again.                   *)
Press(r) ==
  /\ pc[r] = "new"
  /\ \E f \in Forms :
       /\ \A s \in Requests : PageOf[s] = PageOf[r] /\ pc[s] # "new" => form[s] = f
       /\ form' = [form EXCEPT ![r] = f]
  /\ pc' = [pc EXCEPT ![r] = "fetching"]
  /\ UNCHANGED <<server, reading, outcome, raced>>

Finish(r, message) ==
  /\ pc' = [pc EXCEPT ![r] = "done"]
  /\ outcome' = [outcome EXCEPT ![r] = message]

PageSize(r) == IF PageCap <= MaxRows - got[r] THEN PageCap ELSE MaxRows - got[r]

\* Mutant: one page is taken for the whole register.
LastPageMutant(r, n) == TRUE

\* The loop of list_pending_acceptance_all_pages stops after a page of n rows.
LastPage(r, n) ==
  \/ n = 0
  \/ got[r] + n >= Cardinality(PendingLines)
  \/ page[r] + 1 > MaxPages
  \/ got[r] + n >= MaxRows

(* One iteration of the page loop: one GET of the pending register.  No    *)
(* row at all means that the operation is settled, and nothing is sent.    *)
FetchPage(r) ==
  /\ pc[r] = "fetching"
  /\ LET items == ServerPage(page[r], PageSize(r))
         n     == Cardinality(items)
     IN  /\ rows' = [rows EXCEPT ![r] =
                       [l \in Lines |-> IF l \in items THEN pending[l] ELSE @[l]]]
         /\ got' = [got EXCEPT ![r] = @ + n]
         /\ IF n > 0 /\ ~LastPage(r, n)
            THEN /\ page' = [page EXCEPT ![r] = @ + 1]
                 /\ UNCHANGED <<pc, outcome>>
            ELSE /\ UNCHANGED page
                 /\ IF got[r] + n = 0
                    THEN Finish(r, "settled")
                    ELSE pc' = [pc EXCEPT ![r] = "checking"] /\ UNCHANGED outcome
  /\ UNCHANGED <<server, form, raced>>

\* A GET that fails or times out ends the request before anything is sent.
FetchFails(r) ==
  /\ pc[r] = "fetching"
  /\ Finish(r, "unavailable")
  /\ UNCHANGED <<server, form, reading, raced>>

\* The accept-lines call of r is under way.
Sends(r) == wire' = wire \cup {r}

(* The form is validated against what was read.  One bad line refuses the  *)
(* whole form; otherwise the lines that carry a quantity are posted.       *)
Check(r) ==
  /\ pc[r] = "checking"
  /\ IF Valid(r)
     THEN /\ pc' = [pc EXCEPT ![r] = "sent"]
          /\ Sends(r)
          /\ UNCHANGED outcome
     ELSE Finish(r, "invalid") /\ UNCHANGED wire
  /\ UNCHANGED <<registers, booked, answer, form, reading, raced>>

\* The answer reaches the client, which shows it to the user.
Receive(r) ==
  /\ pc[r] = "sent"
  /\ answer[r] # "none"
  /\ Finish(r, answer[r])
  /\ UNCHANGED <<server, form, reading, raced>>

\* Mutant: a call that got no answer is reported as refused.
TimeOutMutant(r) ==
  /\ pc[r] = "sent"
  /\ Finish(r, "refused")
  /\ UNCHANGED <<server, form, reading, raced>>

\* Mutant: a call that got no answer is sent again.
TimeOutRetry(r) ==
  /\ pc[r] = "sent"
  /\ Sends(r)
  /\ UNCHANGED <<registers, booked, answer, pc, form, reading, outcome, raced>>

\* Mutant: the client has no timeout and waits for an answer.
TimeOutNever(r) == FALSE

(* No answer within SYNC_SERVER_TIMEOUT, or a broken connection.  The call *)
(* may have been carried out already, and may still be carried out.        *)
TimeOut(r) ==
  /\ pc[r] = "sent"
  /\ Finish(r, "unavailable")
  /\ UNCHANGED <<server, form, reading, raced>>

-----------------------------------------------------------------------------
(* The server, external: one transaction per accept-lines call.            *)

Handled(r, reply) ==
  /\ r \in wire
  /\ wire' = wire \ {r}
  /\ answer' = [answer EXCEPT ![r] = reply]
  /\ UNCHANGED <<pc, form, reading, outcome>>

\* The effect of an accept-lines call on the registers.
Move(r) ==
  /\ pending' = [l \in Lines |-> pending[l] - Acc(r, l) - Lst(r, l)]
  /\ stock' = [l \in Lines |-> stock[l] + Acc(r, l)]
  /\ lost' = [l \in Lines |-> lost[l] + Lst(r, l)]
  /\ booked' = booked \cup {r}
  /\ raced' = [s \in Requests |-> raced[s] \/ (s # r /\ got[s] > 0)]

Book(r) ==
  /\ Posted(r) # {}
  /\ Fits(r, pending)
  /\ Handled(r, "success")
  /\ Move(r)

\* 409 for more than what is pending, 422 for no line at all, and 403 or 5xx at any time
Refuse(r) ==
  /\ \/ ~Fits(r, pending) /\ Handled(r, "conflict")
     \/ Posted(r) = {} /\ Handled(r, "bad_data")
     \/ Handled(r, "refused")
  /\ UNCHANGED <<registers, booked, raced>>

\* The call never reaches the server.
LoseCall(r) ==
  /\ r \in wire
  /\ wire' = wire \ {r}
  /\ UNCHANGED <<registers, booked, answer, pc, form, reading, outcome, raced>>

-----------------------------------------------------------------------------
Handler(r) ==
  \/ FetchPage(r) \/ FetchFails(r) \/ Check(r) \/ Receive(r) \/ TimeOut(r)

Next == \E r \in Requests :
  Press(r) \/ Handler(r) \/ Book(r) \/ Refuse(r) \/ LoseCall(r)

Spec == Init /\ [][Next]_vars

\* The web workers run, and every HTTP call ends in an answer or a timeout.
FairSpec == Spec /\ \A r \in Requests : WF_vars(Handler(r))

-----------------------------------------------------------------------------
(* Properties *)

\* What the user is told is so, and stays so: "done" was booked, "already settled" means
\* that nothing is pending, and any other refusal means that the request has not been
\* booked and never will be.  Only "unavailable" leaves it open.
MessageTellsTruth ==
  \A r \in Requests :
    /\ outcome[r] = "success" => r \in booked
    /\ outcome[r] \in {"settled", "invalid"} \cup Refusals => r \notin booked \cup wire
    /\ outcome[r] = "settled" => PendingLines = {}

\* The server finds more asked for than is pending (409) only when another request was
\* booked while this one was between its read and its call: the re-read and the
\* validation leave no other way.
ConflictOnlyByRace ==
  \A r \in Requests : answer[r] = "conflict" => raced[r]

\* What the client holds of the register once it has read: the first MaxRows lines.
Visible(l) == IF l \in PendingLines /\ Rank(l) <= MaxRows THEN pending[l] ELSE 0

\* Unless another request interfered, the validation lets a form through exactly when it
\* fits the register at that moment: the page loop missed and repeated no row.
UnracedVerdictIsExact ==
  [][\A r \in Requests :
       pc[r] = "checking" /\ pc'[r] # "checking" /\ ~raced[r]
         => (pc'[r] = "sent" <=> Fits(r, [l \in Lines |-> Visible(l)]))]_vars

\* Every press of the button ends in a message.
EveryPressAnswered ==
  \A r \in Requests : pc[r] = "fetching" ~> pc[r] = "done"

\* The acceptance of an operation, seen through the registers, is the abstract ledger:
\* whatever is lost, late, repeated or refused on the way, the server books a form at
\* most once, and then all of its lines by just the quantities the user entered.
Asked == [r \in Requests |-> [l \in Lines |-> [acc |-> Acc(r, l), lst |-> Lst(r, l)]]]
Ledger == INSTANCE AcceptanceLedger WITH asked <- Asked
LedgerSpec == Ledger!Spec

\* plans/acceptance_receive_move_lost_assets_tz.md:482: a second press of the button of
\* one rendered page is blocked, so one page books at most once.
OnePageBooksOnce ==
  \A r, s \in booked : PageOf[r] = PageOf[s] => r = s
=============================================================================
