----------------------------- MODULE Operation ------------------------------
(***************************************************************************)
(* Warehouse operations from the draft in the browser to "submitted" or    *)
(* "cancelled": OperationCreateView, SubmitOperationView and               *)
(* CancelOperationView, with the calls they make to the server.            *)
(*                                                                         *)
(* A create form is locked by the press of its button (data-loading-form)  *)
(* and rendered again with the same draft when the POST fails, unless the  *)
(* page cannot be put together at all or knows no warehouse to operate.    *)
(* Any number of forms and commands run at the same time, and every call   *)
(* to the server can fail, time out, or be carried out after the client    *)
(* gave up.                                                                *)
(***************************************************************************)
EXTENDS OperationPayload, FiniteSets

CONSTANTS
  Pages,      \* open create forms
  FixedSite,  \* FixedSite[p]: the warehouse the user of p is bound to, or None
  Available,  \* Available[p]: the warehouses the user of p has access to
  Operable,   \* Operable[p]: those of them the user may operate
  Inputs,     \* drafts users write
  Creates,    \* POSTs of a create form; also the ids of the operations they create
  Submits,    \* POSTs of the submit button
  Cancels     \* POSTs of the cancel button

Commands == Submits \cup Cancels
Requests == Creates \cup Commands

ASSUME OperationAssumption ==
  /\ Submits \cap Cancels = {} /\ Creates \cap Commands = {}
  /\ FixedSite \in [Pages -> Sites \cup {None}]
  /\ Available \in [Pages -> SUBSET Sites]
  /\ Operable \in [Pages -> SUBSET Sites]
  /\ \A p \in Pages : Operable[p] \subseteq Available[p]
  /\ None \notin Sites \cup Creates
  /\ Creates \cap {"none", "ok", "refused"} = {}

\* No code of the client writes a client_request_id into a draft, it only looks for one.
ASSUME DraftAssumption ==
  \A d \in Inputs :
    /\ d.key = None
    /\ d.lines \in Seq({d.lines[i] : i \in DOMAIN d.lines})
    /\ \A i \in DOMAIN d.lines : d.lines[i].qty \in Int \cup {None}

VARIABLES
  page,     \* page[p]: "editing", "waiting" for a POST, "closed", "lost" or "stuck"
  draft,    \* draft[p]: the draft in the form
  origin,   \* origin[c]: the page of create request c
  payload,  \* payload[c]: what c posts
  target,   \* target[k]: the operation command k is about
  pc,       \* pc[r]: where the view of request r is
  wire,     \* calls the server has yet to handle
  answer,   \* answer[r]: what the server replied
  outcome,  \* outcome[r]: the message the user is shown
  status,   \* status[c]: the operation that c created, "none" if none
  done      \* history: commands that took effect

browser == <<page, draft>>
server == <<wire, answer, status, done>>
vars == <<browser, origin, payload, target, pc, outcome, server>>

Outcomes ==
  {"none", "success", "acceptance", "invalid", "refused", "rejected", "unavailable", "crash",
   "nosites"}
PageStates == {"editing", "waiting", "closed", "lost", "stuck"}
Answers == Creates \cup {"none", "ok", "refused"}

TypeOK ==
  /\ page \in [Pages -> PageStates]
  /\ draft \in [Pages -> Inputs]
  /\ origin \in [Creates -> Pages \cup {None}]
  /\ \A c \in Creates :
       payload[c] # None => payload[c].site \in Sites /\ payload[c].dest \in Sites \cup {None}
  /\ target \in [Commands -> Creates \cup {None}]
  /\ pc \in [Requests -> {"new", "building", "sent", "done"}]
  /\ wire \subseteq Requests
  /\ answer \in [Requests -> Answers]
  /\ outcome \in [Requests -> Outcomes]
  /\ status \in [Creates -> {"none", "draft", "submitted", "cancelled"}]
  /\ done \subseteq Commands

Exists(o) == status[o] # "none"

Init ==
  /\ page = [p \in Pages |-> "editing"]
  /\ draft \in [Pages -> Inputs]
  /\ origin = [c \in Creates |-> None]
  /\ payload = [c \in Creates |-> None]
  /\ target = [k \in Commands |-> None]
  /\ pc = [r \in Requests |-> "new"]
  /\ wire = {}
  /\ answer = [r \in Requests |-> "none"]
  /\ outcome = [r \in Requests |-> "none"]
  /\ status = [c \in Creates |-> "none"]
  /\ done = {}

Finish(r, message) ==
  /\ pc' = [pc EXCEPT ![r] = "done"]
  /\ outcome' = [outcome EXCEPT ![r] = message]

-----------------------------------------------------------------------------
(* Creating an operation. *)

\* The user changes the draft of an open form.
Edit(p) ==
  /\ page[p] = "editing"
  /\ \E d \in Inputs \ {draft[p]} : draft' = [draft EXCEPT ![p] = d]
  /\ UNCHANGED <<page, origin, payload, target, pc, outcome, server>>

\* The browser refuses the draft with an alert.  The submit event still reaches the
\* listener that locks the form: the overlay covers the page, and nothing takes it away.
Stick(p) ==
  /\ page[p] = "editing"
  /\ ~BrowserOk(draft[p])
  /\ page' = [page EXCEPT ![p] = "stuck"]
  /\ UNCHANGED <<draft, origin, payload, target, pc, outcome, server>>

\* Mutant: the form is not locked while its POST runs.
PressMutant(p, c) ==
  /\ page[p] = "editing"
  /\ BrowserOk(draft[p])
  /\ pc[c] = "new"
  /\ pc' = [pc EXCEPT ![c] = "building"]
  /\ origin' = [origin EXCEPT ![c] = p]
  /\ UNCHANGED <<page, draft, payload, target, outcome, server>>

\* The user sends the form, which is locked until it is rendered anew.
Press(p, c) ==
  /\ page[p] = "editing"
  /\ BrowserOk(draft[p])
  /\ pc[c] = "new"
  /\ page' = [page EXCEPT ![p] = "waiting"]
  /\ pc' = [pc EXCEPT ![c] = "building"]
  /\ origin' = [origin EXCEPT ![c] = p]
  /\ UNCHANGED <<draft, payload, target, outcome, server>>

\* The form is rendered again around the draft it was sent with.  Past the validation the
\* user has a warehouse to operate, so that there is a form to render.
Rerender(c, message) ==
  /\ Finish(c, message)
  /\ page' = [page EXCEPT ![origin[c]] = "editing"]
  /\ UNCHANGED draft

\* What takes the place of the form does not hold the draft.
Lose(c, message) ==
  /\ Finish(c, message)
  /\ page' = [page EXCEPT ![origin[c]] = "lost"]
  /\ UNCHANGED draft

(* get_all_sites asks, as root, for every warehouse, and as the user for   *)
(* the user's own when that fails.  Nothing catches the error when this    *)
(* fails too: a server error page takes the place of the form.             *)
SitesCrash(c) ==
  /\ pc[c] = "building"
  /\ Lose(c, "crash")
  /\ UNCHANGED <<origin, payload, target, server>>

\* The create call of c is under way, its payload as it was built.
Sends(c) == wire' = wire \cup {c}

(* The view reads the user's warehouses and builds the payload.            *)
(* Destinations are all the warehouses there are, or those the user has    *)
(* access to.  An error counts as no warehouse to operate at all: then     *)
(* there is no payload, and the page shows a card in place of the form.    *)
Build(c) ==
  /\ pc[c] = "building"
  /\ LET p == origin[c]
     IN  \E operable \in {Operable[p], {}}, known \in {Sites, Available[p]} :
           IF DraftOk(draft[p], FixedSite[p], operable, known)
           THEN /\ payload' = [payload EXCEPT ![c] = Payload(draft[p], FixedSite[p], c)]
                /\ pc' = [pc EXCEPT ![c] = "sent"]
                /\ Sends(c)
                /\ UNCHANGED <<browser, outcome>>
           ELSE /\ IF operable = {} THEN Lose(c, "nosites") ELSE Rerender(c, "invalid")
                /\ UNCHANGED <<payload, wire>>
  /\ UNCHANGED <<origin, target, answer, status, done>>

\* Mutant: the page is left whatever the answer is.
CreateAnsweredMutant(c) ==
  /\ pc[c] = "sent"
  /\ answer[c] # "none"
  /\ Finish(c, IF answer[c] = "refused" THEN "refused" ELSE "success")
  /\ page' = [page EXCEPT ![origin[c]] = "closed"]
  /\ UNCHANGED <<draft, origin, payload, target, server>>

\* Success leaves the form for the operation's own page; an error comes back to it.
CreateAnswered(c) ==
  /\ pc[c] = "sent"
  /\ \/ /\ answer[c] \in Creates
        /\ Finish(c, "success")
        /\ page' = [page EXCEPT ![origin[c]] = "closed"]
        /\ UNCHANGED draft
     \/ answer[c] = "refused" /\ Rerender(c, "refused")
  /\ UNCHANGED <<origin, payload, target, server>>

\* Mutant: a call that got no answer is reported as refused.
CreateTimesOutMutant(c) ==
  /\ pc[c] = "sent"
  /\ Rerender(c, "refused")
  /\ UNCHANGED <<origin, payload, target, server>>

\* Mutant: the client has no timeout and waits for an answer.
CreateTimesOutNever(c) == FALSE

\* The call may have been carried out already, and may still be.
CreateTimesOut(c) ==
  /\ pc[c] = "sent"
  /\ Rerender(c, "unavailable")
  /\ UNCHANGED <<origin, payload, target, server>>

-----------------------------------------------------------------------------
(* Submitting and cancelling. *)

\* A button of a page that may have been rendered long ago: the operation existed then.
Order(k) ==
  /\ pc[k] = "new"
  /\ \E o \in Creates : Exists(o) /\ target' = [target EXCEPT ![k] = o]
  /\ pc' = [pc EXCEPT ![k] = "sent"]
  /\ wire' = wire \cup {k}
  /\ UNCHANGED <<browser, origin, payload, outcome, answer, status, done>>

(* After a success the user is sent back; after the submit of a RECEIVE to *)
(* its acceptance, if the operation can be read once more.  An error of a  *)
(* submit is always shown as "rejected".                                   *)
CommandAnswered(k) ==
  /\ pc[k] = "sent"
  /\ \/ answer[k] = "ok" /\ Finish(k, "success")
     \/ /\ answer[k] = "ok" /\ k \in Submits
        /\ payload[target[k]].type = "RECEIVE"
        /\ Finish(k, "acceptance")
     \/ answer[k] = "refused" /\ Finish(k, IF k \in Submits THEN "rejected" ELSE "refused")
  /\ UNCHANGED <<browser, origin, payload, target, server>>

\* The message of a failed submit says "rejected" here too.
CommandTimesOut(k) ==
  /\ pc[k] = "sent"
  /\ Finish(k, IF k \in Submits THEN "rejected" ELSE "unavailable")
  /\ UNCHANGED <<browser, origin, payload, target, server>>

-----------------------------------------------------------------------------
(* The server, external: one transaction per call. *)

Handled(r, reply) ==
  /\ r \in wire
  /\ wire' = wire \ {r}
  /\ answer' = [answer EXCEPT ![r] = reply]
  /\ UNCHANGED <<browser, origin, payload, target, pc, outcome>>

\* A client_request_id names one operation: a call that repeats it gets that operation.
SameKey(c) == {o \in Creates : Exists(o) /\ payload[c].key # None
                                         /\ payload[o].key = payload[c].key}

Create(c) ==
  /\ c \in wire
  /\ IF SameKey(c) = {}
     THEN Handled(c, c) /\ status' = [status EXCEPT ![c] = "draft"]
     ELSE (\E o \in SameKey(c) : Handled(c, o)) /\ UNCHANGED status
  /\ UNCHANGED done

Takes(k, from, to) ==
  /\ k \in wire
  /\ status[target[k]] \in from
  /\ Handled(k, "ok")
  /\ status' = [status EXCEPT ![target[k]] = to]
  /\ done' = done \cup {k}

Submit(k) == k \in Submits /\ Takes(k, {"draft"}, "submitted")
Cancel(k) == k \in Cancels /\ Takes(k, {"draft", "submitted"}, "cancelled")

\* 409, 422, 403, 501 or 5xx: the call has no effect.
Refuse(r) == Handled(r, "refused") /\ UNCHANGED <<status, done>>

\* The call never reaches the server.
LoseCall(r) ==
  /\ r \in wire
  /\ wire' = wire \ {r}
  /\ UNCHANGED <<browser, origin, payload, target, pc, outcome, answer, status, done>>

-----------------------------------------------------------------------------
View(r) ==
  \/ r \in Creates /\ (Build(r) \/ SitesCrash(r) \/ CreateAnswered(r) \/ CreateTimesOut(r))
  \/ r \in Commands /\ (CommandAnswered(r) \/ CommandTimesOut(r))

Next ==
  \/ \E p \in Pages : Edit(p) \/ Stick(p) \/ \E c \in Creates : Press(p, c)
  \/ \E k \in Commands : Order(k) \/ Submit(k) \/ Cancel(k)
  \/ \E c \in Creates : Create(c)
  \/ \E r \in Requests : View(r) \/ Refuse(r) \/ LoseCall(r)

Spec == Init /\ [][Next]_vars

\* The web workers run, and every HTTP call ends in an answer or a timeout.
FairSpec == Spec /\ \A r \in Requests : WF_vars(View(r))

-----------------------------------------------------------------------------
(* Properties *)

\* The server holds an operation with the content of the draft in form p.
Stored(p) ==
  \E o \in Creates :
    /\ Exists(o)
    /\ Content(payload[o]) = Content(Payload(draft[p], FixedSite[p], None))

WellFormed(w) ==
  /\ w.lines # <<>>
  /\ w.type = "MOVE" <=> w.dest # None
  /\ w.site # w.dest
  /\ \A i \in DOMAIN w.lines :
       /\ w.lines[i].qty < 0 => w.type = "ADJUSTMENT"
       /\ \A j \in DOMAIN w.lines \ {i} :
            w.lines[i].item # None => w.lines[i].item # w.lines[j].item

\* An operation the server stores was worth storing: it has lines, no item twice, a
\* quantity below zero only in an adjustment, and a move ends somewhere else.
StoredIsWellFormed ==
  \A o \in Creates : Exists(o) => WellFormed(payload[o])

\* The messages are true and stay true.  "unavailable" and a submit's "rejected" promise
\* nothing here: see SubmitRejectionIsTrue.
MessageTellsTruth ==
  /\ \A c \in Creates :
       /\ outcome[c] = "success" => \E o \in Creates : Exists(o) /\ answer[c] = o
       /\ outcome[c] \in {"invalid", "refused", "nosites", "crash"}
            => c \notin wire /\ ~Exists(c)
  /\ \A k \in Commands :
       /\ outcome[k] \in {"success", "acceptance"} => k \in done
       /\ outcome[k] = "refused" => k \notin done \cup wire

\* The user is only sent on from a form once the server holds an operation with exactly
\* the content of its draft.  A POST that loses the draft instead is one of which nothing
\* was or will be sent, because a reading of the warehouses failed: no refusal or timeout
\* of the create call, and no answer that comes late, loses or swaps a draft.
LeftFormIsStored ==
  \A p \in Pages :
    /\ page[p] = "closed" => Stored(p)
    /\ page[p] = "lost" =>
         \E c \in Creates : /\ origin[c] = p /\ outcome[c] \in {"crash", "nosites"}
                           /\ c \notin wire /\ ~Exists(c)

\* One form makes a second operation only after a call of it got no answer.
SecondOnlyAfterTimeout ==
  \A c, d \in Creates :
    c # d /\ Exists(c) /\ Exists(d) /\ origin[c] = origin[d]
      => "unavailable" \in {outcome[c], outcome[d]}

\* Every press of a button ends in a message, were it that of a server error.
EveryPressAnswered ==
  \A r \in Requests : pc[r] \in {"building", "sent"} ~> pc[r] = "done"

\* docs/temporary_items_client_recommendation.md:378: sending a draft with temporary lines
\* again creates no second operation.
ResendCreatesOnce ==
  \A c, d \in Creates :
    /\ Exists(c) /\ Exists(d)
    /\ origin[c] = origin[d]
    /\ Content(payload[c]) = Content(payload[d])
    /\ payload[c].key # None
    => c = d

\* docs/unified_api_error_handling.md:167-169: views degrade instead of failing, and forms
\* keep what was entered.  So a form that is gone has been stored.
NoDraftIsLost ==
  \A p \in Pages : page[p] \in {"closed", "lost"} => Stored(p)

\* apps/operations/views.py:312-319: what is shown as rejected has not been submitted and
\* will not be.
SubmitRejectionIsTrue ==
  \A k \in Submits : outcome[k] = "rejected" => k \notin done \cup wire
=============================================================================
