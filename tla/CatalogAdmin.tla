---------------------------- MODULE CatalogAdmin ----------------------------
(***************************************************************************)
(* Management of the catalogue: the forms that create and edit categories, *)
(* cards and units, and the commands that delete, merge and split them     *)
(* (apps/catalog/views.py over CatalogService and CatalogAPI).             *)
(*                                                                         *)
(* A form is filled from two reads, the list of the categories, page by    *)
(* page, and the edited object; when it is sent the list is read again to  *)
(* validate the choice, and every field is sent, touched or not.  The      *)
(* place of an object is its parent (a category) or its category (a card). *)
(* Several administrators work at the same time, and every call can fail,  *)
(* time out, or be carried out late.                                       *)
(***************************************************************************)
EXTENDS Integers, FiniteSets

CONSTANTS
  Cats, Items, Units,  \* ids of the categories, the cards and the units
  Uncat,               \* the system category, which the forms do not offer
  New,                 \* ids that the server gives to what is created
  Nowhere,             \* no parent; in the form of a card: no category
  Names,
  Name0, Place0,       \* the name of everything, and where n is, at first
  PageSize,            \* rows per page of a list of the administration (100)
  Admins,              \* requests: a page that is opened and the POST of its form
  KindsOf              \* KindsOf[r]: what r may be

Nodes == Cats \cup Items \cup Units
Places == Cats \cup {Nowhere}

ASSUME CatalogAdminAssumption ==
  /\ Nodes \subseteq Nat /\ IsFiniteSet(Nodes)
  /\ Cats \cap Items = {} /\ Cats \cap Units = {} /\ Items \cap Units = {}
  /\ Uncat \in Cats /\ New \subseteq Nodes \ {Uncat}
  /\ Nowhere \notin Nodes
  /\ Name0 \in Names /\ Place0 \in [Nodes -> Places]
  /\ PageSize \in Nat \ {0}
  /\ KindsOf \in [Admins -> SUBSET {"edit", "create", "delete", "merge", "split"}]

\* At first everything lies in a category that exists, or nowhere; a card lies in one.
ASSUME Place0Assumption ==
  /\ \A n \in Nodes \ New : Place0[n] \in (Cats \ (New \cup {n})) \cup {Nowhere}
  /\ \A i \in Items \ New : Place0[i] # Nowhere
  /\ \A u \in Units : Place0[u] = Nowhere

VARIABLES
  live,     \* the objects that exist
  created,  \* the ids of New that were given away
  place,    \* place[n]: parent of a category, category of a card
  name,     \* name[n]
  wire,     \* requests whose command the server has yet to handle
  answer,   \* answer[r]: what the server replied to that command
  pc,       \* pc[r]: where the view of r is
  job,      \* job[r]: what r is about: kind, object, and the target of a merge
  rows,     \* rows[r]: the categories the list of r has brought so far
  page,     \* page[r]: the page of the list to ask for next
  form,     \* form[r]: the fields of the form
  touched,  \* touched[r]: the fields the user has changed
  outcome,  \* outcome[r]: what the user is shown
  failed,   \* history: a list that r needed could not be read
  raced,    \* history: another request was carried out since r began
  stale     \* history: another request changed the name of r's object since r read it

catalog == <<live, created, place, name>>
server == <<catalog, wire, answer, raced, stale>>
view == <<job, rows, page, form, touched, outcome, failed>>
adminVars == <<server, pc, view>>

Jobs ==
  [kind : {"edit", "delete", "split"}, node : Nodes \ {Uncat}, target : {Nowhere}]
    \cup [kind : {"create"}, node : New, target : {Nowhere}]
    \cup [kind : {"merge"}, node : Cats \cup Items, target : Cats \cup Items]

TypeOK ==
  /\ live \subseteq Nodes /\ Uncat \in live
  /\ created \subseteq New
  /\ place \in [Nodes -> Places]
  /\ \A i \in Items \cap live : place[i] \in Cats
  /\ name \in [Nodes -> Names]
  /\ wire \subseteq Admins
  /\ answer \in [Admins -> {"none", "success", "notfound", "refused"}]
  /\ pc \in [Admins -> {"new", "listing", "getting", "form", "rechecking", "relisting",
                        "checking", "sent", "done"}]
  /\ job \in [Admins -> Jobs \cup {[kind |-> "none", node |-> Uncat, target |-> Nowhere]}]
  /\ rows \in [Admins -> SUBSET Cats]
  /\ page \in [Admins -> 1 .. Cardinality(Cats) + 1]
  /\ form \in [Admins -> [name : Names, place : Places]]
  /\ touched \in [Admins -> SUBSET {"name", "place"}]
  /\ outcome \in [Admins -> {"none", "success", "notfound", "refused", "invalid", "unavailable"}]
  /\ failed \in [Admins -> BOOLEAN]
  /\ raced \in [Admins -> BOOLEAN]
  /\ stale \in [Admins -> BOOLEAN]

AdminInit ==
  /\ live = Nodes \ New
  /\ created = {}
  /\ place = Place0
  /\ name = [n \in Nodes |-> Name0]
  /\ wire = {}
  /\ answer = [r \in Admins |-> "none"]
  /\ pc = [r \in Admins |-> "new"]
  /\ job = [r \in Admins |-> [kind |-> "none", node |-> Uncat, target |-> Nowhere]]
  /\ rows = [r \in Admins |-> {}]
  /\ page = [r \in Admins |-> 1]
  /\ form = [r \in Admins |-> [name |-> Name0, place |-> Nowhere]]
  /\ touched = [r \in Admins |-> {}]
  /\ outcome = [r \in Admins |-> "none"]
  /\ failed = [r \in Admins |-> FALSE]
  /\ raced = [r \in Admins |-> FALSE]
  /\ stale = [r \in Admins |-> FALSE]

-----------------------------------------------------------------------------
(* Lists come in pages, ordered by id.                                     *)

RankIn(S, n) == Cardinality({m \in S : m <= n})
PageOfSet(S, p, size) ==
  {n \in S : (p - 1) * size < RankIn(S, n) /\ RankIn(S, n) <= p * size}

\* _resolve_total_pages, from total_pages or from total_count
TotalPages(S, size) == IF S = {} THEN 1 ELSE (Cardinality(S) + size - 1) \div size

\* Mutant: the first page is taken for all of them.
LastPageMutant(S, p, size) == TRUE

\* Mutant: the loop goes on until a page fails.
LastPageNever(S, p, size) == FALSE

\* The loops of _collect_admin_pages and browse_all_items stop after page p.
LastPage(S, p, size) == p >= TotalPages(S, size) \/ PageOfSet(S, p, size) = {}

Go(r, stage) == pc' = [pc EXCEPT ![r] = stage]

End(r, message) ==
  /\ Go(r, "done")
  /\ outcome' = [outcome EXCEPT ![r] = message]
  /\ rows' = [rows EXCEPT ![r] = {}]
  /\ UNCHANGED <<server, job, page, form, touched, failed>>

-----------------------------------------------------------------------------
(* Pages that are opened.                                                  *)

HasPlace(n) == n \in Cats \cup Items

\* Where opening the page of a job starts.  The commands without a page that reads are
\* sent at once; the page that confirms the deletion of a category reads it.
FirstStage(j) ==
  IF j.kind \in {"edit", "create"} THEN
    IF HasPlace(j.node) THEN "listing" ELSE IF j.kind = "edit" THEN "getting" ELSE "form"
  ELSE IF j.kind = "split" \/ (j.kind = "delete" /\ j.node \in Cats) THEN "getting"
  ELSE "sent"

\* What the pages offer: links of objects that are listed, and a merge of two of a kind.
Offers(j) ==
  CASE j.kind \in {"edit", "delete"} -> j.node \in live
    [] j.kind = "split" -> j.node \in live \cap Items
    [] j.kind = "create" -> TRUE
    [] j.kind = "merge" ->
         {j.node, j.target} \subseteq live \ {Uncat} /\ (j.node \in Cats <=> j.target \in Cats)

\* The command of r is under way.
Sends(r) == wire' = wire \cup {r}

Open(r, j) ==
  /\ pc[r] = "new"
  /\ j.kind \in KindsOf[r]
  /\ Offers(j)
  /\ job' = [job EXCEPT ![r] = j]
  /\ Go(r, FirstStage(j))
  /\ IF FirstStage(j) = "sent" THEN Sends(r) ELSE UNCHANGED wire
  /\ UNCHANGED <<catalog, answer, raced, stale, rows, page, form, touched, outcome, failed>>

\* The stage after the list: of the page that is opened, and of the POST.
AfterList(r) ==
  IF pc[r] = "relisting" THEN "checking"
  ELSE IF job[r].kind = "edit" THEN "getting" ELSE "form"

\* One page of the list of categories; the system category is filtered out.
ListPage(r) ==
  /\ pc[r] \in {"listing", "relisting"}
  /\ LET listed == live \cap Cats
     IN  /\ rows' = [rows EXCEPT ![r] = @ \cup (PageOfSet(listed, page[r], PageSize) \ {Uncat})]
         /\ \/ /\ LastPage(listed, page[r], PageSize)
               /\ page' = [page EXCEPT ![r] = 1]
               /\ Go(r, AfterList(r))
            \/ /\ ~LastPage(listed, page[r], PageSize)
               /\ page' = [page EXCEPT ![r] = @ + 1]
               /\ UNCHANGED pc
  /\ UNCHANGED <<server, job, form, touched, outcome, failed>>

(* The list fails: what was collected is dropped.  The form of a category  *)
(* that exists becomes "not found"; every other view goes on without any   *)
(* choices, the form of a card with no more than a message.                *)
ListFails(r) ==
  /\ pc[r] \in {"listing", "relisting"}
  /\ rows' = [rows EXCEPT ![r] = {}]
  /\ page' = [page EXCEPT ![r] = 1]
  /\ failed' = [failed EXCEPT ![r] = TRUE]
  /\ \/ /\ pc[r] = "listing" /\ job[r].kind = "edit" /\ job[r].node \in Cats
        /\ Go(r, "done")
        /\ outcome' = [outcome EXCEPT ![r] = "notfound"]
     \/ /\ ~(pc[r] = "listing" /\ job[r].kind = "edit" /\ job[r].node \in Cats)
        /\ Go(r, AfterList(r))
        /\ UNCHANGED outcome
  /\ UNCHANGED <<server, job, form, touched>>

\* The fields of the form as rendered: a place that is not among the choices is blank.
Filled(r) ==
  LET n == job[r].node
  IN  [name |-> name[n],
       place |-> IF place[n] \in rows[r] \ {n} THEN place[n] ELSE Nowhere]

(* The object is read: to fill the form, to offer its division, or to      *)
(* confirm its deletion.  An object that is gone, and a read that fails,   *)
(* both end as "not found".                                                *)
Gets(r, kind) ==
  /\ pc[r] = "getting"
  /\ job[r].kind = kind
  /\ job[r].node \in live
  /\ UNCHANGED <<catalog, wire, answer, raced, job, rows, page, touched, outcome, failed>>

GetToEdit(r) ==
  /\ Gets(r, "edit")
  /\ form' = [form EXCEPT ![r] = Filled(r)]
  /\ Go(r, "form")
  /\ stale' = [stale EXCEPT ![r] = FALSE]

GetToSplit(r) == Gets(r, "split") /\ Go(r, "listing") /\ UNCHANGED <<form, stale>>
GetToDelete(r) == Gets(r, "delete") /\ Go(r, "form") /\ UNCHANGED <<form, stale>>

GetFails(r) == pc[r] \in {"getting", "rechecking"} /\ End(r, "notfound")

-----------------------------------------------------------------------------
(* The POST of a form.                                                     *)

\* The user changes some fields: the place to one that the form offers.
Fill(r, fields, f) ==
  /\ pc[r] = "form"
  /\ job[r].kind \in {"edit", "create", "split"}
  /\ "name" \in fields <=> f.name # form[r].name
  /\ "place" \in fields <=> f.place # form[r].place
  /\ "place" \in fields => /\ HasPlace(job[r].node)
                            /\ f.place \in (rows[r] \ {job[r].node}) \cup {Nowhere}
  /\ job[r].kind = "split" => f.place # Nowhere
  /\ form' = [form EXCEPT ![r] = f]
  /\ touched' = [touched EXCEPT ![r] = fields]
  /\ rows' = [rows EXCEPT ![r] = {}]
  /\ Go(r, IF job[r].kind = "split" THEN "rechecking"
           ELSE IF HasPlace(job[r].node) THEN "relisting" ELSE "checking")
  /\ UNCHANGED <<server, job, page, outcome, failed>>

\* The deletion of a category is confirmed.
Confirm(r) ==
  /\ pc[r] = "form"
  /\ job[r].kind = "delete"
  /\ Go(r, "rechecking")
  /\ UNCHANGED <<server, view>>

\* The object is read once more before it is deleted or divided.
Recheck(r) ==
  /\ pc[r] = "rechecking"
  /\ job[r].node \in live
  /\ Go(r, "sent")
  /\ Sends(r)
  /\ UNCHANGED <<catalog, answer, raced, stale, view>>

\* Mutant: the blank choice is not added to the list.
FormValidMutant(r) == form[r].place \in rows[r] \ {job[r].node}

\* The form is valid: its place is one of the choices of the second list, or blank.
FormValid(r) == form[r].place \in (rows[r] \ {job[r].node}) \cup {Nowhere}

Check(r) ==
  /\ pc[r] = "checking"
  /\ \/ /\ FormValid(r)
        /\ Go(r, "sent")
        /\ Sends(r)
        /\ rows' = [rows EXCEPT ![r] = {}]
        /\ UNCHANGED <<catalog, answer, raced, stale, job, page, form, touched, outcome, failed>>
     \/ ~FormValid(r) /\ End(r, "invalid")

\* A card also needs its unit to be among the units, which are listed the same way.
UnitsFail(r) ==
  /\ pc[r] = "checking"
  /\ job[r].node \in Items
  /\ Go(r, "done")
  /\ outcome' = [outcome EXCEPT ![r] = "invalid"]
  /\ failed' = [failed EXCEPT ![r] = TRUE]
  /\ rows' = [rows EXCEPT ![r] = {}]
  /\ UNCHANGED <<server, job, page, form, touched>>

\* 404 becomes "not found"; any other error is shown with the form.
Receive(r) == pc[r] = "sent" /\ answer[r] # "none" /\ End(r, answer[r])

TimesOut(r) == pc[r] = "sent" /\ End(r, "unavailable")

-----------------------------------------------------------------------------
(* The server, external: one transaction per command.                      *)

\* Command r is answered; every other request under way has been overtaken by it.
Done(r) ==
  /\ r \in wire
  /\ wire' = wire \ {r}
  /\ answer' = [answer EXCEPT ![r] = "success"]
  /\ raced' = [s \in Admins |->
                 raced[s] \/ (s # r /\ pc[s] \notin {"new", "done"}) \/ (s # r /\ s \in wire)]
  /\ stale' = [s \in Admins |->
                 stale[s] \/ (s # r /\ job[s].kind = "edit" /\ name'[job[s].node] # name[job[s].node])]
  /\ UNCHANGED <<pc, view>>

\* A card that is sent without a category goes to the system category.
Category(r) == IF form[r].place = Nowhere THEN Uncat ELSE form[r].place

\* The fields of the form are stored, all of them; a place that is gone is refused.
Updated(r, p) ==
  LET n == job[r].node
  IN  /\ job[r].kind = "edit"
      /\ n \in live
      /\ p \in live \cup {Nowhere}
      /\ place' = [place EXCEPT ![n] = p]
      /\ name' = [name EXCEPT ![n] = form[r].name]
      /\ UNCHANGED <<live, created>>
      /\ Done(r)

UpdateCategory(r) == job[r].node \in Cats /\ Updated(r, form[r].place)
UpdateItem(r) == job[r].node \in Items /\ Updated(r, Category(r))
UpdateUnit(r) == job[r].node \in Units /\ Updated(r, Nowhere)

\* A new object of one of these ids, with the fields of the form.
Stored(r, ids, p) ==
  /\ p \in live \cup {Nowhere}
  /\ \E n \in (New \cap ids) \ created :
       /\ live' = live \cup {n}
       /\ created' = created \cup {n}
       /\ place' = [place EXCEPT ![n] = p]
       /\ name' = [name EXCEPT ![n] = form[r].name]
  /\ Done(r)

Creates(r, ids) == job[r].kind = "create" /\ job[r].node \in ids
CreateCategory(r) == Creates(r, Cats) /\ Stored(r, Cats, form[r].place)
CreateItem(r) == Creates(r, Items) /\ Stored(r, Items, Category(r))
CreateUnit(r) == Creates(r, Units) /\ Stored(r, Units, Nowhere)

\* A division of a card creates another one.
SplitItem(r) ==
  /\ job[r].kind = "split"
  /\ job[r].node \in live
  /\ Stored(r, Items, form[r].place)

\* Everything in category n goes to p; p itself, if it is in n, to where n is, and to the
\* root if n is in p: nothing lies in itself.
MoveContents(n, p) ==
  place' = [m \in Nodes |->
              IF m \notin live \/ place[m] # n THEN place[m]
              ELSE IF m # p THEN p
              ELSE IF place[n] = p THEN Nowhere ELSE place[n]]

\* The object of r is gone, by a command of this kind.
Gone(r, kind, ids) ==
  /\ job[r].kind = kind
  /\ job[r].node \in live \cap ids
  /\ live' = live \ {job[r].node}
  /\ UNCHANGED <<created, name>>
  /\ Done(r)

\* As the page says: what is in a root category goes to the system category, and what is
\* in another one goes to the parent.
DeleteCategory(r) ==
  LET n == job[r].node
  IN  /\ Gone(r, "delete", Cats)
      /\ MoveContents(n, IF place[n] \in live THEN place[n] ELSE Uncat)

DeleteItem(r) == Gone(r, "delete", Items) /\ UNCHANGED place
DeleteUnit(r) == Gone(r, "delete", Units) /\ UNCHANGED place

MergeInto(r, ids) ==
  /\ Gone(r, "merge", ids)
  /\ job[r].target \in live \ {job[r].node}

MergeItems(r) == MergeInto(r, Items) /\ UNCHANGED place
MergeCategories(r) == MergeInto(r, Cats) /\ MoveContents(job[r].node, job[r].target)

Refuse(r) ==
  /\ r \in wire
  /\ wire' = wire \ {r}
  /\ \/ job[r].node \notin live /\ answer' = [answer EXCEPT ![r] = "notfound"]
     \/ answer' = [answer EXCEPT ![r] = "refused"]
  /\ UNCHANGED <<catalog, raced, stale, pc, view>>

\* The command never reaches the server.
LoseCall(r) ==
  /\ r \in wire
  /\ wire' = wire \ {r}
  /\ UNCHANGED <<catalog, answer, raced, stale, pc, view>>

-----------------------------------------------------------------------------
User(r) ==
  \/ \E j \in Jobs : Open(r, j)
  \/ \E fields \in SUBSET {"name", "place"}, f \in [name : Names, place : Places] :
       Fill(r, fields, f)
  \/ Confirm(r)

Handler(r) ==
  \/ ListPage(r) \/ ListFails(r)
  \/ GetToEdit(r) \/ GetToSplit(r) \/ GetToDelete(r) \/ GetFails(r) \/ Recheck(r)
  \/ Check(r) \/ UnitsFail(r) \/ Receive(r) \/ TimesOut(r)

Server(r) ==
  \/ UpdateCategory(r) \/ UpdateItem(r) \/ UpdateUnit(r)
  \/ CreateCategory(r) \/ CreateItem(r) \/ CreateUnit(r) \/ SplitItem(r)
  \/ DeleteCategory(r) \/ DeleteItem(r) \/ DeleteUnit(r)
  \/ MergeItems(r) \/ MergeCategories(r)
  \/ Refuse(r) \/ LoseCall(r)

AdminNext == \E r \in Admins : User(r) \/ Handler(r) \/ Server(r)

-----------------------------------------------------------------------------
(* Properties *)

\* A category that the deletion of its root put into the system category: its form cannot
\* show where it is.
Hidden(n) == n \in Cats /\ place[n] = Uncat

\* A form sends every field, yet saving it leaves a field alone that its user did not
\* touch.  A name is taken back only if somebody else changed it since the form was
\* filled; a place is lost only if somebody else was at work, the list of the categories
\* could not be read, or the category lies in the one the form does not offer.
UntouchedFieldSurvives ==
  [][\A r \in Admins :
       LET n == job[r].node
       IN  job[r].kind = "edit" /\ answer[r] = "none" /\ answer'[r] = "success" =>
             /\ name'[n] = name[n] \/ "name" \in touched[r] \/ stale[r]
             /\ \/ place'[n] = place[n] \/ "place" \in touched[r]
                \/ raced[r] \/ failed[r] \/ Hidden(n)]_adminVars

\* A choice that the form offered is not refused when it comes back, unless somebody else
\* was at work or a list could not be read.
InvalidOnlyByBadList ==
  \A r \in Admins : outcome[r] = "invalid" => raced[r] \/ failed[r]
=============================================================================
