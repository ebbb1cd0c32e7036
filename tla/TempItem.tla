------------------------------ MODULE TempItem ------------------------------
(***************************************************************************)
(* Moderation of temporary items (apps/temporary_items/views.py): an item  *)
(* that an operation invented becomes a card of the catalogue              *)
(* (TemporaryItemApproveView), is merged into an existing card             *)
(* (TemporaryItemMergeView), or is deleted (TemporaryItemDeleteView).      *)
(*                                                                         *)
(* The conversion is a saga of two calls: the card is created, then the    *)
(* temporary item is merged into it, and the card is removed again when    *)
(* the merge fails.  Every call can fail, get no answer, or be carried out *)
(* after the client gave up.  The moderators do not wait for each other;   *)
(* who may not manage the catalogue is turned away before any of this.     *)
(***************************************************************************)
EXTENDS Naturals

CONSTANTS
  Temps,      \* temporary items
  Cards,      \* cards of the catalogue there are at first
  Approvals,  \* POSTs of the conversion form; also the ids of the cards they create
  Merges,     \* POSTs of the merge form
  Deletes,    \* POSTs of the delete form
  None        \* no item

Requests == Approvals \cup Merges \cup Deletes
Calls == (Approvals \X {"create", "merge", "remove"})
           \cup (Merges \X {"merge"}) \cup (Deletes \X {"delete"})

ASSUME TempItemAssumption ==
  /\ Cards \cap Approvals = {} /\ Approvals \cap Merges = {}
  /\ (Approvals \cup Merges) \cap Deletes = {}
  /\ None \notin Temps \cup Cards \cup Approvals
  /\ {"active", "deleted"} \cap (Cards \cup Approvals) = {}

VARIABLES
  pc,       \* pc[r]: "new", "load", the verb of the call r waits for, or "done"
  temp,     \* temp[r]: the temporary item r is about
  target,   \* target[r]: the card r merges it into
  wire,     \* calls the server has yet to handle
  answer,   \* answer[c]: what the server replied to call c
  outcome,  \* outcome[r]: the message the moderator is shown
  fate,     \* fate[t]: "active", "deleted", or the card t was merged into
  catalog,  \* cards of the catalogue
  gaveUp    \* history: calls the client stopped waiting for

web == <<pc, temp, target, outcome, gaveUp>>
server == <<wire, answer, fate, catalog>>
vars == <<web, server>>

Outcomes ==
  {"none", "success", "invalid", "notloaded", "refused", "unavailable", "removed", "review"}

TypeOK ==
  /\ pc \in [Requests -> {"new", "load", "create", "merge", "remove", "delete", "done"}]
  /\ temp \in [Requests -> Temps \cup {None}]
  /\ target \in [Requests -> Cards \cup Approvals \cup {None}]
  /\ wire \subseteq Calls
  /\ answer \in [Calls -> {"none", "ok", "refused"}]
  /\ outcome \in [Requests -> Outcomes]
  /\ fate \in [Temps -> Cards \cup Approvals \cup {"active", "deleted"}]
  /\ catalog \subseteq Cards \cup Approvals
  /\ gaveUp \subseteq Calls

Init ==
  /\ pc = [r \in Requests |-> "new"]
  /\ temp = [r \in Requests |-> None]
  /\ target = [r \in Requests |-> None]
  /\ wire = {}
  /\ answer = [c \in Calls |-> "none"]
  /\ outcome = [r \in Requests |-> "none"]
  /\ fate = [t \in Temps |-> "active"]
  /\ catalog = Cards
  /\ gaveUp = {}

Finish(r, message) ==
  /\ pc' = [pc EXCEPT ![r] = "done"]
  /\ outcome' = [outcome EXCEPT ![r] = message]
  /\ UNCHANGED wire

Send(r, verb) ==
  /\ pc' = [pc EXCEPT ![r] = verb]
  /\ wire' = wire \cup {<<r, verb>>}
  /\ UNCHANGED outcome

Choose(r, t) == pc[r] = "new" /\ temp' = [temp EXCEPT ![r] = t]

Waits(r, verb) == pc[r] = verb /\ <<r, verb>> \in Calls
Replied(r, verb, reply) == Waits(r, verb) /\ answer[<<r, verb>>] = reply /\ UNCHANGED gaveUp
GivesUp(r, verb) == Waits(r, verb) /\ gaveUp' = gaveUp \cup {<<r, verb>>}
NoReply(r, verb) == Replied(r, verb, "refused") \/ GivesUp(r, verb)

-----------------------------------------------------------------------------
(* The conversion. *)

Convert(r, t) ==
  /\ Choose(r, t)
  /\ pc' = [pc EXCEPT ![r] = "load"]
  /\ UNCHANGED <<target, outcome, gaveUp, server>>

(* The temporary item is read before anything else, but what has become of *)
(* it is not looked at.  The form is invalid too when the categories or    *)
(* the units, which it must choose from, could not be read.                *)
Load(r) ==
  /\ pc[r] = "load"
  /\ \/ Finish(r, "notloaded")
     \/ Finish(r, "invalid")
     \/ Send(r, "create")
  /\ UNCHANGED <<temp, target, gaveUp, answer, fate, catalog>>

CardCreated(r) ==
  /\ r \in Approvals
  /\ \/ /\ Replied(r, "create", "ok")
        /\ target' = [target EXCEPT ![r] = r]
        /\ Send(r, "merge")
     \/ /\ \/ Replied(r, "create", "refused") /\ Finish(r, "refused")
           \/ GivesUp(r, "create") /\ Finish(r, "unavailable")
        /\ UNCHANGED target
  /\ UNCHANGED <<temp, answer, fate, catalog>>

\* Mutant: the card is removed whatever became of the merge.
ConvertedMutant(r) ==
  /\ r \in Approvals
  /\ Replied(r, "merge", "ok") \/ NoReply(r, "merge")
  /\ Send(r, "remove")
  /\ UNCHANGED <<temp, target, answer, fate, catalog>>

\* Mutant: no card is removed.
ConvertedLeave(r) ==
  /\ r \in Approvals
  /\ \/ Replied(r, "merge", "ok") /\ Finish(r, "success")
     \/ NoReply(r, "merge") /\ Finish(r, "removed")
  /\ UNCHANGED <<temp, target, answer, fate, catalog>>

\* The card is removed again when the merge is refused, or gets no answer.
Converted(r) ==
  /\ r \in Approvals
  /\ \/ Replied(r, "merge", "ok") /\ Finish(r, "success")
     \/ NoReply(r, "merge") /\ Send(r, "remove")
  /\ UNCHANGED <<temp, target, answer, fate, catalog>>

\* Mutant: the result of the removal is not looked at.
CardRemovedMutant(r) ==
  /\ Replied(r, "remove", "ok") \/ NoReply(r, "remove")
  /\ Finish(r, "removed")
  /\ UNCHANGED <<temp, target, answer, fate, catalog>>

\* The message adds what became of the card: "removed", or it needs a look ("review").
CardRemoved(r) ==
  /\ \/ Replied(r, "remove", "ok") /\ Finish(r, "removed")
     \/ NoReply(r, "remove") /\ Finish(r, "review")
  /\ UNCHANGED <<temp, target, answer, fate, catalog>>

-----------------------------------------------------------------------------
(* Merging into an existing card, and deleting. *)

(* The card is chosen in a list of search results, which may show cards    *)
(* that are gone: any card the server has ever created.                    *)
Merge(r, t) ==
  /\ Choose(r, t)
  /\ \/ /\ \E g \in Cards \cup {a \in Approvals : answer[<<a, "create">>] = "ok"} :
             target' = [target EXCEPT ![r] = g]
        /\ Send(r, "merge")
     \/ Finish(r, "invalid") /\ UNCHANGED target
  /\ UNCHANGED <<gaveUp, answer, fate, catalog>>

\* Mutant: the item is deleted with the endpoint that deletes a card.
DeleteMutant(r, t) ==
  /\ Choose(r, t)
  /\ Send(r, "remove")
  /\ UNCHANGED <<target, gaveUp, answer, fate, catalog>>

Delete(r, t) ==
  /\ Choose(r, t)
  /\ Send(r, "delete")
  /\ UNCHANGED <<target, gaveUp, answer, fate, catalog>>

\* An answer to either is shown as it is.  There is no second call.
Answered(r) ==
  /\ r \notin Approvals
  /\ \E verb \in {"merge", "delete"} :
       \/ Replied(r, verb, "ok") /\ Finish(r, "success")
       \/ Replied(r, verb, "refused") /\ Finish(r, "refused")
       \/ GivesUp(r, verb) /\ Finish(r, "unavailable")
  /\ UNCHANGED <<temp, target, answer, fate, catalog>>

-----------------------------------------------------------------------------
(* The server, external: one transaction per call.  A call that gets lost stays in wire. *)

Handled(r, verb, reply) ==
  /\ <<r, verb>> \in wire
  /\ wire' = wire \ {<<r, verb>>}
  /\ answer' = [answer EXCEPT ![<<r, verb>>] = reply]
  /\ UNCHANGED web

CreateCard(r) ==
  /\ Handled(r, "create", "ok")
  /\ catalog' = catalog \cup {r}
  /\ UNCHANGED fate

\* Only an active item is merged, and only into a card that is there.
MergeItem(r) ==
  /\ Handled(r, "merge", "ok")
  /\ fate[temp[r]] = "active" /\ target[r] \in catalog
  /\ fate' = [fate EXCEPT ![temp[r]] = target[r]]
  /\ UNCHANGED catalog

\* Nothing says that the server keeps a card that items were merged into.
RemoveCard(r) ==
  /\ Handled(r, "remove", "ok")
  /\ r \in catalog
  /\ catalog' = catalog \ {r}
  /\ UNCHANGED fate

DeleteItem(r) ==
  /\ Handled(r, "delete", "ok")
  /\ fate[temp[r]] = "active"
  /\ fate' = [fate EXCEPT ![temp[r]] = "deleted"]
  /\ UNCHANGED catalog

\* 404, 409, 422, 403 or 5xx: the call has no effect.
Refuse(c) == Handled(c[1], c[2], "refused") /\ UNCHANGED <<fate, catalog>>

-----------------------------------------------------------------------------
View(r) == Load(r) \/ CardCreated(r) \/ Converted(r) \/ CardRemoved(r) \/ Answered(r)

Next ==
  \/ \E t \in Temps :
       \/ \E r \in Approvals : Convert(r, t)
       \/ \E r \in Merges : Merge(r, t)
       \/ \E r \in Deletes : Delete(r, t)
  \/ \E r \in Requests : View(r) \/ MergeItem(r)
  \/ \E r \in Approvals : CreateCard(r) \/ RemoveCard(r)
  \/ \E r \in Deletes : DeleteItem(r)
  \/ \E c \in Calls : Refuse(c)

Spec == Init /\ [][Next]_vars

-----------------------------------------------------------------------------
(* Properties *)

Failed(r) == outcome[r] \in {"invalid", "notloaded", "refused"}

\* What the moderator is told is true and stays true: a conversion that succeeded has its
\* item in its own card, which stays; "removed" means the card is gone for good; and what
\* is said to have failed leaves no trace and no call that could still take effect.
MessageTellsTruth ==
  \A r \in Requests :
    /\ outcome[r] = "success" =>
         fate[temp[r]] = IF r \in Deletes THEN "deleted" ELSE target[r]
    /\ r \in Approvals =>
         /\ outcome[r] = "success" => r \in catalog
         /\ outcome[r] = "removed" => r \notin catalog /\ <<r, "create">> \notin wire
         /\ Failed(r) => r \notin catalog
    /\ Failed(r) => \A c \in wire : c[1] # r

\* No conversion leaves an unused card behind that nobody was told to look for: the
\* compensation removes it, or the moderator sees that it could not, or that the very
\* call that creates it got no answer.
NoSilentOrphan ==
  \A r \in Approvals :
    pc[r] = "done" /\ r \in catalog /\ fate[temp[r]] # r
      => outcome[r] \in {"review", "unavailable"}

\* The compensation takes the card from under an item only if the merge was carried out
\* and its answer lost, or if another moderator merged into a card still being converted.
CardLostOnlyByTimeout ==
  \A t \in Temps : fate[t] \in Approvals \ catalog =>
    \/ <<fate[t], "merge">> \in gaveUp
    \/ \E m \in Merges : temp[m] = t /\ target[m] = fate[t]
=============================================================================
