--------------------------- MODULE TempItemProofs ---------------------------
(***************************************************************************)
(* Theorems about TempItem: the moderators of any number of temporary      *)
(* items, each call of theirs handled late, never, or after they gave up.  *)
(***************************************************************************)
EXTENDS TempItem, TLAPS

-----------------------------------------------------------------------------
(* The invariant. *)

\* What the server replied to a call, and whether it has the call or has answered it.
Reply(r, verb) == answer[<<r, verb>>]
Out(r, verb) == <<r, verb>> \in wire \/ Reply(r, verb) # "none"
Abandoned(r, verb) == <<r, verb>> \in gaveUp

\* The conversion has gone on to its second call, or to its third.
Merging(r) == pc[r] \in {"merge", "remove"} \/ outcome[r] \in {"success", "removed", "review"}
Removing(r) == pc[r] = "remove" \/ outcome[r] \in {"removed", "review"}

Verbs == {"create", "merge", "remove", "delete"}

\* A call is answered once, and is about the item that its request chose.
CallInv ==
  /\ \A r \in Requests, verb \in Verbs : <<r, verb>> \in wire => Reply(r, verb) = "none"
  /\ \A r \in Requests :
       /\ pc[r] # "new" => temp[r] \in Temps
       /\ pc[r] # "done" <=> outcome[r] = "none"

\* How far a conversion is, the calls it has made, their answers and its message.
ApprovalOk(r) ==
  /\ pc[r] # "delete"
  /\ Out(r, "create") => pc[r] \notin {"new", "load"} /\ outcome[r] \notin {"invalid", "notloaded"}
  /\ Out(r, "merge") => Merging(r)
  /\ Out(r, "remove") => Removing(r)
  /\ Merging(r) => Reply(r, "create") = "ok" /\ target[r] = r
  /\ Removing(r) => Reply(r, "merge") = "refused" \/ Abandoned(r, "merge")
  /\ outcome[r] = "success" => Reply(r, "merge") = "ok"
  /\ outcome[r] = "refused" => Reply(r, "create") = "refused"
  /\ outcome[r] = "removed" => Reply(r, "remove") = "ok"

Verb(r) == IF r \in Deletes THEN "delete" ELSE "merge"

\* The same of the requests that make one call.
OneCallOk(r) ==
  /\ pc[r] \in {"new", Verb(r), "done"}
  /\ Out(r, Verb(r)) => pc[r] # "new" /\ outcome[r] \notin {"invalid", "notloaded"}
  /\ outcome[r] = "success" => Reply(r, Verb(r)) = "ok"
  /\ outcome[r] = "refused" => Reply(r, Verb(r)) = "refused"
  /\ r \in Merges /\ Out(r, "merge") => target[r] \in Cards \cup Approvals

StageInv ==
  /\ \A r \in Approvals : ApprovalOk(r)
  /\ \A r \in Merges \cup Deletes : OneCallOk(r)

\* A card of a conversion is there from the answer of its creation to that of its removal.
CatalogInv ==
  \A r \in Approvals :
    r \in catalog <=> Reply(r, "create") = "ok" /\ Reply(r, "remove") # "ok"

\* The fate of an item is that of the one merge or deletion of it that was carried out.
FateInv ==
  /\ \A r \in Approvals \cup Merges :
       Reply(r, "merge") = "ok" => fate[temp[r]] = target[r]
  /\ \A r \in Deletes : Reply(r, "delete") = "ok" => fate[temp[r]] = "deleted"
  /\ \A t \in Temps : fate[t] \in Approvals =>
       \E r \in Approvals \cup Merges :
         Reply(r, "merge") = "ok" /\ temp[r] = t /\ target[r] = fate[t]

IInv == TypeOK /\ CallInv /\ StageInv /\ CatalogInv /\ FateInv

-----------------------------------------------------------------------------
(* Lemmas about requests and their calls. *)

LEMMA CallsOf ==
  /\ \A r, verb : <<r, verb>> \in Calls => r \in Requests /\ verb \in Verbs
  /\ \A r, verb : <<r, verb>> \in Calls <=>
       \/ r \in Approvals /\ verb \in {"create", "merge", "remove"}
       \/ r \in Merges /\ verb = "merge"
       \/ r \in Deletes /\ verb = "delete"
BY DEF Calls, Requests, Verbs

LEMMA RequestsOf ==
  /\ \A r \in Approvals : r \in Requests /\ r \notin Merges \cup Deletes
  /\ \A r \in Merges : r \in Requests /\ r \notin Approvals \cup Deletes
  /\ \A r \in Deletes : r \in Requests /\ r \notin Approvals \cup Merges
  /\ \A r \in Requests : r \in Approvals \cup Merges \cup Deletes
BY TempItemAssumption DEF Requests

\* A call is handled once: the server answers that call, and no other.
LEMMA HandledOnce ==
  ASSUME IInv, NEW r, NEW verb, NEW reply \in {"ok", "refused"}, Handled(r, verb, reply)
  PROVE  /\ <<r, verb>> \in Calls /\ r \in Requests
         /\ wire' \subseteq Calls /\ answer' \in [Calls -> {"none", "ok", "refused"}]
         /\ Out(r, verb) /\ Reply(r, verb) = "none" /\ Reply(r, verb)' = reply
         /\ \A q, v : <<q, v>> \in Calls => (Out(q, v)' => Out(q, v))
         /\ \A q, v : <<q, v>> \in Calls /\ (q # r \/ v # verb) => Reply(q, v)' = Reply(q, v)
         /\ \A q, v : Abandoned(q, v)' <=> Abandoned(q, v)
         /\ UNCHANGED <<pc, temp, target, outcome, gaveUp>>
         /\ CallInv'
<1>1. /\ <<r, verb>> \in wire /\ wire \subseteq Calls
      /\ answer \in [Calls -> {"none", "ok", "refused"}]
      /\ CallInv
  BY DEF Handled, IInv, TypeOK
<1>2. /\ wire' = wire \ {<<r, verb>>} /\ answer' = [answer EXCEPT ![<<r, verb>>] = reply]
      /\ UNCHANGED <<pc, temp, target, outcome, gaveUp>>
  BY DEF Handled, web
<1>3. r \in Requests /\ Reply(r, verb) = "none"
  BY <1>1, CallsOf DEF CallInv
<1>4. \A q, v : q # r \/ v # verb => <<q, v>> # <<r, verb>>
  OBVIOUS
<1>5. \A q, v : <<q, v>> \in Calls /\ (q # r \/ v # verb) => Reply(q, v)' = Reply(q, v)
  BY <1>1, <1>2, <1>4 DEF Reply
<1>6. Reply(r, verb)' = reply /\ Out(r, verb)
  BY <1>1, <1>2 DEF Reply, Out
<1>7. answer' \in [Calls -> {"none", "ok", "refused"}]
  BY <1>1, <1>2
<1>8. \A q, v : <<q, v>> \in wire' => <<q, v>> \in wire /\ (q # r \/ v # verb)
  BY <1>2
<1>9. ASSUME NEW q, NEW v, <<q, v>> \in Calls, Out(q, v)'
      PROVE  Out(q, v)
  BY <1>5, <1>6, <1>8, <1>9 DEF Out
<1>10. CallInv'
  <2>1. \A q \in Requests, v \in Verbs : <<q, v>> \in wire' => Reply(q, v)' = "none"
    BY <1>1, <1>5, <1>8 DEF CallInv
  <2>2. QED
    BY <1>1, <1>2, <2>1 DEF CallInv
<1>11. QED
  BY <1>1, <1>2, <1>3, <1>5, <1>6, <1>7, <1>9, <1>10 DEF Abandoned

LEMMA Initial == Init => IInv
<1> SUFFICES ASSUME Init
             PROVE  IInv
  OBVIOUS
<1>1. TypeOK
  BY DEF Init, TypeOK, Outcomes
<1>2. CallInv
  BY DEF Init, CallInv
<1>3. \A r, verb : <<r, verb>> \in Calls => ~Out(r, verb) /\ Reply(r, verb) = "none"
  BY DEF Init, Out, Reply
<1>4. \A r \in Approvals : ApprovalOk(r)
  BY <1>3, CallsOf, RequestsOf DEF Init, ApprovalOk, Merging, Removing
<1>5. \A r \in Merges \cup Deletes : OneCallOk(r)
  BY <1>3, CallsOf, RequestsOf DEF Init, OneCallOk, Verb
<1>6. CatalogInv
  BY <1>3, CallsOf, TempItemAssumption DEF Init, CatalogInv
<1>7. FateInv
  BY <1>3, CallsOf, TempItemAssumption DEF Init, FateInv
<1>8. QED
  BY <1>1, <1>2, <1>4, <1>5, <1>6, <1>7 DEF IInv, StageInv

-----------------------------------------------------------------------------
(* The steps of the web client, which leave every reply and every fate as it is. *)

\* One request makes a step and sends at most one call: the rest of the invariant is kept if
\* its own part is.
LEMMA WebStep ==
  ASSUME IInv, TypeOK', UNCHANGED <<answer, fate, catalog>>,
         NEW r \in Requests, NEW verb,
         UNCHANGED wire \/ (wire' = wire \cup {<<r, verb>>} /\ Reply(r, verb) = "none"),
         gaveUp \subseteq gaveUp',
         \A q \in Requests \ {r} : /\ pc'[q] = pc[q] /\ outcome'[q] = outcome[q]
                                   /\ temp'[q] = temp[q] /\ target'[q] = target[q],
         pc[r] = "new" \/ UNCHANGED temp,
         Reply(r, "merge") # "ok" \/ UNCHANGED target,
         pc'[r] # "new" /\ temp'[r] \in Temps /\ (pc'[r] # "done" <=> outcome'[r] = "none"),
         r \in Approvals => ApprovalOk(r)',
         r \in Merges \cup Deletes => OneCallOk(r)'
  PROVE  IInv'
<1>1. \A q, v : Reply(q, v)' = Reply(q, v)
  BY DEF Reply
<1>2. /\ TypeOK /\ CallInv /\ StageInv /\ CatalogInv /\ FateInv
  BY DEF IInv
<1>3. \A q, v : <<q, v>> \in wire' => <<q, v>> \in wire \/ (q = r /\ Reply(r, v) = "none")
  OBVIOUS
<1>4. \A q, v : q # r => (Out(q, v)' <=> Out(q, v)) /\ (Abandoned(q, v) => Abandoned(q, v)')
  BY <1>1, <1>3 DEF Out, Abandoned
<1>5. CallInv'
  <2>1. \A q \in Requests, v \in Verbs : <<q, v>> \in wire' => Reply(q, v)' = "none"
    BY <1>1, <1>2, <1>3 DEF CallInv
  <2>2. QED
    BY <1>2, <2>1 DEF CallInv
<1>6. StageInv'
  <2>1. ASSUME NEW q \in Approvals \ {r}
        PROVE  ApprovalOk(q)'
    <3>1. /\ pc'[q] = pc[q] /\ outcome'[q] = outcome[q] /\ target'[q] = target[q]
          /\ ApprovalOk(q)
      BY <1>2, <2>1, RequestsOf DEF StageInv
    <3>2. (Merging(q)' <=> Merging(q)) /\ (Removing(q)' <=> Removing(q))
      BY <3>1 DEF Merging, Removing
    <3>3. QED
      BY <1>1, <1>4, <2>1, <3>1, <3>2 DEF ApprovalOk
  <2>2. ASSUME NEW q \in (Merges \cup Deletes) \ {r}
        PROVE  OneCallOk(q)'
    <3>1. /\ pc'[q] = pc[q] /\ outcome'[q] = outcome[q] /\ target'[q] = target[q]
          /\ OneCallOk(q)
      BY <1>2, <2>2, RequestsOf DEF StageInv
    <3>2. QED
      BY <1>1, <1>4, <2>2, <3>1 DEF OneCallOk, Verb
  <2>3. QED
    BY <2>1, <2>2 DEF StageInv
<1>7. CatalogInv'
  BY <1>1, <1>2 DEF CatalogInv
<1>8. FateInv'
  <2>1. pc[r] = "new" => /\ r \in Approvals \cup Merges => Reply(r, "merge") # "ok"
                         /\ r \in Deletes => Reply(r, "delete") # "ok"
    BY <1>2, RequestsOf DEF StageInv, CallInv, ApprovalOk, OneCallOk, Verb, Out, Merging
  <2>2. \A q \in Approvals \cup Merges : Reply(q, "merge") = "ok" =>
          temp'[q] = temp[q] /\ target'[q] = target[q]
    BY <2>1, RequestsOf
  <2>3. \A q \in Deletes : Reply(q, "delete") = "ok" => temp'[q] = temp[q]
    BY <2>1, RequestsOf
  <2>4. QED
    BY <1>1, <1>2, <2>2, <2>3, RequestsOf DEF FateInv
<1>9. QED
  BY <1>2, <1>5, <1>6, <1>7, <1>8 DEF IInv

LEMMA OneSent ==
  ASSUME UNCHANGED answer, NEW r, NEW verb, wire' = wire \cup {<<r, verb>>}
  PROVE  /\ \A q, v : Reply(q, v)' = Reply(q, v)
         /\ \A q, v : Out(q, v)' => Out(q, v) \/ (q = r /\ v = verb)
BY DEF Reply, Out

LEMMA NoneSent ==
  ASSUME UNCHANGED answer, UNCHANGED wire
  PROVE  /\ \A q, v : Reply(q, v)' = Reply(q, v)
         /\ \A q, v : Out(q, v)' = Out(q, v)
BY DEF Reply, Out

LEMMA ConvertStep ==
  ASSUME IInv, NEW r \in Approvals, NEW t \in Temps, Convert(r, t)
  PROVE  IInv'
<1>1. /\ pc[r] = "new" /\ pc' = [pc EXCEPT ![r] = "load"] /\ temp' = [temp EXCEPT ![r] = t]
      /\ UNCHANGED <<target, outcome, gaveUp, wire, answer, fate, catalog>>
  BY DEF Convert, Choose, server
<1>2. TypeOK /\ ApprovalOk(r) /\ r \in Requests /\ outcome[r] = "none"
  BY <1>1, RequestsOf DEF IInv, StageInv, CallInv
<1>3. /\ pc'[r] = "load" /\ temp'[r] = t
      /\ \A q \in Requests \ {r} : pc'[q] = pc[q] /\ temp'[q] = temp[q]
  BY <1>1, <1>2 DEF TypeOK
<1>4. ApprovalOk(r)'
  BY <1>1, <1>2, <1>3 DEF ApprovalOk, Merging, Removing, Out, Reply
<1>5. TypeOK'
  BY <1>1, <1>2 DEF TypeOK
<1>6. QED
  BY <1>1, <1>2, <1>3, <1>4, <1>5, WebStep, RequestsOf DEF ApprovalOk, Merging, Out

LEMMA LoadStep ==
  ASSUME IInv, NEW r \in Requests, Load(r)
  PROVE  IInv'
<1>1. /\ pc[r] = "load"
      /\ UNCHANGED <<temp, target, gaveUp, answer, fate, catalog>>
      /\ \/ Finish(r, "notloaded") \/ Finish(r, "invalid")
         \/ Send(r, "create")
  BY DEF Load
<1>2. TypeOK /\ outcome[r] = "none" /\ temp[r] \in Temps
  BY <1>1 DEF IInv, CallInv
<1>3. r \in Approvals /\ r \notin Merges \cup Deletes /\ ApprovalOk(r)
  BY <1>1, RequestsOf DEF IInv, StageInv, OneCallOk, Verb
<1>4. ~Out(r, "create") /\ ~Out(r, "merge") /\ ~Out(r, "remove") /\ Reply(r, "create") = "none"
  BY <1>1, <1>2, <1>3 DEF ApprovalOk, Merging, Removing, Out
<1>5. Reply(r, "merge") # "ok"
  BY <1>4 DEF Out
<1>6. CASE Send(r, "create")
  <2>1. /\ pc'[r] = "create" /\ UNCHANGED outcome /\ wire' = wire \cup {<<r, "create">>}
        /\ \A q \in Requests \ {r} : pc'[q] = pc[q]
    BY <1>2, <1>6 DEF Send, TypeOK
  <2>2. ApprovalOk(r)'
    BY <1>1, <1>2, <1>4, <2>1, OneSent DEF ApprovalOk, Merging, Removing
  <2>3. TypeOK'
    BY <1>1, <1>2, <1>3, <1>6, CallsOf DEF TypeOK, Send
  <2>4. QED
    BY <1>1, <1>2, <1>3, <1>4, <1>5, <2>1, <2>2, <2>3, WebStep
<1>7. ASSUME NEW m \in {"notloaded", "invalid"}, Finish(r, m)
      PROVE  IInv'
  <2>1. /\ pc'[r] = "done" /\ outcome'[r] = m /\ UNCHANGED wire
        /\ \A q \in Requests \ {r} : pc'[q] = pc[q] /\ outcome'[q] = outcome[q]
    BY <1>2, <1>7 DEF Finish, TypeOK
  <2>2. ApprovalOk(r)'
    BY <1>1, <1>2, <1>4, <2>1, NoneSent DEF ApprovalOk, Merging, Removing
  <2>3. TypeOK'
    BY <1>1, <1>2, <1>7 DEF TypeOK, Finish, Outcomes
  <2>4. QED
    BY <1>1, <1>2, <1>3, <1>4, <1>5, <2>1, <2>2, <2>3, WebStep
<1>8. QED
  BY <1>1, <1>6, <1>7

LEMMA CardCreatedStep ==
  ASSUME IInv, NEW r \in Requests, CardCreated(r)
  PROVE  IInv'
<1>1. /\ r \in Approvals /\ pc[r] = "create" /\ r \notin Merges \cup Deletes
      /\ UNCHANGED <<temp, answer, fate, catalog>>
  BY RequestsOf DEF CardCreated, Replied, GivesUp, Waits
<1>2. TypeOK /\ outcome[r] = "none" /\ temp[r] \in Temps /\ ApprovalOk(r)
  BY <1>1 DEF IInv, CallInv, StageInv
<1>3. ~Out(r, "merge") /\ ~Out(r, "remove") /\ Reply(r, "merge") = "none"
  BY <1>1, <1>2 DEF ApprovalOk, Merging, Removing, Out
<1>4. CASE /\ Replied(r, "create", "ok") /\ target' = [target EXCEPT ![r] = r]
           /\ Send(r, "merge")
  <2>1. /\ pc'[r] = "merge" /\ UNCHANGED <<outcome, gaveUp>> /\ wire' = wire \cup {<<r, "merge">>}
        /\ target'[r] = r /\ Reply(r, "create") = "ok"
        /\ \A q \in Requests \ {r} : pc'[q] = pc[q] /\ target'[q] = target[q]
    BY <1>2, <1>4 DEF Send, Replied, Reply, TypeOK
  <2>2. ApprovalOk(r)'
    BY <1>1, <1>2, <1>3, <2>1, OneSent DEF ApprovalOk, Merging, Removing
  <2>3. TypeOK'
    BY <1>1, <1>2, <1>4, <2>1, CallsOf DEF TypeOK, Send
  <2>4. QED
    BY <1>1, <1>2, <1>3, <2>1, <2>2, <2>3, WebStep
<1>5. ASSUME NEW m \in {"refused", "unavailable"}, Finish(r, m), UNCHANGED target,
             m = "refused" => Reply(r, "create") = "refused",
             gaveUp \subseteq gaveUp', gaveUp' \subseteq Calls
      PROVE  IInv'
  <2>1. /\ pc'[r] = "done" /\ outcome'[r] = m /\ UNCHANGED wire
        /\ \A q \in Requests \ {r} : pc'[q] = pc[q] /\ outcome'[q] = outcome[q]
    BY <1>2, <1>5 DEF Finish, TypeOK
  <2>2. ApprovalOk(r)'
    BY <1>1, <1>2, <1>3, <1>5, <2>1, NoneSent DEF ApprovalOk, Merging, Removing
  <2>3. TypeOK'
    BY <1>1, <1>2, <1>5 DEF TypeOK, Finish, Outcomes
  <2>4. QED
    BY <1>1, <1>2, <1>3, <1>5, <2>1, <2>2, <2>3, WebStep
<1>6. QED
  BY <1>2, <1>4, <1>5 DEF CardCreated, Replied, GivesUp, Waits, Reply, TypeOK

LEMMA ConvertedStep ==
  ASSUME IInv, NEW r \in Requests, Converted(r)
  PROVE  IInv'
<1>1. /\ r \in Approvals /\ pc[r] = "merge" /\ r \notin Merges \cup Deletes
      /\ UNCHANGED <<temp, target, answer, fate, catalog>>
  BY RequestsOf DEF Converted, NoReply, Replied, GivesUp, Waits
<1>2. TypeOK /\ outcome[r] = "none" /\ temp[r] \in Temps /\ ApprovalOk(r)
  BY <1>1 DEF IInv, CallInv, StageInv
<1>3. Merging(r) /\ ~Out(r, "remove") /\ Reply(r, "remove") = "none"
  BY <1>1, <1>2 DEF ApprovalOk, Merging, Removing, Out
<1>4. CASE Replied(r, "merge", "ok") /\ Finish(r, "success")
  <2>1. /\ pc'[r] = "done" /\ outcome'[r] = "success" /\ UNCHANGED <<wire, gaveUp>>
        /\ Reply(r, "merge") = "ok"
        /\ \A q \in Requests \ {r} : pc'[q] = pc[q] /\ outcome'[q] = outcome[q]
    BY <1>2, <1>4 DEF Finish, Replied, Reply, TypeOK
  <2>2. ApprovalOk(r)'
    BY <1>1, <1>2, <1>3, <2>1, NoneSent DEF ApprovalOk, Merging, Removing
  <2>3. TypeOK'
    BY <1>1, <1>2, <1>4, <2>1 DEF TypeOK, Finish, Outcomes
  <2>4. QED
    BY <1>1, <1>2, <1>3, <2>1, <2>2, <2>3, WebStep
<1>5. CASE NoReply(r, "merge") /\ Send(r, "remove")
  <2>1. /\ pc'[r] = "remove" /\ UNCHANGED outcome /\ wire' = wire \cup {<<r, "remove">>}
        /\ Reply(r, "merge") = "refused" \/ Abandoned(r, "merge")'
        /\ gaveUp \subseteq gaveUp' /\ gaveUp' \subseteq Calls
        /\ \A q \in Requests \ {r} : pc'[q] = pc[q]
    BY <1>2, <1>5 DEF Send, NoReply, Replied, GivesUp, Waits, Reply, Abandoned, TypeOK
  <2>2. ApprovalOk(r)'
    BY <1>1, <1>2, <1>3, <2>1, OneSent DEF ApprovalOk, Merging, Removing
  <2>3. TypeOK'
    BY <1>1, <1>2, <1>5, <2>1, CallsOf DEF TypeOK, Send
  <2>4. QED
    BY <1>1, <1>2, <1>3, <2>1, <2>2, <2>3, WebStep
<1>6. QED
  BY <1>4, <1>5 DEF Converted

LEMMA CardRemovedStep ==
  ASSUME IInv, NEW r \in Requests, CardRemoved(r)
  PROVE  IInv'
<1>1. /\ r \in Approvals /\ pc[r] = "remove" /\ r \notin Merges \cup Deletes
      /\ UNCHANGED <<temp, target, answer, fate, catalog>>
  BY RequestsOf, CallsOf DEF CardRemoved, NoReply, Replied, GivesUp, Waits
<1>2. TypeOK /\ outcome[r] = "none" /\ temp[r] \in Temps /\ ApprovalOk(r)
  BY <1>1 DEF IInv, CallInv, StageInv
<1>3. Merging(r) /\ Removing(r)
  BY <1>1 DEF Merging, Removing
<1>4. PICK m \in {"removed", "review"} :
        /\ Finish(r, m) /\ (m = "removed" => Reply(r, "remove") = "ok")
        /\ gaveUp \subseteq gaveUp' /\ gaveUp' \subseteq Calls
  BY <1>2 DEF CardRemoved, NoReply, Replied, GivesUp, Waits, Reply, TypeOK
<1>5. /\ pc'[r] = "done" /\ outcome'[r] = m /\ UNCHANGED wire
      /\ \A q \in Requests \ {r} : pc'[q] = pc[q] /\ outcome'[q] = outcome[q]
  BY <1>2, <1>4 DEF Finish, TypeOK
<1>6. Abandoned(r, "merge") => Abandoned(r, "merge")'
  BY <1>4 DEF Abandoned
<1>7. ApprovalOk(r)'
  BY <1>1, <1>2, <1>3, <1>4, <1>5, <1>6, NoneSent DEF ApprovalOk, Merging, Removing
<1>8. TypeOK'
  BY <1>1, <1>2, <1>4, <1>5 DEF TypeOK, Finish, Outcomes
<1>9. QED
  BY <1>1, <1>2, <1>4, <1>5, <1>7, <1>8, WebStep

LEMMA MergeStep ==
  ASSUME IInv, NEW r \in Merges, NEW t \in Temps, Merge(r, t)
  PROVE  IInv'
<1>1. /\ pc[r] = "new" /\ temp' = [temp EXCEPT ![r] = t]
      /\ UNCHANGED <<gaveUp, answer, fate, catalog>>
      /\ r \in Requests /\ r \notin Approvals \cup Deletes
  BY RequestsOf DEF Merge, Choose
<1>2. TypeOK /\ outcome[r] = "none" /\ OneCallOk(r)
  BY <1>1 DEF IInv, CallInv, StageInv
<1>3. /\ ~Out(r, "merge") /\ Reply(r, "merge") = "none" /\ Verb(r) = "merge"
      /\ temp'[r] = t /\ \A q \in Requests \ {r} : temp'[q] = temp[q]
  BY <1>1, <1>2 DEF OneCallOk, Verb, Out, TypeOK
<1>4. ASSUME NEW g \in Cards \cup Approvals, target' = [target EXCEPT ![r] = g], Send(r, "merge")
      PROVE  IInv'
  <2>1. /\ pc'[r] = "merge" /\ UNCHANGED outcome /\ wire' = wire \cup {<<r, "merge">>}
        /\ target'[r] = g
        /\ \A q \in Requests \ {r} : pc'[q] = pc[q] /\ target'[q] = target[q]
    BY <1>1, <1>2, <1>4 DEF Send, TypeOK
  <2>2. OneCallOk(r)'
    BY <1>1, <1>2, <1>3, <2>1 DEF OneCallOk, Verb
  <2>3. TypeOK'
    BY <1>1, <1>2, <1>4, <2>1, CallsOf DEF TypeOK, Send
  <2>4. QED
    BY <1>1, <1>2, <1>3, <2>1, <2>2, <2>3, WebStep
<1>5. CASE Finish(r, "invalid") /\ UNCHANGED target
  <2>1. /\ pc'[r] = "done" /\ outcome'[r] = "invalid" /\ UNCHANGED wire
        /\ \A q \in Requests \ {r} : pc'[q] = pc[q] /\ outcome'[q] = outcome[q]
    BY <1>1, <1>2, <1>5 DEF Finish, TypeOK
  <2>2. OneCallOk(r)'
    BY <1>1, <1>2, <1>3, <2>1, NoneSent DEF OneCallOk, Verb
  <2>3. TypeOK'
    BY <1>1, <1>2, <1>5, <2>1 DEF TypeOK, Finish, Outcomes
  <2>4. QED
    BY <1>1, <1>2, <1>3, <1>5, <2>1, <2>2, <2>3, WebStep
<1>6. QED
  BY <1>4, <1>5 DEF Merge

LEMMA DeleteStep ==
  ASSUME IInv, NEW r \in Deletes, NEW t \in Temps, Delete(r, t)
  PROVE  IInv'
<1>1. /\ pc[r] = "new" /\ temp' = [temp EXCEPT ![r] = t] /\ Send(r, "delete")
      /\ UNCHANGED <<target, gaveUp, answer, fate, catalog>>
      /\ r \in Requests /\ r \notin Approvals \cup Merges
  BY RequestsOf DEF Delete, Choose
<1>2. TypeOK /\ outcome[r] = "none" /\ OneCallOk(r)
  BY <1>1 DEF IInv, CallInv, StageInv
<1>3. /\ Reply(r, "delete") = "none" /\ Verb(r) = "delete"
      /\ temp'[r] = t /\ \A q \in Requests \ {r} : temp'[q] = temp[q]
  BY <1>1, <1>2 DEF OneCallOk, Verb, Out, TypeOK
<1>4. /\ pc'[r] = "delete" /\ UNCHANGED outcome /\ wire' = wire \cup {<<r, "delete">>}
      /\ \A q \in Requests \ {r} : pc'[q] = pc[q]
  BY <1>1, <1>2 DEF Send, TypeOK
<1>5. OneCallOk(r)'
  BY <1>1, <1>2, <1>3, <1>4 DEF OneCallOk, Verb
<1>6. TypeOK'
  BY <1>1, <1>2, <1>4, CallsOf DEF TypeOK, Send
<1>7. QED
  BY <1>1, <1>2, <1>3, <1>4, <1>5, <1>6, WebStep

LEMMA AnsweredStep ==
  ASSUME IInv, NEW r \in Requests, Answered(r)
  PROVE  IInv'
<1>1. PICK verb \in {"merge", "delete"} :
        \/ Replied(r, verb, "ok") /\ Finish(r, "success")
        \/ Replied(r, verb, "refused") /\ Finish(r, "refused")
        \/ GivesUp(r, verb) /\ Finish(r, "unavailable")
  BY DEF Answered
<1>2. /\ r \notin Approvals /\ r \in Merges \cup Deletes /\ pc[r] = verb /\ Verb(r) = verb
      /\ UNCHANGED <<temp, target, answer, fate, catalog>>
  BY <1>1, RequestsOf, CallsOf DEF Answered, Replied, GivesUp, Waits, Verb
<1>3. TypeOK /\ outcome[r] = "none" /\ temp[r] \in Temps /\ OneCallOk(r)
  BY <1>1, <1>2 DEF IInv, CallInv, StageInv
<1>4. PICK m \in {"success", "refused", "unavailable"} :
        /\ Finish(r, m) /\ gaveUp \subseteq gaveUp' /\ gaveUp' \subseteq Calls
        /\ m = "success" => Reply(r, verb) = "ok"
        /\ m = "refused" => Reply(r, verb) = "refused"
  BY <1>1, <1>3 DEF Replied, GivesUp, Waits, Reply, TypeOK
<1>5. /\ pc'[r] = "done" /\ outcome'[r] = m /\ UNCHANGED wire
      /\ \A q \in Requests \ {r} : pc'[q] = pc[q] /\ outcome'[q] = outcome[q]
  BY <1>3, <1>4 DEF Finish, TypeOK
<1>6. OneCallOk(r)'
  BY <1>2, <1>3, <1>4, <1>5, NoneSent DEF OneCallOk, Verb
<1>7. TypeOK'
  BY <1>2, <1>3, <1>4, <1>5 DEF TypeOK, Finish, Outcomes
<1>8. QED
  BY <1>2, <1>3, <1>4, <1>5, <1>6, <1>7, WebStep

-----------------------------------------------------------------------------
(* The steps of the server. *)

\* A reply changes no stage, except that it may be what a stage waited for.
LEMMA StageKept ==
  ASSUME IInv, NEW r, NEW verb, NEW reply \in {"ok", "refused"}, Handled(r, verb, reply)
  PROVE  StageInv' /\ CallInv'
<1>1. /\ \A q, v : <<q, v>> \in Calls => (Out(q, v)' => Out(q, v))
      /\ \A q, v : <<q, v>> \in Calls /\ Reply(q, v) # "none" => Reply(q, v)' = Reply(q, v)
      /\ \A q, v : Abandoned(q, v)' <=> Abandoned(q, v)
      /\ UNCHANGED <<pc, target, outcome>>
      /\ CallInv'
  BY HandledOnce
<1>2. ASSUME NEW q \in Approvals
      PROVE  ApprovalOk(q)'
  <2>1. /\ ApprovalOk(q) /\ (Merging(q)' <=> Merging(q)) /\ (Removing(q)' <=> Removing(q))
        /\ \A v \in {"create", "merge", "remove"} : <<q, v>> \in Calls
    BY <1>1, CallsOf DEF IInv, StageInv, Merging, Removing
  <2>2. QED
    BY <1>1, <2>1 DEF ApprovalOk
<1>3. ASSUME NEW q \in Merges \cup Deletes
      PROVE  OneCallOk(q)'
  <2>1. OneCallOk(q) /\ <<q, Verb(q)>> \in Calls /\ (q \in Merges => <<q, "merge">> \in Calls)
    BY CallsOf DEF IInv, StageInv, Verb
  <2>2. QED
    BY <1>1, <2>1 DEF OneCallOk, Verb
<1>4. QED
  BY <1>1, <1>2, <1>3 DEF StageInv

LEMMA MergeItemStep ==
  ASSUME IInv, NEW r \in Requests, MergeItem(r)
  PROVE  IInv'
<1>1. /\ Handled(r, "merge", "ok") /\ fate[temp[r]] = "active"
      /\ fate' = [fate EXCEPT ![temp[r]] = target[r]] /\ UNCHANGED catalog
  BY DEF MergeItem
<1>2. StageInv' /\ CallInv'
  BY <1>1, StageKept
<1>3. /\ <<r, "merge">> \in Calls /\ Out(r, "merge")
      /\ Reply(r, "merge") = "none" /\ Reply(r, "merge")' = "ok"
      /\ \A q, v : <<q, v>> \in Calls /\ (q # r \/ v # "merge") => Reply(q, v)' = Reply(q, v)
      /\ wire' \subseteq Calls /\ answer' \in [Calls -> {"none", "ok", "refused"}]
      /\ UNCHANGED <<pc, temp, target, outcome, gaveUp>>
  BY <1>1, HandledOnce
<1>4. TypeOK /\ CallInv /\ StageInv /\ CatalogInv /\ FateInv
  BY DEF IInv
<1>5. r \in Approvals \cup Merges /\ temp[r] \in Temps /\ target[r] \in Cards \cup Approvals
  BY <1>3, <1>4, CallsOf, RequestsOf
  DEF StageInv, CallInv, ApprovalOk, OneCallOk, Verb, Merging
<1>6. TypeOK'
  BY <1>1, <1>3, <1>4, <1>5 DEF TypeOK
<1>7. CatalogInv'
  <2>1. \A q \in Approvals : <<q, "create">> \in Calls /\ <<q, "remove">> \in Calls
    BY CallsOf
  <2>2. \A q \in Approvals : /\ Reply(q, "create")' = Reply(q, "create")
                             /\ Reply(q, "remove")' = Reply(q, "remove")
    BY <1>3, <2>1
  <2>3. QED
    BY <1>1, <1>4, <2>2 DEF CatalogInv
<1>8. FateInv'
  <2>1. ASSUME NEW q \in Approvals \cup Merges, q # r, Reply(q, "merge")' = "ok"
        PROVE  /\ Reply(q, "merge") = "ok" /\ fate[temp[q]] = target[q]
               /\ temp[q] \in Temps /\ temp[q] # temp[r]
    <3>1. Reply(q, "merge") = "ok" /\ Out(q, "merge") /\ fate[temp[q]] = target[q]
      BY <1>3, <1>4, <2>1, CallsOf DEF FateInv, Out
    <3>2. temp[q] \in Temps /\ target[q] \in Cards \cup Approvals
      BY <1>4, <2>1, <3>1, RequestsOf
      DEF CallInv, StageInv, ApprovalOk, OneCallOk, Verb, Merging
    <3>3. QED
      BY <1>1, <3>1, <3>2, TempItemAssumption
  <2>2. ASSUME NEW q \in Deletes, Reply(q, "delete")' = "ok"
        PROVE  /\ fate[temp[q]] = "deleted" /\ temp[q] \in Temps /\ temp[q] # temp[r]
    <3>1. Reply(q, "delete") = "ok" /\ Out(q, "delete") /\ fate[temp[q]] = "deleted"
      BY <1>3, <1>4, <2>2, CallsOf DEF FateInv, Out
    <3>2. temp[q] \in Temps
      BY <1>4, <2>2, <3>1, RequestsOf DEF CallInv, StageInv, OneCallOk, Verb
    <3>3. QED
      BY <1>1, <3>1, <3>2
  <2>4. fate'[temp[r]] = target[r] /\ \A t \in Temps \ {temp[r]} : fate'[t] = fate[t]
    BY <1>1, <1>4, <1>5 DEF TypeOK
  <2>5. \A q \in Approvals \cup Merges : Reply(q, "merge")' = "ok" => fate'[temp'[q]] = target'[q]
    BY <1>3, <2>1, <2>4
  <2>6. \A q \in Deletes : Reply(q, "delete")' = "ok" => fate'[temp'[q]] = "deleted"
    BY <1>3, <2>2, <2>4
  <2>7. ASSUME NEW t \in Temps, fate'[t] \in Approvals
        PROVE  \E q \in Approvals \cup Merges :
                 Reply(q, "merge")' = "ok" /\ temp'[q] = t /\ target'[q] = fate'[t]
    <3>1. CASE t = temp[r]
      BY <1>3, <1>5, <2>4, <3>1
    <3>2. CASE t # temp[r]
      <4>1. PICK q \in Approvals \cup Merges :
              Reply(q, "merge") = "ok" /\ temp[q] = t /\ target[q] = fate[t]
        BY <1>4, <2>4, <2>7, <3>2 DEF FateInv
      <4>2. Reply(q, "merge")' = "ok"
        BY <1>3, <3>2, <4>1, CallsOf
      <4>3. QED
        BY <1>3, <2>4, <3>2, <4>1, <4>2
    <3>3. QED
      BY <3>1, <3>2
  <2>8. QED
    BY <2>5, <2>6, <2>7 DEF FateInv
<1>9. QED
  BY <1>2, <1>6, <1>7, <1>8 DEF IInv

LEMMA DeleteItemStep ==
  ASSUME IInv, NEW r \in Deletes, DeleteItem(r)
  PROVE  IInv'
<1>1. /\ Handled(r, "delete", "ok") /\ fate[temp[r]] = "active"
      /\ fate' = [fate EXCEPT ![temp[r]] = "deleted"] /\ UNCHANGED catalog
  BY DEF DeleteItem
<1>2. StageInv' /\ CallInv'
  BY <1>1, StageKept
<1>3. /\ Out(r, "delete") /\ Reply(r, "delete")' = "ok"
      /\ \A q, v : <<q, v>> \in Calls /\ (q # r \/ v # "delete") => Reply(q, v)' = Reply(q, v)
      /\ wire' \subseteq Calls /\ answer' \in [Calls -> {"none", "ok", "refused"}]
      /\ UNCHANGED <<pc, temp, target, outcome, gaveUp>>
  BY <1>1, HandledOnce
<1>4. TypeOK /\ CallInv /\ StageInv /\ CatalogInv /\ FateInv
  BY DEF IInv
<1>5. temp[r] \in Temps
  BY <1>3, <1>4, RequestsOf DEF StageInv, CallInv, OneCallOk, Verb
<1>6. TypeOK'
  BY <1>1, <1>3, <1>4, <1>5 DEF TypeOK
<1>7. CatalogInv'
  <2>1. \A q \in Approvals : <<q, "create">> \in Calls /\ <<q, "remove">> \in Calls
    BY CallsOf
  <2>2. \A q \in Approvals : /\ Reply(q, "create")' = Reply(q, "create")
                             /\ Reply(q, "remove")' = Reply(q, "remove")
    BY <1>3, <2>1
  <2>3. QED
    BY <1>1, <1>4, <2>2 DEF CatalogInv
<1>8. FateInv'
  <2>1. fate'[temp[r]] = "deleted" /\ \A t \in Temps \ {temp[r]} : fate'[t] = fate[t]
    BY <1>1, <1>4, <1>5 DEF TypeOK
  <2>2. \A q \in Approvals \cup Merges : Reply(q, "merge")' = Reply(q, "merge")
    BY <1>3, CallsOf
  <2>3. ASSUME NEW q \in Approvals \cup Merges, Reply(q, "merge")' = "ok"
        PROVE  fate'[temp'[q]] = target'[q]
    <3>1. Reply(q, "merge") = "ok" /\ Out(q, "merge") /\ fate[temp[q]] = target[q]
      BY <1>4, <2>2, <2>3 DEF FateInv, Out
    <3>2. temp[q] \in Temps /\ target[q] \in Cards \cup Approvals
      BY <1>4, <3>1, RequestsOf
      DEF CallInv, StageInv, ApprovalOk, OneCallOk, Verb, Merging
    <3>3. QED
      BY <1>1, <1>3, <2>1, <3>1, <3>2, TempItemAssumption
  <2>4. ASSUME NEW q \in Deletes, Reply(q, "delete")' = "ok"
        PROVE  fate'[temp'[q]] = "deleted"
    <3>1. CASE q = r
      BY <1>3, <2>1, <3>1
    <3>2. CASE q # r
      <4>1. Reply(q, "delete") = "ok" /\ Out(q, "delete") /\ fate[temp[q]] = "deleted"
        BY <1>3, <1>4, <2>4, <3>2, CallsOf DEF FateInv, Out
      <4>2. temp[q] \in Temps
        BY <1>4, <4>1, RequestsOf DEF CallInv, StageInv, OneCallOk, Verb
      <4>3. QED
        BY <1>3, <2>1, <4>1, <4>2
    <3>3. QED
      BY <3>1, <3>2
  <2>5. ASSUME NEW t \in Temps, fate'[t] \in Approvals
        PROVE  \E q \in Approvals \cup Merges :
                 Reply(q, "merge")' = "ok" /\ temp'[q] = t /\ target'[q] = fate'[t]
    <3>1. t # temp[r]
      BY <2>1, <2>5, TempItemAssumption
    <3>2. QED
      BY <1>3, <1>4, <2>1, <2>2, <2>5, <3>1 DEF FateInv
  <2>6. QED
    BY <2>3, <2>4, <2>5 DEF FateInv
<1>9. QED
  BY <1>2, <1>6, <1>7, <1>8 DEF IInv

\* The other replies change the fate of no item.
LEMMA FateKept ==
  ASSUME IInv, NEW r, NEW verb, NEW reply \in {"ok", "refused"}, Handled(r, verb, reply),
         reply = "refused" \/ verb \in {"create", "remove"}, UNCHANGED fate
  PROVE  FateInv'
<1>1. /\ \A q, v : <<q, v>> \in Calls /\ v \in {"merge", "delete"} =>
           (Reply(q, v)' = "ok" <=> Reply(q, v) = "ok")
      /\ UNCHANGED <<temp, target>>
  BY HandledOnce
<1>2. /\ \A q \in Approvals \cup Merges : Reply(q, "merge")' = "ok" <=> Reply(q, "merge") = "ok"
      /\ \A q \in Deletes : Reply(q, "delete")' = "ok" <=> Reply(q, "delete") = "ok"
  <2>1. /\ \A q \in Approvals \cup Merges : <<q, "merge">> \in Calls
        /\ \A q \in Deletes : <<q, "delete">> \in Calls
    BY CallsOf
  <2>2. ASSUME NEW q \in Approvals \cup Merges
        PROVE  Reply(q, "merge")' = "ok" <=> Reply(q, "merge") = "ok"
    BY <1>1, <2>1
  <2>3. ASSUME NEW q \in Deletes
        PROVE  Reply(q, "delete")' = "ok" <=> Reply(q, "delete") = "ok"
    BY <1>1, <2>1
  <2>4. QED
    BY <2>2, <2>3
<1>3. QED
  BY <1>1, <1>2 DEF IInv, FateInv

LEMMA CardStep ==
  ASSUME IInv, NEW r \in Approvals, CreateCard(r) \/ RemoveCard(r)
  PROVE  IInv'
<1>1. PICK verb \in {"create", "remove"} :
        /\ Handled(r, verb, "ok") /\ UNCHANGED fate
        /\ catalog' = IF verb = "create" THEN catalog \cup {r} ELSE catalog \ {r}
        /\ verb = "remove" => r \in catalog
  BY DEF CreateCard, RemoveCard
<1>2. StageInv' /\ CallInv' /\ FateInv'
  BY <1>1, StageKept, FateKept
<1>3. /\ Reply(r, verb) = "none" /\ Reply(r, verb)' = "ok" /\ Out(r, verb)
      /\ \A q, v : <<q, v>> \in Calls /\ (q # r \/ v # verb) => Reply(q, v)' = Reply(q, v)
      /\ wire' \subseteq Calls /\ answer' \in [Calls -> {"none", "ok", "refused"}]
      /\ UNCHANGED <<pc, temp, target, outcome, gaveUp>>
  BY <1>1, HandledOnce
<1>4. TypeOK'
  BY <1>1, <1>3 DEF IInv, TypeOK
<1>5. verb = "create" => Reply(r, "remove") # "ok"
  BY <1>3 DEF IInv, StageInv, ApprovalOk, Out, Removing, Merging
<1>6. CatalogInv'
  <2>1. \A q \in Approvals : <<q, "create">> \in Calls /\ <<q, "remove">> \in Calls
    BY CallsOf
  <2>2. \A q \in Approvals \ {r} : /\ Reply(q, "create")' = Reply(q, "create")
                                   /\ Reply(q, "remove")' = Reply(q, "remove")
    BY <1>3, <2>1
  <2>3. \A q \in Approvals \ {r} : q \in catalog' <=> q \in catalog
    BY <1>1
  <2>4. /\ verb = "create" => Reply(r, "remove")' = Reply(r, "remove") /\ r \in catalog'
        /\ verb = "remove" => r \notin catalog'
    BY <1>1, <1>3, <2>1
  <2>5. QED
    BY <1>3, <1>5, <2>2, <2>3, <2>4 DEF IInv, CatalogInv
<1>7. QED
  BY <1>2, <1>4, <1>6 DEF IInv

LEMMA RefuseStep ==
  ASSUME IInv, NEW c \in Calls, Refuse(c)
  PROVE  IInv'
<1>1. Handled(c[1], c[2], "refused") /\ UNCHANGED <<fate, catalog>>
  BY DEF Refuse
<1>2. StageInv' /\ CallInv' /\ FateInv'
  BY <1>1, StageKept, FateKept
<1>3. /\ \A q, v : <<q, v>> \in Calls => (Reply(q, v)' = "ok" <=> Reply(q, v) = "ok")
      /\ wire' \subseteq Calls /\ answer' \in [Calls -> {"none", "ok", "refused"}]
      /\ UNCHANGED <<pc, temp, target, outcome, gaveUp>>
  BY <1>1, HandledOnce
<1>4. TypeOK'
  BY <1>1, <1>3 DEF IInv, TypeOK
<1>5. CatalogInv'
  BY <1>1, <1>3, CallsOf DEF IInv, CatalogInv
<1>6. QED
  BY <1>2, <1>4, <1>5 DEF IInv

-----------------------------------------------------------------------------
(* The theorems. *)

LEMMA Step == IInv /\ [Next]_vars => IInv'
<1> SUFFICES ASSUME IInv, [Next]_vars
             PROVE  IInv'
  OBVIOUS
<1>1. ASSUME NEW t \in Temps, NEW r \in Approvals, Convert(r, t)
      PROVE  IInv'
  BY <1>1, ConvertStep
<1>2. ASSUME NEW t \in Temps, NEW r \in Merges, Merge(r, t)
      PROVE  IInv'
  BY <1>2, MergeStep
<1>3. ASSUME NEW t \in Temps, NEW r \in Deletes, Delete(r, t)
      PROVE  IInv'
  BY <1>3, DeleteStep
<1>4. ASSUME NEW r \in Requests, View(r)
      PROVE  IInv'
  BY <1>4, LoadStep, CardCreatedStep, ConvertedStep, CardRemovedStep, AnsweredStep DEF View
<1>5. ASSUME NEW r \in Requests, MergeItem(r)
      PROVE  IInv'
  BY <1>5, MergeItemStep
<1>6. ASSUME NEW r \in Approvals, CreateCard(r) \/ RemoveCard(r)
      PROVE  IInv'
  BY <1>6, CardStep
<1>7. ASSUME NEW r \in Deletes, DeleteItem(r)
      PROVE  IInv'
  BY <1>7, DeleteItemStep
<1>8. ASSUME NEW c \in Calls, Refuse(c)
      PROVE  IInv'
  BY <1>8, RefuseStep
<1>9. CASE UNCHANGED vars
  <2>1. UNCHANGED <<pc, temp, target, outcome, gaveUp, wire, answer, fate, catalog>>
    BY <1>9 DEF vars, web, server
  <2>2. /\ \A q, v : Reply(q, v)' = Reply(q, v) /\ Out(q, v)' = Out(q, v)
        /\ \A q, v : Abandoned(q, v)' = Abandoned(q, v)
        /\ \A q : Merging(q)' = Merging(q) /\ Removing(q)' = Removing(q)
    BY <2>1 DEF Reply, Out, Abandoned, Merging, Removing
  <2>3. TypeOK' /\ CallInv'
    BY <2>1, <2>2 DEF IInv, TypeOK, CallInv
  <2>4. StageInv'
    BY <2>1, <2>2 DEF IInv, StageInv, ApprovalOk, OneCallOk, Verb
  <2>5. CatalogInv' /\ FateInv'
    BY <2>1, <2>2 DEF IInv, CatalogInv, FateInv
  <2>6. QED
    BY <2>3, <2>4, <2>5 DEF IInv
<1>10. QED
  BY <1>1, <1>2, <1>3, <1>4, <1>5, <1>6, <1>7, <1>8, <1>9 DEF Next

\* Every reachable state of any number of moderators and temporary items satisfies the
\* invariant.
THEOREM Invariant == Spec => []IInv
BY Initial, Step, PTL DEF Spec

\* The types of the model are kept by every step of the three views and of the server.
THEOREM TypeCorrect == Spec => []TypeOK
<1>1. IInv => TypeOK
  BY DEF IInv
<1>2. QED
  BY <1>1, Invariant, PTL

\* What TemporaryItemApproveView, TemporaryItemMergeView and TemporaryItemDeleteView tell
\* the moderator is true and stays true, whichever calls get lost, fail or come late.
THEOREM MessagesAreTrue == Spec => []MessageTellsTruth
<1>1. IInv => MessageTellsTruth
  <2> SUFFICES ASSUME IInv, NEW r \in Requests
               PROVE  /\ outcome[r] = "success" =>
                           fate[temp[r]] = IF r \in Deletes THEN "deleted" ELSE target[r]
                      /\ r \in Approvals =>
                           /\ outcome[r] = "success" => r \in catalog
                           /\ outcome[r] = "removed" =>
                                r \notin catalog /\ <<r, "create">> \notin wire
                           /\ Failed(r) => r \notin catalog
                      /\ Failed(r) => \A c \in wire : c[1] # r
    BY DEF MessageTellsTruth
  <2>1. TypeOK /\ CallInv /\ StageInv /\ CatalogInv /\ FateInv
    BY DEF IInv
  <2>2. \A v \in Verbs : Reply(r, v) # "none" => <<r, v>> \notin wire
    BY <2>1 DEF CallInv
  <2>3. ASSUME \A v \in Verbs : <<r, v>> \notin wire
        PROVE  \A c \in wire : c[1] # r
    <3>1. SUFFICES ASSUME NEW c \in wire, c[1] = r
                   PROVE  FALSE
      OBVIOUS
    <3>2. c = <<c[1], c[2]>>
      BY <2>1, <3>1 DEF TypeOK, Calls
    <3>3. c[2] \in Verbs
      BY <2>1, <3>1, <3>2, CallsOf DEF TypeOK
    <3>4. QED
      BY <2>3, <3>1, <3>2, <3>3
  <2>4. CASE r \in Approvals
    <3>1. /\ ApprovalOk(r) /\ r \notin Deletes /\ r \notin Merges
          /\ r \in catalog <=> Reply(r, "create") = "ok" /\ Reply(r, "remove") # "ok"
      BY <2>1, <2>4, RequestsOf DEF StageInv, CatalogInv
    <3>2. outcome[r] = "success" => fate[temp[r]] = target[r] /\ r \in catalog
      <4>1. ASSUME outcome[r] = "success"
            PROVE  Reply(r, "create") = "ok" /\ Reply(r, "merge") = "ok" /\ ~Out(r, "remove")
        BY <2>1, <3>1, <4>1 DEF ApprovalOk, Merging, Removing, CallInv
      <4>2. QED
        BY <2>1, <2>4, <3>1, <4>1 DEF FateInv, Out
    <3>3. outcome[r] = "removed" => r \notin catalog /\ <<r, "create">> \notin wire
      BY <2>2, <3>1 DEF ApprovalOk, Merging, Verbs
    <3>4. ASSUME Failed(r)
          PROVE  r \notin catalog /\ \A v \in Verbs : <<r, v>> \notin wire
      <4>1. ~Out(r, "merge") /\ ~Out(r, "remove") /\ <<r, "delete">> \notin wire
        BY <2>1, <2>4, <3>1, <3>4, CallsOf
        DEF Failed, ApprovalOk, Merging, Removing, CallInv, TypeOK
      <4>2. Reply(r, "create") = "refused" \/ ~Out(r, "create")
        BY <3>1, <3>4 DEF Failed, ApprovalOk
      <4>3. <<r, "create">> \notin wire /\ Reply(r, "create") # "ok"
        BY <2>2, <4>2 DEF Out, Verbs
      <4>4. QED
        BY <3>1, <4>1, <4>3 DEF Out, Verbs
    <3>5. QED
      BY <2>3, <2>4, <3>1, <3>2, <3>3, <3>4
  <2>5. CASE r \in Merges \cup Deletes
    <3>1. OneCallOk(r) /\ r \notin Approvals
      BY <2>1, <2>5, RequestsOf DEF StageInv
    <3>2. outcome[r] = "success" =>
            fate[temp[r]] = IF r \in Deletes THEN "deleted" ELSE target[r]
      BY <2>1, <2>5, <3>1 DEF OneCallOk, Verb, FateInv
    <3>3. ASSUME Failed(r)
          PROVE  \A v \in Verbs : <<r, v>> \notin wire
      <4>1. <<r, Verb(r)>> \notin wire
        BY <2>2, <3>1, <3>3 DEF Failed, OneCallOk, Out, Verb, Verbs
      <4>2. \A v : <<r, v>> \in wire => v = Verb(r)
        BY <2>1, <2>5, <3>1, CallsOf, RequestsOf DEF TypeOK, Verb
      <4>3. QED
        BY <4>1, <4>2
    <3>4. QED
      BY <2>3, <3>1, <3>2, <3>3
  <2>6. QED
    BY <2>4, <2>5, RequestsOf
<1>2. QED
  BY <1>1, Invariant, PTL

\* A conversion that ended leaves an unused card only where its message says to look.
THEOREM OrphansAreTold == Spec => []NoSilentOrphan
<1>1. IInv => NoSilentOrphan
  <2>1. SUFFICES ASSUME IInv, NEW r \in Approvals,
                        pc[r] = "done", r \in catalog, fate[temp[r]] # r,
                        outcome[r] \notin {"review", "unavailable"}
                 PROVE  FALSE
    BY DEF NoSilentOrphan
  <2>2. /\ ApprovalOk(r) /\ r \in Requests
        /\ Reply(r, "create") = "ok" /\ Reply(r, "remove") # "ok"
    BY <2>1, RequestsOf DEF IInv, StageInv, CatalogInv
  <2>3. outcome[r] \in {"success", "invalid", "notloaded", "refused", "removed"}
    BY <2>1, <2>2 DEF IInv, TypeOK, CallInv, Outcomes
  <2>4. outcome[r] = "success"
    BY <2>2, <2>3 DEF ApprovalOk, Out
  <2>5. Reply(r, "merge") = "ok" /\ target[r] = r
    BY <2>2, <2>4 DEF ApprovalOk, Merging
  <2>6. QED
    BY <2>1, <2>5 DEF IInv, FateInv
<1>2. QED
  BY <1>1, Invariant, PTL

\* The compensation (delete_item of the card that was created) costs an item its card only in
\* two ways it cannot see: a merge whose answer got lost, and a merge by somebody else.
THEOREM CardsAreLostByTimeout == Spec => []CardLostOnlyByTimeout
<1>1. IInv => CardLostOnlyByTimeout
  <2>1. SUFFICES ASSUME IInv, NEW t \in Temps, fate[t] \in Approvals \ catalog
                 PROVE  \/ Abandoned(fate[t], "merge")
                        \/ \E m \in Merges : temp[m] = t /\ target[m] = fate[t]
    BY DEF CardLostOnlyByTimeout, Abandoned
  <2>2. PICK r \in Approvals \cup Merges :
          Reply(r, "merge") = "ok" /\ temp[r] = t /\ target[r] = fate[t]
    BY <2>1 DEF IInv, FateInv
  <2>3. CASE r \in Merges
    BY <2>2, <2>3
  <2>4. CASE r \in Approvals
    <3>1. /\ ApprovalOk(r) /\ Out(r, "merge")
          /\ Reply(fate[t], "create") # "ok" \/ Reply(fate[t], "remove") = "ok"
      BY <2>1, <2>2, <2>4 DEF IInv, StageInv, CatalogInv, Out
    <3>2. fate[t] = r /\ Out(r, "remove")
      BY <2>2, <3>1 DEF ApprovalOk, Out
    <3>3. QED
      BY <2>2, <3>1, <3>2 DEF ApprovalOk
  <2>5. QED
    BY <2>2, <2>3, <2>4
<1>2. QED
  BY <1>1, Invariant, PTL
=============================================================================
