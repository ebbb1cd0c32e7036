--------------------------- MODULE OperationProofs ---------------------------
(***************************************************************************)
(* Theorems about Operation: the forms, their sends and the commands, for  *)
(* any number of them, any drafts, and any calls that fail or come late.   *)
(***************************************************************************)
EXTENDS Operation, TLAPS

-----------------------------------------------------------------------------
(* What _build_create_payload lets through. *)

LEMMA LinesStay ==
  ASSUME NEW d \in Inputs, d.lines # <<>>, NEW f, f = [i \in DOMAIN d.lines |-> f[i]]
  PROVE  f # <<>>
<1>1. d.lines \in Seq({d.lines[i] : i \in DOMAIN d.lines})
  BY DraftAssumption
<1>2. DOMAIN d.lines # {}
  BY <1>1
<1>3. QED
  BY <1>2

LEMMA AcceptedIsWellFormed ==
  ASSUME NEW d \in Inputs, NEW fixed, NEW fresh,
         NEW operable \in SUBSET Sites, NEW known \in SUBSET Sites,
         DraftOk(d, fixed, operable, known)
  PROVE  LET w == Payload(d, fixed, fresh)
         IN  /\ WellFormed(w)
             /\ w.site \in Sites /\ w.dest \in Sites \cup {None}
             /\ w.key \in {None, fresh}
<1> DEFINE w == Payload(d, fixed, fresh)
           item(i) == IF Kind(d.lines[i]) = "catalog" THEN d.lines[i].item ELSE None
<1>1. /\ w.type = d.type /\ w.site = Start(d, fixed)
      /\ w.dest = IF d.type = "MOVE" THEN d.dest ELSE None
      /\ w.key = RequestKey(d, fresh)
      /\ w.lines = [i \in DOMAIN d.lines |-> [item |-> item(i), qty |-> d.lines[i].qty]]
  BY DEF Payload
<1>2. w.key \in {None, fresh}
  BY <1>1, DraftAssumption DEF RequestKey
<1>3. w.site \in Sites /\ (d.type = "MOVE" => d.dest \in Sites /\ d.dest # w.site)
  BY <1>1 DEF DraftOk, RouteOk
<1>4. w.lines # <<>>
  BY <1>1, LinesStay DEF DraftOk
<1>5. ASSUME NEW i \in DOMAIN w.lines
      PROVE  /\ w.lines[i].qty < 0 => w.type = "ADJUSTMENT"
             /\ \A j \in DOMAIN w.lines \ {i} :
                  w.lines[i].item # None => w.lines[i].item # w.lines[j].item
  <2>1. i \in DOMAIN d.lines /\ w.lines[i].qty = d.lines[i].qty /\ w.lines[i].item = item(i)
    BY <1>1
  <2>2. d.lines[i].qty \in Int \cup {None} /\ QtyOk(d.lines[i], d.type)
    BY <2>1, DraftAssumption DEF DraftOk, LineOk
  <2>3. w.lines[i].qty < 0 => w.type = "ADJUSTMENT"
    BY <1>1, <2>1, <2>2 DEF QtyOk
  <2>4. ASSUME NEW j \in DOMAIN w.lines \ {i}, w.lines[i].item # None
        PROVE  w.lines[i].item # w.lines[j].item
    <3>1. j \in DOMAIN d.lines /\ w.lines[j].item = item(j)
      BY <1>1
    <3>2. Kind(d.lines[i]) = "catalog" /\ item(i) = d.lines[i].item
      BY <2>1, <2>4
    <3>3. Kind(d.lines[j]) = "catalog" => d.lines[i].item # d.lines[j].item
      BY <2>1, <3>1, <3>2 DEF DraftOk, NoRepeat
    <3>4. QED
      BY <2>1, <2>4, <3>1, <3>2, <3>3
  <2>5. QED
    BY <2>3, <2>4
<1>6. w.type = "MOVE" <=> w.dest # None
  BY <1>1, <1>3, OperationAssumption
<1>7. w.site # w.dest
  BY <1>1, <1>3, OperationAssumption
<1>8. w.dest \in Sites \cup {None}
  BY <1>1, <1>3
<1>9. WellFormed(w)
  BY <1>4, <1>5, <1>6, <1>7 DEF WellFormed
<1>10. QED
  BY <1>2, <1>3, <1>8, <1>9

\* What is ordered does not depend on the key it is ordered under.
LEMMA ContentIgnoresKey ==
  ASSUME NEW d, NEW fixed, NEW key, NEW other
  PROVE  Content(Payload(d, fixed, key)) = Content(Payload(d, fixed, other))
BY DEF Content, Payload

-----------------------------------------------------------------------------
(* The invariant. *)

\* A send that its form waits for, or has been left for.
Active(c) == pc[c] \in {"building", "sent"} \/ outcome[c] = "success"

\* A form has at most one active send, and is locked or left as long as it has one.
FormInv ==
  \A c \in Creates :
    /\ pc[c] # "new" => origin[c] \in Pages
    /\ Active(c) => page[origin[c]] = IF outcome[c] = "success" THEN "closed" ELSE "waiting"
    /\ \A d \in Creates : Active(c) /\ Active(d) /\ origin[c] = origin[d] => c = d

\* How the stage of a send, its call, the answer and the message go together.  An operation
\* exists exactly when its own send was answered with it.
SendInv ==
  \A c \in Creates :
    /\ pc[c] \in {"new", "building"} => c \notin wire /\ answer[c] = "none"
    /\ pc[c] # "done" <=> outcome[c] = "none"
    /\ c \in wire => answer[c] = "none"
    /\ answer[c] \in {"none", "refused", c}
    /\ Exists(c) <=> answer[c] = c
    /\ outcome[c] \in {"none", "success", "refused", "invalid", "nosites", "crash", "unavailable"}
    /\ outcome[c] = "success" => answer[c] = c
    /\ outcome[c] = "refused" => answer[c] = "refused"
    /\ outcome[c] \in {"invalid", "nosites", "crash"} => c \notin wire /\ answer[c] = "none"

\* What is sent is well formed and goes under a key of its own or none; it is the draft the
\* form still shows, and what a form was left for is stored.
PayloadInv ==
  /\ payload = [c \in Creates |-> payload[c]]
  /\ \A c \in Creates :
       /\ pc[c] = "sent" \/ c \in wire \/ answer[c] # "none" =>
            WellFormed(payload[c]) /\ payload[c].key \in {None, c}
       /\ pc[c] = "sent" =>
            Content(payload[c]) = Content(Payload(draft[origin[c]], FixedSite[origin[c]], None))
  /\ \A p \in Pages : page[p] = "closed" => Stored(p)

\* A draft is lost by a send for which a reading of the warehouses failed.
LostInv ==
  \A p \in Pages : page[p] = "lost" =>
    \E c \in Creates : origin[c] = p /\ outcome[c] \in {"crash", "nosites"}

\* The same as SendInv of the commands.
CommandInv ==
  \A k \in Commands :
    /\ pc[k] = "new" => k \notin wire /\ answer[k] = "none"
    /\ pc[k] # "done" => outcome[k] = "none"
    /\ k \in wire => answer[k] = "none" /\ target[k] \in Creates
    /\ answer[k] \in {"none", "ok", "refused"}
    /\ k \in done <=> answer[k] = "ok"
    /\ outcome[k] \in {"success", "acceptance"} => answer[k] = "ok"
    /\ outcome[k] = "refused" => answer[k] = "refused"

IInv == TypeOK /\ FormInv /\ SendInv /\ PayloadInv /\ LostInv /\ CommandInv

LEMMA Initial == Init => IInv
<1> SUFFICES ASSUME Init
             PROVE  IInv
  OBVIOUS
<1>1. TypeOK
  BY DEF Init, TypeOK, Answers, Outcomes, PageStates
<1>2. FormInv
  BY DEF Init, FormInv, Active, Requests
<1>3. SendInv
  BY OperationAssumption DEF Init, SendInv, Exists, Requests
<1>4. PayloadInv
  BY DEF Init, PayloadInv, Requests
<1>5. CommandInv
  BY DEF Init, CommandInv, Requests
<1>6. LostInv
  BY DEF Init, LostInv
<1>7. QED
  BY <1>1, <1>2, <1>3, <1>4, <1>5, <1>6 DEF IInv

\* A send is no command, and an answer that names an operation is no refusal.
LEMMA Apart ==
  /\ \A c \in Creates : c \notin Commands /\ c \in Requests /\ c \notin {"none", "ok", "refused"}
  /\ \A k \in Commands : k \in Requests
  /\ \A k \in Submits : k \notin Cancels
BY OperationAssumption DEF Requests, Commands

\* A send that is built goes out with an accepted draft, comes back with its form, or loses
\* it.
LEMMA BuildEnds ==
  ASSUME IInv, NEW c \in Creates, Build(c)
  PROVE  LET p == origin[c]
         IN  /\ p \in Pages /\ draft[p] \in Inputs
             /\ UNCHANGED <<draft, origin, target, answer, status, done>>
             /\ \/ /\ payload' = [payload EXCEPT ![c] = Payload(draft[p], FixedSite[p], c)]
                   /\ WellFormed(payload'[c]) /\ payload'[c].key \in {None, c}
                   /\ payload'[c].site \in Sites /\ payload'[c].dest \in Sites \cup {None}
                   /\ pc' = [pc EXCEPT ![c] = "sent"]
                   /\ wire' = wire \cup {c}
                   /\ UNCHANGED <<page, outcome>>
                \/ /\ Finish(c, "invalid") /\ page' = [page EXCEPT ![p] = "editing"]
                   /\ UNCHANGED <<payload, wire>>
                \/ /\ Finish(c, "nosites") /\ page' = [page EXCEPT ![p] = "lost"]
                   /\ UNCHANGED <<payload, wire>>
<1> DEFINE p == origin[c]
<1>1. p \in Pages /\ draft[p] \in Inputs
  BY DEF Build, Sends, IInv, FormInv, TypeOK
<1>2. PICK operable \in {Operable[p], {}}, known \in {Sites, Available[p]} :
        IF DraftOk(draft[p], FixedSite[p], operable, known)
        THEN /\ payload' = [payload EXCEPT ![c] = Payload(draft[p], FixedSite[p], c)]
             /\ pc' = [pc EXCEPT ![c] = "sent"]
             /\ wire' = wire \cup {c}
             /\ UNCHANGED <<browser, outcome>>
        ELSE /\ IF operable = {} THEN Lose(c, "nosites") ELSE Rerender(c, "invalid")
             /\ UNCHANGED <<payload, wire>>
  BY DEF Build, Sends
<1>3. operable \in SUBSET Sites /\ known \in SUBSET Sites
  BY <1>1, <1>2, OperationAssumption
<1>4. UNCHANGED <<origin, target, answer, status, done>>
  BY DEF Build, Sends
<1>5. CASE DraftOk(draft[p], FixedSite[p], operable, known)
  <2>1. /\ payload' = [payload EXCEPT ![c] = Payload(draft[p], FixedSite[p], c)]
        /\ payload'[c] = Payload(draft[p], FixedSite[p], c)
    BY <1>2, <1>5 DEF IInv, PayloadInv
  <2>2. /\ WellFormed(payload'[c]) /\ payload'[c].key \in {None, c}
        /\ payload'[c].site \in Sites /\ payload'[c].dest \in Sites \cup {None}
    BY <1>1, <1>3, <1>5, <2>1, AcceptedIsWellFormed
  <2>3. QED
    BY <1>1, <1>2, <1>4, <1>5, <2>1, <2>2 DEF browser
<1>6. CASE ~DraftOk(draft[p], FixedSite[p], operable, known)
  BY <1>1, <1>2, <1>4, <1>6 DEF Rerender, Lose
<1>7. QED
  BY <1>5, <1>6

\* The server answers a send with the operation it creates: no other has the same key.
LEMMA CreateMakesOwn ==
  ASSUME IInv, NEW c \in Creates, Create(c)
  PROVE  /\ c \in wire /\ wire' = wire \ {c}
         /\ answer' = [answer EXCEPT ![c] = c]
         /\ status' = [status EXCEPT ![c] = "draft"]
         /\ UNCHANGED <<browser, origin, payload, target, pc, outcome, done>>
<1>1. c \in wire
  BY DEF Create
<1>2. SameKey(c) = {}
  <2>1. SUFFICES ASSUME NEW o \in Creates, Exists(o), payload[c].key # None,
                        payload[o].key = payload[c].key
                 PROVE  FALSE
    BY DEF SameKey
  <2>2. payload[c].key = c /\ ~Exists(c)
    BY <1>1, <2>1, Apart DEF IInv, PayloadInv, SendInv
  <2>3. answer[o] = o /\ payload[o].key \in {None, o}
    BY <2>1, Apart DEF IInv, PayloadInv, SendInv
  <2>4. QED
    BY <2>1, <2>2, <2>3
<1>3. QED
  BY <1>1, <1>2 DEF Create, Handled

LEMMA TypeStep == IInv /\ [Next]_vars => TypeOK'
<1> SUFFICES ASSUME IInv, [Next]_vars
             PROVE  TypeOK'
  OBVIOUS
<1> USE DEF TypeOK, Outcomes, Answers, PageStates
<1>t. TypeOK
  BY DEF IInv
<1>1. ASSUME NEW p \in Pages, Edit(p)
      PROVE  TypeOK'
  BY <1>t, <1>1 DEF Edit, server
<1>s. ASSUME NEW p \in Pages, Stick(p)
      PROVE  TypeOK'
  BY <1>t, <1>s DEF Stick, server
<1>2. ASSUME NEW p \in Pages, NEW c \in Creates, Press(p, c)
      PROVE  TypeOK'
  BY <1>t, <1>2 DEF Press, server
<1>3. ASSUME NEW k \in Commands, Order(k)
      PROVE  TypeOK'
  BY <1>t, <1>3, Apart DEF Order, browser
<1>4. ASSUME NEW k \in Commands, Submit(k) \/ Cancel(k)
      PROVE  TypeOK'
  BY <1>t, <1>4, Apart DEF Submit, Cancel, Takes, Handled, browser
<1>5. ASSUME NEW c \in Creates, Create(c)
      PROVE  TypeOK'
  BY <1>t, <1>5, CreateMakesOwn DEF browser
<1>6. ASSUME NEW c \in Creates, Build(c)
      PROVE  TypeOK'
  <2> HIDE DEF TypeOK
  <2>1. /\ page' \in [Pages -> PageStates]
        /\ pc' \in [Requests -> {"new", "building", "sent", "done"}]
        /\ wire' \subseteq Requests
        /\ outcome' \in [Requests -> Outcomes]
        /\ UNCHANGED <<draft, origin, target, answer, status, done>>
    BY <1>t, <1>6, BuildEnds, Apart DEF TypeOK, Finish
  <2>2. \A d \in Creates :
          payload'[d] # None => payload'[d].site \in Sites /\ payload'[d].dest \in Sites \cup {None}
    BY <1>t, <1>6, BuildEnds DEF TypeOK, IInv, PayloadInv
  <2>3. QED
    BY <1>t, <2>1, <2>2 DEF TypeOK
<1>7. ASSUME NEW c \in Creates, SitesCrash(c) \/ CreateAnswered(c) \/ CreateTimesOut(c)
      PROVE  TypeOK'
  BY <1>t, <1>7, Apart DEF SitesCrash, Lose, CreateAnswered, CreateTimesOut, Rerender, Finish, server
<1>8. ASSUME NEW k \in Commands, CommandAnswered(k) \/ CommandTimesOut(k)
      PROVE  TypeOK'
  BY <1>t, <1>8, Apart DEF CommandAnswered, CommandTimesOut, Finish, browser, server
<1>9. ASSUME NEW r \in Requests, Refuse(r) \/ LoseCall(r)
      PROVE  TypeOK'
  BY <1>t, <1>9 DEF Refuse, LoseCall, Handled, browser
<1>10. CASE UNCHANGED vars
  BY <1>t, <1>10 DEF vars, browser, server
<1>11. QED
  BY <1>1, <1>s, <1>2, <1>3, <1>4, <1>5, <1>6, <1>7, <1>8, <1>9, <1>10 DEF Next, View

\* A press makes its send the one active send of a form that had none; every other step of a
\* send leaves its form to no active send.
LEMMA FormStep == IInv /\ [Next]_vars => FormInv'
<1> SUFFICES ASSUME IInv, [Next]_vars
             PROVE  FormInv'
  OBVIOUS
<1>t. TypeOK /\ FormInv /\ SendInv
  BY DEF IInv
<1>u. ASSUME UNCHANGED page, UNCHANGED origin,
             \A c \in Creates : pc'[c] = pc[c] /\ outcome'[c] = outcome[c]
      PROVE  FormInv'
  BY <1>t, <1>u DEF FormInv, Active
<1>d. ASSUME NEW c \in Creates, pc[c] \in {"building", "sent"}, UNCHANGED origin,
             NEW m \in Outcomes \ {"success"}, Finish(c, m),
             NEW v, page' = [page EXCEPT ![origin[c]] = v]
      PROVE  FormInv'
  <2>1. /\ \A d \in Creates \ {c} : pc'[d] = pc[d] /\ outcome'[d] = outcome[d]
        /\ pc'[c] = "done" /\ outcome'[c] = m
        /\ \A p \in Pages \ {origin[c]} : page'[p] = page[p]
    BY <1>t, <1>d, Apart DEF Finish, TypeOK
  <2>2. Active(c) /\ ~Active(c)' /\ \A d \in Creates \ {c} : Active(d)' <=> Active(d)
    BY <1>d, <2>1 DEF Active
  <2>3. \A d \in Creates \ {c} : Active(d) => pc[d] # "new"
    BY <1>t DEF Active, SendInv
  <2>4. QED
    BY <1>t, <1>d, <2>1, <2>2, <2>3 DEF FormInv
<1>1. ASSUME NEW p \in Pages, Edit(p)
      PROVE  FormInv'
  BY <1>1, <1>u DEF Edit
<1>s. ASSUME NEW p \in Pages, Stick(p)
      PROVE  FormInv'
  <2>1. /\ page[p] = "editing" /\ \A q \in Pages \ {p} : page'[q] = page[q]
        /\ UNCHANGED <<origin, pc, outcome>>
    BY <1>s, <1>t DEF Stick, TypeOK
  <2>2. \A c \in Creates : Active(c) => origin[c] \in Pages \ {p}
    BY <1>t, <2>1 DEF FormInv, Active, SendInv
  <2>3. QED
    BY <1>t, <2>1, <2>2 DEF FormInv, Active
<1>2. ASSUME NEW p \in Pages, NEW c \in Creates, Press(p, c)
      PROVE  FormInv'
  <2>1. /\ page[p] = "editing" /\ page' = [page EXCEPT ![p] = "waiting"]
        /\ pc[c] = "new" /\ pc' = [pc EXCEPT ![c] = "building"]
        /\ origin' = [origin EXCEPT ![c] = p] /\ UNCHANGED outcome
    BY <1>2 DEF Press
  <2>2. outcome[c] = "none"
    BY <1>t, <2>1 DEF SendInv
  <2>3. \A d \in Creates \ {c} : Active(d) => origin[d] \in Pages /\ origin[d] # p
    BY <1>t, <2>1 DEF FormInv, SendInv, Active
  <2>4. /\ \A d \in Creates \ {c} : pc'[d] = pc[d] /\ origin'[d] = origin[d]
        /\ pc'[c] = "building" /\ origin'[c] = p
        /\ page'[p] = "waiting" /\ \A q \in Pages \ {p} : page'[q] = page[q]
    BY <1>t, <2>1, Apart DEF TypeOK
  <2>5. \A d \in Creates \ {c} : Active(d)' <=> Active(d)
    BY <2>1, <2>4 DEF Active
  <2>6. QED
    BY <1>t, <2>1, <2>2, <2>3, <2>4, <2>5 DEF FormInv
<1>3. ASSUME NEW k \in Commands, Order(k)
      PROVE  FormInv'
  BY <1>3, <1>t, <1>u, Apart DEF Order, browser, TypeOK
<1>4. ASSUME NEW k \in Commands, Submit(k) \/ Cancel(k)
      PROVE  FormInv'
  BY <1>4, <1>u DEF Submit, Cancel, Takes, Handled, browser
<1>5. ASSUME NEW c \in Creates, Create(c)
      PROVE  FormInv'
  BY <1>5, <1>u, CreateMakesOwn DEF browser
<1>6. ASSUME NEW c \in Creates, Build(c)
      PROVE  FormInv'
  <2>1. pc[c] = "building"
    BY <1>6 DEF Build, Sends
  <2>2. CASE /\ pc' = [pc EXCEPT ![c] = "sent"]
             /\ UNCHANGED <<page, outcome, origin>>
    <3>1. \A d \in Creates : (pc[d] = "new" <=> pc'[d] = "new") /\ (Active(d)' <=> Active(d))
      BY <1>t, <2>1, <2>2, Apart DEF Active, TypeOK
    <3>2. QED
      BY <1>t, <2>2, <3>1 DEF FormInv
  <2>3. CASE Finish(c, "invalid") /\ page' = [page EXCEPT ![origin[c]] = "editing"]
    BY <1>6, <1>d, <2>1, <2>3, BuildEnds DEF Outcomes
  <2>4. CASE Finish(c, "nosites") /\ page' = [page EXCEPT ![origin[c]] = "lost"]
    BY <1>6, <1>d, <2>1, <2>4, BuildEnds DEF Outcomes
  <2>5. QED
    BY <1>6, <2>2, <2>3, <2>4, BuildEnds
<1>7. ASSUME NEW c \in Creates, SitesCrash(c) \/ CreateTimesOut(c)
      PROVE  FormInv'
  BY <1>7, <1>d DEF SitesCrash, Lose, CreateTimesOut, Rerender, Outcomes
<1>8. ASSUME NEW c \in Creates, CreateAnswered(c)
      PROVE  FormInv'
  <2>1. CASE Finish(c, "success") /\ page' = [page EXCEPT ![origin[c]] = "closed"]
    <3>1. pc[c] = "sent" /\ origin[c] \in Pages /\ UNCHANGED origin
      BY <1>t, <1>8 DEF CreateAnswered, FormInv
    <3>2. /\ \A d \in Creates \ {c} : pc'[d] = pc[d] /\ outcome'[d] = outcome[d]
          /\ pc'[c] = "done" /\ outcome'[c] = "success"
          /\ page'[origin[c]] = "closed"
          /\ \A p \in Pages \ {origin[c]} : page'[p] = page[p]
      BY <1>t, <2>1, <3>1, Apart DEF Finish, TypeOK
    <3>3. Active(c) /\ Active(c)' /\ \A d \in Creates \ {c} : Active(d)' <=> Active(d)
      BY <3>1, <3>2 DEF Active
    <3>4. \A d \in Creates \ {c} : Active(d) => origin[d] \in Pages /\ origin[d] # origin[c]
      BY <1>t, <3>3 DEF FormInv, SendInv, Active
    <3>5. QED
      BY <1>t, <3>1, <3>2, <3>3, <3>4 DEF FormInv
  <2>2. CASE Rerender(c, "refused")
    BY <1>8, <1>d, <2>2 DEF CreateAnswered, Rerender, Outcomes
  <2>3. QED
    BY <1>8, <2>1, <2>2 DEF CreateAnswered
<1>9. ASSUME NEW k \in Commands, CommandAnswered(k) \/ CommandTimesOut(k)
      PROVE  FormInv'
  BY <1>9, <1>t, <1>u, Apart DEF CommandAnswered, CommandTimesOut, Finish, browser, TypeOK
<1>10. ASSUME NEW r \in Requests, Refuse(r) \/ LoseCall(r)
       PROVE  FormInv'
  BY <1>10, <1>u DEF Refuse, LoseCall, Handled, browser
<1>11. CASE UNCHANGED vars
  BY <1>11, <1>u DEF vars, browser
<1>12. QED
  BY <1>1, <1>s, <1>2, <1>3, <1>4, <1>5, <1>6, <1>7, <1>8, <1>9, <1>10, <1>11 DEF Next, View

LEMMA SendStep == IInv /\ [Next]_vars => SendInv'
<1> SUFFICES ASSUME IInv, [Next]_vars
             PROVE  SendInv'
  OBVIOUS
<1> USE DEF SendInv, Exists
<1>t. TypeOK /\ SendInv
  BY DEF IInv
<1>u. ASSUME \A c \in Creates :
               /\ pc'[c] = pc[c] /\ outcome'[c] = outcome[c]
               /\ answer'[c] = answer[c] /\ status'[c] = status[c]
               /\ c \in wire' => c \in wire
      PROVE  SendInv'
  BY <1>t, <1>u
<1>1. ASSUME NEW p \in Pages, Edit(p)
      PROVE  SendInv'
  BY <1>1, <1>u DEF Edit, server
<1>s. ASSUME NEW p \in Pages, Stick(p)
      PROVE  SendInv'
  BY <1>s, <1>u DEF Stick, server
<1>2. ASSUME NEW p \in Pages, NEW c \in Creates, Press(p, c)
      PROVE  SendInv'
  BY <1>2, <1>t, Apart DEF Press, server, TypeOK
<1>3. ASSUME NEW k \in Commands, Order(k)
      PROVE  SendInv'
  BY <1>3, <1>t, <1>u, Apart DEF Order, TypeOK
<1>4. ASSUME NEW k \in Commands, Submit(k) \/ Cancel(k)
      PROVE  SendInv'
  <2>1. PICK to \in {"submitted", "cancelled"} :
          /\ status[target[k]] # "none" /\ wire' = wire \ {k}
          /\ answer' = [answer EXCEPT ![k] = "ok"]
          /\ status' = [status EXCEPT ![target[k]] = to]
          /\ UNCHANGED <<pc, outcome>>
    BY <1>4 DEF Submit, Cancel, Takes, Handled
  <2>2. \A c \in Creates : (status'[c] = "none" <=> status[c] = "none") /\ answer'[c] = answer[c]
    BY <1>t, <2>1, Apart DEF TypeOK
  <2>3. QED
    BY <1>t, <2>1, <2>2
<1>5. ASSUME NEW c \in Creates, Create(c)
      PROVE  SendInv'
  <2>1. /\ c \in wire /\ wire' = wire \ {c}
        /\ answer' = [answer EXCEPT ![c] = c]
        /\ status' = [status EXCEPT ![c] = "draft"]
        /\ UNCHANGED <<pc, outcome>>
    BY <1>5, CreateMakesOwn
  <2>2. /\ answer'[c] = c /\ status'[c] = "draft"
        /\ \A d \in Creates \ {c} : answer'[d] = answer[d] /\ status'[d] = status[d]
    BY <1>t, <2>1, Apart DEF TypeOK
  <2>3. answer[c] = "none" /\ c # "none"
    BY <1>t, <2>1, Apart
  <2>4. QED
    BY <1>t, <2>1, <2>2, <2>3
<1>6. ASSUME NEW c \in Creates, Build(c)
      PROVE  SendInv'
  <2>1. pc[c] = "building" /\ UNCHANGED <<answer, status>> /\ answer[c] = "none" /\ c # "none"
    BY <1>6, <1>t, BuildEnds, Apart DEF Build, Sends
  <2>2. CASE pc' = [pc EXCEPT ![c] = "sent"] /\ wire' = wire \cup {c} /\ UNCHANGED outcome
    <3>1. pc'[c] = "sent" /\ \A d \in Creates \ {c} : pc'[d] = pc[d]
      BY <1>t, <2>2, Apart DEF TypeOK
    <3>2. QED
      BY <1>t, <2>1, <2>2, <3>1
  <2>3. CASE (Finish(c, "invalid") \/ Finish(c, "nosites")) /\ UNCHANGED wire
    BY <1>t, <2>1, <2>3, Apart DEF Finish, TypeOK
  <2>4. QED
    BY <1>6, <2>2, <2>3, BuildEnds
<1>7. ASSUME NEW c \in Creates, SitesCrash(c) \/ CreateAnswered(c) \/ CreateTimesOut(c)
      PROVE  SendInv'
  <2>1. /\ pc[c] \in {"building", "sent"} /\ UNCHANGED <<wire, answer, status>>
        /\ \/ Finish(c, "crash") /\ pc[c] = "building"
           \/ Finish(c, "success") /\ answer[c] \in Creates
           \/ Finish(c, "refused") /\ answer[c] = "refused"
           \/ Finish(c, "unavailable")
    BY <1>7 DEF SitesCrash, Lose, CreateAnswered, CreateTimesOut, Rerender, server
  <2>2. PICK m \in {"crash", "success", "refused", "unavailable"} :
          /\ pc'[c] = "done" /\ outcome'[c] = m
          /\ \A d \in Creates \ {c} : pc'[d] = pc[d] /\ outcome'[d] = outcome[d]
          /\ m = "crash" => pc[c] = "building"
          /\ m = "success" => answer[c] = c
          /\ m = "refused" => answer[c] = "refused"
    BY <1>t, <2>1, Apart DEF Finish, TypeOK
  <2>3. QED
    BY <1>t, <2>1, <2>2
<1>8. ASSUME NEW k \in Commands, CommandAnswered(k) \/ CommandTimesOut(k)
      PROVE  SendInv'
  BY <1>8, <1>t, <1>u, Apart DEF CommandAnswered, CommandTimesOut, Finish, server, TypeOK
<1>9. ASSUME NEW r \in Requests, Refuse(r)
      PROVE  SendInv'
  <2>1. /\ r \in wire /\ wire' = wire \ {r} /\ UNCHANGED <<pc, outcome, status>>
        /\ answer'[r] = "refused" /\ \A q \in Requests \ {r} : answer'[q] = answer[q]
    BY <1>9, <1>t DEF Refuse, Handled, TypeOK
  <2>2. QED
    BY <1>t, <2>1, Apart
<1>10. ASSUME NEW r \in Requests, LoseCall(r)
       PROVE  SendInv'
  BY <1>10, <1>u DEF LoseCall
<1>11. CASE UNCHANGED vars
  BY <1>11, <1>u DEF vars, server
<1>12. QED
  BY <1>1, <1>s, <1>2, <1>3, <1>4, <1>5, <1>6, <1>7, <1>8, <1>9, <1>10, <1>11 DEF Next, View

LEMMA PayloadStep == IInv /\ [Next]_vars => PayloadInv'
<1> SUFFICES ASSUME IInv, [Next]_vars
             PROVE  PayloadInv'
  OBVIOUS
<1> DEFINE Shown(p) == Content(Payload(draft[p], FixedSite[p], None))
           Out(c) == pc[c] = "sent" \/ c \in wire \/ answer[c] # "none"
<1>t. TypeOK /\ FormInv /\ SendInv /\ PayloadInv
  BY DEF IInv
<1>p. /\ payload = [c \in Creates |-> payload[c]]
      /\ \A c \in Creates : Out(c) => WellFormed(payload[c]) /\ payload[c].key \in {None, c}
      /\ \A c \in Creates : pc[c] = "sent" => Content(payload[c]) = Shown(origin[c])
      /\ \A p \in Pages : page[p] = "closed" =>
           \E o \in Creates : Exists(o) /\ Content(payload[o]) = Shown(p)
  BY <1>t DEF PayloadInv, Stored
<1>g. ASSUME payload' = [c \in Creates |-> payload'[c]],
             \A c \in Creates : Out(c)' => WellFormed(payload'[c]) /\ payload'[c].key \in {None, c},
             \A c \in Creates : pc'[c] = "sent" => Content(payload'[c]) = Shown(origin[c])',
             \A p \in Pages : page'[p] = "closed" =>
               \E o \in Creates : Exists(o)' /\ Content(payload'[o]) = Shown(p)'
      PROVE  PayloadInv'
  BY <1>g DEF PayloadInv, Stored, Content, WellFormed
<1> HIDE DEF Shown, Out
<1>u. ASSUME UNCHANGED payload,
             \A c \in Creates : Out(c)' => Out(c),
             \A c \in Creates : pc'[c] = "sent" =>
               pc[c] = "sent" /\ Shown(origin[c])' = Shown(origin[c]),
             \A c \in Creates : Exists(c) => Exists(c)',
             \A p \in Pages : page'[p] = "closed" => page[p] = "closed" /\ Shown(p)' = Shown(p)
      PROVE  PayloadInv'
  BY <1>u, <1>p, <1>g
<1>v. ASSUME UNCHANGED <<payload, draft, origin>>,
             \A c \in Creates :
               c \in wire' \/ answer'[c] # "none" => c \in wire \/ answer[c] # "none",
             \A c \in Creates : pc'[c] = "sent" => pc[c] = "sent",
             \A c \in Creates : Exists(c) => Exists(c)',
             \A p \in Pages : page'[p] = "closed" => page[p] = "closed"
      PROVE  PayloadInv'
  BY <1>u, <1>v DEF Shown, Out
<1>1. ASSUME NEW p \in Pages, Edit(p)
      PROVE  PayloadInv'
  <2>1. /\ page[p] = "editing" /\ \A q \in Pages \ {p} : draft'[q] = draft[q]
        /\ UNCHANGED <<page, origin, payload, pc, wire, answer, status>>
    BY <1>1, <1>t DEF Edit, server, TypeOK
  <2>2. \A c \in Creates : pc[c] = "sent" => origin[c] \in Pages \ {p}
    BY <1>t, <2>1 DEF FormInv, Active, SendInv
  <2>3. QED
    BY <1>u, <2>1, <2>2 DEF Shown, Out, Exists
<1>s. ASSUME NEW p \in Pages, Stick(p)
      PROVE  PayloadInv'
  <2>1. \A q \in Pages : page'[q] = "closed" => page[q] = "closed"
    BY <1>s, <1>t DEF Stick, TypeOK
  <2>2. QED
    BY <1>s, <1>v, <2>1 DEF Stick, server, Exists
<1>2. ASSUME NEW p \in Pages, NEW c \in Creates, Press(p, c)
      PROVE  PayloadInv'
  <2>1. /\ UNCHANGED <<draft, payload, wire, answer, status>>
        /\ pc'[c] = "building" /\ \A d \in Creates \ {c} : pc'[d] = pc[d] /\ origin'[d] = origin[d]
        /\ \A q \in Pages : page'[q] = "closed" => page[q] = "closed"
    BY <1>2, <1>t, Apart DEF Press, server, TypeOK
  <2>2. QED
    BY <1>u, <2>1 DEF Shown, Out, Exists
<1>3. ASSUME NEW k \in Commands, Order(k)
      PROVE  PayloadInv'
  <2>1. UNCHANGED <<payload, draft, origin, page, answer, status>> /\ wire' = wire \cup {k}
    BY <1>3 DEF Order, browser
  <2>2. \A c \in Creates : pc'[c] = pc[c]
    BY <1>3, <1>t, Apart DEF Order, TypeOK
  <2>3. QED
    BY <1>v, <2>1, <2>2, Apart DEF Exists
<1>4. ASSUME NEW k \in Commands, Submit(k) \/ Cancel(k)
      PROVE  PayloadInv'
  <2>1. PICK to \in {"submitted", "cancelled"} :
          /\ status[target[k]] # "none" /\ wire' = wire \ {k}
          /\ answer' = [answer EXCEPT ![k] = "ok"]
          /\ status' = [status EXCEPT ![target[k]] = to]
          /\ UNCHANGED <<page, draft, origin, payload, pc>>
    BY <1>4 DEF Submit, Cancel, Takes, Handled, browser
  <2>2. \A c \in Creates : (status'[c] = "none" <=> status[c] = "none") /\ answer'[c] = answer[c]
    BY <1>t, <2>1, Apart DEF TypeOK
  <2>3. QED
    BY <1>v, <2>1, <2>2 DEF Exists
<1>5. ASSUME NEW c \in Creates, Create(c)
      PROVE  PayloadInv'
  <2>1. /\ c \in wire /\ UNCHANGED <<page, draft, origin, payload, pc>> /\ wire' = wire \ {c}
        /\ \A d \in Creates \ {c} : answer'[d] = answer[d] /\ status'[d] = status[d]
        /\ status'[c] = "draft"
    BY <1>5, <1>t, CreateMakesOwn, Apart DEF browser, TypeOK
  <2>2. QED
    BY <1>v, <2>1 DEF Exists
<1>6. ASSUME NEW c \in Creates, Build(c)
      PROVE  PayloadInv'
  <2>1. /\ UNCHANGED <<draft, origin, answer, status>> /\ origin[c] \in Pages
        /\ pc[c] = "building" /\ ~Exists(c)
    BY <1>6, <1>t, BuildEnds, Apart DEF Build, Sends, SendInv
  <2>2. CASE /\ payload' = [payload EXCEPT
                          ![c] = Payload(draft[origin[c]], FixedSite[origin[c]], c)]
             /\ WellFormed(payload'[c]) /\ payload'[c].key \in {None, c}
             /\ pc' = [pc EXCEPT ![c] = "sent"]
             /\ wire' = wire \cup {c}
             /\ UNCHANGED page
    <3>1. /\ payload' = [d \in Creates |-> payload'[d]]
          /\ payload'[c] = Payload(draft[origin[c]], FixedSite[origin[c]], c)
          /\ \A d \in Creates \ {c} : payload'[d] = payload[d] /\ pc'[d] = pc[d]
      BY <1>t, <1>p, <2>2, Apart DEF TypeOK
    <3>2. Content(payload'[c]) = Shown(origin[c])
      BY <3>1, ContentIgnoresKey DEF Shown
    <3>3. \A p : Shown(p)' = Shown(p)
      BY <2>1 DEF Shown
    <3>4. \A d \in Creates \ {c} : (Out(d)' => Out(d)) /\ (Exists(d)' <=> Exists(d))
      BY <2>1, <2>2, <3>1 DEF Out, Exists
    <3>5. \A d \in Creates : Out(d)' => WellFormed(payload'[d]) /\ payload'[d].key \in {None, d}
      BY <1>p, <2>2, <3>1, <3>4
    <3>6. \A d \in Creates : pc'[d] = "sent" => Content(payload'[d]) = Shown(origin[d])'
      BY <1>p, <2>1, <3>1, <3>2, <3>3 DEF Shown
    <3>7. \A p \in Pages : page'[p] = "closed" =>
            \E o \in Creates : Exists(o)' /\ Content(payload'[o]) = Shown(p)'
      BY <1>p, <2>1, <2>2, <3>1, <3>3, <3>4
    <3>8. QED
      BY <1>g, <3>1, <3>5, <3>6, <3>7
  <2>3. CASE /\ pc' = [pc EXCEPT ![c] = "done"]
             /\ \E v \in {"editing", "lost"} : page' = [page EXCEPT ![origin[c]] = v]
             /\ UNCHANGED <<payload, wire>>
    <3>1. /\ \A d \in Creates : pc'[d] = "sent" => pc[d] = "sent"
          /\ \A p \in Pages : page'[p] = "closed" => page[p] = "closed"
      BY <1>t, <2>3, Apart DEF TypeOK
    <3>2. QED
      BY <1>v, <2>1, <2>3, <3>1 DEF Exists
  <2>4. QED
    BY <1>6, <2>2, <2>3, BuildEnds DEF Finish
<1>7. ASSUME NEW c \in Creates, SitesCrash(c) \/ CreateAnswered(c) \/ CreateTimesOut(c)
      PROVE  PayloadInv'
  <2>1. /\ UNCHANGED <<payload, draft, origin, wire, answer, status>>
        /\ \A d \in Creates : pc'[d] = "sent" => pc[d] = "sent"
    BY <1>7, <1>t, Apart
       DEF SitesCrash, Lose, CreateAnswered, CreateTimesOut, Rerender, Finish, server, TypeOK
  <2>2. CASE \A p \in Pages : page'[p] = "closed" => page[p] = "closed"
    BY <1>v, <2>1, <2>2 DEF Exists
  <2>3. CASE /\ pc[c] = "sent" /\ answer[c] \in Creates
             /\ page' = [page EXCEPT ![origin[c]] = "closed"]
    <3>1. Exists(c) /\ Content(payload[c]) = Shown(origin[c]) /\ c # "none"
      BY <1>p, <1>t, <2>3, Apart DEF SendInv
    <3>2. \A p \in Pages \ {origin[c]} : page'[p] = page[p]
      BY <1>t, <2>3 DEF TypeOK
    <3>3. \A p \in Pages : page'[p] = "closed" =>
            \E o \in Creates : Exists(o) /\ Content(payload[o]) = Shown(p)
      BY <1>p, <3>1, <3>2
    <3>4. QED
      BY <1>g, <1>p, <2>1, <3>3 DEF Shown, Out, Exists
  <2>4. QED
    <3>1. CASE SitesCrash(c)
      BY <1>t, <2>2, <3>1 DEF SitesCrash, Lose, TypeOK
    <3>2. CASE CreateAnswered(c)
      BY <1>t, <2>2, <2>3, <3>2 DEF CreateAnswered, Rerender, TypeOK
    <3>3. CASE CreateTimesOut(c)
      BY <1>t, <2>2, <3>3 DEF CreateTimesOut, Rerender, TypeOK
    <3>4. QED
      BY <1>7, <3>1, <3>2, <3>3
<1>8. ASSUME NEW k \in Commands, CommandAnswered(k) \/ CommandTimesOut(k)
      PROVE  PayloadInv'
  <2>1. UNCHANGED <<payload, draft, origin, page, wire, answer, status>>
    BY <1>8 DEF CommandAnswered, CommandTimesOut, browser, server
  <2>2. \A c \in Creates : pc'[c] = pc[c]
    BY <1>8, <1>t, Apart DEF CommandAnswered, CommandTimesOut, Finish, TypeOK
  <2>3. QED
    BY <1>v, <2>1, <2>2 DEF Exists
<1>9. ASSUME NEW r \in Requests, Refuse(r) \/ LoseCall(r)
      PROVE  PayloadInv'
  <2>1. /\ r \in wire /\ wire' = wire \ {r}
        /\ \A q \in Requests \ {r} : answer'[q] = answer[q]
        /\ UNCHANGED <<payload, draft, origin, page, pc, status>>
    BY <1>9, <1>t DEF Refuse, LoseCall, Handled, browser, TypeOK
  <2>2. QED
    BY <1>v, <2>1, Apart DEF Exists
<1>10. CASE UNCHANGED vars
  BY <1>10, <1>v DEF vars, browser, server, Exists
<1>11. QED
  BY <1>1, <1>s, <1>2, <1>3, <1>4, <1>5, <1>6, <1>7, <1>8, <1>9, <1>10 DEF Next, View

\* A form is lost by a send that ends with one of the two messages, and keeps them both.
LEMMA LostStep == IInv /\ [Next]_vars => LostInv'
<1> SUFFICES ASSUME IInv, [Next]_vars
             PROVE  LostInv'
  OBVIOUS
<1>t. TypeOK /\ FormInv /\ SendInv /\ LostInv
  BY DEF IInv
<1>u. ASSUME \A c \in Creates : outcome[c] # "none" =>
               outcome'[c] = outcome[c] /\ origin'[c] = origin[c],
             \A p \in Pages : page'[p] = "lost" => page[p] = "lost"
      PROVE  LostInv'
  BY <1>t, <1>u DEF LostInv
<1>v. ASSUME UNCHANGED <<page, origin>>, \A c \in Creates : outcome'[c] = outcome[c]
      PROVE  LostInv'
  BY <1>u, <1>v
<1>d. ASSUME NEW c \in Creates, pc[c] \in {"building", "sent"}, UNCHANGED origin,
             NEW m, Finish(c, m), NEW v, page' = [page EXCEPT ![origin[c]] = v],
             v = "lost" => m \in {"crash", "nosites"}
      PROVE  LostInv'
  <2>1. outcome'[c] = m /\ \A d \in Creates \ {c} : outcome'[d] = outcome[d]
    BY <1>t, <1>d, Apart DEF Finish, TypeOK
  <2>2. outcome[c] = "none"
    BY <1>t, <1>d DEF SendInv
  <2>3. \A p \in Pages : page'[p] = "lost" => page[p] = "lost" \/ (p = origin[c] /\ v = "lost")
    BY <1>t, <1>d DEF TypeOK
  <2>4. QED
    BY <1>t, <1>d, <2>1, <2>2, <2>3 DEF LostInv
<1>1. ASSUME NEW p \in Pages, Edit(p) \/ Stick(p)
      PROVE  LostInv'
  BY <1>1, <1>t, <1>u DEF Edit, Stick, TypeOK
<1>2. ASSUME NEW p \in Pages, NEW c \in Creates, Press(p, c)
      PROVE  LostInv'
  BY <1>2, <1>t, <1>u DEF Press, TypeOK, SendInv
<1>3. ASSUME NEW k \in Commands, Order(k) \/ Submit(k) \/ Cancel(k)
      PROVE  LostInv'
  BY <1>3, <1>v DEF Order, Submit, Cancel, Takes, Handled, browser
<1>4. ASSUME NEW c \in Creates, Create(c)
      PROVE  LostInv'
  BY <1>4, <1>v, CreateMakesOwn DEF browser
<1>5. ASSUME NEW c \in Creates, Build(c)
      PROVE  LostInv'
  <2>1. pc[c] = "building" /\ UNCHANGED origin
    BY <1>5 DEF Build, Sends
  <2>2. CASE UNCHANGED <<page, outcome>>
    BY <1>v, <2>1, <2>2
  <2>3. CASE Finish(c, "invalid") /\ page' = [page EXCEPT ![origin[c]] = "editing"]
    BY <1>d, <2>1, <2>3
  <2>4. CASE Finish(c, "nosites") /\ page' = [page EXCEPT ![origin[c]] = "lost"]
    BY <1>d, <2>1, <2>4
  <2>5. QED
    BY <1>5, <2>2, <2>3, <2>4, BuildEnds
<1>6. ASSUME NEW c \in Creates, SitesCrash(c) \/ CreateAnswered(c) \/ CreateTimesOut(c)
      PROVE  LostInv'
  BY <1>6, <1>d DEF SitesCrash, Lose, CreateAnswered, CreateTimesOut, Rerender
<1>7. ASSUME NEW k \in Commands, CommandAnswered(k) \/ CommandTimesOut(k)
      PROVE  LostInv'
  BY <1>7, <1>t, <1>v, Apart DEF CommandAnswered, CommandTimesOut, Finish, browser, TypeOK
<1>8. ASSUME NEW r \in Requests, Refuse(r) \/ LoseCall(r)
      PROVE  LostInv'
  BY <1>8, <1>v DEF Refuse, LoseCall, Handled, browser
<1>9. CASE UNCHANGED vars
  BY <1>9, <1>v DEF vars, browser
<1>10. QED
  BY <1>1, <1>2, <1>3, <1>4, <1>5, <1>6, <1>7, <1>8, <1>9 DEF Next, View

LEMMA CommandStep == IInv /\ [Next]_vars => CommandInv'
<1> SUFFICES ASSUME IInv, [Next]_vars
             PROVE  CommandInv'
  OBVIOUS
<1> USE DEF CommandInv
<1>t. TypeOK /\ CommandInv
  BY DEF IInv
<1>u. ASSUME \A k \in Commands :
               /\ pc'[k] = pc[k] /\ outcome'[k] = outcome[k] /\ target'[k] = target[k]
               /\ answer'[k] = answer[k]
               /\ k \in done' <=> k \in done
               /\ k \in wire' => k \in wire
      PROVE  CommandInv'
  BY <1>t, <1>u
<1>1. ASSUME NEW p \in Pages, Edit(p)
      PROVE  CommandInv'
  BY <1>1, <1>u DEF Edit, server
<1>s. ASSUME NEW p \in Pages, Stick(p)
      PROVE  CommandInv'
  BY <1>s, <1>u DEF Stick, server
<1>2. ASSUME NEW p \in Pages, NEW c \in Creates, Press(p, c)
      PROVE  CommandInv'
  BY <1>2, <1>t, <1>u, Apart DEF Press, server, TypeOK
<1>3. ASSUME NEW k \in Commands, Order(k)
      PROVE  CommandInv'
  <2>1. /\ pc[k] = "new" /\ wire' = wire \cup {k} /\ UNCHANGED <<outcome, answer, done>>
        /\ pc'[k] = "sent" /\ target'[k] \in Creates
        /\ \A l \in Commands \ {k} : pc'[l] = pc[l] /\ target'[l] = target[l]
    BY <1>3, <1>t, Apart DEF Order, TypeOK
  <2>2. QED
    BY <1>t, <2>1
<1>4. ASSUME NEW k \in Commands, Submit(k) \/ Cancel(k)
      PROVE  CommandInv'
  <2>1. /\ k \in wire /\ wire' = wire \ {k} /\ done' = done \cup {k}
        /\ answer'[k] = "ok" /\ \A l \in Commands \ {k} : answer'[l] = answer[l]
        /\ UNCHANGED <<pc, outcome, target>>
    BY <1>4, <1>t, Apart DEF Submit, Cancel, Takes, Handled, TypeOK
  <2>2. QED
    BY <1>t, <2>1
<1>5. ASSUME NEW c \in Creates, Create(c)
      PROVE  CommandInv'
  BY <1>5, <1>t, <1>u, CreateMakesOwn, Apart DEF TypeOK
<1>6. ASSUME NEW c \in Creates, Build(c)
      PROVE  CommandInv'
  BY <1>6, <1>t, <1>u, BuildEnds, Apart DEF Finish, TypeOK
<1>7. ASSUME NEW c \in Creates, SitesCrash(c) \/ CreateAnswered(c) \/ CreateTimesOut(c)
      PROVE  CommandInv'
  BY <1>7, <1>t, <1>u, Apart
     DEF SitesCrash, Lose, CreateAnswered, CreateTimesOut, Rerender, Finish, server, TypeOK
<1>8. ASSUME NEW k \in Commands, CommandAnswered(k) \/ CommandTimesOut(k)
      PROVE  CommandInv'
  <2>1. /\ pc[k] = "sent" /\ pc'[k] = "done" /\ UNCHANGED <<wire, answer, target, done>>
        /\ \A l \in Commands \ {k} : pc'[l] = pc[l] /\ outcome'[l] = outcome[l]
        /\ outcome'[k] \in {"success", "acceptance"} => answer[k] = "ok"
        /\ outcome'[k] = "refused" => answer[k] = "refused"
    BY <1>8, <1>t, Apart DEF CommandAnswered, CommandTimesOut, Finish, server, TypeOK
  <2>2. QED
    BY <1>t, <2>1
<1>9. ASSUME NEW r \in Requests, Refuse(r) \/ LoseCall(r)
      PROVE  CommandInv'
  <2>1. /\ r \in wire /\ wire' = wire \ {r}
        /\ \A q \in Requests \ {r} : answer'[q] = answer[q]
        /\ answer'[r] \in {"refused", answer[r]}
        /\ UNCHANGED <<pc, outcome, target, done>>
    BY <1>9, <1>t DEF Refuse, LoseCall, Handled, TypeOK
  <2>2. QED
    BY <1>t, <2>1, Apart
<1>10. CASE UNCHANGED vars
  BY <1>10, <1>u DEF vars, server
<1>11. QED
  BY <1>1, <1>s, <1>2, <1>3, <1>4, <1>5, <1>6, <1>7, <1>8, <1>9, <1>10 DEF Next, View

-----------------------------------------------------------------------------
(* The theorems. *)

\* Every reachable state of any number of forms, sends and commands satisfies the invariant.
THEOREM Invariant == Spec => []IInv
<1>1. Init => IInv
  BY Initial
<1>2. IInv /\ [Next]_vars => IInv'
  <2>1. SUFFICES ASSUME IInv, [Next]_vars
                 PROVE  IInv'
    OBVIOUS
  <2>2. TypeOK' /\ FormInv' /\ SendInv' /\ PayloadInv' /\ LostInv' /\ CommandInv'
    BY <2>1, TypeStep, FormStep, SendStep, PayloadStep, LostStep, CommandStep
  <2>3. QED
    BY <2>2 DEF IInv
<1>3. QED
  BY <1>1, <1>2, PTL DEF Spec

\* The types of the model are kept by every step of views.py's create, submit and cancel.
THEOREM TypeCorrect == Spec => []TypeOK
<1>1. IInv => TypeOK
  BY DEF IInv
<1>2. QED
  BY <1>1, Invariant, PTL

\* What _build_create_payload and validate_payload let through to the server is well formed,
\* for every draft, every warehouse and whatever the two warehouse queries answer.
THEOREM StoredAreWellFormed == Spec => []StoredIsWellFormed
<1>1. IInv => StoredIsWellFormed
  <2>1. SUFFICES ASSUME IInv, NEW c \in Creates, Exists(c)
                 PROVE  WellFormed(payload[c])
    BY DEF StoredIsWellFormed
  <2>2. answer[c] # "none"
    BY <2>1, Apart DEF IInv, SendInv
  <2>3. QED
    BY <2>1, <2>2 DEF IInv, PayloadInv
<1>2. QED
  BY <1>1, Invariant, PTL

\* The messages of OperationCreateView, SubmitOperationView and CancelOperationView are true
\* when they are shown and stay true, however late the server handles a call.
THEOREM MessagesAreTrue == Spec => []MessageTellsTruth
<1>1. IInv => MessageTellsTruth
  <2>1. SUFFICES ASSUME IInv
                 PROVE  MessageTellsTruth
    OBVIOUS
  <2>2. ASSUME NEW c \in Creates
        PROVE  /\ outcome[c] = "success" => \E o \in Creates : Exists(o) /\ answer[c] = o
               /\ outcome[c] \in {"invalid", "refused", "nosites", "crash"}
                    => c \notin wire /\ ~Exists(c)
    BY <2>1, Apart DEF IInv, SendInv
  <2>3. ASSUME NEW k \in Commands
        PROVE  /\ outcome[k] \in {"success", "acceptance"} => k \in done
               /\ outcome[k] = "refused" => k \notin done \cup wire
    BY <2>1 DEF IInv, CommandInv
  <2>4. QED
    BY <2>2, <2>3 DEF MessageTellsTruth
<1>2. QED
  BY <1>1, Invariant, PTL

\* A form is left for the operation's page only when the server holds its very draft, and a
\* draft is lost without it only by a POST whose reading of the warehouses failed, of which
\* the server has and gets nothing.
THEOREM LeftFormsAreStored == Spec => []LeftFormIsStored
<1>1. IInv => LeftFormIsStored
  <2>1. SUFFICES ASSUME IInv, NEW p \in Pages
                 PROVE  /\ page[p] = "closed" => Stored(p)
                        /\ page[p] = "lost" =>
                             \E c \in Creates :
                               /\ origin[c] = p /\ outcome[c] \in {"crash", "nosites"}
                               /\ c \notin wire /\ ~Exists(c)
    BY DEF LeftFormIsStored
  <2>2. page[p] = "closed" => Stored(p)
    BY <2>1 DEF IInv, PayloadInv
  <2>3. ASSUME NEW c \in Creates, outcome[c] \in {"crash", "nosites"}
        PROVE  c \notin wire /\ ~Exists(c)
    BY <2>1, <2>3, Apart DEF IInv, SendInv
  <2>4. QED
    BY <2>1, <2>2, <2>3 DEF IInv, LostInv
<1>2. QED
  BY <1>1, Invariant, PTL

\* The lock of the form (data-loading-form) is enough: a form stores a second operation only
\* after one of the two calls got no answer.
THEOREM SecondNeedsTimeout == Spec => []SecondOnlyAfterTimeout
<1>1. IInv => SecondOnlyAfterTimeout
  <2>1. SUFFICES ASSUME IInv, NEW c \in Creates, NEW d \in Creates,
                        c # d, Exists(c), Exists(d), origin[c] = origin[d]
                 PROVE  "unavailable" \in {outcome[c], outcome[d]}
    BY DEF SecondOnlyAfterTimeout
  <2>2. ASSUME NEW e \in {c, d}
        PROVE  Active(e) \/ outcome[e] = "unavailable"
    BY <2>1, <2>2, Apart DEF IInv, SendInv, Active, TypeOK
  <2>3. ~(Active(c) /\ Active(d))
    BY <2>1 DEF IInv, FormInv
  <2>4. QED
    BY <2>2, <2>3
<1>2. QED
  BY <1>1, Invariant, PTL
=============================================================================
