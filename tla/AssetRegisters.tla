--------------------------- MODULE AssetRegisters ---------------------------
(***************************************************************************)
(* The losses an acceptance leaves behind, and their resolution            *)
(* (LostAssetDetailView, LostAssetResolveView), composed with Acceptance:  *)
(* the requests of both forms run at the same time on the same registers.  *)
(*                                                                         *)
(* A resolution is one POST of the form on the page of a lost line.  Like  *)
(* the acceptance it reads the register again, validates, and posts; its   *)
(* calls can fail, time out, or be carried out late.                       *)
(***************************************************************************)
EXTENDS Acceptance

CONSTANTS
  Resolves,    \* POSTs of the form that resolves a loss
  HasSource,   \* whether the operation has a source site (MOVE) or not (RECEIVE)
  MaxForms     \* bound: forms begun at most, of both kinds together

ASSUME AssetAssumption ==
  /\ Resolves \cap Requests = {}
  /\ HasSource \in BOOLEAN
  /\ MaxForms \in Nat

VARIABLES
  found,       \* found[l]: of the losses of l, found at the destination
  away,        \* away[l]: of the losses of l, returned to the source or written off
  resolved,    \* resolutions the server has booked
  lossWire,    \* resolutions whose call the server has yet to handle
  lossAnswer,  \* lossAnswer[q]: what the server replied to the call of q
  lossPc,      \* lossPc[q]: where the page of q, then LostAssetResolveView.post, is
  claim,       \* claim[q]: line, action and quantity q carries
  seen,        \* seen[q]: max_qty, as read again by the POST
  lossOutcome, \* lossOutcome[q]: the message the user is shown
  lossRaced    \* history: another resolution was booked after q read the loss again

lossServer == <<found, away, resolved, lossWire, lossAnswer>>
lossVars == <<lossServer, lossPc, claim, seen, lossOutcome, lossRaced>>
assetVars == <<vars, lossVars>>

\* LOST_ASSET_ACTIONS, of which a page offers those the loss allows.
Actions == {"found_to_destination", "return_to_source", "write_off"}
Offered == Actions \ (IF HasSource THEN {} ELSE {"return_to_source"})

\* A loss as GET /lost-assets tells it.
Open(l) == lost[l] - found[l] - away[l]

Claims == [line : Nat, action : Actions, qty : Nat]
NoClaim == [line |-> 0, action |-> "write_off", qty |-> 0]

AssetTypeOK ==
  /\ TypeOK
  /\ found \in [Lines -> Nat]
  /\ away \in [Lines -> Nat]
  /\ resolved \subseteq Resolves
  /\ lossWire \subseteq Resolves
  /\ lossAnswer \in [Resolves -> {"none", "success", "conflict", "refused"}]
  /\ lossPc \in [Resolves -> {"new", "page", "reading", "checking", "sent", "done"}]
  /\ claim \in [Resolves -> Claims]
  /\ seen \in [Resolves -> Nat]
  /\ lossOutcome \in [Resolves -> {"none", "success", "conflict", "refused", "gone",
                                   "invalid", "unavailable", "crash"}]
  /\ lossRaced \in [Resolves -> BOOLEAN]
  /\ \A l \in Lines : Open(l) >= 0
  /\ \A q \in Resolves : lossPc[q] # "new" => claim[q].line \in Lines

AssetInit ==
  /\ Init
  /\ found = [l \in Lines |-> 0]
  /\ away = [l \in Lines |-> 0]
  /\ resolved = {}
  /\ lossWire = {}
  /\ lossAnswer = [q \in Resolves |-> "none"]
  /\ lossPc = [q \in Resolves |-> "new"]
  /\ claim = [q \in Resolves |-> NoClaim]
  /\ seen = [q \in Resolves |-> 0]
  /\ lossOutcome = [q \in Resolves |-> "none"]
  /\ lossRaced = [q \in Resolves |-> FALSE]

-----------------------------------------------------------------------------
\* The list of the losses and the page of one of them: the field for the quantity is
\* filled, and limited, with what is open when the page is rendered.
OpenLoss(q) ==
  /\ lossPc[q] = "new"
  /\ \E l \in Lines :
       /\ Open(l) > 0
       /\ claim' = [claim EXCEPT ![q] = [line |-> l, action |-> "write_off", qty |-> Open(l)]]
  /\ lossPc' = [lossPc EXCEPT ![q] = "page"]
  /\ UNCHANGED <<vars, lossServer, seen, lossOutcome, lossRaced>>

\* The user chooses an action and a quantity and sends the form; a field that holds no
\* positive number counts as 0.  It is not one of the forms a first press locks, so two
\* requests may come from one page.
PressResolve(q) ==
  /\ lossPc[q] = "page"
  /\ \E a \in Offered, n \in 0 .. claim[q].qty :
       claim' = [claim EXCEPT ![q] = [line |-> @.line, action |-> a, qty |-> n]]
  /\ lossPc' = [lossPc EXCEPT ![q] = "reading"]
  /\ UNCHANGED <<vars, lossServer, seen, lossOutcome, lossRaced>>

LossEnds(q, message) ==
  /\ lossPc' = [lossPc EXCEPT ![q] = "done"]
  /\ lossOutcome' = [lossOutcome EXCEPT ![q] = message]
  /\ UNCHANGED <<vars, lossServer, claim, seen, lossRaced>>

\* The POST reads the loss again.  A loss with nothing open is either not found, or a
\* row that is marked as resolved and has nothing left.  Its quantity comes under one of
\* two names, "qty" or "lost_qty", which the pages show as one.
ReadLoss(q) ==
  /\ lossPc[q] = "reading"
  /\ \/ /\ seen' = [seen EXCEPT ![q] = Open(claim[q].line)]
        /\ lossPc' = [lossPc EXCEPT ![q] = "checking"]
        /\ UNCHANGED <<vars, lossServer, claim, lossOutcome, lossRaced>>
     \/ Open(claim[q].line) = 0 /\ LossEnds(q, "gone")

\* That GET fails; or the names of the sites, which presenting the loss asks for, cannot
\* be had from either of two places, and the error of the second is caught nowhere.
ReadLossFails(q) ==
  \/ lossPc[q] = "reading" /\ LossEnds(q, "unavailable")
  \/ lossPc[q] = "checking" /\ LossEnds(q, "crash")

\* Mutant: the quantity is not compared with what is left.
LossValidMutant(q) == claim[q].qty > 0

\* validate_lost_asset_resolve raises no error.
LossValid(q) ==
  /\ claim[q].action = "return_to_source" => HasSource
  /\ claim[q].qty > 0
  /\ claim[q].qty <= seen[q]

\* The resolve call of q is under way.
SendsLoss(q) == lossWire' = lossWire \cup {q}

CheckLoss(q) ==
  /\ lossPc[q] = "checking"
  /\ \/ /\ LossValid(q)
        /\ lossPc' = [lossPc EXCEPT ![q] = "sent"]
        /\ SendsLoss(q)
        /\ UNCHANGED <<vars, found, away, resolved, lossAnswer, claim, seen, lossOutcome,
                       lossRaced>>
     \/ ~LossValid(q) /\ LossEnds(q, "invalid")

ReceiveLoss(q) ==
  /\ lossPc[q] = "sent"
  /\ lossAnswer[q] # "none"
  /\ LossEnds(q, lossAnswer[q])

\* Mutant: a call that got no answer is reported as refused.
LossTimesOutMutant(q) == lossPc[q] = "sent" /\ LossEnds(q, "refused")

\* Mutant: a call that got no answer is sent again.
LossTimesOutRetry(q) ==
  /\ lossPc[q] = "sent"
  /\ SendsLoss(q)
  /\ UNCHANGED <<vars, found, away, resolved, lossAnswer, lossPc, claim, seen, lossOutcome,
                 lossRaced>>

\* Mutant: the client has no timeout and waits for an answer.
LossTimesOutNever(q) == FALSE

LossTimesOut(q) == lossPc[q] = "sent" /\ LossEnds(q, "unavailable")

-----------------------------------------------------------------------------
(* The server, external: one transaction per resolve call.                 *)

LossHandled(q, reply) ==
  /\ q \in lossWire
  /\ lossWire' = lossWire \ {q}
  /\ lossAnswer' = [lossAnswer EXCEPT ![q] = reply]
  /\ UNCHANGED <<vars, lossPc, claim, seen, lossOutcome>>

BookLoss(q) ==
  /\ LossHandled(q, "success")
  /\ claim[q].qty <= Open(claim[q].line)
  /\ resolved' = resolved \cup {q}
  /\ lossRaced' = [p \in Resolves |->
                     lossRaced[p] \/ (p # q /\ lossPc[p] \in {"checking", "sent"})]
  /\ \/ /\ claim[q].action = "found_to_destination"
        /\ found' = [found EXCEPT ![claim[q].line] = @ + claim[q].qty]
        /\ UNCHANGED away
     \/ /\ claim[q].action # "found_to_destination"
        /\ away' = [away EXCEPT ![claim[q].line] = @ + claim[q].qty]
        /\ UNCHANGED found

\* 409 for more than what is open, and 403, 422 or 5xx at any time
RefuseLoss(q) ==
  /\ \/ LossHandled(q, "conflict") /\ claim[q].qty > Open(claim[q].line)
     \/ LossHandled(q, "refused")
  /\ UNCHANGED <<found, away, resolved, lossRaced>>

\* The call never reaches the server.
LoseLossCall(q) ==
  /\ q \in lossWire
  /\ lossWire' = lossWire \ {q}
  /\ UNCHANGED <<vars, found, away, resolved, lossAnswer, lossPc, claim, seen, lossOutcome,
                 lossRaced>>

-----------------------------------------------------------------------------
LossHandler(q) ==
  \/ ReadLoss(q) \/ ReadLossFails(q) \/ CheckLoss(q) \/ ReceiveLoss(q) \/ LossTimesOut(q)

LossNext == \E q \in Resolves :
  \/ OpenLoss(q) \/ PressResolve(q) \/ LossHandler(q)
  \/ BookLoss(q) \/ RefuseLoss(q) \/ LoseLossCall(q)

Begun == {r \in Requests : pc[r] # "new"} \cup {q \in Resolves : lossPc[q] # "new"}

AssetNext ==
  /\ (Next /\ UNCHANGED lossVars) \/ LossNext
  /\ Cardinality(Begun') <= MaxForms

AssetSpec == AssetInit /\ [][AssetNext]_assetVars

\* The web workers run, and every HTTP call ends in an answer or a timeout.
FairAssetSpec ==
  /\ AssetSpec
  /\ \A r \in Requests : WF_assetVars(Handler(r) /\ UNCHANGED lossVars)
  /\ \A q \in Resolves : WF_assetVars(LossHandler(q))

-----------------------------------------------------------------------------
(* Properties *)

\* What the user is told about a resolution is so: "resolved" was booked; any refusal was
\* not and never will be.  "Already resolved by another user" (409) is only said when
\* another resolution was booked between the second reading and the call; an acceptance
\* at the same time, which adds to the loss, never causes it.
ResolveMessageTellsTruth ==
  \A q \in Resolves :
    /\ lossOutcome[q] = "success" => q \in resolved
    /\ lossOutcome[q] \in {"conflict", "refused", "gone", "invalid", "crash"}
         => q \notin resolved \cup lossWire
    /\ lossOutcome[q] = "conflict" => lossRaced[q]

\* Acceptances and resolutions together, seen through the registers, are the ledger of
\* all the goods of the operation: what is found counts as stock, no unit is accepted
\* twice, resolved twice, or resolved before it was lost, and what a submission of
\* either form moves is what its user entered.
Told == [q \in Resolves |-> IF lossPc[q] \in {"new", "page"} THEN NoClaim ELSE claim[q]]
Assets == INSTANCE AssetLedger WITH
  stock <- [l \in Lines |-> stock[l] + found[l]],
  open <- [l \in Lines |-> Open(l)],
  asked <- Asked,
  told <- Told,
  booked <- booked \cup resolved
AssetLedgerSpec == Assets!Spec

\* Every press of either button ends in a message.
EveryRequestAnswered ==
  /\ EveryPressAnswered
  /\ \A q \in Resolves : lossPc[q] = "reading" ~> lossPc[q] = "done"
=============================================================================
