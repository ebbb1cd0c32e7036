----------------------------- MODULE AssetProofs -----------------------------
(***************************************************************************)
(* Theorems about AssetRegisters: acceptances and resolutions of losses    *)
(* together, for any number of lines, requests and pages.                  *)
(***************************************************************************)
EXTENDS AssetRegisters, AcceptanceProofs

-----------------------------------------------------------------------------
(* The acceptance within the composition. *)

\* Resolutions do not touch what the acceptance works on.
LEMMA AcceptanceOwnSteps == [AssetNext]_assetVars => [Next]_vars
<1> SUFFICES ASSUME [AssetNext]_assetVars
             PROVE  [Next]_vars
  OBVIOUS
<1>1. ASSUME NEW q \in Resolves,
             OpenLoss(q) \/ PressResolve(q) \/ LossHandler(q)
               \/ BookLoss(q) \/ RefuseLoss(q) \/ LoseLossCall(q)
      PROVE  UNCHANGED vars
  BY <1>1 DEF OpenLoss, PressResolve, LossHandler, ReadLoss, ReadLossFails, CheckLoss, SendsLoss,
              ReceiveLoss, LossTimesOut, LossEnds, LossHandled, BookLoss, RefuseLoss, LoseLossCall
<1>2. CASE UNCHANGED assetVars
  BY <1>2 DEF assetVars
<1>3. QED
  BY <1>1, <1>2 DEF AssetNext, LossNext

\* Forms that are never begun are behaviours of the acceptance too: all that is proved of
\* it holds of the composition.
THEOREM AcceptanceUndisturbed == AssetSpec => Spec
<1>1. AssetInit => Init
  BY DEF AssetInit
<1>2. QED
  BY <1>1, AcceptanceOwnSteps, PTL DEF AssetSpec, Spec

\* An acceptance never takes anything out of the losses.
LEMMA LossesGrow ==
  ASSUME TypeOK, Next, NEW l \in Lines
  PROVE  lost'[l] \in Nat /\ lost'[l] >= lost[l]
<1>1. lost[l] \in Nat
  BY DEF TypeOK
<1>2. ASSUME NEW r \in Requests, Book(r)
      PROVE  lost'[l] \in Nat /\ lost'[l] >= lost[l]
  BY <1>2, BookMoves
<1>3. ASSUME NEW r \in Requests, Press(r) \/ Handler(r) \/ Refuse(r) \/ LoseCall(r)
      PROVE  UNCHANGED lost
  BY <1>3 DEF Handler, Press, FetchPage, FetchFails, Check, Sends, Receive, TimeOut, Refuse, LoseCall,
              server, registers
<1>4. QED
  BY <1>1, <1>2, <1>3 DEF Next

-----------------------------------------------------------------------------
(* The invariant of the resolutions. *)

\* How the stages of a resolution, its call and its message go together.
LossStageInv ==
  \A q \in Resolves :
    /\ lossPc[q] \in {"new", "page", "reading", "checking"}
         => q \notin lossWire /\ lossAnswer[q] = "none"
    /\ lossPc[q] # "done" => lossOutcome[q] = "none"
    /\ q \in lossWire => lossAnswer[q] = "none" /\ lossOutcome[q] \in {"none", "unavailable"}
    /\ q \in resolved <=> lossAnswer[q] = "success"
    /\ lossOutcome[q] \in {"success", "conflict", "refused"} => lossAnswer[q] = lossOutcome[q]
    /\ lossOutcome[q] \in {"gone", "invalid", "crash"}
         => lossAnswer[q] = "none" /\ q \notin lossWire

\* A call asks for no more than was seen; what was seen is still open, unless another
\* resolution was booked since; and a conflict is only met when one was.
SeenInv ==
  \A q \in Resolves :
    /\ q \in lossWire => claim[q].qty \in 1 .. seen[q] /\ lossPc[q] \in {"sent", "done"}
    /\ lossPc[q] \in {"checking", "sent"} /\ ~lossRaced[q] /\ q \notin resolved
         => seen[q] <= Open(claim[q].line)
    /\ lossPc[q] = "sent" /\ lossAnswer[q] = "conflict" => lossRaced[q]
    /\ lossOutcome[q] = "conflict" => lossRaced[q]

AssetInv == AssetTypeOK /\ LossStageInv /\ SeenInv

LEMMA OpenType ==
  ASSUME AssetTypeOK, NEW l \in Lines
  PROVE  /\ Open(l) \in Nat
         /\ found[l] \in Nat /\ away[l] \in Nat /\ lost[l] \in Nat
         /\ Open(l) = lost[l] - found[l] - away[l]
<1>1. lost[l] \in Nat /\ found[l] \in Nat /\ away[l] \in Nat /\ Open(l) >= 0
  BY DEF AssetTypeOK, TypeOK
<1>2. QED
  BY <1>1 DEF Open

LEMMA AssetInitial == AssetInit => AssetInv
<1> SUFFICES ASSUME AssetInit
             PROVE  AssetInv
  OBVIOUS
<1>1. TypeOK
  BY TypeInit DEF AssetInit
<1>2. NoClaim \in Claims
  BY DEF NoClaim, Claims, Actions
<1>3. \A l \in Lines : Open(l) >= 0
  BY DEF AssetInit, Init, Open
<1>4. AssetTypeOK
  BY <1>1, <1>2, <1>3 DEF AssetInit, AssetTypeOK
<1>5. LossStageInv /\ SeenInv
  BY DEF AssetInit, LossStageInv, SeenInv
<1>6. QED
  BY <1>4, <1>5 DEF AssetInv

-----------------------------------------------------------------------------
(* The steps.  A step of an acceptance adds to the losses; of the steps of *)
(* a resolution only BookLoss changes the registers.                       *)

LEMMA AcceptanceStep ==
  ASSUME AssetInv, Next, UNCHANGED lossVars
  PROVE  AssetInv'
<1>1. TypeOK'
  BY TypeStep DEF AssetInv, AssetTypeOK
<1>2. ASSUME NEW l \in Lines
      PROVE  Open(l)' >= Open(l) /\ Open(l)' >= 0
  <2>1. lost'[l] \in Nat /\ lost'[l] >= lost[l]
    BY LossesGrow DEF AssetInv, AssetTypeOK
  <2>2. found'[l] = found[l] /\ away'[l] = away[l]
    BY DEF lossVars, lossServer
  <2>3. Open(l)' = lost'[l] - found[l] - away[l]
    BY <2>2 DEF Open
  <2>4. /\ Open(l) \in Nat /\ found[l] \in Nat /\ away[l] \in Nat /\ lost[l] \in Nat
        /\ Open(l) = lost[l] - found[l] - away[l]
    BY OpenType DEF AssetInv
  <2>5. QED
    BY <2>1, <2>3, <2>4
<1>3. AssetTypeOK'
  BY <1>1, <1>2 DEF AssetInv, AssetTypeOK, lossVars, lossServer
<1>4. LossStageInv'
  BY DEF AssetInv, LossStageInv, lossVars, lossServer
<1>5. SeenInv'
  <2> SUFFICES ASSUME NEW q \in Resolves,
                      lossPc[q] \in {"checking", "sent"}, ~lossRaced[q], q \notin resolved
               PROVE  seen[q] <= Open(claim[q].line)'
    BY DEF AssetInv, SeenInv, lossVars, lossServer
  <2>1. claim[q].line \in Lines /\ seen[q] \in Nat
    BY DEF AssetInv, AssetTypeOK
  <2>2. seen[q] <= Open(claim[q].line)
    BY DEF AssetInv, SeenInv
  <2>3. claim'[q] = claim[q]
    BY DEF lossVars
  <2>4. /\ Open(claim[q].line)' = lost'[claim[q].line] - found[claim[q].line] - away[claim[q].line]
        /\ lost'[claim[q].line] \in Nat /\ lost'[claim[q].line] >= lost[claim[q].line]
    BY <2>1, <2>3, LossesGrow DEF AssetInv, AssetTypeOK, Open, lossVars, lossServer
  <2>5. QED
    BY <2>1, <2>2, <2>4, OpenType DEF AssetInv
<1>6. QED
  BY <1>3, <1>4, <1>5 DEF AssetInv

\* A step of the resolution's own side: what it writes, by action.
LEMMA LossTypeStep ==
  ASSUME AssetInv, LossNext
  PROVE  AssetTypeOK'
<1> PICK q \in Resolves : \/ OpenLoss(q) \/ PressResolve(q) \/ LossHandler(q)
                          \/ BookLoss(q) \/ RefuseLoss(q) \/ LoseLossCall(q)
  BY DEF LossNext
<1> USE DEF AssetInv
<1>1. ASSUME UNCHANGED vars
      PROVE  TypeOK'
  <2>1. TypeOK /\ [Next]_vars
    BY <1>1 DEF AssetTypeOK
  <2>2. QED
    BY <2>1, TypeStep
<1>2. CASE OpenLoss(q)
  <2>1. PICK l \in Lines :
          /\ Open(l) > 0
          /\ claim' = [claim EXCEPT ![q] = [line |-> l, action |-> "write_off", qty |-> Open(l)]]
    BY <1>2 DEF OpenLoss
  <2>2. [line |-> l, action |-> "write_off", qty |-> Open(l)] \in Claims
    BY OpenType, AcceptanceAssumption DEF Claims, Actions
  <2>3. /\ claim' \in [Resolves -> Claims]
        /\ \A p \in Resolves : lossPc'[p] # "new" => claim'[p].line \in Lines
    BY <1>2, <2>1, <2>2 DEF OpenLoss, AssetTypeOK
  <2>4. lossPc' \in [Resolves -> {"new", "page", "reading", "checking", "sent", "done"}]
    BY <1>2 DEF OpenLoss, AssetTypeOK
  <2>5. UNCHANGED <<vars, lossServer, seen, lossOutcome, lossRaced>>
    BY <1>2 DEF OpenLoss
  <2>6. QED
    BY <1>1, <2>3, <2>4, <2>5 DEF AssetTypeOK, Open, lossServer, vars, registers
<1>3. CASE PressResolve(q)
  <2>1. PICK a \in Offered, n \in 0 .. claim[q].qty :
          claim' = [claim EXCEPT ![q] = [line |-> claim[q].line, action |-> a, qty |-> n]]
    BY <1>3 DEF PressResolve
  <2>2. claim[q] \in Claims /\ claim[q].line \in Lines
    BY <1>3 DEF PressResolve, AssetTypeOK
  <2>3. [line |-> claim[q].line, action |-> a, qty |-> n] \in Claims
    BY <2>2 DEF Claims, Offered
  <2>4. /\ claim' \in [Resolves -> Claims]
        /\ \A p \in Resolves : lossPc'[p] # "new" => claim'[p].line \in Lines
    BY <1>3, <2>1, <2>2, <2>3 DEF PressResolve, AssetTypeOK
  <2>5. lossPc' \in [Resolves -> {"new", "page", "reading", "checking", "sent", "done"}]
    BY <1>3 DEF PressResolve, AssetTypeOK
  <2>6. UNCHANGED <<vars, lossServer, seen, lossOutcome, lossRaced>>
    BY <1>3 DEF PressResolve
  <2>7. QED
    BY <1>1, <2>4, <2>5, <2>6 DEF AssetTypeOK, Open, lossServer, vars, registers
<1>4. CASE LossHandler(q)
  <2>1. UNCHANGED <<vars, claim, found, away, resolved, lossAnswer, lossRaced>>
    BY <1>4 DEF LossHandler, ReadLoss, ReadLossFails, CheckLoss, SendsLoss, ReceiveLoss,
                LossTimesOut, LossEnds, lossServer
  <2>2. /\ lossPc' \in [Resolves -> {"new", "page", "reading", "checking", "sent", "done"}]
        /\ \A p \in Resolves : lossPc'[p] # "new" => lossPc[p] # "new"
    BY <1>4 DEF LossHandler, ReadLoss, ReadLossFails, CheckLoss, SendsLoss, ReceiveLoss,
                LossTimesOut, LossEnds, AssetTypeOK
  <2>3. lossWire' \subseteq Resolves
    BY <1>4 DEF LossHandler, ReadLoss, ReadLossFails, CheckLoss, SendsLoss, ReceiveLoss,
                LossTimesOut, LossEnds, AssetTypeOK, lossServer
  <2>4. seen' \in [Resolves -> Nat]
    <3>1. lossPc[q] = "reading" => Open(claim[q].line) \in Nat
      BY OpenType DEF AssetTypeOK
    <3>2. QED
      BY <1>4, <3>1 DEF LossHandler, ReadLoss, ReadLossFails, CheckLoss, SendsLoss, ReceiveLoss,
                        LossTimesOut, LossEnds, AssetTypeOK
  <2>5. lossOutcome' \in [Resolves -> {"none", "success", "conflict", "refused", "gone",
                                       "invalid", "unavailable", "crash"}]
    BY <1>4 DEF LossHandler, ReadLoss, ReadLossFails, CheckLoss, SendsLoss, ReceiveLoss,
                LossTimesOut, LossEnds, AssetTypeOK
  <2>6. QED
    BY <1>1, <2>1, <2>2, <2>3, <2>4, <2>5 DEF AssetTypeOK, Open, vars, registers
<1>5. CASE BookLoss(q)
  <2>1. q \in lossWire /\ claim[q].line \in Lines /\ claim[q].qty \in Nat
    BY <1>5 DEF BookLoss, LossHandled, AssetTypeOK, Claims, SeenInv
  <2>2. /\ claim[q].qty <= Open(claim[q].line)
        /\ UNCHANGED <<vars, lossPc, claim, seen, lossOutcome>>
    BY <1>5 DEF BookLoss, LossHandled
  <2>3. /\ found' \in [Lines -> Nat] /\ away' \in [Lines -> Nat]
        /\ \A l \in Lines : found'[l] + away'[l] =
             found[l] + away[l] + (IF l = claim[q].line THEN claim[q].qty ELSE 0)
    BY <1>5, <2>1 DEF BookLoss, AssetTypeOK
  <2>4. \A l \in Lines : Open(l)' >= 0
    <3> SUFFICES ASSUME NEW l \in Lines
                 PROVE  Open(l)' >= 0
      OBVIOUS
    <3>1. Open(l)' = lost[l] - found'[l] - away'[l]
      BY <2>2 DEF Open, vars, registers
    <3>2. found'[l] \in Nat /\ away'[l] \in Nat
      BY <2>3
    <3>3. QED
      BY <2>1, <2>2, <2>3, <3>1, <3>2, OpenType
  <2>5. /\ resolved' \subseteq Resolves /\ lossWire' \subseteq Resolves
        /\ lossAnswer' \in [Resolves -> {"none", "success", "conflict", "refused"}]
    BY <1>5 DEF BookLoss, LossHandled, AssetTypeOK
  <2>6. lossRaced' \in [Resolves -> BOOLEAN]
    BY <1>5 DEF BookLoss, AssetTypeOK
  <2>7. QED
    BY <1>1, <2>2, <2>3, <2>4, <2>5, <2>6 DEF AssetTypeOK
<1>6. CASE RefuseLoss(q) \/ LoseLossCall(q)
  <2>1. UNCHANGED <<vars, found, away, resolved, lossPc, claim, seen, lossOutcome, lossRaced>>
    BY <1>6 DEF RefuseLoss, LoseLossCall, LossHandled
  <2>2. /\ lossWire' \subseteq Resolves
        /\ lossAnswer' \in [Resolves -> {"none", "success", "conflict", "refused"}]
    BY <1>6 DEF RefuseLoss, LoseLossCall, LossHandled, AssetTypeOK
  <2>3. QED
    BY <1>1, <2>1, <2>2 DEF AssetTypeOK, Open, vars, registers
<1>7. QED
  BY <1>2, <1>3, <1>4, <1>5, <1>6

LEMMA LossStageStep ==
  ASSUME AssetInv, LossNext
  PROVE  LossStageInv'
<1> PICK q \in Resolves : \/ OpenLoss(q) \/ PressResolve(q) \/ LossHandler(q)
                          \/ BookLoss(q) \/ RefuseLoss(q) \/ LoseLossCall(q)
  BY DEF LossNext
<1> USE DEF AssetInv, AssetTypeOK
<1>1. CASE OpenLoss(q) \/ PressResolve(q)
  BY <1>1 DEF OpenLoss, PressResolve, LossStageInv, lossServer
<1>2. CASE LossHandler(q)
  <2>1. CASE ReadLoss(q)
    BY <2>1 DEF ReadLoss, LossEnds, LossStageInv, lossServer
  <2>2. CASE ReadLossFails(q)
    BY <2>2 DEF ReadLossFails, LossEnds, LossStageInv, lossServer
  <2>3. CASE CheckLoss(q)
    BY <2>3 DEF CheckLoss, SendsLoss, LossEnds, LossStageInv, lossServer
  <2>4. CASE ReceiveLoss(q)
    BY <2>4 DEF ReceiveLoss, LossEnds, LossStageInv, lossServer
  <2>5. CASE LossTimesOut(q)
    BY <2>5 DEF LossTimesOut, LossEnds, LossStageInv, lossServer
  <2>6. QED
    BY <1>2, <2>1, <2>2, <2>3, <2>4, <2>5 DEF LossHandler
<1>3. CASE BookLoss(q)
  BY <1>3 DEF BookLoss, LossHandled, LossStageInv, SeenInv
<1>4. CASE RefuseLoss(q)
  BY <1>4 DEF RefuseLoss, LossHandled, LossStageInv, SeenInv
<1>5. CASE LoseLossCall(q)
  BY <1>5 DEF LoseLossCall, LossStageInv
<1>6. QED
  BY <1>1, <1>2, <1>3, <1>4, <1>5

LEMMA SeenStep ==
  ASSUME AssetInv, LossNext
  PROVE  SeenInv'
<1> PICK q \in Resolves : \/ OpenLoss(q) \/ PressResolve(q) \/ LossHandler(q)
                          \/ BookLoss(q) \/ RefuseLoss(q) \/ LoseLossCall(q)
  BY DEF LossNext
<1> USE DEF AssetInv, AssetTypeOK
<1>1. ASSUME UNCHANGED <<vars, found, away>>
      PROVE  \A l \in Lines : Open(l)' = Open(l)
  BY <1>1 DEF Open, vars, registers
<1>2. CASE OpenLoss(q) \/ PressResolve(q)
  <2>1. /\ UNCHANGED <<vars, found, away, resolved, lossWire, lossAnswer, seen, lossOutcome, lossRaced>>
        /\ lossPc[q] \in {"new", "page"} /\ lossPc'[q] \in {"page", "reading"}
        /\ \A p \in Resolves \ {q} : lossPc'[p] = lossPc[p] /\ claim'[p] = claim[p]
    BY <1>2 DEF OpenLoss, PressResolve, lossServer
  <2>2. ASSUME NEW p \in Resolves, p # q, lossPc[p] \in {"checking", "sent"}
        PROVE  Open(claim[p].line)' = Open(claim[p].line)
    BY <2>1, <2>2 DEF Open, vars, registers
  <2>3. q \notin lossWire /\ lossOutcome[q] = "none"
    BY <2>1 DEF LossStageInv
  <2>4. QED
    BY <2>1, <2>2, <2>3 DEF SeenInv
<1>3. CASE LossHandler(q)
  <2>1. UNCHANGED <<vars, found, away, resolved, lossAnswer, claim, lossRaced>>
    BY <1>3 DEF LossHandler, ReadLoss, ReadLossFails, CheckLoss, SendsLoss, ReceiveLoss,
                LossTimesOut, LossEnds, lossServer
  <2>2. \A p \in Resolves : Open(claim[p].line)' = Open(claim[p].line)
    BY <2>1 DEF Open, vars, registers
  <2>3. CASE ReadLoss(q)
    <3>1. q \notin lossWire /\ lossAnswer[q] = "none" /\ Open(claim[q].line) \in Nat
      BY <2>3, OpenType DEF ReadLoss, LossStageInv
    <3>2. QED
      BY <2>1, <2>2, <2>3, <3>1 DEF ReadLoss, LossEnds, lossServer, SeenInv
  <2>4. CASE ReadLossFails(q)
    <3>1. q \notin lossWire
      BY <2>4 DEF ReadLossFails, LossStageInv
    <3>2. QED
      BY <2>1, <2>2, <2>4, <3>1 DEF ReadLossFails, LossEnds, lossServer, SeenInv
  <2>5. CASE CheckLoss(q)
    <3>1. q \notin lossWire /\ lossAnswer[q] = "none"
      BY <2>5 DEF CheckLoss, SendsLoss, LossStageInv
    <3>2. LossValid(q) => claim[q].qty \in 1 .. seen[q]
      BY DEF LossValid, Claims
    <3>3. QED
      BY <2>1, <2>2, <2>5, <3>1, <3>2 DEF CheckLoss, SendsLoss, LossEnds, lossServer, SeenInv
  <2>6. CASE ReceiveLoss(q)
    BY <2>1, <2>2, <2>6 DEF ReceiveLoss, LossEnds, lossServer, SeenInv
  <2>7. CASE LossTimesOut(q)
    BY <2>1, <2>2, <2>7 DEF LossTimesOut, LossEnds, lossServer, SeenInv
  <2>8. QED
    BY <1>3, <2>3, <2>4, <2>5, <2>6, <2>7 DEF LossHandler
<1>4. CASE BookLoss(q)
  <2>1. /\ UNCHANGED <<vars, lossPc, claim, seen, lossOutcome>>
        /\ lossWire' = lossWire \ {q} /\ resolved' = resolved \cup {q}
        /\ lossAnswer' = [lossAnswer EXCEPT ![q] = "success"]
        /\ \A p \in Resolves : lossRaced'[p] <=>
             lossRaced[p] \/ (p # q /\ lossPc[p] \in {"checking", "sent"})
    BY <1>4 DEF BookLoss, LossHandled
  <2>2. QED
    BY <2>1 DEF SeenInv
<1>5. CASE RefuseLoss(q)
  <2>1. /\ UNCHANGED <<vars, found, away, resolved, lossPc, claim, seen, lossOutcome, lossRaced>>
        /\ q \in lossWire /\ lossWire' = lossWire \ {q}
        /\ \E reply \in {"conflict", "refused"} :
             /\ lossAnswer' = [lossAnswer EXCEPT ![q] = reply]
             /\ reply = "conflict" => claim[q].qty > Open(claim[q].line)
    BY <1>5 DEF RefuseLoss, LossHandled
  <2>2. \A p \in Resolves : Open(claim[p].line)' = Open(claim[p].line)
    BY <2>1 DEF Open, vars, registers
  <2>3. ASSUME lossPc[q] = "sent", claim[q].qty > Open(claim[q].line)
        PROVE  lossRaced[q]
    <3>1. claim[q].qty \in 1 .. seen[q] /\ q \notin resolved /\ claim[q].line \in Lines
      BY <2>1, <2>3 DEF SeenInv, LossStageInv
    <3>2. Open(claim[q].line) \in Nat /\ seen[q] \in Nat /\ claim[q].qty \in Nat
      BY <3>1, OpenType
    <3>3. ~lossRaced[q] => seen[q] <= Open(claim[q].line)
      BY <2>3, <3>1 DEF SeenInv
    <3>4. QED
      BY <2>3, <3>1, <3>2, <3>3
  <2>4. QED
    BY <2>1, <2>2, <2>3 DEF SeenInv
<1>6. CASE LoseLossCall(q)
  <2>1. /\ UNCHANGED <<vars, found, away, resolved, lossAnswer, lossPc, claim, seen, lossOutcome,
                       lossRaced>>
        /\ lossWire' = lossWire \ {q}
    BY <1>6 DEF LoseLossCall
  <2>2. \A p \in Resolves : Open(claim[p].line)' = Open(claim[p].line)
    BY <2>1 DEF Open, vars, registers
  <2>3. QED
    BY <2>1, <2>2 DEF SeenInv
<1>7. QED
  BY <1>2, <1>3, <1>4, <1>5, <1>6

-----------------------------------------------------------------------------
(* The theorems. *)

\* The inductive invariant: the stage, the call, the answer and the message of every
\* resolution agree, and what an unraced one has seen is still open.
THEOREM AssetInvariant == AssetSpec => []AssetInv
<1>1. AssetInv /\ [AssetNext]_assetVars => AssetInv'
  <2> SUFFICES ASSUME AssetInv, [AssetNext]_assetVars
               PROVE  AssetInv'
    OBVIOUS
  <2>1. CASE Next /\ UNCHANGED lossVars
    BY <2>1, AcceptanceStep
  <2>2. CASE LossNext
    BY <2>2, LossTypeStep, LossStageStep, SeenStep DEF AssetInv
  <2>3. CASE UNCHANGED assetVars
    <3>1. TypeOK'
      BY <2>3, TypeStep DEF AssetInv, AssetTypeOK, assetVars
    <3>2. \A l \in Lines : Open(l)' = Open(l)
      BY <2>3 DEF Open, assetVars, vars, registers, lossVars, lossServer
    <3>3. AssetTypeOK'
      BY <2>3, <3>1, <3>2 DEF AssetInv, AssetTypeOK, assetVars, lossVars, lossServer
    <3>4. LossStageInv'
      BY <2>3 DEF AssetInv, LossStageInv, assetVars, lossVars, lossServer
    <3>5. \A q \in Resolves : Open(claim[q].line)' = Open(claim[q].line)
      BY <2>3 DEF Open, assetVars, vars, registers, lossVars, lossServer
    <3>6. SeenInv'
      BY <2>3, <3>5 DEF AssetInv, SeenInv, assetVars, lossVars, lossServer
    <3>7. QED
      BY <3>3, <3>4, <3>6 DEF AssetInv
  <2>4. QED
    BY <2>1, <2>2, <2>3 DEF AssetNext
<1>2. QED
  BY <1>1, AssetInitial, PTL DEF AssetSpec

\* No register of the composition is ever below zero: what was found and what is away
\* never exceed what was lost.
THEOREM AssetTypeCorrect == AssetSpec => []AssetTypeOK
<1>1. AssetInv => AssetTypeOK
  BY DEF AssetInv
<1>2. QED
  BY <1>1, AssetInvariant, PTL

\* What a user is told about a resolution is true, and stays true; "already resolved by
\* another user" is said only when another resolution came in between.
THEOREM ResolveMessagesAreTrue == AssetSpec => []ResolveMessageTellsTruth
<1>1. AssetInv => ResolveMessageTellsTruth
  BY DEF AssetInv, AssetTypeOK, LossStageInv, SeenInv, ResolveMessageTellsTruth
<1>2. QED
  BY <1>1, AssetInvariant, PTL

\* What a resolution says is what its user chose: written by the press of the button, and
\* the same ever after.
LEMMA PressTells ==
  ASSUME AssetInv, NEW q \in Resolves, PressResolve(q)
  PROVE  /\ Told[q] = [line |-> 0, action |-> "write_off", qty |-> 0]
         /\ Told'[q] \in [line : Lines, action : Actions, qty : Nat]
         /\ Told' = [Told EXCEPT ![q] = Told'[q]]
<1>1. PICK a \in Offered, n \in 0 .. claim[q].qty :
        claim' = [claim EXCEPT ![q] = [line |-> claim[q].line, action |-> a, qty |-> n]]
  BY DEF PressResolve
<1>2. claim[q] \in Claims /\ claim[q].line \in Lines /\ a \in Actions
  BY DEF PressResolve, AssetInv, AssetTypeOK, Offered
<1>3. n \in Nat
  BY <1>2 DEF Claims
<1>4. Told[q] = [line |-> 0, action |-> "write_off", qty |-> 0]
  BY DEF PressResolve, Told, NoClaim
<1>5. Told'[q] \in [line : Lines, action : Actions, qty : Nat]
  <2>1. claim'[q] = [line |-> claim[q].line, action |-> a, qty |-> n] /\ lossPc'[q] = "reading"
    BY <1>1 DEF PressResolve, AssetInv, AssetTypeOK
  <2>2. Told'[q] = claim'[q]
    BY <2>1 DEF Told
  <2>3. QED
    BY <1>2, <1>3, <2>1, <2>2
<1>6. \A p \in Resolves : p # q => Told'[p] = Told[p]
  BY <1>1 DEF PressResolve, Told, AssetInv, AssetTypeOK
<1>7. QED
  BY <1>4, <1>5, <1>6 DEF Told

\* A booked acceptance, seen from the ledger of all the goods.
LEMMA AcceptanceMoves ==
  ASSUME AssetInv, IInv, NEW r \in Requests, Book(r), UNCHANGED lossVars
  PROVE  Assets!Accept(r)
<1>1. r \notin booked \cup resolved /\ (booked \cup resolved)' = (booked \cup resolved) \cup {r}
  <2>1. r \notin booked /\ booked' = booked \cup {r} /\ resolved' = resolved
    BY DEF Book, Move, Handled, IInv, StageInv, lossVars, lossServer
  <2>2. r \notin resolved
    BY AssetAssumption DEF AssetInv, AssetTypeOK
  <2>3. QED
    BY <2>1, <2>2
<1>2. UNCHANGED <<found, away, lossPc, claim>>
  BY DEF lossVars, lossServer
<1>3. /\ Asked[r] # [l \in Lines |-> [acc |-> 0, lst |-> 0]]
      /\ \A l \in Lines : /\ Asked[r][l].acc \in Int /\ Asked[r][l].acc >= 0
                          /\ Asked[r][l].lst \in Int /\ Asked[r][l].lst >= 0
                          /\ Asked[r][l].acc + Asked[r][l].lst <= pending[l]
      /\ pending' = [l \in Lines |-> pending[l] - Asked[r][l].acc - Asked[r][l].lst]
      /\ stock' = [l \in Lines |-> stock[l] + Asked[r][l].acc]
      /\ lost' = [l \in Lines |-> lost[l] + Asked[r][l].lst]
      /\ UNCHANGED Asked
  BY BookTakesAll DEF IInv
<1>4. ASSUME NEW k \in Lines
      PROVE  /\ stock'[k] + found'[k] = (stock[k] + found[k]) + Asked[r][k].acc
             /\ Open(k)' = Open(k) + Asked[r][k].lst
  <2>1. /\ stock[k] \in Nat
        /\ found[k] \in Nat /\ away[k] \in Nat /\ lost[k] \in Nat
        /\ Open(k) = lost[k] - found[k] - away[k]
    BY OpenType DEF AssetInv, IInv, TypeOK
  <2>2. Open(k)' = lost'[k] - found[k] - away[k] /\ found'[k] = found[k]
    BY <1>2 DEF Open
  <2>3. /\ stock'[k] = stock[k] + Asked[r][k].acc /\ lost'[k] = lost[k] + Asked[r][k].lst
        /\ Asked[r][k].acc \in Int /\ Asked[r][k].lst \in Int
    BY <1>3
  <2>4. QED
    BY <2>1, <2>2, <2>3
<1>5. [k \in Lines |-> stock[k] + found[k]]'
        = [k \in Lines |-> [l \in Lines |-> stock[l] + found[l]][k] + Asked[r][k].acc]
  BY <1>4
<1>6. [k \in Lines |-> Open(k)]' = [k \in Lines |-> [l \in Lines |-> Open(l)][k] + Asked[r][k].lst]
  BY <1>4
<1>7. UNCHANGED Told
  BY <1>2 DEF Told
<1>8. QED
  BY <1>1, <1>2, <1>3, <1>5, <1>6, <1>7 DEF Assets!Accept, Assets!Nothing, Assets!NoShare

\* A booked resolution, seen from the same ledger.
LEMMA ResolutionMoves ==
  ASSUME AssetInv, NEW q \in Resolves, BookLoss(q)
  PROVE  Assets!Resolve(q)
<1> DEFINE l == claim[q].line
           n == claim[q].qty
<1>1. q \in lossWire /\ UNCHANGED vars
  BY DEF BookLoss, LossHandled
<1>2. l \in Lines /\ n \in Nat /\ n > 0
  BY <1>1 DEF AssetInv, AssetTypeOK, SeenInv, Claims
<1>3. n \in 1 .. Open(l)
  BY <1>2, OpenType DEF BookLoss, AssetInv
<1>4. q \notin booked \cup resolved /\ (booked \cup resolved)' = (booked \cup resolved) \cup {q}
  <2>1. q \notin resolved
    BY <1>1 DEF AssetInv, LossStageInv
  <2>2. q \notin booked
    BY AssetAssumption DEF AssetInv, AssetTypeOK, TypeOK
  <2>3. resolved' = resolved \cup {q} /\ booked' = booked
    BY <1>1 DEF BookLoss, vars
  <2>4. QED
    BY <2>1, <2>2, <2>3
<1>5. UNCHANGED <<pending, stock, lost>>
  BY <1>1 DEF vars, registers
<1> DEFINE side == claim[q].action = "found_to_destination"
<1>6. \/ side /\ found' = [found EXCEPT ![l] = @ + n] /\ away' = away
      \/ ~side /\ away' = [away EXCEPT ![l] = @ + n] /\ found' = found
  BY DEF BookLoss
<1> HIDE DEF side
<1>7. /\ found \in [Lines -> Nat] /\ away \in [Lines -> Nat]
      /\ stock \in [Lines -> Nat] /\ lost \in [Lines -> Nat]
  BY DEF AssetInv, AssetTypeOK, TypeOK
<1>8. [k \in Lines |-> Open(k)]' = [[k \in Lines |-> Open(k)] EXCEPT ![l] = @ - n]
  <2>1. ASSUME NEW k \in Lines
        PROVE  Open(k)' = IF k = l THEN Open(k) - n ELSE Open(k)
    BY <1>2, <1>5, <1>6, <1>7 DEF Open
  <2>2. QED
    BY <1>2, <2>1
<1>9. IF side
      THEN /\ [k \in Lines |-> stock[k] + found[k]]'
                 = [[k \in Lines |-> stock[k] + found[k]] EXCEPT ![l] = @ + n]
           /\ UNCHANGED away
      ELSE /\ UNCHANGED [k \in Lines |-> stock[k] + found[k]]
           /\ away' = [away EXCEPT ![l] = @ + n]
  <2>1. CASE side /\ found' = [found EXCEPT ![l] = @ + n] /\ away' = away
    <3>1. ASSUME NEW k \in Lines
          PROVE  stock'[k] + found'[k] = IF k = l THEN stock[k] + found[k] + n
                                                  ELSE stock[k] + found[k]
      BY <1>2, <1>5, <1>7, <2>1
    <3>2. QED
      BY <1>2, <2>1, <3>1
  <2>2. CASE ~side /\ away' = [away EXCEPT ![l] = @ + n] /\ found' = found
    BY <1>5, <2>2
  <2>3. QED
    BY <1>6, <2>1, <2>2
<1>10. [k \in Lines |-> Open(k)][l] = Open(l)
  BY <1>2
<1>11. Told[q] = claim[q] /\ UNCHANGED <<Told, Asked>>
  <2>1. lossPc[q] \in {"sent", "done"}
    BY <1>1 DEF AssetInv, SeenInv
  <2>2. UNCHANGED <<lossPc, claim, form>>
    BY <1>1 DEF BookLoss, LossHandled, vars
  <2>3. QED
    BY <2>1, <2>2, AskedStays DEF Told
<1>12. Told[q] # [line |-> 0, action |-> "write_off", qty |-> 0]
  BY <1>2, <1>11
<1>13. QED
  BY <1>2, <1>3, <1>4, <1>5, <1>8, <1>9, <1>10, <1>11, <1>12
     DEF side, Assets!Resolve, Assets!Untold

\* Acceptances and resolutions together move the goods as the abstract ledger allows: no
\* request takes effect twice, or otherwise than its user wrote it, and no unit is
\* accepted or resolved twice, or resolved before it was lost.
THEOREM ImplementsAssetLedger == AssetSpec => AssetLedgerSpec
<1>1. AssetInit => Assets!Init /\ BlankInv
  <2> SUFFICES ASSUME AssetInit
               PROVE  Assets!Init /\ BlankInv
    OBVIOUS
  <2>1. \A l \in Lines : stock[l] + found[l] = 0 /\ Open(l) = 0
    BY DEF AssetInit, Init, Open
  <2>2. pending = Qty /\ away = [l \in Lines |-> 0] /\ booked \cup resolved = {}
    BY DEF AssetInit, Init
  <2>3. Asked = [r \in Requests |-> [l \in Lines |-> [acc |-> 0, lst |-> 0]]]
    <3>1. ASSUME NEW r \in Requests, NEW l \in Lines
          PROVE  Acc(r, l) = 0 /\ Lst(r, l) = 0
      <4>1. form[r][l] = [acc |-> 0, lst |-> 0]
        BY DEF AssetInit, Init, NoEntry
      <4>2. QED
        BY <4>1 DEF Acc, Lst, ToQty
    <3>2. QED
      BY <3>1 DEF Asked
  <2>4. Told = [q \in Resolves |-> [line |-> 0, action |-> "write_off", qty |-> 0]]
    BY DEF AssetInit, Told, NoClaim
  <2>5. BlankInv
    BY DEF AssetInit, Init, BlankInv
  <2>6. QED
    BY <2>1, <2>2, <2>3, <2>4, <2>5
       DEF Assets!Init, Assets!Zero, Assets!Nothing, Assets!NoShare, Assets!Untold
<1>2. AssetInv /\ IInv /\ BlankInv /\ [AssetNext]_assetVars => [Assets!Next]_Assets!assets
  <2> SUFFICES ASSUME AssetInv, IInv, BlankInv, [AssetNext]_assetVars
               PROVE  [Assets!Next]_Assets!assets
    OBVIOUS
  <2>1. ASSUME UNCHANGED <<registers, booked, found, away, resolved, form>>, UNCHANGED Told
        PROVE  UNCHANGED Assets!assets
    <3>1. \A l \in Lines : Open(l)' = Open(l)
      BY <2>1 DEF Open, registers
    <3>2. QED
      BY <2>1, <3>1, AskedStays DEF Assets!assets, registers
  <2>2. ASSUME NEW r \in Requests, UNCHANGED lossVars,
               Press(r) \/ Handler(r) \/ Book(r) \/ Refuse(r) \/ LoseCall(r)
        PROVE  [Assets!Next]_Assets!assets
    <3>1. CASE Book(r)
      BY <2>2, <3>1, AcceptanceMoves DEF Assets!Next
    <3>2. UNCHANGED Told
      BY <2>2 DEF Told, lossVars
    <3>3. CASE Press(r)
      <4>1. UNCHANGED <<pending, stock, lost, booked, found, away, resolved>>
        BY <2>2, <3>3 DEF Press, server, registers, lossVars, lossServer
      <4>2. \A l \in Lines : Open(l)' = Open(l)
        BY <4>1 DEF Open
      <4>3. TypeOK /\ TypeOK'
        BY <2>2, TypeStep DEF IInv, Next
      <4>4. /\ Asked[r] = [l \in Lines |-> [acc |-> 0, lst |-> 0]]
            /\ Asked'[r] \in [Lines -> [acc : Int, lst : Int]]
            /\ Asked' = [Asked EXCEPT ![r] = Asked'[r]]
        BY <3>3, <4>3, PressWrites
      <4>5. Assets!Write(r)
        BY <3>2, <4>1, <4>2, <4>4
           DEF Assets!Write, Assets!Nothing, Assets!NoShare, Assets!Share
      <4>6. QED
        BY <4>5 DEF Assets!Next
    <3>4. CASE Handler(r) \/ Refuse(r) \/ LoseCall(r)
      <4>1. UNCHANGED <<registers, booked, found, away, resolved, form>>
        BY <2>2, <3>4 DEF Handler, FetchPage, FetchFails, Check, Sends, Receive, TimeOut, Refuse,
                          LoseCall, Handled, server, registers, lossVars, lossServer
      <4>2. QED
        BY <2>1, <3>2, <4>1
    <3>5. QED
      BY <2>2, <3>1, <3>3, <3>4
  <2>3. ASSUME NEW q \in Resolves,
               OpenLoss(q) \/ PressResolve(q) \/ LossHandler(q)
                 \/ BookLoss(q) \/ RefuseLoss(q) \/ LoseLossCall(q)
        PROVE  [Assets!Next]_Assets!assets
    <3>1. CASE BookLoss(q)
      BY <3>1, ResolutionMoves DEF Assets!Next
    <3>2. CASE PressResolve(q)
      <4>1. UNCHANGED <<registers, booked, found, away, resolved, form>>
        BY <3>2 DEF PressResolve, vars, lossServer
      <4>2. \A l \in Lines : Open(l)' = Open(l)
        BY <4>1 DEF Open, registers
      <4>3. Assets!Tell(q)
        BY <3>2, <4>1, <4>2, PressTells, AskedStays
           DEF Assets!Tell, Assets!Untold, Assets!Fates, Assets!Actions, Actions, registers
      <4>4. QED
        BY <4>3 DEF Assets!Next
    <3>3. CASE OpenLoss(q) \/ LossHandler(q) \/ RefuseLoss(q) \/ LoseLossCall(q)
      <4>1. UNCHANGED <<registers, booked, found, away, resolved, form>>
        BY <3>3 DEF OpenLoss, LossHandler, ReadLoss, ReadLossFails, CheckLoss, SendsLoss,
                    ReceiveLoss, LossTimesOut, LossEnds, LossHandled, RefuseLoss,
                    LoseLossCall, lossServer, vars
      <4>2. \A p \in Resolves :
              \/ claim'[p] = claim[p]
                 /\ (lossPc'[p] \in {"new", "page"} <=> lossPc[p] \in {"new", "page"})
              \/ lossPc'[p] \in {"new", "page"} /\ lossPc[p] \in {"new", "page"}
        BY <3>3 DEF OpenLoss, LossHandler, ReadLoss, ReadLossFails, CheckLoss, SendsLoss,
                    ReceiveLoss, LossTimesOut, LossEnds, LossHandled, RefuseLoss,
                    LoseLossCall, AssetInv, AssetTypeOK
      <4>3. UNCHANGED Told
        BY <4>2 DEF Told
      <4>4. QED
        BY <2>1, <4>1, <4>3
    <3>4. QED
      BY <2>3, <3>1, <3>2, <3>3
  <2>4. CASE UNCHANGED assetVars
    <3>1. UNCHANGED Told
      BY <2>4 DEF assetVars, lossVars, Told
    <3>2. QED
      BY <2>1, <2>4, <3>1 DEF assetVars, vars, lossVars, lossServer
  <2>5. QED
    BY <2>2, <2>3, <2>4 DEF AssetNext, LossNext, Next
<1>3. AssetSpec => []IInv
  BY AcceptanceUndisturbed, Invariant, PTL
<1>4. IInv /\ BlankInv /\ [AssetNext]_assetVars => BlankInv'
  BY BlankStep, AcceptanceOwnSteps DEF IInv
<1>5. QED
  BY <1>1, <1>2, <1>3, <1>4, AssetInvariant, PTL DEF AssetSpec, AssetLedgerSpec, Assets!Spec

\* What is told about an acceptance stays true, its verdicts stay exact, and its registers
\* stay a ledger, while losses are resolved next to it.
THEOREM AcceptanceKeepsItsPromises ==
  AssetSpec => /\ [](MessageTellsTruth /\ ConflictOnlyByRace)
               /\ UnracedVerdictIsExact
               /\ LedgerSpec
<1>1. Spec => /\ [](MessageTellsTruth /\ ConflictOnlyByRace)
              /\ UnracedVerdictIsExact
              /\ LedgerSpec
  BY MessagesAreTrue, ConflictNeedsRace, VerdictsAreExact, ImplementsLedger, PTL
<1>2. QED
  BY <1>1, AcceptanceUndisturbed, PTL
=============================================================================
