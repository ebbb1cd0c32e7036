-------------------------- MODULE UserBindingProofs --------------------------
(***************************************************************************)
(* Theorems about UserBinding: any number of administrators at work on the *)
(* binding of one account, with calls that fail or are carried out late.   *)
(***************************************************************************)
EXTENDS UserBinding, TLAPS

-----------------------------------------------------------------------------
(* The invariant. *)

\* A request is where a request of its kind can be, and has what it needs there.
StageOk(r) ==
  /\ pc[r] \in {"user", "scopes"} => r \in Pushers
  /\ pc[r] = "rotate" => r \in Rotates
  /\ pc[r] = "state" => r \in Pushers \cup Repairs
  /\ pc[r] = "write" => r \in Pushers \cup Repairs /\ got[r] \in State /\ got[r].token <= current
  /\ pc[r] = "form" => r \in Forms /\ got[r] \in State /\ got[r].token <= current

\* No token is newer than the server's, and only a waiting client has an answer.
DataInv ==
  /\ \A r \in Requests : StageOk(r) /\ (pc[r] = "new" => r \notin raced)
  /\ \A r \in Pushers : /\ r \in Running => sent[r] \in Profiles
                        /\ \A v \in {"user", "scopes"} : <<r, v>> \in wire => sent[r] \in Profiles
  /\ \A c \in Calls : answer[c] = "ok" => c[1] \in Running
  /\ token <= current
  /\ \A r \in Rotates : issued[r] <= current

\* Who runs at the same time as another has raced, and then everything is in doubt.
RaceInv ==
  \A r \in Running :
    /\ \A q \in Running \ {r} : r \in raced
    /\ r \in raced => doubt = {"token", "profile"}

\* What a request that runs alone has read or been told is still so.
FreshOk(r) ==
  /\ pc[r] = "write" => got[r].token = current /\ got[r].profile = account
  /\ pc[r] = "rotate" /\ answer[<<r, "rotate">>] = "ok" => issued[r] = current
  /\ r \in Pushers =>
       \/ pc[r] = "user" /\ answer[<<r, "user">>] = "none"
       \/ account.role = sent[r].role
  /\ r \in Syncs => sent[r] = profile
  /\ pc[r] = "form" =>
       /\ got[r].token = token /\ got[r].profile = profile
       /\ "token" \in doubt \/ token = current \/ got[r].status \in AllFailed

FreshInv == \A r \in Running \ raced : FreshOk(r)

\* Why a token or a profile that is not in doubt may differ from the server's.
DoubtInv ==
  /\ \/ "token" \in doubt \/ token = current \/ status \in AllFailed
     \/ \E r \in Rotates : pc[r] = "rotate"
  /\ \/ "profile" \in doubt \/ profile = account
     \/ \E r \in Saves : r \in Running

IInv == TypeOK /\ DataInv /\ RaceInv /\ FreshInv /\ DoubtInv

-----------------------------------------------------------------------------
(* Lemmas. *)

LEMMA Kinds ==
  /\ \A r \in Saves : r \in Pushers /\ r \notin Syncs
  /\ \A r \in Syncs : r \in Pushers /\ r \notin Saves
  /\ \A r \in Pushers : r \in Requests /\ r \notin Rotates \cup Repairs \cup Forms
  /\ \A r \in Rotates : r \in Requests /\ r \notin Pushers \cup Repairs \cup Forms
  /\ \A r \in Repairs : r \in Requests /\ r \notin Pushers \cup Rotates \cup Forms
  /\ \A r \in Forms : r \in Requests /\ r \notin Pushers \cup Rotates \cup Repairs
  /\ \A r, v : <<r, v>> \in Calls <=>
       \/ r \in Pushers /\ v \in {"user", "scopes"}
       \/ r \in Rotates /\ v = "rotate"
  /\ \A c \in Calls : c = <<c[1], c[2]>>
BY UserBindingAssumption DEF Requests, Pushers, Calls

LEMMA Initial == Init => IInv
<1> SUFFICES ASSUME Init
             PROVE  IInv
  OBVIOUS
<1>1. TypeOK
  BY DEF Init, TypeOK, Profiles, Statuses
<1>2. DataInv
  BY Kinds DEF Init, DataInv, StageOk, Running
<1>3. RaceInv /\ FreshInv
  BY DEF Init, RaceInv, FreshInv, Running
<1>4. DoubtInv
  BY DEF Init, DoubtInv
<1>5. QED
  BY <1>1, <1>2, <1>3, <1>4 DEF IInv

Stages == {"user", "scopes", "rotate", "state", "write", "form"}

LEMMA RunningStages ==
  ASSUME TypeOK
  PROVE  \A r \in Requests : r \in Running <=> pc[r] \in Stages
BY DEF TypeOK, Running, Stages

\* Nobody but a running request can be running and not have raced.
LEMMA RunsAlone ==
  ASSUME IInv, NEW r \in Running
  PROVE  /\ \A q \in Running \ raced : q = r
         /\ r \notin raced => Running = {r}
BY DEF IInv, RaceInv

\* A request starts.
LEMMA StartStep ==
  ASSUME IInv, NEW r \in Requests, NEW stage \in {"user", "rotate", "state", "form"},
         Start(r, stage), UNCHANGED binding, UNCHANGED <<account, current, answer, issued>>,
         \A q \in Pushers \ {r} : sent'[q] = sent[q],
         \A q \in Requests \ {r} : got'[q] = got[q],
         \A q \in Pushers \ {r} : \A v : <<q, v>> \in wire' => <<q, v>> \in wire,
         TypeOK', StageOk(r)', r \in Pushers => sent'[r] \in Profiles,
         Running = {} => FreshOk(r)'
  PROVE  IInv'
<1>1. TypeOK /\ DataInv /\ RaceInv /\ FreshInv /\ DoubtInv
  BY DEF IInv
<1>2. /\ pc[r] = "new" /\ pc' = [pc EXCEPT ![r] = stage]
      /\ raced' = IF Running = {} THEN raced ELSE raced \cup Running \cup {r}
      /\ doubt' = IF Running = {} THEN doubt ELSE {"token", "profile"}
  BY DEF Start
<1>3. pc'[r] = stage /\ \A q \in Requests \ {r} : pc'[q] = pc[q]
  BY <1>1, <1>2 DEF TypeOK
<1>4. Running' = Running \cup {r} /\ r \notin Running /\ r \notin raced
  BY <1>1, <1>2, <1>3 DEF Running, DataInv
<1>5. DataInv'
  <2>1. ASSUME NEW q \in Requests \ {r}
        PROVE  StageOk(q)' /\ (pc'[q] = "new" => q \notin raced')
    <3>1. StageOk(q) /\ (pc[q] = "new" => q \notin raced) /\ (q \in Running <=> pc[q] \in Stages)
      BY <1>1, RunningStages DEF DataInv
    <3>2. StageOk(q)'
      BY <1>3, <2>1, <3>1 DEF StageOk
    <3>3. QED
      BY <1>2, <1>3, <2>1, <3>1, <3>2 DEF Stages
  <2>2. pc'[r] # "new"
    BY <1>3
  <2>3. \A c \in Calls : answer'[c] = "ok" => c[1] \in Running'
    BY <1>1, <1>4 DEF DataInv
  <2>4. \A q \in Pushers : /\ q \in Running' => sent'[q] \in Profiles
                           /\ \A v \in {"user", "scopes"} :
                                <<q, v>> \in wire' => sent'[q] \in Profiles
    BY <1>1, <1>4 DEF DataInv
  <2>5. token' <= current' /\ \A q \in Rotates : issued'[q] <= current'
    BY <1>1 DEF DataInv, binding
  <2>6. QED
    BY <2>1, <2>2, <2>3, <2>4, <2>5 DEF DataInv
<1>6. RaceInv'
  BY <1>1, <1>2, <1>4 DEF RaceInv
<1>7. FreshInv'
  BY <1>2, <1>4 DEF FreshInv
<1>8. DoubtInv'
  BY <1>1, <1>2, <1>3, <1>4, Kinds DEF DoubtInv, binding
<1>9. QED
  BY <1>5, <1>6, <1>7, <1>8 DEF IInv

\* A running request goes on to its next stage.
LEMMA ProgressStep ==
  ASSUME IInv, NEW r \in Running \cap (Pushers \cup Repairs), NEW stage \in Stages,
         pc' = [pc EXCEPT ![r] = stage],
         UNCHANGED <<binding, account, current, answer, issued, sent, history>>,
         \A q \in Requests \ {r} : got'[q] = got[q],
         \A q \in Pushers \ {r} : \A v : <<q, v>> \in wire' => <<q, v>> \in wire,
         TypeOK', StageOk(r)', r \notin raced => FreshOk(r)'
  PROVE  IInv'
<1>1. TypeOK /\ DataInv /\ RaceInv /\ FreshInv /\ DoubtInv
  BY DEF IInv
<1>2. /\ r \in Requests /\ pc'[r] = stage /\ \A q \in Requests \ {r} : pc'[q] = pc[q]
      /\ UNCHANGED <<profile, token, status, raced, doubt>>
  BY <1>1 DEF TypeOK, Running, binding, history
<1>3. Running' = Running
  BY <1>2 DEF Running, Stages
<1>4. DataInv'
  <2>1. ASSUME NEW q \in Requests \ {r}
        PROVE  StageOk(q)'
    BY <1>1, <1>2, <2>1 DEF DataInv, StageOk
  <2>2. \A q \in Pushers : /\ q \in Running' => sent'[q] \in Profiles
                           /\ \A v \in {"user", "scopes"} :
                                <<q, v>> \in wire' => sent'[q] \in Profiles
    BY <1>1, <1>3 DEF DataInv
  <2>3. \A q \in Requests : pc'[q] = "new" => q \notin raced'
    BY <1>1, <1>2 DEF DataInv, Stages
  <2>4. QED
    BY <1>1, <1>2, <1>3, <2>1, <2>2, <2>3 DEF DataInv
<1>5. RaceInv'
  BY <1>1, <1>2, <1>3 DEF RaceInv
<1>6. FreshInv'
  BY <1>2, <1>3, RunsAlone DEF FreshInv
<1>7. DoubtInv'
  BY <1>1, <1>2, <1>3, Kinds DEF DoubtInv
<1>8. QED
  BY <1>4, <1>5, <1>6, <1>7 DEF IInv

\* A running request ends.  If it ran alone, it answers for what it leaves behind.
LEMMA FinishStep ==
  ASSUME IInv, NEW r \in Running, Finish(r), UNCHANGED <<sent, server>>,
         profile' \in Profiles, token' \in Nat, status' \in Statuses, token' <= current,
         doubt' \subseteq {"token", "profile"}, r \in raced => doubt \subseteq doubt',
         r \notin raced =>
           /\ "token" \in doubt' \/ token' = current \/ status' \in AllFailed
           /\ "profile" \in doubt' \/ profile' = account
  PROVE  IInv'
<1>1. TypeOK /\ DataInv /\ RaceInv
  BY DEF IInv
<1>2. /\ pc' = [pc EXCEPT ![r] = "done"] /\ got' = [got EXCEPT ![r] = None]
      /\ answer' = [c \in Calls |-> IF c[1] = r THEN "none" ELSE answer[c]]
      /\ issued' = [o \in Rotates |-> IF o = r THEN 0 ELSE issued[o]]
      /\ UNCHANGED <<raced, sent, account, current, wire>>
  BY DEF Finish, server
<1>3. r \in Requests
  BY DEF Running
<1>4. /\ pc'[r] = "done" /\ \A q \in Requests \ {r} : pc'[q] = pc[q] /\ got'[q] = got[q]
      /\ Running' = Running \ {r}
  BY <1>1, <1>2, <1>3 DEF TypeOK, Running
<1>5. TypeOK'
  BY <1>1, <1>2 DEF TypeOK
<1>6. DataInv'
  <2>1. ASSUME NEW q \in Requests
        PROVE  StageOk(q)' /\ (pc'[q] = "new" => q \notin raced')
    <3>1. CASE q = r
      BY <1>4, <3>1 DEF StageOk
    <3>2. CASE q # r
      BY <1>1, <1>2, <1>4, <3>2 DEF DataInv, StageOk
    <3>3. QED
      BY <3>1, <3>2
  <2>2. \A c \in Calls : answer'[c] = "ok" => c[1] \in Running'
    BY <1>1, <1>2, <1>4 DEF DataInv
  <2>3. \A q \in Rotates : issued'[q] <= current'
    BY <1>1, <1>2 DEF DataInv, TypeOK
  <2>4. QED
    BY <1>1, <1>2, <1>4, <2>1, <2>2, <2>3 DEF DataInv
<1>7. RaceInv' /\ FreshInv'
  <2>1. \A q \in Running' : q \in raced
    BY <1>4, RunsAlone
  <2>2. Running' # {} => doubt' = {"token", "profile"}
    BY <1>1, <1>4, RunsAlone DEF RaceInv
  <2>3. QED
    BY <1>2, <2>1, <2>2 DEF RaceInv, FreshInv
<1>8. DoubtInv'
  BY <1>1, <1>2 DEF RaceInv, DoubtInv
<1>9. QED
  BY <1>5, <1>6, <1>7, <1>8 DEF IInv

\* The server handles a call, for a client that waits or for one that gave up.
LEMMA HandledStep ==
  ASSUME IInv, NEW r \in Requests, NEW verb \in Stages, Handled(r, verb),
         account' \in Profiles, current' \in Nat, current <= current',
         issued' \in [Rotates -> Nat], \A o \in Rotates : issued'[o] <= current',
         pc[r] = verb /\ r \notin raced => FreshOk(r)' /\ DoubtInv'
  PROVE  IInv'
<1>1. TypeOK /\ DataInv /\ RaceInv /\ FreshInv /\ DoubtInv
  BY DEF IInv
<1>2. /\ <<r, verb>> \in wire /\ wire' = wire \ {<<r, verb>>}
      /\ UNCHANGED <<profile, token, status, pc, sent, got>>
      /\ Running' = Running
  BY DEF Handled, binding, web, Running
<1>3. DataInv' /\ TypeOK'
  <2>1. /\ answer' \in [Calls -> {"none", "ok"}]
        /\ \A c \in Calls : answer'[c] = "ok" => answer[c] = "ok" \/ c[1] \in Running
        /\ raced' \subseteq Requests /\ doubt' \subseteq {"token", "profile"}
        /\ \A q \in raced' : q \in raced \/ q \in Running
    <3>1. CASE pc[r] = verb
      <4>1. /\ answer' = [answer EXCEPT ![<<r, verb>>] = "ok"] /\ UNCHANGED <<raced, doubt>>
            /\ r \in Running /\ <<r, verb>> \in Calls
        BY <1>1, <1>2, <3>1 DEF Handled, history, Running, Stages, TypeOK
      <4>2. \A c \in Calls : answer'[c] = "ok" => answer[c] = "ok" \/ c = <<r, verb>>
        BY <1>1, <4>1 DEF TypeOK
      <4>3. answer' \in [Calls -> {"none", "ok"}]
        BY <1>1, <4>1 DEF TypeOK
      <4>4. QED
        BY <1>1, <4>1, <4>2, <4>3 DEF TypeOK
    <3>2. CASE pc[r] # verb
      <4>1. /\ UNCHANGED answer /\ doubt' = {"token", "profile"} /\ raced' = raced \cup Running
            /\ Running \subseteq Requests
        BY <3>2 DEF Handled, Running
      <4>2. QED
        BY <1>1, <4>1 DEF TypeOK
    <3>3. QED
      BY <3>1, <3>2
  <2>2. \A q \in Requests : StageOk(q)' /\ (pc'[q] = "new" => q \notin raced')
    <3>1. \A q \in Requests : pc[q] = "new" => q \notin Running
      BY DEF Running
    <3>2. \A q \in Requests : got[q] \in State => got[q].token \in Nat
      BY DEF State
    <3>3. QED
      BY <1>1, <1>2, <2>1, <3>1, <3>2 DEF DataInv, StageOk, TypeOK
  <2>3. token' <= current'
    BY <1>1, <1>2 DEF DataInv, TypeOK
  <2>4. DataInv'
    BY <1>1, <1>2, <2>1, <2>2, <2>3 DEF DataInv
  <2>5. TypeOK'
    BY <1>1, <1>2, <2>1 DEF TypeOK
  <2>6. QED
    BY <2>4, <2>5
<1>4. CASE pc[r] = verb
  <2>1. r \in Running /\ UNCHANGED <<raced, doubt>>
    BY <1>4 DEF Handled, Running, Stages, history
  <2>2. RaceInv'
    BY <1>1, <1>2, <2>1 DEF RaceInv
  <2>3. FreshInv'
    BY <1>2, <1>4, <2>1, RunsAlone DEF FreshInv
  <2>4. DoubtInv'
    BY <1>1, <1>4, <2>1 DEF RaceInv, DoubtInv
  <2>5. QED
    BY <1>3, <2>2, <2>3, <2>4 DEF IInv
<1>5. CASE pc[r] # verb
  <2>1. doubt' = {"token", "profile"} /\ raced' = raced \cup Running
    BY <1>5 DEF Handled
  <2>2. RaceInv' /\ FreshInv' /\ DoubtInv'
    BY <1>2, <2>1 DEF RaceInv, FreshInv, DoubtInv
  <2>3. QED
    BY <1>3, <2>2 DEF IInv
<1>6. QED
  BY <1>4, <1>5

-----------------------------------------------------------------------------
(* The steps. *)

\* A request starts without an answer.
LEMMA NewHasNoAnswer ==
  ASSUME IInv, NEW r \in Requests, pc[r] = "new", NEW v, <<r, v>> \in Calls
  PROVE  answer[<<r, v>>] = "none"
<1>1. r \notin Running
  BY DEF Running
<1>2. answer[<<r, v>>] \in {"none", "ok"} /\ (answer[<<r, v>>] = "ok" => r \in Running)
  BY DEF IInv, TypeOK, DataInv
<1>3. QED
  BY <1>1, <1>2

Begin(r) ==
  \/ r \in Saves /\ Save(r)
  \/ r \in Syncs /\ Sync(r)
  \/ r \in Rotates /\ Rotate(r)
  \/ r \in Repairs /\ Repair(r)
  \/ r \in Forms /\ Open(r)

LEMMA BeginStep ==
  ASSUME IInv, NEW r \in Requests, Begin(r)
  PROVE  IInv'
<1>1. TypeOK /\ DataInv /\ DoubtInv
  BY DEF IInv
<1>2. ASSUME NEW stage \in {"user", "rotate", "state", "form"}, Start(r, stage)
      PROVE  /\ pc[r] = "new" /\ pc'[r] = stage
             /\ pc' \in [Requests -> Stages \cup {"new", "done"}]
             /\ raced' \subseteq Requests /\ doubt' \subseteq {"token", "profile"}
             /\ Running = {} => UNCHANGED doubt
  BY <1>1, <1>2 DEF Start, TypeOK, Running, Stages
<1>3. ASSUME NEW p \in Profiles, r \in Pushers, Start(r, "user"), sent' = [sent EXCEPT ![r] = p],
             Send(r, "user"), UNCHANGED <<binding, got>>, r \in Syncs => p = profile
      PROVE  IInv'
  <2>1. /\ pc[r] = "new" /\ pc'[r] = "user" /\ pc' \in [Requests -> Stages \cup {"new", "done"}]
        /\ raced' \subseteq Requests /\ doubt' \subseteq {"token", "profile"}
    BY <1>2, <1>3
  <2>2. /\ wire' = wire \cup {<<r, "user">>} /\ <<r, "user">> \in Calls
        /\ UNCHANGED <<account, current, answer, issued, profile, token, status, got>>
        /\ sent'[r] = p /\ \A q \in Pushers \ {r} : sent'[q] = sent[q]
    BY <1>1, <1>3, Kinds DEF Send, replies, binding, TypeOK
  <2>3. TypeOK'
    BY <1>1, <1>3, <2>1, <2>2 DEF TypeOK, Stages
  <2>4. StageOk(r)'
    BY <1>3, <2>1 DEF StageOk
  <2>5. FreshOk(r)'
    BY <1>3, <2>1, <2>2, NewHasNoAnswer, Kinds DEF FreshOk
  <2>6. \A q \in Pushers \ {r} : \A v : <<q, v>> \in wire' => <<q, v>> \in wire
    BY <2>2
  <2>7. QED
    BY <1>3, <2>2, <2>3, <2>4, <2>5, <2>6, StartStep DEF binding
<1>4. ASSUME r \in Saves, Save(r)
      PROVE  IInv'
  <2>1. CASE /\ pc[r] = "new" /\ pc' = [pc EXCEPT ![r] = "done"]
             /\ UNCHANGED <<sent, history, server, replies, binding, got>>
    <3>1. /\ Running' = Running /\ pc' \in [Requests -> Stages \cup {"new", "done"}]
          /\ \A q \in Requests \ {r} : pc'[q] = pc[q]
          /\ pc'[r] = "done" /\ r \notin Running
      BY <1>1, <2>1 DEF Running, TypeOK, Stages
    <3>2. UNCHANGED <<profile, token, status, account, current, wire, answer, issued, sent, got,
                      raced, doubt>>
      BY <2>1 DEF history, server, replies, binding
    <3>3. TypeOK'
      BY <1>1, <3>1, <3>2 DEF TypeOK, Stages
    <3>4. \A q \in Requests : StageOk(q)' /\ (pc'[q] = "new" => q \notin raced')
      BY <1>1, <3>1, <3>2 DEF DataInv, StageOk
    <3>5. DataInv'
      BY <1>1, <3>1, <3>2, <3>4 DEF DataInv
    <3>6. RaceInv'
      BY <3>1, <3>2 DEF IInv, RaceInv
    <3>7. FreshInv'
      <4>1. ASSUME NEW q \in Running \ raced
            PROVE  FreshOk(q)'
        <5>1. FreshOk(q) /\ q \in Requests /\ q # r
          BY <3>1, <4>1 DEF IInv, FreshInv, Running
        <5>2. QED
          BY <3>1, <3>2, <5>1 DEF FreshOk
      <4>2. QED
        BY <3>1, <3>2, <4>1 DEF FreshInv
    <3>8. DoubtInv'
      BY <1>1, <1>4, <2>1, <3>1, <3>2, Kinds DEF DoubtInv
    <3>9. QED
      BY <3>3, <3>5, <3>6, <3>7, <3>8 DEF IInv
  <2>2. ASSUME NEW role \in Roles, NEW s \in Sites,
               sent' = [sent EXCEPT ![r] = [role |-> role, default |-> s, scopes |-> s]],
               Start(r, "user"), Send(r, "user"), UNCHANGED <<binding, got>>
        PROVE  IInv'
    <3>1. [role |-> role, default |-> s, scopes |-> s] \in Profiles
      BY DEF Profiles
    <3>2. QED
      BY <1>3, <1>4, <2>2, <3>1, Kinds
  <2>3. QED
    BY <1>4, <2>1, <2>2 DEF Save
<1>5. ASSUME r \in Syncs, Sync(r)
      PROVE  IInv'
  <2>1. profile \in Profiles
    BY <1>1 DEF TypeOK
  <2>2. QED
    BY <1>3, <1>5, <2>1, Kinds DEF Sync
<1>6. ASSUME r \in Rotates, Rotate(r)
      PROVE  IInv'
  <2>1. /\ Start(r, "rotate") /\ UNCHANGED <<binding, sent, got, account, current, answer, issued>>
        /\ wire' = wire \cup {<<r, "rotate">>} /\ <<r, "rotate">> \in Calls
    BY <1>6, Kinds DEF Rotate, Send, replies
  <2>2. /\ pc[r] = "new" /\ pc'[r] = "rotate" /\ pc' \in [Requests -> Stages \cup {"new", "done"}]
        /\ raced' \subseteq Requests /\ doubt' \subseteq {"token", "profile"}
    BY <1>2, <2>1
  <2>3. TypeOK'
    BY <1>1, <2>1, <2>2 DEF TypeOK, Stages, binding
  <2>4. StageOk(r)'
    BY <1>6, <2>2 DEF StageOk
  <2>5. FreshOk(r)'
    BY <1>6, <2>1, <2>2, NewHasNoAnswer, Kinds DEF FreshOk
  <2>6. \A q \in Pushers \ {r} : \A v : <<q, v>> \in wire' => <<q, v>> \in wire
    BY <2>1
  <2>7. QED
    BY <1>6, <2>1, <2>3, <2>4, <2>5, <2>6, StartStep, Kinds
<1>7. ASSUME r \in Repairs, Repair(r)
      PROVE  IInv'
  <2>1. /\ Start(r, "state")
        /\ UNCHANGED <<binding, sent, got, account, current, wire, answer, issued>>
    BY <1>7 DEF Repair, server, replies
  <2>2. /\ pc'[r] = "state" /\ pc' \in [Requests -> Stages \cup {"new", "done"}]
        /\ raced' \subseteq Requests /\ doubt' \subseteq {"token", "profile"}
    BY <1>2, <2>1
  <2>3. TypeOK'
    BY <1>1, <2>1, <2>2 DEF TypeOK, Stages, binding
  <2>4. StageOk(r)' /\ FreshOk(r)'
    BY <1>7, <2>2, Kinds DEF StageOk, FreshOk
  <2>5. QED
    BY <1>7, <2>1, <2>3, <2>4, StartStep, Kinds
<1>8. ASSUME r \in Forms, Open(r)
      PROVE  IInv'
  <2>1. /\ Start(r, "form") /\ UNCHANGED <<sent, account, current, wire, answer, issued>>
        /\ UNCHANGED <<profile, token, status>>
        /\ got' = [got EXCEPT ![r] = [profile |-> profile, token |-> token, status |-> status]]
    BY <1>8 DEF Open, server, replies, binding
  <2>2. /\ pc'[r] = "form" /\ pc' \in [Requests -> Stages \cup {"new", "done"}]
        /\ raced' \subseteq Requests /\ doubt' \subseteq {"token", "profile"}
        /\ Running = {} => UNCHANGED doubt
    BY <1>2, <2>1
  <2>3. /\ got'[r] = [profile |-> profile, token |-> token, status |-> status]
        /\ got'[r] \in State /\ got'[r].token = token /\ got'[r].profile = profile
        /\ got'[r].status = status
        /\ \A q \in Requests \ {r} : got'[q] = got[q]
    BY <1>1, <2>1 DEF TypeOK, State
  <2>4. TypeOK'
    <3>1. got' \in [Requests -> State \cup {None}]
      BY <1>1, <2>1, <2>3 DEF TypeOK
    <3>2. pc' \in [Requests -> {"new", "user", "scopes", "rotate", "state", "write", "form", "done"}]
      BY <2>2 DEF Stages
    <3>3. QED
      BY <1>1, <2>1, <2>2, <3>1, <3>2 DEF TypeOK
  <2>5. StageOk(r)'
    BY <1>1, <1>8, <2>1, <2>2, <2>3, Kinds DEF StageOk, DataInv
  <2>6. ASSUME Running = {}
        PROVE  FreshOk(r)'
    <3>1. "token" \in doubt \/ token = current \/ status \in AllFailed
      BY <1>1, <2>6, Kinds DEF DoubtInv, Running
    <3>2. QED
      BY <1>8, <2>1, <2>2, <2>3, <2>6, <3>1, Kinds DEF FreshOk
  <2>7. QED
    BY <1>8, <2>1, <2>3, <2>4, <2>5, <2>6, StartStep, Kinds DEF binding
<1>9. QED
  BY <1>4, <1>5, <1>6, <1>7, <1>8 DEF Begin

LEMMA GoOnStep ==
  ASSUME IInv, NEW r \in Requests, UserPushed(r) \/ ScopesPushed(r) \/ Fetch(r)
  PROVE  IInv'
<1>1. TypeOK /\ DataInv
  BY DEF IInv
<1>2. r \in Running
  BY DEF UserPushed, ScopesPushed, Fetch, Replied, Waits, Running
<1>3. StageOk(r) /\ (r \notin raced => FreshOk(r)) /\ (r \in Pushers => sent[r] \in Profiles)
  BY <1>1, <1>2 DEF DataInv, IInv, FreshInv
<1>4. CASE UserPushed(r)
  <2>1. /\ pc[r] = "user" /\ answer[<<r, "user">>] = "ok" /\ r \in Pushers
        /\ pc' = [pc EXCEPT ![r] = "scopes"] /\ wire' = wire \cup {<<r, "scopes">>}
        /\ UNCHANGED <<binding, sent, got, history, account, current, answer, issued>>
    BY <1>4, <1>3 DEF UserPushed, Replied, Waits, Send, replies, StageOk
  <2>2. /\ pc'[r] = "scopes" /\ <<r, "scopes">> \in Calls
        /\ UNCHANGED <<profile, token, status, raced, doubt>>
    BY <1>1, <2>1, Kinds DEF TypeOK, binding, history
  <2>3. TypeOK'
    BY <1>1, <2>1, <2>2 DEF TypeOK
  <2>4. StageOk(r)' /\ (r \notin raced => FreshOk(r)')
    BY <1>3, <2>1, <2>2 DEF StageOk, FreshOk
  <2>5. \A q \in Pushers \ {r} : \A v : <<q, v>> \in wire' => <<q, v>> \in wire
    BY <2>1
  <2>6. QED
    BY <1>2, <2>1, <2>3, <2>4, <2>5, ProgressStep DEF Stages
<1>5. CASE ScopesPushed(r)
  <2>1. /\ pc[r] = "scopes" /\ r \in Pushers /\ pc' = [pc EXCEPT ![r] = "state"]
        /\ UNCHANGED <<binding, sent, got, history, account, current, wire, answer, issued>>
    BY <1>5, <1>3 DEF ScopesPushed, Replied, Waits, server, replies, StageOk
  <2>2. pc'[r] = "state" /\ UNCHANGED <<profile, token, status, raced, doubt>>
    BY <1>1, <2>1 DEF TypeOK, binding, history
  <2>3. TypeOK'
    BY <1>1, <2>1, <2>2 DEF TypeOK
  <2>4. StageOk(r)' /\ (r \notin raced => FreshOk(r)')
    BY <1>3, <2>1, <2>2 DEF StageOk, FreshOk
  <2>5. QED
    BY <1>2, <2>1, <2>3, <2>4, ProgressStep DEF Stages
<1>6. CASE Fetch(r)
  <2>1. /\ pc[r] = "state" /\ r \in Pushers \cup Repairs /\ pc' = [pc EXCEPT ![r] = "write"]
        /\ got' = [got EXCEPT ![r] = [profile |-> account, token |-> current, status |-> "synced"]]
        /\ UNCHANGED <<binding, sent, history, account, current, wire, answer, issued>>
    BY <1>6, <1>3 DEF Fetch, server, replies, StageOk
  <2>2. /\ pc'[r] = "write" /\ UNCHANGED <<profile, token, status, raced, doubt>>
        /\ got'[r] = [profile |-> account, token |-> current, status |-> "synced"]
        /\ got'[r] \in State
        /\ \A q \in Requests \ {r} : got'[q] = got[q]
    BY <1>1, <2>1 DEF TypeOK, binding, history, State, Statuses
  <2>3. TypeOK'
    BY <1>1, <2>1, <2>2 DEF TypeOK
  <2>4. StageOk(r)'
    BY <1>1, <2>1, <2>2 DEF StageOk, TypeOK
  <2>5. r \notin raced => FreshOk(r)'
    BY <1>3, <2>1, <2>2 DEF FreshOk
  <2>6. QED
    BY <1>2, <2>1, <2>2, <2>3, <2>4, <2>5, ProgressStep DEF Stages
<1>7. QED
  BY <1>4, <1>5, <1>6

\* What FinishStep asks of a request that leaves the binding as it is but for a flag.
LEMMA LeaveStep ==
  ASSUME IInv, NEW r \in Running, Finish(r), UNCHANGED <<profile, token, sent, server>>,
         \/ /\ r \in Saves /\ doubt' = doubt \cup {"profile"} /\ UNCHANGED status
         \/ /\ r \notin Saves /\ UNCHANGED doubt
            /\ status' \in {"sync_failed", "repair_required"}
  PROVE  IInv'
<1>1. TypeOK /\ DataInv /\ DoubtInv
  BY DEF IInv
<1>2. /\ status' \in Statuses /\ token' <= current /\ profile' \in Profiles /\ token' \in Nat
      /\ doubt' \subseteq {"token", "profile"} /\ doubt \subseteq doubt'
  BY <1>1 DEF TypeOK, DataInv, Statuses
<1>3. ASSUME r \notin raced
      PROVE  /\ "token" \in doubt' \/ token' = current \/ status' \in AllFailed
             /\ "profile" \in doubt' \/ profile' = account
  <2>1. \A q \in Running : q = r
    BY <1>3, RunsAlone
  <2>2. \A q \in Rotates : pc[q] = "rotate" => q \in Running
    BY Kinds DEF Running
  <2>3. CASE r \in Saves
    <3>1. "token" \in doubt \/ token = current \/ status \in AllFailed
      BY <1>1, <2>1, <2>2, <2>3, Kinds DEF DoubtInv
    <3>2. QED
      BY <2>3, <3>1
  <2>4. CASE r \notin Saves
    <3>1. "profile" \in doubt \/ profile = account
      BY <1>1, <2>1, <2>4 DEF DoubtInv
    <3>2. QED
      BY <2>4, <3>1 DEF AllFailed
  <2>5. QED
    BY <2>3, <2>4
<1>4. QED
  BY <1>2, <1>3, FinishStep

LEMMA EndStep ==
  ASSUME IInv, NEW r \in Requests,
         CallFails(r) \/ FetchFails(r) \/ FormRejected(r) \/ WriteFails(r)
  PROVE  IInv'
<1>1. r \in Running
  BY DEF CallFails, FetchFails, FormRejected, WriteFails, Replied, Waits, Running
<1>2. /\ Finish(r) /\ UNCHANGED <<profile, token, sent, server>>
      /\ \/ /\ r \in Saves /\ doubt' = doubt \cup {"profile"} /\ UNCHANGED status
         \/ /\ r \notin Saves /\ UNCHANGED doubt
            /\ status' \in {"sync_failed", "repair_required"}
  BY DEF CallFails, FetchFails, FormRejected, WriteFails, Fail, MarkFailure, binding
<1>3. QED
  BY <1>1, <1>2, LeaveStep

LEMMA RotatedStep ==
  ASSUME IInv, NEW r \in Requests, Rotated(r)
  PROVE  IInv'
<1>1. TypeOK /\ DataInv /\ DoubtInv
  BY DEF IInv
<1>2. /\ r \in Running /\ Finish(r) /\ UNCHANGED <<profile, sent, server>>
      /\ pc[r] = "rotate" /\ answer[<<r, "rotate">>] = "ok"
      /\ token' = issued[r] /\ status' = "synced"
      /\ doubt' = IF r \in raced THEN doubt ELSE doubt \ {"token"}
  BY DEF Rotated, Replied, Waits, Settle, Running
<1>3. r \in Rotates
  BY <1>1, <1>2 DEF DataInv, StageOk
<1>4. /\ status' \in Statuses /\ token' <= current /\ profile' \in Profiles /\ token' \in Nat
      /\ doubt' \subseteq {"token", "profile"}
  BY <1>1, <1>2, <1>3 DEF TypeOK, DataInv, Statuses
<1>5. ASSUME r \notin raced
      PROVE  token' = current /\ ("profile" \in doubt' \/ profile' = account)
  <2>1. FreshOk(r) /\ \A q \in Running : q = r
    BY <1>2, <1>5, RunsAlone DEF IInv, FreshInv
  <2>2. "profile" \in doubt \/ profile = account
    BY <1>1, <1>3, <2>1, Kinds DEF DoubtInv
  <2>3. QED
    BY <1>2, <1>5, <2>1, <2>2 DEF FreshOk
<1>6. QED
  BY <1>2, <1>4, <1>5, FinishStep

LEMMA WriteStep ==
  ASSUME IInv, NEW r \in Requests, Write(r)
  PROVE  IInv'
<1>1. TypeOK /\ DataInv
  BY DEF IInv
<1>2. /\ r \in Running /\ Finish(r) /\ UNCHANGED <<sent, server>> /\ pc[r] = "write"
      /\ profile' = IF r \in Pushers THEN [got[r].profile EXCEPT !.role = sent[r].role]
                    ELSE got[r].profile
      /\ token' = got[r].token /\ status' = "synced"
      /\ doubt' = IF r \in raced THEN doubt ELSE doubt \ {"token", "profile"}
  BY DEF Write, Settle, Running
<1>3. /\ got[r] \in State /\ got[r].token <= current
      /\ r \in Pushers => sent[r] \in Profiles
  BY <1>1, <1>2 DEF DataInv, StageOk
<1>4. got[r].profile \in Profiles /\ got[r].token \in Nat
  BY <1>3 DEF State
<1>5. profile' \in Profiles
  BY <1>2, <1>3, <1>4 DEF Profiles
<1>6. /\ status' \in Statuses /\ token' <= current /\ token' \in Nat
      /\ doubt' \subseteq {"token", "profile"}
  BY <1>1, <1>2, <1>3, <1>4 DEF TypeOK, Statuses
<1>7. ASSUME r \notin raced
      PROVE  token' = current /\ profile' = account
  <2>1. FreshOk(r)
    BY <1>2, <1>7 DEF IInv, FreshInv
  <2>2. got[r].token = current /\ got[r].profile = account
    BY <1>2, <2>1 DEF FreshOk
  <2>3. r \in Pushers => account.role = sent[r].role
    BY <1>2, <2>1 DEF FreshOk
  <2>4. account \in Profiles
    BY <1>1 DEF TypeOK
  <2>5. [account EXCEPT !.role = account.role] = account
    BY <2>4 DEF Profiles
  <2>6. QED
    BY <1>2, <2>2, <2>3, <2>5
<1>8. QED
  BY <1>2, <1>5, <1>6, <1>7, FinishStep

LEMMA PostStep ==
  ASSUME IInv, NEW r \in Requests, Post(r)
  PROVE  IInv'
<1>1. TypeOK /\ DataInv
  BY DEF IInv
<1>2. PICK t \in {got[r].token, current}, p \in Profiles :
        /\ profile' = p /\ token' = t
        /\ status' = IF t # token THEN "manual_override" ELSE got[r].status
        /\ doubt' = IF p = got[r].profile THEN doubt ELSE doubt \cup {"profile"}
  BY DEF Post
<1>3. pc[r] = "form" /\ r \in Running /\ Finish(r) /\ UNCHANGED <<sent, server>>
  BY DEF Post, Running
<1>4. got[r] \in State /\ got[r].token <= current /\ r \in Forms
  BY <1>1, <1>3 DEF DataInv, StageOk
<1>5. /\ status' \in Statuses /\ token' <= current /\ token' \in Nat /\ profile' \in Profiles
      /\ doubt' \subseteq {"token", "profile"} /\ doubt \subseteq doubt'
  BY <1>1, <1>2, <1>4 DEF TypeOK, State, Statuses
<1>6. ASSUME r \notin raced
      PROVE  /\ "token" \in doubt' \/ token' = current \/ status' \in AllFailed
             /\ "profile" \in doubt' \/ profile' = account
  <2>1. FreshOk(r) /\ \A q \in Running : q = r
    BY <1>3, <1>6, RunsAlone DEF IInv, FreshInv
  <2>2. /\ got[r].token = token /\ got[r].profile = profile
        /\ "token" \in doubt \/ token = current \/ got[r].status \in AllFailed
    BY <1>3, <2>1 DEF FreshOk
  <2>3. "profile" \in doubt \/ profile = account
    BY <1>4, <2>1, Kinds DEF IInv, DoubtInv
  <2>4. QED
    BY <1>2, <1>5, <2>2, <2>3 DEF AllFailed
<1>7. QED
  BY <1>3, <1>5, <1>6, FinishStep

LEMMA PushStep ==
  ASSUME IInv, NEW r \in Pushers, PushUser(r) \/ PushScopes(r)
  PROVE  IInv'
<1>1. TypeOK /\ DataInv /\ DoubtInv
  BY DEF IInv
<1>2. PICK verb \in {"user", "scopes"} :
        /\ Handled(r, verb) /\ UNCHANGED <<current, issued>>
        /\ account' = IF verb = "user" THEN [sent[r] EXCEPT !.scopes = account.scopes]
                      ELSE [account EXCEPT !.scopes = sent[r].scopes]
  BY DEF PushUser, PushScopes
<1>3. <<r, verb>> \in wire /\ UNCHANGED <<profile, token, status, pc, sent, got>> /\ r \in Requests
  BY <1>2, Kinds DEF Handled, binding, web
<1>4. sent[r] \in Profiles /\ account \in Profiles
  BY <1>1, <1>3 DEF DataInv, TypeOK
<1>5. account' \in Profiles
  BY <1>2, <1>4 DEF Profiles
<1>6. ASSUME pc[r] = verb, r \notin raced
      PROVE  FreshOk(r)' /\ DoubtInv'
  <2>1. r \in Running /\ UNCHANGED <<raced, doubt>> /\ Running' = Running
    BY <1>2, <1>3, <1>6 DEF Handled, Running, history
  <2>2. FreshOk(r) /\ \A q \in Running : q = r
    BY <1>6, <2>1, RunsAlone DEF IInv, FreshInv
  <2>3. account'.role = sent[r].role
    BY <1>2, <1>4, <1>6, <2>2 DEF FreshOk, Profiles
  <2>4. FreshOk(r)'
    BY <1>2, <1>3, <1>6, <2>2, <2>3, Kinds DEF FreshOk
  <2>5. "profile" \in doubt \/ profile = account' \/ r \in Saves
    <3>1. ASSUME r \in Syncs, profile = account
          PROVE  profile = account'
      <4>1. sent[r] = account
        BY <2>2, <3>1 DEF FreshOk
      <4>2. [account EXCEPT !.scopes = account.scopes] = account
        BY <1>4 DEF Profiles
      <4>3. QED
        BY <1>2, <3>1, <4>1, <4>2
    <3>2. QED
      BY <1>1, <2>2, <3>1 DEF DoubtInv, Pushers
  <2>6. DoubtInv'
    BY <1>1, <1>2, <1>3, <2>1, <2>5 DEF DoubtInv
  <2>7. QED
    BY <2>4, <2>6
<1>7. /\ current' \in Nat /\ current <= current' /\ issued' \in [Rotates -> Nat]
      /\ \A o \in Rotates : issued'[o] <= current'
  BY <1>1, <1>2 DEF TypeOK, DataInv
<1>8. QED
  BY <1>2, <1>3, <1>5, <1>6, <1>7, HandledStep DEF Stages

LEMMA RotateTokenStep ==
  ASSUME IInv, NEW r \in Rotates, RotateToken(r)
  PROVE  IInv'
<1>1. TypeOK /\ DataInv /\ DoubtInv
  BY DEF IInv
<1>2. /\ Handled(r, "rotate") /\ current' = current + 1 /\ UNCHANGED account /\ r \in Requests
      /\ issued' = IF pc[r] = "rotate" THEN [issued EXCEPT ![r] = current + 1] ELSE issued
      /\ UNCHANGED <<profile, token, status, pc, sent, got>>
  BY Kinds DEF RotateToken, Handled, binding, web
<1>3. /\ current' \in Nat /\ current <= current' /\ issued' \in [Rotates -> Nat]
      /\ \A o \in Rotates : issued'[o] <= current'
  BY <1>1, <1>2 DEF TypeOK, DataInv
<1>4. ASSUME pc[r] = "rotate", r \notin raced
      PROVE  FreshOk(r)' /\ DoubtInv'
  <2>1. UNCHANGED doubt /\ issued'[r] = current' /\ r \notin Pushers /\ Running' = Running
    BY <1>1, <1>2, <1>4, Kinds DEF Handled, history, TypeOK, Running
  <2>2. FreshOk(r)'
    BY <1>2, <1>4, <2>1, Kinds DEF FreshOk
  <2>3. DoubtInv'
    BY <1>1, <1>2, <1>4, <2>1 DEF DoubtInv
  <2>4. QED
    BY <2>2, <2>3
<1>5. account' \in Profiles
  BY <1>1, <1>2 DEF TypeOK
<1>6. QED
  BY <1>2, <1>3, <1>4, <1>5, HandledStep DEF Stages

\* A call that is refused, a flag and a stutter touch nothing that a request relies on.
LEMMA QuietStep ==
  ASSUME IInv, (\E c \in Calls : Refuse(c)) \/ MarkForRepair \/ UNCHANGED vars
  PROVE  IInv'
<1>1. TypeOK /\ DataInv /\ RaceInv /\ FreshInv /\ DoubtInv
  BY DEF IInv
<1>2. /\ UNCHANGED <<profile, token, account, current, answer, issued, pc, sent, got, raced, doubt>>
      /\ status' \in {status, "repair_required"} /\ wire' \subseteq wire
  BY DEF Refuse, MarkForRepair, MarkFailure, vars, binding, server, replies, web, history
<1>3. Running' = Running
  BY <1>2 DEF Running
<1>4. TypeOK'
  BY <1>1, <1>2 DEF TypeOK, Statuses
<1>5. DataInv'
  BY <1>1, <1>2, <1>3 DEF DataInv, StageOk
<1>6. RaceInv'
  BY <1>1, <1>2, <1>3 DEF RaceInv
<1>7. FreshInv'
  BY <1>1, <1>2, <1>3 DEF FreshInv, FreshOk
<1>8. DoubtInv'
  BY <1>1, <1>2, <1>3 DEF DoubtInv, AllFailed
<1>9. QED
  BY <1>4, <1>5, <1>6, <1>7, <1>8 DEF IInv

LEMMA Step == IInv /\ [Next]_vars => IInv'
<1> SUFFICES ASSUME IInv, [Next]_vars
             PROVE  IInv'
  OBVIOUS
<1>1. ASSUME NEW r \in Saves, Save(r)
      PROVE  IInv'
  BY <1>1, BeginStep, Kinds DEF Begin
<1>2. ASSUME NEW r \in Syncs, Sync(r)
      PROVE  IInv'
  BY <1>2, BeginStep, Kinds DEF Begin
<1>3. ASSUME NEW r \in Rotates, Rotate(r) \/ RotateToken(r)
      PROVE  IInv'
  BY <1>3, BeginStep, RotateTokenStep, Kinds DEF Begin
<1>4. ASSUME NEW r \in Repairs, Repair(r)
      PROVE  IInv'
  BY <1>4, BeginStep, Kinds DEF Begin
<1>5. ASSUME NEW r \in Forms, Open(r) \/ Post(r)
      PROVE  IInv'
  BY <1>5, BeginStep, PostStep, Kinds DEF Begin
<1>6. ASSUME NEW r \in Pushers, PushUser(r) \/ PushScopes(r)
      PROVE  IInv'
  BY <1>6, PushStep
<1>7. ASSUME NEW r \in Requests, Admin(r)
      PROVE  IInv'
  BY <1>7, GoOnStep, EndStep, RotatedStep, WriteStep DEF Admin
<1>8. CASE (\E c \in Calls : Refuse(c)) \/ MarkForRepair \/ UNCHANGED vars
  BY <1>8, QuietStep
<1>9. QED
  BY <1>1, <1>2, <1>3, <1>4, <1>5, <1>6, <1>7, <1>8 DEF Next

-----------------------------------------------------------------------------
(* The theorems. *)

\* Every reachable state of any number of administrators satisfies the invariant.
THEOREM Invariant == Spec => []IInv
BY Initial, Step, PTL DEF Spec

\* The types of the model are kept by every step of the admin site, the command and the server.
THEOREM TypeCorrect == Spec => []TypeOK
<1>1. IInv => TypeOK
  BY DEF IInv
<1>2. QED
  BY <1>1, Invariant, PTL

\* repair_sync_users --all-failed finds every binding whose token is not the server's, unless
\* requests overlapped or a call was carried out after its client gave up.
THEOREM WrongTokensAreFlagged == Spec => []WrongTokenIsFlagged
<1>1. IInv => WrongTokenIsFlagged
  <2>1. SUFFICES ASSUME IInv, Running = {}, "token" \notin doubt, token # current
                 PROVE  status \in AllFailed
    BY DEF WrongTokenIsFlagged
  <2>2. \A r \in Rotates : pc[r] # "rotate"
    BY <2>1, Kinds DEF Running
  <2>3. QED
    BY <2>1, <2>2 DEF IInv, DoubtInv
<1>2. QED
  BY <1>1, Invariant, PTL

\* One save, sync or repair that runs alone makes role and warehouses alike on both sides,
\* from whatever state earlier requests have left.
THEOREM SettledProfilesAreExact == Spec => []SettledProfileIsExact
<1>1. IInv => SettledProfileIsExact
  BY DEF IInv, DoubtInv, SettledProfileIsExact
<1>2. QED
  BY <1>1, Invariant, PTL

\* apply_rotated_token, apply_prepared_state and the form of the binding put an older token in
\* place of a newer one only when two requests overlap.
THEOREM TokensGoBackOnlyByRace == Spec => TokenGoesBackOnlyByRace
<1>1. ASSUME IInv, [Next]_vars, token' < token
      PROVE  \E r \in raced : pc[r] # pc'[r]
  <2>1. TypeOK /\ DataInv
    BY <1>1 DEF IInv
  <2>2. token' # token
    BY <1>1, <2>1 DEF TypeOK
  <2>3. PICK r \in Requests : Rotated(r) \/ Write(r) \/ Post(r)
    <3>1. \A r \in Requests : ~CallFails(r) /\ ~UserPushed(r) /\ ~ScopesPushed(r) /\ ~Fetch(r)
                              /\ ~FetchFails(r) /\ ~FormRejected(r) /\ ~WriteFails(r)
      BY <2>2 DEF CallFails, UserPushed, ScopesPushed, Fetch, FetchFails, FormRejected,
                  WriteFails, Fail, MarkFailure, binding
    <3>2. \A r : ~Save(r) /\ ~Sync(r) /\ ~Rotate(r) /\ ~Repair(r) /\ ~Open(r)
      BY <2>2 DEF Save, Sync, Rotate, Repair, Open, binding
    <3>3. /\ \A r : ~PushUser(r) /\ ~PushScopes(r) /\ ~RotateToken(r)
          /\ \A c : ~Refuse(c)
          /\ ~MarkForRepair
      BY <2>2 DEF PushUser, PushScopes, RotateToken, Handled, Refuse, MarkForRepair,
                  MarkFailure, binding
    <3>4. token' # token /\ [Next]_vars => Next
      BY DEF vars, binding
    <3>5. QED
      BY <1>1, <2>2, <3>1, <3>2, <3>3, <3>4, Kinds DEF Next, Admin
  <2>4. r \in Running /\ pc'[r] = "done" /\ pc[r] # "done"
    BY <2>1, <2>3 DEF Rotated, Write, Post, Replied, Waits, Finish, Running, TypeOK
  <2>5. ASSUME r \notin raced
        PROVE  token' >= token
    <3>1. FreshOk(r) /\ StageOk(r) /\ token <= current /\ token \in Nat /\ current \in Nat
      BY <1>1, <2>1, <2>4, <2>5 DEF IInv, FreshInv, DataInv, TypeOK
    <3>2. CASE Rotated(r)
      BY <3>1, <3>2 DEF Rotated, Replied, Waits, FreshOk
    <3>3. CASE Write(r)
      BY <3>1, <3>3 DEF Write, FreshOk
    <3>4. CASE Post(r)
      BY <3>1, <3>4 DEF Post, FreshOk
    <3>5. QED
      BY <2>3, <3>2, <3>3, <3>4
  <2>6. r \in raced
    <3>1. token' \in Nat /\ token \in Nat
      BY <1>1, <2>1, Step DEF IInv, TypeOK
    <3>2. QED
      BY <1>1, <2>5, <3>1
  <2>7. QED
    BY <2>4, <2>6
<1>2. IInv /\ [Next]_vars => [token' < token => \E r \in raced : pc[r] # pc'[r]]_vars
  BY <1>1
<1>3. QED
  BY <1>2, Invariant, PTL DEF Spec, TokenGoesBackOnlyByRace
=============================================================================
