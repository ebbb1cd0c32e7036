----------------------------- MODULE UserBinding ----------------------------
(***************************************************************************)
(* The SyncServer account of a Django user and its local binding: the user *)
(* form of the admin site (SyncManagedUserAdminForm.clean and save_model), *)
(* its buttons sync, rotate token and repair, the repair command and bulk  *)
(* actions, and the form of the binding itself (SyncUserBindingAdmin).     *)
(*                                                                         *)
(* Nothing is locked.  Every request loads the binding, makes its calls to *)
(* the server, and writes the whole binding (or its token) at the end;     *)
(* requests of several administrators overlap, and a call can fail, get no *)
(* answer, or be carried out after the client gave up.                     *)
(*                                                                         *)
(* One account, which both sides know at first.  "role" stands for all the *)
(* user data that POST /auth/sync-user carries besides the default site.   *)
(***************************************************************************)
EXTENDS Naturals

CONSTANTS
  Roles, Sites,  \* values of a binding's role and warehouses
  Saves,         \* POSTs of the user form
  Syncs,         \* presses of the sync button
  Rotates,       \* presses of the rotate button
  Repairs,       \* presses of the repair button, runs of the command or the bulk action
  Forms,         \* forms of the binding itself
  None           \* no profile yet

Pushers == Saves \cup Syncs
Requests == Pushers \cup Rotates \cup Repairs \cup Forms
Calls == (Pushers \X {"user", "scopes"}) \cup (Rotates \X {"rotate"})
Profiles == [role : Roles, default : Sites, scopes : Sites]

ASSUME UserBindingAssumption ==
  /\ Roles # {} /\ Sites # {}
  /\ Saves \cap Syncs = {} /\ Pushers \cap Rotates = {}
  /\ (Pushers \cup Rotates) \cap Repairs = {}
  /\ (Pushers \cup Rotates \cup Repairs) \cap Forms = {}
  /\ None \notin Profiles

VARIABLES
  profile,  \* binding: role and warehouses
  token,    \* binding: sync_user_token
  status,   \* binding: sync_status
  account,  \* server: role and warehouses of the user
  current,  \* server: the user's token; tokens count the rotations
  wire,     \* calls the server has yet to handle
  answer,   \* answer[c]: whether the client, still waiting, has a good answer to c
  issued,   \* issued[r]: the token in the answer to rotation r
  pc,       \* pc[r]: where request r is
  sent,     \* sent[r]: the profile r pushes, or shows in its form
  got,      \* got[r]: the sync-state r fetched, or the row its form shows
  raced,    \* history: requests that ran at the same time as another
  doubt     \* history: what may differ without a flag, see Properties

binding == <<profile, token, status>>
server == <<account, current, wire>>
replies == <<answer, issued>>
web == <<pc, sent, got>>
history == <<raced, doubt>>
vars == <<binding, server, replies, web, history>>

Statuses == {"synced", "sync_failed", "repair_required", "manual_override"}
State == [profile : Profiles, token : Nat, status : Statuses]

TypeOK ==
  /\ profile \in Profiles /\ account \in Profiles
  /\ token \in Nat /\ current \in Nat
  /\ status \in Statuses
  /\ wire \subseteq Calls
  /\ answer \in [Calls -> {"none", "ok"}]
  /\ issued \in [Rotates -> Nat]
  /\ pc \in [Requests -> {"new", "user", "scopes", "rotate", "state", "write", "form", "done"}]
  /\ sent \in [Pushers -> Profiles \cup {None}]
  /\ got \in [Requests -> State \cup {None}]
  /\ raced \subseteq Requests
  /\ doubt \subseteq {"token", "profile"}

\* A user that was created and synchronised.
Init ==
  /\ \E r \in Roles, s \in Sites :
       profile = [role |-> r, default |-> s, scopes |-> s]
  /\ account = profile
  /\ token = 0 /\ current = 0
  /\ status = "synced"
  /\ wire = {}
  /\ answer = [c \in Calls |-> "none"]
  /\ issued = [r \in Rotates |-> 0]
  /\ pc = [r \in Requests |-> "new"]
  /\ sent = [r \in Pushers |-> None]
  /\ got = [r \in Requests |-> None]
  /\ raced = {}
  /\ doubt = {}

Running == {r \in Requests : pc[r] \notin {"new", "done"}}

\* Request r starts at "stage".  History: whoever runs at the same time races.
Start(r, stage) ==
  /\ pc[r] = "new"
  /\ pc' = [pc EXCEPT ![r] = stage]
  /\ raced' = IF Running = {} THEN raced ELSE raced \cup Running \cup {r}
  /\ doubt' = IF Running = {} THEN doubt ELSE {"token", "profile"}

\* What a request read and was answered ends with it.
Finish(r) ==
  /\ pc' = [pc EXCEPT ![r] = "done"]
  /\ got' = [got EXCEPT ![r] = None]
  /\ answer' = [c \in Calls |-> IF c[1] = r THEN "none" ELSE answer[c]]
  /\ issued' = [o \in Rotates |-> IF o = r THEN 0 ELSE issued[o]]
  /\ UNCHANGED raced

Send(r, verb) == wire' = wire \cup {<<r, verb>>} /\ UNCHANGED <<account, current, replies>>

\* History: a request that ran alone settles what was in doubt about "fields".
Settle(r, fields) == doubt' = IF r \in raced THEN doubt ELSE doubt \ fields

-----------------------------------------------------------------------------
(* Starting. *)

\* The form checks passwords, role and warehouse before it calls the server.
Save(r) ==
  /\ \/ /\ \E role \in Roles, s \in Sites :
             sent' = [sent EXCEPT ![r] = [role |-> role, default |-> s, scopes |-> s]]
        /\ Start(r, "user")
        /\ Send(r, "user")
     \/ /\ pc[r] = "new" /\ pc' = [pc EXCEPT ![r] = "done"]
        /\ UNCHANGED <<sent, history, server, replies>>
  /\ UNCHANGED <<binding, got>>

\* What is pushed is the binding as it is now.
Sync(r) ==
  /\ Start(r, "user")
  /\ sent' = [sent EXCEPT ![r] = profile]
  /\ Send(r, "user")
  /\ UNCHANGED <<binding, got>>

Rotate(r) ==
  /\ Start(r, "rotate")
  /\ Send(r, "rotate")
  /\ UNCHANGED <<binding, sent, got>>

Repair(r) ==
  /\ Start(r, "state")
  /\ UNCHANGED <<binding, sent, got, server, replies>>

-----------------------------------------------------------------------------
(* Calls and their answers. *)

\* mark_failure writes the status alone.
MarkFailure(s) == status' = s /\ UNCHANGED <<profile, token>>

(* A failed call.  The user form is shown again with the error, and writes *)
(* nothing: the server may have been changed by then.                      *)
Fail(r) ==
  \/ /\ r \in Saves
     /\ Finish(r)
     /\ doubt' = doubt \cup {"profile"}
     /\ UNCHANGED binding
  \/ /\ r \notin Saves
     /\ Finish(r)
     /\ MarkFailure(IF r \in Repairs THEN "repair_required" ELSE "sync_failed")
     /\ UNCHANGED doubt

Waits(r, verb) == pc[r] = verb /\ <<r, verb>> \in Calls
Replied(r, verb) == Waits(r, verb) /\ answer[<<r, verb>>] = "ok"

\* Refused, or no answer within the timeout, whether or not the call was carried out.
CallFails(r) ==
  /\ \E verb \in {"user", "scopes", "rotate"} : Waits(r, verb)
  /\ Fail(r)
  /\ UNCHANGED <<sent, server>>

UserPushed(r) ==
  /\ Replied(r, "user")
  /\ pc' = [pc EXCEPT ![r] = "scopes"]
  /\ Send(r, "scopes")
  /\ UNCHANGED <<binding, sent, got, history>>

ScopesPushed(r) ==
  /\ Replied(r, "scopes")
  /\ pc' = [pc EXCEPT ![r] = "state"]
  /\ UNCHANGED <<binding, sent, got, history, server, replies>>

\* Mutant: the token is the one the account was created with.
FetchMutant(r) ==
  /\ pc[r] = "state"
  /\ got' = [got EXCEPT ![r] = [profile |-> account, token |-> 0, status |-> "synced"]]
  /\ pc' = [pc EXCEPT ![r] = "write"]
  /\ UNCHANGED <<binding, sent, history, server, replies>>

\* GET sync-state, the last call of a push and the only one of a repair.
Fetch(r) ==
  /\ pc[r] = "state"
  /\ got' = [got EXCEPT ![r] = [profile |-> account, token |-> current, status |-> "synced"]]
  /\ pc' = [pc EXCEPT ![r] = "write"]
  /\ UNCHANGED <<binding, sent, history, server, replies>>

FetchFails(r) ==
  /\ pc[r] = "state"
  /\ Fail(r)
  /\ UNCHANGED <<sent, server>>

\* Mutant: the new token is not saved with the status.
RotatedMutant(r) ==
  /\ Replied(r, "rotate")
  /\ status' = "synced"
  /\ Finish(r)
  /\ Settle(r, {"token"})
  /\ UNCHANGED <<profile, token, sent, server>>

\* apply_rotated_token writes token and status, nothing else.
Rotated(r) ==
  /\ Replied(r, "rotate")
  /\ token' = issued[r]
  /\ status' = "synced"
  /\ Finish(r)
  /\ Settle(r, {"token"})
  /\ UNCHANGED <<profile, sent, server>>

-----------------------------------------------------------------------------
(* Writing the binding. *)

\* Mutant: the role that was pushed is not written.
WriteMutant(r) ==
  /\ pc[r] = "write"
  /\ profile' = [got[r].profile EXCEPT !.role = profile.role]
  /\ token' = got[r].token
  /\ status' = "synced"
  /\ Finish(r)
  /\ Settle(r, {"token", "profile"})
  /\ UNCHANGED <<sent, server>>

\* Mutant: outside a transaction, the save stops after its first half.
WriteHalf(r) ==
  /\ pc[r] = "write"
  /\ profile' = IF r \in Pushers THEN sent[r] ELSE got[r].profile
  /\ status' = "pending"
  /\ Finish(r)
  /\ UNCHANGED <<token, doubt, sent, server>>

(* apply_prepared_state keeps the role it pushed and takes the rest from   *)
(* the sync-state; repair_binding_from_remote takes everything from it.    *)
Write(r) ==
  /\ pc[r] = "write"
  /\ profile' = IF r \in Pushers THEN [got[r].profile EXCEPT !.role = sent[r].role]
                ELSE got[r].profile
  /\ token' = got[r].token
  /\ status' = "synced"
  /\ Finish(r)
  /\ Settle(r, {"token", "profile"})
  /\ UNCHANGED <<sent, server>>

\* The form turns out to be invalid (a username that is taken, a bad email) once clean()
\* has changed the account.
FormRejected(r) ==
  /\ r \in Saves /\ pc[r] = "write"
  /\ Finish(r)
  /\ doubt' = doubt \cup {"profile"}
  /\ UNCHANGED <<binding, sent, server>>

(* A database error.  save_model marks the binding and raises; the admin   *)
(* site runs it in a transaction, which takes the mark back as well.       *)
WriteFails(r) ==
  /\ pc[r] = "write" \/ Replied(r, "rotate")
  /\ IF r \in Saves
     THEN Finish(r) /\ doubt' = doubt \cup {"profile"} /\ UNCHANGED binding
     ELSE Finish(r) /\ MarkFailure("repair_required") /\ UNCHANGED doubt
  /\ UNCHANGED <<sent, server>>

-----------------------------------------------------------------------------
(* The form of the binding itself, and the bulk mark. *)

Open(r) ==
  /\ Start(r, "form")
  /\ got' = [got EXCEPT ![r] = [profile |-> profile, token |-> token, status |-> status]]
  /\ UNCHANGED <<binding, sent, server, replies>>

(* Every field is written back as the form shows it, but for what the      *)
(* administrator changed: the token, which gets its true value, or the     *)
(* profile.  A token that is not the row's any more counts as a change.    *)
Post(r) ==
  /\ pc[r] = "form"
  /\ \E t \in {got[r].token, current}, p \in Profiles :
       /\ profile' = p
       /\ token' = t
       /\ status' = IF t # token THEN "manual_override" ELSE got[r].status
       /\ doubt' = IF p = got[r].profile THEN doubt ELSE doubt \cup {"profile"}
  /\ Finish(r)
  /\ UNCHANGED <<sent, server>>

MarkForRepair ==
  /\ MarkFailure("repair_required")
  /\ UNCHANGED <<server, replies, web, history>>

-----------------------------------------------------------------------------
(* The server, external: one transaction per call.  A call that gets lost stays in wire. *)

\* History: a call of a client that gave up leaves no flag in the binding, and races with
\* whatever runs.
Handled(r, verb) ==
  /\ <<r, verb>> \in wire
  /\ wire' = wire \ {<<r, verb>>}
  /\ IF pc[r] = verb
     THEN answer' = [answer EXCEPT ![<<r, verb>>] = "ok"] /\ UNCHANGED history
     ELSE /\ doubt' = {"token", "profile"}
          /\ raced' = raced \cup Running
          /\ UNCHANGED answer
  /\ UNCHANGED <<binding, web>>

PushUser(r) ==
  /\ Handled(r, "user")
  /\ account' = [sent[r] EXCEPT !.scopes = account.scopes]
  /\ UNCHANGED <<current, issued>>

PushScopes(r) ==
  /\ Handled(r, "scopes")
  /\ account' = [account EXCEPT !.scopes = sent[r].scopes]
  /\ UNCHANGED <<current, issued>>

RotateToken(r) ==
  /\ Handled(r, "rotate")
  /\ current' = current + 1
  /\ issued' = IF pc[r] = "rotate" THEN [issued EXCEPT ![r] = current + 1] ELSE issued
  /\ UNCHANGED account

\* 404, 409, 422 or 5xx: the call has no effect.
Refuse(c) ==
  /\ c \in wire
  /\ wire' = wire \ {c}
  /\ UNCHANGED <<binding, account, current, replies, web, history>>

-----------------------------------------------------------------------------
Admin(r) ==
  \/ CallFails(r) \/ UserPushed(r) \/ ScopesPushed(r)
  \/ Fetch(r) \/ FetchFails(r) \/ Rotated(r)
  \/ Write(r) \/ FormRejected(r) \/ WriteFails(r)

Next ==
  \/ \E r \in Saves : Save(r)
  \/ \E r \in Syncs : Sync(r)
  \/ \E r \in Rotates : Rotate(r) \/ RotateToken(r)
  \/ \E r \in Repairs : Repair(r)
  \/ \E r \in Forms : Open(r) \/ Post(r)
  \/ \E r \in Pushers : PushUser(r) \/ PushScopes(r)
  \/ \E r \in Requests : Admin(r)
  \/ \E c \in Calls : Refuse(c)
  \/ MarkForRepair

Spec == Init /\ [][Next]_vars

-----------------------------------------------------------------------------
(* Properties.  Nothing of the binding is in doubt once a save, a sync or  *)
(* a repair ran alone to the end, until requests overlap, a call is        *)
(* carried out after its client gave up, a user form fails after it called *)
(* the server, or a profile is edited in the form of the binding.          *)

\* What manage.py repair_sync_users --all-failed picks.
AllFailed == {"sync_failed", "repair_required", "manual_override"}

\* A binding whose token is not the server's is found by the repair command: no rotation
\* that one administrator makes alone is lost without a trace, whatever fails.
WrongTokenIsFlagged ==
  Running = {} /\ "token" \notin doubt /\ token # current => status \in AllFailed

\* Whatever put role and warehouses in doubt, a save, sync or repair that then runs alone
\* makes both sides alike, and they stay so: a push that fails half-way, a rotation, a flag
\* or a form of the binding that changes neither does not part them.
SettledProfileIsExact ==
  Running = {} /\ "profile" \notin doubt => profile = account

\* A binding gets an older token than it had only from a request that another overtook.
TokenGoesBackOnlyByRace ==
  [][token' < token => \E r \in raced : pc[r] # pc'[r]]_vars

\* ARCHITECTURE.md:125-134: the flow of the user form goes from the two pushes to the
\* local binding.  So what the server took over from a form is in the binding once the
\* form is done, or the binding is flagged.
PushIsRecorded ==
  \A r \in Saves : pc[r] = "done" /\ sent[r] # None /\ account = sent[r]
    => profile = account \/ status \in AllFailed
=============================================================================
