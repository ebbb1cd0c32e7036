---------------------------- MODULE DeviceBinding ---------------------------
(***************************************************************************)
(* A device and its account on SyncServer: the form of SyncDeviceBinding,  *)
(* which creates or updates both in one request, and the buttons sync,     *)
(* rotate token, repair and the bulk actions.  The form runs in a          *)
(* transaction that takes the local half back when anything fails; the     *)
(* server keeps its half.  The buttons load the row, call, and save it.    *)
(*                                                                         *)
(* One device code.  "name" stands for name and activity of the device.    *)
(***************************************************************************)
EXTENDS Naturals, FiniteSets

CONSTANTS
  First,           \* the account of a device that exists at first
  DeviceAdds,      \* POSTs of the form of a new device; also names of their accounts
  DeviceForms,     \* POSTs of the form of the device
  DeviceSyncs, DeviceRotates, DeviceRepairs,  \* presses of the buttons
  DeviceNames,
  NoDevice,        \* no row, no account, nothing read
  MaxCalling       \* bound: requests that call

\* A request has one kind.
ASSUME DeviceBindingAssumption ==
  /\ MaxCalling \in Nat /\ First \notin DeviceAdds
  /\ DeviceAdds \cap (DeviceForms \cup DeviceSyncs \cup DeviceRotates \cup DeviceRepairs) = {}
  /\ DeviceForms \cap (DeviceSyncs \cup DeviceRotates \cup DeviceRepairs) = {}
  /\ DeviceSyncs \cap (DeviceRotates \cup DeviceRepairs) = {}
  /\ DeviceRotates \cap DeviceRepairs = {}

DevicePushers == DeviceForms \cup DeviceSyncs
DeviceRequests == DeviceAdds \cup DevicePushers \cup DeviceRotates \cup DeviceRepairs
DeviceIds == DeviceAdds \cup {First}

VARIABLES
  row,       \* SyncDeviceBinding, or NoDevice
  devices,   \* server: name and token of the accounts; tokens count the rotations
  post,      \* calls the server has yet to handle
  reply,     \* reply[r]: the account in the answer to r
  step,      \* step[r]: where request r is
  read,      \* read[r]: the row as r loaded it, with the name it pushes
  failed,    \* failed[r]: the request ended with an error
  crossed,   \* history: requests that ran beside another, or beside a late call
  suspect    \* history: what may differ between the row and the account

deviceVars == <<row, devices, post, reply, step, read, failed, crossed, suspect>>

Accounts == [name : DeviceNames, token : Nat]
DeviceRows == [id : DeviceIds, name : DeviceNames, token : Nat,
               status : {"synced", "sync_failed", "repair_required"}]

ASSUME NoDeviceAssumption == NoDevice \notin Accounts \cup DeviceRows

DeviceTypeOK ==
  /\ row \in DeviceRows \cup {NoDevice}
  /\ devices \in [DeviceIds -> Accounts \cup {NoDevice}]
  /\ row # NoDevice => devices[row.id] # NoDevice
  /\ post \subseteq DeviceRequests
  /\ reply \in [DeviceRequests -> Accounts \cup {NoDevice}]
  /\ step \in [DeviceRequests -> {"new", "load", "call", "done"}]
  /\ read \in [DeviceRequests -> DeviceRows \cup {NoDevice}]
  /\ failed \subseteq DeviceRequests
  /\ crossed \subseteq DeviceRequests
  /\ suspect \subseteq {"name", "token"}

DeviceInit ==
  /\ \/ row = NoDevice
     \/ \E n \in DeviceNames : row = [id |-> First, name |-> n, token |-> 0, status |-> "synced"]
  /\ devices = [i \in DeviceIds |->
       IF row # NoDevice /\ i = First THEN [name |-> row.name, token |-> 0] ELSE NoDevice]
  /\ post = {}
  /\ reply = [r \in DeviceRequests |-> NoDevice]
  /\ step = [r \in DeviceRequests |-> "new"]
  /\ read = [r \in DeviceRequests |-> NoDevice]
  /\ failed = {}
  /\ crossed = {}
  /\ suspect = {}

\* Requests that have loaded the row, and call or are about to.
Calling == {r \in DeviceRequests : step[r] \in {"load", "call"}}

\* Request r loads the row.  History: requests that overlap leave doubt.
Loads(r, loaded, stage) ==
  /\ step[r] = "new" /\ Cardinality({q \in DeviceRequests : step[q] # "new"}) < MaxCalling
  /\ step' = [step EXCEPT ![r] = stage]
  /\ read' = [read EXCEPT ![r] = loaded]
  /\ IF Calling = {} THEN UNCHANGED <<crossed, suspect>>
     ELSE crossed' = crossed \cup Calling \cup {r} /\ suspect' = {"name", "token"}
  /\ UNCHANGED <<row, devices, reply, failed>>

Calls(r, loaded) == Loads(r, loaded, "call") /\ post' = post \cup {r}

Leaves(r) ==
  /\ UNCHANGED crossed
  /\ step' = [step EXCEPT ![r] = "done"]
  /\ read' = [read EXCEPT ![r] = NoDevice]
  /\ reply' = [reply EXCEPT ![r] = NoDevice]
  /\ UNCHANGED <<devices, post>>

\* The transaction of a form holds the row it has saved.
Held(r) == \E f \in (DeviceAdds \cup DeviceForms) \ {r} : step[f] = "call"

\* History: a request that ran alone settles what was in doubt about "fields".
Settled(r, fields) == IF r \in crossed THEN suspect ELSE suspect \ fields

-----------------------------------------------------------------------------
(* Starting. *)

\* Mutant: the call comes before the insert.
AddMutant(r) ==
  /\ row = NoDevice
  /\ \E n \in DeviceNames :
       Calls(r, [id |-> r, name |-> n, token |-> 0, status |-> "synced"])

\* SyncDeviceBindingAdmin.save_model: the insert comes before the call.
Add(r) ==
  /\ row = NoDevice /\ ~Held(r)
  /\ \E n \in DeviceNames :
       Calls(r, [id |-> r, name |-> n, token |-> 0, status |-> "synced"])

\* The code is taken, by the form's check or by the constraint of the table: no call.
AddRefused(r) ==
  /\ step[r] = "new" /\ row # NoDevice
  /\ failed' = failed \cup {r}
  /\ Leaves(r)
  /\ UNCHANGED <<row, suspect>>

\* The admin site loads the row without a lock and fills the form with the new name.
LoadRow(r) ==
  /\ row # NoDevice
  /\ \E n \in DeviceNames : Loads(r, [row EXCEPT !.name = n], "load")
  /\ UNCHANGED post

\* The form says no to what was entered: no call.
ChangeRefused(r) ==
  /\ step[r] = "load"
  /\ failed' = failed \cup {r}
  /\ Leaves(r)
  /\ UNCHANGED <<row, suspect>>

\* The update locks the row, stale or not, and the call follows.
Change(r) ==
  /\ step[r] = "load" /\ ~Held(r)
  /\ step' = [step EXCEPT ![r] = "call"]
  /\ post' = post \cup {r}
  /\ UNCHANGED <<row, devices, reply, read, failed, crossed, suspect>>

Press(r) == row # NoDevice /\ Calls(r, row)

-----------------------------------------------------------------------------
(* The server, external: one transaction per call; "late" when nobody waits any more. *)

Answered(r, account) ==
  /\ r \in post
  /\ post' = post \ {r}
  /\ IF step[r] = "call"
     THEN reply' = [reply EXCEPT ![r] = account] /\ UNCHANGED <<crossed, suspect>>
     ELSE /\ suspect' = {"name", "token"}
          /\ crossed' = crossed \cup Calling
          /\ UNCHANGED reply
  /\ UNCHANGED <<row, step, read, failed>>

CreateDevice(r) ==
  \E n \in IF step[r] = "call" THEN {read[r].name} ELSE DeviceNames :
    /\ Answered(r, [name |-> n, token |-> 0])
    /\ devices' = [devices EXCEPT ![r] = [name |-> n, token |-> 0]]

UpdateDevice(r) ==
  \E i \in IF step[r] = "call" THEN {read[r].id} ELSE DeviceIds :
    /\ devices[i] # NoDevice
    /\ \E n \in IF step[r] = "call" THEN {read[r].name} ELSE DeviceNames :
         /\ devices' = [devices EXCEPT ![i].name = n]
         /\ Answered(r, devices'[i])

RotateDevice(r) ==
  \E i \in IF step[r] = "call" THEN {read[r].id} ELSE DeviceIds :
    /\ devices[i] # NoDevice
    /\ devices' = [devices EXCEPT ![i].token = @ + 1]
    /\ Answered(r, devices'[i])

ShowDevice(r) ==
  /\ step[r] = "call"
  /\ Answered(r, devices[read[r].id])
  /\ UNCHANGED devices

\* An error answer, or a call that is never handled.
DropCall(r) ==
  /\ r \in post
  /\ post' = post \ {r}
  /\ UNCHANGED <<row, devices, reply, step, read, failed, crossed, suspect>>

-----------------------------------------------------------------------------
(* Ending. *)

\* create_binding stores account and token; the transaction commits.
Added(r) ==
  /\ reply[r] # NoDevice
  /\ row' = [read[r] EXCEPT !.name = reply[r].name, !.token = reply[r].token]
  /\ Leaves(r)
  /\ UNCHANGED <<failed, suspect>>

\* Mutant: the loaded row is saved before the answer is applied to it.
PushedMutant(r) ==
  /\ reply[r] # NoDevice /\ ~Held(r)
  /\ row' = [row EXCEPT !.status = "synced"]
  /\ suspect' = Settled(r, {"name"})
  /\ Leaves(r)
  /\ UNCHANGED failed

(* apply_remote_state saves the whole row as it was loaded, with the name  *)
(* of the answer.  A sync, a form and a repair leave the token alone.      *)
Pushed(r) ==
  /\ reply[r] # NoDevice /\ ~Held(r)
  /\ row' = [read[r] EXCEPT !.name = reply[r].name, !.status = "synced"]
  /\ suspect' = Settled(r, {"name"})
  /\ Leaves(r)
  /\ UNCHANGED failed

\* apply_rotated_token saves token and status.
TokenRotated(r) ==
  /\ reply[r] # NoDevice /\ ~Held(r)
  /\ row' = [row EXCEPT !.token = reply[r].token, !.status = "synced"]
  /\ suspect' = Settled(r, {"token"})
  /\ Leaves(r)
  /\ UNCHANGED failed

\* What the server may have done is in doubt when its answer is not used.
Doubtful(r) ==
  IF r \in DeviceRotates THEN {"token"} ELSE IF r \in DevicePushers THEN {"name"} ELSE {}

\* Mutant: a form that fails keeps what it wrote.
FormTakenBackMutant(r) ==
  /\ step[r] = "call"
  /\ row' = read[r]
  /\ failed' = failed \cup {r}
  /\ suspect' = suspect \cup Doubtful(r)
  /\ Leaves(r)

(* Any failure of the form, the commit included: save_model marks the row  *)
(* and raises, and the transaction of the admin site takes all of it back. *)
FormTakenBack(r) ==
  /\ step[r] = "call"
  /\ failed' = failed \cup {r}
  /\ suspect' = suspect \cup Doubtful(r)
  /\ Leaves(r)
  /\ UNCHANGED row

\* Any failure of a button: mark_failure saves the status alone.
PressFails(r) ==
  /\ step[r] = "call" /\ ~Held(r)
  /\ \E s \in IF r \in DeviceRepairs THEN {"repair_required"} ELSE {"sync_failed", "repair_required"} :
       row' = [row EXCEPT !.status = s]
  /\ failed' = failed \cup {r}
  /\ suspect' = suspect \cup Doubtful(r)
  /\ Leaves(r)

MarkDevice ==
  /\ row # NoDevice /\ ~Held(NoDevice)
  /\ row' = [row EXCEPT !.status = "repair_required"]
  /\ UNCHANGED <<devices, post, reply, step, read, failed, crossed, suspect>>

-----------------------------------------------------------------------------
DeviceNext ==
  \/ \E r \in DeviceAdds : Add(r) \/ AddRefused(r) \/ CreateDevice(r) \/ Added(r)
  \/ \E r \in DeviceForms : LoadRow(r) \/ ChangeRefused(r) \/ Change(r)
  \/ \E r \in DeviceAdds \cup DeviceForms : FormTakenBack(r)
  \/ \E r \in DeviceRequests \ (DeviceAdds \cup DeviceForms) : Press(r) \/ PressFails(r)
  \/ \E r \in DevicePushers : UpdateDevice(r)
  \/ \E r \in DeviceRotates : RotateDevice(r) \/ TokenRotated(r)
  \/ \E r \in DeviceRepairs : ShowDevice(r)
  \/ \E r \in DevicePushers \cup DeviceRepairs : Pushed(r)
  \/ \E r \in DeviceRequests : DropCall(r)
  \/ MarkDevice

-----------------------------------------------------------------------------
(* Properties. *)

\* A request that ran alone to a good end leaves the row as the account is: its token after
\* a rotation, its name after a form, a sync or a repair.  So it stays until requests
\* overlap, one fails after it called, or a call is carried out late.
DeviceIsServers ==
  Calling = {} /\ row # NoDevice =>
    /\ "token" \notin suspect => row.token = devices[row.id].token
    /\ "name" \notin suspect => row.name = devices[row.id].name

\* An account without a row is left by a form that told its user it had failed, and only
\* one form creates the device.
OrphanDeviceOnlyByError ==
  \A r \in DeviceAdds :
    devices[r] # NoDevice /\ step[r] = "done" /\ r \notin failed => row # NoDevice /\ row.id = r
=============================================================================
