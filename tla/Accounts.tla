------------------------------ MODULE Accounts ------------------------------
(***************************************************************************)
(* Who may call the server: sessions, the copy of the sites, devices and   *)
(* new users.  The four share no state, so a behaviour shows the steps of  *)
(* one of them, the scene; the others stay in one initial state.           *)
(***************************************************************************)
EXTENDS Session, SiteMirror, DeviceBinding, UserCreation

VARIABLE scene

accountsVars == <<sessionVars, siteVars, deviceVars, creationVars, scene>>

Scenes == {"session", "sites", "devices", "creation"}

AccountsTypeOK ==
  SessionTypeOK /\ SiteTypeOK /\ DeviceTypeOK /\ CreationTypeOK /\ scene \in Scenes

AccountsInit ==
  /\ scene \in Scenes
  /\ scene # "session" =>
       accounts = CHOOSE a \in FirstAccounts : \A o, q \in Owners : a[o].home = a[q].home
  /\ SessionInit /\ SiteInit /\ DeviceInit /\ CreationInit
  /\ scene # "session" => bindings = [u \in People |-> Recorded(u)] /\ textIds
  /\ scene # "session" => setting = CHOOSE s \in Settings : TRUE
  /\ scene # "devices" => row = NoDevice

AccountsNext ==
  \/ scene = "session" /\ SessionNext /\ UNCHANGED <<siteVars, deviceVars, creationVars, scene>>
  \/ scene = "sites" /\ SiteNext /\ UNCHANGED <<sessionVars, deviceVars, creationVars, scene>>
  \/ scene = "devices" /\ DeviceNext /\ UNCHANGED <<sessionVars, siteVars, creationVars, scene>>
  \/ scene = "creation" /\ CreationNext /\ UNCHANGED <<sessionVars, siteVars, deviceVars, scene>>

AccountsSpec == AccountsInit /\ [][AccountsNext]_accountsVars
=============================================================================
