------------------------------- MODULE Session ------------------------------
(***************************************************************************)
(* Who a browser session acts as on SyncServer, and at which site.         *)
(*                                                                         *)
(* A login asks the server for the context of the user and keeps it in the *)
(* session (store_syncserver_identity); a call takes its token and site    *)
(* from the binding of the user, that copy and the settings                *)
(* (SyncServerClient.build_headers, SyncContextMixin.dispatch), and a few  *)
(* readings are made as root whoever asks.  Meanwhile administrators       *)
(* rotate tokens and move users on the server, and record it in the        *)
(* binding later.                                                          *)
(*                                                                         *)
(* One browser.  Several share nothing but bindings and accounts.          *)
(***************************************************************************)
EXTENDS Naturals

CONSTANTS
  People,      \* users with an account and a binding
  Superusers,  \* users that act with the root token of the settings
  Root,        \* the account of the root token
  Nobody,      \* no user
  Warehouses,  \* sites
  NoSite,
  NoneText,    \* the text that str() makes of a default site that is not there
  Settings,    \* values of SYNC_DEFAULT_ACTING_SITE_ID
  None,        \* no token, identity or session
  MaxMoves     \* bound: changes of administrators

ASSUME SessionAssumption ==
  /\ People \cap Superusers = {} /\ Root \notin People /\ Nobody \notin People \cup Superusers
  /\ {NoSite, NoneText} \cap Warehouses = {} /\ NoSite # NoneText
  /\ Settings \subseteq Warehouses \cup {NoSite} /\ Settings # {}
  /\ MaxMoves \in Nat

VARIABLES
  browser,   \* the session of the browser's cookie: user and identity
  entering,  \* the session a login is filling; the cookie is set by its answer
  accounts,  \* server: version of the token, sites and default site of an account
  bindings,  \* SyncUserBinding: token and default site
  textIds,   \* whether the server names sites by text, or by number
  setting,   \* SYNC_DEFAULT_ACTING_SITE_ID of this installation
  moves,     \* changes of administrators so far
  outdated   \* history: sites of the account changed since the identity was stored

sessionVars == <<browser, entering, accounts, bindings, textIds, setting, moves, outdated>>

Owners == People \cup {Root}
Tokens == [of : Owners, n : 0 .. MaxMoves]

Homes == Warehouses \cup {NoSite}

ASSUME NoneAssumption == None \notin Tokens

Identities == [of : Owners, token : Tokens, sites : SUBSET Warehouses, site : Homes]
Sessions == [user : People \cup Superusers \cup {Nobody}, identity : Identities \cup {None}]

SessionTypeOK ==
  /\ browser \in Sessions
  /\ entering \in Sessions \cup {None}
  /\ accounts \in [Owners -> [n : 0 .. MaxMoves, sites : SUBSET Warehouses, home : Homes]]
  /\ bindings \in [People -> [token : Tokens \cup {None}, home : Homes \cup {NoneText}]]
  /\ textIds \in BOOLEAN /\ outdated \in BOOLEAN
  /\ setting \in Settings
  /\ moves \in 0 .. MaxMoves

Anonymous == [user |-> Nobody, identity |-> None]
Token(o) == [of |-> o, n |-> accounts[o].n]
Account(u) == IF u \in Superusers THEN Root ELSE u

\* str(remote_user.get("default_site_id", ...)): a site that is null becomes a text.
Recorded(u) ==
  [token |-> Token(u),
   home |-> IF accounts[u].home = NoSite THEN NoneText ELSE accounts[u].home]

FirstAccounts ==
  {[o \in Owners |->
     [n |-> 0,
      sites |-> IF o = Root THEN Warehouses ELSE (more \cup {home[o]}) \ {NoSite},
      home |-> home[o]]] :
   home \in [Owners -> Homes], more \in SUBSET Warehouses}

\* A user whose binding has no token was created by other means than the user form.
SessionInit ==
  /\ browser = Anonymous
  /\ entering = None
  /\ accounts \in FirstAccounts
  /\ \E bare \in SUBSET People :
       bindings = [u \in People |->
         IF u \in bare THEN [token |-> None, home |-> NoSite] ELSE Recorded(u)]
  /\ textIds \in BOOLEAN
  /\ setting \in Settings
  /\ moves = 0
  /\ outdated = FALSE

-----------------------------------------------------------------------------
(* Login and logout. *)

\* Mutant: what is in the session stays, whoever logs in.
EnterMutant(u) ==
  /\ entering = None
  /\ entering' = [user |-> u, identity |-> browser.identity]
  /\ browser' = Anonymous
  /\ UNCHANGED <<accounts, bindings, textIds, moves, outdated>>

(* Django's login keeps the session, and its key, of the user who is       *)
(* logged in already; another's is flushed, and an anonymous one moves to  *)
(* a new key, which the browser gets with the answer.  The request fills   *)
(* its own copy of the session, which is saved as a whole at its end.      *)
Enter(u) ==
  LET same == browser.user = u
  IN  /\ entering = None
      /\ entering' = [user |-> u, identity |-> IF same THEN browser.identity ELSE None]
      /\ browser' = IF same THEN browser ELSE Anonymous
      /\ outdated' = (outdated /\ same)
      /\ UNCHANGED <<accounts, bindings, textIds, moves>>

\* SyncClient._get_headers: the session's own token before root's or the binding's.
ContextToken(s) ==
  IF s.identity # None THEN s.identity.token
  ELSE IF s.user \in Superusers THEN Token(Root)
  ELSE bindings[s.user].token

(* The signal handler: the server answers with the account of the token,   *)
(* and the token that is stored is in the end the one it was asked with.   *)
Context ==
  /\ entering # None
  /\ \E o \in Owners :
       /\ ContextToken(entering) = Token(o)
       /\ browser' = [entering EXCEPT !.identity =
            [of |-> o, token |-> Token(o), sites |-> accounts[o].sites, site |-> accounts[o].home]]
  /\ entering' = None
  /\ outdated' = FALSE
  /\ UNCHANGED <<accounts, bindings, textIds, moves>>

\* Refused, or no answer: logged in with the identity the session had, if any.
ContextFails ==
  /\ entering # None
  /\ browser' = entering
  /\ entering' = None
  /\ UNCHANGED <<accounts, bindings, textIds, moves, outdated>>

\* The browser never gets the answer of the login, nor the key of the new session.
Abandon ==
  /\ entering # None /\ browser = Anonymous
  /\ entering' = None
  /\ outdated' = FALSE
  /\ UNCHANGED <<browser, accounts, bindings, textIds, moves>>

\* The page logout, which a refresh of the identity redirects to.  It flushes the session:
\* a login that is filling it has nothing to save it to, and fails.
Logout ==
  /\ browser.user # Nobody
  /\ browser' = Anonymous
  /\ entering' = None
  /\ outdated' = FALSE
  /\ UNCHANGED <<accounts, bindings, textIds, moves>>

-----------------------------------------------------------------------------
(* Choosing a site. *)

\* Mutant: any site the form names is taken.
SwitchMutant(s) ==
  /\ browser.identity # None
  /\ browser' = [browser EXCEPT !.identity.site = s]
  /\ UNCHANGED <<entering, accounts, bindings, textIds, moves, outdated>>

\* has_site_access compares the text of the form with the ids as the server sent them.
HasSiteAccess(identity, s) == textIds /\ s \in identity.sites

UpdateSite(s) ==
  /\ HasSiteAccess(browser.identity, s)
  /\ browser' = [browser EXCEPT !.identity.site = s]

\* The form of sync_site_switch; a site that is refused changes nothing.
Switch(s) ==
  /\ browser.identity # None
  /\ UpdateSite(s)
  /\ UNCHANGED <<entering, accounts, bindings, textIds, moves, outdated>>

-----------------------------------------------------------------------------
(* What a call of the pages sends: X-User-Token and X-Site-Id. *)

(* force_root: get_all_sites and the pages of the balances read all sites  *)
(* there are, and the health check a list, as root, whoever is logged in.  *)
(* Every other call of a page is not forced.                               *)
CallToken(s, forced) ==
  IF forced \/ s.user \in Superusers THEN Token(Root)
  ELSE IF bindings[s.user].token # None THEN bindings[s.user].token
  ELSE IF s.identity # None THEN s.identity.token
  ELSE Token(Root)

Or(site, other) == IF site # NoSite THEN site ELSE other

SessionSite(s) == IF s.identity = None THEN NoSite ELSE s.identity.site
BindingSite(s) == IF s.user \in Superusers THEN NoSite ELSE bindings[s.user].home

\* The settings come before the binding.
CallSite(s) == Or(SessionSite(s), Or(setting, BindingSite(s)))

\* On the pages of the catalogue the binding comes before the settings.
CatalogSite(s) == Or(SessionSite(s), Or(BindingSite(s), setting))

-----------------------------------------------------------------------------
(* Administrators: a change on the server, recorded in the binding later. *)

Moved == moves < MaxMoves /\ moves' = moves + 1

RotateAccount(u) ==
  /\ Moved
  /\ accounts' = [accounts EXCEPT ![u].n = @ + 1]
  /\ UNCHANGED <<browser, entering, bindings, textIds, outdated>>

\* The user form gives an account one site.
Reassign(u, s) ==
  /\ Moved
  /\ accounts' = [accounts EXCEPT ![u].sites = {s}, ![u].home = s]
  /\ outdated' = (outdated \/ u \in {browser.user} \cup (IF entering = None THEN {} ELSE {entering.user}))
  /\ UNCHANGED <<browser, entering, bindings, textIds>>

\* A save of the user form, a sync or a repair records the whole account.
Record(u) ==
  /\ bindings' = [bindings EXCEPT ![u] = Recorded(u)]
  /\ UNCHANGED <<browser, entering, accounts, textIds, moves, outdated>>

\* A rotation records the token.
RecordToken(u) ==
  /\ bindings' = [bindings EXCEPT ![u].token = Token(u)]
  /\ UNCHANGED <<browser, entering, accounts, textIds, moves, outdated>>

-----------------------------------------------------------------------------
SessionNext ==
  /\ UNCHANGED setting
  /\ \/ \E u \in People \cup Superusers : Enter(u)
     \/ Context \/ ContextFails \/ Abandon \/ Logout
     \/ \E s \in Warehouses : Switch(s)
     \/ \E u \in People : RotateAccount(u) \/ Record(u) \/ RecordToken(u)
     \/ \E u \in People, s \in Warehouses : Reassign(u, s)

-----------------------------------------------------------------------------
(* Properties. *)

\* The identity in a session is its user's and never that of who used the browser before;
\* a call that is not forced acts as its user, or as root for a user known neither by
\* binding nor by session; a forced one as root, and no call as any other user.
CallerIsUser ==
  \A s \in {browser, entering} \ {None, Anonymous} :
    /\ s.identity # None => s.identity.of = Account(s.user)
    /\ \A forced \in BOOLEAN :
         \/ CallToken(s, forced).of = Account(s.user)
         \/ /\ CallToken(s, forced) = Token(Root)
            /\ forced \/ (bindings[s.user].token = None /\ s.identity = None)

\* A call names a site its user has no access to only if the account was moved after the
\* identity was stored; and, when the session has no site, if the settings say so or the
\* binding does not name the home of the account.
SiteOutsideScopeOnlyByChange ==
  LET u == browser.user
  IN  u \in People =>
        \A site \in {CallSite(browser), CatalogSite(browser)} :
          site \notin accounts[u].sites \cup {NoSite} =>
            IF SessionSite(browser) # NoSite THEN outdated
            ELSE setting # NoSite \/ bindings[u].home # accounts[u].home
=============================================================================
