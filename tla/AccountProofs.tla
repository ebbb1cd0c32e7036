---------------------------- MODULE AccountProofs ----------------------------
(***************************************************************************)
(* Theorems about Accounts: who a call acts as and where, and what the     *)
(* rows of new users, devices and sites say, for any number of users,      *)
(* sites, requests and changes.                                            *)
(***************************************************************************)
EXTENDS Accounts, FiniteSetTheorems, FunctionTheorems, SequenceTheorems, TLAPS

-----------------------------------------------------------------------------
(* New users. *)

\* What an attempt has heard from the server is so, and stays so: the account is created
\* before its warehouse is given, and never again after.
CreationInv ==
  /\ CreationTypeOK
  /\ user # Nothing => phase[user] = "saved"
  /\ \A r \in Attempts :
       /\ phase[r] = "new" => /\ server[r] = "none"
                              /\ \A v \in {"user", "scopes"} : <<r, v>> \notin called
       /\ <<r, "user">> \in called => server[r] = "none"
       /\ <<r, "scopes">> \in good => server[r] = "whole"
       /\ phase[r] \in {"state", "save", "saved"} => <<r, "scopes">> \in good
       /\ phase[r] \in {"save", "saved"} => complete[r]
       /\ phase[r] = "saved" => user = r

LEMMA CreationInitial == CreationInit => CreationInv
BY DEF CreationInit, CreationInv, CreationTypeOK, Pushes

LEMMA CreationStep == CreationInv /\ [CreationNext]_creationVars => CreationInv'
<1> SUFFICES ASSUME CreationInv, [CreationNext]_creationVars
             PROVE  CreationInv'
  OBVIOUS
<1> USE CreationAssumption DEF CreationInv, CreationTypeOK, Pushes
<1>1. ASSUME NEW r \in Attempts, Submit(r)
      PROVE  CreationInv'
  BY <1>1 DEF Submit, To
<1>2. ASSUME NEW r \in Attempts, UserCreated(r)
      PROVE  CreationInv'
  BY <1>2 DEF UserCreated, To
<1>3. ASSUME NEW r \in Attempts, ScopesGiven(r)
      PROVE  CreationInv'
  BY <1>3 DEF ScopesGiven, To
<1>4. ASSUME NEW r \in Attempts, StateRead(r)
      PROVE  CreationInv'
  <2>1. server[r] = "whole"
    BY <1>4 DEF StateRead
  <2>2. QED
    BY <1>4, <2>1 DEF StateRead, To
<1>5. ASSUME NEW r \in Attempts, Created(r)
      PROVE  CreationInv'
  BY <1>5 DEF Created, To
<1>6. ASSUME NEW r \in Attempts, NotCreated(r) \/ CreationFails(r)
      PROVE  CreationInv'
  BY <1>6 DEF NotCreated, CreationFails, To
<1>7. ASSUME NEW r \in Attempts, CreateAccount(r)
      PROVE  CreationInv'
  BY <1>7 DEF CreateAccount, Handle
<1>8. ASSUME NEW r \in Attempts, GiveScopes(r)
      PROVE  CreationInv'
  BY <1>8 DEF GiveScopes, Handle
<1>9. ASSUME NEW c \in Pushes, RefuseCreation(c)
      PROVE  CreationInv'
  BY <1>9 DEF RefuseCreation
<1>10. CASE UNCHANGED creationVars
  BY <1>10 DEF creationVars
<1>11. QED
  BY <1>1, <1>2, <1>3, <1>4, <1>5, <1>6, <1>7, <1>8, <1>9, <1>10 DEF CreationNext

\* A user that is created is bound to an account that has its warehouse: however many
\* attempts overlap, and whatever calls are lost, refused or handled late.
THEOREM CreatedUsersAreWhole == AccountsSpec => []CreatedUserIsWhole
<1>1. AccountsInit => CreationInit
  BY DEF AccountsInit
<1>2. [AccountsNext]_accountsVars => [CreationNext]_creationVars
  BY DEF AccountsNext, accountsVars
<1>3. CreationInv => CreatedUserIsWhole
  BY CreationAssumption DEF CreationInv, CreationTypeOK, CreatedUserIsWhole
<1>4. QED
  BY <1>1, <1>2, <1>3, CreationInitial, CreationStep, PTL DEF AccountsSpec

-----------------------------------------------------------------------------
(* Sessions. *)

\* The sessions there are: the one of the cookie, and the one a login is filling.
Live(s) == s = browser \/ (entering # None /\ s = entering)

\* A token is kept with its owner: in a binding, and in the identity of a session.
SessionInv ==
  /\ browser \in Sessions
  /\ entering \in Sessions \cup {None}
  /\ entering # None => entering.user # Nobody
  /\ accounts \in [Owners -> [n : 0 .. MaxMoves, sites : SUBSET Warehouses, home : Homes]]
  /\ bindings \in [People -> [token : Tokens \cup {None}, home : Homes \cup {NoneText}]]
  /\ moves \in 0 .. MaxMoves /\ setting \in Settings
  /\ \A o \in Owners : accounts[o].n <= moves
  /\ \A u \in People : bindings[u].token # None => bindings[u].token.of = u
  /\ \A s \in Sessions : Live(s) =>
       /\ s.user = Nobody => s.identity = None
       /\ s.identity # None => /\ s.identity.of = Account(s.user)
                               /\ s.identity.token.of = Account(s.user)

\* The token an account has now is one of its own.
LEMMA TokenType ==
  ASSUME SessionInv, NEW o \in Owners
  PROVE  Token(o) \in Tokens /\ Token(o).of = o /\ Token(o) # None
BY NoneAssumption DEF SessionInv, Token, Tokens

LEMMA AccountType == \A u \in People \cup Superusers : Account(u) \in Owners
BY DEF Account, Owners

FirstOf(home, more) ==
  [o \in Owners |->
     [n |-> 0,
      sites |-> IF o = Root THEN Warehouses ELSE (more \cup {home[o]}) \ {NoSite},
      home |-> home[o]]]

LEMMA AccountsAtFirst ==
  ASSUME SessionInit
  PROVE  \E home \in [Owners -> Homes], more \in SUBSET Warehouses :
           accounts = FirstOf(home, more)
<1>1. FirstAccounts = {FirstOf(home, more) :
                         home \in [Owners -> Homes], more \in SUBSET Warehouses}
  BY SMT DEF FirstAccounts, FirstOf
<1>2. QED
  BY <1>1 DEF SessionInit

LEMMA SessionInitial == SessionInit => SessionInv
<1> SUFFICES ASSUME SessionInit
             PROVE  SessionInv
  OBVIOUS
<1>1. /\ accounts \in [Owners -> [n : 0 .. MaxMoves, sites : SUBSET Warehouses, home : Homes]]
      /\ \A o \in Owners : accounts[o].n = 0
  <2>1. PICK home \in [Owners -> Homes], more \in SUBSET Warehouses :
          accounts = FirstOf(home, more)
    BY AccountsAtFirst
  <2>2. QED
    BY <2>1, SessionAssumption DEF FirstOf, Homes
<1>2. \A u \in People : /\ Recorded(u) \in [token : Tokens, home : Homes \cup {NoneText}]
                        /\ Recorded(u).token.of = u
  BY <1>1, SessionAssumption DEF Recorded, Token, Tokens, Owners, Homes
<1>3. /\ bindings \in [People -> [token : Tokens \cup {None}, home : Homes \cup {NoneText}]]
      /\ \A u \in People : bindings[u].token # None => bindings[u].token.of = u
  <2>1. PICK bare \in SUBSET People :
          bindings = [u \in People |->
            IF u \in bare THEN [token |-> None, home |-> NoSite] ELSE Recorded(u)]
    BY DEF SessionInit
  <2>2. QED
    BY <1>2, <2>1 DEF Homes
<1>4. browser \in Sessions /\ browser.identity = None /\ entering = None
  BY DEF SessionInit, Anonymous, Sessions
<1>5. moves = 0 /\ moves \in 0 .. MaxMoves /\ setting \in Settings
  BY SessionAssumption DEF SessionInit
<1>6. QED
  BY <1>1, <1>3, <1>4, <1>5 DEF SessionInv, Live

LEMMA SessionStep == SessionInv /\ [SessionNext]_sessionVars => SessionInv'
<1> SUFFICES ASSUME SessionInv, [SessionNext]_sessionVars
             PROVE  SessionInv'
  OBVIOUS
\* Steps that change neither accounts nor bindings: what they write into a session.
<1>s. UNCHANGED setting
  BY DEF SessionNext, sessionVars
<1>1. ASSUME UNCHANGED <<accounts, bindings, moves>>,
             browser' \in Sessions, entering' \in Sessions \cup {None},
             entering' # None => entering'.user # Nobody,
             \A s \in Sessions : Live(s)' =>
               \/ Live(s)
               \/ /\ s.user = Nobody => s.identity = None
                  /\ s.identity # None => /\ s.identity.of = Account(s.user)
                                          /\ s.identity.token.of = Account(s.user)
      PROVE  SessionInv'
  BY <1>s, <1>1 DEF SessionInv
<1>2. Anonymous \in Sessions /\ Anonymous.identity = None
  BY DEF Anonymous, Sessions
<1>3. ASSUME NEW u \in People \cup Superusers, Enter(u)
      PROVE  SessionInv'
  <2> DEFINE t == [user |-> u, identity |-> IF browser.user = u THEN browser.identity ELSE None]
  <2>1. /\ entering' = t /\ (browser' = browser \/ browser' = Anonymous)
        /\ UNCHANGED <<accounts, bindings, moves>>
    BY <1>3 DEF Enter
  <2>2. t \in Sessions /\ u # Nobody
    BY SessionAssumption DEF Sessions, SessionInv
  <2>3. t.identity # None => t.identity.of = Account(u) /\ t.identity.token.of = Account(u)
    <3>1. Live(browser) /\ browser \in Sessions
      BY DEF SessionInv, Live
    <3>2. QED
      BY <3>1 DEF SessionInv
  <2>4. QED
    BY <1>1, <1>2, <2>1, <2>2, <2>3 DEF Live, SessionInv
<1>4. CASE Context
  <2>1. PICK o \in Owners :
          /\ ContextToken(entering) = Token(o)
          /\ browser' = [entering EXCEPT !.identity =
               [of |-> o, token |-> Token(o),
                sites |-> accounts[o].sites, site |-> accounts[o].home]]
    BY <1>4 DEF Context
  <2>2. /\ entering \in Sessions /\ entering' = None
        /\ UNCHANGED <<accounts, bindings, moves>>
    BY <1>4 DEF Context, SessionInv
  <2> DEFINE i == [of |-> o, token |-> Token(o),
                   sites |-> accounts[o].sites, site |-> accounts[o].home]
  <2>3. i \in Identities /\ i.of = o /\ i.token.of = o
    BY TokenType DEF Identities, SessionInv
  <2>4. entering.user \in People \cup Superusers /\ o = Account(entering.user)
    <3>1. Live(entering) /\ entering.user \in People \cup Superusers
      BY <1>4, <2>2 DEF Context, SessionInv, Live, Sessions
    <3>2. Root \in Owners
      BY DEF Owners
    <3>3. CASE entering.identity # None
      <4>1. /\ entering.identity.token = Token(o)
            /\ entering.identity.token.of = Account(entering.user)
        BY <2>1, <2>2, <3>1, <3>3 DEF ContextToken, SessionInv
      <4>2. QED
        BY <3>1, <4>1, TokenType
    <3>4. CASE entering.identity = None /\ entering.user \in Superusers
      BY <2>1, <3>1, <3>2, <3>4, TokenType DEF ContextToken, Account
    <3>5. CASE entering.identity = None /\ entering.user \notin Superusers
      <4>1. bindings[entering.user].token = Token(o) /\ entering.user \in People
        BY <2>1, <3>1, <3>5 DEF ContextToken
      <4>2. Token(o).of = entering.user
        BY <4>1, TokenType DEF SessionInv
      <4>3. QED
        BY <3>1, <3>5, <4>2, TokenType DEF Account
    <3>6. QED
      BY <3>3, <3>4, <3>5
  <2>5. browser' \in Sessions /\ browser'.user = entering.user /\ browser'.identity = i
    BY <2>1, <2>2, <2>3 DEF Sessions
  <2>6. QED
    BY <1>1, <2>2, <2>3, <2>4, <2>5, SessionAssumption DEF Live
<1>5. CASE ContextFails
  BY <1>1, <1>5 DEF ContextFails, SessionInv, Live
<1>6. CASE Abandon
  BY <1>1, <1>6 DEF Abandon, SessionInv, Live
<1>7. CASE Logout
  BY <1>1, <1>2, <1>7 DEF Logout, SessionInv, Live
<1>8. ASSUME NEW w \in Warehouses, Switch(w)
      PROVE  SessionInv'
  <2>1. /\ browser.identity # None
        /\ browser' = [browser EXCEPT !.identity.site = w]
        /\ UNCHANGED <<entering, accounts, bindings, moves>>
    BY <1>8 DEF Switch, UpdateSite
  <2>2. browser \in Sessions /\ browser.identity \in Identities
    BY <2>1 DEF SessionInv, Sessions
  <2>3. /\ browser' \in Sessions /\ browser'.user = browser.user
        /\ browser'.identity.of = browser.identity.of
        /\ browser'.identity.token = browser.identity.token
    BY <2>1, <2>2 DEF Sessions, Identities, Homes
  <2>4. Live(browser) /\ \A s : Live(s)' => s = browser' \/ Live(s)
    BY <2>1 DEF Live
  <2>5. Account(browser'.user) = Account(browser.user) /\ browser.user # Nobody
    BY <2>1, <2>2, <2>3, <2>4 DEF SessionInv
  <2>6. ASSUME NEW s \in Sessions, Live(s)'
        PROVE  /\ s.user = Nobody => s.identity = None
               /\ s.identity # None => /\ s.identity.of = Account(s.user)
                                       /\ s.identity.token.of = Account(s.user)
    <3>1. CASE s = browser'
      BY <2>1, <2>2, <2>3, <2>4, <2>5, <3>1 DEF SessionInv
    <3>2. CASE Live(s)
      BY <3>2 DEF SessionInv
    <3>3. QED
      BY <2>4, <2>6, <3>1, <3>2
  <2>7. QED
    BY <1>1, <2>1, <2>3, <2>6 DEF SessionInv
<1>9. ASSUME NEW u \in People, RotateAccount(u)
      PROVE  SessionInv'
  BY <1>s, <1>9, SessionAssumption DEF RotateAccount, Moved, SessionInv, Live, Owners
<1>10. ASSUME NEW u \in People, Record(u)
      PROVE  SessionInv'
  <2>1. /\ Recorded(u) \in [token : Tokens, home : Homes \cup {NoneText}]
        /\ Recorded(u).token.of = u
    BY TokenType DEF Recorded, SessionInv, Owners
  <2>2. QED
    BY <1>s, <1>10, <2>1 DEF Record, SessionInv, Live
<1>t. ASSUME NEW u \in People, RecordToken(u)
      PROVE  SessionInv'
  <2>1. Token(u) \in Tokens /\ Token(u).of = u
    BY TokenType DEF Owners
  <2>2. bindings' = [bindings EXCEPT ![u].token = Token(u)]
    BY <1>t DEF RecordToken
  <2>3. /\ bindings' \in [People -> [token : Tokens \cup {None}, home : Homes \cup {NoneText}]]
        /\ \A v \in People : bindings'[v].token # None => bindings'[v].token.of = v
    BY <2>1, <2>2 DEF SessionInv
  <2>4. QED
    BY <1>s, <1>t, <2>3 DEF RecordToken, SessionInv, Live
<1>11. ASSUME NEW u \in People, NEW w \in Warehouses, Reassign(u, w)
      PROVE  SessionInv'
  <2>1. /\ accounts' = [accounts EXCEPT ![u].sites = {w}, ![u].home = w]
        /\ UNCHANGED <<browser, entering, bindings>>
        /\ moves < MaxMoves /\ moves' = moves + 1
    BY <1>11 DEF Reassign, Moved
  <2> DEFINE Type == [n : 0 .. MaxMoves, sites : SUBSET Warehouses, home : Homes]
             moved == [accounts EXCEPT ![u].sites = {w}]
  <2>2. moved \in [Owners -> Type] /\ \A o \in Owners : moved[o].n = accounts[o].n
    BY DEF SessionInv, Owners
  <2>3. accounts' \in [Owners -> Type] /\ \A o \in Owners : accounts'[o].n = accounts[o].n
    <3>1. accounts' = [moved EXCEPT ![u].home = w]
      BY <2>1
    <3> HIDE DEF moved
    <3>2. u \in Owners /\ w \in Homes
      BY DEF Owners, Homes
    <3>3. QED
      BY <2>2, <3>1, <3>2
  <2>4. moves' \in 0 .. MaxMoves /\ \A o \in Owners : accounts'[o].n <= moves'
    BY <2>1, <2>3, SessionAssumption DEF SessionInv
  <2>5. QED
    BY <1>s, <2>1, <2>3, <2>4 DEF SessionInv, Live
<1>12. CASE UNCHANGED sessionVars
  BY <1>12 DEF sessionVars, SessionInv, Live
<1>13. QED
  BY <1>3, <1>4, <1>5, <1>6, <1>7, <1>8, <1>9, <1>10, <1>t, <1>11, <1>12 DEF SessionNext

\* Nobody acts as another: a session holds no identity but its user's, through any
\* sequence of logins; a call carries its user's token, or root's: when it is a reading that
\* is forced to (get_all_sites), or when neither binding nor session knows the user.
THEOREM CallersAreUsers == AccountsSpec => []CallerIsUser
<1>1. AccountsInit => SessionInit
  BY DEF AccountsInit
<1>2. [AccountsNext]_accountsVars => [SessionNext]_sessionVars
  BY DEF AccountsNext, accountsVars
<1>3. SessionInv => CallerIsUser
  <2> SUFFICES ASSUME SessionInv, NEW s \in {browser, entering} \ {None, Anonymous},
                      NEW forced \in BOOLEAN
               PROVE  /\ s.identity # None => s.identity.of = Account(s.user)
                      /\ \/ CallToken(s, forced).of = Account(s.user)
                         \/ /\ CallToken(s, forced) = Token(Root)
                            /\ \/ forced
                               \/ bindings[s.user].token = None /\ s.identity = None
    BY DEF CallerIsUser
  <2>1. s \in Sessions /\ Live(s)
    BY DEF SessionInv, Live
  <2>2. s.user # Nobody
    BY <2>1 DEF SessionInv, Sessions, Anonymous
  <2>3. s.user \in People \cup Superusers
    BY <2>1, <2>2 DEF Sessions
  <2>4. s.identity # None => /\ s.identity.of = Account(s.user)
                             /\ s.identity.token.of = Account(s.user)
    BY <2>1 DEF SessionInv
  <2>5. Token(Root).of = Root
    BY DEF Token
  <2>6. CASE s.user \in Superusers
    BY <2>4, <2>5, <2>6 DEF CallToken, Account
  <2>7. CASE s.user \in People /\ s.user \notin Superusers
    BY <2>4, <2>7 DEF CallToken, Account, SessionInv
  <2>8. QED
    BY <2>3, <2>6, <2>7
<1>4. QED
  BY <1>1, <1>2, <1>3, SessionInitial, SessionStep, PTL DEF AccountsSpec

\* Until its account is moved, the sites of an identity are those of its user's account, and
\* its site, if it has one, is one of them.
ScopeInv ==
  /\ textIds \in BOOLEAN /\ outdated \in BOOLEAN
  /\ \A o \in Owners : accounts[o].home \in accounts[o].sites \cup {NoSite}
  /\ \A s \in Sessions : Live(s) /\ ~outdated /\ s.identity # None =>
       /\ s.identity.sites = accounts[s.identity.of].sites
       /\ s.identity.site \in s.identity.sites \cup {NoSite}

LEMMA ScopeInitial == SessionInit => ScopeInv
<1> SUFFICES ASSUME SessionInit
             PROVE  ScopeInv
  OBVIOUS
<1>1. \A o \in Owners : accounts[o].home \in accounts[o].sites \cup {NoSite}
  <2>1. PICK home \in [Owners -> Homes], more \in SUBSET Warehouses :
          accounts = FirstOf(home, more)
    BY AccountsAtFirst
  <2>2. QED
    BY <2>1 DEF FirstOf, Homes
<1>2. browser.identity = None /\ entering = None /\ outdated = FALSE /\ textIds \in BOOLEAN
  BY DEF SessionInit, Anonymous
<1>3. QED
  BY <1>1, <1>2 DEF ScopeInv, Live

LEMMA ScopeStep ==
  ASSUME SessionInv, SessionInv', ScopeInv, [SessionNext]_sessionVars
  PROVE  ScopeInv'
\* Steps of a login, a logout, and the settings of the server: accounts stay as they are.
<1>1. ASSUME UNCHANGED <<accounts, textIds>>, outdated' \in BOOLEAN,
             \A s \in Sessions : Live(s)' /\ ~outdated' /\ s.identity # None =>
               \/ Live(s) /\ ~outdated
               \/ /\ s.identity.sites = accounts[s.identity.of].sites
                  /\ s.identity.site \in s.identity.sites \cup {NoSite}
      PROVE  ScopeInv'
  BY <1>1 DEF ScopeInv
<1>2. Anonymous.identity = None /\ Anonymous.user = Nobody
  BY DEF Anonymous
<1>3. ASSUME NEW u \in People \cup Superusers, Enter(u)
      PROVE  ScopeInv'
  <2> DEFINE t == [user |-> u, identity |-> IF browser.user = u THEN browser.identity ELSE None]
  <2>1. /\ entering' = t /\ browser' = IF browser.user = u THEN browser ELSE Anonymous
        /\ UNCHANGED <<accounts, textIds>>
        /\ outdated' = (outdated /\ browser.user = u)
    BY <1>3 DEF Enter
  <2>2. t.identity # None => t.identity = browser.identity /\ browser.user = u
    OBVIOUS
  <2>3. Live(browser) /\ browser \in Sessions
    BY DEF Live, SessionInv
  <2>4. ~outdated' /\ t.identity # None =>
          /\ t.identity.sites = accounts[t.identity.of].sites
          /\ t.identity.site \in t.identity.sites \cup {NoSite}
    BY <2>1, <2>2, <2>3 DEF ScopeInv
  <2> HIDE DEF t
  <2>5. outdated' \in BOOLEAN
    BY <2>1
  <2>6. QED
    BY <1>1, <1>2, <2>1, <2>4, <2>5 DEF Live
<1>4. CASE Context
  <2>1. PICK o \in Owners :
          browser' = [entering EXCEPT !.identity =
            [of |-> o, token |-> Token(o), sites |-> accounts[o].sites, site |-> accounts[o].home]]
    BY <1>4 DEF Context
  <2>2. /\ entering \in Sessions /\ entering' = None /\ outdated' = FALSE
        /\ UNCHANGED <<accounts, textIds>>
    BY <1>4 DEF Context, SessionInv
  <2>3. browser'.identity =
          [of |-> o, token |-> Token(o), sites |-> accounts[o].sites, site |-> accounts[o].home]
    BY <2>1, <2>2 DEF Sessions
  <2>4. /\ browser'.identity.sites = accounts[browser'.identity.of].sites
        /\ browser'.identity.site \in browser'.identity.sites \cup {NoSite}
    BY <2>3 DEF ScopeInv
  <2>5. \A s \in Sessions : Live(s)' => s = browser'
    BY <2>2 DEF Live
  <2>6. QED
    BY <1>1, <2>2, <2>4, <2>5
<1>5. CASE ContextFails
  BY <1>1, <1>5 DEF ContextFails, ScopeInv, Live
<1>6. CASE Abandon
  BY <1>1, <1>2, <1>6 DEF Abandon, ScopeInv, Live
<1>7. CASE Logout
  BY <1>1, <1>2, <1>7 DEF Logout, ScopeInv, Live
<1>8. ASSUME NEW w \in Warehouses, Switch(w)
      PROVE  ScopeInv'
  <2>1. /\ browser.identity # None /\ w \in browser.identity.sites
        /\ browser' = [browser EXCEPT !.identity.site = w]
        /\ UNCHANGED <<entering, accounts, textIds, outdated>>
    BY <1>8 DEF Switch, UpdateSite, HasSiteAccess
  <2>2. browser \in Sessions /\ browser.identity \in Identities
    BY <2>1 DEF SessionInv, Sessions
  <2>3. /\ browser'.identity.of = browser.identity.of
        /\ browser'.identity.sites = browser.identity.sites
        /\ browser'.identity.site = w
    BY <2>1, <2>2 DEF Sessions, Identities, Homes
  <2>4. Live(browser) /\ outdated \in BOOLEAN
    BY DEF Live, ScopeInv
  <2>5. \A s : Live(s)' => s = browser' \/ Live(s)
    BY <2>1 DEF Live
  <2>6. ~outdated => w \in accounts[browser.identity.of].sites
                     /\ browser.identity.sites = accounts[browser.identity.of].sites
    BY <2>1, <2>2, <2>4 DEF ScopeInv
  <2>7. ASSUME NEW s \in Sessions, Live(s)', ~outdated, s.identity # None
        PROVE  /\ s.identity.sites = accounts[s.identity.of].sites
               /\ s.identity.site \in s.identity.sites \cup {NoSite}
    BY <2>3, <2>5, <2>6, <2>7 DEF ScopeInv
  <2>8. QED
    BY <2>1, <2>4, <2>7 DEF ScopeInv
<1>9. ASSUME NEW u \in People, RotateAccount(u)
      PROVE  ScopeInv'
  <2>1. /\ accounts' = [accounts EXCEPT ![u].n = @ + 1]
        /\ UNCHANGED <<browser, entering, textIds, outdated>>
    BY <1>9 DEF RotateAccount
  <2>2. \A o \in Owners : /\ accounts'[o].sites = accounts[o].sites
                          /\ accounts'[o].home = accounts[o].home
    BY <2>1 DEF SessionInv
  <2>3. \A s \in Sessions : s.identity # None => s.identity.of \in Owners
    BY DEF Sessions, Identities
  <2>4. QED
    BY <2>1, <2>2, <2>3 DEF ScopeInv, Live
<1>10. ASSUME NEW u \in People, Record(u)
      PROVE  ScopeInv'
  BY <1>10 DEF Record, ScopeInv, Live
<1>t. ASSUME NEW u \in People, RecordToken(u)
      PROVE  ScopeInv'
  BY <1>t DEF RecordToken, ScopeInv, Live
<1>11. ASSUME NEW u \in People, NEW w \in Warehouses, Reassign(u, w)
      PROVE  ScopeInv'
  <2>1. /\ accounts' = [accounts EXCEPT ![u].sites = {w}, ![u].home = w]
        /\ UNCHANGED <<browser, entering, textIds>>
        /\ outdated' = (outdated \/ u \in {browser.user}
                          \cup (IF entering = None THEN {} ELSE {entering.user}))
    BY <1>11 DEF Reassign
  <2> DEFINE moved == [accounts EXCEPT ![u].sites = {w}]
  <2>2. /\ \A o \in Owners \ {u} : moved[o] = accounts[o]
        /\ moved[u].sites = {w} /\ moved = [o \in Owners |-> moved[o]]
        /\ moved[u] = [moved[u] EXCEPT !.sites = {w}]
    BY DEF SessionInv, Owners
  <2>3. accounts' = [moved EXCEPT ![u].home = w]
    BY <2>1
  <2>4. accounts[u] \in [n : 0 .. MaxMoves, sites : SUBSET Warehouses, home : Homes]
    BY DEF SessionInv, Owners
  <2>5. moved[u] = [accounts[u] EXCEPT !.sites = {w}]
    BY DEF SessionInv, Owners
  <2> HIDE DEF moved
  <2>6. /\ \A o \in Owners \ {u} : accounts'[o] = accounts[o]
        /\ accounts'[u] = [moved[u] EXCEPT !.home = w]
    BY <2>2, <2>3 DEF Owners
  <2>7. accounts'[u].sites = {w} /\ accounts'[u].home = w
    BY <2>4, <2>5, <2>6
  <2>8. \A o \in Owners : accounts'[o].home \in accounts'[o].sites \cup {NoSite}
    BY <2>6, <2>7 DEF ScopeInv
  <2>9. outdated' \in BOOLEAN
    BY <2>1 DEF ScopeInv
  <2>10. ASSUME NEW s \in Sessions, Live(s), ~outdated', s.identity # None
         PROVE  s.identity.of \in Owners \ {u}
    <3>1. s.user # u /\ ~outdated
      BY <2>1, <2>10 DEF Live
    <3>2. s.identity.of = Account(s.user) /\ s.identity.of \in Owners
      BY <2>10 DEF SessionInv, Sessions, Identities
    <3>3. QED
      BY <3>1, <3>2, SessionAssumption DEF Account
  <2>11. QED
    BY <2>1, <2>6, <2>8, <2>9, <2>10 DEF ScopeInv, Live
<1>12. CASE UNCHANGED sessionVars
  BY <1>12 DEF sessionVars, ScopeInv, Live
<1>13. QED
  BY <1>3, <1>4, <1>5, <1>6, <1>7, <1>8, <1>9, <1>10, <1>t, <1>11, <1>12 DEF SessionNext

\* A call names a site outside the scope of its user only after the account was moved, or
\* where the session has no site, by the settings or by a binding that is not as the account.
THEOREM SitesAreInScope == AccountsSpec => []SiteOutsideScopeOnlyByChange
<1>1. AccountsInit => SessionInit
  BY DEF AccountsInit
<1>2. [AccountsNext]_accountsVars => [SessionNext]_sessionVars
  BY DEF AccountsNext, accountsVars
<1>3. SessionInv /\ ScopeInv => SiteOutsideScopeOnlyByChange
  <2> SUFFICES ASSUME SessionInv, ScopeInv, browser.user \in People,
                      NEW site \in {CallSite(browser), CatalogSite(browser)},
                      site \notin accounts[browser.user].sites \cup {NoSite}
               PROVE  IF SessionSite(browser) # NoSite THEN outdated
                      ELSE \/ setting # NoSite
                           \/ bindings[browser.user].home # accounts[browser.user].home
    BY DEF SiteOutsideScopeOnlyByChange
  <2>1. browser \in Sessions /\ Live(browser) /\ browser.user \notin Superusers
    BY SessionAssumption DEF SessionInv, Live
  <2>2. ASSUME SessionSite(browser) # NoSite, ~outdated
        PROVE  FALSE
    <3>1. browser.identity # None /\ site = browser.identity.site
      BY <2>2 DEF SessionSite, CallSite, CatalogSite, Or
    <3>2. browser.identity.of = browser.user
      BY <2>1, <3>1 DEF SessionInv, Account
    <3>3. browser.identity.site \in accounts[browser.user].sites \cup {NoSite}
      BY <2>1, <2>2, <3>1, <3>2 DEF ScopeInv
    <3>4. QED
      BY <3>1, <3>3
  <2>3. ASSUME SessionSite(browser) = NoSite, setting = NoSite,
               bindings[browser.user].home = accounts[browser.user].home
        PROVE  FALSE
    <3>1. accounts[browser.user].home \in accounts[browser.user].sites \cup {NoSite}
      BY DEF ScopeInv, Owners
    <3>2. site \in {NoSite, bindings[browser.user].home}
      BY <2>1, <2>3 DEF BindingSite, CallSite, CatalogSite, Or
    <3>3. QED
      BY <2>3, <3>1, <3>2
  <2>4. QED
    BY <2>2, <2>3
<1>4. QED
  BY <1>1, <1>2, <1>3, SessionInitial, SessionStep, ScopeInitial, ScopeStep, PTL DEF AccountsSpec
-----------------------------------------------------------------------------
(* Devices. *)

\* A device is added by one request, while there is no row and nothing else can run; other
\* requests work on the one row there is.
StageInv ==
  /\ \A r \in DeviceRequests :
       /\ step[r] # "call" => reply[r] = NoDevice
       /\ r \in Calling <=> read[r] # NoDevice
       /\ step[r] = "new" => r \notin post /\ r \notin crossed
       /\ step[r] = "load" => r \notin post /\ r \in DeviceForms
       /\ reply[r] # NoDevice => r \notin post
       /\ r \in Calling /\ r \notin DeviceAdds => row # NoDevice /\ read[r].id = row.id
  /\ \A r \in DeviceAdds :
       /\ step[r] = "call" => row = NoDevice /\ Calling = {r} /\ read[r].id = r
       /\ step[r] = "done" /\ r \notin failed => row # NoDevice /\ row.id = r
       /\ reply[r] # NoDevice => devices[r] # NoDevice

\* What field f of the row differs in from the account, a request that calls will settle.
Answers(r, f) == reply[r] # NoDevice /\ f \in Doubtful(r)

\* A request that runs alone has the row as it is, and the account as it is once answered.
RowInv ==
  /\ \A r \in Calling : IF r \in crossed THEN suspect = {"name", "token"} ELSE Calling = {r}
  /\ \A r \in Calling \ crossed :
       /\ reply[r] # NoDevice => reply[r] = devices[read[r].id]
       /\ r \notin DeviceAdds => read[r].token = row.token
  /\ row # NoDevice =>
       /\ "token" \notin suspect =>
            \/ row.token = devices[row.id].token
            \/ \E r \in Calling : Answers(r, "token")
       /\ "name" \notin suspect =>
            \/ row.name = devices[row.id].name
            \/ \E r \in Calling : Answers(r, "name")

DeviceInv == DeviceTypeOK /\ StageInv /\ RowInv

LEMMA DeviceKinds ==
  /\ DeviceAdds \subseteq DeviceRequests /\ DeviceForms \subseteq DeviceRequests
  /\ DevicePushers \subseteq DeviceRequests /\ DeviceRotates \subseteq DeviceRequests
  /\ DeviceRepairs \subseteq DeviceRequests /\ DeviceAdds \subseteq DeviceIds
  /\ \A r \in DevicePushers : r \notin DeviceAdds /\ Doubtful(r) = {"name"}
  /\ \A r \in DeviceRotates : r \notin DeviceAdds /\ Doubtful(r) = {"token"}
  /\ \A r \in DeviceRepairs : r \notin DeviceAdds /\ Doubtful(r) = {}
  /\ \A r \in DeviceAdds : Doubtful(r) = {}
  /\ \A r \in DeviceRequests \ DeviceAdds :
       r \in DevicePushers \/ r \in DeviceRotates \/ r \in DeviceRepairs
BY DeviceBindingAssumption DEF DeviceRequests, DevicePushers, DeviceIds, Doubtful

LEMMA DeviceInitial == DeviceInit => DeviceInv
<1> SUFFICES ASSUME DeviceInit
             PROVE  DeviceInv
  OBVIOUS
<1>1. row = NoDevice \/ (row \in DeviceRows /\ row.id = First /\ row.token = 0)
  <2>1. SUFFICES ASSUME NEW n \in DeviceNames,
                        row = [id |-> First, name |-> n, token |-> 0, status |-> "synced"]
                 PROVE  row \in DeviceRows /\ row.id = First /\ row.token = 0
    BY DEF DeviceInit
  <2>2. QED
    BY <2>1 DEF DeviceRows, DeviceIds
<1>2. devices = [i \in DeviceIds |->
        IF row # NoDevice /\ i = First THEN [name |-> row.name, token |-> 0] ELSE NoDevice]
  BY DEF DeviceInit
<1>3. /\ devices \in [DeviceIds -> Accounts \cup {NoDevice}]
      /\ row # NoDevice => /\ devices[row.id] = [name |-> row.name, token |-> 0]
                           /\ devices[row.id] \in Accounts
  BY <1>1, <1>2 DEF Accounts, DeviceRows, DeviceIds
<1>4. DeviceTypeOK
  BY <1>1, <1>3, NoDeviceAssumption DEF DeviceInit, DeviceTypeOK
<1>5. StageInv
  BY DeviceKinds DEF DeviceInit, StageInv, Calling
<1>6. RowInv
  BY <1>1, <1>3 DEF DeviceInit, RowInv, Calling
<1>7. QED
  BY <1>4, <1>5, <1>6 DEF DeviceInv

\* A request starts: alone, or all that call are in doubt from now on.
LEMMA DeviceLoads ==
  ASSUME DeviceInv, NEW r \in DeviceRequests, NEW loaded \in DeviceRows,
         NEW stage \in {"load", "call"}, Loads(r, loaded, stage),
         stage = "load" => r \in DeviceForms /\ post' = post,
         stage = "call" => post' = post \cup {r},
         r \in DeviceAdds => row = NoDevice /\ ~Held(r) /\ loaded.id = r,
         r \notin DeviceAdds => row # NoDevice /\ loaded.id = row.id /\ loaded.token = row.token
  PROVE  DeviceInv'
<1> USE DEF DeviceInv
<1>1. /\ UNCHANGED <<row, devices, reply, failed>>
      /\ step[r] = "new" /\ step'[r] = stage /\ read'[r] = loaded
      /\ \A q \in DeviceRequests \ {r} : step'[q] = step[q] /\ read'[q] = read[q]
      /\ \/ Calling = {} /\ UNCHANGED <<crossed, suspect>>
         \/ /\ Calling # {} /\ crossed' = crossed \cup Calling \cup {r}
            /\ suspect' = {"name", "token"}
  BY DEF Loads, DeviceTypeOK
<1>2. Calling' = Calling \cup {r} /\ r \notin Calling /\ Calling \subseteq DeviceRequests
  BY <1>1 DEF Calling
<1>3. loaded # NoDevice
  BY NoDeviceAssumption
<1>4. r \in DeviceAdds => Calling = {}
  <2> SUFFICES ASSUME r \in DeviceAdds, NEW q \in Calling
               PROVE  FALSE
    OBVIOUS
  <2>1. q \in DeviceRequests /\ step[q] \in {"load", "call"} /\ q # r /\ row = NoDevice
    BY <1>1 DEF Calling
  <2>2. q \in DeviceAdds
    BY <2>1 DEF StageInv
  <2>c. step[q] = "call"
    BY <2>1, <2>2, DeviceBindingAssumption DEF StageInv
  <2>3. QED
    BY <2>1, <2>2, <2>c DEF Held
<1>5. r \notin DeviceAdds => \A q \in DeviceAdds : step[q] # "call"
  BY DEF StageInv
<1>6. DeviceTypeOK'
  <2>1. /\ step' \in [DeviceRequests -> {"new", "load", "call", "done"}]
        /\ read' \in [DeviceRequests -> DeviceRows \cup {NoDevice}]
    BY DEF Loads, DeviceTypeOK
  <2>2. crossed' \subseteq DeviceRequests /\ suspect' \subseteq {"name", "token"}
    BY <1>1, <1>2 DEF DeviceTypeOK
  <2>3. QED
    BY <1>1, <2>1, <2>2 DEF DeviceTypeOK
<1>7. StageInv'
  <2>1. \A q \in DeviceRequests :
          /\ step'[q] # "call" => reply'[q] = NoDevice
          /\ q \in Calling' <=> read'[q] # NoDevice
          /\ step'[q] = "new" => q \notin post' /\ q \notin crossed'
          /\ step'[q] = "load" => q \notin post' /\ q \in DeviceForms
          /\ reply'[q] # NoDevice => q \notin post'
          /\ q \in Calling' /\ q \notin DeviceAdds => row' # NoDevice /\ read'[q].id = row'.id
    <3> SUFFICES ASSUME NEW q \in DeviceRequests
                 PROVE  /\ step'[q] # "call" => reply'[q] = NoDevice
                        /\ q \in Calling' <=> read'[q] # NoDevice
                        /\ step'[q] = "new" => q \notin post' /\ q \notin crossed'
                        /\ step'[q] = "load" => q \notin post' /\ q \in DeviceForms
                        /\ reply'[q] # NoDevice => q \notin post'
                        /\ q \in Calling' /\ q \notin DeviceAdds =>
                             row' # NoDevice /\ read'[q].id = row'.id
      OBVIOUS
    <3>1. CASE q = r
      <4>1. q \in Calling' /\ reply'[q] = NoDevice /\ q \notin post
        BY <1>1, <1>2, <3>1 DEF StageInv
      <4>2. QED
        BY <1>1, <1>3, <3>1, <4>1
    <3>2. CASE q # r
      <4>1. /\ step'[q] = step[q] /\ read'[q] = read[q]
            /\ q \in post' <=> q \in post
            /\ q \in Calling' <=> q \in Calling
        BY <1>1, <1>2, <3>2
      <4>2. step[q] = "new" => q \notin Calling
        BY DEF Calling
      <4>3. q \in crossed' => q \in crossed \cup Calling
        BY <1>1, <3>2
      <4>4. QED
        BY <1>1, <4>1, <4>2, <4>3 DEF StageInv
    <3>3. QED
      BY <3>1, <3>2
  <2>2. \A q \in DeviceAdds :
          /\ step'[q] = "call" => row' = NoDevice /\ Calling' = {q} /\ read'[q].id = q
          /\ step'[q] = "done" /\ q \notin failed' => row' # NoDevice /\ row'.id = q
          /\ reply'[q] # NoDevice => devices'[q] # NoDevice
    <3> SUFFICES ASSUME NEW q \in DeviceAdds
                 PROVE  /\ step'[q] = "call" => row' = NoDevice /\ Calling' = {q} /\ read'[q].id = q
                        /\ step'[q] = "done" /\ q \notin failed' => row' # NoDevice /\ row'.id = q
                        /\ reply'[q] # NoDevice => devices'[q] # NoDevice
      OBVIOUS
    <3>1. q \in DeviceRequests /\ q \notin DeviceForms
      BY DeviceKinds, DeviceBindingAssumption
    <3>2. CASE q = r
      <4>1. reply'[q] = NoDevice /\ step'[q] # "done"
        BY <1>1, <3>2 DEF StageInv
      <4>2. row' = NoDevice /\ Calling' = {q} /\ read'[q].id = q
        BY <1>1, <1>2, <1>4, <3>2
      <4>3. QED
        BY <4>1, <4>2
    <3>3. CASE q # r
      <4>1. step[q] = "call" => q \in Calling
        BY <3>1 DEF Calling
      <4>2. step[q] # "call"
        BY <1>2, <1>4, <1>5, <3>3, <4>1 DEF StageInv, Held
      <4>3. QED
        BY <1>1, <3>1, <3>3, <4>2 DEF StageInv
    <3>4. QED
      BY <3>2, <3>3
  <2>3. QED
    BY <2>1, <2>2 DEF StageInv
<1>8. RowInv'
  <2>1. reply'[r] = NoDevice
    BY <1>1 DEF StageInv
  <2>2. \A q \in Calling' : IF q \in crossed' THEN suspect' = {"name", "token"} ELSE Calling' = {q}
    BY <1>1, <1>2 DEF RowInv, StageInv
  <2>3. \A q \in Calling' \ crossed' :
          /\ reply'[q] # NoDevice => reply'[q] = devices'[read'[q].id]
          /\ q \notin DeviceAdds => read'[q].token = row'.token
    BY <1>1, <1>2, <2>1 DEF RowInv
  <2>4. \A q, f : Answers(q, f)' = Answers(q, f)
    BY <1>1 DEF Answers, Doubtful
  <2>5. QED
    BY <1>1, <1>2, <2>2, <2>3, <2>4 DEF RowInv
<1>9. QED
  BY <1>6, <1>7, <1>8

\* The server carries out a call: for a request that waits, or late.
LEMMA DeviceAnswered ==
  ASSUME DeviceInv, NEW r \in DeviceRequests, NEW account \in Accounts, Answered(r, account),
         devices' \in [DeviceIds -> Accounts \cup {NoDevice}],
         \A i \in DeviceIds : devices[i] # NoDevice => devices'[i] # NoDevice,
         step[r] = "call" =>
           /\ devices'[read[r].id] = account
           /\ \A i \in DeviceIds \ {read[r].id} : devices'[i] = devices[i]
           /\ r \notin DeviceAdds =>
                /\ "token" \in Doubtful(r) \/ account.token = devices[read[r].id].token
                /\ "name" \in Doubtful(r) \/ account.name = devices[read[r].id].name
  PROVE  DeviceInv'
<1> USE DEF DeviceInv
<1>1. /\ UNCHANGED <<row, step, read, failed>> /\ r \in post /\ post' = post \ {r}
      /\ \A q \in DeviceRequests \ {r} : reply'[q] = reply[q]
      /\ Calling' = Calling /\ Calling \subseteq DeviceRequests
  BY DEF Answered, Calling, DeviceTypeOK
<1>2. reply' \in [DeviceRequests -> Accounts \cup {NoDevice}] /\ account # NoDevice
  BY NoDeviceAssumption DEF Answered, DeviceTypeOK
<1>3. r \in Calling <=> step[r] = "call"
  BY <1>1 DEF Calling, StageInv
<1>4. step[r] = "call" =>
        reply'[r] = account /\ reply[r] = NoDevice /\ UNCHANGED <<crossed, suspect>>
  BY <1>1 DEF Answered, DeviceTypeOK, StageInv
<1>5. step[r] # "call" =>
        UNCHANGED reply /\ suspect' = {"name", "token"} /\ crossed' = crossed \cup Calling
  BY DEF Answered
<1>6. DeviceTypeOK'
  BY <1>1, <1>2, <1>4, <1>5 DEF DeviceTypeOK, DeviceRows
<1>7. StageInv'
  <2>1. \A q \in DeviceRequests : step[q] = "new" => q \notin crossed'
    BY <1>4, <1>5 DEF StageInv, Calling
  <2>2. \A q \in DeviceAdds : reply'[q] # NoDevice => devices'[q] # NoDevice
    <3> SUFFICES ASSUME NEW q \in DeviceAdds, reply'[q] # NoDevice
                 PROVE  devices'[q] # NoDevice
      OBVIOUS
    <3>1. CASE q = r /\ step[r] = "call"
      BY <1>2, <3>1 DEF StageInv
    <3>2. CASE ~(q = r /\ step[r] = "call")
      <4>1. reply'[q] = reply[q] /\ q \in DeviceIds
        BY <1>1, <1>5, <3>2, DeviceKinds
      <4>2. QED
        BY <4>1 DEF StageInv
    <3>3. QED
      BY <3>1, <3>2
  <2>3. \A q \in DeviceRequests :
          /\ step[q] # "call" => reply'[q] = NoDevice
          /\ reply'[q] # NoDevice => q \notin post'
    BY <1>1, <1>4, <1>5 DEF StageInv
  <2>4. QED
    BY <1>1, <2>1, <2>2, <2>3 DEF StageInv
<1>8. RowInv'
  <2>1. CASE step[r] # "call"
    BY <1>1, <1>5, <2>1 DEF RowInv
  <2>2. CASE step[r] = "call" /\ r \in crossed
    BY <1>1, <1>3, <1>4, <2>2 DEF RowInv
  <2>3. CASE step[r] = "call" /\ r \notin crossed
    <3>1. Calling = {r} /\ UNCHANGED <<crossed, suspect>> /\ reply'[r] = account
      BY <1>3, <1>4, <2>3 DEF RowInv
    <3>2. r \notin DeviceAdds => read[r].token = row.token
      BY <2>3, <3>1 DEF RowInv
    <3>3. ASSUME row # NoDevice
          PROVE  /\ "token" \notin suspect => row.token = devices[row.id].token
                 /\ "name" \notin suspect => row.name = devices[row.id].name
                 /\ devices'[row.id] = account /\ read[r].id = row.id /\ r \notin DeviceAdds
      BY <1>4, <2>3, <3>1, <3>3 DEF RowInv, StageInv, Answers
    <3>4. row # NoDevice =>
            /\ "token" \notin suspect =>
                 row.token = devices'[row.id].token \/ "token" \in Doubtful(r)
            /\ "name" \notin suspect =>
                 row.name = devices'[row.id].name \/ "name" \in Doubtful(r)
      BY <2>3, <3>3
    <3>5. \A f : f \in Doubtful(r) => Answers(r, f)'
      BY <1>2, <3>1 DEF Answers, Doubtful
    <3>6. QED
      BY <1>1, <2>3, <3>1, <3>2, <3>4, <3>5 DEF RowInv
  <2>4. QED
    BY <2>1, <2>2, <2>3
<1>9. QED
  BY <1>6, <1>7, <1>8

\* A request ends: it stores an answer, or leaves in doubt what it may have changed.
LEMMA DeviceLeaves ==
  ASSUME DeviceInv, NEW r \in DeviceRequests, Leaves(r),
         r \in Calling \/ (step[r] = "new" /\ row # NoDevice /\ row' = row),
         row # NoDevice => row' # NoDevice /\ row'.id = row.id,
         row' # NoDevice => row' \in DeviceRows /\ devices[row'.id] # NoDevice,
         failed' \in {failed, failed \cup {r}},
         r \in DeviceAdds /\ r \notin failed' => row' # NoDevice /\ row'.id = r,
         suspect' \subseteq {"name", "token"},
         r \in crossed \/ step[r] = "new" => suspect \subseteq suspect',
         row' # NoDevice /\ "token" \notin suspect' =>
           \/ row'.token = devices[row'.id].token
           \/ \E q \in Calling \ {r} : Answers(q, "token"),
         row' # NoDevice /\ "name" \notin suspect' =>
           \/ row'.name = devices[row'.id].name
           \/ \E q \in Calling \ {r} : Answers(q, "name")
  PROVE  DeviceInv'
<1> USE DEF DeviceInv
<1>1. /\ UNCHANGED <<devices, post, crossed>>
      /\ step'[r] = "done" /\ read'[r] = NoDevice /\ reply'[r] = NoDevice
      /\ \A q \in DeviceRequests \ {r} :
           step'[q] = step[q] /\ read'[q] = read[q] /\ reply'[q] = reply[q]
  BY DEF Leaves, DeviceTypeOK
<1>2. Calling' = Calling \ {r} /\ Calling \subseteq DeviceRequests
  BY <1>1 DEF Calling
<1>3. DeviceTypeOK'
  <2>1. /\ step' \in [DeviceRequests -> {"new", "load", "call", "done"}]
        /\ read' \in [DeviceRequests -> DeviceRows \cup {NoDevice}]
        /\ reply' \in [DeviceRequests -> Accounts \cup {NoDevice}]
    BY DEF Leaves, DeviceTypeOK
  <2>2. QED
    BY <1>1, <2>1 DEF DeviceTypeOK
<1>4. StageInv'
  <2>1. \A q \in DeviceRequests :
          /\ step'[q] # "call" => reply'[q] = NoDevice
          /\ q \in Calling' <=> read'[q] # NoDevice
          /\ step'[q] = "new" => q \notin post' /\ q \notin crossed'
          /\ step'[q] = "load" => q \notin post' /\ q \in DeviceForms
          /\ reply'[q] # NoDevice => q \notin post'
          /\ q \in Calling' /\ q \notin DeviceAdds => row' # NoDevice /\ read'[q].id = row'.id
    BY <1>1, <1>2 DEF StageInv
  <2>2. \A q \in DeviceAdds \ {r} : step[q] # "call"
    BY DEF StageInv, Calling, DeviceRequests
  <2>3. \A q \in DeviceAdds :
          /\ step'[q] = "call" => row' = NoDevice /\ Calling' = {q} /\ read'[q].id = q
          /\ step'[q] = "done" /\ q \notin failed' => row' # NoDevice /\ row'.id = q
          /\ reply'[q] # NoDevice => devices'[q] # NoDevice
    BY <1>1, <2>2, DeviceKinds DEF StageInv
  <2>4. QED
    BY <2>1, <2>3 DEF StageInv
<1>5. RowInv'
  <2>1. \A q \in Calling \ {r} : q \in crossed \/ (Calling = {q} /\ step[r] = "new" /\ row' = row)
    BY DEF RowInv, Calling
  <2>2. \A q \in Calling \ {r} :
          q \in crossed => suspect = {"name", "token"} /\ (r \in crossed \/ step[r] = "new")
    <3> SUFFICES ASSUME NEW q \in Calling \ {r}, q \in crossed
                 PROVE  suspect = {"name", "token"} /\ (r \in crossed \/ step[r] = "new")
      OBVIOUS
    <3>1. r \in Calling => r \in crossed
      BY DEF RowInv
    <3>2. QED
      BY <3>1 DEF RowInv, Calling
  <2>3. \A q \in Calling' : IF q \in crossed' THEN suspect' = {"name", "token"} ELSE Calling' = {q}
    <3>1. ASSUME NEW q \in Calling \ {r}, q \in crossed
          PROVE  suspect' = {"name", "token"}
      BY <2>2, <3>1
    <3>2. ASSUME NEW q \in Calling \ {r}, q \notin crossed
          PROVE  Calling' = {q}
      BY <1>2, <2>1, <3>2
    <3>3. QED
      BY <1>1, <1>2, <3>1, <3>2
  <2>4. \A q \in Calling' \ crossed' :
          /\ reply'[q] # NoDevice => reply'[q] = devices'[read'[q].id]
          /\ q \notin DeviceAdds => read'[q].token = row'.token
    BY <1>1, <1>2, <2>1 DEF RowInv
  <2>5. \A f : \A q \in Calling \ {r} : Answers(q, f)' = Answers(q, f)
    BY <1>1, <1>2 DEF Answers, Doubtful
  <2>6. QED
    BY <1>1, <1>2, <2>3, <2>4, <2>5 DEF RowInv
<1>6. QED
  BY <1>3, <1>4, <1>5

\* A request that fails leaves the row as it was, its status apart.
LEMMA DeviceFails ==
  ASSUME DeviceInv, NEW r \in DeviceRequests, Leaves(r), step[r] = "call",
         row # NoDevice => /\ row' \in DeviceRows /\ row'.id = row.id
                           /\ row'.token = row.token /\ row'.name = row.name,
         row = NoDevice => row' = NoDevice,
         failed' = failed \cup {r}, suspect' = suspect \cup Doubtful(r)
  PROVE  DeviceInv'
<1>c. r \in Calling
  BY DEF Calling
<1>1. \A f : f \notin suspect' => ~Answers(r, f)
  BY DEF Answers
<1>2. suspect' \subseteq {"name", "token"} /\ suspect \subseteq suspect'
  BY DeviceKinds DEF DeviceInv, DeviceTypeOK, Doubtful
<1>3. row' # NoDevice => /\ row # NoDevice /\ row' \in DeviceRows /\ row'.id = row.id
                         /\ row'.token = row.token /\ row'.name = row.name
                         /\ devices[row'.id] # NoDevice
  BY DEF DeviceInv, DeviceTypeOK
<1>4. row' # NoDevice =>
        /\ "token" \notin suspect' => \/ row'.token = devices[row'.id].token
                                      \/ \E q \in Calling \ {r} : Answers(q, "token")
        /\ "name" \notin suspect' => \/ row'.name = devices[row'.id].name
                                     \/ \E q \in Calling \ {r} : Answers(q, "name")
  BY <1>1, <1>2, <1>3 DEF DeviceInv, RowInv
<1>5. row # NoDevice => row' # NoDevice /\ row'.id = row.id
  BY NoDeviceAssumption
<1>6. QED
  BY <1>c, <1>2, <1>3, <1>4, <1>5, DeviceLeaves

\* What a request that runs alone, or that nobody can trust, finds at its end.
LEMMA DeviceAlone ==
  ASSUME DeviceInv, NEW r \in DeviceRequests \ DeviceAdds, step[r] = "call"
  PROVE  /\ row \in DeviceRows /\ row # NoDevice /\ read[r] \in DeviceRows
         /\ read[r].id = row.id /\ devices[row.id] \in Accounts
         /\ r \in crossed => suspect = {"name", "token"}
         /\ r \notin crossed =>
              /\ read[r].token = row.token
              /\ reply[r] # NoDevice => reply[r] = devices[row.id]
              /\ "token" \notin suspect /\ "token" \notin Doubtful(r) =>
                   row.token = devices[row.id].token
              /\ "name" \notin suspect /\ "name" \notin Doubtful(r) =>
                   row.name = devices[row.id].name
<1> USE DEF DeviceInv
<1>1. r \in Calling
  BY DEF Calling
<1>2. row # NoDevice /\ read[r] # NoDevice /\ read[r].id = row.id
  BY <1>1 DEF StageInv
<1>3. row \in DeviceRows /\ read[r] \in DeviceRows /\ devices[row.id] \in Accounts
  BY <1>2 DEF DeviceTypeOK, DeviceRows
<1>4. r \notin crossed => Calling = {r}
  BY <1>1 DEF RowInv
<1>5. QED
  BY <1>1, <1>2, <1>3, <1>4 DEF RowInv, Answers

LEMMA DeviceStep == DeviceInv /\ [DeviceNext]_deviceVars => DeviceInv'
<1> SUFFICES ASSUME DeviceInv, [DeviceNext]_deviceVars
             PROVE  DeviceInv'
  OBVIOUS
<1>1. ASSUME NEW r \in DeviceAdds, Add(r)
      PROVE  DeviceInv'
  <2>1. PICK n \in DeviceNames :
          Calls(r, [id |-> r, name |-> n, token |-> 0, status |-> "synced"])
    BY <1>1 DEF Add
  <2>2. [id |-> r, name |-> n, token |-> 0, status |-> "synced"] \in DeviceRows
    BY DeviceKinds DEF DeviceRows
  <2>3. row = NoDevice /\ ~Held(r) /\ r \in DeviceRequests
    BY <1>1, DeviceKinds DEF Add
  <2>4. QED
    BY <2>1, <2>2, <2>3, DeviceLoads DEF Calls
<1>2. ASSUME NEW r \in DeviceForms, LoadRow(r)
      PROVE  DeviceInv'
  <2>1. PICK n \in DeviceNames : Loads(r, [row EXCEPT !.name = n], "load") /\ post' = post
    BY <1>2 DEF LoadRow
  <2>2. row # NoDevice /\ row \in DeviceRows
    BY <1>2 DEF LoadRow, DeviceInv, DeviceTypeOK
  <2>3. /\ [row EXCEPT !.name = n] \in DeviceRows /\ [row EXCEPT !.name = n].id = row.id
        /\ [row EXCEPT !.name = n].token = row.token
    BY <2>2 DEF DeviceRows
  <2>4. r \in DeviceRequests /\ r \notin DeviceAdds
    BY DeviceKinds DEF DevicePushers
  <2>5. QED
    BY <2>1, <2>2, <2>3, <2>4, DeviceLoads
<1>l. ASSUME NEW r \in DeviceForms, Change(r)
      PROVE  DeviceInv'
  <2>1. /\ step[r] = "load" /\ step' = [step EXCEPT ![r] = "call"] /\ post' = post \cup {r}
        /\ UNCHANGED <<row, devices, reply, read, failed, crossed, suspect>>
    BY <1>l DEF Change
  <2>2. r \in DeviceRequests /\ r \notin DeviceAdds
    BY DeviceKinds DEF DevicePushers
  <2>3. /\ step' \in [DeviceRequests -> {"new", "load", "call", "done"}] /\ step'[r] = "call"
        /\ \A q \in DeviceRequests \ {r} : step'[q] = step[q]
    BY <2>1, <2>2 DEF DeviceInv, DeviceTypeOK
  <2>4. Calling' = Calling
    BY <2>1, <2>2, <2>3 DEF Calling
  <2>5. \A q, f : Answers(q, f)' = Answers(q, f)
    BY <2>1 DEF Answers, Doubtful
  <2>6. reply[r] = NoDevice
    BY <2>1, <2>2 DEF DeviceInv, StageInv
  <2>7. StageInv'
    BY <2>1, <2>2, <2>3, <2>4, <2>6 DEF DeviceInv, StageInv
  <2>8. DeviceTypeOK' /\ RowInv'
    BY <2>1, <2>2, <2>3, <2>4, <2>5 DEF DeviceInv, DeviceTypeOK, RowInv
  <2>9. QED
    BY <2>7, <2>8 DEF DeviceInv
<1>k. ASSUME NEW r \in DeviceForms, ChangeRefused(r)
      PROVE  DeviceInv'
  <2>1. /\ step[r] = "load" /\ failed' = failed \cup {r} /\ Leaves(r)
        /\ row' = row /\ suspect' = suspect
    BY <1>k DEF ChangeRefused
  <2>2. r \in DeviceRequests /\ r \notin DeviceAdds /\ r \in Calling /\ reply[r] = NoDevice
    BY <2>1, DeviceKinds DEF DevicePushers, Calling, DeviceInv, StageInv
  <2>3. row # NoDevice /\ row \in DeviceRows /\ devices[row.id] # NoDevice
        /\ suspect \subseteq {"name", "token"}
    BY <2>2 DEF DeviceInv, DeviceTypeOK, StageInv
  <2>4. \A f : ~Answers(r, f)
    BY <2>2 DEF Answers
  <2>5. /\ "token" \notin suspect => \/ row.token = devices[row.id].token
                                     \/ \E q \in Calling \ {r} : Answers(q, "token")
        /\ "name" \notin suspect => \/ row.name = devices[row.id].name
                                    \/ \E q \in Calling \ {r} : Answers(q, "name")
    BY <2>3, <2>4 DEF DeviceInv, RowInv
  <2>6. QED
    BY <2>1, <2>2, <2>3, <2>5, DeviceLeaves
<1>3. ASSUME NEW r \in DeviceRequests \ (DeviceAdds \cup DeviceForms), Press(r)
      PROVE  DeviceInv'
  <2>1. row # NoDevice /\ row \in DeviceRows /\ Calls(r, row)
    BY <1>3 DEF Press, DeviceInv, DeviceTypeOK
  <2>2. QED
    BY <2>1, DeviceLoads DEF Calls
<1>4. ASSUME NEW r \in DeviceAdds, CreateDevice(r)
      PROVE  DeviceInv'
  <2>1. PICK n \in IF step[r] = "call" THEN {read[r].name} ELSE DeviceNames :
          /\ Answered(r, [name |-> n, token |-> 0])
          /\ devices' = [devices EXCEPT ![r] = [name |-> n, token |-> 0]]
    BY <1>4 DEF CreateDevice
  <2>2. r \in DeviceRequests /\ r \in DeviceIds
    BY DeviceKinds
  <2>3. step[r] = "call" => read[r].id = r /\ read[r] \in DeviceRows
    BY <2>2 DEF DeviceInv, DeviceTypeOK, StageInv
  <2>4. [name |-> n, token |-> 0] \in Accounts
    BY <2>1, <2>3 DEF Accounts, DeviceRows
  <2> DEFINE account == [name |-> n, token |-> 0]
  <2>5. account \in Accounts /\ account # NoDevice
    BY <2>4, NoDeviceAssumption
  <2> HIDE DEF account
  <2>6. /\ devices' = [devices EXCEPT ![r] = account] /\ Answered(r, account)
        /\ devices \in [DeviceIds -> Accounts \cup {NoDevice}]
    BY <2>1 DEF account, DeviceInv, DeviceTypeOK
  <2>7. /\ devices' \in [DeviceIds -> Accounts \cup {NoDevice}] /\ devices'[r] = account
        /\ \A i \in DeviceIds \ {r} : devices'[i] = devices[i]
    BY <2>2, <2>5, <2>6
  <2>8. QED
    BY <2>2, <2>3, <2>5, <2>6, <2>7, DeviceAnswered
<1>5. ASSUME NEW r \in DevicePushers, UpdateDevice(r)
      PROVE  DeviceInv'
  <2>1. PICK i \in IF step[r] = "call" THEN {read[r].id} ELSE DeviceIds,
             n \in IF step[r] = "call" THEN {read[r].name} ELSE DeviceNames :
          /\ devices[i] # NoDevice
          /\ devices' = [devices EXCEPT ![i].name = n]
          /\ Answered(r, devices'[i])
    BY <1>5 DEF UpdateDevice
  <2>2. r \in DeviceRequests /\ r \notin DeviceAdds /\ Doubtful(r) = {"name"}
    BY DeviceKinds
  <2>3. step[r] = "call" => read[r] \in DeviceRows
    BY <2>2, DeviceAlone
  <2>4. i \in DeviceIds /\ n \in DeviceNames
    BY <2>1, <2>3 DEF DeviceRows
  <2>5. /\ devices \in [DeviceIds -> Accounts \cup {NoDevice}] /\ devices[i] \in Accounts
    BY <2>1, <2>4 DEF DeviceInv, DeviceTypeOK
  <2> DEFINE account == [devices[i] EXCEPT !.name = n]
  <2>6. account \in Accounts /\ account.token = devices[i].token
    BY <2>4, <2>5 DEF Accounts
  <2>7. devices' = [devices EXCEPT ![i] = account]
    BY <2>1
  <2> HIDE DEF account
  <2>8. account # NoDevice
    BY <2>6, NoDeviceAssumption
  <2>9. /\ devices' \in [DeviceIds -> Accounts \cup {NoDevice}] /\ devices'[i] = account
        /\ \A j \in DeviceIds \ {i} : devices'[j] = devices[j]
    BY <2>4, <2>5, <2>6, <2>7
  <2>10. step[r] = "call" => i = read[r].id
    BY <2>1
  <2>11. QED
    BY <2>1, <2>2, <2>6, <2>8, <2>9, <2>10, DeviceAnswered
<1>6. ASSUME NEW r \in DeviceRotates, RotateDevice(r)
      PROVE  DeviceInv'
  <2>1. PICK i \in IF step[r] = "call" THEN {read[r].id} ELSE DeviceIds :
          /\ devices[i] # NoDevice
          /\ devices' = [devices EXCEPT ![i].token = @ + 1]
          /\ Answered(r, devices'[i])
    BY <1>6 DEF RotateDevice
  <2>2. r \in DeviceRequests /\ r \notin DeviceAdds /\ Doubtful(r) = {"token"}
    BY DeviceKinds
  <2>3. step[r] = "call" => read[r] \in DeviceRows
    BY <2>2, DeviceAlone
  <2>4. i \in DeviceIds
    BY <2>1, <2>3 DEF DeviceRows
  <2>5. devices \in [DeviceIds -> Accounts \cup {NoDevice}] /\ devices[i] \in Accounts
    BY <2>1, <2>4 DEF DeviceInv, DeviceTypeOK
  <2> DEFINE account == [devices[i] EXCEPT !.token = @ + 1]
  <2>6. account \in Accounts /\ account.name = devices[i].name
    BY <2>4, <2>5 DEF Accounts
  <2>7. devices' = [devices EXCEPT ![i] = account]
    BY <2>1
  <2> HIDE DEF account
  <2>8. account # NoDevice
    BY <2>6, NoDeviceAssumption
  <2>9. /\ devices' \in [DeviceIds -> Accounts \cup {NoDevice}] /\ devices'[i] = account
        /\ \A j \in DeviceIds \ {i} : devices'[j] = devices[j]
    BY <2>4, <2>5, <2>6, <2>7
  <2>10. step[r] = "call" => i = read[r].id
    BY <2>1
  <2>11. QED
    BY <2>1, <2>2, <2>6, <2>8, <2>9, <2>10, DeviceAnswered
<1>7. ASSUME NEW r \in DeviceRepairs, ShowDevice(r)
      PROVE  DeviceInv'
  <2>1. r \in DeviceRequests /\ r \notin DeviceAdds /\ step[r] = "call"
    BY <1>7, DeviceKinds DEF ShowDevice
  <2>2. devices[read[r].id] \in Accounts
    BY <2>1, DeviceAlone
  <2>3. Answered(r, devices[read[r].id]) /\ devices' = devices
    BY <1>7 DEF ShowDevice
  <2>4. devices \in [DeviceIds -> Accounts \cup {NoDevice}]
    BY DEF DeviceInv, DeviceTypeOK
  <2>5. QED
    BY <2>1, <2>2, <2>3, <2>4, DeviceAnswered
<1>8. ASSUME NEW r \in DeviceRequests, DropCall(r)
      PROVE  DeviceInv'
  <2>1. /\ UNCHANGED <<row, devices, reply, step, read, failed, crossed, suspect>>
        /\ post' = post \ {r}
    BY <1>8 DEF DropCall
  <2>2. \A q, f : Answers(q, f)' = Answers(q, f)
    BY <2>1 DEF Answers, Doubtful
  <2>3. Calling' = Calling
    BY <2>1 DEF Calling
  <2>4. QED
    BY <2>1, <2>2, <2>3 DEF DeviceInv, DeviceTypeOK, StageInv, RowInv
<1>9. CASE MarkDevice
  <2>1. /\ UNCHANGED <<devices, post, reply, step, read, failed, crossed, suspect>>
        /\ row # NoDevice /\ row' = [row EXCEPT !.status = "repair_required"]
    BY <1>9 DEF MarkDevice
  <2>2. row \in DeviceRows
    BY <2>1 DEF DeviceInv, DeviceTypeOK
  <2>3. /\ row' \in DeviceRows /\ row'.id = row.id
        /\ row'.name = row.name /\ row'.token = row.token
    BY <2>1, <2>2 DEF DeviceRows
  <2>4. row' # NoDevice
    BY <2>3, NoDeviceAssumption
  <2>5. \A q, f : Answers(q, f)' = Answers(q, f)
    BY <2>1 DEF Answers, Doubtful
  <2>6. Calling' = Calling
    BY <2>1 DEF Calling
  <2>7. QED
    BY <2>1, <2>3, <2>4, <2>5, <2>6 DEF DeviceInv, DeviceTypeOK, StageInv, RowInv
<1>10. ASSUME NEW r \in DeviceAdds, AddRefused(r)
       PROVE  DeviceInv'
  <2>1. /\ step[r] = "new" /\ row # NoDevice /\ failed' = failed \cup {r} /\ Leaves(r)
        /\ row' = row /\ suspect' = suspect
    BY <1>10 DEF AddRefused
  <2>2. row \in DeviceRows /\ devices[row.id] # NoDevice /\ suspect \subseteq {"name", "token"}
    BY <2>1 DEF DeviceInv, DeviceTypeOK
  <2>3. r \notin Calling /\ r \in DeviceRequests
    BY <2>1, DeviceKinds DEF Calling
  <2>4. /\ "token" \notin suspect => \/ row.token = devices[row.id].token
                                     \/ \E q \in Calling \ {r} : Answers(q, "token")
        /\ "name" \notin suspect => \/ row.name = devices[row.id].name
                                    \/ \E q \in Calling \ {r} : Answers(q, "name")
    BY <2>1, <2>3 DEF DeviceInv, RowInv
  <2>5. QED
    BY <2>1, <2>2, <2>3, <2>4, DeviceLeaves
<1>11. ASSUME NEW r \in DeviceAdds, Added(r)
       PROVE  DeviceInv'
  <2>1. /\ reply[r] # NoDevice /\ Leaves(r) /\ failed' = failed /\ suspect' = suspect
        /\ row' = [read[r] EXCEPT !.name = reply[r].name, !.token = reply[r].token]
    BY <1>11 DEF Added
  <2>2. r \in DeviceRequests /\ suspect \subseteq {"name", "token"}
    BY DeviceKinds DEF DeviceInv, DeviceTypeOK
  <2>3. step[r] = "call" /\ row = NoDevice /\ read[r] # NoDevice /\ read[r].id = r
        /\ devices[r] # NoDevice
    BY <2>1, <2>2 DEF DeviceInv, DeviceTypeOK, StageInv
  <2>4. read[r] \in DeviceRows /\ reply[r] \in Accounts
    BY <2>1, <2>2, <2>3 DEF DeviceInv, DeviceTypeOK
  <2>5. /\ row' \in DeviceRows /\ row'.id = r
        /\ row'.name = reply[r].name /\ row'.token = reply[r].token
    BY <2>1, <2>3, <2>4 DEF DeviceRows, Accounts
  <2>6. row' # NoDevice
    BY <2>5, NoDeviceAssumption
  <2>7. r \in Calling
    BY <2>2, <2>3 DEF Calling
  <2>8. r \in crossed => suspect = {"name", "token"}
    BY <2>7 DEF DeviceInv, RowInv
  <2>9. r \notin crossed => reply[r] = devices[r]
    BY <2>1, <2>3, <2>7 DEF DeviceInv, RowInv
  <2>10. QED
    BY <2>1, <2>2, <2>3, <2>5, <2>6, <2>7, <2>8, <2>9, DeviceLeaves
<1>12. ASSUME NEW r \in DeviceAdds \cup DeviceForms, FormTakenBack(r)
       PROVE  DeviceInv'
  <2>1. /\ step[r] = "call" /\ failed' = failed \cup {r} /\ Leaves(r) /\ row' = row
        /\ suspect' = suspect \cup Doubtful(r) /\ r \in DeviceRequests
    BY <1>12, DeviceKinds DEF FormTakenBack
  <2>2. row # NoDevice => row \in DeviceRows
    BY DEF DeviceInv, DeviceTypeOK
  <2>3. QED
    BY <2>1, <2>2, DeviceFails
<1>13. ASSUME NEW r \in DeviceRequests \ (DeviceAdds \cup DeviceForms), PressFails(r)
       PROVE  DeviceInv'
  <2>1. /\ step[r] = "call" /\ failed' = failed \cup {r} /\ Leaves(r)
        /\ suspect' = suspect \cup Doubtful(r)
    BY <1>13 DEF PressFails
  <2>2. PICK s \in {"sync_failed", "repair_required"} : row' = [row EXCEPT !.status = s]
    BY <1>13 DEF PressFails
  <2>3. row \in DeviceRows /\ row # NoDevice
    BY <2>1, DeviceAlone
  <2>4. /\ row' \in DeviceRows /\ row'.id = row.id
        /\ row'.token = row.token /\ row'.name = row.name
    BY <2>2, <2>3 DEF DeviceRows
  <2>5. QED
    BY <2>1, <2>3, <2>4, DeviceFails
<1>14. ASSUME NEW r \in DevicePushers \cup DeviceRepairs, Pushed(r)
       PROVE  DeviceInv'
  <2>1. /\ reply[r] # NoDevice /\ Leaves(r) /\ failed' = failed
        /\ suspect' = IF r \in crossed THEN suspect ELSE suspect \ {"name"}
        /\ row' = [read[r] EXCEPT !.name = reply[r].name, !.status = "synced"]
    BY <1>14 DEF Pushed, Settled
  <2>2. r \in DeviceRequests \ DeviceAdds /\ "token" \notin Doubtful(r)
    BY DeviceKinds
  <2>3. step[r] = "call" /\ reply[r] \in Accounts /\ suspect \subseteq {"name", "token"}
    BY <2>1, <2>2 DEF DeviceInv, DeviceTypeOK, StageInv
  <2>c. r \in Calling
    BY <2>2, <2>3 DEF Calling
  <2>4. /\ row \in DeviceRows /\ row # NoDevice /\ read[r] \in DeviceRows
        /\ read[r].id = row.id /\ devices[row.id] \in Accounts
        /\ r \in crossed => suspect = {"name", "token"}
        /\ r \notin crossed =>
             /\ read[r].token = row.token
             /\ reply[r] # NoDevice => reply[r] = devices[row.id]
             /\ "token" \notin suspect /\ "token" \notin Doubtful(r) =>
                  row.token = devices[row.id].token
    BY <2>2, <2>3, DeviceAlone
  <2>5. /\ row' \in DeviceRows /\ row'.id = row.id
        /\ row'.name = reply[r].name /\ row'.token = read[r].token
    BY <2>1, <2>3, <2>4 DEF DeviceRows, Accounts
  <2>6. row' # NoDevice /\ devices[row'.id] # NoDevice
    BY <2>4, <2>5, NoDeviceAssumption
  <2>7. "token" \notin suspect' => row'.token = devices[row'.id].token
    BY <2>1, <2>2, <2>4, <2>5
  <2>8. "name" \notin suspect' => row'.name = devices[row'.id].name
    BY <2>1, <2>4, <2>5
  <2>9. QED
    BY <2>1, <2>2, <2>3, <2>5, <2>6, <2>7, <2>8, <2>c, DeviceLeaves
<1>15. ASSUME NEW r \in DeviceRotates, TokenRotated(r)
       PROVE  DeviceInv'
  <2>1. /\ reply[r] # NoDevice /\ Leaves(r) /\ failed' = failed
        /\ suspect' = IF r \in crossed THEN suspect ELSE suspect \ {"token"}
        /\ row' = [row EXCEPT !.token = reply[r].token, !.status = "synced"]
    BY <1>15 DEF TokenRotated, Settled
  <2>2. r \in DeviceRequests \ DeviceAdds /\ "name" \notin Doubtful(r)
    BY DeviceKinds
  <2>3. step[r] = "call" /\ reply[r] \in Accounts /\ suspect \subseteq {"name", "token"}
    BY <2>1, <2>2 DEF DeviceInv, DeviceTypeOK, StageInv
  <2>c. r \in Calling
    BY <2>2, <2>3 DEF Calling
  <2>4. /\ row \in DeviceRows /\ row # NoDevice /\ devices[row.id] \in Accounts
        /\ r \in crossed => suspect = {"name", "token"}
        /\ r \notin crossed =>
             /\ reply[r] # NoDevice => reply[r] = devices[row.id]
             /\ "name" \notin suspect /\ "name" \notin Doubtful(r) =>
                  row.name = devices[row.id].name
    BY <2>2, <2>3, DeviceAlone
  <2>5. /\ row' \in DeviceRows /\ row'.id = row.id
        /\ row'.name = row.name /\ row'.token = reply[r].token
    BY <2>1, <2>3, <2>4 DEF DeviceRows, Accounts
  <2>6. row' # NoDevice /\ devices[row'.id] # NoDevice
    BY <2>4, <2>5, NoDeviceAssumption
  <2>7. "token" \notin suspect' => row'.token = devices[row'.id].token
    BY <2>1, <2>4, <2>5
  <2>8. "name" \notin suspect' => row'.name = devices[row'.id].name
    BY <2>1, <2>2, <2>4, <2>5
  <2>9. QED
    BY <2>1, <2>2, <2>3, <2>5, <2>6, <2>7, <2>8, <2>c, DeviceLeaves
<1>16. CASE UNCHANGED deviceVars
  <2>1. UNCHANGED <<row, devices, post, reply, step, read, failed, crossed, suspect>>
    BY <1>16 DEF deviceVars
  <2>2. \A q, f : Answers(q, f)' = Answers(q, f)
    BY <2>1 DEF Answers, Doubtful
  <2>3. Calling' = Calling
    BY <2>1 DEF Calling
  <2>4. QED
    BY <2>1, <2>2, <2>3 DEF DeviceInv, DeviceTypeOK, StageInv, RowInv
<1>17. QED
  BY <1>1, <1>2, <1>l, <1>k, <1>3, <1>4, <1>5, <1>6, <1>7, <1>8, <1>9, <1>10, <1>11, <1>12,
     <1>13, <1>14, <1>15, <1>16 DEF DeviceNext

\* The steps of Accounts are steps of its devices, and no other component moves them.
LEMMA DeviceAlways == AccountsSpec => []DeviceInv
<1>1. AccountsInit => DeviceInit
  BY DEF AccountsInit
<1>2. [AccountsNext]_accountsVars => [DeviceNext]_deviceVars
  BY DEF AccountsNext, accountsVars
<1>3. QED
  BY <1>1, <1>2, DeviceInitial, DeviceStep, PTL DEF AccountsSpec

\* The row is as the account is, for every request that ran alone to a good end.
THEOREM DeviceRowsAreServers == AccountsSpec => []DeviceIsServers
<1>1. DeviceInv => DeviceIsServers
  BY DEF DeviceInv, RowInv, DeviceIsServers
<1>2. QED
  BY <1>1, DeviceAlways, PTL

\* An account without a row is left only by a form that told its user that it failed.
THEOREM OrphanDevicesAreTold == AccountsSpec => []OrphanDeviceOnlyByError
<1>1. DeviceInv => OrphanDeviceOnlyByError
  BY DEF DeviceInv, StageInv, OrphanDeviceOnlyByError
<1>2. QED
  BY <1>1, DeviceAlways, PTL
-----------------------------------------------------------------------------
(* The copy of the sites. *)

Entries(r) == DOMAIN todo[r]
Site(r, k) == todo[r][k][1]
Label(r, k) == todo[r][k][2]

\* Requests have something to store or to send where they need it.
RequestOf(r) ==
  /\ at[r] \in IF r \in Listings THEN {"new", "rows", "store", "done"}
               ELSE {"new", "post", "commit", "done"}
  /\ at[r] \in {"new", "done"} => todo[r] = <<>>
  /\ at[r] = "store" => todo[r] # <<>>
  /\ at[r] = "new" => r \notin overtaken
  /\ Unique(listed[r])
  /\ at[r] \in {"post", "commit"} =>
       posted[r] # <<>> /\ (todo[r] # <<>> => posted[r][3] = FALSE)

\* A request that nothing overtook is the only one.
RequestInv ==
  \A r \in SiteRequests : RequestOf(r) /\ (r \in Busy /\ r \notin overtaken => Busy = {r})

Fits == Cardinality(Present(sites)) <= ListSize

\* The list of r is what the server has now, as far as it goes.
Current(r) ==
  /\ Fits => listed[r] = sites
  /\ \A k \in Entries(r) : Site(r, k) \in Present(sites) /\ Label(r, k) = sites[Site(r, k)]

\* What a refresh that nothing overtook has done so far, and has yet to do.
QuietListing(r) ==
  /\ Current(r)
  /\ Fits => \A i \in Present(sites) :
       mirror[i] = sites[i] \/ \E k \in Entries(r) : Site(r, k) = i
  /\ at[r] = "store" => \A i \in SiteIds \ {Site(r, 1)} : mirror[i] # Label(r, 1)

\* A form that nothing overtook knows the sites, but for the one it has changed.
QuietForm(r) ==
  /\ at[r] = "post" /\ Fits /\ todo[r] # <<>> => listed[r] = sites
  /\ at[r] = "commit" =>
       /\ sites[posted[r][1]] = posted[r][2]
       /\ Fits /\ todo[r] # <<>> =>
            \A i \in SiteIds \ {posted[r][1]} : sites[i] = listed[r][i]

Quiet(r) == IF r \in Listings THEN QuietListing(r) ELSE QuietForm(r)

QuietSites ==
  /\ \A r \in Busy \ overtaken : Quiet(r)
  /\ exact => /\ mirror = sites /\ Fits
              /\ \A r \in Listings : at[r] \in {"rows", "store"} => Current(r)

SiteInv == SiteTypeOK /\ RequestInv /\ QuietSites

LEMMA PresentIs ==
  ASSUME NEW c \in Copies
  PROVE  /\ Present(c) \in SUBSET SiteIds /\ IsFiniteSet(Present(c))
         /\ Cardinality(Present(c)) \in Nat
         /\ \A i \in SiteIds : i \in Present(c) <=> c[i] \in Labels
<1>1. Present(c) \in SUBSET SiteIds /\ \A i \in SiteIds : i \in Present(c) <=> c[i] \in Labels
  BY SiteMirrorAssumption DEF Present, Copies
<1>2. IsFiniteSet(Present(c))
  BY <1>1, SiteMirrorAssumption, FS_Subset
<1>3. QED
  BY <1>1, <1>2, FS_CardinalityType

LEMMA SiteInitial == SiteInit => SiteInv
<1> SUFFICES ASSUME SiteInit
             PROVE  SiteInv
  OBVIOUS
<1>1. /\ sites \in Copies /\ Unique(sites) /\ mirror = sites
      /\ renames = 0 /\ 0 \in 0 .. MaxRenames /\ exact = Fits /\ overtaken = {}
      /\ Listings \subseteq SiteRequests /\ SiteForms \subseteq SiteRequests
  BY SiteMirrorAssumption, Sites0Assumption DEF SiteInit, Copies, Fits, SiteRequests
<1>2. Fits \in BOOLEAN
  BY DEF Fits
<1>3. Absent \in Copies /\ Unique(Absent)
  BY DEF Absent, Copies, Unique, Present
<1>4. \A r \in SiteRequests : at[r] = "new" /\ todo[r] = <<>> /\ listed[r] = Absent
  BY DEF SiteInit
<1>5. SiteTypeOK
  BY <1>1, <1>2, <1>3, EmptySeq DEF SiteInit, SiteTypeOK
<1>6. RequestInv
  BY <1>1, <1>3, <1>4 DEF RequestInv, RequestOf, Busy
<1>7. QuietSites
  BY <1>1, <1>4 DEF QuietSites, Busy
<1>8. QED
  BY <1>5, <1>6, <1>7 DEF SiteInv

\* A step of request r, when nothing that was not overtaken runs beside it.
LEMMA SiteMoves ==
  ASSUME SiteInv, NEW r \in SiteRequests, SiteTypeOK',
         \A q \in SiteRequests \ {r} :
           at'[q] = at[q] /\ todo'[q] = todo[q] /\ listed'[q] = listed[q],
         \A q \in SiteForms \ {r} : posted'[q] = posted[q],
         overtaken \subseteq overtaken', overtaken' \subseteq overtaken \cup Busy \cup {r},
         Busy \ {r} \subseteq overtaken',
         RequestOf(r)',
         r \in Busy' /\ r \notin overtaken' => Busy \subseteq {r} /\ Quiet(r)',
         exact' => /\ UNCHANGED sites /\ mirror' = sites /\ Fits
                   /\ r \in Listings /\ at'[r] \in {"rows", "store"} => Current(r)'
                   /\ exact \/ Busy \subseteq {r}
  PROVE  SiteInv'
<1> USE DEF SiteInv
<1>1. Busy' \ {r} = Busy \ {r} /\ Busy \subseteq SiteRequests
  BY DEF Busy
<1>2. \A q \in SiteRequests \ {r} : RequestOf(q)'
  <2> SUFFICES ASSUME NEW q \in SiteRequests \ {r}
               PROVE  RequestOf(q)'
    OBVIOUS
  <2>1. RequestOf(q) /\ at'[q] = at[q] /\ todo'[q] = todo[q] /\ listed'[q] = listed[q]
    BY DEF RequestInv
  <2>2. at[q] = "new" => q \notin overtaken'
    BY <2>1 DEF Busy, RequestOf
  <2>3. at[q] \in {"post", "commit"} => posted'[q] = posted[q]
    BY <2>1 DEF RequestOf, SiteRequests
  <2>4. Unique(listed[q])' <=> Unique(listed[q])
    BY <2>1 DEF Unique, Present
  <2>5. QED
    BY <2>1, <2>2, <2>3, <2>4 DEF RequestOf
<1>3. \A q \in SiteRequests : q \in Busy' /\ q \notin overtaken' => q = r /\ Busy' = {q}
  BY <1>1
<1>4. RequestInv'
  BY <1>2, <1>3 DEF RequestInv
<1>5. ASSUME exact', NEW q \in Listings, at'[q] \in {"rows", "store"}
      PROVE  Current(q)'
  <2>1. CASE q = r
    BY <1>5, <2>1
  <2>2. CASE q # r
    <3>1. q \in SiteRequests /\ at[q] \in {"rows", "store"} /\ q \in Busy
      BY <1>5, <2>2 DEF SiteRequests, Busy
    <3>2. exact /\ Current(q) /\ UNCHANGED sites
      BY <1>5, <2>2, <3>1 DEF QuietSites
    <3>3. listed'[q] = listed[q] /\ todo'[q] = todo[q]
      BY <2>2, <3>1
    <3>4. QED
      BY <3>2, <3>3 DEF Current, Entries, Site, Label, Fits, Present
  <2>3. QED
    BY <2>1, <2>2
<1>6. exact' => mirror' = sites' /\ Fits'
  BY DEF Fits, Present
<1>7. \A q \in Busy' \ overtaken' : Quiet(q)'
  <2>1. \A q \in Busy' \ overtaken' : q = r
    BY <1>3 DEF Busy
  <2>2. QED
    BY <2>1
<1>8. QuietSites'
  BY <1>5, <1>6, <1>7 DEF QuietSites
<1>9. QED
  BY <1>4, <1>8

LEMMA FunctionIsSeq ==
  ASSUME NEW T, NEW n \in Nat, NEW f \in [1 .. n -> T]
  PROVE  f \in Seq(T)
BY SeqDef

\* What a list of the sites holds.
LEMMA ListHolds ==
  ASSUME SiteTypeOK, NEW r \in SiteRequests, Listed(r)
  PROVE  /\ todo' \in [SiteRequests -> Seq(SiteIds \X Labels)]
         /\ listed' \in [SiteRequests -> Copies]
         /\ \A q \in SiteRequests \ {r} : todo'[q] = todo[q] /\ listed'[q] = listed[q]
         /\ Unique(listed'[r])
         /\ Fits => listed'[r] = sites
         /\ \A k \in DOMAIN todo'[r] :
              todo'[r][k][1] \in Present(sites) /\ todo'[r][k][2] = sites[todo'[r][k][1]]
         /\ \A i \in Present(listed'[r]) : \E k \in DOMAIN todo'[r] : todo'[r][k][1] = i
<1>1. PICK S \in FirstPage : \E order \in SetToSeqs(S) :
        /\ todo' = [todo EXCEPT ![r] = [k \in DOMAIN order |-> <<order[k], sites[order[k]]>>]]
        /\ listed' = [listed EXCEPT ![r] =
             [i \in SiteIds |-> IF i \in S THEN sites[i] ELSE NoLabel]]
  BY DEF Listed
<1>2. PICK order \in SetToSeqs(S) :
        todo' = [todo EXCEPT ![r] = [k \in DOMAIN order |-> <<order[k], sites[order[k]]>>]]
  BY <1>1
<1> DEFINE n == Cardinality(S)
           list == [k \in 1 .. n |-> <<order[k], sites[order[k]]>>]
           copy == [i \in SiteIds |-> IF i \in S THEN sites[i] ELSE NoLabel]
<1>3. sites \in Copies /\ Unique(sites)
  BY DEF SiteTypeOK
<1>4. /\ Present(sites) \in SUBSET SiteIds /\ IsFiniteSet(Present(sites))
      /\ Cardinality(Present(sites)) \in Nat
      /\ \A i \in SiteIds : i \in Present(sites) <=> sites[i] \in Labels
  BY <1>3, PresentIs
<1>5. S \in SUBSET Present(sites) /\ IsFiniteSet(S) /\ n \in Nat
  BY <1>1, <1>4, FS_Subset, FS_CardinalityType DEF FirstPage
<1>6. Fits => S = Present(sites)
  <2>1. Fits => n = Cardinality(Present(sites))
    BY <1>1, <1>4, SiteMirrorAssumption DEF FirstPage, Fits
  <2>2. QED
    BY <1>4, <1>5, <2>1, FS_Subset
<1>7. order \in [1 .. n -> S] /\ \A i, j \in 1 .. n : order[i] = order[j] => i = j
  BY <1>2 DEF SetToSeqs
<1>8. \A i \in S : \E k \in 1 .. n : order[k] = i
  <2>1. order \in Injection(1 .. n, S)
    BY <1>7, Fun_IsInj
  <2>2. Cardinality(1 .. n) = n
    BY <1>5, FS_Interval
  <2>3. order \in Surjection(1 .. n, S)
    BY <1>5, <2>1, <2>2, FS_Injection
  <2>4. QED
    BY <2>3 DEF Surjection
<1>9. list \in Seq(SiteIds \X Labels) /\ DOMAIN list = 1 .. n
  <2>1. \A k \in 1 .. n : <<order[k], sites[order[k]]>> \in SiteIds \X Labels
    BY <1>4, <1>5, <1>7
  <2>2. list \in [1 .. n -> SiteIds \X Labels]
    BY <2>1
  <2>3. QED
    BY <1>5, <2>2, FunctionIsSeq
<1>10. copy \in Copies /\ Unique(copy) /\ Present(copy) = S /\ (Fits => copy = sites)
  <2>1. copy \in Copies /\ Present(copy) = S
    BY <1>3, <1>4, <1>5, SiteMirrorAssumption DEF Copies, Present
  <2>2. Unique(copy)
    <3>1. \A i \in S : copy[i] = sites[i] /\ i \in Present(sites)
      BY <1>4, <1>5
    <3> HIDE DEF copy
    <3>2. QED
      BY <1>3, <2>1, <3>1 DEF Unique
  <2>3. Fits => copy = sites
    BY <1>3, <1>4, <1>6 DEF Copies, Present
  <2>4. QED
    BY <2>1, <2>2, <2>3
<1>11. \A k \in 1 .. n : /\ list[k][1] = order[k] /\ order[k] \in Present(sites)
                         /\ list[k][2] = sites[order[k]]
  BY <1>5, <1>7
<1>12. todo' = [todo EXCEPT ![r] = list] /\ listed' = [listed EXCEPT ![r] = copy]
  BY <1>1, <1>2, <1>7
<1> HIDE DEF list, copy, n
<1>13. todo'[r] = list /\ listed'[r] = copy
  BY <1>12 DEF SiteTypeOK
<1>14. /\ todo' \in [SiteRequests -> Seq(SiteIds \X Labels)]
       /\ listed' \in [SiteRequests -> Copies]
       /\ \A q \in SiteRequests \ {r} : todo'[q] = todo[q] /\ listed'[q] = listed[q]
  BY <1>9, <1>10, <1>12 DEF SiteTypeOK
<1>15. \A i \in S : \E k \in DOMAIN list : list[k][1] = i
  BY <1>8, <1>9, <1>11
<1>16. QED
  BY <1>9, <1>10, <1>11, <1>13, <1>14, <1>15

\* Beside a request that nothing overtook there is no other.
LEMMA OthersAreOvertaken ==
  ASSUME SiteInv, NEW r \in Busy
  PROVE  /\ r \in SiteRequests /\ RequestOf(r)
         /\ Busy \ {r} \subseteq overtaken
         /\ r \notin overtaken => Busy = {r} /\ Quiet(r)
BY DEF SiteInv, RequestInv, QuietSites, Busy

\* A site that is posted, and the entry that a refresh stores next.
LEMMA PostedType ==
  ASSUME SiteTypeOK, NEW r \in SiteForms, posted[r] # <<>>
  PROVE  posted[r][1] \in SiteIds /\ posted[r][2] \in Labels /\ posted[r][3] \in BOOLEAN
BY DEF SiteTypeOK

LEMMA EntryType ==
  ASSUME SiteTypeOK, NEW r \in SiteRequests
  PROVE  /\ \A k \in Entries(r) : Site(r, k) \in SiteIds /\ Label(r, k) \in Labels
         /\ todo[r] # <<>> <=> 1 \in Entries(r)
         /\ todo[r] = <<>> => Entries(r) = {}
         /\ todo[r] # <<>> =>
              /\ Tail(todo[r]) \in Seq(SiteIds \X Labels)
              /\ \A k \in DOMAIN Tail(todo[r]) :
                   k + 1 \in Entries(r) /\ Tail(todo[r])[k] = todo[r][k + 1]
              /\ \A k \in Entries(r) \ {1} : \E m \in DOMAIN Tail(todo[r]) : k = m + 1
<1> DEFINE s == todo[r]
           Pair == SiteIds \X Labels
<1>1. s \in Seq(Pair)
  BY DEF SiteTypeOK
<1> HIDE DEF s
<1>2. Len(s) \in Nat /\ s \in [1 .. Len(s) -> Pair] /\ DOMAIN s = 1 .. Len(s)
  BY <1>1, LenProperties
<1>3. \A k \in DOMAIN s : s[k][1] \in SiteIds /\ s[k][2] \in Labels
  BY <1>2
<1>4. s # <<>> => Len(s) \in Nat \ {0}
  BY <1>1, EmptySeq
<1>5. s = <<>> => DOMAIN s = {}
  BY <1>2, EmptySeq
<1>6. s # <<>> =>
        /\ Tail(s) \in Seq(Pair) /\ Len(Tail(s)) = Len(s) - 1
        /\ \A i \in 1 .. Len(Tail(s)) : Tail(s)[i] = s[i + 1]
  BY <1>1, HeadTailProperties
<1>7. s # <<>> => DOMAIN Tail(s) = 1 .. Len(Tail(s))
  BY <1>6, LenProperties
<1>8. s # <<>> =>
        /\ \A k \in DOMAIN Tail(s) : k + 1 \in DOMAIN s /\ Tail(s)[k] = s[k + 1]
        /\ \A k \in (DOMAIN s) \ {1} : k - 1 \in DOMAIN Tail(s) /\ k = (k - 1) + 1
  BY <1>2, <1>4, <1>6, <1>7
<1>9. s # <<>> <=> 1 \in DOMAIN s
  BY <1>2, <1>4, <1>5
<1>10. QED
  BY <1>3, <1>5, <1>6, <1>8, <1>9 DEF s, Entries, Site, Label

\* A request that ends leaves the sites alone, and the copy exact if it says so.
LEMMA SiteEnds ==
  ASSUME SiteInv, NEW r \in Busy, Ends(r), UNCHANGED <<sites, renames, overtaken>>,
         mirror' \in Copies, Unique(mirror'), exact' \in BOOLEAN,
         exact' => mirror' = sites /\ Fits /\ (exact \/ Busy \subseteq {r})
  PROVE  SiteInv'
<1>1. r \in SiteRequests /\ Busy \ {r} \subseteq overtaken
  BY OthersAreOvertaken
<1>2. Absent \in Copies /\ Unique(Absent)
  BY DEF Absent, Copies, Unique, Present
<1>3. SiteTypeOK
  BY DEF SiteInv
<1>4. /\ \A q \in SiteRequests \ {r} :
            at'[q] = at[q] /\ todo'[q] = todo[q] /\ listed'[q] = listed[q]
      /\ \A q \in SiteForms \ {r} : posted'[q] = posted[q]
      /\ at'[r] = "done" /\ todo'[r] = <<>> /\ listed'[r] = Absent
  BY <1>1, <1>3 DEF Ends, SiteTypeOK
<1>5. /\ at' \in [SiteRequests -> {"new", "rows", "store", "post", "commit", "done"}]
      /\ listed' \in [SiteRequests -> Copies]
      /\ posted' \in [SiteForms -> (SiteIds \X Labels \X BOOLEAN) \cup {<<>>}]
  BY <1>1, <1>2, <1>3 DEF Ends, SiteTypeOK
<1>6. todo' \in [SiteRequests -> Seq(SiteIds \X Labels)]
  <2>1. <<>> \in Seq(SiteIds \X Labels)
    BY EmptySeq
  <2>2. QED
    BY <1>1, <1>3, <2>1 DEF Ends, SiteTypeOK
<1>7. Unique(sites)' <=> Unique(sites)
  BY DEF Unique, Present
<1>8. Unique(mirror)'
  BY DEF Unique, Present
<1>9. SiteTypeOK'
  BY <1>3, <1>5, <1>6, <1>7, <1>8 DEF SiteTypeOK
<1>10. Unique(listed[r])'
  BY <1>2, <1>4 DEF Unique, Present
<1>11. RequestOf(r)'
  BY <1>1, <1>4, <1>10 DEF RequestOf
<1>12. r \notin Busy'
  BY <1>4 DEF Busy
<1>13. QED
  BY <1>1, <1>4, <1>9, <1>11, <1>12, SiteMoves

\* A request that starts knows what it needs to know.
LEMMA SiteStarts ==
  ASSUME SiteInv, NEW r \in SiteRequests, NEW stage \in {"rows", "post"}, Starts(r, stage),
         stage = "rows" <=> r \in Listings,
         UNCHANGED <<sites, mirror, renames, exact>>,
         todo' \in [SiteRequests -> Seq(SiteIds \X Labels)],
         listed' \in [SiteRequests -> Copies], Unique(listed[r])',
         posted' \in [SiteForms -> (SiteIds \X Labels \X BOOLEAN) \cup {<<>>}],
         \A q \in SiteRequests \ {r} : todo'[q] = todo[q] /\ listed'[q] = listed[q],
         \A q \in SiteForms \ {r} : posted'[q] = posted[q],
         stage = "post" => posted'[r] # <<>> /\ (todo'[r] # <<>> => posted'[r][3] = FALSE),
         Quiet(r)', exact /\ r \in Listings => Current(r)'
  PROVE  SiteInv'
<1>1. SiteTypeOK /\ r \notin Busy /\ Busy \subseteq SiteRequests
  BY DEF SiteInv, Starts, Busy
<1>2. /\ at' \in [SiteRequests -> {"new", "rows", "store", "post", "commit", "done"}]
      /\ \A q \in SiteRequests \ {r} : at'[q] = at[q]
      /\ at'[r] = stage
  BY <1>1 DEF Starts, SiteTypeOK
<1>3. /\ overtaken \subseteq overtaken' /\ overtaken' \subseteq overtaken \cup Busy \cup {r}
      /\ Busy \subseteq overtaken' /\ (r \notin overtaken' => Busy = {})
  BY DEF Starts
<1>4. /\ Unique(sites)' /\ Unique(mirror)'
  BY <1>1 DEF SiteTypeOK, Unique, Present
<1>5. SiteTypeOK'
  BY <1>1, <1>2, <1>3, <1>4 DEF SiteTypeOK
<1>6. RequestOf(r)'
  BY <1>2 DEF RequestOf
<1>7. exact' => mirror' = sites /\ Fits /\ exact
  BY DEF SiteInv, QuietSites
<1>8. QED
  BY <1>1, <1>2, <1>3, <1>5, <1>6, <1>7, SiteMoves

\* A row of a refresh: what is left of the list is still current.
LEMMA SiteRows ==
  ASSUME SiteInv, NEW r \in Busy, r \in Listings,
         NEW stage \in {"rows", "store"}, at' = [at EXCEPT ![r] = stage],
         UNCHANGED <<sites, listed, posted, renames, overtaken, exact>>,
         mirror' \in Copies, Unique(mirror)',
         todo' \in [SiteRequests -> Seq(SiteIds \X Labels)],
         \A q \in SiteRequests \ {r} : todo'[q] = todo[q],
         stage = "store" => todo'[r] # <<>>,
         exact => mirror' = sites,
         Current(r) => Current(r)',
         QuietListing(r) => QuietListing(r)'
  PROVE  SiteInv'
<1>1. /\ SiteTypeOK /\ r \in SiteRequests /\ RequestOf(r)
      /\ Busy \ {r} \subseteq overtaken
      /\ r \notin overtaken => Busy = {r} /\ QuietListing(r)
  BY OthersAreOvertaken DEF SiteInv, Quiet
<1>2. /\ at' \in [SiteRequests -> {"new", "rows", "store", "post", "commit", "done"}]
      /\ \A q \in SiteRequests \ {r} : at'[q] = at[q]
      /\ at'[r] = stage
  BY <1>1 DEF SiteTypeOK
<1>3. Unique(sites)' /\ (Unique(listed[r])' <=> Unique(listed[r]))
  BY <1>1 DEF SiteTypeOK, Unique, Present
<1>4. SiteTypeOK'
  BY <1>1, <1>2, <1>3 DEF SiteTypeOK
<1>5. RequestOf(r)'
  BY <1>1, <1>2, <1>3 DEF RequestOf
<1>6. exact' => mirror' = sites /\ Fits /\ exact /\ Current(r)
  <2>1. r \in Listings /\ at[r] \in {"rows", "store"}
    BY <1>1 DEF RequestOf, Busy
  <2>2. QED
    BY <2>1 DEF SiteInv, QuietSites
<1>7. r \notin overtaken' => Quiet(r)'
  BY <1>1 DEF Quiet
<1>8. QED
  BY <1>1, <1>2, <1>4, <1>5, <1>6, <1>7, SiteMoves

LEMMA SiteClears == ASSUME SiteInv, NEW r \in Listings, Clear(r) PROVE SiteInv'
<1>1. SiteTypeOK /\ r \in SiteRequests /\ r \in Busy
  BY DEF SiteInv, SiteRequests, Clear, Busy
<1> DEFINE own == Site(r, 1)
           label == Label(r, 1)
<1>2. /\ 1 \in Entries(r) /\ own \in SiteIds /\ label \in Labels /\ label # NoLabel
      /\ sites \in Copies /\ Unique(sites) /\ mirror \in Copies /\ Unique(mirror)
  BY <1>1, EntryType, SiteMirrorAssumption DEF Clear, SiteTypeOK
<1>3. mirror' = [i \in SiteIds |->
                   IF i # own /\ mirror[i] = label THEN NoLabel ELSE mirror[i]]
  BY DEF Clear, Site, Label
<1>4. Current(r) => /\ own \in Present(sites) /\ label = sites[own]
                    /\ \A i \in SiteIds : sites[i] = label => i = own
  <2>1. Current(r) => own \in Present(sites) /\ label = sites[own]
    BY <1>2 DEF Current
  <2> HIDE DEF own, label
  <2>2. QED
    BY <1>2, <2>1 DEF Unique, Present
<1>5. UNCHANGED <<sites, todo, listed, posted, renames, overtaken, exact>>
  BY DEF Clear
<1>6. at' = [at EXCEPT ![r] = "store"] /\ at'[r] = "store" /\ todo[r] # <<>>
  BY <1>1 DEF Clear, SiteTypeOK
<1>7. own' = own /\ label' = label
  BY <1>5 DEF Site, Label
<1>8. Current(r) => Current(r)'
  BY <1>5 DEF Current, Entries, Site, Label, Fits, Present
<1> HIDE DEF own, label
<1>9. mirror' \in Copies /\ Unique(mirror)'
  BY <1>2, <1>3 DEF Copies, Unique, Present
<1>10. exact => mirror' = sites
  <2>1. exact => mirror = sites /\ Current(r)
    BY DEF SiteInv, QuietSites, Clear
  <2>2. QED
    BY <1>2, <1>3, <1>4, <2>1 DEF Copies
<1>11. QuietListing(r) => QuietListing(r)'
  <2> SUFFICES ASSUME QuietListing(r)
               PROVE  QuietListing(r)'
    OBVIOUS
  <2>1. Current(r) /\ Current(r)'
    BY <1>8 DEF QuietListing
  <2>2. ASSUME Fits', NEW i \in Present(sites)'
        PROVE  mirror'[i] = sites'[i] \/ \E k \in Entries(r)' : Site(r, k)' = i
    <3>1. Fits /\ i \in Present(sites) /\ i \in SiteIds
      BY <1>5, <2>2 DEF Fits, Present
    <3>2. mirror[i] = sites[i] \/ \E k \in Entries(r) : Site(r, k) = i
      BY <3>1 DEF QuietListing
    <3>3. mirror[i] = sites[i] => mirror'[i] = sites[i]
      BY <1>3, <1>4, <2>1, <3>1
    <3>4. QED
      BY <1>5, <3>2, <3>3 DEF Entries, Site
  <2>3. \A i \in SiteIds \ {own} : mirror'[i] # label
    BY <1>2, <1>3
  <2>4. \A i \in SiteIds \ {Site(r, 1)'} : mirror'[i] # Label(r, 1)'
    BY <1>7, <2>3 DEF own, label
  <2>5. QED
    BY <2>1, <2>2, <2>4 DEF QuietListing
<1>12. QED
  BY <1>1, <1>5, <1>6, <1>8, <1>9, <1>10, <1>11, SiteRows DEF SiteTypeOK

LEMMA SiteStores == ASSUME SiteInv, NEW r \in Listings, Store(r) PROVE SiteInv'
<1>1. SiteTypeOK /\ r \in SiteRequests /\ r \in Busy
  BY DEF SiteInv, SiteRequests, Store, Busy
<1>2. todo[r] # <<>>
  BY <1>1, OthersAreOvertaken DEF RequestOf, Store
<1> DEFINE own == Site(r, 1)
           label == Label(r, 1)
           rest == Tail(todo[r])
<1>3. /\ 1 \in Entries(r) /\ own \in SiteIds /\ label \in Labels
      /\ sites \in Copies /\ mirror \in Copies
  BY <1>1, <1>2, EntryType DEF SiteTypeOK
<1>4. /\ rest \in Seq(SiteIds \X Labels)
      /\ \A k \in DOMAIN rest : k + 1 \in Entries(r) /\ rest[k] = todo[r][k + 1]
      /\ \A k \in Entries(r) \ {1} : \E m \in DOMAIN rest : k = m + 1
  BY <1>1, <1>2, EntryType
<1>5. mirror' = [mirror EXCEPT ![own] = label]
  BY DEF Store, Site, Label
<1>6. mirror' \in Copies /\ Unique(mirror)'
  <2>1. mirror' \in Copies
    BY <1>3, <1>5 DEF Copies
  <2>2. QED
    BY <2>1 DEF Store, Unique, Present
<1>7. /\ todo' = [todo EXCEPT ![r] = rest] /\ todo'[r] = rest
      /\ todo' \in [SiteRequests -> Seq(SiteIds \X Labels)]
      /\ \A q \in SiteRequests \ {r} : todo'[q] = todo[q]
  BY <1>1, <1>4 DEF Store, SiteTypeOK
<1>8. UNCHANGED <<sites, listed, posted, renames, overtaken, exact>>
  BY DEF Store
<1>9. at' = [at EXCEPT ![r] = "rows"] /\ at'[r] = "rows"
  BY <1>1 DEF Store, SiteTypeOK
<1>10. Current(r) => own \in Present(sites) /\ label = sites[own]
  BY <1>3 DEF Current
<1> HIDE DEF own, label, rest
<1>11. Entries(r)' = DOMAIN rest
  BY <1>7 DEF Entries
<1>12. \A k \in DOMAIN rest : Site(r, k)' = Site(r, k + 1) /\ Label(r, k)' = Label(r, k + 1)
  BY <1>4, <1>7 DEF Site, Label
<1>13. Fits' = Fits /\ Present(sites)' = Present(sites)
  BY <1>8 DEF Fits, Present
<1>14. Current(r) => Current(r)'
  BY <1>4, <1>8, <1>11, <1>12, <1>13 DEF Current
<1>15. exact => mirror' = sites
  <2>1. exact => mirror = sites /\ Current(r)
    BY DEF SiteInv, QuietSites, Store
  <2>2. QED
    BY <1>3, <1>5, <1>10, <2>1 DEF Copies
<1>16. QuietListing(r) => QuietListing(r)'
  <2> SUFFICES ASSUME QuietListing(r)
               PROVE  QuietListing(r)'
    OBVIOUS
  <2>1. Current(r) /\ Current(r)'
    BY <1>14 DEF QuietListing
  <2>2. ASSUME Fits', NEW i \in Present(sites)'
        PROVE  mirror'[i] = sites'[i] \/ \E k \in Entries(r)' : Site(r, k)' = i
    <3>1. Fits /\ i \in Present(sites) /\ i \in SiteIds /\ sites' = sites
      BY <1>8, <1>13, <2>2 DEF Present
    <3>2. mirror[i] = sites[i] \/ \E k \in Entries(r) : Site(r, k) = i
      BY <3>1 DEF QuietListing
    <3>3. CASE i = own
      BY <1>3, <1>5, <1>10, <2>1, <3>1, <3>3 DEF Copies
    <3>4. CASE i # own /\ mirror[i] = sites[i]
      BY <1>3, <1>5, <3>1, <3>4 DEF Copies
    <3>5. CASE i # own /\ \E k \in Entries(r) : Site(r, k) = i
      <4>1. PICK k \in Entries(r) \ {1} : Site(r, k) = i
        BY <3>5 DEF own
      <4>2. PICK m \in DOMAIN rest : k = m + 1
        BY <1>4, <4>1
      <4>3. QED
        BY <1>11, <1>12, <4>1, <4>2
    <3>6. QED
      BY <3>2, <3>3, <3>4, <3>5
  <2>3. QED
    BY <1>9, <2>1, <2>2 DEF QuietListing
<1>17. QED
  BY <1>1, <1>6, <1>7, <1>8, <1>9, <1>14, <1>15, <1>16, SiteRows

LEMMA SiteStops == ASSUME SiteInv, NEW r \in Listings, StoreFails(r) PROVE SiteInv'
<1>1. SiteTypeOK /\ r \in SiteRequests /\ r \in Busy
  BY DEF SiteInv, SiteRequests, StoreFails, Busy
<1>2. /\ RequestOf(r)
      /\ r \notin overtaken => Busy = {r} /\ QuietListing(r)
  BY <1>1, OthersAreOvertaken DEF Quiet
<1> DEFINE own == Site(r, 1)
           label == Label(r, 1)
<1>3. /\ own \in SiteIds /\ label \in Labels
      /\ mirror \in Copies /\ Unique(mirror) /\ exact \in BOOLEAN
  BY <1>1, <1>2, EntryType DEF SiteTypeOK, StoreFails, RequestOf
<1>4. ~Unique([mirror EXCEPT ![own] = label])
  BY DEF StoreFails, Site, Label
<1>5. r \in overtaken
  <2> SUFFICES ASSUME r \notin overtaken
               PROVE  FALSE
    OBVIOUS
  <2>1. \A i \in SiteIds \ {own} : mirror[i] # label
    BY <1>2 DEF QuietListing, StoreFails
  <2> HIDE DEF own, label
  <2>2. QED
    BY <1>3, <1>4, <2>1 DEF Copies, Unique, Present
<1>6. UNCHANGED <<sites, mirror, renames, overtaken, exact>> /\ Ends(r)
  BY <1>3, <1>5 DEF StoreFails, Alone
<1>7. exact => mirror = sites /\ Fits
  BY DEF SiteInv, QuietSites
<1>8. Unique(mirror')
  BY <1>3, <1>6
<1>9. QED
  BY <1>1, <1>3, <1>6, <1>7, <1>8, SiteEnds

LEMMA SitePrunes == ASSUME SiteInv, NEW r \in Listings, Prune(r) PROVE SiteInv'
<1>1. SiteTypeOK /\ r \in SiteRequests /\ r \in Busy
  BY DEF SiteInv, SiteRequests, Prune, Busy
<1>2. /\ RequestOf(r)
      /\ r \notin overtaken => Busy = {r} /\ QuietListing(r)
  BY <1>1, OthersAreOvertaken DEF Quiet
<1>3. /\ sites \in Copies /\ mirror \in Copies /\ Unique(mirror) /\ exact \in BOOLEAN
      /\ listed[r] \in Copies
  BY <1>1 DEF SiteTypeOK
<1>4. mirror' = [i \in SiteIds |-> IF listed[r][i] = NoLabel THEN NoLabel ELSE mirror[i]]
  BY DEF Prune
<1>5. mirror' \in Copies /\ Unique(mirror')
  BY <1>3, <1>4 DEF Copies, Unique, Present
<1>6. exact => mirror' = sites /\ Fits
  <2>1. exact => mirror = sites /\ Fits /\ listed[r] = sites
    BY DEF SiteInv, QuietSites, Current, Prune
  <2>2. QED
    BY <1>3, <1>4, <2>1 DEF Copies
<1>7. Alone(r) => mirror' = sites /\ Fits /\ Busy \subseteq {r}
  <2> SUFFICES ASSUME Alone(r)
               PROVE  mirror' = sites /\ Fits /\ Busy \subseteq {r}
    OBVIOUS
  <2>1. Busy = {r} /\ QuietListing(r) /\ Fits
    BY <1>2 DEF Alone, Fits
  <2>2. Entries(r) = {} /\ listed[r] = sites
    BY <1>1, <2>1, EntryType DEF QuietListing, Current, Prune
  <2>3. \A i \in Present(sites) : mirror[i] = sites[i]
    BY <2>1, <2>2 DEF QuietListing
  <2>4. QED
    BY <1>3, <1>4, <2>1, <2>2, <2>3 DEF Copies, Present
<1>8. exact' = (exact \/ Alone(r)) /\ exact' \in BOOLEAN
  BY <1>3 DEF Prune, Alone
<1>9. UNCHANGED <<sites, renames, overtaken>> /\ Ends(r)
  BY DEF Prune
<1>10. QED
  BY <1>1, <1>5, <1>6, <1>7, <1>8, <1>9, SiteEnds

LEMMA SiteLists == ASSUME SiteInv, NEW r \in Listings, List(r) PROVE SiteInv'
<1>1. SiteTypeOK /\ r \in SiteRequests /\ Listed(r) /\ Starts(r, "rows")
  BY DEF SiteInv, SiteRequests, List
<1>2. /\ todo' \in [SiteRequests -> Seq(SiteIds \X Labels)]
      /\ listed' \in [SiteRequests -> Copies]
      /\ \A q \in SiteRequests \ {r} : todo'[q] = todo[q] /\ listed'[q] = listed[q]
      /\ Unique(listed'[r])
      /\ Fits => listed'[r] = sites
      /\ \A k \in DOMAIN todo'[r] :
           todo'[r][k][1] \in Present(sites) /\ todo'[r][k][2] = sites[todo'[r][k][1]]
      /\ \A i \in Present(listed'[r]) : \E k \in DOMAIN todo'[r] : todo'[r][k][1] = i
  BY <1>1, ListHolds
<1>3. UNCHANGED <<sites, mirror, posted, renames, exact>>
  BY DEF List
<1>4. at'[r] = "rows"
  BY <1>1 DEF Starts, SiteTypeOK
<1>5. Fits' = Fits /\ Present(sites)' = Present(sites) /\ sites' = sites
  BY <1>3 DEF Fits, Present
<1>6. Current(r)'
  BY <1>2, <1>5 DEF Current, Entries, Site, Label
<1>7. Fits => \A i \in Present(sites) : \E k \in DOMAIN todo'[r] : todo'[r][k][1] = i
  BY <1>2
<1>8. Quiet(r)'
  BY <1>4, <1>5, <1>6, <1>7 DEF Quiet, QuietListing, Entries, Site
<1>9. Unique(listed[r])'
  BY <1>2 DEF Unique, Present
<1>10. posted' \in [SiteForms -> (SiteIds \X Labels \X BOOLEAN) \cup {<<>>}]
  BY <1>1, <1>3 DEF SiteTypeOK
<1>11. QED
  BY <1>1, <1>2, <1>3, <1>6, <1>8, <1>9, <1>10, SiteStarts

LEMMA SiteHasNoList == ASSUME SiteInv, NEW r \in Listings, ListFailed(r) PROVE SiteInv'
<1>1. SiteTypeOK /\ r \in SiteRequests /\ RequestOf(r) /\ Busy \subseteq SiteRequests
  BY DEF SiteInv, SiteRequests, RequestInv, Busy
<1>2. r \notin Busy /\ at[r] = "new"
  BY DEF ListFailed, Busy
<1>3. /\ UNCHANGED <<sites, mirror, todo, listed, posted, renames, overtaken, exact>>
      /\ at' \in [SiteRequests -> {"new", "rows", "store", "post", "commit", "done"}]
      /\ \A q \in SiteRequests \ {r} : at'[q] = at[q]
      /\ at'[r] = "done"
  BY <1>1 DEF ListFailed, SiteTypeOK
<1>4. Busy' = Busy
  BY <1>2, <1>3 DEF Busy
<1>5. \A q \in SiteRequests \ {r} : RequestOf(q)'
  <2> SUFFICES ASSUME NEW q \in SiteRequests \ {r}
               PROVE  RequestOf(q)'
    OBVIOUS
  <2>1. RequestOf(q) /\ at'[q] = at[q]
    BY <1>3 DEF SiteInv, RequestInv
  <2>2. QED
    BY <1>3, <2>1 DEF RequestOf, Unique, Present
<1>6. RequestOf(r)'
  BY <1>1, <1>2, <1>3 DEF RequestOf, Unique, Present
<1>7. RequestInv'
  BY <1>3, <1>4, <1>5, <1>6 DEF SiteInv, RequestInv
<1>8. SiteTypeOK'
  BY <1>1, <1>3 DEF SiteTypeOK, Unique, Present
<1>9. \A q \in Busy' \ overtaken' : Quiet(q)'
  <2> SUFFICES ASSUME NEW q \in Busy' \ overtaken'
               PROVE  Quiet(q)'
    OBVIOUS
  <2>1. Quiet(q) /\ at'[q] = at[q]
    BY <1>1, <1>2, <1>3, <1>4 DEF SiteInv, QuietSites
  <2>2. QED
    BY <1>3, <2>1 DEF Quiet, QuietListing, QuietForm, Current, Fits, Present, Entries, Site, Label
<1>10. exact' => /\ mirror' = sites' /\ Fits'
                 /\ \A q \in Listings : at'[q] \in {"rows", "store"} => Current(q)'
  <2> SUFFICES ASSUME exact
               PROVE  /\ mirror = sites /\ Fits
                      /\ \A q \in Listings : at'[q] \in {"rows", "store"} => Current(q)
    BY <1>3 DEF Fits, Present, Current, Entries, Site, Label
  <2>1. \A q \in Listings : at'[q] \in {"rows", "store"} => at[q] \in {"rows", "store"}
    BY <1>3 DEF SiteRequests
  <2>2. QED
    BY <2>1 DEF SiteInv, QuietSites
<1>11. QED
  BY <1>7, <1>8, <1>9, <1>10 DEF SiteInv, QuietSites

LEMMA SiteIsNotListed == ASSUME SiteInv, NEW r \in SiteForms, FormUnlisted(r) PROVE SiteInv'
<1>1. /\ SiteTypeOK /\ r \in SiteRequests /\ RequestOf(r) /\ Starts(r, "post")
      /\ r \notin Listings
  BY SiteMirrorAssumption DEF SiteInv, RequestInv, SiteRequests, FormUnlisted
<1>2. UNCHANGED <<sites, mirror, todo, listed, renames, exact>>
  BY DEF FormUnlisted
<1>3. PICK i \in SiteIds, l \in Labels, new \in BOOLEAN :
        posted' = [posted EXCEPT ![r] = <<i, l, new>>]
  BY DEF FormUnlisted, Postable
<1>4. /\ posted' \in [SiteForms -> (SiteIds \X Labels \X BOOLEAN) \cup {<<>>}]
      /\ posted'[r] = <<i, l, new>> /\ posted'[r] # <<>>
      /\ \A q \in SiteForms \ {r} : posted'[q] = posted[q]
  BY <1>1, <1>3 DEF SiteTypeOK
<1>5. todo'[r] = <<>>
  BY <1>1, <1>2 DEF RequestOf, Starts
<1>6. at'[r] = "post"
  BY <1>1 DEF Starts, SiteTypeOK
<1>7. Quiet(r)'
  BY <1>1, <1>5, <1>6 DEF Quiet, QuietForm
<1>8. Unique(listed[r])'
  BY <1>1, <1>2 DEF RequestOf, Unique, Present
<1>9. /\ todo' \in [SiteRequests -> Seq(SiteIds \X Labels)]
      /\ listed' \in [SiteRequests -> Copies]
      /\ \A q \in SiteRequests \ {r} : todo'[q] = todo[q] /\ listed'[q] = listed[q]
  BY <1>1, <1>2 DEF SiteTypeOK
<1>10. QED
  BY <1>1, <1>2, <1>4, <1>5, <1>7, <1>8, <1>9, SiteStarts

LEMMA SiteToChange == ASSUME SiteInv, NEW r \in SiteForms, FormToChange(r) PROVE SiteInv'
<1>1. /\ SiteTypeOK /\ r \in SiteRequests /\ Listed(r) /\ Starts(r, "post")
      /\ r \notin Listings
  BY SiteMirrorAssumption DEF SiteInv, SiteRequests, FormToChange
<1>2. UNCHANGED <<sites, mirror, renames, exact>>
  BY DEF FormToChange
<1>3. PICK i \in SiteIds, l \in Labels : posted' = [posted EXCEPT ![r] = <<i, l, FALSE>>]
  BY DEF FormToChange, Postable
<1>4. /\ posted' \in [SiteForms -> (SiteIds \X Labels \X BOOLEAN) \cup {<<>>}]
      /\ posted'[r] = <<i, l, FALSE>> /\ posted'[r] # <<>> /\ posted'[r][3] = FALSE
      /\ \A q \in SiteForms \ {r} : posted'[q] = posted[q]
  BY <1>1, <1>3 DEF SiteTypeOK
<1>5. /\ todo' \in [SiteRequests -> Seq(SiteIds \X Labels)]
      /\ listed' \in [SiteRequests -> Copies]
      /\ \A q \in SiteRequests \ {r} : todo'[q] = todo[q] /\ listed'[q] = listed[q]
      /\ Unique(listed'[r])
      /\ Fits => listed'[r] = sites
  BY <1>1, ListHolds
<1>6. at'[r] = "post"
  BY <1>1 DEF Starts, SiteTypeOK
<1>7. Fits' = Fits
  BY <1>2 DEF Fits, Present
<1>8. Quiet(r)'
  BY <1>1, <1>2, <1>5, <1>6, <1>7 DEF Quiet, QuietForm
<1>9. Unique(listed[r])'
  BY <1>5 DEF Unique, Present
<1>10. QED
  BY <1>1, <1>2, <1>4, <1>5, <1>8, <1>9, SiteStarts

\* While a form that nothing overtook is booked, only its own site changes.
LEMMA SiteIsBooked == ASSUME SiteInv, NEW r \in SiteForms, FormBooked(r) PROVE SiteInv'
<1>1. /\ SiteTypeOK /\ r \in SiteRequests /\ r \in Busy /\ r \notin Listings
      /\ at[r] = "post"
  BY SiteMirrorAssumption DEF SiteInv, SiteRequests, FormBooked, Busy
<1>2. /\ RequestOf(r) /\ Busy \ {r} \subseteq overtaken /\ Busy \subseteq SiteRequests
      /\ r \notin overtaken => Busy = {r} /\ QuietForm(r)
  BY <1>1, OthersAreOvertaken DEF Quiet, Busy
<1> DEFINE own == posted[r][1]
           label == posted[r][2]
<1>3. /\ own \in SiteIds /\ label \in Labels /\ label # NoLabel /\ sites \in Copies
      /\ posted[r] # <<>> /\ (todo[r] # <<>> => posted[r][3] = FALSE)
  BY <1>1, <1>2, PostedType, SiteMirrorAssumption DEF RequestOf, SiteTypeOK
<1>4. /\ sites' = [sites EXCEPT ![own] = label] /\ Unique(sites')
      /\ todo[r] # <<>> => sites[own] # NoLabel
  BY <1>3 DEF FormBooked
<1>5. /\ at' = [at EXCEPT ![r] = "commit"] /\ overtaken' = overtaken \cup (Busy \ {r})
      /\ exact' = FALSE /\ UNCHANGED <<mirror, todo, listed, posted, renames>>
  BY DEF FormBooked
<1>6. own' = own /\ label' = label
  BY <1>5
<1> HIDE DEF own, label
<1>7. sites' \in Copies /\ Unique(sites)'
  BY <1>3, <1>4 DEF Copies, Unique, Present
<1>8. /\ at' \in [SiteRequests -> {"new", "rows", "store", "post", "commit", "done"}]
      /\ \A q \in SiteRequests \ {r} : at'[q] = at[q]
      /\ at'[r] = "commit"
  BY <1>1, <1>5 DEF SiteTypeOK
<1>9. Unique(mirror)' /\ (Unique(listed[r])' <=> Unique(listed[r]))
  BY <1>1, <1>5 DEF SiteTypeOK, Unique, Present
<1>10. SiteTypeOK'
  BY <1>1, <1>2, <1>5, <1>7, <1>8, <1>9 DEF SiteTypeOK
<1>11. RequestOf(r)'
  BY <1>1, <1>2, <1>3, <1>5, <1>8, <1>9 DEF RequestOf
<1>12. r \notin overtaken' => Busy \subseteq {r} /\ Quiet(r)'
  <2> SUFFICES ASSUME r \notin overtaken'
               PROVE  Busy \subseteq {r} /\ Quiet(r)'
    OBVIOUS
  <2>1. Busy = {r} /\ QuietForm(r)
    BY <1>2, <1>5
  <2>2. sites'[own] = label
    BY <1>3, <1>4 DEF Copies
  <2>3. ASSUME Fits', todo[r] # <<>>, NEW i \in SiteIds \ {own}
        PROVE  sites'[i] = listed[r][i]
    <3>1. Present(sites') = Present(sites)
      BY <1>3, <1>4, <2>3 DEF Copies, Present
    <3>2. Fits
      BY <2>3, <3>1 DEF Fits, Present
    <3>3. listed[r] = sites
      BY <1>1, <2>1, <2>3, <3>2 DEF QuietForm
    <3>4. QED
      BY <1>3, <1>4, <2>3, <3>3 DEF Copies
  <2>4. QuietForm(r)'
    BY <1>5, <1>6, <1>8, <2>2, <2>3 DEF QuietForm, own, label
  <2>5. QED
    BY <1>1, <2>1, <2>4 DEF Quiet
<1>13. \A q \in SiteRequests \ {r} :
         at'[q] = at[q] /\ todo'[q] = todo[q] /\ listed'[q] = listed[q]
  BY <1>5, <1>8
<1>14. overtaken' \subseteq overtaken \cup Busy \cup {r} /\ Busy \ {r} \subseteq overtaken'
  BY <1>5
<1>15. QED
  BY <1>1, <1>5, <1>10, <1>11, <1>12, <1>13, <1>14, SiteMoves

LEMMA SiteFormFails == ASSUME SiteInv, NEW r \in SiteForms, FormFails(r) PROVE SiteInv'
<1>1. /\ SiteTypeOK /\ r \in Busy
  BY DEF SiteInv, SiteRequests, FormFails, Busy
<1>2. /\ UNCHANGED <<sites, mirror, renames, overtaken, exact>> /\ Ends(r)
      /\ mirror \in Copies /\ Unique(mirror) /\ exact \in BOOLEAN
      /\ exact => mirror = sites /\ Fits
  BY <1>1 DEF FormFails, SiteTypeOK, SiteInv, QuietSites
<1>3. mirror' \in Copies /\ Unique(mirror') /\ exact' \in BOOLEAN
  BY <1>2
<1>4. QED
  BY <1>1, <1>2, <1>3, SiteEnds

LEMMA SiteIsCommitted == ASSUME SiteInv, NEW r \in SiteForms, FormCommits(r) PROVE SiteInv'
<1>1. /\ SiteTypeOK /\ r \in SiteRequests /\ r \in Busy /\ r \notin Listings
      /\ at[r] = "commit"
  BY SiteMirrorAssumption DEF SiteInv, SiteRequests, FormCommits, Busy
<1>2. /\ RequestOf(r)
      /\ r \notin overtaken => Busy = {r} /\ QuietForm(r)
  BY <1>1, OthersAreOvertaken DEF Quiet
<1> DEFINE own == posted[r][1]
           label == posted[r][2]
           copy == IF todo[r] = <<>> THEN mirror ELSE listed[r]
<1>3. /\ own \in SiteIds /\ label \in Labels /\ label # NoLabel
      /\ sites \in Copies /\ Unique(sites)
  BY <1>1, <1>2, PostedType, SiteMirrorAssumption DEF RequestOf, SiteTypeOK
<1>4. copy \in Copies /\ Unique(copy)
  BY <1>1, <1>2 DEF RequestOf, SiteTypeOK
<1>5. mirror' = [i \in SiteIds |->
        IF i = own THEN label ELSE IF copy[i] = label THEN NoLabel ELSE copy[i]]
  BY DEF FormCommits
<1>6. exact' = (todo[r] # <<>> /\ Alone(r)) /\ UNCHANGED <<sites, renames, overtaken>> /\ Ends(r)
  BY DEF FormCommits
<1>7. ASSUME todo[r] # <<>>, Alone(r)
      PROVE  mirror' = sites /\ Fits /\ Busy \subseteq {r}
  <2>1. Busy = {r} /\ QuietForm(r) /\ Fits
    BY <1>2, <1>7 DEF Alone, Fits
  <2>2. sites[own] = label /\ \A i \in SiteIds \ {own} : sites[i] = copy[i]
    BY <1>1, <1>7, <2>1 DEF QuietForm
  <2> HIDE DEF own, label, copy
  <2>3. \A i \in SiteIds \ {own} : copy[i] # label
    BY <1>3, <2>2 DEF Unique, Present
  <2>4. QED
    BY <1>3, <1>5, <2>1, <2>2, <2>3 DEF Copies
<1> HIDE DEF own, label, copy
<1>8. mirror' \in Copies /\ Unique(mirror')
  BY <1>3, <1>4, <1>5 DEF Copies, Unique, Present
<1>9. exact' \in BOOLEAN
  BY <1>6 DEF Alone
<1>10. QED
  BY <1>1, <1>6, <1>7, <1>8, <1>9, SiteEnds

\* Whoever is busy while a site changes elsewhere is overtaken.
LEMMA SiteIsRenamed == SiteInv /\ Rename => SiteInv'
<1> SUFFICES ASSUME SiteInv, Rename
             PROVE  SiteInv'
  OBVIOUS
<1>1. SiteTypeOK /\ Busy \subseteq SiteRequests
  BY DEF SiteInv, Busy
<1>2. /\ sites' \in Copies /\ Unique(sites') /\ overtaken' = overtaken \cup Busy
      /\ exact' = FALSE /\ UNCHANGED <<mirror, at, todo, listed, posted>>
      /\ renames' \in 0 .. MaxRenames
  BY <1>1, SiteMirrorAssumption DEF Rename, SiteTypeOK
<1>3. Unique(sites)' /\ Unique(mirror)'
  BY <1>1, <1>2 DEF SiteTypeOK, Unique, Present
<1>4. SiteTypeOK'
  BY <1>1, <1>2, <1>3 DEF SiteTypeOK
<1>5. Busy' = Busy
  BY <1>2 DEF Busy
<1>6. \A q \in SiteRequests : RequestOf(q)'
  <2> SUFFICES ASSUME NEW q \in SiteRequests
               PROVE  RequestOf(q)'
    OBVIOUS
  <2>1. RequestOf(q) /\ (at[q] = "new" => q \notin Busy)
    BY DEF SiteInv, RequestInv, Busy
  <2>2. QED
    BY <1>2, <2>1 DEF RequestOf, Unique, Present
<1>7. QED
  BY <1>2, <1>4, <1>5, <1>6 DEF SiteInv, RequestInv, QuietSites

LEMMA SiteStep == SiteInv /\ [SiteNext]_siteVars => SiteInv'
<1>1. SiteInv /\ UNCHANGED siteVars => SiteInv'
  <2> SUFFICES ASSUME SiteInv, UNCHANGED siteVars
               PROVE  SiteInv'
    OBVIOUS
  <2> USE DEF siteVars
  <2>1. SiteTypeOK'
    BY DEF SiteInv, SiteTypeOK, Unique, Present
  <2>2. RequestInv'
    BY DEF SiteInv, RequestInv, RequestOf, Busy, Unique, Present
  <2>3. \A q : Quiet(q)' <=> Quiet(q)
    BY DEF Quiet, QuietListing, QuietForm, Current, Fits, Present, Entries, Site, Label
  <2>4. \A q : Current(q)' <=> Current(q)
    BY DEF Current, Fits, Present, Entries, Site, Label
  <2>5. QuietSites'
    BY <2>3, <2>4 DEF SiteInv, QuietSites, Busy, Fits, Present
  <2>6. QED
    BY <2>1, <2>2, <2>5 DEF SiteInv
<1>2. SiteInv /\ SiteNext => SiteInv'
  BY SiteLists, SiteHasNoList, SiteClears, SiteStores, SiteStops, SitePrunes, SiteIsNotListed,
     SiteToChange, SiteIsBooked, SiteFormFails, SiteIsCommitted, SiteIsRenamed DEF SiteNext
<1>3. QED
  BY <1>1, <1>2

LEMMA SiteAlways == AccountsSpec => []SiteInv
<1>1. AccountsInit => SiteInit
  BY DEF AccountsInit
<1>2. [AccountsNext]_accountsVars => [SiteNext]_siteVars
  BY DEF AccountsNext, accountsVars
<1>3. QED
  BY <1>1, <1>2, SiteInitial, SiteStep, PTL DEF AccountsSpec

\* What a refresh that ran alone has brought up to date stays so until the next change,
\* for any number of sites, in whatever order and with whatever labels they are listed,
\* and whatever other refreshes do in the meantime.
THEOREM QuietMirrorsAreExact == AccountsSpec => []QuietMirrorIsExact
<1>1. SiteInv => QuietMirrorIsExact
  BY DEF SiteInv, QuietSites, QuietMirrorIsExact
<1>2. QED
  BY <1>1, SiteAlways, PTL

\* A row of a site that the server has is deleted by a request that nothing overtook only
\* for the site that has its label now, or because the list is too short.
LEMMA QuietRowStays ==
  ASSUME SiteInv, SiteNext, NEW i \in Present(mirror) \cap Present(sites),
         mirror'[i] = NoLabel, Fits
  PROVE  \/ \E j \in SiteIds \ {i} : sites[j] = mirror[i]
         \/ \E r \in overtaken : at'[r] # at[r]
<1>1. /\ SiteTypeOK /\ i \in SiteIds /\ mirror[i] # NoLabel /\ sites[i] # NoLabel
      /\ sites \in Copies /\ Unique(sites) /\ mirror \in Copies
  BY DEF SiteInv, SiteTypeOK, Present
<1>2. mirror' # mirror
  BY <1>1
<1> DEFINE Goal == \/ \E j \in SiteIds \ {i} : sites[j] = mirror[i]
                   \/ \E r \in overtaken : at'[r] # at[r]
<1>3. ASSUME NEW r \in Listings, Clear(r) PROVE Goal
  <2>1. r \in SiteRequests /\ r \in Busy /\ at'[r] # at[r]
    BY <1>1, <1>3 DEF SiteRequests, Busy, Clear, SiteTypeOK
  <2>2. CASE r \in overtaken
    BY <2>1, <2>2
  <2>3. CASE r \notin overtaken
    <3>1. Current(r)
      BY <1>3, <2>1, <2>3, OthersAreOvertaken DEF Quiet, QuietListing
    <3>2. 1 \in Entries(r) /\ Site(r, 1) \in SiteIds
      BY <1>1, <1>3, <2>1, EntryType DEF Clear
    <3>3. i # Site(r, 1) /\ mirror[i] = Label(r, 1)
      BY <1>1, <1>3 DEF Clear, Site, Label
    <3>4. sites[Site(r, 1)] = Label(r, 1)
      BY <3>1, <3>2 DEF Current
    <3>5. QED
      BY <3>2, <3>3, <3>4
  <2>4. QED
    BY <2>2, <2>3
<1>4. ASSUME NEW r \in Listings, Store(r) PROVE Goal
  <2>1. r \in SiteRequests /\ r \in Busy
    BY <1>4 DEF SiteRequests, Busy, Store
  <2>2. todo[r] # <<>>
    BY <1>4, <2>1, OthersAreOvertaken DEF RequestOf, Store
  <2>3. Label(r, 1) # NoLabel
    BY <1>1, <2>1, <2>2, EntryType, SiteMirrorAssumption
  <2>4. mirror'[i] # NoLabel
    BY <1>1, <1>4, <2>3 DEF Store, Label, Copies
  <2>5. QED
    BY <2>4
<1>5. ASSUME NEW r \in Listings, Prune(r) PROVE Goal
  <2>1. r \in SiteRequests /\ r \in Busy /\ at'[r] # at[r]
    BY <1>1, <1>5 DEF SiteRequests, Busy, Prune, Ends, SiteTypeOK
  <2>2. r \notin overtaken => listed[r] = sites
    BY <1>5, <2>1, OthersAreOvertaken DEF Quiet, QuietListing, Current
  <2>3. listed[r][i] = NoLabel
    BY <1>1, <1>5 DEF Prune
  <2>4. QED
    BY <1>1, <2>1, <2>2, <2>3
<1>6. ASSUME NEW r \in SiteForms, FormCommits(r) PROVE Goal
  <2>1. /\ r \in SiteRequests /\ r \in Busy /\ at'[r] # at[r] /\ r \notin Listings
        /\ at[r] = "commit"
    BY <1>1, <1>6, SiteMirrorAssumption DEF SiteRequests, Busy, FormCommits, Ends, SiteTypeOK
  <2>2. CASE r \in overtaken
    BY <2>1, <2>2
  <2>3. CASE r \notin overtaken
    <3> DEFINE own == posted[r][1]
               label == posted[r][2]
               copy == IF todo[r] = <<>> THEN mirror ELSE listed[r]
    <3>1. QuietForm(r) /\ RequestOf(r)
      BY <2>1, <2>3, OthersAreOvertaken DEF Quiet
    <3>2. own \in SiteIds /\ label \in Labels /\ label # NoLabel
      BY <1>1, <2>1, <3>1, PostedType, SiteMirrorAssumption DEF RequestOf
    <3>3. /\ sites[own] = label
          /\ todo[r] # <<>> => \A j \in SiteIds \ {own} : sites[j] = copy[j]
      BY <2>1, <3>1 DEF QuietForm
    <3>4. mirror'[i] = IF i = own THEN label
                       ELSE IF copy[i] = label THEN NoLabel ELSE copy[i]
      BY <1>1, <1>6 DEF FormCommits
    <3>5. copy = mirror \/ todo[r] # <<>>
      OBVIOUS
    <3> HIDE DEF own, label, copy
    <3>6. i # own /\ (copy[i] = label \/ copy[i] = NoLabel)
      BY <3>2, <3>4
    <3>7. CASE copy = mirror
      BY <1>1, <3>2, <3>3, <3>6, <3>7
    <3>8. CASE todo[r] # <<>>
      <4>1. sites[i] = label
        BY <1>1, <3>3, <3>6, <3>8
      <4>2. QED
        BY <1>1, <3>2, <3>3, <3>6, <4>1 DEF Unique, Present
    <3>9. QED
      BY <3>5, <3>7, <3>8
  <2>4. QED
    BY <2>2, <2>3
<1>7. QED
  BY <1>2, <1>3, <1>4, <1>5, <1>6
  DEF SiteNext, List, ListFailed, StoreFails, FormUnlisted, FormToChange, FormBooked, FormFails,
      Rename

\* A profile loses the site it refers to only by a race, a swap of labels, or a list that
\* is too short: for any number of sites and of requests.
THEOREM RowsVanishOnlyByRaceSwapOrLimit == AccountsSpec => RowVanishesOnlyByRaceSwapOrLimit
<1> DEFINE Kept == \A i \in Present(mirror) \cap Present(sites) :
                     mirror'[i] = NoLabel =>
                       \/ \E j \in SiteIds \ {i} : sites[j] = mirror[i]
                       \/ Cardinality(Present(sites)) > ListSize
                       \/ \E r \in overtaken : at'[r] # at[r]
<1>1. SiteInv /\ SiteNext => Kept
  <2> SUFFICES ASSUME SiteInv, SiteNext, NEW i \in Present(mirror) \cap Present(sites),
                      mirror'[i] = NoLabel, ~(Cardinality(Present(sites)) > ListSize)
               PROVE  \/ \E j \in SiteIds \ {i} : sites[j] = mirror[i]
                      \/ \E r \in overtaken : at'[r] # at[r]
    OBVIOUS
  <2>1. sites \in Copies
    BY DEF SiteInv, SiteTypeOK
  <2>2. Cardinality(Present(sites)) \in Nat
    BY <2>1, PresentIs
  <2>3. Fits
    BY <2>2, SiteMirrorAssumption DEF Fits
  <2>4. QED
    BY <2>3, QuietRowStays
<1>2. [AccountsNext]_accountsVars => [SiteNext]_siteVars
  BY DEF AccountsNext, accountsVars
<1>3. SiteInv /\ [SiteNext]_siteVars => [Kept]_siteVars
  BY <1>1
<1>4. QED
  BY <1>2, <1>3, SiteAlways, PTL DEF AccountsSpec, RowVanishesOnlyByRaceSwapOrLimit

-----------------------------------------------------------------------------
(* The four together. *)

\* A behaviour of Accounts keeps to the types of its four components.
THEOREM AccountsTypeCorrect == AccountsSpec => []AccountsTypeOK
<1>1. AccountsInit => /\ SessionInv /\ ScopeInv /\ SiteInv /\ DeviceInv /\ CreationInv
                      /\ scene \in Scenes
  BY SessionInitial, ScopeInitial, SiteInitial, DeviceInitial, CreationInitial
  DEF AccountsInit
<1>2. [AccountsNext]_accountsVars => /\ [SessionNext]_sessionVars /\ [SiteNext]_siteVars
                                     /\ [DeviceNext]_deviceVars /\ [CreationNext]_creationVars
                                     /\ scene' = scene
  BY DEF AccountsNext, accountsVars
<1> DEFINE All == /\ SessionInv /\ ScopeInv /\ SiteInv /\ DeviceInv /\ CreationInv
                  /\ scene \in Scenes
<1>3. All /\ [AccountsNext]_accountsVars => All'
  BY <1>2, SessionStep, ScopeStep, SiteStep, DeviceStep, CreationStep DEF Scenes
<1>4. All => AccountsTypeOK
  BY DEF AccountsTypeOK, SessionInv, ScopeInv, SessionTypeOK, SiteInv, DeviceInv, CreationInv
<1> HIDE DEF All
<1>5. AccountsInit => All
  BY <1>1 DEF All
<1>6. QED
  BY <1>3, <1>4, <1>5, PTL DEF AccountsSpec
=============================================================================
