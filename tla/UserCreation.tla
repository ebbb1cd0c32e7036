----------------------------- MODULE UserCreation ---------------------------
(***************************************************************************)
(* The form of a new user.  clean() creates the account on SyncServer,     *)
(* gives it its warehouse and reads it back, before the rest of the form   *)
(* is checked and before anything is saved; every POST of the form does so *)
(* under a new id (prepare_sync).                                          *)
(*                                                                         *)
(* One username.  An attempt is also the name of the account it creates.   *)
(***************************************************************************)
CONSTANTS
  Attempts,  \* POSTs of the form: a second press, or another try
  Nothing    \* no user yet

ASSUME CreationAssumption == Nothing \notin Attempts

VARIABLES
  user,      \* Django: the attempt that created user and binding
  server,    \* server: accounts with their warehouse, and without
  called,    \* calls the server has yet to handle
  good,      \* attempts whose call has a good answer
  phase,     \* phase[r]: the call attempt r waits for, or its end
  complete   \* complete[r]: whether the account r read back had its warehouse

creationVars == <<user, server, called, good, phase, complete>>

Pushes == Attempts \X {"user", "scopes"}

CreationTypeOK ==
  /\ user \in Attempts \cup {Nothing}
  /\ server \in [Attempts -> {"none", "bare", "whole"}]
  /\ called \subseteq Pushes
  /\ good \subseteq Pushes
  /\ phase \in [Attempts -> {"new", "user", "scopes", "state", "save", "saved", "error"}]
  /\ complete \in [Attempts -> BOOLEAN]

CreationInit ==
  /\ user = Nothing
  /\ server = [r \in Attempts |-> "none"]
  /\ called = {}
  /\ good = {}
  /\ phase = [r \in Attempts |-> "new"]
  /\ complete = [r \in Attempts |-> FALSE]

To(r, p) == phase' = [phase EXCEPT ![r] = p]

\* Passwords, role and warehouse are checked before the first call.
Submit(r) ==
  /\ phase[r] = "new"
  /\ To(r, "user")
  /\ called' = called \cup {<<r, "user">>}
  /\ UNCHANGED <<user, server, good, complete>>

UserCreated(r) ==
  /\ phase[r] = "user" /\ <<r, "user">> \in good
  /\ To(r, "scopes")
  /\ called' = called \cup {<<r, "scopes">>}
  /\ UNCHANGED <<user, server, good, complete>>

\* Mutant: the account is read back without waiting for its warehouse.
ScopesGivenMutant(r) ==
  /\ phase[r] = "scopes"
  /\ To(r, "state")
  /\ UNCHANGED <<user, server, called, good, complete>>

ScopesGiven(r) ==
  /\ phase[r] = "scopes" /\ <<r, "scopes">> \in good
  /\ To(r, "state")
  /\ UNCHANGED <<user, server, called, good, complete>>

StateRead(r) ==
  /\ phase[r] = "state"
  /\ To(r, "save")
  /\ complete' = [complete EXCEPT ![r] = server[r] = "whole"]
  /\ UNCHANGED <<user, server, called, good>>

\* A call is refused or gets no answer: the form is shown again with the error.
CreationFails(r) ==
  /\ phase[r] \in {"user", "scopes", "state"}
  /\ To(r, "error")
  /\ UNCHANGED <<user, server, called, good, complete>>

\* save_model: user and binding, in one transaction.
Created(r) ==
  /\ phase[r] = "save" /\ user = Nothing
  /\ To(r, "saved")
  /\ user' = r
  /\ UNCHANGED <<server, called, good, complete>>

\* The username was taken meanwhile, another field is not valid, or the database fails.
NotCreated(r) ==
  /\ phase[r] = "save"
  /\ To(r, "error")
  /\ UNCHANGED <<user, server, called, good, complete>>

-----------------------------------------------------------------------------
(* The server, external: a call of a client that gave up may still be handled. *)

Handle(r, verb, state) ==
  /\ <<r, verb>> \in called
  /\ called' = called \ {<<r, verb>>}
  /\ good' = IF phase[r] = verb THEN good \cup {<<r, verb>>} ELSE good
  /\ server' = [server EXCEPT ![r] = state]
  /\ UNCHANGED <<user, phase, complete>>

CreateAccount(r) == Handle(r, "user", "bare")
GiveScopes(r) == server[r] # "none" /\ Handle(r, "scopes", "whole")

RefuseCreation(c) ==
  /\ c \in called
  /\ called' = called \ {c}
  /\ UNCHANGED <<user, server, good, phase, complete>>

-----------------------------------------------------------------------------
CreationNext ==
  \/ \E r \in Attempts :
       \/ Submit(r) \/ UserCreated(r) \/ ScopesGiven(r) \/ StateRead(r)
       \/ Created(r) \/ NotCreated(r) \/ CreationFails(r)
       \/ CreateAccount(r) \/ GiveScopes(r)
  \/ \E c \in Pushes : RefuseCreation(c)

-----------------------------------------------------------------------------
(* Property. *)

\* The user that is created is bound to an account that has its warehouse, and was read back
\* with it; an account without a user is left only by an attempt that ended with an error.
CreatedUserIsWhole ==
  /\ user # Nothing => server[user] = "whole" /\ complete[user]
  /\ \A r \in Attempts : server[r] # "none" /\ phase[r] = "saved" => user = r
=============================================================================
