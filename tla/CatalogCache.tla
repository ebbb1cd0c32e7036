---------------------------- MODULE CatalogCache ----------------------------
(***************************************************************************)
(* The local copy of the catalogue that the search fields of operations    *)
(* and temporary items look into: CatalogCacheSyncService.sync_items reads *)
(* the server's catalogue page by page, OperationPageService.search_items  *)
(* looks into the copy, asks the server for what is missing, and stores    *)
(* what it was told.  Nothing is ever deleted from the copy.               *)
(*                                                                         *)
(* Syncs and searches run at the same time as each other and as the        *)
(* catalogue changes, and every call and every write can fail.             *)
(***************************************************************************)
EXTENDS Integers, FiniteSets

CONSTANTS
  Items,        \* ids of cards; the server lists them, and searches rank them, by id
  Syncs,        \* runs of the command and of the button
  Searches,     \* searches
  Query,        \* Query[s]: the cards whose text search s matches
  PageSize,     \* rows of a page of a sync (100)
  MaxPages,     \* --max-pages, or None
  Limit,        \* results a search shows (12)
  RemotePage,   \* rows a search asks the server for (25)
  ListsDead,    \* whether the server lists inactive cards
  MaxVersion,   \* bound: versions of a card
  None

Requests == Syncs \cup Searches

\* A card as a row of the copy: full tells whether it has its hashtags and its date, which
\* the results of a search are stripped of.
Rows == [v : Nat, active : BOOLEAN, full : BOOLEAN]

ASSUME CatalogCacheAssumption ==
  /\ Items \subseteq Nat /\ IsFiniteSet(Items)
  /\ Syncs \cap Searches = {}
  /\ Query \in [Searches -> SUBSET Items]
  /\ PageSize \in Nat \ {0} /\ Limit \in Nat \ {0} /\ RemotePage \in Nat \ {0}
  /\ MaxPages \in (Nat \ {0}) \cup {None}
  /\ Limit <= RemotePage
  /\ ListsDead \in BOOLEAN
  /\ MaxVersion \in Nat
  /\ None \notin Nat \cup Rows

VARIABLES
  version,    \* server: version[i] of card i, 0 before it is created
  active,     \* server: the cards that are active
  cache,      \* cache[i]: the row of card i, or None
  pc,         \* pc[r]: what request r does next
  page,       \* page[r]: the page sync r asks for
  total,      \* total[r]: the total_count sync r knows, 0 if none
  batch,      \* batch[r]: the cards r was told of and has yet to store
  found,      \* found[s]: the results of search s, rows by card
  outcome,    \* outcome[r]: how request r ended
  overtaken,  \* history: requests whose batch is older than another one's write
  disturbed   \* history: requests during which the catalogue changed or another wrote

server == <<version, active>>
local == <<cache, pc, page, total, batch, found, outcome>>
history == <<overtaken, disturbed>>
vars == <<server, local, history>>

TypeOK ==
  /\ version \in [Items -> Nat]
  /\ active \subseteq {i \in Items : version[i] > 0}
  /\ \A i \in Items : cache[i] # None => cache[i] \in Rows /\ cache[i].v \in 1 .. version[i]
  /\ pc \in [Requests -> {"new", "fetch", "write", "remote", "warm", "done"}]
  /\ page \in [Syncs -> Nat \ {0}]
  /\ total \in [Syncs -> Nat]
  /\ \A r \in Requests : \E S \in SUBSET Items : batch[r] \in [S -> Rows]
  /\ \A s \in Searches :
       /\ \E S \in SUBSET Items : found[s] \in [S -> Rows]
       /\ Cardinality(DOMAIN found[s]) <= Limit
  /\ outcome \in [Requests -> {"none", "synced", "failed", "shown"}]
  /\ overtaken \subseteq Requests /\ disturbed \subseteq Requests

Nothing == [i \in {} |-> 0]

Init ==
  /\ version \in [Items -> {0, 1}]
  /\ active = {i \in Items : version[i] = 1}
  /\ cache = [i \in Items |-> None]
  /\ pc = [r \in Requests |-> "new"]
  /\ page = [r \in Syncs |-> 1]
  /\ total = [r \in Syncs |-> 0]
  /\ batch = [r \in Requests |-> Nothing]
  /\ found = [s \in Searches |-> Nothing]
  /\ outcome = [r \in Requests |-> "none"]
  /\ overtaken = {} /\ disturbed = {}

Running == {r \in Requests : pc[r] \notin {"new", "done"}}

-----------------------------------------------------------------------------
(* The catalogue of the server, external. *)

Listed == {i \in Items : version[i] > 0 /\ (ListsDead \/ i \in active)}

\* The elements of S that come from place "from" to place "to".
Rank(i, S) == Cardinality({j \in S : j <= i})
Slice(S, from, to) == {i \in S : from <= Rank(i, S) /\ Rank(i, S) <= to}
First(n, S) == Slice(S, 1, n)

\* What the server says of the cards S.
Told(S, full) == [i \in S |-> [v |-> version[i], active |-> i \in active, full |-> full]]

\* A card is created, renamed, switched off or on.
Change(i) ==
  /\ version[i] < MaxVersion
  /\ version' = [version EXCEPT ![i] = @ + 1]
  /\ active' \in {active \cup {i}, IF version[i] = 0 THEN active \cup {i} ELSE active \ {i}}
  /\ disturbed' = disturbed \cup Running
  /\ UNCHANGED <<local, overtaken>>

-----------------------------------------------------------------------------
(* The copy. *)

Finish(r, result) ==
  /\ pc' = [pc EXCEPT ![r] = "done"]
  /\ outcome' = [outcome EXCEPT ![r] = result]

\* upsert_items: one transaction that overwrites the rows of a batch, whatever they hold.
Upsert(r) ==
  /\ cache' = [i \in Items |-> IF i \in DOMAIN batch[r] THEN batch[r][i] ELSE cache[i]]
  /\ batch' = [batch EXCEPT ![r] = Nothing]
  /\ overtaken' = (overtaken \ {r}) \cup {q \in Requests \ {r} : DOMAIN batch[q] # {}}
  /\ disturbed' = disturbed \cup (Running \ {r})

-----------------------------------------------------------------------------
(* sync_items. *)

StartSync(r) ==
  /\ pc[r] = "new"
  /\ pc' = [pc EXCEPT ![r] = "fetch"]
  /\ UNCHANGED <<server, cache, page, total, batch, found, outcome, history>>

\* One GET of a page.  The answer may come without its total_count.
FetchPage(r) ==
  /\ pc[r] = "fetch"
  /\ LET items == Slice(Listed, (page[r] - 1) * PageSize + 1, page[r] * PageSize)
     IN  /\ \/ total' = [total EXCEPT ![r] = IF Listed = {} THEN @ ELSE Cardinality(Listed)]
            \/ UNCHANGED total
         /\ IF items = {}
            THEN Finish(r, "synced") /\ UNCHANGED batch
            ELSE /\ batch' = [batch EXCEPT ![r] = Told(items, TRUE)]
                 /\ pc' = [pc EXCEPT ![r] = "write"]
                 /\ UNCHANGED outcome
  /\ UNCHANGED <<server, cache, page, found, history>>

\* Mutant: a last page that is not full is not asked for.
LastPageMutant(r, n) == n < PageSize \/ (total[r] > 0 /\ (page[r] + 1) * PageSize > total[r])

\* The loop stops after a page of n rows.
LastPage(r, n) ==
  \/ page[r] = MaxPages
  \/ total[r] > 0 /\ page[r] * PageSize >= total[r]
  \/ total[r] = 0 /\ n < PageSize

\* Mutant: the same page is asked for again.
WritePageMutant(r) ==
  /\ pc[r] = "write"
  /\ Upsert(r)
  /\ IF LastPage(r, Cardinality(DOMAIN batch[r]))
     THEN Finish(r, "synced")
     ELSE pc' = [pc EXCEPT ![r] = "fetch"] /\ UNCHANGED outcome
  /\ UNCHANGED <<server, page, total, found>>

WritePage(r) ==
  /\ pc[r] = "write"
  /\ Upsert(r)
  /\ IF LastPage(r, Cardinality(DOMAIN batch[r]))
     THEN Finish(r, "synced") /\ UNCHANGED page
     ELSE /\ pc' = [pc EXCEPT ![r] = "fetch"]
          /\ page' = [page EXCEPT ![r] = @ + 1]
          /\ UNCHANGED outcome
  /\ UNCHANGED <<server, total, found>>

\* A call or a transaction that fails ends the sync; the pages stored so far stay.
SyncFails(r) ==
  /\ pc[r] \in {"fetch", "write"}
  /\ Finish(r, "failed")
  /\ batch' = [batch EXCEPT ![r] = Nothing]
  /\ overtaken' = overtaken \ {r}
  /\ UNCHANGED <<server, cache, page, total, found, disturbed>>

-----------------------------------------------------------------------------
(* search_items. *)

\* The rows the lookup finds, or none at all when the table cannot be read.
Lookup(s) ==
  /\ pc[s] = "new"
  /\ \E hits \in {{i \in Query[s] : cache[i] # None /\ cache[i].active}, {}} :
       /\ found' = [found EXCEPT ![s] = [i \in First(Limit, hits) |-> cache[i]]]
       /\ IF Cardinality(hits) >= Limit
          THEN Finish(s, "shown")
          ELSE pc' = [pc EXCEPT ![s] = "remote"] /\ UNCHANGED outcome
  /\ UNCHANGED <<server, cache, page, total, batch, history>>

Hits(s) == DOMAIN found[s]

\* Mutant: the answer is cut before the cards that the copy has are taken out.
NewMutant(s, items) == First(Limit - Cardinality(Hits(s)), items) \ Hits(s)

\* Mutant: the results are not cut.
NewUncut(s, items) == items \ Hits(s)

\* The rows of the copy come first, then what only the server knows of.
New(s, items) == First(Limit - Cardinality(Hits(s)), items \ Hits(s))

\* Mutant: the results of the copy are stored with those of the server.
RemoteMutant(s) ==
  /\ pc[s] = "remote"
  /\ LET items == First(Limit, First(RemotePage, Listed \cap Query[s]) \cap active)
         told  == Told(items, FALSE)
     IN  batch' = [batch EXCEPT ![s] =
                     [i \in items \cup Hits(s) |-> IF i \in Hits(s) THEN found[s][i] ELSE told[i]]]
  /\ pc' = [pc EXCEPT ![s] = "warm"]
  /\ UNCHANGED <<server, cache, page, total, found, outcome, history>>

\* One GET of one page.  Inactive cards are dropped.
Remote(s) ==
  /\ pc[s] = "remote"
  /\ LET items == First(Limit, First(RemotePage, Listed \cap Query[s]) \cap active)
     IN  IF items = {}
         THEN Finish(s, "shown") /\ UNCHANGED batch
         ELSE /\ batch' = [batch EXCEPT ![s] = Told(items, FALSE)]
              /\ pc' = [pc EXCEPT ![s] = "warm"]
              /\ UNCHANGED outcome
  /\ UNCHANGED <<server, cache, page, total, found, history>>

\* A call that fails leaves the search with what the copy had.
RemoteFails(s) ==
  /\ pc[s] = "remote"
  /\ Finish(s, "shown")
  /\ UNCHANGED <<server, cache, page, total, batch, found, history>>

\* What the server said goes into the copy; a failure of this is swallowed.
Warm(s) ==
  /\ pc[s] = "warm"
  /\ Finish(s, "shown")
  /\ found' = [found EXCEPT ![s] = [i \in Hits(s) \cup New(s, DOMAIN batch[s]) |->
                                      IF i \in Hits(s) THEN @[i] ELSE batch[s][i]]]
  /\ \/ Upsert(s)
     \/ /\ batch' = [batch EXCEPT ![s] = Nothing]
        /\ overtaken' = overtaken \ {s}
        /\ UNCHANGED <<cache, disturbed>>
  /\ UNCHANGED <<server, page, total>>

-----------------------------------------------------------------------------
SyncStep(r) == FetchPage(r) \/ WritePage(r) \/ SyncFails(r)
SearchStep(s) == Remote(s) \/ RemoteFails(s) \/ Warm(s)

Next ==
  \/ \E i \in Items : Change(i)
  \/ \E r \in Syncs : StartSync(r) \/ SyncStep(r)
  \/ \E s \in Searches : Lookup(s) \/ SearchStep(s)

Spec == Init /\ [][Next]_vars

\* The web workers and the command run, and every HTTP call ends in an answer or a timeout.
FairSpec ==
  /\ Spec
  /\ \A r \in Syncs : WF_vars(SyncStep(r))
  /\ \A s \in Searches : WF_vars(SearchStep(s))

-----------------------------------------------------------------------------
(* Properties *)

\* A row of the copy goes back to an older version of its card only by the batch of a
\* request that another one's write overtook between its call and its own write.
CacheGoesBackOnlyByRace ==
  [][\A i \in Items :
       cache[i] # None /\ cache'[i].v < cache[i].v
         => \E r \in overtaken : pc[r] \in {"write", "warm"} /\ pc'[r] # pc[r]]_vars

\* A sync without --max-pages that runs to its end while nothing else happens leaves every
\* card that the server lists in the copy, current and with tags and date, whether the
\* pages come with their total_count or not: the loop drops and repeats no page.
QuietSyncIsComplete ==
  [][\A r \in Syncs \ disturbed :
       outcome[r] = "none" /\ outcome'[r] = "synced" /\ MaxPages = None
         => \A i \in Listed : cache'[i] = Told(Listed, TRUE)[i]]_vars

\* A search that got an answer while nothing else happened shows every active card it
\* matches, or as many results as it may, unless inactive cards fill the one page it
\* asks for.  A card missing from the copy is never hidden by those that are in it.
SearchMissesNothing ==
  [][\A s \in Searches \ disturbed :
       pc[s] = "warm" /\ pc'[s] = "done" /\ Cardinality(Listed \cap Query[s]) <= RemotePage
         => \/ Cardinality(Hits(s)') = Limit
            \/ active \cap Query[s] \subseteq Hits(s)']_vars

\* Every sync ends, although the catalogue changes while it runs.
EverySyncEnds ==
  \A r \in Syncs : pc[r] = "fetch" ~> pc[r] = "done"
=============================================================================
