----------------------------- MODULE SiteMirror -----------------------------
(***************************************************************************)
(* The local copy of the sites (SiteSyncService): every listing of the     *)
(* admin site brings it up to date row by row, each statement a            *)
(* transaction of its own, and the form of a site changes the server and   *)
(* the copy in one request.  Requests of several administrators overlap,   *)
(* and sites are changed elsewhere as well.                                *)
(*                                                                         *)
(* A site has a label, which stands for its code and its name: both are    *)
(* unique, on the server and in the copy, and are treated alike.           *)
(***************************************************************************)
EXTENDS Naturals, FiniteSets, SequencesExt

CONSTANTS
  SiteIds,
  Labels,
  NoLabel,     \* no such site, or no such row
  Sites0,      \* the sites at first, in the copy as well
  ListSize,    \* the sites one call lists (200); no second page is asked for
  Listings,    \* listings of the admin site
  SiteForms,   \* POSTs of the form of a site
  MaxRenames   \* bound: changes made elsewhere

ASSUME SiteMirrorAssumption ==
  /\ IsFiniteSet(SiteIds)
  /\ NoLabel \notin Labels /\ Sites0 \in [SiteIds -> Labels \cup {NoLabel}]
  /\ ListSize \in Nat \ {0} /\ MaxRenames \in Nat
  /\ Listings \cap SiteForms = {}

VARIABLES
  sites,      \* server: the label of a site
  mirror,     \* Site: the label of a row
  at,         \* at[r]: where request r is
  todo,       \* todo[r]: the listed sites r has yet to store
  listed,     \* listed[r]: the sites in its list
  posted,     \* posted[r]: the site r creates or renames, its label, whether it is new
  renames,    \* changes made elsewhere so far
  overtaken,  \* history: requests that ran beside another, or whose list is old
  exact       \* history: nothing happened that the copy may not know of

siteVars == <<sites, mirror, at, todo, listed, posted, renames, overtaken, exact>>

SiteRequests == Listings \cup SiteForms
Copies == [SiteIds -> Labels \cup {NoLabel}]
Present(c) == {i \in SiteIds : c[i] # NoLabel}
Unique(c) == \A i, j \in Present(c) : c[i] = c[j] => i = j
Absent == [i \in SiteIds |-> NoLabel]

ASSUME Sites0Assumption == Unique(Sites0)

SiteTypeOK ==
  /\ sites \in Copies /\ Unique(sites)
  /\ mirror \in Copies /\ Unique(mirror)
  /\ at \in [SiteRequests -> {"new", "rows", "store", "post", "commit", "done"}]
  /\ todo \in [SiteRequests -> Seq(SiteIds \X Labels)]
  /\ listed \in [SiteRequests -> Copies]
  /\ posted \in [SiteForms -> (SiteIds \X Labels \X BOOLEAN) \cup {<<>>}]
  /\ renames \in 0 .. MaxRenames
  /\ overtaken \subseteq SiteRequests
  /\ exact \in BOOLEAN

SiteInit ==
  /\ sites = Sites0
  /\ mirror = sites
  /\ at = [r \in SiteRequests |-> "new"]
  /\ todo = [r \in SiteRequests |-> <<>>]
  /\ listed = [r \in SiteRequests |-> Absent]
  /\ posted = [r \in SiteForms |-> <<>>]
  /\ renames = 0
  /\ overtaken = {}
  /\ exact = (Cardinality(Present(sites)) <= ListSize)

Busy == {r \in SiteRequests : at[r] \notin {"new", "done"}}

Starts(r, stage) ==
  /\ at[r] = "new"
  /\ at' = [at EXCEPT ![r] = stage]
  /\ overtaken' = IF Busy = {} THEN overtaken ELSE overtaken \cup Busy \cup {r}

Ends(r) ==
  /\ at' = [at EXCEPT ![r] = "done"]
  /\ todo' = [todo EXCEPT ![r] = <<>>]
  /\ listed' = [listed EXCEPT ![r] = Absent]
  /\ posted' = [f \in SiteForms |-> IF f = r THEN <<>> ELSE posted[f]]

\* GET /admin/sites: as many sites as fit, in the server's order.
FirstPage == {S \in SUBSET Present(sites) :
  Cardinality(S) = IF Cardinality(Present(sites)) < ListSize
                   THEN Cardinality(Present(sites)) ELSE ListSize}

Listed(r) ==
  \E S \in FirstPage : \E order \in SetToSeqs(S) :
    /\ todo' = [todo EXCEPT ![r] = [k \in DOMAIN order |-> <<order[k], sites[order[k]]>>]]
    /\ listed' = [listed EXCEPT ![r] = [i \in SiteIds |-> IF i \in S THEN sites[i] ELSE NoLabel]]

\* A form that refreshed the copy has written every row: other requests wait for its end.
Locked(r) == \E f \in SiteForms \ {r} : at[f] \in {"post", "commit"} /\ todo[f] # <<>>

-----------------------------------------------------------------------------
(* refresh_local_cache, run by every listing. *)

List(r) ==
  /\ Starts(r, "rows")
  /\ Listed(r)
  /\ UNCHANGED <<sites, mirror, posted, renames, exact>>

\* No list: the page shows the copy as it is, with a warning.
ListFailed(r) ==
  /\ at[r] = "new"
  /\ at' = [at EXCEPT ![r] = "done"]
  /\ UNCHANGED <<sites, mirror, todo, listed, posted, renames, overtaken, exact>>

\* Mutant: nobody makes room for a label that another row still has.
ClearNothing(r) ==
  /\ at[r] = "rows" /\ todo[r] # <<>> /\ ~Locked(r)
  /\ at' = [at EXCEPT ![r] = "store"]
  /\ UNCHANGED <<sites, mirror, todo, listed, posted, renames, overtaken, exact>>

\* Mutant: the row of the site itself is not excluded.
ClearOwn(r) ==
  /\ at[r] = "rows" /\ todo[r] # <<>> /\ ~Locked(r)
  /\ mirror' = [i \in SiteIds |-> IF mirror[i] = todo[r][1][2] THEN NoLabel ELSE mirror[i]]
  /\ at' = [at EXCEPT ![r] = "store"]
  /\ UNCHANGED <<sites, todo, listed, posted, renames, overtaken, exact>>

\* Other rows with the code or the name of the next site are deleted.
Clear(r) ==
  /\ at[r] = "rows" /\ todo[r] # <<>> /\ ~Locked(r)
  /\ mirror' = [i \in SiteIds |->
       IF i # todo[r][1][1] /\ mirror[i] = todo[r][1][2] THEN NoLabel ELSE mirror[i]]
  /\ at' = [at EXCEPT ![r] = "store"]
  /\ UNCHANGED <<sites, todo, listed, posted, renames, overtaken, exact>>

Store(r) ==
  /\ at[r] = "store" /\ ~Locked(r)
  /\ mirror' = [mirror EXCEPT ![todo[r][1][1]] = todo[r][1][2]]
  /\ Unique(mirror')
  /\ at' = [at EXCEPT ![r] = "rows"]
  /\ todo' = [todo EXCEPT ![r] = Tail(@)]
  /\ UNCHANGED <<sites, listed, posted, renames, overtaken, exact>>

\* History: a refresh that ran alone, over all sites there are.
Alone(r) == r \notin overtaken /\ Cardinality(Present(sites)) <= ListSize

\* Another request has used the label since: the refresh stops half way, with a warning.
StoreFails(r) ==
  /\ at[r] = "store" /\ ~Locked(r)
  /\ ~Unique([mirror EXCEPT ![todo[r][1][1]] = todo[r][1][2]])
  /\ exact' = (exact \/ Alone(r))
  /\ Ends(r)
  /\ UNCHANGED <<sites, mirror, renames, overtaken>>

\* Rows of sites that were not listed are deleted.
Prune(r) ==
  /\ at[r] = "rows" /\ todo[r] = <<>> /\ ~Locked(r)
  /\ mirror' = [i \in SiteIds |-> IF listed[r][i] = NoLabel THEN NoLabel ELSE mirror[i]]
  /\ exact' = (exact \/ Alone(r))
  /\ Ends(r)
  /\ UNCHANGED <<sites, renames, overtaken>>

-----------------------------------------------------------------------------
(* The form of a site: one transaction.  To change a site it looks the row *)
(* up, which refreshes the copy first.                                     *)

\* The site to rename has a row in this copy, a new one has none; the label is new to it.
Postable(copy, r, new) ==
  \E i \in SiteIds, l \in Labels :
    /\ copy[i] = NoLabel <=> new
    /\ \A j \in Present(copy) \ {i} : copy[j] # l
    /\ posted' = [posted EXCEPT ![r] = <<i, l, new>>]

\* A new site; or one to change, when there is no list and the copy stays as it is.
FormUnlisted(r) ==
  /\ Starts(r, "post")
  /\ \E new \in BOOLEAN : Postable(mirror, r, new)
  /\ UNCHANGED <<sites, mirror, todo, listed, renames, exact>>

\* What a refresh leaves, alone in its transaction, is the list.  Left out: a refresh that stops half
\* way inside the form and is caught there (admin.py:42-49), which takes another request that
\* commits a label between two statements of this one.
FormToChange(r) ==
  /\ ~Locked(r)
  /\ Starts(r, "post")
  /\ Listed(r)
  /\ Postable(listed'[r], r, FALSE)
  /\ mirror[posted'[r][1]] # NoLabel
  /\ UNCHANGED <<sites, mirror, renames, exact>>

\* The server knows the site exactly if it is not new, and no other site has the label.
FormBooked(r) ==
  /\ at[r] = "post"
  /\ sites[posted[r][1]] = NoLabel <=> posted[r][3]
  /\ sites' = [sites EXCEPT ![posted[r][1]] = posted[r][2]]
  /\ Unique(sites')
  /\ overtaken' = overtaken \cup (Busy \ {r})
  /\ at' = [at EXCEPT ![r] = "commit"]
  /\ exact' = FALSE
  /\ UNCHANGED <<mirror, todo, listed, posted, renames>>

\* Refused, no answer, or an error of the database: everything local is rolled back.
FormFails(r) ==
  /\ r \in SiteForms /\ at[r] \in {"post", "commit"}
  /\ Ends(r)
  /\ UNCHANGED <<sites, mirror, renames, overtaken, exact>>

\* The rows of the list, if there is one, then the row of the site, which clears its label.
FormCommits(r) ==
  LET copy == IF todo[r] = <<>> THEN mirror ELSE listed[r]
  IN  /\ at[r] = "commit" /\ ~Locked(r)
      /\ mirror' = [i \in SiteIds |->
           IF i = posted[r][1] THEN posted[r][2]
           ELSE IF copy[i] = posted[r][2] THEN NoLabel ELSE copy[i]]
      /\ exact' = (todo[r] # <<>> /\ Alone(r))
      /\ Ends(r)
      /\ UNCHANGED <<sites, renames, overtaken>>

-----------------------------------------------------------------------------
\* Sites are created, renamed, closed, or swap their labels elsewhere; external.
Rename ==
  /\ renames < MaxRenames
  /\ renames' = renames + 1
  /\ sites' \in {c \in Copies : Unique(c) /\ Cardinality({i \in SiteIds : c[i] # sites[i]}) \in 1 .. 2}
  /\ overtaken' = overtaken \cup Busy
  /\ exact' = FALSE
  /\ UNCHANGED <<mirror, at, todo, listed, posted>>

SiteNext ==
  \/ \E r \in Listings : List(r) \/ ListFailed(r)
  \/ \E r \in Listings : Clear(r) \/ Store(r) \/ StoreFails(r) \/ Prune(r)
  \/ \E r \in SiteForms : FormUnlisted(r) \/ FormToChange(r)
  \/ \E r \in SiteForms : FormBooked(r) \/ FormFails(r) \/ FormCommits(r)
  \/ Rename

-----------------------------------------------------------------------------
(* Properties. *)

\* A refresh that ran alone over a list of all sites leaves the copy as the server is, in
\* whatever order they are listed and whatever labels they swapped; so it stays until the
\* next change, whatever other refreshes do in the meantime, half way through as well.
QuietMirrorIsExact == exact => mirror = sites

\* The row of a site that the server still has is deleted only by a request that another
\* overtook, because its label went to another site, or because the list is too short.
\* (What refers to the row loses it for good: UserProfile.site is set to null.)
RowVanishesOnlyByRaceSwapOrLimit ==
  [][\A i \in Present(mirror) \cap Present(sites) :
       mirror'[i] = NoLabel =>
         \/ \E j \in SiteIds \ {i} : sites[j] = mirror[i]
         \/ Cardinality(Present(sites)) > ListSize
         \/ \E r \in overtaken : at'[r] # at[r]]_siteVars
=============================================================================
