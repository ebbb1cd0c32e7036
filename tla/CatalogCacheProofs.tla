------------------------- MODULE CatalogCacheProofs -------------------------
(***************************************************************************)
(* Theorems about CatalogCache: catalogues and pages of any size, and any  *)
(* number of syncs and searches at the same time.                          *)
(***************************************************************************)
EXTENDS CatalogCache, FiniteSetTheorems, FunctionTheorems, TLAPS

-----------------------------------------------------------------------------
(* Pages: the elements of a set by their place in it. *)

LEMMA RankType ==
  ASSUME NEW S \in SUBSET Nat, IsFiniteSet(S), NEW i \in S
  PROVE  Rank(i, S) \in 1 .. Cardinality(S)
<1> DEFINE T == {j \in S : j <= i}
<1>1. T \in SUBSET S /\ i \in T
  OBVIOUS
<1>2. /\ IsFiniteSet(T) /\ Cardinality(T) <= Cardinality(S)
      /\ Cardinality(T) \in Nat /\ Cardinality(S) \in Nat
  BY <1>1, FS_Subset, FS_CardinalityType
<1>3. Cardinality(T) # 0
  BY <1>1, <1>2, FS_EmptySet
<1>4. QED
  BY <1>2, <1>3 DEF Rank

LEMMA RankGrows ==
  ASSUME NEW S \in SUBSET Nat, IsFiniteSet(S), NEW i \in S, NEW j \in S, i < j
  PROVE  Rank(i, S) < Rank(j, S)
<1> DEFINE T == {k \in S : k <= i}
           U == {k \in S : k <= j}
<1>1. T \in SUBSET U /\ T # U /\ U \in SUBSET S
  <2>1. \A k \in S : k <= i => k <= j
    OBVIOUS
  <2>2. j \in U /\ ~(j <= i)
    OBVIOUS
  <2>3. T \in SUBSET U
    BY <2>1
  <2>4. j \notin T
    BY <2>2
  <2>5. QED
    BY <2>2, <2>3, <2>4
<1>2. IsFiniteSet(U) /\ IsFiniteSet(T)
  BY <1>1, FS_Subset
<1>3. Cardinality(T) <= Cardinality(U) /\ Cardinality(T) # Cardinality(U)
  BY <1>1, <1>2, FS_Subset
<1>4. Cardinality(T) \in Nat /\ Cardinality(U) \in Nat
  BY <1>2, FS_CardinalityType
<1>5. QED
  BY <1>3, <1>4 DEF Rank

LEMMA RankIsPlace ==
  ASSUME NEW S \in SUBSET Nat, IsFiniteSet(S)
  PROVE  /\ \A i, j \in S : Rank(i, S) = Rank(j, S) => i = j
         /\ \A n \in 1 .. Cardinality(S) : \E i \in S : Rank(i, S) = n
<1> DEFINE f == [i \in S |-> Rank(i, S)]
           N == 1 .. Cardinality(S)
<1>1. Cardinality(S) \in Nat
  BY FS_CardinalityType
<1>2. ASSUME NEW i \in S, NEW j \in S, Rank(i, S) = Rank(j, S)
      PROVE  i = j
  <2>1. Rank(i, S) \in Int /\ Rank(j, S) \in Int
    BY <1>1, RankType
  <2>2. ~(i < j) /\ ~(j < i)
    BY <1>2, <2>1, RankGrows
  <2>3. QED
    BY <2>2
<1>3. f \in [S -> N]
  BY RankType
<1>4. f \in Injection(S, N)
  BY <1>2, <1>3, Fun_IsInj
<1>5. IsFiniteSet(N) /\ Cardinality(N) = Cardinality(S)
  BY <1>1, FS_Interval
<1>6. f \in Surjection(S, N)
  BY <1>4, <1>5, FS_Injection
<1>7. \A n \in N : \E i \in S : f[i] = n
  BY <1>6 DEF Surjection
<1>8. \A n \in N : \E i \in S : Rank(i, S) = n
  BY <1>7
<1>9. QED
  BY <1>2, <1>8

\* A page has at most as many rows as it may, and all of them if the set reaches its end.
LEMMA SliceSize ==
  ASSUME NEW S \in SUBSET Nat, IsFiniteSet(S), NEW a \in Nat, NEW n \in Nat
  PROVE  LET page_ == Slice(S, a + 1, a + n)
         IN  /\ page_ \in SUBSET S /\ IsFiniteSet(page_)
             /\ Cardinality(page_) \in Nat /\ Cardinality(page_) <= n
             /\ Cardinality(S) >= a + n => Cardinality(page_) = n
<1> DEFINE T == Slice(S, a + 1, a + n)
           f == [i \in T |-> Rank(i, S)]
           N == (a + 1) .. (a + n)
<1>1. T \in SUBSET S /\ \A i : i \in T <=> i \in S /\ a + 1 <= Rank(i, S) /\ Rank(i, S) <= a + n
  BY DEF Slice
<1>2. Cardinality(S) \in Nat
  BY FS_CardinalityType
<1>3. \A i \in S : Rank(i, S) \in Int
  BY <1>2, RankType
<1> HIDE DEF T
<1>4. f \in [T -> N]
  BY <1>1, <1>3
<1>5. f \in Injection(T, N)
  <2>1. \A i, j \in S : Rank(i, S) = Rank(j, S) => i = j
    BY RankIsPlace
  <2>2. \A i, j \in T : f[i] = f[j] => i = j
    BY <1>1, <2>1
  <2>3. QED
    BY <1>4, <2>2, Fun_IsInj
<1>6. IsFiniteSet(N) /\ Cardinality(N) = n
  BY FS_Interval
<1>7. IsFiniteSet(T) /\ Cardinality(T) <= n
  BY <1>5, <1>6, FS_Injection
<1>8. ASSUME Cardinality(S) >= a + n
      PROVE  Cardinality(T) = n
  <2>1. \A m \in N : \E i \in T : f[i] = m
    <3>1. SUFFICES ASSUME NEW m \in N
                   PROVE  \E i \in T : f[i] = m
      OBVIOUS
    <3>2. m \in 1 .. Cardinality(S)
      BY <1>2, <1>8
    <3>3. PICK i \in S : Rank(i, S) = m
      BY <3>2, RankIsPlace
    <3>4. QED
      BY <1>1, <3>3
  <2>2. f \in Surjection(T, N)
    BY <1>4, <2>1, Fun_IsSurj
  <2>3. QED
    BY <1>5, <1>6, <2>2, FS_Injection
<1>9. Cardinality(T) \in Nat
  BY <1>7, FS_CardinalityType
<1>10. QED
  BY <1>1, <1>7, <1>8, <1>9 DEF T

\* A page that is not full is the last.
LEMMA ShortPageIsLast ==
  ASSUME NEW S \in SUBSET Nat, IsFiniteSet(S), NEW a \in Nat, NEW n \in Nat,
         Cardinality(Slice(S, a + 1, a + n)) < n, NEW i \in S
  PROVE  Rank(i, S) <= a + n
<1>1. ~(Cardinality(S) >= a + n)
  BY SliceSize
<1>2. Cardinality(S) \in Nat /\ Rank(i, S) \in 1 .. Cardinality(S)
  BY FS_CardinalityType, RankType
<1>3. QED
  BY <1>1, <1>2

LEMMA FirstSize ==
  ASSUME NEW S \in SUBSET Nat, IsFiniteSet(S), NEW n \in Nat
  PROVE  /\ First(n, S) \in SUBSET S /\ IsFiniteSet(First(n, S))
         /\ Cardinality(First(n, S)) \in Nat /\ Cardinality(First(n, S)) <= n
         /\ Cardinality(S) >= n => Cardinality(First(n, S)) = n
         /\ Cardinality(S) <= n => First(n, S) = S
<1>1. First(n, S) = Slice(S, 0 + 1, 0 + n)
  BY DEF First
<1>2. ASSUME Cardinality(S) <= n
      PROVE  First(n, S) = S
  <2>1. \A i \in S : 1 <= Rank(i, S) /\ Rank(i, S) <= n
    BY <1>2, RankType, FS_CardinalityType
  <2>2. QED
    BY <2>1 DEF First, Slice
<1>3. /\ Slice(S, 0 + 1, 0 + n) \in SUBSET S /\ IsFiniteSet(Slice(S, 0 + 1, 0 + n))
      /\ Cardinality(Slice(S, 0 + 1, 0 + n)) \in Nat /\ Cardinality(Slice(S, 0 + 1, 0 + n)) <= n
      /\ Cardinality(S) >= 0 + n => Cardinality(Slice(S, 0 + 1, 0 + n)) = n
  BY SliceSize
<1>4. QED
  BY <1>1, <1>2, <1>3

-----------------------------------------------------------------------------
(* The inductive invariant. *)

\* Each kind of request has its own stages; it has rows in hand only before it stores them,
\* and they are rows of cards as they are or once were.
RowsInv ==
  /\ batch = [r \in Requests |-> batch[r]]
  /\ found = [s \in Searches |-> found[s]]
  /\ \A r \in Syncs : pc[r] \in {"new", "fetch", "write", "done"}
  /\ \A s \in Searches : pc[s] \in {"new", "remote", "warm", "done"}
  /\ \A r \in Requests : pc[r] \notin {"write", "warm"} => DOMAIN batch[r] = {}
  /\ \A r \in Requests : \A i \in DOMAIN batch[r] : batch[r][i].v \in 1 .. version[i]

\* What a request that nobody overtook has in hand is as new as the copy.
RaceInv ==
  \A r \in Requests \ overtaken : \A i \in DOMAIN batch[r] :
    cache[i] # None => batch[r][i].v >= cache[i].v

Page(r) == Slice(Listed, (page[r] - 1) * PageSize + 1, page[r] * PageSize)

\* The cards of the pages before page n are in the copy as the server has them.
StoredUpTo(n) ==
  \A i \in Listed : Rank(i, Listed) <= (n - 1) * PageSize => cache[i] = Told(Listed, TRUE)[i]

\* A sync that nothing disturbed has stored all the pages before its own.
QuietSync(r) ==
  /\ total[r] \in {0, Cardinality(Listed)}
  /\ StoredUpTo(page[r])
  /\ pc[r] = "write" => batch[r] = Told(Page(r), TRUE)

\* What a search is told of.
Answer(s) == First(Limit, First(RemotePage, Listed \cap Query[s]) \cap active)

QuietInv ==
  /\ \A r \in Syncs : pc[r] = "new" => page[r] = 1 /\ total[r] = 0
  /\ \A r \in Syncs \ disturbed : pc[r] \in {"fetch", "write"} => QuietSync(r)
  /\ \A s \in Searches \ disturbed : pc[s] = "warm" => DOMAIN batch[s] = Answer(s)

IInv == TypeOK /\ RowsInv /\ RaceInv /\ QuietInv

-----------------------------------------------------------------------------
(* What the sets and the rows are. *)

LEMMA ItemSets ==
  ASSUME NEW S \in SUBSET Items
  PROVE  S \in SUBSET Nat /\ IsFiniteSet(S)
BY CatalogCacheAssumption, FS_Subset

LEMMA ToldRows ==
  ASSUME TypeOK, NEW S \in SUBSET Listed, NEW full \in BOOLEAN
  PROVE  /\ DOMAIN Told(S, full) = S /\ Told(S, full) \in [S -> Rows]
         /\ S \in SUBSET Items
         /\ \A i \in S : Told(S, full)[i].v = version[i] /\ version[i] \in 1 .. version[i]
<1>1. S \in SUBSET Items /\ \A i \in S : version[i] \in Nat /\ version[i] > 0
  BY DEF TypeOK, Listed
<1>2. \A i \in S : [v |-> version[i], active |-> i \in active, full |-> full] \in Rows
  BY <1>1 DEF Rows
<1>3. QED
  BY <1>1, <1>2 DEF Told

\* What request r has in hand is rows of cards, as they are or once were.
RowsOf(r) ==
  /\ \E S \in SUBSET Items : batch[r] \in [S -> Rows]
  /\ \A i \in DOMAIN batch[r] : batch[r][i].v \in 1 .. version[i]

\* What search s shows is rows of cards, and no more than it may.
ShownBy(s) ==
  /\ \E S \in SUBSET Items : found[s] \in [S -> Rows]
  /\ Cardinality(DOMAIN found[s]) <= Limit

CacheOK == \A i \in Items : cache[i] # None => cache[i] \in Rows /\ cache[i].v \in 1 .. version[i]

LEMMA NothingIsRows ==
  DOMAIN Nothing = {} /\ Nothing \in [{} -> Rows]
BY DEF Nothing

LEMMA RowsBack ==
  ASSUME NEW r \in Requests, NEW S \in SUBSET Items, batch'[r] \in [S -> Rows],
         \A i \in S : batch'[r][i].v \in 1 .. version'[i]
  PROVE  RowsOf(r)'
BY DEF RowsOf

\* A request that gives up or has stored what it had holds nothing.
LEMMA RowsGone ==
  ASSUME NEW r \in Requests, batch'[r] = Nothing
  PROVE  RowsOf(r)'
BY NothingIsRows DEF RowsOf

LEMMA RowsStay ==
  ASSUME NEW r \in Requests, RowsOf(r), batch'[r] = batch[r], UNCHANGED version
  PROVE  RowsOf(r)'
BY DEF RowsOf

LEMMA UpsertRows ==
  ASSUME TypeOK, RowsInv, NEW r \in Requests, Upsert(r), UNCHANGED server
  PROVE  /\ CacheOK'
         /\ batch' = [q \in Requests |-> batch'[q]]
         /\ batch'[r] = Nothing /\ \A q \in Requests \ {r} : batch'[q] = batch[q]
         /\ overtaken' \subseteq Requests /\ disturbed' \subseteq Requests
<1>1. version' = version
  BY DEF server
<1>2. PICK S \in SUBSET Items : batch[r] \in [S -> Rows]
  BY DEF TypeOK
<1>3. \A i \in S : batch[r][i] \in Rows /\ batch[r][i].v \in 1 .. version[i]
  BY <1>2 DEF RowsInv
<1>4. ASSUME NEW i \in Items, cache'[i] # None
      PROVE  cache'[i] \in Rows /\ cache'[i].v \in 1 .. version[i]
  <2>1. cache'[i] = IF i \in S THEN batch[r][i] ELSE cache[i]
    BY <1>2 DEF Upsert
  <2>2. QED
    BY <1>3, <1>4, <2>1 DEF TypeOK
<1>5. CacheOK'
  BY <1>1, <1>4 DEF CacheOK
<1>6. batch' = [batch EXCEPT ![r] = Nothing] /\ batch = [q \in Requests |-> batch[q]]
  BY DEF Upsert, RowsInv
<1>7. overtaken' \subseteq Requests /\ disturbed' \subseteq Requests
  BY DEF Upsert, TypeOK, Running
<1>8. QED
  BY <1>5, <1>6, <1>7

\* The type invariant and RowsInv, in the parts that steps disturb.
Typed ==
  /\ version \in [Items -> Nat] /\ active \subseteq {i \in Items : version[i] > 0}
  /\ CacheOK
  /\ pc \in [Requests -> {"new", "fetch", "write", "remote", "warm", "done"}]
  /\ \A r \in Syncs : pc[r] \in {"new", "fetch", "write", "done"}
  /\ \A s \in Searches : pc[s] \in {"new", "remote", "warm", "done"}
  /\ page \in [Syncs -> Nat \ {0}] /\ total \in [Syncs -> Nat]
  /\ batch = [r \in Requests |-> batch[r]] /\ found = [s \in Searches |-> found[s]]
  /\ \A r \in Requests : RowsOf(r)
  /\ \A r \in Requests : pc[r] \notin {"write", "warm"} => DOMAIN batch[r] = {}
  /\ \A s \in Searches : ShownBy(s)
  /\ outcome \in [Requests -> {"none", "synced", "failed", "shown"}]
  /\ overtaken \subseteq Requests /\ disturbed \subseteq Requests

LEMMA TypedParts ==
  Typed <=> TypeOK /\ RowsInv
BY DEF Typed, TypeOK, RowsInv, CacheOK, RowsOf, ShownBy

-----------------------------------------------------------------------------
(* The type invariant. *)

LEMMA Initial ==
  Init => IInv
<1> SUFFICES ASSUME Init
             PROVE  IInv
  OBVIOUS
<1>2. Syncs \subseteq Requests /\ Searches \subseteq Requests
  BY DEF Requests
<1>3. \A r \in Requests : batch[r] = Nothing /\ pc[r] = "new"
  BY DEF Init
<1>4. \A r \in Requests : RowsOf(r)
  BY <1>3, NothingIsRows DEF RowsOf
<1>5. \A s \in Searches : ShownBy(s)
  <2>1. Cardinality(DOMAIN Nothing) <= Limit
    BY NothingIsRows, FS_EmptySet, CatalogCacheAssumption
  <2>2. QED
    BY <2>1, NothingIsRows DEF Init, ShownBy
<1>6. CacheOK
  BY DEF Init, CacheOK
<1>7. version \in [Items -> Nat] /\ active \subseteq {i \in Items : version[i] > 0}
  BY DEF Init
<1>8. /\ pc \in [Requests -> {"new", "fetch", "write", "remote", "warm", "done"}]
      /\ page \in [Syncs -> Nat \ {0}] /\ total \in [Syncs -> Nat]
      /\ batch = [r \in Requests |-> batch[r]] /\ found = [s \in Searches |-> found[s]]
      /\ outcome \in [Requests -> {"none", "synced", "failed", "shown"}]
      /\ overtaken \subseteq Requests /\ disturbed \subseteq Requests
  BY DEF Init
<1>9. \A r \in Requests : pc[r] \notin {"write", "warm"} => DOMAIN batch[r] = {}
  BY <1>3, NothingIsRows
<1>10. Typed
  BY <1>2, <1>3, <1>4, <1>5, <1>6, <1>7, <1>8, <1>9 DEF Typed
<1>11. RaceInv
  BY <1>3, NothingIsRows DEF RaceInv
<1>12. QuietInv
  BY <1>2, <1>3 DEF QuietInv, Init
<1>13. QED
  BY <1>10, <1>11, <1>12, TypedParts DEF IInv

\* The catalogue changes: rows only grow older.
LEMMA TypeChange ==
  ASSUME Typed, NEW i \in Items, Change(i)
  PROVE  Typed'
<1>1. version' = [version EXCEPT ![i] = @ + 1] /\ version \in [Items -> Nat]
  BY DEF Change, Typed
<1>2. version' \in [Items -> Nat] /\ \A j \in Items : version[j] <= version'[j]
  BY <1>1
<1>3. version'[i] > 0
  BY <1>1
<1>4. active' \subseteq active \cup {i}
  BY DEF Change
<1>5. active' \subseteq {j \in Items : version'[j] > 0}
  <2>1. ASSUME NEW j \in active'
        PROVE  j \in Items /\ version'[j] > 0
    <3>1. j \in active \/ j = i
      BY <1>4
    <3>2. QED
      BY <1>1, <1>2, <1>3, <3>1 DEF Typed
  <2>2. QED
    BY <2>1
<1>6. UNCHANGED <<cache, pc, page, total, batch, found, outcome, overtaken>>
  BY DEF Change, local
<1>7. CacheOK'
  <2>1. ASSUME NEW j \in Items, cache[j] # None
        PROVE  cache[j] \in Rows /\ cache[j].v \in 1 .. version'[j]
    <3>1. cache[j] \in Rows /\ cache[j].v \in 1 .. version[j]
      BY <2>1 DEF Typed, CacheOK
    <3>2. version[j] \in Nat /\ version'[j] \in Nat /\ version[j] <= version'[j]
      BY <1>1, <1>2
    <3>3. QED
      BY <3>1, <3>2
  <2>2. QED
    BY <1>6, <2>1 DEF CacheOK
<1>8. ASSUME NEW r \in Requests
      PROVE  RowsOf(r)'
  <2>1. PICK S \in SUBSET Items : batch[r] \in [S -> Rows]
    BY DEF Typed, RowsOf
  <2>2. ASSUME NEW j \in S
        PROVE  batch[r][j].v \in 1 .. version'[j]
    <3>1. batch[r][j].v \in 1 .. version[j]
      BY <2>1 DEF Typed, RowsOf
    <3>2. version[j] \in Nat /\ version'[j] \in Nat /\ version[j] <= version'[j]
      BY <1>1, <1>2
    <3>3. QED
      BY <3>1, <3>2
  <2>3. QED
    BY <1>6, <2>1, <2>2, RowsBack
<1>9. \A s \in Searches : ShownBy(s)'
  BY <1>6 DEF Typed, ShownBy
<1>10. disturbed' \subseteq Requests
  BY DEF Change, Typed, Running
<1>11. QED
  BY <1>2, <1>5, <1>6, <1>7, <1>8, <1>9, <1>10 DEF Typed

\* What the steps of request r touch beside what it has in hand and what it shows.
Moves(r) ==
  /\ UNCHANGED server
  /\ pc' = [pc EXCEPT ![r] = pc'[r]]
  /\ outcome' \in [Requests -> {"none", "synced", "failed", "shown"}]
  /\ overtaken' \subseteq Requests /\ disturbed' \subseteq Requests
  /\ batch' = [q \in Requests |-> batch'[q]]
  /\ \A q \in Requests \ {r} : batch'[q] = batch[q]

LEMMA TypeMove ==
  ASSUME Typed, NEW r \in Requests, Moves(r), CacheOK', RowsOf(r)',
         pc'[r] \in IF r \in Syncs THEN {"fetch", "write", "done"} ELSE {"remote", "warm", "done"},
         pc'[r] \in {"write", "warm"} \/ DOMAIN batch'[r] = {},
         page' \in [Syncs -> Nat \ {0}], total' \in [Syncs -> Nat],
         found' = [s \in Searches |-> found'[s]], \A s \in Searches : ShownBy(s)'
  PROVE  Typed'
<1>1. Syncs \subseteq Requests /\ Searches \subseteq Requests /\ Syncs \cap Searches = {}
  BY CatalogCacheAssumption DEF Requests
<1>2. UNCHANGED <<version, active>>
  BY DEF Moves, server
<1>3. ASSUME NEW q \in Requests
      PROVE  RowsOf(q)'
  <2>1. CASE q = r
    BY <2>1
  <2>2. CASE q # r
    BY <1>2, <2>2, RowsStay DEF Moves, Typed
  <2>3. QED
    BY <2>1, <2>2
<1>4. /\ pc' \in [Requests -> {"new", "fetch", "write", "remote", "warm", "done"}]
      /\ \A q \in Requests \ {r} : pc'[q] = pc[q]
  BY DEF Moves, Typed
<1>5. \A q \in Syncs : pc'[q] \in {"new", "fetch", "write", "done"}
  BY <1>1, <1>4 DEF Typed
<1>6. \A s \in Searches : pc'[s] \in {"new", "remote", "warm", "done"}
  BY <1>1, <1>4 DEF Typed
<1>7. ASSUME NEW q \in Requests, pc'[q] \notin {"write", "warm"}
      PROVE  DOMAIN batch'[q] = {}
  <2>1. CASE q = r
    BY <1>7, <2>1
  <2>2. CASE q # r
    BY <1>4, <1>7, <2>2 DEF Moves, Typed
  <2>3. QED
    BY <2>1, <2>2
<1>8. QED
  BY <1>2, <1>3, <1>4, <1>5, <1>6, <1>7 DEF Typed, Moves

LEMMA ShownStay ==
  ASSUME Typed, UNCHANGED found
  PROVE  found' = [s \in Searches |-> found'[s]] /\ \A s \in Searches : ShownBy(s)'
BY DEF Typed, ShownBy

LEMMA ShownBack ==
  ASSUME Typed, NEW s \in Searches, NEW f, found' = [found EXCEPT ![s] = f],
         NEW S \in SUBSET Items, f \in [S -> Rows], Cardinality(S) <= Limit
  PROVE  found' = [q \in Searches |-> found'[q]] /\ \A q \in Searches : ShownBy(q)'
<1>1. found'[s] = f /\ \A q \in Searches \ {s} : found'[q] = found[q]
  BY DEF Typed
<1>2. ShownBy(s)'
  BY <1>1 DEF ShownBy
<1>3. \A q \in Searches \ {s} : ShownBy(q)'
  BY <1>1 DEF Typed, ShownBy
<1>4. QED
  BY <1>2, <1>3 DEF Typed

LEMMA CacheStays ==
  ASSUME Typed, UNCHANGED <<cache, version>>
  PROVE  CacheOK'
BY DEF Typed, CacheOK

\* A step of a sync.
LEMMA TypeSync ==
  ASSUME Typed, NEW r \in Syncs, StartSync(r) \/ SyncStep(r)
  PROVE  Typed'
<1>1. r \in Requests /\ r \notin Searches
  BY CatalogCacheAssumption DEF Requests
<1>2. CASE StartSync(r)
  <2>1. /\ UNCHANGED <<server, cache, page, total, batch, found, outcome, overtaken, disturbed>>
        /\ pc' = [pc EXCEPT ![r] = "fetch"] /\ pc[r] = "new" /\ pc'[r] = "fetch"
    BY <1>1, <1>2 DEF StartSync, history, Typed
  <2>2. /\ CacheOK' /\ found' = [s \in Searches |-> found'[s]]
        /\ \A s \in Searches : ShownBy(s)'
    BY <2>1, CacheStays, ShownStay DEF server
  <2>3. Moves(r) /\ DOMAIN batch'[r] = {}
    BY <1>1, <2>1 DEF Moves, Typed
  <2>4. RowsOf(r)' /\ total' \in [Syncs -> Nat] /\ page' \in [Syncs -> Nat \ {0}]
    BY <1>1, <2>1, RowsStay DEF server, Typed
  <2>5. QED
    BY <1>1, <2>1, <2>2, <2>3, <2>4, TypeMove
<1>3. CASE FetchPage(r)
  <2> DEFINE items == Slice(Listed, (page[r] - 1) * PageSize + 1, page[r] * PageSize)
  <2>1. /\ UNCHANGED <<server, cache, page, found, overtaken, disturbed>>
        /\ total' = [total EXCEPT ![r] = IF Listed = {} THEN @ ELSE Cardinality(Listed)]
             \/ total' = total
        /\ \/ Finish(r, "synced") /\ UNCHANGED batch
           \/ /\ batch' = [batch EXCEPT ![r] = Told(items, TRUE)]
              /\ pc' = [pc EXCEPT ![r] = "write"] /\ UNCHANGED outcome
        /\ pc[r] = "fetch"
    BY <1>3 DEF FetchPage, history
  <2>2. Cardinality(Listed) \in Nat
    BY ItemSets, FS_CardinalityType DEF Listed
  <2>3. total' \in [Syncs -> Nat]
    BY <2>1, <2>2 DEF Typed
  <2>4. items \in SUBSET Listed /\ UNCHANGED version
    BY <2>1 DEF Slice, server
  <2>5. CacheOK' /\ found' = [s \in Searches |-> found'[s]] /\ \A s \in Searches : ShownBy(s)'
    BY <2>1, <2>4, CacheStays, ShownStay
  <2> HIDE DEF items
  <2>6. CASE Finish(r, "synced") /\ UNCHANGED batch
    <3>1. pc' = [pc EXCEPT ![r] = "done"] /\ outcome' = [outcome EXCEPT ![r] = "synced"]
      BY <2>6 DEF Finish
    <3>2. Moves(r) /\ pc'[r] = "done" /\ DOMAIN batch'[r] = {}
      BY <1>1, <2>1, <2>6, <3>1 DEF Moves, Typed
    <3>3. RowsOf(r)' /\ page' \in [Syncs -> Nat \ {0}]
      BY <1>1, <2>1, <2>4, <2>6, RowsStay DEF Typed
    <3>4. QED
      BY <1>1, <2>3, <2>5, <3>2, <3>3, TypeMove
  <2>7. CASE /\ batch' = [batch EXCEPT ![r] = Told(items, TRUE)]
             /\ pc' = [pc EXCEPT ![r] = "write"] /\ UNCHANGED outcome
    <3>1. /\ items \in SUBSET Items /\ Told(items, TRUE) \in [items -> Rows]
          /\ \A i \in items : Told(items, TRUE)[i].v \in 1 .. version[i]
      BY <2>4, ToldRows, TypedParts
    <3>2. batch'[r] = Told(items, TRUE)
      BY <1>1, <2>7 DEF Typed
    <3>3. RowsOf(r)'
      BY <1>1, <2>4, <3>1, <3>2, RowsBack
    <3>4. Moves(r) /\ pc'[r] = "write"
      BY <1>1, <2>1, <2>7 DEF Moves, Typed
    <3>5. page' \in [Syncs -> Nat \ {0}]
      BY <2>1 DEF Typed
    <3>6. QED
      BY <1>1, <2>3, <2>5, <3>3, <3>4, <3>5, TypeMove
  <2>8. QED
    BY <2>1, <2>6, <2>7
<1>4. CASE WritePage(r)
  <2>1. /\ UNCHANGED <<server, total, found>> /\ Upsert(r) /\ pc[r] = "write"
        /\ \/ Finish(r, "synced") /\ UNCHANGED page
           \/ /\ pc' = [pc EXCEPT ![r] = "fetch"] /\ page' = [page EXCEPT ![r] = @ + 1]
              /\ UNCHANGED outcome
    BY <1>4 DEF WritePage
  <2>2. /\ CacheOK' /\ batch' = [q \in Requests |-> batch'[q]]
        /\ batch'[r] = Nothing /\ \A q \in Requests \ {r} : batch'[q] = batch[q]
        /\ overtaken' \subseteq Requests /\ disturbed' \subseteq Requests
    BY <1>1, <2>1, UpsertRows, TypedParts
  <2>3. page' \in [Syncs -> Nat \ {0}]
    BY <2>1 DEF Typed
  <2>4. /\ outcome' \in [Requests -> {"none", "synced", "failed", "shown"}]
        /\ pc' = [pc EXCEPT ![r] = pc'[r]] /\ pc'[r] \in {"fetch", "done"}
    BY <1>1, <2>1 DEF Typed, Finish
  <2>5. Moves(r)
    BY <2>1, <2>2, <2>4 DEF Moves
  <2>6. found' = [s \in Searches |-> found'[s]] /\ \A s \in Searches : ShownBy(s)'
    BY <2>1, ShownStay
  <2>7. RowsOf(r)' /\ total' \in [Syncs -> Nat]
    BY <1>1, <2>1, <2>2, RowsGone DEF Typed
  <2>8. QED
    BY <1>1, <2>2, <2>3, <2>4, <2>5, <2>6, <2>7, TypeMove, NothingIsRows
<1>5. CASE SyncFails(r)
  <2>1. /\ UNCHANGED <<server, cache, page, total, found, disturbed>>
        /\ batch' = [batch EXCEPT ![r] = Nothing] /\ overtaken' = overtaken \ {r}
        /\ pc' = [pc EXCEPT ![r] = "done"] /\ outcome' = [outcome EXCEPT ![r] = "failed"]
    BY <1>5 DEF SyncFails, Finish
  <2>2. batch'[r] = Nothing /\ pc'[r] = "done"
    BY <1>1, <2>1 DEF Typed
  <2>3. Moves(r)
    BY <1>1, <2>1 DEF Moves, Typed
  <2>4. /\ CacheOK' /\ found' = [s \in Searches |-> found'[s]]
        /\ \A s \in Searches : ShownBy(s)'
    BY <2>1, CacheStays, ShownStay DEF server
  <2>5. RowsOf(r)' /\ total' \in [Syncs -> Nat] /\ page' \in [Syncs -> Nat \ {0}]
    BY <1>1, <2>1, <2>2, RowsGone DEF Typed
  <2>6. QED
    BY <1>1, <2>2, <2>3, <2>4, <2>5, TypeMove, NothingIsRows
<1>6. QED
  BY <1>2, <1>3, <1>4, <1>5 DEF SyncStep

LEMMA TypeSearch ==
  ASSUME Typed, NEW s \in Searches, Lookup(s) \/ SearchStep(s)
  PROVE  Typed'
<1>1. s \in Requests /\ s \notin Syncs /\ Query[s] \in SUBSET Items
  BY CatalogCacheAssumption DEF Requests
<1>2. CASE Lookup(s)
  <2>1. PICK hits \in {{i \in Query[s] : cache[i] # None /\ cache[i].active}, {}} :
          /\ found' = [found EXCEPT ![s] = [i \in First(Limit, hits) |-> cache[i]]]
          /\ \/ Finish(s, "shown")
             \/ pc' = [pc EXCEPT ![s] = "remote"] /\ UNCHANGED outcome
    BY <1>2 DEF Lookup
  <2>2. /\ UNCHANGED <<server, cache, page, total, batch, overtaken, disturbed>>
        /\ pc[s] = "new"
    BY <1>2 DEF Lookup, history
  <2>3. hits \in SUBSET Items /\ \A i \in hits : cache[i] \in Rows
    BY <1>1, <2>1 DEF Typed, CacheOK
  <2>4. First(Limit, hits) \in SUBSET hits /\ Cardinality(First(Limit, hits)) <= Limit
    BY <2>3, ItemSets, FirstSize, CatalogCacheAssumption
  <2>5. [i \in First(Limit, hits) |-> cache[i]] \in [First(Limit, hits) -> Rows]
    BY <2>3, <2>4
  <2>6. found' = [q \in Searches |-> found'[q]] /\ \A q \in Searches : ShownBy(q)'
    BY <2>1, <2>3, <2>4, <2>5, ShownBack
  <2>7. /\ outcome' \in [Requests -> {"none", "synced", "failed", "shown"}]
        /\ pc' = [pc EXCEPT ![s] = pc'[s]] /\ pc'[s] \in {"remote", "done"}
    BY <1>1, <2>1 DEF Typed, Finish
  <2>8. Moves(s) /\ DOMAIN batch'[s] = {}
    BY <1>1, <2>2, <2>7 DEF Moves, Typed
  <2>9. /\ RowsOf(s)' /\ CacheOK'
        /\ total' \in [Syncs -> Nat] /\ page' \in [Syncs -> Nat \ {0}]
    BY <1>1, <2>2, RowsStay, CacheStays DEF server, Typed
  <2>10. QED
    BY <1>1, <2>6, <2>7, <2>8, <2>9, TypeMove
<1>3. CASE Remote(s)
  <2> DEFINE items == Answer(s)
  <2>1. /\ UNCHANGED <<server, cache, page, total, found, overtaken, disturbed>>
        /\ \/ Finish(s, "shown") /\ UNCHANGED batch
           \/ /\ batch' = [batch EXCEPT ![s] = Told(items, FALSE)]
              /\ pc' = [pc EXCEPT ![s] = "warm"] /\ UNCHANGED outcome
        /\ pc[s] = "remote"
    BY <1>3 DEF Remote, Answer, history
  <2>2. items \in SUBSET Listed /\ UNCHANGED version
    BY <2>1 DEF server, Answer, First, Slice
  <2>3. /\ CacheOK' /\ found' = [q \in Searches |-> found'[q]]
        /\ \A q \in Searches : ShownBy(q)'
    BY <2>1, <2>2, CacheStays, ShownStay
  <2>4. total' \in [Syncs -> Nat] /\ page' \in [Syncs -> Nat \ {0}]
    BY <2>1 DEF Typed
  <2> HIDE DEF items
  <2>5. CASE Finish(s, "shown") /\ UNCHANGED batch
    <3>1. Moves(s) /\ pc'[s] = "done" /\ DOMAIN batch'[s] = {}
      BY <1>1, <2>1, <2>5 DEF Moves, Typed, Finish
    <3>2. RowsOf(s)'
      BY <1>1, <2>2, <2>5, RowsStay DEF Typed
    <3>3. QED
      BY <1>1, <2>3, <2>4, <3>1, <3>2, TypeMove
  <2>6. CASE /\ batch' = [batch EXCEPT ![s] = Told(items, FALSE)]
             /\ pc' = [pc EXCEPT ![s] = "warm"] /\ UNCHANGED outcome
    <3>1. /\ items \in SUBSET Items /\ Told(items, FALSE) \in [items -> Rows]
          /\ \A i \in items : Told(items, FALSE)[i].v \in 1 .. version[i]
      BY <2>2, ToldRows, TypedParts
    <3>2. batch'[s] = Told(items, FALSE)
      BY <1>1, <2>6 DEF Typed
    <3>3. RowsOf(s)'
      BY <1>1, <2>2, <3>1, <3>2, RowsBack
    <3>4. Moves(s) /\ pc'[s] = "warm"
      BY <1>1, <2>1, <2>6 DEF Moves, Typed
    <3>5. QED
      BY <1>1, <2>3, <2>4, <3>3, <3>4, TypeMove
  <2>7. QED
    BY <2>1, <2>5, <2>6
<1>4. CASE RemoteFails(s)
  <2>1. /\ UNCHANGED <<server, cache, page, total, batch, found, overtaken, disturbed>>
        /\ Finish(s, "shown") /\ pc[s] = "remote"
    BY <1>4 DEF RemoteFails, history
  <2>2. Moves(s) /\ pc'[s] = "done" /\ DOMAIN batch'[s] = {}
    BY <1>1, <2>1 DEF Moves, Typed, Finish
  <2>3. /\ CacheOK' /\ found' = [q \in Searches |-> found'[q]] /\ RowsOf(s)'
        /\ \A q \in Searches : ShownBy(q)'
    BY <1>1, <2>1, CacheStays, ShownStay, RowsStay DEF server, Typed
  <2>4. total' \in [Syncs -> Nat] /\ page' \in [Syncs -> Nat \ {0}]
    BY <2>1 DEF Typed
  <2>5. QED
    BY <1>1, <2>2, <2>3, <2>4, TypeMove
<1>5. CASE Warm(s)
  <2> DEFINE new == New(s, DOMAIN batch[s])
             f == [i \in Hits(s) \cup new |->
                     IF i \in Hits(s) THEN found[s][i] ELSE batch[s][i]]
  <2>1. /\ UNCHANGED <<server, page, total>> /\ Finish(s, "shown")
        /\ found' = [found EXCEPT ![s] = f]
        /\ \/ Upsert(s)
           \/ /\ batch' = [batch EXCEPT ![s] = Nothing]
              /\ overtaken' = overtaken \ {s}
              /\ UNCHANGED <<cache, disturbed>>
    BY <1>5 DEF Warm, Typed
  <2>2. PICK S \in SUBSET Items : batch[s] \in [S -> Rows]
    BY <1>1 DEF Typed, RowsOf
  <2>3. PICK T \in SUBSET Items : found[s] \in [T -> Rows]
    BY DEF Typed, ShownBy
  <2>4. Hits(s) = T /\ DOMAIN batch[s] = S /\ Cardinality(T) <= Limit
    BY <2>2, <2>3 DEF Hits, Typed, ShownBy
  <2>5. IsFiniteSet(T) /\ Cardinality(T) \in Nat /\ Limit - Cardinality(T) \in Nat
    BY <2>4, ItemSets, FS_CardinalityType, CatalogCacheAssumption
  <2>6. new = First(Limit - Cardinality(T), S \ T)
    BY <2>4 DEF New
  <2>7. /\ new \in SUBSET (S \ T) /\ IsFiniteSet(new)
        /\ Cardinality(new) \in Nat /\ Cardinality(new) <= Limit - Cardinality(T)
    <3>1. S \ T \in SUBSET Items
      OBVIOUS
    <3>2. S \ T \in SUBSET Nat /\ IsFiniteSet(S \ T)
      BY <3>1, ItemSets
    <3>3. QED
      BY <2>5, <2>6, <3>2, FirstSize
  <2>8. T \cup new \in SUBSET Items /\ f \in [T \cup new -> Rows]
    BY <2>2, <2>3, <2>4, <2>7
  <2>9. Cardinality(T \cup new) <= Limit
    <3>1. T \cap new = {}
      BY <2>7
    <3>2. Cardinality(T \cup new) = Cardinality(T) + Cardinality(new) - 0
      BY <2>5, <2>7, <3>1, FS_Union, FS_EmptySet
    <3>3. QED
      BY <2>5, <2>7, <3>2, CatalogCacheAssumption
  <2> HIDE DEF f
  <2>10. found' = [q \in Searches |-> found'[q]] /\ \A q \in Searches : ShownBy(q)'
    BY <2>1, <2>8, <2>9, ShownBack
  <2>11. /\ CacheOK' /\ batch' = [q \in Requests |-> batch'[q]]
         /\ batch'[s] = Nothing /\ \A q \in Requests \ {s} : batch'[q] = batch[q]
         /\ overtaken' \subseteq Requests /\ disturbed' \subseteq Requests
    <3>1. CASE Upsert(s)
      BY <1>1, <2>1, <3>1, UpsertRows, TypedParts
    <3>2. CASE /\ batch' = [batch EXCEPT ![s] = Nothing]
               /\ overtaken' = overtaken \ {s} /\ UNCHANGED <<cache, disturbed>>
      BY <1>1, <2>1, <3>2, CacheStays DEF Typed, server
    <3>3. QED
      BY <2>1, <3>1, <3>2
  <2>12. Moves(s) /\ pc'[s] = "done"
    BY <1>1, <2>1, <2>11 DEF Moves, Typed, Finish
  <2>13. RowsOf(s)' /\ total' \in [Syncs -> Nat] /\ page' \in [Syncs -> Nat \ {0}]
    BY <1>1, <2>1, <2>11, RowsGone DEF Typed
  <2>14. QED
    BY <1>1, <2>10, <2>11, <2>12, <2>13, TypeMove, NothingIsRows
<1>6. QED
  BY <1>2, <1>3, <1>4, <1>5 DEF SearchStep

LEMMA TypeStep ==
  Typed /\ [Next]_vars => Typed'
<1> SUFFICES ASSUME Typed, [Next]_vars
             PROVE  Typed'
  OBVIOUS
<1>1. CASE UNCHANGED vars
  <2>1. /\ UNCHANGED <<version, active, cache, pc, page, total, batch, found, outcome>>
        /\ UNCHANGED <<overtaken, disturbed>>
    BY <1>1 DEF vars, server, local, history
  <2>2. QED
    BY <2>1 DEF Typed, CacheOK, RowsOf, ShownBy
<1>2. CASE Next
  BY <1>2, TypeChange, TypeSync, TypeSearch DEF Next
<1>3. QED
  BY <1>1, <1>2

-----------------------------------------------------------------------------
(* The race of writes. *)

\* The steps that store nothing: the copy stays, and what each request has in hand is
\* gone, was there before, or is what the server says now.
Keeps ==
  /\ UNCHANGED cache
  /\ \A q \in Requests :
       \/ DOMAIN batch'[q] = {}
       \/ batch'[q] = batch[q] /\ (q \in overtaken => q \in overtaken')
       \/ \A i \in DOMAIN batch'[q] : i \in Items /\ batch'[q][i].v = version[i]

LEMMA RaceKeeps ==
  ASSUME Typed, RaceInv, Keeps
  PROVE  RaceInv'
<1> SUFFICES ASSUME NEW q \in Requests, q \notin overtaken', NEW i \in DOMAIN batch'[q],
                    cache[i] # None
             PROVE  batch'[q][i].v >= cache[i].v
  BY DEF RaceInv, Keeps
<1>1. CASE batch'[q] = batch[q] /\ (q \in overtaken => q \in overtaken')
  BY <1>1 DEF RaceInv
<1>2. CASE \A j \in DOMAIN batch'[q] : j \in Items /\ batch'[q][j].v = version[j]
  <2>1. i \in Items /\ batch'[q][i].v = version[i]
    BY <1>2
  <2>2. version[i] \in Nat /\ cache[i].v \in 1 .. version[i]
    BY <2>1 DEF Typed, CacheOK
  <2>3. QED
    BY <2>1, <2>2
<1>3. QED
  BY <1>1, <1>2 DEF Keeps

LEMMA RaceUpsert ==
  ASSUME Typed, NEW r \in Requests, Upsert(r)
  PROVE  RaceInv'
<1>1. batch' = [batch EXCEPT ![r] = Nothing] /\ batch = [q \in Requests |-> batch[q]]
  BY DEF Upsert, Typed
<1>2. \A q \in Requests \ overtaken' : DOMAIN batch'[q] = {}
  BY <1>1, NothingIsRows DEF Upsert
<1>3. QED
  BY <1>2 DEF RaceInv

LEMMA RaceStep ==
  Typed /\ RaceInv /\ [Next]_vars => RaceInv'
<1> SUFFICES ASSUME Typed, RaceInv, [Next]_vars
             PROVE  RaceInv'
  OBVIOUS
<1> Syncs \subseteq Requests /\ Searches \subseteq Requests
  BY DEF Requests
<1>1. CASE UNCHANGED <<cache, batch, overtaken>>
  BY <1>1, RaceKeeps DEF Keeps
<1>2. ASSUME NEW r \in Requests, NEW S \in SUBSET Listed, NEW full \in BOOLEAN,
             batch' = [batch EXCEPT ![r] = Told(S, full)], UNCHANGED <<cache, overtaken>>
      PROVE  RaceInv'
  <2>1. \A i \in DOMAIN Told(S, full) : i \in Items /\ Told(S, full)[i].v = version[i]
    BY ToldRows, TypedParts
  <2>2. batch'[r] = Told(S, full) /\ \A q \in Requests \ {r} : batch'[q] = batch[q]
    BY <1>2 DEF Typed
  <2>3. QED
    BY <1>2, <2>1, <2>2, RaceKeeps DEF Keeps
<1>3. ASSUME NEW r \in Requests, batch' = [batch EXCEPT ![r] = Nothing],
             overtaken' = overtaken \ {r}, UNCHANGED cache
      PROVE  RaceInv'
  <2>1. batch'[r] = Nothing /\ \A q \in Requests \ {r} : batch'[q] = batch[q]
    BY <1>3 DEF Typed
  <2>2. QED
    BY <1>3, <2>1, NothingIsRows, RaceKeeps DEF Keeps
<1>4. ASSUME NEW r \in Syncs, FetchPage(r)
      PROVE  RaceInv'
  <2>1. Page(r) \in SUBSET Listed
    BY DEF Page, Slice
  <2>2. \/ UNCHANGED <<cache, batch, overtaken>>
        \/ batch' = [batch EXCEPT ![r] = Told(Page(r), TRUE)] /\ UNCHANGED <<cache, overtaken>>
    BY <1>4 DEF FetchPage, Page, history
  <2>3. QED
    BY <1>1, <1>2, <2>1, <2>2
<1>5. ASSUME NEW s \in Searches, Remote(s)
      PROVE  RaceInv'
  <2>1. Answer(s) \in SUBSET Listed
    BY DEF Answer, First, Slice
  <2>2. \/ UNCHANGED <<cache, batch, overtaken>>
        \/ batch' = [batch EXCEPT ![s] = Told(Answer(s), FALSE)] /\ UNCHANGED <<cache, overtaken>>
    BY <1>5 DEF Remote, Answer, history
  <2>3. QED
    BY <1>1, <1>2, <2>1, <2>2
<1>6. ASSUME NEW s \in Searches, Warm(s)
      PROVE  RaceInv'
  BY <1>3, <1>6, RaceUpsert DEF Warm
<1>7. ASSUME NEW r \in Syncs, StartSync(r) \/ SyncStep(r)
      PROVE  RaceInv'
  <2>1. CASE StartSync(r)
    BY <1>1, <2>1 DEF StartSync, history
  <2>2. CASE WritePage(r)
    BY <2>2, RaceUpsert DEF WritePage
  <2>3. CASE SyncFails(r)
    BY <1>3, <2>3 DEF SyncFails
  <2>4. QED
    BY <1>4, <1>7, <2>1, <2>2, <2>3 DEF SyncStep
<1>8. ASSUME NEW s \in Searches, Lookup(s) \/ SearchStep(s)
      PROVE  RaceInv'
  <2>1. CASE Lookup(s)
    BY <1>1, <2>1 DEF Lookup, history
  <2>2. CASE RemoteFails(s)
    BY <1>1, <2>2 DEF RemoteFails, history
  <2>3. QED
    BY <1>5, <1>6, <1>8, <2>1, <2>2 DEF SearchStep
<1>9. ASSUME NEW i \in Items, Change(i)
      PROVE  RaceInv'
  BY <1>1, <1>9 DEF Change, local
<1>10. CASE UNCHANGED vars
  BY <1>1, <1>10 DEF vars, local, history
<1>11. QED
  BY <1>7, <1>8, <1>9, <1>10 DEF Next

\* The copy is only written by a request that stores what it has in hand.
LEMMA Writes ==
  ASSUME Typed, [Next]_vars
  PROVE  \/ UNCHANGED cache
         \/ \E r \in Requests : /\ Upsert(r) /\ pc[r] \in {"write", "warm"}
                                /\ pc'[r] # pc[r]
<1> Syncs \subseteq Requests /\ Searches \subseteq Requests
  BY DEF Requests
<1>1. ASSUME NEW r \in Syncs, WritePage(r)
      PROVE  Upsert(r) /\ pc[r] \in {"write", "warm"} /\ pc'[r] # pc[r]
  BY <1>1 DEF WritePage, Finish, Typed
<1>2. ASSUME NEW s \in Searches, Warm(s)
      PROVE  \/ UNCHANGED cache
             \/ Upsert(s) /\ pc[s] \in {"write", "warm"} /\ pc'[s] # pc[s]
  BY <1>2 DEF Warm, Finish, Typed
<1>3. ASSUME NEW r \in Syncs, StartSync(r) \/ FetchPage(r) \/ SyncFails(r)
      PROVE  UNCHANGED cache
  BY <1>3 DEF StartSync, FetchPage, SyncFails
<1>4. ASSUME NEW s \in Searches, Lookup(s) \/ Remote(s) \/ RemoteFails(s)
      PROVE  UNCHANGED cache
  BY <1>4 DEF Lookup, Remote, RemoteFails
<1>5. ASSUME NEW i \in Items, Change(i)
      PROVE  UNCHANGED cache
  BY <1>5 DEF Change, local
<1>6. CASE UNCHANGED vars
  BY <1>6 DEF vars, local
<1>7. QED
  BY <1>1, <1>2, <1>3, <1>4, <1>5, <1>6 DEF Next, SyncStep, SearchStep

LEMMA GoesBack ==
  ASSUME Typed, RaceInv, [Next]_vars,
         NEW i \in Items, cache[i] # None, cache'[i].v < cache[i].v
  PROVE  \E r \in overtaken : pc[r] \in {"write", "warm"} /\ pc'[r] # pc[r]
<1>1. cache[i].v \in Int
  BY DEF Typed, CacheOK
<1>2. cache'[i] # cache[i]
  BY <1>1
<1>3. PICK r \in Requests : Upsert(r) /\ pc[r] \in {"write", "warm"} /\ pc'[r] # pc[r]
  BY <1>2, Writes
<1>4. i \in DOMAIN batch[r] /\ cache'[i] = batch[r][i]
  BY <1>2, <1>3 DEF Upsert
<1>5. batch[r][i].v \in Int
  BY <1>4 DEF Typed, RowsOf
<1>6. r \in overtaken
  BY <1>1, <1>4, <1>5 DEF RaceInv
<1>7. QED
  BY <1>3, <1>6

-----------------------------------------------------------------------------
(* Requests that nothing disturbs. *)

LEMMA RanksOfListed ==
  ASSUME Typed, NEW r \in Syncs
  PROVE  /\ page[r] \in Nat \ {0} /\ (page[r] - 1) * PageSize \in Nat /\ page[r] * PageSize \in Nat
         /\ page[r] * PageSize = (page[r] - 1) * PageSize + PageSize
         /\ (page[r] + 1 - 1) * PageSize = page[r] * PageSize
         /\ Cardinality(Listed) \in Nat
         /\ \A i \in Listed : Rank(i, Listed) \in 1 .. Cardinality(Listed)
<1>1. page[r] \in Nat \ {0} /\ PageSize \in Nat
  BY CatalogCacheAssumption DEF Typed
<1>2. /\ (page[r] - 1) * PageSize \in Nat /\ page[r] * PageSize \in Nat
      /\ page[r] * PageSize = (page[r] - 1) * PageSize + PageSize
  <2>1. PICK k \in Nat : page[r] = k + 1
    <3>1. page[r] - 1 \in Nat /\ page[r] = (page[r] - 1) + 1
      BY <1>1
    <3>2. QED
      BY <3>1
  <2>2. k * PageSize \in Nat /\ (k + 1) * PageSize = k * PageSize + PageSize /\ page[r] - 1 = k
    BY <1>1, <2>1
  <2>3. QED
    BY <1>1, <2>1, <2>2
<1>3. page[r] + 1 - 1 = page[r]
  BY <1>1
<1>4. Listed \in SUBSET Items
  BY DEF Listed
<1>5. Listed \in SUBSET Nat /\ IsFiniteSet(Listed)
  BY <1>4, ItemSets
<1>6. Cardinality(Listed) \in Nat
  BY <1>5, FS_CardinalityType
<1>7. \A i \in Listed : Rank(i, Listed) \in 1 .. Cardinality(Listed)
  BY <1>5, RankType
<1>8. QED
  BY <1>1, <1>2, <1>3, <1>6, <1>7

\* Storing its page, a sync has stored all the pages up to it.
LEMMA PageStored ==
  ASSUME Typed, NEW r \in Syncs, QuietSync(r), pc[r] = "write", Upsert(r),
         NEW i \in Listed, Rank(i, Listed) <= page[r] * PageSize
  PROVE  cache'[i] = Told(Listed, TRUE)[i]
<1>1. r \in Requests /\ i \in Items /\ batch[r] = Told(Page(r), TRUE)
  BY DEF Requests, Listed, QuietSync
<1>2. DOMAIN batch[r] = Page(r)
  BY <1>1 DEF Told
<1>3. cache'[i] = IF i \in Page(r) THEN batch[r][i] ELSE cache[i]
  BY <1>1, <1>2 DEF Upsert
<1>4. CASE i \in Page(r)
  BY <1>1, <1>3, <1>4 DEF Told
<1>5. CASE i \notin Page(r)
  <2>1. ~((page[r] - 1) * PageSize + 1 <= Rank(i, Listed))
    BY <1>5 DEF Page, Slice
  <2>2. Rank(i, Listed) <= (page[r] - 1) * PageSize
    BY <2>1, RanksOfListed
  <2>3. QED
    BY <1>3, <1>5, <2>2 DEF QuietSync, StoredUpTo
<1>6. QED
  BY <1>4, <1>5

LEMMA QuietStays ==
  ASSUME NEW r \in Syncs, QuietSync(r), UNCHANGED <<server, cache>>,
         batch'[r] = batch[r], pc'[r] = pc[r], page'[r] = page[r], total'[r] = total[r]
  PROVE  QuietSync(r)'
<1>1. UNCHANGED <<version, active>> /\ Listed' = Listed
  BY DEF server, Listed
<1>2. Page(r)' = Page(r)
  BY <1>1 DEF Page
<1>3. StoredUpTo(page[r])'
  BY <1>1 DEF StoredUpTo, QuietSync, Told
<1>4. QED
  BY <1>1, <1>2, <1>3 DEF QuietSync, Told

\* A step of request r: it writes and so disturbs the others, or leaves them as they are.
LEMMA QuietOthers ==
  ASSUME Typed, QuietInv, NEW r \in Requests,
         UNCHANGED server, Upsert(r) \/ UNCHANGED <<cache, disturbed>>,
         \A q \in Requests \ {r} : pc'[q] = pc[q] /\ batch'[q] = batch[q],
         \A q \in Syncs \ {r} : page'[q] = page[q] /\ total'[q] = total[q],
         pc'[r] # "new",
         r \in Syncs \ disturbed' /\ pc'[r] \in {"fetch", "write"} => QuietSync(r)',
         r \in Searches \ disturbed' /\ pc'[r] = "warm" => DOMAIN batch'[r] = Answer(r)'
  PROVE  QuietInv'
<1> Syncs \subseteq Requests /\ Searches \subseteq Requests
  BY DEF Requests
<1>1. ASSUME NEW q \in Syncs, pc'[q] = "new"
      PROVE  page'[q] = 1 /\ total'[q] = 0
  BY <1>1 DEF QuietInv
<1>2. ASSUME NEW q \in Requests, q # r, pc'[q] \in {"fetch", "write", "warm"}, q \notin disturbed'
      PROVE  UNCHANGED cache /\ q \notin disturbed
  <2>1. q \in Running
    BY <1>2 DEF Running
  <2>2. QED
    BY <1>2, <2>1 DEF Upsert
<1>3. ASSUME NEW q \in Syncs, q \notin disturbed', pc'[q] \in {"fetch", "write"}
      PROVE  QuietSync(q)'
  <2>1. CASE q = r
    BY <1>3, <2>1
  <2>2. CASE q # r
    <3>1. UNCHANGED cache /\ q \notin disturbed /\ pc[q] \in {"fetch", "write"}
      BY <1>2, <1>3, <2>2
    <3>2. QuietSync(q)
      BY <3>1 DEF QuietInv
    <3>3. QED
      BY <2>2, <3>1, <3>2, QuietStays
  <2>3. QED
    BY <2>1, <2>2
<1>4. ASSUME NEW q \in Searches, q \notin disturbed', pc'[q] = "warm"
      PROVE  DOMAIN batch'[q] = Answer(q)'
  <2>1. CASE q = r
    BY <1>4, <2>1
  <2>2. CASE q # r
    <3>1. q \notin disturbed /\ DOMAIN batch[q] = Answer(q)
      BY <1>2, <1>4, <2>2 DEF QuietInv
    <3>2. Answer(q)' = Answer(q)
      BY DEF server, Answer, Listed
    <3>3. QED
      BY <2>2, <3>1, <3>2
  <2>3. QED
    BY <2>1, <2>2
<1>5. QED
  BY <1>1, <1>3, <1>4 DEF QuietInv

LEMMA QuietFetch ==
  ASSUME Typed, QuietInv, NEW r \in Syncs, FetchPage(r)
  PROVE  QuietInv'
<1>1. r \in Requests /\ r \notin Searches
  BY CatalogCacheAssumption DEF Requests
<1>2. /\ UNCHANGED <<server, cache, page, disturbed>>
      /\ pc[r] = "fetch" /\ pc'[r] \in {"write", "done"}
      /\ \A q \in Requests \ {r} : pc'[q] = pc[q] /\ batch'[q] = batch[q]
      /\ \A q \in Syncs \ {r} : total'[q] = total[q]
      /\ pc'[r] = "write" => batch'[r] = Told(Page(r), TRUE)
      /\ total'[r] \in {total[r], Cardinality(Listed)}
  <2>1. /\ UNCHANGED <<server, cache, page, disturbed>> /\ pc[r] = "fetch"
        /\ \/ total' = [total EXCEPT ![r] = IF Listed = {} THEN @ ELSE Cardinality(Listed)]
           \/ UNCHANGED total
        /\ \/ pc' = [pc EXCEPT ![r] = "done"] /\ UNCHANGED batch
           \/ /\ batch' = [batch EXCEPT ![r] = Told(Page(r), TRUE)]
              /\ pc' = [pc EXCEPT ![r] = "write"]
    BY DEF FetchPage, Finish, Page, history
  <2>2. QED
    BY <1>1, <2>1 DEF Typed
<1>3. ASSUME r \notin disturbed', pc'[r] \in {"fetch", "write"}
      PROVE  QuietSync(r)'
  <2>1. UNCHANGED <<version, active>> /\ Listed' = Listed
    BY <1>2 DEF server, Listed
  <2>2. QuietSync(r)
    BY <1>2, <1>3 DEF QuietInv
  <2>3. StoredUpTo(page[r])'
    BY <1>2, <2>1, <2>2 DEF StoredUpTo, QuietSync, Told
  <2>4. batch'[r] = Told(Page(r), TRUE)'
    BY <1>2, <1>3, <2>1 DEF Told, Page
  <2>5. total'[r] \in {0, Cardinality(Listed)}
    BY <1>2, <2>2 DEF QuietSync
  <2>6. QED
    BY <1>2, <2>1, <2>3, <2>4, <2>5 DEF QuietSync
<1>4. QED
  BY <1>1, <1>2, <1>3, QuietOthers

LEMMA QuietWrite ==
  ASSUME Typed, QuietInv, NEW r \in Syncs, WritePage(r)
  PROVE  QuietInv'
<1>1. r \in Requests /\ r \notin Searches
  BY CatalogCacheAssumption DEF Requests
<1>2. /\ UNCHANGED <<server, total>> /\ Upsert(r) /\ pc[r] = "write" /\ pc'[r] \in {"fetch", "done"}
      /\ \A q \in Requests \ {r} : pc'[q] = pc[q] /\ batch'[q] = batch[q]
      /\ \A q \in Syncs \ {r} : page'[q] = page[q]
      /\ pc'[r] = "fetch" => page'[r] = page[r] + 1
  <2>1. /\ UNCHANGED <<server, total>> /\ Upsert(r) /\ pc[r] = "write"
        /\ batch' = [batch EXCEPT ![r] = Nothing]
        /\ \/ pc' = [pc EXCEPT ![r] = "done"] /\ UNCHANGED page
           \/ pc' = [pc EXCEPT ![r] = "fetch"] /\ page' = [page EXCEPT ![r] = @ + 1]
    BY DEF WritePage, Finish, Upsert
  <2>2. QED
    BY <1>1, <2>1 DEF Typed
<1>3. ASSUME r \notin disturbed', pc'[r] \in {"fetch", "write"}
      PROVE  QuietSync(r)'
  <2>1. UNCHANGED <<version, active>> /\ Listed' = Listed
    BY <1>2 DEF server, Listed
  <2>2. QuietSync(r)
    BY <1>2, <1>3 DEF QuietInv, Upsert
  <2>3. \A i \in Listed : Rank(i, Listed) <= page[r] * PageSize => cache'[i] = Told(Listed, TRUE)[i]
    BY <1>2, <2>2, PageStored
  <2>4. page'[r] = page[r] + 1 /\ (page'[r] - 1) * PageSize = page[r] * PageSize
    BY <1>2, <1>3, RanksOfListed
  <2>5. StoredUpTo(page[r])'
    BY <2>1, <2>3, <2>4 DEF StoredUpTo, Told
  <2>6. QED
    BY <1>2, <1>3, <2>1, <2>2, <2>5 DEF QuietSync
<1>4. QED
  BY <1>1, <1>2, <1>3, QuietOthers

LEMMA QuietStep ==
  Typed /\ QuietInv /\ [Next]_vars => QuietInv'
<1> SUFFICES ASSUME Typed, QuietInv, [Next]_vars
             PROVE  QuietInv'
  OBVIOUS
<1> Syncs \subseteq Requests /\ Searches \subseteq Requests /\ Syncs \cap Searches = {}
  BY CatalogCacheAssumption DEF Requests
<1>1. ASSUME NEW i \in Items, Change(i)
      PROVE  QuietInv'
  <2>1. UNCHANGED <<pc, page, total>> /\ disturbed' = disturbed \cup Running
    BY <1>1 DEF Change, local
  <2>2. \A r \in Requests \ disturbed' : pc'[r] \in {"new", "done"}
    BY <2>1 DEF Running
  <2>3. QED
    BY <2>1, <2>2 DEF QuietInv
<1>2. ASSUME NEW r \in Syncs, StartSync(r)
      PROVE  QuietInv'
  <2>1. /\ UNCHANGED <<server, cache, page, total, batch, disturbed>>
        /\ pc[r] = "new" /\ pc' = [pc EXCEPT ![r] = "fetch"]
    BY <1>2 DEF StartSync, history
  <2>2. pc'[r] = "fetch" /\ \A q \in Requests \ {r} : pc'[q] = pc[q]
    BY <2>1 DEF Typed
  <2>3. page[r] = 1 /\ total[r] = 0
    BY <2>1 DEF QuietInv
  <2>4. \A i \in Listed : ~(Rank(i, Listed) <= (page[r] - 1) * PageSize)
    BY <2>3, RanksOfListed, CatalogCacheAssumption
  <2>5. UNCHANGED <<version, active>> /\ Listed' = Listed
    BY <2>1 DEF server, Listed
  <2>6. QuietSync(r)'
    BY <2>1, <2>2, <2>3, <2>4, <2>5 DEF QuietSync, StoredUpTo
  <2>7. QED
    BY <2>1, <2>2, <2>6, QuietOthers
<1>3. ASSUME NEW r \in Syncs, SyncFails(r)
      PROVE  QuietInv'
  <2>1. /\ UNCHANGED <<server, cache, page, total, disturbed>>
        /\ pc' = [pc EXCEPT ![r] = "done"] /\ batch' = [batch EXCEPT ![r] = Nothing]
    BY <1>3 DEF SyncFails, Finish
  <2>2. pc'[r] = "done" /\ \A q \in Requests \ {r} : pc'[q] = pc[q] /\ batch'[q] = batch[q]
    BY <2>1 DEF Typed
  <2>3. QED
    BY <2>1, <2>2, QuietOthers
<1>4. ASSUME NEW s \in Searches, Lookup(s) \/ RemoteFails(s)
      PROVE  QuietInv'
  <2>1. /\ UNCHANGED <<server, cache, page, total, batch, disturbed>>
        /\ pc' = [pc EXCEPT ![s] = "done"] \/ pc' = [pc EXCEPT ![s] = "remote"]
    BY <1>4 DEF Lookup, RemoteFails, Finish, history
  <2>2. pc'[s] \in {"done", "remote"} /\ \A q \in Requests \ {s} : pc'[q] = pc[q]
    BY <2>1 DEF Typed
  <2>3. QED
    BY <2>1, <2>2, QuietOthers
<1>5. ASSUME NEW s \in Searches, Remote(s)
      PROVE  QuietInv'
  <2>1. /\ UNCHANGED <<server, cache, page, total, disturbed>>
        /\ \/ pc' = [pc EXCEPT ![s] = "done"] /\ UNCHANGED batch
           \/ /\ batch' = [batch EXCEPT ![s] = Told(Answer(s), FALSE)]
              /\ pc' = [pc EXCEPT ![s] = "warm"]
    BY <1>5 DEF Remote, Answer, Finish, history
  <2>2. /\ pc'[s] \in {"done", "warm"}
        /\ \A q \in Requests \ {s} : pc'[q] = pc[q] /\ batch'[q] = batch[q]
        /\ pc'[s] = "warm" => batch'[s] = Told(Answer(s), FALSE)
    BY <2>1 DEF Typed
  <2>3. Answer(s)' = Answer(s)
    BY <2>1 DEF server, Answer, Listed
  <2>4. pc'[s] = "warm" => DOMAIN batch'[s] = Answer(s)'
    BY <2>2, <2>3 DEF Told
  <2>5. QED
    BY <2>1, <2>2, <2>4, QuietOthers
<1>6. ASSUME NEW s \in Searches, Warm(s)
      PROVE  QuietInv'
  <2>1. /\ UNCHANGED <<server, page, total>> /\ pc' = [pc EXCEPT ![s] = "done"]
        /\ batch' = [batch EXCEPT ![s] = Nothing]
        /\ Upsert(s) \/ UNCHANGED <<cache, disturbed>>
    BY <1>6 DEF Warm, Finish, Upsert
  <2>2. pc'[s] = "done" /\ \A q \in Requests \ {s} : pc'[q] = pc[q] /\ batch'[q] = batch[q]
    BY <2>1 DEF Typed
  <2>3. QED
    BY <2>1, <2>2, QuietOthers
<1>7. CASE UNCHANGED vars
  <2>1. UNCHANGED <<version, active, cache, pc, page, total, batch, disturbed>>
    BY <1>7 DEF vars, server, local, history
  <2>2. \A r \in Syncs : QuietSync(r) => QuietSync(r)'
    BY <2>1, QuietStays DEF server
  <2>3. \A s \in Searches : Answer(s)' = Answer(s)
    BY <2>1 DEF Answer, Listed
  <2>4. QED
    BY <2>1, <2>2, <2>3 DEF QuietInv
<1>8. QED
  BY <1>1, <1>2, <1>3, <1>4, <1>5, <1>6, <1>7, QuietFetch, QuietWrite
     DEF Next, SyncStep, SearchStep

\* A page that ends a sync is the last one: of a full page the total_count says so.
LEMMA LastPageIsLast ==
  ASSUME Typed, NEW r \in Syncs, QuietSync(r), pc[r] = "write", MaxPages = None,
         LastPage(r, Cardinality(DOMAIN batch[r])), NEW i \in Listed
  PROVE  Rank(i, Listed) <= page[r] * PageSize
<1>1. page[r] # MaxPages
  BY CatalogCacheAssumption DEF Typed
<1>2. CASE total[r] > 0 /\ page[r] * PageSize >= total[r]
  <2>1. total[r] = Cardinality(Listed)
    BY <1>2 DEF QuietSync
  <2>2. QED
    BY <1>2, <2>1, RanksOfListed
<1>3. CASE Cardinality(DOMAIN batch[r]) < PageSize
  <2> DEFINE a == (page[r] - 1) * PageSize
  <2>1. a \in Nat /\ page[r] * PageSize = a + PageSize
    BY RanksOfListed
  <2>2. DOMAIN batch[r] = Slice(Listed, a + 1, a + PageSize)
    BY <2>1 DEF QuietSync, Page, Told
  <2> HIDE DEF a
  <2>3. Listed \in SUBSET Items
    BY DEF Listed
  <2>4. Listed \in SUBSET Nat /\ IsFiniteSet(Listed)
    BY <2>3, ItemSets
  <2>5. Cardinality(Slice(Listed, a + 1, a + PageSize)) < PageSize
    BY <1>3, <2>2
  <2>6. Rank(i, Listed) <= a + PageSize
    BY <2>1, <2>4, <2>5, ShortPageIsLast, CatalogCacheAssumption
  <2>7. QED
    BY <2>1, <2>6
<1>4. QED
  BY <1>1, <1>2, <1>3 DEF LastPage

LEMMA QuietEnd ==
  ASSUME Typed, QuietInv, [Next]_vars, MaxPages = None,
         NEW r \in Syncs \ disturbed, outcome[r] = "none", outcome'[r] = "synced", NEW i \in Listed
  PROVE  cache'[i] = Told(Listed, TRUE)[i]
<1> r \in Requests /\ Syncs \subseteq Requests /\ Searches \subseteq Requests
  BY DEF Requests
<1>1. (FetchPage(r) \/ WritePage(r)) /\ pc'[r] = "done"
  <2>1. ASSUME NEW q \in Syncs, FetchPage(q)
        PROVE  q = r /\ pc'[r] = "done"
    BY <2>1 DEF FetchPage, Finish, Typed
  <2>2. ASSUME NEW q \in Syncs, WritePage(q)
        PROVE  q = r /\ pc'[r] = "done"
    BY <2>2 DEF WritePage, Finish, Typed
  <2>3. ASSUME NEW q \in Syncs, StartSync(q) \/ SyncFails(q)
        PROVE  FALSE
    BY <2>3 DEF StartSync, SyncFails, Finish, Typed
  <2>4. ASSUME NEW s \in Searches, Lookup(s) \/ SearchStep(s)
        PROVE  FALSE
    BY <2>4 DEF Lookup, SearchStep, Remote, RemoteFails, Warm, Finish, Typed
  <2>5. ~ \E j \in Items : Change(j)
    BY DEF Change, local
  <2>6. ~ UNCHANGED vars
    BY DEF vars, local
  <2>7. QED
    BY <2>1, <2>2, <2>3, <2>4, <2>5, <2>6 DEF Next, SyncStep
<1>2. CASE FetchPage(r) /\ pc'[r] = "done"
  <2> DEFINE a == (page[r] - 1) * PageSize
  <2>1. a \in Nat /\ page[r] * PageSize = a + PageSize
    BY RanksOfListed
  <2>2. pc[r] = "fetch" /\ UNCHANGED cache /\ Page(r) = {}
    BY <1>2 DEF FetchPage, Page, Typed
  <2>3. QuietSync(r)
    BY <2>2 DEF QuietInv
  <2>4. Slice(Listed, a + 1, a + PageSize) = {}
    BY <2>1, <2>2 DEF Page
  <2> HIDE DEF a
  <2>5. Listed \in SUBSET Items
    BY DEF Listed
  <2>6. Listed \in SUBSET Nat /\ IsFiniteSet(Listed)
    BY <2>5, ItemSets
  <2>7. Cardinality(Slice(Listed, a + 1, a + PageSize)) < PageSize
    <3>1. Cardinality({}) = 0 /\ 0 < PageSize
      BY FS_EmptySet, CatalogCacheAssumption
    <3>2. QED
      BY <2>4, <3>1
  <2>8. Rank(i, Listed) <= a + PageSize
    BY <2>1, <2>6, <2>7, ShortPageIsLast, CatalogCacheAssumption
  <2>9. ~(a + 1 <= Rank(i, Listed))
    BY <2>4, <2>8 DEF Slice
  <2>10. Rank(i, Listed) <= a
    BY <2>1, <2>9, RanksOfListed
  <2>11. QED
    BY <2>2, <2>3, <2>10 DEF QuietSync, StoredUpTo, a
<1>3. CASE WritePage(r) /\ pc'[r] = "done"
  <2>1. pc[r] = "write" /\ Upsert(r) /\ LastPage(r, Cardinality(DOMAIN batch[r]))
    BY <1>3 DEF WritePage, Typed
  <2>2. QuietSync(r)
    BY <2>1 DEF QuietInv
  <2>3. QED
    BY <2>1, <2>2, LastPageIsLast, PageStored
<1>4. QED
  BY <1>1, <1>2, <1>3

\* The results of the copy, and what fills them up, are all there is or as many as may be.
LEMMA FilledUp ==
  ASSUME NEW H \in SUBSET Items, Cardinality(H) <= Limit, NEW A \in SUBSET Items
  PROVE  LET shown == H \cup First(Limit - Cardinality(H), First(Limit, A) \ H)
         IN  Cardinality(shown) = Limit \/ A \subseteq shown
<1> DEFINE D == First(Limit, A)
           m == Limit - Cardinality(H)
           new == First(m, D \ H)
<1>1. IsFiniteSet(H) /\ Cardinality(H) \in Nat /\ m \in Nat /\ Limit \in Nat
  BY ItemSets, FS_CardinalityType, CatalogCacheAssumption
<1>2. /\ D \in SUBSET A /\ IsFiniteSet(D) /\ Cardinality(D) \in Nat
      /\ Cardinality(A) >= Limit => Cardinality(D) = Limit
      /\ Cardinality(A) <= Limit => D = A
  BY <1>1, ItemSets, FirstSize
<1>3. Cardinality(A) \in Nat
  BY ItemSets, FS_CardinalityType
<1> HIDE DEF D
<1>4. D \ H \in SUBSET Items
  BY <1>2
<1>5. D \ H \in SUBSET Nat /\ IsFiniteSet(D \ H) /\ Cardinality(D \ H) \in Nat
  BY <1>4, ItemSets, FS_CardinalityType
<1>6. /\ new \in SUBSET (D \ H) /\ IsFiniteSet(new) /\ Cardinality(new) \in Nat
      /\ Cardinality(D \ H) >= m => Cardinality(new) = m
      /\ Cardinality(D \ H) <= m => new = D \ H
  BY <1>1, <1>5, FirstSize
<1> HIDE DEF m, new
<1>7. CASE Cardinality(D \ H) >= m
  <2>1. H \cap new = {}
    BY <1>6
  <2>2. Cardinality(H \cup new) = Cardinality(H) + m - 0
    <3>1. Cardinality(H \cup new) = Cardinality(H) + Cardinality(new) - Cardinality({})
      BY <1>1, <1>6, <2>1, FS_Union
    <3>2. Cardinality({}) = 0 /\ Cardinality(new) = m
      BY <1>6, <1>7, FS_EmptySet
    <3>3. QED
      BY <3>1, <3>2
  <2>3. Cardinality(H \cup new) = Limit
    BY <1>1, <2>2 DEF m
  <2>4. QED
    BY <2>3 DEF D, m, new
<1>8. CASE ~(Cardinality(D \ H) >= m)
  <2>1. D \subseteq H \cup new
    BY <1>1, <1>5, <1>6, <1>8
  <2>2. Cardinality(D) < Limit
    <3>1. (D \ H) \cap H = {} /\ D \in SUBSET ((D \ H) \cup H)
      OBVIOUS
    <3>2. /\ IsFiniteSet((D \ H) \cup H)
          /\ Cardinality((D \ H) \cup H) = Cardinality(D \ H) + Cardinality(H) - 0
      BY <1>1, <1>5, <3>1, FS_Union, FS_EmptySet
    <3>3. Cardinality(D) <= Cardinality((D \ H) \cup H)
      BY <3>1, <3>2, FS_Subset
    <3>4. QED
      BY <1>1, <1>2, <1>5, <1>8, <3>2, <3>3 DEF m
  <2>3. D = A
    BY <1>1, <1>2, <1>3, <2>2
  <2>4. QED
    BY <2>1, <2>3 DEF D, m, new
<1>9. QED
  BY <1>7, <1>8

LEMMA SearchEnd ==
  ASSUME Typed, QuietInv, [Next]_vars, NEW s \in Searches \ disturbed,
         pc[s] = "warm", pc'[s] = "done", Cardinality(Listed \cap Query[s]) <= RemotePage
  PROVE  Cardinality(Hits(s)') = Limit \/ active \cap Query[s] \subseteq Hits(s)'
<1> s \in Requests /\ Syncs \subseteq Requests /\ Searches \subseteq Requests
  BY DEF Requests
<1>1. Warm(s)
  <2>1. ASSUME NEW q \in Syncs, StartSync(q) \/ SyncStep(q)
        PROVE  pc'[s] = pc[s]
    BY <2>1, CatalogCacheAssumption
       DEF StartSync, SyncStep, FetchPage, WritePage, SyncFails, Finish, Typed
  <2>2. ASSUME NEW q \in Searches \ {s}, Lookup(q) \/ SearchStep(q)
        PROVE  pc'[s] = pc[s]
    BY <2>2 DEF Lookup, SearchStep, Remote, RemoteFails, Warm, Finish, Typed
  <2>3. ~Lookup(s) /\ ~Remote(s) /\ ~RemoteFails(s)
    BY DEF Lookup, Remote, RemoteFails
  <2>4. ~ \E i \in Items : Change(i)
    BY DEF Change, local
  <2>5. ~ UNCHANGED vars
    BY DEF vars, local
  <2>6. QED
    BY <2>1, <2>2, <2>3, <2>4, <2>5 DEF Next, SearchStep
<1>2. DOMAIN batch[s] = Answer(s)
  BY DEF QuietInv
<1>3. Listed \cap Query[s] \in SUBSET Items /\ active \cap Query[s] \in SUBSET Items
  BY CatalogCacheAssumption DEF Listed
<1>4. First(RemotePage, Listed \cap Query[s]) = Listed \cap Query[s]
  <2>1. Listed \cap Query[s] \in SUBSET Nat /\ IsFiniteSet(Listed \cap Query[s])
    BY <1>3, ItemSets
  <2>2. QED
    BY <2>1, FirstSize, CatalogCacheAssumption
<1>5. (Listed \cap Query[s]) \cap active = active \cap Query[s]
  BY DEF Typed, Listed
<1>6. DOMAIN batch[s] = First(Limit, active \cap Query[s])
  BY <1>2, <1>4, <1>5 DEF Answer
<1>7. Hits(s) \in SUBSET Items /\ Cardinality(Hits(s)) <= Limit
  BY DEF Hits, Typed, ShownBy
<1>8. Hits(s)' = Hits(s) \cup New(s, DOMAIN batch[s])
  BY <1>1 DEF Warm, Hits, Typed
<1>9. QED
  BY <1>3, <1>6, <1>7, <1>8, FilledUp DEF New

-----------------------------------------------------------------------------
(* Theorems. *)

\* The inductive invariant holds whatever syncs, searches and the catalogue do.
THEOREM Invariant ==
  Spec => []IInv
<1>1. IInv /\ [Next]_vars => IInv'
  BY TypedParts, TypeStep, RaceStep, QuietStep DEF IInv, Typed, TypeOK, RowsInv,
     CacheOK, RowsOf, ShownBy
<1>2. QED
  BY <1>1, Initial, PTL DEF Spec

\* Rows of the copy are versions the server's card had, and a search shows no more than
\* its limit, however a sync and a search interleave.
THEOREM TypeCorrect ==
  Spec => []TypeOK
<1>1. IInv => TypeOK
  BY DEF IInv
<1>2. QED
  BY <1>1, Invariant, PTL

\* A row goes back to an older version only by the batch of an overtaken request.
THEOREM RowsGoBackOnlyByRace ==
  Spec => CacheGoesBackOnlyByRace
<1>1. IInv /\ [Next]_vars =>
        [\A i \in Items : cache[i] # None /\ cache'[i].v < cache[i].v
           => \E r \in overtaken : pc[r] \in {"write", "warm"} /\ pc'[r] # pc[r]]_vars
  BY TypedParts, GoesBack DEF IInv
<1>2. QED
  BY <1>1, Invariant, PTL DEF Spec, CacheGoesBackOnlyByRace

\* A sync that nothing disturbs copies every card, whatever the sizes of page and catalogue.
THEOREM QuietSyncsAreComplete ==
  Spec => QuietSyncIsComplete
<1>1. IInv /\ [Next]_vars =>
        [\A r \in Syncs \ disturbed :
           outcome[r] = "none" /\ outcome'[r] = "synced" /\ MaxPages = None
             => \A i \in Listed : cache'[i] = Told(Listed, TRUE)[i]]_vars
  BY TypedParts, QuietEnd DEF IInv
<1>2. QED
  BY <1>1, Invariant, PTL DEF Spec, QuietSyncIsComplete

\* A search that nothing disturbs shows all it matches or as many results as it may.
THEOREM SearchesMissNothing ==
  Spec => SearchMissesNothing
<1>1. IInv /\ [Next]_vars =>
        [\A s \in Searches \ disturbed :
           pc[s] = "warm" /\ pc'[s] = "done" /\ Cardinality(Listed \cap Query[s]) <= RemotePage
             => \/ Cardinality(Hits(s)') = Limit
                \/ active \cap Query[s] \subseteq Hits(s)']_vars
  BY TypedParts, SearchEnd DEF IInv
<1>2. QED
  BY <1>1, Invariant, PTL DEF Spec, SearchMissesNothing
=============================================================================
