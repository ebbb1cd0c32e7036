---------------------------- MODULE CatalogProofs ----------------------------
(***************************************************************************)
(* Theorems about CatalogAdmin and CatalogTree: what a form sends, and     *)
(* what a page reads, for any number of objects, requests and pages.       *)
(***************************************************************************)
EXTENDS CatalogTree, FiniteSetTheorems, FunctionTheorems, WellFoundedInduction, TLAPS

-----------------------------------------------------------------------------
(* Lists that come in pages.                                               *)

\* The rank of an element is its place in the list.
LEMMA RankInType ==
  ASSUME NEW S \in SUBSET Nat, IsFiniteSet(S), NEW n \in S
  PROVE  RankIn(S, n) \in 1 .. Cardinality(S)
<1> DEFINE T == {m \in S : m <= n}
<1>1. T \in SUBSET S /\ n \in T
  OBVIOUS
<1>2. /\ IsFiniteSet(T) /\ Cardinality(T) <= Cardinality(S)
      /\ Cardinality(T) \in Nat /\ Cardinality(S) \in Nat
  BY <1>1, FS_Subset, FS_CardinalityType
<1>3. Cardinality(T) # 0
  BY <1>1, <1>2, FS_EmptySet
<1>4. QED
  BY <1>2, <1>3 DEF RankIn

LEMMA RankInGrows ==
  ASSUME NEW S \in SUBSET Nat, IsFiniteSet(S), NEW m \in S, NEW n \in S, m < n
  PROVE  RankIn(S, m) < RankIn(S, n)
<1> DEFINE T == {k \in S : k <= m}
           U == {k \in S : k <= n}
<1>1. T \in SUBSET U /\ U \in SUBSET S
  BY \A k \in S : k <= m => k <= n
<1>2. n \in U /\ n \notin T
  BY ~(n <= m)
<1>3. IsFiniteSet(U) /\ IsFiniteSet(T)
  BY <1>1, FS_Subset
<1>4. Cardinality(T) <= Cardinality(U) /\ Cardinality(T) # Cardinality(U)
  BY <1>1, <1>2, <1>3, FS_Subset
<1>5. Cardinality(T) \in Nat /\ Cardinality(U) \in Nat
  BY <1>3, FS_CardinalityType
<1>6. QED
  BY <1>4, <1>5 DEF RankIn

LEMMA RankInIsPlace ==
  ASSUME NEW S \in SUBSET Nat, IsFiniteSet(S)
  PROVE  \A k \in 1 .. Cardinality(S) : \E n \in S : RankIn(S, n) = k
<1> DEFINE f == [n \in S |-> RankIn(S, n)]
           N == 1 .. Cardinality(S)
<1>1. Cardinality(S) \in Nat
  BY FS_CardinalityType
<1>2. ASSUME NEW m \in S, NEW n \in S, RankIn(S, m) = RankIn(S, n)
      PROVE  m = n
  <2>1. RankIn(S, m) \in Int /\ RankIn(S, n) \in Int
    BY <1>1, RankInType
  <2>2. ~(m < n) /\ ~(n < m)
    BY <1>2, <2>1, RankInGrows
  <2>3. QED
    BY <2>2
<1>3. f \in [S -> N]
  BY RankInType
<1>4. f \in Injection(S, N)
  BY <1>2, <1>3, Fun_IsInj
<1>5. IsFiniteSet(N) /\ Cardinality(N) = Cardinality(S)
  BY <1>1, FS_Interval
<1>6. f \in Surjection(S, N)
  BY <1>4, <1>5, FS_Injection
<1>7. \A k \in N : \E n \in S : f[n] = k
  BY <1>6 DEF Surjection
<1>8. QED
  BY <1>7

LEMMA DivisionBounds ==
  ASSUME NEW a \in Nat, NEW b \in Nat \ {0}
  PROVE  a \div b \in Nat /\ (a \div b) * b <= a /\ a < (a \div b) * b + b
<1>1. a \div b \in Nat
  OBVIOUS
<1>2. (a \div b) * b <= a
  OBVIOUS
<1>3. a < (a \div b) * b + b
  OBVIOUS
<1>4. QED
  BY <1>1, <1>2, <1>3

\* The number of pages is as large as it has to be, and no larger.
LEMMA PagesCover ==
  ASSUME NEW S, IsFiniteSet(S), NEW size \in Nat \ {0}
  PROVE  /\ TotalPages(S, size) \in Nat /\ TotalPages(S, size) <= Cardinality(S) + 1
         /\ \A p \in Nat : p >= TotalPages(S, size) => Cardinality(S) <= p * size
<1>1. Cardinality(S) \in Nat /\ (S = {} => Cardinality(S) = 0)
  BY FS_CardinalityType, FS_EmptySet
<1>2. CASE S = {}
  <2>1. TotalPages(S, size) = 1
    BY <1>2 DEF TotalPages
  <2>2. \A p \in Nat : p * size \in Nat
    OBVIOUS
  <2>3. QED
    BY <1>1, <1>2, <2>1, <2>2
<1>3. CASE S # {}
  <2> DEFINE c == Cardinality(S)
             q == (c + size - 1) \div size
  <2>1. TotalPages(S, size) = q
    BY <1>3 DEF TotalPages
  <2>2. q \in Nat /\ q * size <= c + size - 1 /\ c + size - 1 < q * size + size
    <3>1. c + size - 1 \in Nat
      BY <1>1
    <3>2. QED
      BY <3>1, DivisionBounds
  <2> HIDE DEF q, c
  <2>3. c \in Nat /\ q * size \in Nat
    BY <1>1, <2>2 DEF c
  <2>4. c <= q * size /\ q * size <= c + size - 1
    BY <2>2, <2>3
  <2>5. \A p \in Nat : p >= q => q * size <= p * size
    <3> TAKE p \in Nat
    <3> HAVE p >= q
    <3>1. PICK k \in Nat : p = q + k
      BY <2>2, p - q \in Nat /\ p = q + (p - q)
    <3>2. (q + k) * size = q * size + k * size /\ k * size \in Nat
      BY <2>2
    <3>3. QED
      BY <2>3, <3>1, <3>2
  <2>6. c < q => c * size + size <= q * size
    <3> HAVE c < q
    <3>1. PICK k \in Nat : q = c + 1 + k
      BY <2>2, <2>3, q - c - 1 \in Nat /\ q = c + 1 + (q - c - 1)
    <3>2. (c + 1 + k) * size = c * size + size + k * size /\ k * size \in Nat /\ c * size \in Nat
      BY <2>3
    <3>3. QED
      BY <2>3, <3>1, <3>2
  <2>7. q <= c + 1
    <3> SUFFICES ASSUME c < q
                 PROVE  FALSE
      BY <2>2, <2>3
    <3>1. c * size + size <= q * size
      BY <2>3, <2>6
    <3>2. c <= c * size
      <4>1. PICK k \in Nat : size = k + 1
        BY size - 1 \in Nat /\ size = (size - 1) + 1
      <4>2. c * (k + 1) = c * k + c /\ c * k \in Nat
        BY <2>3
      <4>3. QED
        BY <2>3, <4>1, <4>2
    <3>3. c * size \in Nat
      BY <2>3
    <3>4. QED
      BY <2>3, <2>4, <3>1, <3>2, <3>3
  <2>8. \A p \in Nat : p * size \in Nat
    OBVIOUS
  <2>9. QED
    BY <2>1, <2>2, <2>3, <2>4, <2>5, <2>7, <2>8 DEF c
<1>4. QED
  BY <1>2, <1>3

\* The loop over the pages stops when it has everything, and never asks for more pages than
\* there are elements, and one.
LEMMA LastPageHasAll ==
  ASSUME NEW S \in SUBSET Nat, IsFiniteSet(S), NEW size \in Nat \ {0}, NEW p \in Nat \ {0},
         LastPage(S, p, size)
  PROVE  \A n \in S : RankIn(S, n) <= p * size
<1>1. /\ Cardinality(S) \in Nat /\ p * size \in Nat
      /\ \A n \in S : RankIn(S, n) \in 1 .. Cardinality(S)
  BY FS_CardinalityType, RankInType
<1>2. CASE Cardinality(S) <= p * size
  BY <1>1, <1>2
<1>3. CASE p * size < Cardinality(S)
  <2> DEFINE k == (p - 1) * size
  <2>1. k \in Nat /\ p * size = k + size
    <3>1. PICK j \in Nat : p = j + 1
      BY p - 1 \in Nat /\ p = (p - 1) + 1
    <3>2. j * size \in Nat /\ (j + 1) * size = j * size + size /\ p - 1 = j
      BY <3>1
    <3>3. QED
      BY <3>1, <3>2
  <2> HIDE DEF k
  <2>2. k + 1 \in 1 .. Cardinality(S)
    BY <1>1, <1>3, <2>1
  <2>3. PICK n \in S : RankIn(S, n) = k + 1
    BY <2>2, RankInIsPlace
  <2>4. k < RankIn(S, n) /\ RankIn(S, n) <= p * size
    BY <2>1, <2>3
  <2>5. n \in PageOfSet(S, p, size)
    BY <2>4 DEF PageOfSet, k
  <2>6. p >= TotalPages(S, size)
    BY <2>5 DEF LastPage
  <2>7. Cardinality(S) <= p * size
    BY <2>6, PagesCover
  <2>8. QED
    BY <1>1, <1>3, <2>7
<1>4. QED
  BY <1>1, <1>2, <1>3

LEMMA NextPageExists ==
  ASSUME NEW T, IsFiniteSet(T), NEW S \in SUBSET T,
         NEW size \in Nat \ {0}, NEW p \in Nat \ {0}, ~LastPage(S, p, size)
  PROVE  p + 1 \in 1 .. Cardinality(T) + 1
<1>1. /\ IsFiniteSet(S) /\ Cardinality(S) <= Cardinality(T)
      /\ Cardinality(S) \in Nat /\ Cardinality(T) \in Nat
  BY FS_Subset, FS_CardinalityType
<1>2. TotalPages(S, size) \in Nat /\ TotalPages(S, size) <= Cardinality(S) + 1
  BY <1>1, PagesCover
<1>3. p < TotalPages(S, size)
  BY <1>2 DEF LastPage
<1>4. QED
  BY <1>1, <1>2, <1>3

-----------------------------------------------------------------------------
(* The inductive invariant. *)

Listed == live \cap Cats
Choices == Listed \ {Uncat}
Kind(r) == job[r].kind
Node(r) == job[r].node

\* Everything lies in another category that exists, or nowhere; units lie nowhere.
PlaceInv ==
  /\ \A n \in live : place[n] \in (Listed \ {n}) \cup {Nowhere}
  /\ \A u \in Units : place[u] = Nowhere
  /\ live \cap New \subseteq created

\* The kinds of job that come to a stage.
KindsAt(s) ==
  CASE s = "listing" -> {"edit", "create", "split"}
    [] s = "getting" -> {"edit", "split", "delete"}
    [] s = "form" -> {"edit", "create", "split", "delete"}
    [] s = "rechecking" -> {"split", "delete"}
    [] s \in {"relisting", "checking"} -> {"edit", "create"}
    [] s \in {"sent", "done"} -> {"edit", "create", "split", "delete", "merge"}

\* A request has a job that suits its stage, and a command on its way only at the end.
StageOf(r) ==
  /\ pc[r] = "new" => rows[r] = {} /\ form[r].place = Nowhere
  /\ pc[r] # "new" => Kind(r) \in KindsAt(pc[r])
  /\ Kind(r) # "none" => /\ job[r] \in Jobs /\ Node(r) # Uncat
                         /\ Kind(r) = "merge" => (Node(r) \in Cats <=> job[r].target \in Cats)
  /\ r \in wire => answer[r] = "none" /\ pc[r] \in {"sent", "done"}
  /\ pc[r] \notin {"sent", "done"} => answer[r] = "none"
  /\ pc[r] \notin {"listing", "relisting"} => page[r] = 1
  /\ pc[r] \in {"new", "listing", "getting", "form"} => touched[r] = {}
  /\ pc[r] = "relisting" \/ (pc[r] = "listing" /\ Kind(r) # "split") => HasPlace(Node(r))

\* The form of a request: blank before it is read, and never the object itself.
FormOf(r) ==
  /\ pc[r] = "getting" /\ (Kind(r) # "edit" \/ ~HasPlace(Node(r))) => rows[r] = {}
  /\ pc[r] \in {"listing", "form"} /\ Kind(r) = "create" => form[r].place = Nowhere
  /\ pc[r] \in {"form", "checking"} /\ Kind(r) \in {"edit", "create"} /\ ~HasPlace(Node(r)) =>
       form[r].place = Nowhere
  /\ Kind(r) = "edit" /\ r \in wire => form[r].place # Node(r)
  /\ Kind(r) = "split" /\ (pc[r] = "rechecking" \/ r \in wire) => form[r].place \in Cats

\* A request that is under way, with nothing against it.
Undisturbed(r) == ~raced[r] /\ ~failed[r]
Filling(r) == Kind(r) = "edit" /\ (pc[r] \in {"form", "relisting", "checking"} \/ r \in wire)

\* Its list has what there is, as far as it was read.
ListOf(r) ==
  /\ pc[r] \in {"listing", "relisting"} =>
       rows[r] = {n \in Choices : RankIn(Listed, n) <= (page[r] - 1) * PageSize}
  /\ pc[r] \in {"getting", "form", "checking"} /\ Kind(r) \in {"edit", "create"}
       /\ HasPlace(Node(r)) => rows[r] = Choices

\* Its form has a place that can be chosen, and that of its object if nobody touched it.
PlaceOf(r) ==
  /\ pc[r] \in {"relisting", "checking"} /\ HasPlace(Node(r)) =>
       form[r].place \in (Choices \ {Node(r)}) \cup {Nowhere}
  /\ Filling(r) /\ "place" \notin touched[r] =>
       form[r].place = IF HasPlace(Node(r)) /\ place[Node(r)] \in Choices \ {Node(r)}
                       THEN place[Node(r)] ELSE Nowhere

\* Its form has the name of its object, if nobody changed either.
NameOf(r) ==
  Filling(r) /\ "name" \notin touched[r] /\ ~stale[r] => form[r].name = name[Node(r)]

RequestInv ==
  \A r \in Admins :
    /\ StageOf(r) /\ FormOf(r) /\ NameOf(r)
    /\ Undisturbed(r) => ListOf(r) /\ PlaceOf(r)

AdminInv == TypeOK /\ PlaceInv /\ RequestInv /\ InvalidOnlyByBadList

LEMMA NodeSets ==
  /\ Uncat \in Cats \ New /\ Nowhere \notin Nodes /\ New \subseteq Nodes
  /\ Cats \subseteq Nodes /\ Items \subseteq Nodes /\ Units \subseteq Nodes
  /\ Cats \cap Items = {} /\ Cats \cap Units = {} /\ Items \cap Units = {}
  /\ Nodes \subseteq Nat /\ IsFiniteSet(Nodes) /\ IsFiniteSet(Cats) /\ IsFiniteSet(Items)
<1>1. Cats \subseteq Nodes /\ Items \subseteq Nodes /\ Units \subseteq Nodes
  BY DEF Nodes
<1>2. IsFiniteSet(Nodes) /\ IsFiniteSet(Cats) /\ IsFiniteSet(Items)
  BY <1>1, CatalogAdminAssumption, FS_Subset
<1>3. QED
  BY <1>1, <1>2, CatalogAdminAssumption

LEMMA ListedType ==
  ASSUME live \subseteq Nodes
  PROVE  Listed \in SUBSET Nat /\ Listed \in SUBSET Cats /\ IsFiniteSet(Listed)
<1>1. Listed \in SUBSET Nat /\ Listed \in SUBSET Cats
  BY NodeSets DEF Listed
<1>2. QED
  BY <1>1, NodeSets, FS_Subset

LEMMA AdminInitial == AdminInit => AdminInv
<1> SUFFICES ASSUME AdminInit
             PROVE  AdminInv
  OBVIOUS
<1>1. /\ live = Nodes \ New /\ created = {} /\ place = Place0 /\ wire = {}
      /\ \A r \in Admins :
           /\ pc[r] = "new" /\ job[r] = [kind |-> "none", node |-> Uncat, target |-> Nowhere]
           /\ rows[r] = {} /\ page[r] = 1 /\ form[r] = [name |-> Name0, place |-> Nowhere]
           /\ answer[r] = "none" /\ touched[r] = {} /\ outcome[r] = "none"
  BY DEF AdminInit
<1>2. PlaceInv
  BY <1>1, NodeSets, Place0Assumption DEF PlaceInv, Listed, Nodes
<1>3. TypeOK
  <2>1. 1 \in 1 .. Cardinality(Cats) + 1
    BY NodeSets, FS_CardinalityType
  <2>2. \A i \in Items \cap live : place[i] \in Cats
    BY <1>1, NodeSets, Place0Assumption DEF Nodes
  <2>3. page \in [Admins -> 1 .. Cardinality(Cats) + 1]
    BY <2>1 DEF AdminInit
  <2>4. form \in [Admins -> [name : Names, place : Places]]
    BY CatalogAdminAssumption DEF AdminInit, Places
  <2>5. /\ live \subseteq Nodes /\ Uncat \in live /\ created \subseteq New
        /\ place \in [Nodes -> Places] /\ name \in [Nodes -> Names] /\ wire \subseteq Admins
    BY <1>1, NodeSets, CatalogAdminAssumption DEF AdminInit
  <2>6. QED
    BY <2>2, <2>3, <2>4, <2>5 DEF AdminInit, TypeOK
<1>4. \A r \in Admins : StageOf(r) /\ FormOf(r) /\ ~Filling(r)
  BY <1>1 DEF StageOf, FormOf, Filling, Kind, Node
<1>5. RequestInv
  BY <1>1, <1>4 DEF RequestInv, NameOf, ListOf, PlaceOf
<1>6. QED
  BY <1>1, <1>2, <1>3, <1>5 DEF AdminInv, InvalidOnlyByBadList

-----------------------------------------------------------------------------
(* Steps of a view.                                                        *)

\* What one request has read and sent does not change what another has.
LEMMA ViewStep ==
  ASSUME AdminInv, NEW r \in Admins, TypeOK', UNCHANGED <<catalog, raced>>,
         \A q \in Admins \ {r} :
           /\ pc'[q] = pc[q] /\ job'[q] = job[q] /\ rows'[q] = rows[q] /\ page'[q] = page[q]
           /\ form'[q] = form[q] /\ touched'[q] = touched[q] /\ outcome'[q] = outcome[q]
           /\ failed'[q] = failed[q] /\ answer'[q] = answer[q] /\ stale'[q] = stale[q]
           /\ (q \in wire' <=> q \in wire),
         StageOf(r)', FormOf(r)', NameOf(r)',
         Undisturbed(r)' => ListOf(r)' /\ PlaceOf(r)',
         outcome'[r] = "invalid" => raced[r] \/ failed'[r]
  PROVE  AdminInv'
<1>1. UNCHANGED <<live, created, place, name, raced>>
  BY DEF catalog
<1>2. PlaceInv'
  BY <1>1 DEF AdminInv, PlaceInv, Listed
<1>3. ASSUME NEW q \in Admins \ {r}
      PROVE  /\ StageOf(q)' /\ FormOf(q)' /\ NameOf(q)'
             /\ Undisturbed(q)' => ListOf(q)' /\ PlaceOf(q)'
  <2>1. /\ StageOf(q) /\ FormOf(q) /\ NameOf(q)
        /\ Undisturbed(q) => ListOf(q) /\ PlaceOf(q)
    BY DEF AdminInv, RequestInv
  <2>2. StageOf(q)'
    BY <2>1, <1>3 DEF StageOf, Kind, Node
  <2>3. FormOf(q)'
    BY <2>1, <1>3 DEF FormOf, Kind, Node
  <2>4. NameOf(q)'
    BY <1>1, <2>1, <1>3 DEF NameOf, Filling, Kind, Node
  <2>5. Undisturbed(q)' => Undisturbed(q)
    BY <1>1, <1>3 DEF Undisturbed
  <2>6. ListOf(q) => ListOf(q)'
    BY <1>1, <1>3 DEF ListOf, Choices, Listed, Kind, Node
  <2>7. PlaceOf(q) => PlaceOf(q)'
    BY <1>1, <1>3 DEF PlaceOf, Filling, Choices, Listed, Kind, Node
  <2>8. QED
    BY <2>1, <2>2, <2>3, <2>4, <2>5, <2>6, <2>7
<1>4. RequestInv'
  BY <1>3 DEF RequestInv
<1>5. InvalidOnlyByBadList'
  BY <1>1 DEF AdminInv, InvalidOnlyByBadList
<1>6. QED
  BY <1>2, <1>4, <1>5 DEF AdminInv

\* What is known of a request that has begun, and of one whose command is on its way.
LEMMA Begins ==
  ASSUME AdminInv, NEW r \in Admins, pc[r] # "new"
  PROVE  /\ Kind(r) \in KindsAt(pc[r]) /\ Kind(r) # "none"
         /\ job[r] \in Jobs /\ Node(r) \in Nodes \ {Uncat}
         /\ Kind(r) \in {"edit", "create", "delete", "merge", "split"}
<1>1. TypeOK /\ StageOf(r)
  BY DEF AdminInv, RequestInv
<1>2. Kind(r) \in KindsAt(pc[r])
  BY <1>1 DEF StageOf
<1>3. Kind(r) \in {"edit", "create", "delete", "merge", "split"}
  BY <1>1, <1>2 DEF KindsAt, TypeOK
<1>4. job[r] \in Jobs /\ Node(r) # Uncat
  BY <1>1, <1>3 DEF StageOf
<1>5. Node(r) \in Nodes
  BY <1>4, NodeSets DEF Jobs, Node
<1>6. QED
  BY <1>2, <1>3, <1>4, <1>5

LEMMA Sent ==
  ASSUME AdminInv, NEW r \in wire
  PROVE  /\ r \in Admins /\ pc[r] \in {"sent", "done"} /\ answer[r] = "none"
         /\ StageOf(r) /\ FormOf(r) /\ NameOf(r) /\ (Undisturbed(r) => PlaceOf(r))
         /\ Kind(r) # "none" /\ job[r] \in Jobs /\ Node(r) \in Nodes \ {Uncat}
<1>1. r \in Admins /\ StageOf(r) /\ FormOf(r) /\ NameOf(r) /\ (Undisturbed(r) => PlaceOf(r))
  BY DEF AdminInv, RequestInv, TypeOK
<1>2. pc[r] \in {"sent", "done"} /\ answer[r] = "none"
  BY <1>1 DEF StageOf
<1>3. QED
  BY <1>1, <1>2, Begins

\* Before its first page a list is empty.
LEMMA NothingRead ==
  ASSUME TypeOK, NEW p, p = 1
  PROVE  {n \in Choices : RankIn(Listed, n) <= (p - 1) * PageSize} = {}
<1>1. Listed \in SUBSET Nat /\ IsFiniteSet(Listed)
  BY ListedType DEF TypeOK
<1>2. \A n \in Listed : RankIn(Listed, n) \in 1 .. Cardinality(Listed)
  BY <1>1, RankInType
<1>3. Cardinality(Listed) \in Nat
  BY <1>1, FS_CardinalityType
<1>4. (p - 1) * PageSize = 0
  BY CatalogAdminAssumption
<1>5. \A n \in Listed : ~(RankIn(Listed, n) <= 0)
  BY <1>2, <1>3
<1>6. QED
  BY <1>4, <1>5 DEF Choices

LEMMA EndStep ==
  ASSUME AdminInv, NEW r \in Admins, pc[r] \notin {"new", "listing", "relisting"},
         NEW m \in {"success", "notfound", "refused", "unavailable", "invalid"}, End(r, m),
         m = "invalid" => raced[r] \/ failed[r]
  PROVE  AdminInv'
<1>1. /\ TypeOK /\ StageOf(r) /\ FormOf(r) /\ NameOf(r) /\ (Undisturbed(r) => PlaceOf(r))
  BY DEF AdminInv, RequestInv
<1>2. /\ UNCHANGED <<live, created, place, name, wire, answer, raced, stale, job, page, form,
                     touched, failed>>
      /\ pc' = [pc EXCEPT ![r] = "done"] /\ outcome' = [outcome EXCEPT ![r] = m]
      /\ rows' = [rows EXCEPT ![r] = {}]
  BY DEF End, Go, server, catalog
<1>3. TypeOK'
  BY <1>1, <1>2 DEF TypeOK
<1>4. /\ \A q \in Admins \ {r} : pc'[q] = pc[q] /\ outcome'[q] = outcome[q] /\ rows'[q] = rows[q]
      /\ pc'[r] = "done" /\ outcome'[r] = m /\ rows'[r] = {}
  BY <1>1, <1>2 DEF TypeOK
<1>5. StageOf(r)'
  <2>1. Kind(r) \in {"edit", "create", "delete", "merge", "split"}
    BY Begins
  <2>2. Kind(r)' \in KindsAt("done")
    BY <1>2, <2>1 DEF KindsAt, Kind
  <2>3. QED
    BY <1>1, <1>2, <1>4, <2>2 DEF StageOf, Kind, Node
<1>6. FormOf(r)' /\ ListOf(r)'
  BY <1>1, <1>2, <1>4 DEF FormOf, ListOf, Kind, Node
<1>7. Filling(r)' => Filling(r)
  BY <1>2, <1>4 DEF Filling, Kind
<1>8. NameOf(r)'
  BY <1>1, <1>2, <1>7 DEF NameOf, Node
<1>9. Undisturbed(r)' => PlaceOf(r)'
  BY <1>1, <1>2, <1>4, <1>7 DEF Undisturbed, PlaceOf, Node, Choices, Listed
<1>10. QED
  BY <1>2, <1>3, <1>4, <1>5, <1>6, <1>8, <1>9, ViewStep DEF catalog

LEMMA OpenStep ==
  ASSUME AdminInv, NEW r \in Admins, NEW j \in Jobs, Open(r, j)
  PROVE  AdminInv'
<1>1. /\ TypeOK /\ StageOf(r) /\ pc[r] = "new" /\ r \notin wire /\ InvalidOnlyByBadList
      /\ rows[r] = {} /\ form[r].place = Nowhere /\ answer[r] = "none" /\ page[r] = 1
      /\ touched[r] = {}
  BY DEF AdminInv, RequestInv, StageOf, Open, Sends
<1>2. /\ UNCHANGED <<live, created, place, name, answer, raced, stale, rows, page, form,
                     touched, outcome, failed>>
      /\ pc' = [pc EXCEPT ![r] = FirstStage(j)] /\ job' = [job EXCEPT ![r] = j]
      /\ wire' = IF FirstStage(j) = "sent" THEN wire \cup {r} ELSE wire
  BY DEF Open, Sends, Go, catalog
<1>3. j.kind \in {"edit", "create", "delete", "merge", "split"}
  BY DEF Jobs
<1>4. /\ FirstStage(j) \in {"listing", "getting", "form", "sent"}
      /\ j.kind \in KindsAt(FirstStage(j))
      /\ FirstStage(j) = "listing" => j.kind \in {"edit", "create"} /\ HasPlace(j.node)
      /\ FirstStage(j) = "getting" => j.kind # "create" /\ (j.kind = "edit" => ~HasPlace(j.node))
      /\ FirstStage(j) = "form" => j.kind = "create" /\ ~HasPlace(j.node)
      /\ FirstStage(j) = "sent" => j.kind \in {"delete", "merge"}
  BY <1>3 DEF FirstStage, KindsAt
<1>5. /\ j.node # Uncat
      /\ j.kind = "merge" => (j.node \in Cats <=> j.target \in Cats)
  BY <1>3, NodeSets DEF Jobs, Open, Sends, Offers
<1>6. TypeOK'
  BY <1>1, <1>2, <1>4 DEF TypeOK
<1>7. /\ \A q \in Admins \ {r} : pc'[q] = pc[q] /\ job'[q] = job[q] /\ (q \in wire' <=> q \in wire)
      /\ pc'[r] = FirstStage(j) /\ job'[r] = j /\ (r \in wire' <=> FirstStage(j) = "sent")
  BY <1>1, <1>2 DEF TypeOK
<1> DEFINE first == FirstStage(j)
<1> HIDE DEF first
<1>8. StageOf(r)'
  BY <1>1, <1>2, <1>3, <1>4, <1>5, <1>7 DEF StageOf, Kind, Node, first
<1>9. FormOf(r)'
  BY <1>1, <1>2, <1>4, <1>7 DEF FormOf, Kind, Node
<1>10. ~Filling(r)'
  BY <1>4, <1>7 DEF Filling, Kind
<1>11. ListOf(r)'
  <2>1. {n \in Choices' : RankIn(Listed', n) <= (page'[r] - 1) * PageSize} = {}
    BY <1>1, <1>2, NothingRead DEF Choices, Listed
  <2>2. QED
    BY <1>1, <1>2, <1>4, <1>7, <2>1 DEF ListOf, Kind, Node
<1>12. NameOf(r)' /\ PlaceOf(r)'
  BY <1>4, <1>7, <1>10 DEF NameOf, PlaceOf
<1>13. outcome'[r] = "invalid" => raced[r] \/ failed'[r]
  BY <1>1, <1>2 DEF InvalidOnlyByBadList
<1>14. QED
  BY <1>2, <1>6, <1>7, <1>8, <1>9, <1>11, <1>12, <1>13, ViewStep DEF catalog

\* After its last page a list has all there is.
LEMMA ListStep ==
  ASSUME AdminInv, NEW r \in Admins, ListPage(r)
  PROVE  AdminInv'
<1>1. /\ TypeOK /\ StageOf(r) /\ FormOf(r) /\ NameOf(r) /\ InvalidOnlyByBadList
      /\ (Undisturbed(r) => ListOf(r) /\ PlaceOf(r))
      /\ pc[r] \in {"listing", "relisting"} /\ Kind(r) \in KindsAt(pc[r])
      /\ Kind(r) \in {"edit", "create", "split"}
  BY Begins DEF AdminInv, RequestInv, ListPage, KindsAt
<1> DEFINE p == page[r]
           last == LastPage(Listed, p, PageSize)
           onPage == PageOfSet(Listed, p, PageSize)
<1>2. /\ UNCHANGED <<live, created, place, name, wire, answer, raced, stale, job, form,
                     touched, outcome, failed>>
      /\ rows' = [rows EXCEPT ![r] = @ \cup (onPage \ {Uncat})]
      /\ \/ last /\ page' = [page EXCEPT ![r] = 1] /\ pc' = [pc EXCEPT ![r] = AfterList(r)]
         \/ ~last /\ page' = [page EXCEPT ![r] = @ + 1] /\ pc' = pc
  BY DEF ListPage, Go, server, catalog, Listed
<1>3. /\ Listed \in SUBSET Nat /\ Listed \in SUBSET Cats /\ IsFiniteSet(Listed)
      /\ p \in Nat \ {0} /\ PageSize \in Nat \ {0} /\ onPage \subseteq Cats
  BY <1>1, ListedType, CatalogAdminAssumption DEF TypeOK, PageOfSet
<1>4. ~last => p + 1 \in 1 .. Cardinality(Cats) + 1
  BY <1>3, NodeSets, NextPageExists
<1>5. AfterList(r) \in {"checking", "getting", "form"}
  BY DEF AfterList
<1>6. /\ (p - 1) * PageSize \in Int /\ p * PageSize \in Int
      /\ (p - 1) * PageSize <= p * PageSize /\ (p + 1) - 1 = p
  <2>1. PICK k \in Nat : p = k + 1
    BY <1>3, p - 1 \in Nat /\ p = (p - 1) + 1
  <2>2. k * PageSize \in Nat /\ (k + 1) * PageSize = k * PageSize + PageSize
    BY <1>3
  <2>3. QED
    BY <1>3, <2>1, <2>2
<1>7. \A n \in Listed : RankIn(Listed, n) \in Int
  <2>1. \A n \in Listed : RankIn(Listed, n) \in 1 .. Cardinality(Listed)
    BY <1>3, RankInType
  <2>2. Cardinality(Listed) \in Nat
    BY <1>3, FS_CardinalityType
  <2>3. QED
    BY <2>1, <2>2
<1>8. last => \A n \in Listed : RankIn(Listed, n) <= p * PageSize
  BY <1>3, LastPageHasAll
<1>9. {n \in Choices : RankIn(Listed, n) <= (p - 1) * PageSize} \cup (onPage \ {Uncat})
        = {n \in Choices : RankIn(Listed, n) <= p * PageSize}
  BY <1>6, <1>7 DEF PageOfSet, Choices
<1>10. 1 \in 1 .. Cardinality(Cats) + 1
  BY NodeSets, FS_CardinalityType
<1> HIDE DEF p, last, onPage
<1>11. TypeOK'
  <2>1. rows' \in [Admins -> SUBSET Cats]
    BY <1>1, <1>2, <1>3 DEF TypeOK
  <2>2. page' \in [Admins -> 1 .. Cardinality(Cats) + 1]
    BY <1>1, <1>2, <1>4, <1>10 DEF TypeOK, p
  <2>3. pc' \in [Admins -> {"new", "listing", "getting", "form", "rechecking", "relisting",
                           "checking", "sent", "done"}]
    BY <1>1, <1>2, <1>5 DEF TypeOK
  <2>4. QED
    BY <1>1, <1>2, <2>1, <2>2, <2>3 DEF TypeOK
<1>12. /\ \A q \in Admins \ {r} : pc'[q] = pc[q] /\ rows'[q] = rows[q] /\ page'[q] = page[q]
       /\ rows'[r] = rows[r] \cup (onPage \ {Uncat})
       /\ \/ last /\ page'[r] = 1 /\ pc'[r] = AfterList(r)
          \/ ~last /\ page'[r] = p + 1 /\ pc'[r] = pc[r]
  BY <1>1, <1>2 DEF TypeOK, p
<1>13. UNCHANGED <<Choices, Listed>> /\ Kind(r)' = Kind(r) /\ Node(r)' = Node(r)
  BY <1>2 DEF Choices, Listed, Kind, Node
<1>14. Filling(r)' <=> Filling(r)
  BY <1>1, <1>2, <1>12, <1>13 DEF Filling, AfterList, Kind, KindsAt, StageOf
<1>15. NameOf(r)'
  BY <1>1, <1>2, <1>13, <1>14 DEF NameOf
<1>16. outcome'[r] = "invalid" => raced[r] \/ failed'[r]
  BY <1>1, <1>2 DEF InvalidOnlyByBadList
<1>17. Undisturbed(r)' => rows'[r] = {n \in Choices : RankIn(Listed, n) <= p * PageSize}
  BY <1>1, <1>2, <1>9, <1>12 DEF Undisturbed, ListOf, p
<1>18. CASE last /\ page'[r] = 1 /\ pc'[r] = AfterList(r)
  <2>1. Undisturbed(r)' => rows'[r] = Choices
    BY <1>8, <1>17, <1>18 DEF Choices
  <2>2. CASE pc[r] = "relisting"
    <3>1. pc'[r] = "checking" /\ HasPlace(Node(r)) /\ Kind(r) \in {"edit", "create"}
      BY <1>1, <1>18, <2>2 DEF AfterList, StageOf, KindsAt
    <3>2. StageOf(r)'
      BY <1>1, <1>2, <1>13, <1>18, <2>2, <3>1 DEF StageOf, KindsAt, Kind, Node
    <3>3. FormOf(r)'
      BY <1>1, <1>2, <1>13, <3>1 DEF FormOf
    <3>4. Undisturbed(r)' => ListOf(r)'
      BY <1>13, <2>1, <3>1 DEF ListOf
    <3>5. Undisturbed(r)' => PlaceOf(r)'
      BY <1>1, <1>2, <1>13, <1>14, <2>2, <3>1 DEF PlaceOf, Undisturbed
    <3>6. QED
      BY <1>2, <1>11, <1>12, <1>15, <1>16, <3>2, <3>3, <3>4, <3>5, ViewStep DEF catalog
  <2>3. CASE pc[r] = "listing"
    <3>1. /\ pc'[r] = IF Kind(r) = "edit" THEN "getting" ELSE "form"
          /\ (Kind(r) # "split" => HasPlace(Node(r))) /\ r \notin wire
      BY <1>1, <1>18, <2>3 DEF AfterList, StageOf, Kind
    <3>2. StageOf(r)'
      BY <1>1, <1>2, <1>13, <1>18, <2>3, <3>1 DEF StageOf, KindsAt, Kind, Node
    <3>3. FormOf(r)'
      BY <1>1, <1>2, <1>13, <2>3, <3>1 DEF FormOf
    <3>4. Undisturbed(r)' => ListOf(r)'
      BY <1>13, <2>1, <3>1 DEF ListOf
    <3>5. PlaceOf(r)'
      BY <1>2, <1>13, <3>1 DEF PlaceOf, Filling
    <3>6. QED
      BY <1>2, <1>11, <1>12, <1>15, <1>16, <3>2, <3>3, <3>4, <3>5, ViewStep DEF catalog
  <2>4. QED
    BY <1>1, <2>2, <2>3
<1>19. CASE ~last /\ page'[r] = p + 1 /\ pc'[r] = pc[r]
  <2>1. StageOf(r)'
    BY <1>1, <1>2, <1>13, <1>19 DEF StageOf, Kind, Node
  <2>2. FormOf(r)'
    BY <1>1, <1>2, <1>13, <1>19 DEF FormOf
  <2>3. Undisturbed(r)' => ListOf(r)'
    BY <1>1, <1>6, <1>13, <1>17, <1>19 DEF ListOf
  <2>4. Undisturbed(r)' => PlaceOf(r)'
    BY <1>1, <1>2, <1>13, <1>14, <1>19 DEF PlaceOf, Undisturbed
  <2>5. QED
    BY <1>2, <1>11, <1>12, <1>15, <1>16, <2>1, <2>2, <2>3, <2>4, ViewStep DEF catalog
<1>20. QED
  BY <1>12, <1>18, <1>19

LEMMA ListFailsStep ==
  ASSUME AdminInv, NEW r \in Admins, ListFails(r)
  PROVE  AdminInv'
<1>1. /\ TypeOK /\ StageOf(r) /\ FormOf(r) /\ NameOf(r)
      /\ pc[r] \in {"listing", "relisting"} /\ Kind(r) \in KindsAt(pc[r]) /\ r \notin wire
  BY Begins DEF AdminInv, RequestInv, ListFails, StageOf
<1>2. PICK next \in {"done", AfterList(r)} :
        /\ pc' = [pc EXCEPT ![r] = next]
        /\ next = "done" => pc[r] = "listing"
        /\ outcome' = [outcome EXCEPT ![r] = IF next = "done" THEN "notfound" ELSE @]
  BY <1>1 DEF ListFails, Go, AfterList, TypeOK
<1>3. /\ UNCHANGED <<live, created, place, name, wire, answer, raced, stale, job, form, touched>>
      /\ rows' = [rows EXCEPT ![r] = {}] /\ page' = [page EXCEPT ![r] = 1]
      /\ failed' = [failed EXCEPT ![r] = TRUE]
  BY DEF ListFails, server, catalog
<1>4. next \in {"done", "checking", "getting", "form"}
  BY <1>2 DEF AfterList
<1>5. 1 \in 1 .. Cardinality(Cats) + 1
  BY NodeSets, FS_CardinalityType
<1>6. TypeOK'
  BY <1>1, <1>2, <1>3, <1>4, <1>5 DEF TypeOK
<1>7. /\ \A q \in Admins \ {r} : /\ pc'[q] = pc[q] /\ rows'[q] = rows[q] /\ page'[q] = page[q]
                                 /\ failed'[q] = failed[q] /\ outcome'[q] = outcome[q]
      /\ pc'[r] = next /\ rows'[r] = {} /\ page'[r] = 1 /\ failed'[r]
  BY <1>1, <1>2, <1>3 DEF TypeOK
<1>8. /\ next = "checking" => /\ pc[r] = "relisting" /\ HasPlace(Node(r))
                              /\ Kind(r) \in {"edit", "create"}
      /\ next = "getting" => pc[r] = "listing" /\ Kind(r) = "edit" /\ HasPlace(Node(r))
      /\ next = "form" => /\ pc[r] = "listing" /\ Kind(r) \in {"create", "split"}
                          /\ Kind(r) = "create" => HasPlace(Node(r))
      /\ Kind(r) \in {"edit", "create", "split"}
  BY <1>1, <1>2 DEF AfterList, StageOf, KindsAt, Kind
<1>9. Kind(r)' = Kind(r) /\ Node(r)' = Node(r)
  BY <1>3 DEF Kind, Node
<1>10. StageOf(r)'
  BY <1>1, <1>3, <1>4, <1>7, <1>8, <1>9 DEF StageOf, KindsAt, Kind, Node
<1>11. FormOf(r)'
  BY <1>1, <1>3, <1>4, <1>7, <1>8, <1>9 DEF FormOf
<1>12. Filling(r)' => Filling(r)
  BY <1>1, <1>3, <1>4, <1>7, <1>8, <1>9 DEF Filling
<1>13. NameOf(r)'
  BY <1>1, <1>3, <1>9, <1>12 DEF NameOf
<1>14. ~Undisturbed(r)'
  BY <1>7 DEF Undisturbed
<1>15. QED
  BY <1>3, <1>6, <1>7, <1>10, <1>11, <1>13, <1>14, ViewStep DEF catalog

LEMMA GetToEditStep ==
  ASSUME AdminInv, NEW r \in Admins, GetToEdit(r)
  PROVE  AdminInv'
<1>1. /\ TypeOK /\ StageOf(r) /\ FormOf(r) /\ InvalidOnlyByBadList
      /\ (Undisturbed(r) => ListOf(r))
      /\ pc[r] = "getting" /\ Kind(r) = "edit" /\ Node(r) \in Nodes
      /\ r \notin wire /\ touched[r] = {} /\ answer[r] = "none" /\ page[r] = 1
  BY Begins DEF AdminInv, RequestInv, StageOf, GetToEdit, Gets, Kind
<1>2. /\ UNCHANGED <<live, created, place, name, wire, answer, raced, job, rows, page, touched,
                     outcome, failed>>
      /\ pc' = [pc EXCEPT ![r] = "form"] /\ form' = [form EXCEPT ![r] = Filled(r)]
      /\ stale' = [stale EXCEPT ![r] = FALSE]
  BY DEF GetToEdit, Gets, Go, catalog
<1> DEFINE n == Node(r)
<1>3. /\ Filled(r).name = name[n]
      /\ Filled(r).place = IF place[n] \in rows[r] \ {n} THEN place[n] ELSE Nowhere
      /\ Filled(r) \in [name : Names, place : Places]
  BY <1>1 DEF Filled, TypeOK, Places, Node
<1>4. TypeOK'
  BY <1>1, <1>2, <1>3 DEF TypeOK
<1>5. /\ \A q \in Admins \ {r} : pc'[q] = pc[q] /\ form'[q] = form[q] /\ stale'[q] = stale[q]
      /\ pc'[r] = "form" /\ form'[r] = Filled(r)
  BY <1>1, <1>2 DEF TypeOK
<1>6. Kind(r)' = "edit" /\ n' = n /\ UNCHANGED <<Choices, Listed>>
  BY <1>1, <1>2 DEF Kind, Node, Choices, Listed
<1>7. StageOf(r)'
  BY <1>1, <1>2, <1>5, <1>6 DEF StageOf, KindsAt, Kind, Node
<1>8. ~HasPlace(n) => form'[r].place = Nowhere
  BY <1>1, <1>3, <1>5 DEF FormOf
<1>9. FormOf(r)'
  BY <1>1, <1>2, <1>5, <1>6, <1>8 DEF FormOf
<1>10. NameOf(r)'
  BY <1>2, <1>3, <1>5, <1>6 DEF NameOf
<1>11. Undisturbed(r)' => Undisturbed(r)
  BY <1>2 DEF Undisturbed
<1>12. Undisturbed(r)' => ListOf(r)'
  BY <1>1, <1>2, <1>5, <1>6, <1>11 DEF ListOf
<1>13. Undisturbed(r) /\ HasPlace(n) => rows[r] = Choices
  BY <1>1 DEF ListOf
<1>14. Undisturbed(r)' => PlaceOf(r)'
  BY <1>2, <1>3, <1>5, <1>6, <1>8, <1>11, <1>13 DEF PlaceOf
<1>15. outcome'[r] = "invalid" => raced[r] \/ failed'[r]
  BY <1>1, <1>2 DEF InvalidOnlyByBadList
<1>16. QED
  BY <1>2, <1>4, <1>5, <1>7, <1>9, <1>10, <1>12, <1>14, <1>15, ViewStep DEF catalog

\* The pages that only read an object: to divide it, or to confirm its deletion.
LEMMA GetStep ==
  ASSUME AdminInv, NEW r \in Admins, GetToSplit(r) \/ GetToDelete(r) \/ Confirm(r)
  PROVE  AdminInv'
<1>1. /\ TypeOK /\ StageOf(r) /\ FormOf(r) /\ InvalidOnlyByBadList
      /\ pc[r] \in {"getting", "form"} /\ Kind(r) \in {"split", "delete"}
      /\ r \notin wire /\ answer[r] = "none" /\ page[r] = 1
  BY DEF AdminInv, RequestInv, StageOf, GetToSplit, GetToDelete, Confirm, Gets, Kind
<1>2. PICK next \in {"listing", "form", "rechecking"} :
        /\ pc' = [pc EXCEPT ![r] = next]
        /\ next = "listing" => pc[r] = "getting" /\ Kind(r) = "split"
        /\ next = "form" => pc[r] = "getting" /\ Kind(r) = "delete"
        /\ next = "rechecking" => Kind(r) = "delete"
  BY DEF GetToSplit, GetToDelete, Confirm, Gets, Go, Kind
<1>3. /\ UNCHANGED <<live, created, place, name, wire, answer, raced, stale, job, rows, page,
                     form, touched, outcome, failed>>
  BY DEF GetToSplit, GetToDelete, Confirm, Gets, catalog, server, view
<1>4. TypeOK'
  BY <1>1, <1>2, <1>3 DEF TypeOK
<1>5. /\ \A q \in Admins \ {r} : pc'[q] = pc[q]
      /\ pc'[r] = next
  BY <1>1, <1>2 DEF TypeOK
<1>6. Kind(r)' = Kind(r) /\ Node(r)' = Node(r) /\ UNCHANGED <<Choices, Listed>>
  BY <1>3 DEF Kind, Node, Choices, Listed
<1>7. StageOf(r)'
  BY <1>1, <1>2, <1>3, <1>5, <1>6 DEF StageOf, KindsAt, Kind, Node
<1>8. FormOf(r)'
  BY <1>1, <1>2, <1>3, <1>5, <1>6 DEF FormOf
<1>9. ~Filling(r)'
  BY <1>1, <1>6 DEF Filling
<1>10. NameOf(r)' /\ PlaceOf(r)'
  BY <1>2, <1>5, <1>9 DEF NameOf, PlaceOf
<1>11. next = "listing" => rows[r] = {}
  BY <1>1, <1>2 DEF FormOf
<1>12. ListOf(r)'
  <2>1. {n \in Choices : RankIn(Listed, n) <= (page'[r] - 1) * PageSize} = {}
    BY <1>1, <1>3, NothingRead
  <2>2. {n \in Choices' : RankIn(Listed', n) <= (page'[r] - 1) * PageSize} = {}
    BY <1>6, <2>1
  <2>3. QED
    BY <1>1, <1>2, <1>3, <1>5, <1>6, <1>11, <2>2 DEF ListOf
<1>13. outcome'[r] = "invalid" => raced[r] \/ failed'[r]
  BY <1>1, <1>3 DEF InvalidOnlyByBadList
<1>14. QED
  BY <1>3, <1>4, <1>5, <1>7, <1>8, <1>10, <1>12, <1>13, ViewStep DEF catalog

\* What the user leaves alone is sent as it was shown.
LEMMA FillStep ==
  ASSUME AdminInv, NEW r \in Admins, NEW fields \in SUBSET {"name", "place"},
         NEW f \in [name : Names, place : Places], Fill(r, fields, f)
  PROVE  AdminInv'
<1>1. /\ TypeOK /\ StageOf(r) /\ FormOf(r) /\ NameOf(r) /\ InvalidOnlyByBadList
      /\ (Undisturbed(r) => ListOf(r) /\ PlaceOf(r))
      /\ pc[r] = "form" /\ Kind(r) \in {"edit", "create", "split"}
      /\ r \notin wire /\ touched[r] = {} /\ answer[r] = "none" /\ page[r] = 1
  BY DEF AdminInv, RequestInv, StageOf, Fill, Kind
<1> DEFINE n == Node(r)
           next == IF Kind(r) = "split" THEN "rechecking"
                   ELSE IF HasPlace(n) THEN "relisting" ELSE "checking"
<1>2. /\ UNCHANGED <<live, created, place, name, wire, answer, raced, stale, job, page,
                     outcome, failed>>
      /\ pc' = [pc EXCEPT ![r] = next] /\ form' = [form EXCEPT ![r] = f]
      /\ touched' = [touched EXCEPT ![r] = fields] /\ rows' = [rows EXCEPT ![r] = {}]
  BY DEF Fill, Go, server, catalog, Kind, Node
<1>3. /\ "name" \notin fields => f.name = form[r].name
      /\ "place" \notin fields => f.place = form[r].place
      /\ "place" \in fields => HasPlace(n) /\ f.place \in (rows[r] \ {n}) \cup {Nowhere}
      /\ Kind(r) = "split" => f.place # Nowhere
      /\ f.place \in Cats \/ f.place = Nowhere
  BY DEF Fill, Kind, Node, Places
<1>4. next \in {"rechecking", "relisting", "checking"}
  OBVIOUS
<1> HIDE DEF n
<1>5. TypeOK'
  BY <1>1, <1>2 DEF TypeOK
<1>6. /\ \A q \in Admins \ {r} : /\ pc'[q] = pc[q] /\ form'[q] = form[q] /\ rows'[q] = rows[q]
                                 /\ touched'[q] = touched[q]
      /\ pc'[r] = next /\ form'[r] = f /\ touched'[r] = fields /\ rows'[r] = {}
  BY <1>1, <1>2, <1>4 DEF TypeOK
<1>7. Kind(r)' = Kind(r) /\ Node(r)' = n /\ UNCHANGED <<Choices, Listed>>
  BY <1>2 DEF Kind, Node, Choices, Listed, n
<1>8. StageOf(r)'
  BY <1>1, <1>2, <1>6, <1>7 DEF StageOf, KindsAt, Kind, Node, n
<1>9. FormOf(r)'
  BY <1>1, <1>2, <1>3, <1>6, <1>7 DEF FormOf, n
<1>10. Filling(r)' => Filling(r) /\ Kind(r) = "edit"
  BY <1>1, <1>7 DEF Filling
<1>11. NameOf(r)'
  BY <1>1, <1>2, <1>3, <1>6, <1>7, <1>10 DEF NameOf, n
<1>12. Undisturbed(r)' => Undisturbed(r)
  BY <1>2 DEF Undisturbed
<1>13. ListOf(r)'
  <2>1. {k \in Choices' : RankIn(Listed', k) <= (page'[r] - 1) * PageSize} = {}
    BY <1>1, <1>2, <1>7, NothingRead
  <2>2. QED
    BY <1>6, <1>7, <2>1 DEF ListOf
<1>14. ASSUME Undisturbed(r)
       PROVE  PlaceOf(r)'
  <2>1. Kind(r) # "split" /\ HasPlace(n) =>
          /\ rows[r] = Choices
          /\ Kind(r) = "create" => form[r].place = Nowhere
    BY <1>1, <1>14 DEF ListOf, FormOf, n
  <2>2. Kind(r) = "edit" =>
          form[r].place = IF HasPlace(n) /\ place[n] \in Choices \ {n} THEN place[n] ELSE Nowhere
    BY <1>1, <1>14 DEF PlaceOf, Filling, n
  <2>3. Kind(r) # "split" /\ HasPlace(n) => f.place \in (Choices \ {n}) \cup {Nowhere}
    BY <1>1, <1>3, <2>1, <2>2
  <2>4. pc'[r] \in {"relisting", "checking"} => Kind(r) # "split"
    BY <1>6
  <2>5. QED
    BY <1>2, <1>3, <1>6, <1>7, <1>10, <2>2, <2>3, <2>4 DEF PlaceOf
<1>15. outcome'[r] = "invalid" => raced[r] \/ failed'[r]
  BY <1>1, <1>2 DEF InvalidOnlyByBadList
<1>16. QED
  BY <1>2, <1>5, <1>6, <1>8, <1>9, <1>11, <1>12, <1>13, <1>14, <1>15, ViewStep DEF catalog

\* The command is sent: by a POST that was checked, or an object that was read once more.
LEMMA SendStep ==
  ASSUME AdminInv, NEW r \in Admins,
         UNCHANGED <<catalog, answer, raced, stale, job, page, form, touched, outcome, failed>>,
         pc' = [pc EXCEPT ![r] = "sent"], wire' = wire \cup {r},
         rows' = rows \/ rows' = [rows EXCEPT ![r] = {}],
         \/ pc[r] = "checking" /\ FormValid(r)
         \/ pc[r] = "rechecking"
  PROVE  AdminInv'
<1>1. /\ TypeOK /\ StageOf(r) /\ FormOf(r) /\ NameOf(r) /\ InvalidOnlyByBadList
      /\ (Undisturbed(r) => PlaceOf(r))
      /\ pc[r] \in {"checking", "rechecking"} /\ Kind(r) \in KindsAt(pc[r])
      /\ Node(r) \in Nodes /\ answer[r] = "none" /\ page[r] = 1 /\ r \notin wire
  BY Begins DEF AdminInv, RequestInv, StageOf
<1>2. /\ UNCHANGED <<live, created, place, name>>
      /\ Kind(r)' = Kind(r) /\ Node(r)' = Node(r) /\ UNCHANGED <<Choices, Listed>>
  BY DEF catalog, Kind, Node, Choices, Listed
<1>3. /\ pc[r] = "checking" => Kind(r) \in {"edit", "create"}
      /\ pc[r] = "rechecking" => Kind(r) \in {"split", "delete"}
  BY <1>1 DEF KindsAt
<1>4. Kind(r) = "edit" => form[r].place # Node(r)
  BY <1>1, <1>3, NodeSets DEF FormValid, Node
<1>5. TypeOK'
  <2>1. rows' \in [Admins -> SUBSET Cats]
    BY <1>1 DEF TypeOK
  <2>2. QED
    BY <1>1, <1>2, <2>1 DEF TypeOK
<1>6. /\ \A q \in Admins \ {r} : /\ pc'[q] = pc[q] /\ rows'[q] = rows[q]
                                 /\ (q \in wire' <=> q \in wire)
      /\ pc'[r] = "sent" /\ r \in wire'
  BY <1>1 DEF TypeOK
<1>7. StageOf(r)'
  BY <1>1, <1>2, <1>3, <1>6 DEF StageOf, KindsAt, Kind, Node
<1>8. FormOf(r)'
  BY <1>1, <1>2, <1>3, <1>4, <1>6 DEF FormOf
<1>9. Filling(r)' => Filling(r)
  BY <1>1, <1>2, <1>3 DEF Filling
<1>10. NameOf(r)'
  BY <1>1, <1>2, <1>9 DEF NameOf
<1>11. Undisturbed(r)' => Undisturbed(r)
  BY DEF Undisturbed
<1>12. ListOf(r)'
  BY <1>6 DEF ListOf
<1>13. Undisturbed(r)' => PlaceOf(r)'
  BY <1>1, <1>2, <1>6, <1>9, <1>11 DEF PlaceOf
<1>14. outcome'[r] = "invalid" => raced[r] \/ failed'[r]
  BY <1>1 DEF InvalidOnlyByBadList
<1>15. QED
  BY <1>2, <1>5, <1>6, <1>7, <1>8, <1>10, <1>12, <1>13, <1>14, ViewStep DEF catalog

LEMMA UnitsFailStep ==
  ASSUME AdminInv, NEW r \in Admins, UnitsFail(r)
  PROVE  AdminInv'
<1>1. /\ TypeOK /\ StageOf(r) /\ pc[r] = "checking" /\ r \notin wire /\ page[r] = 1
      /\ Kind(r) \in {"edit", "create"}
  BY Begins DEF AdminInv, RequestInv, StageOf, UnitsFail, KindsAt
<1>2. /\ UNCHANGED <<live, created, place, name, wire, answer, raced, stale, job, page, form,
                     touched>>
      /\ pc' = [pc EXCEPT ![r] = "done"] /\ outcome' = [outcome EXCEPT ![r] = "invalid"]
      /\ failed' = [failed EXCEPT ![r] = TRUE] /\ rows' = [rows EXCEPT ![r] = {}]
  BY DEF UnitsFail, Go, server, catalog
<1>3. TypeOK'
  BY <1>1, <1>2 DEF TypeOK
<1>4. /\ \A q \in Admins \ {r} : /\ pc'[q] = pc[q] /\ rows'[q] = rows[q]
                                 /\ failed'[q] = failed[q] /\ outcome'[q] = outcome[q]
      /\ pc'[r] = "done" /\ failed'[r]
  BY <1>1, <1>2 DEF TypeOK
<1>5. StageOf(r)'
  BY <1>1, <1>2, <1>4 DEF StageOf, KindsAt, Kind, Node
<1>6. ~Filling(r)' /\ FormOf(r)'
  BY <1>1, <1>2, <1>4 DEF Filling, FormOf, Kind, Node
<1>7. NameOf(r)' /\ ~Undisturbed(r)'
  BY <1>4, <1>6 DEF NameOf, Undisturbed
<1>8. QED
  BY <1>2, <1>3, <1>4, <1>5, <1>6, <1>7, ViewStep DEF catalog

\* A form that nothing disturbed offers what it offered before.
LEMMA QuietFormIsValid ==
  ASSUME AdminInv, NEW r \in Admins, pc[r] = "checking", Undisturbed(r)
  PROVE  FormValid(r)
<1>1. /\ FormOf(r) /\ ListOf(r) /\ PlaceOf(r) /\ Kind(r) \in {"edit", "create"}
  BY Begins DEF AdminInv, RequestInv, KindsAt
<1>2. CASE HasPlace(Node(r))
  BY <1>1, <1>2 DEF ListOf, PlaceOf, FormValid, Node
<1>3. CASE ~HasPlace(Node(r))
  BY <1>1, <1>3 DEF FormOf, FormValid
<1>4. QED
  BY <1>2, <1>3

LEMMA RequestStep ==
  ASSUME AdminInv, NEW r \in Admins, User(r) \/ Handler(r)
  PROVE  AdminInv'
<1>1. CASE GetFails(r)
  BY <1>1, EndStep DEF GetFails
<1>2. CASE Recheck(r)
  BY <1>2, SendStep DEF Recheck, Sends, Go, view
<1>3. CASE Check(r)
  <2>1. CASE FormValid(r)
    BY <1>3, <2>1, SendStep DEF Check, Sends, Go
  <2>2. CASE ~FormValid(r)
    <3>1. pc[r] = "checking" /\ End(r, "invalid")
      BY <1>3, <2>2 DEF Check, Sends
    <3>2. raced[r] \/ failed[r]
      BY <2>2, <3>1, QuietFormIsValid DEF Undisturbed
    <3>3. QED
      BY <3>1, <3>2, EndStep
  <2>3. QED
    BY <2>1, <2>2
<1>4. CASE Receive(r)
  <2>1. answer[r] \in {"success", "notfound", "refused"} /\ pc[r] = "sent" /\ End(r, answer[r])
    BY <1>4 DEF Receive, AdminInv, TypeOK
  <2>2. QED
    BY <2>1, EndStep
<1>5. CASE TimesOut(r)
  BY <1>5, EndStep DEF TimesOut
<1>6. QED
  BY <1>1, <1>2, <1>3, <1>4, <1>5, OpenStep, ListStep, ListFailsStep, GetToEditStep, GetStep,
     FillStep, UnitsFailStep DEF User, Handler

-----------------------------------------------------------------------------
(* Steps of the server.                                                    *)

\* A command overtakes every other request that is under way.
LEMMA CommandStep ==
  ASSUME AdminInv, NEW r \in Admins, Done(r), PlaceInv',
         live' \subseteq Nodes, Uncat \in live', created' \subseteq New,
         place' \in [Nodes -> Places], \A i \in Items \cap live' : place'[i] \in Cats,
         name' \in [Nodes -> Names]
  PROVE  AdminInv'
<1>1. /\ TypeOK /\ r \in wire /\ UNCHANGED <<pc, job, rows, page, form, touched, outcome, failed>>
      /\ wire' = wire \ {r} /\ answer' = [answer EXCEPT ![r] = "success"]
  BY DEF AdminInv, Done, view
<1>2. /\ \A q \in Admins \ {r} : answer'[q] = answer[q] /\ (q \in wire' <=> q \in wire)
      /\ answer'[r] = "success" /\ r \notin wire'
  BY <1>1 DEF TypeOK
<1>3. \A q \in Admins : /\ raced[q] => raced'[q]
                        /\ q # r /\ ~raced'[q] => pc[q] \in {"new", "done"} /\ q \notin wire
                        /\ q # r /\ stale[q] => stale'[q]
                        /\ q # r /\ Kind(q) = "edit" /\ name'[Node(q)] # name[Node(q)] => stale'[q]
  BY DEF Done, Kind, Node
<1>4. TypeOK'
  <2>1. raced' \in [Admins -> BOOLEAN] /\ stale' \in [Admins -> BOOLEAN]
    BY <1>1 DEF Done, TypeOK
  <2>2. answer' \in [Admins -> {"none", "success", "notfound", "refused"}] /\ wire' \subseteq Admins
    BY <1>1 DEF TypeOK
  <2>3. QED
    BY <1>1, <2>1, <2>2 DEF TypeOK
<1>5. /\ pc[r] \in {"sent", "done"} /\ StageOf(r) /\ FormOf(r)
  BY <1>1, Sent
<1>6. StageOf(r)' /\ FormOf(r)' /\ NameOf(r)' /\ ListOf(r)' /\ PlaceOf(r)'
  <2>1. StageOf(r)'
    BY <1>1, <1>2, <1>5 DEF StageOf, Kind, Node
  <2>2. FormOf(r)' /\ ListOf(r)'
    BY <1>1, <1>2, <1>5 DEF FormOf, ListOf, Kind, Node
  <2>3. ~Filling(r)'
    BY <1>1, <1>2, <1>5 DEF Filling
  <2>4. NameOf(r)' /\ PlaceOf(r)'
    BY <1>1, <1>5, <2>3 DEF NameOf, PlaceOf
  <2>5. QED
    BY <2>1, <2>2, <2>4
<1>7. ASSUME NEW q \in Admins \ {r}
      PROVE  /\ StageOf(q)' /\ FormOf(q)' /\ NameOf(q)'
             /\ Undisturbed(q)' => ListOf(q)' /\ PlaceOf(q)'
  <2>1. StageOf(q) /\ FormOf(q) /\ NameOf(q)
    BY DEF AdminInv, RequestInv
  <2>2. StageOf(q)' /\ FormOf(q)'
    BY <1>1, <1>2, <1>7, <2>1 DEF StageOf, FormOf, Kind, Node
  <2>3. Filling(q)' <=> Filling(q)
    BY <1>1, <1>2, <1>7 DEF Filling, Kind
  <2>4. NameOf(q)'
    <3> SUFFICES ASSUME Filling(q), "name" \notin touched[q], ~stale'[q]
                 PROVE  form[q].name = name'[Node(q)]
      BY <1>1, <2>3 DEF NameOf, Node
    <3>1. Kind(q) = "edit"
      BY DEF Filling
    <3>2. ~stale[q] /\ name'[Node(q)] = name[Node(q)]
      BY <1>3, <1>7, <3>1
    <3>3. QED
      BY <2>1, <3>2 DEF NameOf
  <2>5. ASSUME Undisturbed(q)'
        PROVE  ListOf(q)' /\ PlaceOf(q)'
    <3>1. pc'[q] \in {"new", "done"} /\ q \notin wire'
      BY <1>1, <1>3, <1>7, <2>5 DEF Undisturbed
    <3>2. QED
      BY <3>1 DEF ListOf, PlaceOf, Filling
  <2>6. QED
    BY <2>2, <2>4, <2>5
<1>8. RequestInv'
  BY <1>6, <1>7 DEF RequestInv
<1>9. InvalidOnlyByBadList'
  BY <1>1, <1>3 DEF AdminInv, InvalidOnlyByBadList
<1>10. QED
  BY <1>4, <1>8, <1>9 DEF AdminInv

\* The fields of a form are stored.
LEMMA UpdateStep ==
  ASSUME AdminInv, NEW r \in Admins, NEW p \in Places, Updated(r, p),
         p # Node(r), Node(r) \in Items => p \in Cats, Node(r) \in Units => p = Nowhere
  PROVE  AdminInv'
<1> DEFINE n == Node(r)
<1>1. TypeOK /\ PlaceInv /\ Done(r)
  BY DEF AdminInv, Updated
<1>2. /\ n \in live /\ n \in Nodes /\ p \in live \cup {Nowhere} /\ UNCHANGED <<live, created>>
      /\ place' = [place EXCEPT ![n] = p] /\ name' = [name EXCEPT ![n] = form[r].name]
  BY <1>1 DEF Updated, Node, TypeOK
<1>3. /\ place' \in [Nodes -> Places] /\ name' \in [Nodes -> Names]
      /\ place'[n] = p /\ \A m \in Nodes \ {n} : place'[m] = place[m]
  BY <1>1, <1>2 DEF TypeOK
<1>4. /\ live' \subseteq Nodes /\ Uncat \in live' /\ created' \subseteq New
      /\ \A i \in Items \cap live' : place'[i] \in Cats
  BY <1>1, <1>2, <1>3, NodeSets DEF TypeOK
<1> HIDE DEF n
<1>5. PlaceInv'
  <2>1. Listed' = Listed /\ (p \in Listed \/ p = Nowhere)
    BY <1>2 DEF Listed, Places
  <2>2. \A m \in live : place'[m] \in (Listed \ {m}) \cup {Nowhere}
    BY <1>1, <1>2, <1>3, <2>1 DEF PlaceInv, TypeOK, n
  <2>3. \A u \in Units : place'[u] = Nowhere
    BY <1>1, <1>3, NodeSets DEF PlaceInv, n
  <2>4. QED
    BY <1>1, <1>2, <2>1, <2>2, <2>3 DEF PlaceInv
<1>6. QED
  BY <1>1, <1>3, <1>4, <1>5, CommandStep

\* A new object gets a new id.
LEMMA StoreStep ==
  ASSUME AdminInv, NEW r \in Admins, NEW ids \in {Cats, Items, Units}, NEW p \in Places,
         Stored(r, ids, p), ids = Items => p \in Cats, ids = Units => p = Nowhere
  PROVE  AdminInv'
<1>1. TypeOK /\ PlaceInv /\ Done(r) /\ p \in live \cup {Nowhere}
  BY DEF AdminInv, Stored
<1>2. PICK n \in (New \cap ids) \ created :
        /\ live' = live \cup {n} /\ created' = created \cup {n}
        /\ place' = [place EXCEPT ![n] = p] /\ name' = [name EXCEPT ![n] = form[r].name]
  BY DEF Stored
<1>3. n \in Nodes /\ n \notin live
  BY <1>1, NodeSets DEF PlaceInv
<1>4. /\ place' \in [Nodes -> Places] /\ name' \in [Nodes -> Names]
      /\ place'[n] = p /\ \A m \in Nodes \ {n} : place'[m] = place[m]
  BY <1>1, <1>2, <1>3 DEF TypeOK
<1>5. n \in Items => p \in Cats
  BY <1>2, NodeSets
<1>6. n \in Units => p = Nowhere
  BY <1>2, NodeSets
<1>7. /\ live' \subseteq Nodes /\ Uncat \in live' /\ created' \subseteq New
      /\ \A i \in Items \cap live' : place'[i] \in Cats
  BY <1>1, <1>2, <1>3, <1>4, <1>5, NodeSets DEF TypeOK
<1>8. PlaceInv'
  <2>1. Listed \subseteq Listed' /\ (p \in Listed' \/ p = Nowhere) /\ p # n
    BY <1>1, <1>2, <1>3, NodeSets DEF Listed, Places
  <2>2. \A m \in live' : place'[m] \in (Listed' \ {m}) \cup {Nowhere}
    BY <1>1, <1>2, <1>3, <1>4, <2>1 DEF PlaceInv, TypeOK
  <2>3. \A u \in Units : place'[u] = Nowhere
    BY <1>1, <1>4, <1>6, NodeSets DEF PlaceInv
  <2>4. live' \cap New \subseteq created'
    BY <1>1, <1>2 DEF PlaceInv
  <2>5. QED
    BY <2>2, <2>3, <2>4 DEF PlaceInv
<1>9. QED
  BY <1>1, <1>4, <1>7, <1>8, CommandStep

\* What is deleted had nothing in it, or its contents went somewhere that stays.
LEMMA GoneStep ==
  ASSUME AdminInv, NEW r \in Admins, NEW kind, NEW ids, Gone(r, kind, ids),
         place' \in [Nodes -> Places],
         \A m \in live \ {Node(r)} : place'[m] \in (Listed \ {m, Node(r)}) \cup {Nowhere},
         \A i \in Items \cap live : place'[i] \in Cats \/ i = Node(r),
         \A u \in Units : place'[u] = Nowhere
  PROVE  AdminInv'
<1>1. /\ TypeOK /\ PlaceInv /\ Done(r) /\ r \in wire /\ live' = live \ {Node(r)}
      /\ UNCHANGED <<created, name>>
  BY DEF AdminInv, Gone, Done, Node
<1>2. Node(r) # Uncat
  BY <1>1, Sent
<1>3. /\ live' \subseteq Nodes /\ Uncat \in live' /\ created' \subseteq New
      /\ name' \in [Nodes -> Names] /\ \A i \in Items \cap live' : place'[i] \in Cats
  BY <1>1, <1>2 DEF TypeOK
<1>4. Listed' = Listed \ {Node(r)}
  BY <1>1 DEF Listed
<1>5. PlaceInv'
  BY <1>1, <1>4 DEF PlaceInv
<1>6. QED
  BY <1>1, <1>3, <1>5, CommandStep

LEMMA EmptiedStep ==
  ASSUME AdminInv, NEW r \in Admins, NEW kind, Gone(r, kind, Cats),
         NEW p \in Listed \ {Node(r)}, MoveContents(Node(r), p)
  PROVE  AdminInv'
<1> DEFINE n == Node(r)
<1>1. /\ TypeOK /\ PlaceInv /\ n \in live \cap Cats /\ p \in live \cap Cats /\ p # n
      /\ Cats \subseteq Places /\ Nowhere \in Places
  BY DEF AdminInv, Gone, Node, Listed, Places
<1>2. place' = [m \in Nodes |->
                 IF m \notin live \/ place[m] # n THEN place[m]
                 ELSE IF m # p THEN p
                 ELSE IF place[n] = p THEN Nowhere ELSE place[n]]
  BY DEF MoveContents
<1> HIDE DEF n
<1>3. place' \in [Nodes -> Places]
  BY <1>1, <1>2, NodeSets DEF TypeOK
<1>4. ASSUME NEW m \in live \ {n}
      PROVE  place'[m] \in (Listed \ {m, n}) \cup {Nowhere}
  <2>1. /\ m \in Nodes /\ place[m] \in (Listed \ {m}) \cup {Nowhere}
        /\ place[n] \in (Listed \ {n}) \cup {Nowhere}
    BY <1>1 DEF TypeOK, PlaceInv
  <2>2. CASE place[m] # n
    BY <1>2, <2>1, <2>2
  <2>3. CASE place[m] = n /\ m # p
    BY <1>1, <1>2, <2>1, <2>3 DEF Listed
  <2>4. CASE place[m] = n /\ m = p
    BY <1>2, <2>1, <2>4
  <2>5. QED
    BY <2>2, <2>3, <2>4
<1>5. \A i \in Items \cap live : place'[i] \in Cats
  BY <1>1, <1>2, NodeSets DEF TypeOK
<1>6. \A u \in Units : place'[u] = Nowhere
  BY <1>1, <1>2, NodeSets DEF PlaceInv
<1>7. QED
  BY <1>3, <1>4, <1>5, <1>6, GoneStep DEF n

LEMMA KeptStep ==
  ASSUME AdminInv, NEW r \in Admins, NEW kind, NEW ids \in {Items, Units}, Gone(r, kind, ids),
         UNCHANGED place
  PROVE  AdminInv'
<1>1. TypeOK /\ PlaceInv /\ Node(r) \notin Listed
  BY NodeSets DEF AdminInv, Gone, Node, Listed
<1>2. \A m \in live \ {Node(r)} : place'[m] \in (Listed \ {m, Node(r)}) \cup {Nowhere}
  BY <1>1 DEF PlaceInv
<1>3. \A i \in Items \cap live : place'[i] \in Cats
  BY <1>1 DEF TypeOK
<1>4. \A u \in Units : place'[u] = Nowhere
  BY <1>1 DEF PlaceInv
<1>5. place' \in [Nodes -> Places]
  BY <1>1 DEF TypeOK
<1>6. QED
  BY <1>2, <1>3, <1>4, <1>5, GoneStep

\* A command that is refused or lost changes nothing.
LEMMA NoCommandStep ==
  ASSUME AdminInv, NEW r \in wire, UNCHANGED <<catalog, raced, stale, pc, view>>,
         wire' = wire \ {r},
         NEW a \in {"none", "notfound", "refused"}, answer' = [answer EXCEPT ![r] = a]
  PROVE  AdminInv'
<1>1. /\ TypeOK /\ r \in Admins /\ pc[r] \in {"sent", "done"} /\ StageOf(r)
      /\ InvalidOnlyByBadList
  BY Sent DEF AdminInv
<1>2. UNCHANGED <<live, created, place, name, raced, stale, pc, job, rows, page, form, touched,
                  outcome, failed>>
  BY DEF catalog, view
<1>3. TypeOK'
  BY <1>1, <1>2 DEF TypeOK
<1>4. \A q \in Admins \ {r} : answer'[q] = answer[q] /\ (q \in wire' <=> q \in wire)
  BY <1>1 DEF TypeOK
<1>5. StageOf(r)'
  BY <1>1, <1>2 DEF StageOf, Kind, Node
<1>6. FormOf(r)' /\ ListOf(r)'
  BY <1>1, <1>2 DEF FormOf, ListOf, Kind
<1>7. ~Filling(r)'
  BY <1>1, <1>2 DEF Filling
<1>8. NameOf(r)' /\ PlaceOf(r)'
  BY <1>1, <1>2, <1>7 DEF NameOf, PlaceOf
<1>9. outcome'[r] = "invalid" => raced[r] \/ failed'[r]
  BY <1>1, <1>2 DEF InvalidOnlyByBadList
<1>10. QED
  BY <1>1, <1>2, <1>3, <1>4, <1>5, <1>6, <1>8, <1>9, ViewStep

LEMMA ServerStep == ASSUME AdminInv, NEW r \in Admins, Server(r) PROVE AdminInv'
<1>1. /\ TypeOK /\ PlaceInv /\ form[r].place \in Places /\ Nowhere \in Places
      /\ (form[r].place \in Cats \/ form[r].place = Nowhere)
  BY DEF AdminInv, TypeOK, Places
<1>2. Category(r) \in Cats /\ Category(r) \in Places
  BY <1>1, NodeSets DEF Category, Places
<1>3. CASE UpdateCategory(r)
  <2>1. Updated(r, form[r].place) /\ Node(r) \in Cats /\ Kind(r) = "edit" /\ r \in wire
    BY <1>3 DEF UpdateCategory, Updated, Done, Node, Kind
  <2>2. form[r].place # Node(r)
    BY <2>1, Sent DEF FormOf
  <2>3. QED
    BY <1>1, <2>1, <2>2, NodeSets, UpdateStep
<1>4. CASE UpdateItem(r)
  <2>1. Updated(r, Category(r)) /\ Node(r) \in Items
    BY <1>4 DEF UpdateItem, Node
  <2>2. QED
    BY <1>2, <2>1, NodeSets, UpdateStep
<1>5. CASE UpdateUnit(r)
  <2>1. Updated(r, Nowhere) /\ Node(r) \in Units
    BY <1>5 DEF UpdateUnit, Node
  <2>2. QED
    BY <1>1, <2>1, NodeSets, UpdateStep
<1>6. CASE CreateCategory(r)
  <2>1. Stored(r, Cats, form[r].place) /\ Cats # Items /\ Cats # Units
    BY <1>6, NodeSets DEF CreateCategory
  <2>2. QED
    BY <1>1, <2>1, StoreStep
<1>7. CASE CreateItem(r)
  <2>1. Stored(r, Items, Category(r))
    BY <1>7 DEF CreateItem
  <2>2. CASE Items = Units
    <3>1. FALSE
      BY <1>7, <2>2, NodeSets DEF CreateItem, Stored
    <3>2. QED
      BY <3>1
  <2>3. CASE Items # Units
    BY <1>2, <2>1, <2>3, StoreStep
  <2>4. QED
    BY <2>2, <2>3
<1>8. CASE CreateUnit(r)
  <2>1. Stored(r, Units, Nowhere)
    BY <1>8 DEF CreateUnit
  <2>2. CASE Items = Units
    <3>1. FALSE
      BY <1>8, <2>2, NodeSets DEF CreateUnit, Stored
    <3>2. QED
      BY <3>1
  <2>3. CASE Items # Units
    BY <1>1, <2>1, <2>3, StoreStep
  <2>4. QED
    BY <2>2, <2>3
<1>9. CASE SplitItem(r)
  <2>1. Stored(r, Items, form[r].place) /\ Kind(r) = "split" /\ r \in wire
    BY <1>9 DEF SplitItem, Stored, Done, Kind
  <2>2. form[r].place \in Cats
    BY <2>1, Sent DEF FormOf
  <2>3. CASE Items = Units
    <3>1. FALSE
      BY <2>1, <2>3, NodeSets DEF Stored
    <3>2. QED
      BY <3>1
  <2>4. CASE Items # Units
    BY <1>1, <2>1, <2>2, <2>4, StoreStep
  <2>5. QED
    BY <2>3, <2>4
<1>10. CASE DeleteCategory(r)
  <2> DEFINE n == Node(r)
             p == IF place[n] \in live THEN place[n] ELSE Uncat
  <2>1. Gone(r, "delete", Cats) /\ MoveContents(n, p) /\ n \in live /\ r \in wire
    BY <1>10 DEF DeleteCategory, Gone, Done, Node
  <2>2. n # Uncat
    BY <2>1, Sent
  <2>3. place[n] \in (Listed \ {n}) \cup {Nowhere} /\ Nowhere \notin live /\ Uncat \in Listed
    BY <1>1, <2>1, NodeSets DEF PlaceInv, TypeOK, Listed
  <2> HIDE DEF n
  <2>4. p \in Listed \ {n}
    BY <2>2, <2>3
  <2> HIDE DEF p
  <2>5. QED
    BY <2>1, <2>4, EmptiedStep DEF n
<1>11. CASE DeleteItem(r)
  BY <1>11, KeptStep DEF DeleteItem
<1>12. CASE DeleteUnit(r)
  BY <1>12, KeptStep DEF DeleteUnit
<1>13. CASE MergeItems(r)
  BY <1>13, KeptStep DEF MergeItems, MergeInto
<1>14. CASE MergeCategories(r)
  <2>1. /\ Gone(r, "merge", Cats) /\ MoveContents(Node(r), job[r].target)
        /\ job[r].target \in live \ {Node(r)} /\ Kind(r) = "merge" /\ Node(r) \in Cats
        /\ r \in wire
    BY <1>14 DEF MergeCategories, MergeInto, Gone, Done, Node, Kind
  <2>2. job[r].target \in Cats
    BY <2>1, Sent DEF StageOf
  <2>3. job[r].target \in Listed \ {Node(r)}
    BY <2>1, <2>2 DEF Listed
  <2>4. QED
    BY <2>1, <2>3, EmptiedStep
<1>15. CASE Refuse(r)
  <2>1. /\ r \in wire /\ wire' = wire \ {r} /\ UNCHANGED <<catalog, raced, stale, pc, view>>
        /\ \E a \in {"notfound", "refused"} : answer' = [answer EXCEPT ![r] = a]
    BY <1>15 DEF Refuse
  <2>2. QED
    BY <2>1, NoCommandStep
<1>16. CASE LoseCall(r)
  <2>1. /\ r \in wire /\ wire' = wire \ {r} /\ UNCHANGED <<catalog, raced, stale, pc, view>>
        /\ answer' = answer
    BY <1>16 DEF LoseCall
  <2>2. answer' = [answer EXCEPT ![r] = "none"]
    BY <1>1, <2>1, Sent DEF TypeOK
  <2>3. QED
    BY <2>1, <2>2, NoCommandStep
<1>17. QED
  BY <1>3, <1>4, <1>5, <1>6, <1>7, <1>8, <1>9, <1>10, <1>11, <1>12, <1>13, <1>14, <1>15, <1>16
  DEF Server

LEMMA AdminStays == AdminInv /\ UNCHANGED adminVars => AdminInv'
<1> SUFFICES ASSUME AdminInv, UNCHANGED adminVars
             PROVE  AdminInv'
  OBVIOUS
<1> USE DEF adminVars, server, catalog, view
<1>1. TypeOK' /\ PlaceInv' /\ InvalidOnlyByBadList'
  BY DEF AdminInv, TypeOK, PlaceInv, Listed, InvalidOnlyByBadList
<1>2. ASSUME NEW r \in Admins
      PROVE  /\ StageOf(r)' /\ FormOf(r)' /\ NameOf(r)'
             /\ Undisturbed(r)' => ListOf(r)' /\ PlaceOf(r)'
  <2>1. StageOf(r)' /\ FormOf(r)' /\ NameOf(r)'
    BY <1>2 DEF AdminInv, RequestInv, StageOf, FormOf, NameOf, Filling, Kind, Node
  <2>2. Undisturbed(r)' => ListOf(r)' /\ PlaceOf(r)'
    BY <1>2 DEF AdminInv, RequestInv, Undisturbed, ListOf, PlaceOf, Filling, Choices, Listed,
                Kind, Node
  <2>3. QED
    BY <2>1, <2>2
<1>3. QED
  BY <1>1, <1>2 DEF AdminInv, RequestInv

LEMMA AdminAlwaysStep == AdminInv /\ [AdminNext]_adminVars => AdminInv'
BY RequestStep, ServerStep, AdminStays DEF AdminNext

-----------------------------------------------------------------------------
(* The page with the tree.                                                 *)

TreeInv == AdminInv /\ TreeTypeOK

LEMMA SnapshotType ==
  ASSUME TypeOK, NEW S \in SUBSET (Cats \cup Items)
  PROVE  Snapshot(S) \in SUBSET Rows
BY NodeSets DEF TypeOK, Snapshot, Rows

LEMMA TreeInitial == TreeInit => TreeInv
<1> SUFFICES ASSUME TreeInit
             PROVE  TreeInv
  OBVIOUS
<1>1. AdminInv
  BY AdminInitial DEF TreeInit
<1>2. 1 \in 1 .. Cardinality(Items) + 1
  BY NodeSets, FS_CardinalityType
<1>3. TreeTypeOK
  BY <1>1, <1>2 DEF TreeInit, TreeTypeOK, AdminInv, Places
<1>4. QED
  BY <1>1, <1>3 DEF TreeInv

LEMMA TreeStep == TreeInv /\ [TreeNext]_pageVars => TreeInv'
<1> SUFFICES ASSUME TreeInv, [TreeNext]_pageVars
             PROVE  TreeInv'
  OBVIOUS
<1>1. AdminInv /\ TreeTypeOK /\ TypeOK
  BY DEF TreeInv, AdminInv
<1>2. [AdminNext]_adminVars
  BY DEF TreeNext, AdminStep, PageStep, ReadCats, ReadItems, WalkStep, WalkEnds, OpenPage, pageVars
<1>3. AdminInv' /\ TypeOK'
  BY <1>1, <1>2, AdminAlwaysStep DEF AdminInv
<1>4. CASE AdminStep
  BY <1>1, <1>3, <1>4 DEF AdminStep, TreeInv, TreeTypeOK
<1>5. CASE \E n \in Cats \cup Items \cup {Nowhere} : OpenPage(n)
  BY <1>1, <1>3, <1>5 DEF OpenPage, TreeInv, TreeTypeOK
<1>6. CASE ReadCats
  <2>1. Snapshot(FirstCats) \in SUBSET Rows
    BY <1>1, SnapshotType DEF FirstCats, PageOfSet
  <2>2. QED
    BY <1>1, <1>3, <1>6, <2>1 DEF ReadCats, TreeInv, TreeTypeOK
<1>7. CASE ReadItems
  <2> DEFINE last == LastPage(live \cap Items, treePage, BrowseSize)
             I == treeItems \cup BrowsePage
  <2>1. BrowsePage \in SUBSET Rows
    <3>1. PageOfSet(live \cap Items, treePage, BrowseSize) \in SUBSET (Cats \cup Items)
      BY DEF PageOfSet
    <3>2. QED
      BY <1>1, <3>1, SnapshotType DEF BrowsePage
  <2>2. ASSUME NEW J \in SUBSET Rows
        PROVE  Start(J) \in Places
    <3>1. CASE selected \in Items /\ \E x \in J : x.id = selected
      <4>1. (CHOOSE x \in J : x.id = selected) \in Rows
        BY <3>1
      <4>2. QED
        BY <3>1, <4>1 DEF Start, Rows
    <3>2. CASE selected \in Items /\ ~\E x \in J : x.id = selected
      BY <3>2 DEF Start, Places
    <3>3. CASE selected \notin Items
      BY <1>1, <3>3 DEF Start, Places, TreeTypeOK
    <3>4. QED
      BY <3>1, <3>2, <3>3
  <2>3. I \in SUBSET Rows /\ {} \in SUBSET Rows
    BY <1>1, <2>1 DEF TreeTypeOK
  <2>4. ~last => treePage + 1 \in 1 .. Cardinality(Items) + 1
    <3>1. treePage \in Nat \ {0} /\ BrowseSize \in Nat \ {0} /\ IsFiniteSet(Items)
      BY <1>1, NodeSets, CatalogTreeAssumption DEF TreeTypeOK
    <3>2. QED
      BY <3>1, NextPageExists
  <2>5. Start(I) \in Places /\ Start({}) \in Places
    BY <2>2, <2>3
  <2> HIDE DEF last, I
  <2>6. \/ /\ treeItems' = I /\ badList' = badList
           /\ \/ last /\ stage' = "walk" /\ at' = Start(I) /\ treePage' = treePage
              \/ ~last /\ treePage' = treePage + 1 /\ stage' = stage /\ at' = at
        \/ /\ treeItems' = {} /\ badList' = badList \cup {"items"} /\ stage' = "walk"
           /\ at' = Start({}) /\ treePage' = treePage
    BY <1>7 DEF ReadItems, Walk, last, I
  <2>7. treeItems' \subseteq Rows /\ badList' \subseteq {"cats", "items"} /\ at' \in Places
    BY <1>1, <2>3, <2>5, <2>6 DEF TreeTypeOK
  <2>8. stage' \in {"new", "cats", "items", "walk", "done"}
    BY <1>1, <2>6 DEF TreeTypeOK
  <2>9. treePage' \in 1 .. Cardinality(Items) + 1
    BY <1>1, <2>4, <2>6 DEF TreeTypeOK
  <2>10. UNCHANGED <<selected, treeCats, expanded, treeRaced>>
    BY <1>7 DEF ReadItems
  <2>11. QED
    BY <1>1, <1>3, <2>7, <2>8, <2>9, <2>10 DEF TreeInv, TreeTypeOK
<1>8. CASE WalkStep
  <2>1. at \in Cats
    BY <1>1, <1>8 DEF WalkStep, TreeTypeOK, Places
  <2>2. at' \in Places
    BY <1>1, <1>8 DEF WalkStep, TreeTypeOK, Places, Rows
  <2>3. QED
    BY <1>1, <1>3, <1>8, <2>1, <2>2 DEF WalkStep, TreeInv, TreeTypeOK
<1>9. CASE WalkEnds
  BY <1>1, <1>3, <1>9 DEF WalkEnds, TreeInv, TreeTypeOK
<1>10. CASE UNCHANGED pageVars
  BY <1>1, <1>3, <1>10 DEF pageVars, treeVars, TreeInv, TreeTypeOK
<1>11. QED
  BY <1>4, <1>5, <1>6, <1>7, <1>8, <1>9, <1>10 DEF TreeNext, PageStep

-----------------------------------------------------------------------------
(* The theorems. *)

\* Every reachable state of any number of requests and one page view satisfies the invariant.
THEOREM Invariant == TreeSpec => []TreeInv
BY TreeInitial, TreeStep, PTL DEF TreeSpec

\* Cards have a category, lists are asked for no page they cannot have, and the walk of the
\* tree stays among the categories: the types are kept by every step.
THEOREM TypeCorrect == TreeSpec => []TreeTypeOK
<1>1. TreeInv => TreeTypeOK
  BY DEF TreeInv
<1>2. QED
  BY <1>1, Invariant, PTL

\* What a form has offered is valid when it comes back, however many pages its list has.
THEOREM InvalidNeedsBadList == TreeSpec => []InvalidOnlyByBadList
<1>1. TreeInv => InvalidOnlyByBadList
  BY DEF TreeInv, AdminInv
<1>2. QED
  BY <1>1, Invariant, PTL

\* A command is answered as carried out only when it is.
LEMMA CarriedOut ==
  ASSUME AdminInv, AdminNext, NEW r \in Admins,
         Kind(r) = "edit", answer[r] = "none", answer'[r] = "success"
  PROVE  r \in wire /\ (UpdateCategory(r) \/ UpdateItem(r) \/ UpdateUnit(r))
<1>1. TypeOK
  BY DEF AdminInv
<1>2. PICK q \in Admins : User(q) \/ Handler(q) \/ Server(q)
  BY DEF AdminNext
<1>3. CASE User(q) \/ Handler(q)
  <2>1. UNCHANGED answer
    BY <1>3
    DEF User, Handler, Open, Sends, Fill, Confirm, ListPage, ListFails, GetToEdit, GetToSplit,
        GetToDelete, Gets, GetFails, Recheck, Check, UnitsFail, Receive, TimesOut, End, server
  <2>2. QED
    BY <2>1
<1>4. CASE Refuse(q) \/ LoseCall(q)
  <2>1. answer'[r] \in {answer[r], "notfound", "refused"}
    BY <1>1, <1>4 DEF Refuse, LoseCall, TypeOK
  <2>2. QED
    BY <2>1
<1>5. CASE Done(q)
  <2>1. q = r
    BY <1>1, <1>5 DEF Done, TypeOK
  <2>2. q \in wire
    BY <1>5 DEF Done
  <2>3. Server(r)
    <3>1. answer' # answer
      OBVIOUS
    <3>2. ~(User(q) \/ Handler(q))
      BY <3>1
      DEF User, Handler, Open, Sends, Fill, Confirm, ListPage, ListFails, GetToEdit, GetToSplit,
          GetToDelete, Gets, GetFails, Recheck, Check, UnitsFail, Receive, TimesOut, End, server
    <3>3. QED
      BY <1>2, <2>1, <3>2
  <2>4. answer'[r] # "notfound" /\ answer'[r] # "refused" /\ answer' # answer
    OBVIOUS
  <2>5. ~Refuse(r) /\ ~LoseCall(r)
    BY <1>1, <2>4 DEF Refuse, LoseCall, TypeOK
  <2>6. QED
    BY <2>1, <2>2, <2>3, <2>5
    DEF Server, CreateCategory, CreateItem, CreateUnit, Creates, SplitItem, DeleteCategory,
        DeleteItem, DeleteUnit, MergeItems, MergeCategories, MergeInto, Gone, Kind
<1>6. QED
  BY <1>2, <1>3, <1>4, <1>5
  DEF Server, UpdateCategory, UpdateItem, UpdateUnit, Updated, CreateCategory, CreateItem,
      CreateUnit, Stored, SplitItem, DeleteCategory, DeleteItem, DeleteUnit, MergeItems,
      MergeCategories, MergeInto, Gone

LEMMA FieldSurvives ==
  ASSUME AdminInv, AdminNext, NEW r \in Admins,
         Kind(r) = "edit", answer[r] = "none", answer'[r] = "success"
  PROVE  /\ name'[Node(r)] = name[Node(r)] \/ "name" \in touched[r] \/ stale[r]
         /\ \/ place'[Node(r)] = place[Node(r)] \/ "place" \in touched[r]
            \/ raced[r] \/ failed[r] \/ Hidden(Node(r))
<1> DEFINE n == Node(r)
<1>1. /\ TypeOK /\ PlaceInv /\ r \in wire /\ n \in Nodes \ {Uncat} /\ NameOf(r)
      /\ (Undisturbed(r) => PlaceOf(r)) /\ Filling(r)
      /\ UpdateCategory(r) \/ UpdateItem(r) \/ UpdateUnit(r)
  BY CarriedOut, Sent DEF AdminInv, Filling
<1>2. \E p : Updated(r, p)
  BY <1>1 DEF UpdateCategory, UpdateItem, UpdateUnit
<1>3. n \in live /\ name' = [name EXCEPT ![n] = form[r].name] /\ name'[n] = form[r].name
  BY <1>1, <1>2 DEF Updated, Node, TypeOK
<1>4. name'[n] = name[n] \/ "name" \in touched[r] \/ stale[r]
  BY <1>1, <1>3 DEF NameOf
<1>5. ASSUME "place" \notin touched[r], ~raced[r], ~failed[r], ~Hidden(n)
      PROVE  place'[n] = place[n]
  <2>1. form[r].place = IF HasPlace(n) /\ place[n] \in Choices \ {n} THEN place[n] ELSE Nowhere
    BY <1>1, <1>5 DEF Undisturbed, PlaceOf
  <2>2. place[n] \in (Listed \ {n}) \cup {Nowhere}
    BY <1>1, <1>3 DEF PlaceInv
  <2>3. CASE UpdateCategory(r)
    <3>1. n \in Cats /\ place'[n] = form[r].place
      BY <1>1, <2>3 DEF UpdateCategory, Updated, Node, TypeOK
    <3>2. place[n] # Uncat
      BY <1>5, <3>1 DEF Hidden
    <3>3. QED
      BY <2>1, <2>2, <3>1, <3>2 DEF Choices, HasPlace
  <2>4. CASE UpdateItem(r)
    <3>1. n \in Items /\ place'[n] = Category(r)
      BY <1>1, <2>4 DEF UpdateItem, Updated, Node, TypeOK
    <3>2. place[n] \in Cats /\ place[n] # Nowhere
      <4>1. place[n] \in Cats
        BY <1>1, <1>3, <3>1 DEF TypeOK
      <4>2. QED
        BY <4>1, NodeSets
    <3>3. QED
      BY <2>1, <2>2, <3>1, <3>2, NodeSets DEF Choices, HasPlace, Category
  <2>5. CASE UpdateUnit(r)
    <3>1. n \in Units /\ place'[n] = Nowhere
      BY <1>1, <2>5 DEF UpdateUnit, Updated, Node, TypeOK
    <3>2. QED
      BY <1>1, <3>1 DEF PlaceInv
  <2>6. QED
    BY <1>1, <2>3, <2>4, <2>5
<1>6. QED
  BY <1>4, <1>5

\* Saving a form gives back what its user left alone: the name unless somebody else changed
\* it, the place unless somebody else was at work, the list of the choices could not be
\* read, or the category lies in the one that no form offers.
THEOREM UntouchedFieldsSurvive == TreeSpec => UntouchedFieldSurvives
<1> DEFINE Kept == \A r \in Admins :
      LET n == job[r].node
      IN  job[r].kind = "edit" /\ answer[r] = "none" /\ answer'[r] = "success" =>
            /\ name'[n] = name[n] \/ "name" \in touched[r] \/ stale[r]
            /\ \/ place'[n] = place[n] \/ "place" \in touched[r]
               \/ raced[r] \/ failed[r] \/ Hidden(n)
<1>1. TreeInv /\ [TreeNext]_pageVars => [Kept]_adminVars
  <2> SUFFICES ASSUME TreeInv, [TreeNext]_pageVars, adminVars' # adminVars
               PROVE  Kept
    OBVIOUS
  <2>1. AdminNext
    BY DEF TreeNext, AdminStep, PageStep, ReadCats, ReadItems, WalkStep, WalkEnds, OpenPage,
           pageVars
  <2>2. AdminInv
    BY DEF TreeInv
  <2>3. QED
    BY <2>1, <2>2, FieldSurvives DEF Kind, Node
<1>2. QED
  BY <1>1, Invariant, PTL DEF TreeSpec, UntouchedFieldSurvives

-----------------------------------------------------------------------------
(* The tree.  Level is a recursive function: that there is one, and what   *)
(* it is, is shown by the least number for which it would fail.            *)

LEMMA LeastElement ==
  ASSUME NEW T \in SUBSET Nat, T # {}
  PROVE  \E n \in T : \A m \in T : n <= m
<1>1. PICK n \in T : \A m \in T : <<m, n>> \notin OpToRel(<, Nat)
  BY NatLessThanWellFounded, WFMin
<1>2. \A m \in T : ~(m < n)
  BY <1>1 DEF OpToRel
<1>3. QED
  BY <1>2

\* The roots, and what lies in a category of L.
Roots(R) == {x.id : x \in {y \in R : Under(y, R) = Nowhere}}
In(R, L) == {x.id : x \in {y \in R : Under(y, R) \in L}}

\* The levels from 0 to n.
Levels(R, n) ==
  {f \in [0 .. n -> SUBSET Ids(R)] :
     f[0] = Roots(R) /\ \A k \in 1 .. n : f[k] = In(R, f[k - 1])}

LEMMA LevelsExist ==
  ASSUME NEW R, NEW n \in Nat
  PROVE  Levels(R, n) # {}
<1> DEFINE T == {k \in Nat : Levels(R, k) = {}}
<1>1. Roots(R) \in SUBSET Ids(R) /\ \A L : In(R, L) \in SUBSET Ids(R)
  BY DEF Roots, In, Ids
<1>2. T = {}
  <2> SUFFICES ASSUME T # {}
               PROVE  FALSE
    OBVIOUS
  <2>1. PICK m \in T : \A k \in T : m <= k
    BY LeastElement
  <2>2. CASE m = 0
    <3> DEFINE f == [k \in 0 .. 0 |-> Roots(R)]
    <3>1. f \in Levels(R, 0)
      BY <1>1 DEF Levels
    <3>2. QED
      BY <2>1, <2>2, <3>1
  <2>3. CASE m # 0
    <3>1. m - 1 \in Nat /\ m - 1 \notin T
      BY <2>1, <2>3
    <3>2. PICK g : g \in Levels(R, m - 1)
      BY <3>1
    <3> DEFINE f == [k \in 0 .. m |-> IF k = m THEN In(R, g[m - 1]) ELSE g[k]]
    <3>3. g \in [0 .. m - 1 -> SUBSET Ids(R)]
      BY <3>2 DEF Levels
    <3>4. \A k \in 0 .. m : k # m => k \in 0 .. m - 1
      BY <2>1
    <3>5. f \in [0 .. m -> SUBSET Ids(R)]
      BY <1>1, <3>3, <3>4
    <3>6. f[0] = Roots(R)
      BY <2>1, <2>3, <3>2 DEF Levels
    <3>7. ASSUME NEW k \in 1 .. m
          PROVE  f[k] = In(R, f[k - 1])
      <4>1. f[k - 1] = g[k - 1]
        BY <2>1
      <4>2. CASE k = m
        BY <4>1, <4>2, <2>1, <2>3
      <4>3. CASE k # m
        <5>1. k \in 1 .. m - 1
          BY <2>1, <4>3
        <5>2. QED
          BY <3>2, <4>1, <4>3, <5>1 DEF Levels
      <4>4. QED
        BY <4>2, <4>3
    <3>8. f \in Levels(R, m)
      BY <3>5, <3>6, <3>7 DEF Levels
    <3>9. QED
      BY <2>1, <3>8
  <2>4. QED
    BY <2>2, <2>3
<1>3. QED
  BY <1>2

LEMMA LevelIsLevels ==
  ASSUME NEW R, IsFiniteSet(R)
  PROVE  Level(R) \in Levels(R, Cardinality(R))
<1> DEFINE N == Cardinality(R)
           Body(f) == [k \in 0 .. N |-> IF k = 0 THEN Roots(R) ELSE In(R, f[k - 1])]
<1>1. N \in Nat
  BY FS_CardinalityType
<1>2. Level(R) = CHOOSE f : f = Body(f)
  BY DEF Level, Roots, In
<1>3. PICK f : f \in Levels(R, N)
  BY <1>1, LevelsExist
<1>4. f = Body(f)
  <2>1. f = [k \in 0 .. N |-> f[k]]
    BY <1>3 DEF Levels
  <2>2. \A k \in 0 .. N : f[k] = IF k = 0 THEN Roots(R) ELSE In(R, f[k - 1])
    BY <1>1, <1>3 DEF Levels
  <2>3. QED
    BY <2>1, <2>2
<1>5. Level(R) = Body(Level(R))
  BY <1>2, <1>4
<1>6. /\ Level(R) = [k \in 0 .. N |-> Level(R)[k]]
      /\ \A k \in 0 .. N : Level(R)[k] = IF k = 0 THEN Roots(R) ELSE In(R, Level(R)[k - 1])
  BY <1>5
<1>7. Roots(R) \in SUBSET Ids(R) /\ \A L : In(R, L) \in SUBSET Ids(R)
  BY DEF Roots, In, Ids
<1> HIDE DEF Body
<1>8. \A k \in 0 .. N : Level(R)[k] \in SUBSET Ids(R)
  BY <1>6, <1>7
<1>9. Level(R) \in [0 .. N -> SUBSET Ids(R)]
  BY <1>6, <1>8
<1>10. Level(R)[0] = Roots(R)
  <2>1. 0 \in 0 .. N
    BY <1>1
  <2>2. QED
    BY <1>6, <2>1
<1>11. ASSUME NEW k \in 1 .. N
       PROVE  Level(R)[k] = In(R, Level(R)[k - 1])
  <2>1. k \in 0 .. N /\ k # 0
    BY <1>1
  <2>2. QED
    BY <1>6, <2>1
<1>12. QED
  BY <1>9, <1>10, <1>11 DEF Levels

-----------------------------------------------------------------------------
(* The tree of a list of categories S.                                     *)

LEMMA SnapshotRows ==
  ASSUME NEW S \in SUBSET Cats
  PROVE  /\ Ids(Snapshot(S)) = S
         /\ \A x \in Snapshot(S) : x.id \in S /\ x.at = place[x.id]
         /\ \A a, b : [id |-> a, at |-> b] \in Snapshot(S) <=> a \in S /\ b = place[a]
         /\ IsFiniteSet(S) /\ IsFiniteSet(Snapshot(S)) /\ Cardinality(Snapshot(S)) = Cardinality(S)
         /\ Nowhere \notin S
<1>1. IsFiniteSet(S) /\ Nowhere \notin S
  BY CatalogAdminAssumption, FS_Subset DEF Nodes
<1>2. \A n \in S : [id |-> n, at |-> place[n]] \in Snapshot(S)
  BY DEF Snapshot
<1>3. \A x \in Snapshot(S) : x.id \in S /\ x.at = place[x.id]
  BY DEF Snapshot
<1>4. Ids(Snapshot(S)) = S
  <2>1. \A n \in S : n \in Ids(Snapshot(S))
    <3> SUFFICES ASSUME NEW n \in S
                 PROVE  n \in Ids(Snapshot(S))
      OBVIOUS
    <3> DEFINE x == [id |-> n, at |-> place[n]]
    <3>1. x \in Snapshot(S) /\ x.id = n
      BY <1>2
    <3>2. QED
      BY <3>1 DEF Ids
  <2>2. QED
    BY <1>3, <2>1 DEF Ids
<1>5. ASSUME NEW a, NEW b
      PROVE  [id |-> a, at |-> b] \in Snapshot(S) <=> a \in S /\ b = place[a]
  <2> DEFINE x == [id |-> a, at |-> b]
  <2>1. x.id = a /\ x.at = b
    OBVIOUS
  <2>2. QED
    BY <1>2, <1>3, <2>1
<1>6. IsFiniteSet(Snapshot(S)) /\ Cardinality(Snapshot(S)) = Cardinality(S)
  <2> DEFINE f == [n \in S |-> [id |-> n, at |-> place[n]]]
  <2>1. f \in [S -> Snapshot(S)]
    BY <1>2
  <2>2. \A m, n \in S : f[m] = f[n] => m = n
    <3> SUFFICES ASSUME NEW m \in S, NEW n \in S, f[m] = f[n]
                 PROVE  m = n
      OBVIOUS
    <3>1. f[m].id = m /\ f[n].id = n
      OBVIOUS
    <3>2. QED
      BY <3>1
  <2>3. \A x \in Snapshot(S) : \E n \in S : f[n] = x
    BY DEF Snapshot
  <2>4. f \in Injection(S, Snapshot(S)) /\ f \in Surjection(S, Snapshot(S))
    BY <2>1, <2>2, <2>3, Fun_IsInj, Fun_IsSurj
  <2>5. QED
    BY <1>1, <2>4, FS_Surjection
<1>7. QED
  BY <1>1, <1>3, <1>4, <1>5, <1>6

Depth(S) == Cardinality(S)
Lvl(S, k) == Level(Snapshot(S))[k]
Shown(S) == UNION {Lvl(S, k) : k \in 0 .. Depth(S)}

\* What Level computes: level 0 has the categories whose parent is not listed, and the next
\* one those whose parent is on the one before.
LEMMA LevelRule ==
  ASSUME NEW S \in SUBSET Cats
  PROVE  /\ Depth(S) \in Nat
         /\ \A k \in 0 .. Depth(S) : Lvl(S, k) \in SUBSET S
         /\ \A n \in S : n \in Lvl(S, 0) <=> place[n] \notin S
         /\ \A k \in 1 .. Depth(S) : \A n \in S : n \in Lvl(S, k) <=> place[n] \in Lvl(S, k - 1)
         /\ ShownCats(Snapshot(S)) = Shown(S)
<1> DEFINE R == Snapshot(S)
<1>1. /\ Ids(R) = S /\ IsFiniteSet(R) /\ Cardinality(R) = Cardinality(S) /\ Cardinality(S) \in Nat
      /\ Nowhere \notin S
      /\ \A x \in R : x.id \in S /\ x.at = place[x.id]
      /\ \A n \in S : \E x \in R : x.id = n
  BY SnapshotRows, FS_CardinalityType DEF Ids
<1>2. Level(R) \in Levels(R, Cardinality(S))
  BY <1>1, LevelIsLevels
<1>3. \A x \in R : Under(x, R) = IF place[x.id] \in S THEN place[x.id] ELSE Nowhere
  BY <1>1 DEF Under
<1> HIDE DEF R
<1>4. Roots(R) = {n \in S : place[n] \notin S}
  <2>1. \A n : n \in Roots(R) <=> \E x \in R : x.id = n /\ Under(x, R) = Nowhere
    BY DEF Roots
  <2>2. QED
    BY <1>1, <1>3, <2>1
<1>5. ASSUME NEW L \in SUBSET S
      PROVE  In(R, L) = {n \in S : place[n] \in L}
  <2>1. \A n : n \in In(R, L) <=> \E x \in R : x.id = n /\ Under(x, R) \in L
    BY DEF In
  <2>2. QED
    BY <1>1, <1>3, <2>1
<1>6. \A k \in 0 .. Depth(S) : Lvl(S, k) \in SUBSET S
  BY <1>1, <1>2 DEF Lvl, Levels, Depth, R
<1>7. Lvl(S, 0) = Roots(R)
  BY <1>2 DEF Lvl, Levels, R
<1>8. ASSUME NEW k \in 1 .. Depth(S)
      PROVE  Lvl(S, k) = {n \in S : place[n] \in Lvl(S, k - 1)}
  <2>1. k - 1 \in 0 .. Depth(S)
    BY <1>1 DEF Depth
  <2>2. Lvl(S, k) = In(R, Lvl(S, k - 1))
    BY <1>2 DEF Lvl, Levels, Depth, R
  <2>3. QED
    BY <1>5, <1>6, <2>1, <2>2
<1>9. ShownCats(R) = Shown(S)
  <2>1. DOMAIN Level(R) = 0 .. Depth(S)
    BY <1>2 DEF Levels, Depth
  <2>2. QED
    BY <2>1 DEF ShownCats, Shown, Lvl, R
<1>10. QED
  BY <1>1, <1>4, <1>6, <1>7, <1>8, <1>9 DEF Depth, R

\* No category is on two levels.
LEMMA LevelsDisjoint ==
  ASSUME NEW S \in SUBSET Cats, NEW i \in 0 .. Depth(S), NEW j \in 0 .. Depth(S),
         NEW n \in Lvl(S, i), n \in Lvl(S, j)
  PROVE  i = j
<1>1. Depth(S) \in Nat /\ \A k \in 0 .. Depth(S) : Lvl(S, k) \in SUBSET S
  BY LevelRule
<1> DEFINE T == {a \in 0 .. Depth(S) :
                   \E b \in 0 .. Depth(S) : a < b /\ Lvl(S, a) \cap Lvl(S, b) # {}}
<1>2. T = {}
  <2> SUFFICES ASSUME T # {}
               PROVE  FALSE
    OBVIOUS
  <2>1. T \in SUBSET Nat
    BY <1>1
  <2>2. PICK a \in T : \A c \in T : a <= c
    BY <2>1, LeastElement
  <2>3. PICK b \in 0 .. Depth(S) : a < b /\ Lvl(S, a) \cap Lvl(S, b) # {}
    OBVIOUS
  <2>4. PICK m : m \in Lvl(S, a) /\ m \in Lvl(S, b)
    BY <2>3
  <2>5. a \in Nat /\ b \in 1 .. Depth(S) /\ m \in S
    BY <1>1, <2>1, <2>3, <2>4
  <2>6. place[m] \in Lvl(S, b - 1) /\ b - 1 \in 0 .. Depth(S)
    BY <1>1, <2>4, <2>5, LevelRule
  <2>7. a # 0
    BY <1>1, <2>4, <2>5, <2>6, LevelRule
  <2>8. a - 1 \in 0 .. Depth(S) /\ place[m] \in Lvl(S, a - 1)
    BY <1>1, <2>4, <2>5, <2>7, LevelRule
  <2>9. a - 1 \in T
    BY <2>3, <2>5, <2>6, <2>8
  <2>10. QED
    BY <2>2, <2>5, <2>9
<1>3. ~(i < j) /\ ~(j < i)
  BY <1>2
<1>4. QED
  BY <1>1, <1>3

\* As many levels as there are categories are enough: the last one is empty.
LEMMA LastLevelEmpty ==
  ASSUME NEW S \in SUBSET Cats
  PROVE  Lvl(S, Depth(S)) = {}
<1> DEFINE N == Depth(S)
<1>1. /\ N \in Nat /\ \A k \in 0 .. N : Lvl(S, k) \in SUBSET S
      /\ IsFiniteSet(S)
  BY LevelRule, SnapshotRows
<1> SUFFICES ASSUME Lvl(S, N) # {}
             PROVE  FALSE
  OBVIOUS
<1> DEFINE T == {j \in 0 .. N : Lvl(S, N - j) = {}}
<1>2. T = {}
  <2> SUFFICES ASSUME T # {}
               PROVE  FALSE
    OBVIOUS
  <2>1. T \in SUBSET Nat
    BY <1>1
  <2>2. PICK j \in T : \A c \in T : j <= c
    BY <2>1, LeastElement
  <2>3. j \in Nat /\ j <= N /\ j # 0
    BY <1>1, <2>1, N - 0 = N
  <2>4. j - 1 \in 0 .. N /\ j - 1 \notin T /\ N - (j - 1) \in 1 .. N
    BY <1>1, <2>2, <2>3
  <2>5. PICK n : n \in Lvl(S, N - (j - 1))
    BY <2>4
  <2>6. (N - (j - 1)) - 1 = N - j
    BY <1>1, <2>3
  <2>7. n \in S /\ place[n] \in Lvl(S, N - j)
    BY <1>1, <2>4, <2>5, <2>6, LevelRule
  <2>8. QED
    BY <2>7
<1>3. ASSUME NEW k \in 0 .. N
      PROVE  Lvl(S, k) # {}
  <2>1. N - k \in 0 .. N /\ N - (N - k) = k
    BY <1>1
  <2>2. N - k \notin T
    BY <1>2
  <2>3. QED
    BY <2>1, <2>2
<1> DEFINE f == [k \in 0 .. N |-> CHOOSE n : n \in Lvl(S, k)]
<1>4. \A k \in 0 .. N : f[k] \in Lvl(S, k)
  BY <1>3
<1>5. f \in [0 .. N -> S]
  BY <1>1, <1>4
<1>6. IsFiniteSet(0 .. N) /\ Cardinality(S) < Cardinality(0 .. N)
  <2>1. IsFiniteSet(0 .. N) /\ Cardinality(0 .. N) = N + 1
    BY <1>1, FS_Interval
  <2>2. QED
    BY <1>1, <2>1 DEF Depth
<1> HIDE DEF f, N
<1>7. PICK i, j \in 0 .. N : i # j /\ f[i] = f[j]
  BY <1>1, <1>5, <1>6, FS_PigeonHole
<1>8. QED
  BY <1>4, <1>7, LevelsDisjoint DEF N

-----------------------------------------------------------------------------
(* Ways up the tree.                                                       *)

\* The ways of n steps among the categories of S, each from a category to its parent.
Ways(S, n) == {w \in [0 .. n -> S] : \A k \in 1 .. n : w[k] = place[w[k - 1]]}

LEMMA AboveByWays ==
  ASSUME NEW S \in SUBSET Cats, NEW c
  PROVE  Above(Snapshot(S), c) =
           {d \in S : \E n \in 1 .. Depth(S) : \E w \in Ways(S, n) : w[0] = c /\ w[n] = d}
<1> DEFINE R == Snapshot(S)
<1>1. /\ Ids(R) = S /\ Cardinality(R) = Depth(S) /\ Depth(S) \in Nat
      /\ \A a, b : [id |-> a, at |-> b] \in R <=> a \in S /\ b = place[a]
  BY SnapshotRows, FS_CardinalityType DEF Depth
<1> HIDE DEF R
<1>2. ASSUME NEW n \in 1 .. Depth(S), NEW w \in [0 .. n -> S]
      PROVE  (\A k \in 1 .. n : [id |-> w[k - 1], at |-> w[k]] \in R) <=> w \in Ways(S, n)
  <2>1. \A k \in 1 .. n : w[k - 1] \in S
    <3> SUFFICES ASSUME NEW k \in 1 .. n
                 PROVE  w[k - 1] \in S
      OBVIOUS
    <3>1. k - 1 \in 0 .. n
      BY <1>1
    <3>2. QED
      BY <3>1
  <2>2. QED
    BY <1>1, <2>1 DEF Ways
<1>3. \A d : d \in Above(R, c) <=>
               d \in S /\ \E n \in 1 .. Depth(S) : \E w \in [0 .. n -> S] :
                             /\ w[0] = c /\ w[n] = d
                             /\ \A k \in 1 .. n : [id |-> w[k - 1], at |-> w[k]] \in R
  BY <1>1 DEF Above
<1>4. \A n : Ways(S, n) \in SUBSET [0 .. n -> S]
  BY DEF Ways
<1>5. QED
  BY <1>2, <1>3, <1>4 DEF R

\* A way goes down the levels, one by one, and is no longer than the levels allow.
LEMMA WayDescends ==
  ASSUME NEW S \in SUBSET Cats, NEW n \in Nat, NEW w \in Ways(S, n),
         NEW k \in 0 .. Depth(S), w[0] \in Lvl(S, k), NEW j \in 0 .. n
  PROVE  j <= k /\ w[j] \in Lvl(S, k - j)
<1> DEFINE Good(i) == i <= k /\ w[i] \in Lvl(S, k - i)
           T == {i \in 0 .. n : ~Good(i)}
<1>1. Depth(S) \in Nat /\ k \in Nat /\ k <= Depth(S)
  BY LevelRule
<1>2. T = {}
  <2> SUFFICES ASSUME T # {}
               PROVE  FALSE
    OBVIOUS
  <2>1. T \in SUBSET Nat
    OBVIOUS
  <2>2. PICK i \in T : \A c \in T : i <= c
    BY <2>1, LeastElement
  <2>3. i \in Nat /\ i <= n /\ ~Good(i)
    OBVIOUS
  <2>4. i # 0
    <3>1. Good(0)
      BY <1>1, k - 0 = k
    <3>2. QED
      BY <2>3, <3>1
  <2>5. i - 1 \in 0 .. n /\ i - 1 \notin T
    BY <2>2, <2>3, <2>4
  <2>6. i - 1 <= k /\ w[i - 1] \in Lvl(S, k - (i - 1))
    BY <2>5
  <2>7. k - (i - 1) \in 0 .. Depth(S) /\ (k - (i - 1)) - 1 = k - i
    BY <1>1, <2>3, <2>4, <2>6
  <2>8. w[i] = place[w[i - 1]] /\ w[i] \in S /\ w[i - 1] \in S
    BY <2>3, <2>4, <2>5 DEF Ways
  <2>9. k - (i - 1) # 0
    BY <2>6, <2>8, LevelRule
  <2>10. k - (i - 1) \in 1 .. Depth(S)
    BY <1>1, <2>7, <2>9
  <2>11. w[i] \in Lvl(S, k - i)
    BY <2>6, <2>7, <2>8, <2>10, LevelRule
  <2>12. i <= k
    BY <1>1, <2>3, <2>10
  <2>13. QED
    BY <2>3, <2>11, <2>12
<1>3. QED
  BY <1>2

\* A category that is shown is neither on a cycle nor below one.
LEMMA ShownIsNotCircular ==
  ASSUME NEW S \in SUBSET Cats, NEW c \in Shown(S)
  PROVE  ~Circular(Snapshot(S), c)
<1> SUFFICES ASSUME NEW d \in Above(Snapshot(S), c) \cup {c}, d \in Above(Snapshot(S), d)
             PROVE  FALSE
  BY DEF Circular
<1>1. Depth(S) \in Nat
  BY LevelRule
<1>2. PICK k \in 0 .. Depth(S) : c \in Lvl(S, k)
  BY DEF Shown
<1> DEFINE T == {j \in 0 .. Depth(S) : d \in Lvl(S, j)}
<1>3. T # {}
  <2>1. CASE d = c
    BY <1>2, <2>1
  <2>2. CASE d # c
    <3>1. d \in Above(Snapshot(S), c)
      BY <2>2
    <3>2. PICK n \in 1 .. Depth(S) : \E w \in Ways(S, n) : w[0] = c /\ w[n] = d
      BY <3>1, AboveByWays
    <3>3. PICK w \in Ways(S, n) : w[0] = c /\ w[n] = d
      BY <3>2
    <3>4. n \in Nat /\ n \in 0 .. n
      BY <1>1
    <3>5. n <= k /\ d \in Lvl(S, k - n)
      BY <1>2, <3>3, <3>4, WayDescends
    <3>6. k - n \in 0 .. Depth(S)
      BY <1>1, <3>4, <3>5
    <3>7. QED
      BY <3>5, <3>6
  <2>3. QED
    BY <2>1, <2>2
<1>4. T \in SUBSET Nat
  OBVIOUS
<1>5. PICK j \in T : \A i \in T : j <= i
  BY <1>3, <1>4, LeastElement
<1>6. PICK n \in 1 .. Depth(S) : \E w \in Ways(S, n) : w[0] = d /\ w[n] = d
  BY AboveByWays
<1>7. PICK w \in Ways(S, n) : w[0] = d /\ w[n] = d
  BY <1>6
<1>8. n \in Nat /\ n \in 0 .. n /\ n >= 1 /\ j \in 0 .. Depth(S) /\ d \in Lvl(S, j)
  BY <1>1
<1>9. n <= j /\ d \in Lvl(S, j - n)
  BY <1>7, <1>8, WayDescends
<1>10. j - n \in T
  BY <1>1, <1>8, <1>9
<1>11. QED
  BY <1>5, <1>8, <1>10

\* The parent of a category that is not shown is listed, and not shown either.
LEMMA HiddenParent ==
  ASSUME NEW S \in SUBSET Cats, NEW c \in S \ Shown(S)
  PROVE  place[c] \in S \ Shown(S)
<1>1. Depth(S) \in Nat /\ \A k \in 0 .. Depth(S) : Lvl(S, k) \in SUBSET S
  BY LevelRule
<1>2. \A k \in 0 .. Depth(S) : c \notin Lvl(S, k)
  BY DEF Shown
<1>3. place[c] \in S
  BY <1>1, <1>2, LevelRule
<1>4. ASSUME NEW k \in 0 .. Depth(S)
      PROVE  place[c] \notin Lvl(S, k)
  <2>1. CASE k = Depth(S)
    BY <2>1, LastLevelEmpty
  <2>2. CASE k # Depth(S)
    <3>1. k + 1 \in 1 .. Depth(S) /\ (k + 1) - 1 = k /\ k + 1 \in 0 .. Depth(S)
      BY <1>1, <2>2
    <3>2. QED
      BY <1>2, <3>1, LevelRule
  <2>3. QED
    BY <2>1, <2>2
<1>5. QED
  BY <1>3, <1>4 DEF Shown

LEMMA HiddenWay ==
  ASSUME NEW S \in SUBSET Cats, NEW c \in S \ Shown(S), NEW n \in Nat
  PROVE  \E w \in Ways(S, n) : w[0] = c
<1> DEFINE H == S \ Shown(S)
           Good(m) == \E w \in Ways(S, m) : w[0] = c /\ w[m] \in H
           T == {m \in Nat : ~Good(m)}
<1>1. T = {}
  <2> SUFFICES ASSUME T # {}
               PROVE  FALSE
    OBVIOUS
  <2>1. PICK m \in T : \A i \in T : m <= i
    BY LeastElement
  <2>2. CASE m = 0
    <3> DEFINE w == [k \in 0 .. 0 |-> c]
    <3>1. w \in Ways(S, 0) /\ w[0] = c
      BY DEF Ways
    <3>2. QED
      BY <2>1, <2>2, <3>1
  <2>3. CASE m # 0
    <3>1. m - 1 \in Nat /\ m - 1 \notin T
      BY <2>1, <2>3
    <3>2. PICK v \in Ways(S, m - 1) : v[0] = c /\ v[m - 1] \in H
      BY <3>1
    <3> DEFINE w == [k \in 0 .. m |-> IF k = m THEN place[v[m - 1]] ELSE v[k]]
    <3>3. place[v[m - 1]] \in H
      BY <3>2, HiddenParent
    <3>4. v \in [0 .. m - 1 -> S]
      BY DEF Ways
    <3>5. \A k \in 0 .. m : k # m => k \in 0 .. m - 1
      BY <2>1
    <3>6. w \in [0 .. m -> S]
      BY <3>3, <3>4, <3>5
    <3>7. ASSUME NEW k \in 1 .. m
          PROVE  w[k] = place[w[k - 1]]
      <4>1. k - 1 \in 0 .. m /\ k - 1 # m /\ k \in 0 .. m
        BY <2>1
      <4>2. w[k - 1] = v[k - 1]
        BY <4>1
      <4>3. CASE k = m
        BY <4>1, <4>2, <4>3
      <4>4. CASE k # m
        <5>1. k \in 1 .. m - 1
          BY <2>1, <4>4
        <5>2. v[k] = place[v[k - 1]]
          BY <5>1 DEF Ways
        <5>3. QED
          BY <4>1, <4>2, <4>4, <5>2
      <4>5. QED
        BY <4>3, <4>4
    <3>8. w[0] = c /\ w[m] \in H
      <4>1. 0 \in 0 .. m /\ m \in 0 .. m
        BY <2>1
      <4>2. QED
        BY <2>3, <3>2, <3>3, <4>1
    <3> HIDE DEF w
    <3>9. w \in Ways(S, m)
      BY <3>6, <3>7 DEF Ways
    <3>10. Good(m)
      BY <3>8, <3>9
    <3>11. QED
      BY <3>10
  <2>4. QED
    BY <2>2, <2>3
<1>2. QED
  BY <1>1

\* A piece of a way is a way.
LEMMA PieceOfWay ==
  ASSUME NEW S, NEW n \in Nat, NEW w \in Ways(S, n),
         NEW i \in 0 .. n, NEW j \in 0 .. n, i <= j
  PROVE  \E v \in Ways(S, j - i) : v[0] = w[i] /\ v[j - i] = w[j]
<1> DEFINE v == [k \in 0 .. j - i |-> w[i + k]]
<1>1. w \in [0 .. n -> S] /\ \A k \in 1 .. n : w[k] = place[w[k - 1]]
  BY DEF Ways
<1>2. i \in Nat /\ j \in Nat /\ j <= n
  OBVIOUS
<1>3. \A k \in 0 .. j - i : i + k \in 0 .. n
  BY <1>2
<1>4. v \in [0 .. j - i -> S]
  BY <1>1, <1>3
<1>5. ASSUME NEW k \in 1 .. j - i
      PROVE  v[k] = place[v[k - 1]]
  <2>1. k \in 0 .. j - i /\ k - 1 \in 0 .. j - i /\ i + k \in 1 .. n /\ (i + k) - 1 = i + (k - 1)
    BY <1>2
  <2>2. v[k] = w[i + k] /\ v[k - 1] = w[i + (k - 1)]
    BY <2>1
  <2>3. QED
    BY <1>1, <2>1, <2>2
<1>6. v[0] = w[i] /\ v[j - i] = w[j]
  <2>1. 0 \in 0 .. j - i /\ j - i \in 0 .. j - i /\ i + 0 = i /\ i + (j - i) = j
    BY <1>2
  <2>2. QED
    BY <2>1
<1> HIDE DEF v
<1>7. v \in Ways(S, j - i)
  BY <1>4, <1>5 DEF Ways
<1>8. QED
  BY <1>6, <1>7

\* The way up from a category that is not shown comes to a category it has seen.
LEMMA HiddenIsCircular ==
  ASSUME NEW S \in SUBSET Cats, NEW c \in S \ Shown(S)
  PROVE  Circular(Snapshot(S), c)
<1> DEFINE N == Depth(S)
<1>1. N \in Nat /\ IsFiniteSet(S)
  BY LevelRule, SnapshotRows
<1>2. PICK w \in Ways(S, N) : w[0] = c
  BY <1>1, HiddenWay
<1>3. w \in [0 .. N -> S]
  BY DEF Ways
<1>4. IsFiniteSet(0 .. N) /\ Cardinality(S) < Cardinality(0 .. N)
  <2>1. IsFiniteSet(0 .. N) /\ Cardinality(0 .. N) = N + 1
    BY <1>1, FS_Interval
  <2>2. QED
    BY <1>1, <2>1 DEF Depth
<1> HIDE DEF N
<1>5. PICK a, b \in 0 .. N : a # b /\ w[a] = w[b]
  BY <1>1, <1>3, <1>4, FS_PigeonHole
<1>6. PICK i, j \in 0 .. N : i < j /\ w[i] = w[j]
  BY <1>1, <1>5
<1> DEFINE d == w[i]
<1>7. d \in S /\ j - i \in 1 .. N
  BY <1>1, <1>3, <1>6
<1>8. d \in Above(Snapshot(S), d)
  <2>1. PICK v \in Ways(S, j - i) : v[0] = d /\ v[j - i] = d
    BY <1>1, <1>6, PieceOfWay
  <2>2. QED
    BY <1>7, <2>1, AboveByWays DEF N
<1>9. d \in Above(Snapshot(S), c) \cup {c}
  <2>1. CASE i = 0
    BY <1>2, <2>1
  <2>2. CASE i # 0
    <3>1. 0 \in 0 .. N /\ 0 <= i /\ i - 0 = i /\ i \in 1 .. N
      BY <1>1, <2>2
    <3>2. PICK v \in Ways(S, i) : v[0] = c /\ v[i] = d
      BY <1>1, <1>2, <3>1, PieceOfWay
    <3>3. QED
      BY <1>7, <3>1, <3>2, AboveByWays DEF N
  <2>3. QED
    BY <2>1, <2>2
<1>10. QED
  BY <1>8, <1>9 DEF Circular

\* The tree has exactly the categories that are neither on a cycle nor below one, however
\* many there are and however they lie.
LEMMA TreeHasAllButCycles ==
  ASSUME NEW S \in SUBSET Cats
  PROVE  ShownCats(Snapshot(S)) = {c \in S : ~Circular(Snapshot(S), c)}
<1>1. ShownCats(Snapshot(S)) = Shown(S) /\ Shown(S) \in SUBSET S
  BY LevelRule DEF Shown
<1>2. QED
  BY <1>1, ShownIsNotCircular, HiddenIsCircular

\* Cards without a listed category are at the root, and the others where their category is.
LEMMA CardsOfTree ==
  ASSUME TypeOK, NEW S \in SUBSET Cats, NEW I \in SUBSET Items
  PROVE  /\ ShownItems(Snapshot(S), Snapshot(I)) =
              {i \in I : ~Circular(Snapshot(S), place[i])}
         /\ ShownItems({}, Snapshot(I)) = I
<1> DEFINE R == Snapshot(S)
           J == Snapshot(I)
<1>1. /\ \A x \in J : x.id \in I /\ x.at = place[x.id]
      /\ \A i \in I : \E x \in J : x.id = i
  <2>1. \A i \in I : [id |-> i, at |-> place[i]] \in J
    BY DEF Snapshot
  <2>2. \A i \in I : [id |-> i, at |-> place[i]].id = i
    OBVIOUS
  <2>3. \A x \in J : x.id \in I /\ x.at = place[x.id]
    BY DEF Snapshot
  <2>4. ASSUME NEW i \in I
        PROVE  \E x \in J : x.id = i
    <3> DEFINE x == [id |-> i, at |-> place[i]]
    <3>1. x \in J /\ x.id = i
      BY <2>1, <2>2
    <3>2. QED
      BY <3>1
  <2>5. QED
    BY <2>3, <2>4
<1>2. Ids(R) = S /\ Nowhere \notin S /\ Ids({}) = {}
  BY SnapshotRows DEF Ids
<1>3. \A x \in J : /\ Under(x, R) = IF place[x.id] \in S THEN place[x.id] ELSE Nowhere
                   /\ Under(x, {}) = Nowhere
  BY <1>1, <1>2 DEF Under
<1>4. ShownCats(R) = {c \in S : ~Circular(R, c)}
  BY TreeHasAllButCycles
<1>5. ASSUME NEW c, c \notin S
      PROVE  ~Circular(R, c)
  <2> SUFFICES ASSUME Circular(R, c)
               PROVE  FALSE
    OBVIOUS
  <2>1. PICK d \in Above(R, c) \cup {c} : d \in Above(R, d)
    BY DEF Circular
  <2>2. ASSUME NEW e \in Above(R, c)
        PROVE  FALSE
    <3>1. PICK n \in 1 .. Depth(S) : \E w \in Ways(S, n) : w[0] = c
      BY AboveByWays
    <3>2. PICK w \in Ways(S, n) : w[0] = c
      BY <3>1
    <3>3. w \in [0 .. n -> S] /\ 0 \in 0 .. n
      BY LevelRule DEF Ways
    <3>4. QED
      BY <1>5, <3>2, <3>3
  <2>3. QED
    BY <2>1, <2>2
<1> HIDE DEF R, J
<1>6. \A i : i \in ShownItems(R, J) <=>
             \E x \in J : x.id = i /\ Under(x, R) \in ShownCats(R) \cup {Nowhere}
  BY DEF ShownItems
<1>7. \A i : i \in ShownItems({}, J) <=>
             \E x \in J : x.id = i /\ Under(x, {}) \in ShownCats({}) \cup {Nowhere}
  BY DEF ShownItems
<1>8. ShownItems({}, J) = I
  BY <1>1, <1>3, <1>7
<1>9. ASSUME NEW x \in J
      PROVE  Under(x, R) \in ShownCats(R) \cup {Nowhere} <=> ~Circular(R, place[x.id])
  <2>1. CASE place[x.id] \in S
    BY <1>2, <1>3, <1>4, <2>1
  <2>2. CASE place[x.id] \notin S
    BY <1>3, <1>5, <2>2
  <2>3. QED
    BY <2>1, <2>2
<1>10. ShownItems(R, J) = {i \in I : ~Circular(R, place[i])}
  BY <1>1, <1>6, <1>9
<1>11. QED
  BY <1>8, <1>10 DEF R, J

-----------------------------------------------------------------------------
(* What a page view that no command overtook has read.                     *)

Cards == live \cap Items
CardsUpTo(p) == {i \in Cards : RankIn(Cards, i) <= (p - 1) * BrowseSize}

ReadsInv ==
  /\ stage \in {"new", "cats"} =>
       treeCats = {} /\ treeItems = {} /\ treePage = 1 /\ badList = {}
  /\ stage = "items" => "items" \notin badList
  /\ treeRaced \/
       /\ stage \in {"items", "walk", "done"} =>
            treeCats = IF "cats" \in badList THEN {} ELSE Snapshot(FirstCats)
       /\ stage = "items" => treeItems = Snapshot(CardsUpTo(treePage))
       /\ stage \in {"walk", "done"} /\ "items" \notin badList => treeItems = Snapshot(Cards)

LEMMA CardSets ==
  ASSUME TypeOK
  PROVE  Cards \in SUBSET Nat /\ Cards \in SUBSET Items /\ IsFiniteSet(Cards)
<1>1. Cards \in SUBSET Nat /\ Cards \in SUBSET Items
  BY NodeSets DEF Cards
<1>2. QED
  BY <1>1, NodeSets, FS_Subset

\* The pages of the cards, put together.
LEMMA CardPages ==
  ASSUME TypeOK, NEW p \in Nat \ {0}
  PROVE  /\ CardsUpTo(1) = {}
         /\ CardsUpTo(p + 1) = CardsUpTo(p) \cup PageOfSet(Cards, p, BrowseSize)
         /\ LastPage(Cards, p, BrowseSize) => CardsUpTo(p + 1) = Cards
<1>1. BrowseSize \in Nat \ {0} /\ Cards \in SUBSET Nat /\ IsFiniteSet(Cards)
  BY CardSets, CatalogTreeAssumption
<1>2. \A i \in Cards : RankIn(Cards, i) \in Nat /\ RankIn(Cards, i) # 0
  <2>1. Cardinality(Cards) \in Nat
    BY <1>1, FS_CardinalityType
  <2>2. QED
    BY <1>1, <2>1, RankInType
<1>3. (1 - 1) * BrowseSize = 0 /\ (p + 1) - 1 = p
  BY <1>1
<1>4. /\ (p - 1) * BrowseSize \in Nat /\ p * BrowseSize \in Nat
      /\ (p - 1) * BrowseSize <= p * BrowseSize
  <2>1. p * BrowseSize = (p - 1) * BrowseSize + BrowseSize
    BY <1>1
  <2>2. (p - 1) * BrowseSize \in Nat
    BY <1>1
  <2>3. QED
    BY <1>1, <2>1, <2>2
<1>5. CardsUpTo(1) = {}
  BY <1>2, <1>3 DEF CardsUpTo
<1>6. CardsUpTo(p + 1) = {i \in Cards : RankIn(Cards, i) <= p * BrowseSize}
  BY <1>3 DEF CardsUpTo
<1> DEFINE a == (p - 1) * BrowseSize
           b == p * BrowseSize
<1>7. CardsUpTo(p) = {i \in Cards : RankIn(Cards, i) <= a}
      /\ PageOfSet(Cards, p, BrowseSize) =
           {i \in Cards : a < RankIn(Cards, i) /\ RankIn(Cards, i) <= b}
  BY DEF CardsUpTo, PageOfSet
<1>8. a \in Nat /\ b \in Nat /\ a <= b
  BY <1>4
<1> HIDE DEF a, b
<1>9. CardsUpTo(p + 1) = CardsUpTo(p) \cup PageOfSet(Cards, p, BrowseSize)
  BY <1>2, <1>6, <1>7, <1>8 DEF b
<1>10. LastPage(Cards, p, BrowseSize) => CardsUpTo(p + 1) = Cards
  BY <1>1, <1>6, LastPageHasAll
<1>11. QED
  BY <1>5, <1>9, <1>10

LEMMA SnapshotJoins ==
  ASSUME NEW S, NEW T
  PROVE  Snapshot(S) \cup Snapshot(T) = Snapshot(S \cup T) /\ Snapshot({}) = {}
BY DEF Snapshot

LEMMA ReadsInitial == TreeInit => ReadsInv
BY DEF TreeInit, ReadsInv

LEMMA ReadsStep == TreeInv /\ ReadsInv /\ [TreeNext]_pageVars => ReadsInv'
<1> SUFFICES ASSUME TreeInv, ReadsInv, [TreeNext]_pageVars
             PROVE  ReadsInv'
  OBVIOUS
<1>1. TypeOK /\ TreeTypeOK
  BY DEF TreeInv, AdminInv
<1>2. ASSUME UNCHANGED <<live, place>>
      PROVE  /\ Snapshot(FirstCats)' = Snapshot(FirstCats) /\ Snapshot(Cards)' = Snapshot(Cards)
             /\ \A p : Snapshot(CardsUpTo(p))' = Snapshot(CardsUpTo(p))
  BY <1>2 DEF Snapshot, FirstCats, PageOfSet, Cards, CardsUpTo
<1>3. ASSUME UNCHANGED adminVars
      PROVE  UNCHANGED <<live, place>>
  BY <1>3 DEF adminVars, server, catalog
<1>4. CASE AdminStep
  <2>1. UNCHANGED <<stage, treeCats, treeItems, treePage, badList>>
    BY <1>4 DEF AdminStep
  <2>2. CASE stage \in {"new", "cats"}
    BY <2>1, <2>2 DEF ReadsInv
  <2>3. CASE stage \notin {"new", "cats"} /\ catalog' # catalog
    <3>1. treeRaced'
      BY <1>4, <2>3 DEF AdminStep
    <3>2. QED
      BY <2>1, <3>1 DEF ReadsInv
  <2>4. CASE stage \notin {"new", "cats"} /\ catalog' = catalog
    <3>1. UNCHANGED <<live, place>>
      BY <2>4 DEF catalog
    <3>2. treeRaced => treeRaced'
      BY <1>4 DEF AdminStep
    <3>3. Snapshot(CardsUpTo(treePage))' = Snapshot(CardsUpTo(treePage))
      BY <1>2, <2>1, <3>1 DEF Snapshot, CardsUpTo, Cards
    <3>4. QED
      BY <1>2, <2>1, <2>4, <3>1, <3>2, <3>3 DEF ReadsInv
  <2>5. QED
    BY <2>2, <2>3, <2>4
<1>5. CASE \E n \in Cats \cup Items \cup {Nowhere} : OpenPage(n)
  BY <1>5 DEF OpenPage, ReadsInv
<1>6. CASE ReadCats
  <2>1. /\ stage = "cats" /\ stage' = "items"
        /\ treeCats = {} /\ treeItems = {} /\ treePage = 1 /\ badList = {}
        /\ UNCHANGED <<live, place, treeItems, treePage>>
    BY <1>3, <1>6 DEF ReadCats, ReadsInv
  <2>2. \/ treeCats' = Snapshot(FirstCats) /\ badList' = {}
        \/ treeCats' = {} /\ badList' = {"cats"}
    BY <1>6, <2>1 DEF ReadCats, FirstCats, PageOfSet
  <2>3. Snapshot(CardsUpTo(treePage))' = {}
    <3>1. CardsUpTo(1) = {}
      BY <1>1, CardPages
    <3>2. Snapshot(CardsUpTo(treePage))' = Snapshot(CardsUpTo(1))
      BY <2>1 DEF Snapshot, CardsUpTo, Cards
    <3>3. QED
      BY <3>1, <3>2, SnapshotJoins
  <2>4. Snapshot(FirstCats)' = Snapshot(FirstCats)
    BY <1>2, <2>1
  <2>5. "items" \notin badList'
    BY <2>2
  <2>6. treeCats' = IF "cats" \in badList' THEN {} ELSE Snapshot(FirstCats)
    BY <2>2
  <2>7. QED
    BY <2>1, <2>3, <2>4, <2>5, <2>6 DEF ReadsInv
<1>7. CASE ReadItems
  <2> DEFINE last == LastPage(Cards, treePage, BrowseSize)
             I == treeItems \cup BrowsePage
  <2>1. stage = "items" /\ UNCHANGED <<live, place, treeCats, treeRaced>> /\ "items" \notin badList
    BY <1>3, <1>7 DEF ReadItems, ReadsInv
  <2>2. \/ /\ treeItems' = I /\ badList' = badList
           /\ \/ last /\ stage' = "walk"
              \/ ~last /\ treePage' = treePage + 1 /\ stage' = "items"
        \/ badList' = badList \cup {"items"} /\ stage' = "walk"
    BY <1>7, <2>1 DEF ReadItems, Walk, Cards
  <2>3. Snapshot(FirstCats)' = Snapshot(FirstCats) /\ Snapshot(Cards)' = Snapshot(Cards)
        /\ \A p : Snapshot(CardsUpTo(p))' = Snapshot(CardsUpTo(p))
    BY <1>2, <2>1
  <2>4. treePage \in Nat \ {0}
    BY <1>1 DEF TreeTypeOK
  <2>5. ASSUME ~treeRaced
        PROVE  I = Snapshot(CardsUpTo(treePage + 1))
    <3>1. treeItems = Snapshot(CardsUpTo(treePage))
      BY <2>1, <2>5 DEF ReadsInv
    <3>2. BrowsePage = Snapshot(PageOfSet(Cards, treePage, BrowseSize))
      BY DEF BrowsePage, Cards
    <3>3. QED
      BY <1>1, <2>4, <3>1, <3>2, CardPages, SnapshotJoins
  <2>6. last => Snapshot(CardsUpTo(treePage + 1)) = Snapshot(Cards)
    BY <1>1, <2>4, CardPages
  <2> HIDE DEF last, I
  <2>7. treeRaced \/ treeCats = IF "cats" \in badList THEN {} ELSE Snapshot(FirstCats)
    BY <2>1 DEF ReadsInv
  <2>8. "cats" \in badList' <=> "cats" \in badList
    BY <2>2
  <2>9. stage' = "items" => "items" \notin badList'
    BY <2>1, <2>2
  <2>10. treeRaced \/ (stage' = "items" => treeItems' = Snapshot(CardsUpTo(treePage))')
    <3> SUFFICES ASSUME ~treeRaced, stage' = "items"
                 PROVE  treeItems' = Snapshot(CardsUpTo(treePage))'
      OBVIOUS
    <3>1. treeItems' = I /\ treePage' = treePage + 1
      BY <2>2
    <3>2. Snapshot(CardsUpTo(treePage))' = Snapshot(CardsUpTo(treePage + 1))
      BY <2>1, <3>1 DEF Snapshot, CardsUpTo, Cards
    <3>3. QED
      BY <2>5, <3>1, <3>2
  <2>11. treeRaced \/ (stage' = "walk" /\ "items" \notin badList' => treeItems' = Snapshot(Cards)')
    BY <2>2, <2>3, <2>5, <2>6
  <2>12. stage' \in {"items", "walk"}
    BY <2>2
  <2>13. QED
    BY <2>1, <2>3, <2>7, <2>8, <2>9, <2>10, <2>11, <2>12 DEF ReadsInv
<1>8. CASE WalkStep \/ WalkEnds \/ UNCHANGED pageVars
  <2>1. /\ UNCHANGED <<treeCats, treeItems, treePage, badList, treeRaced>>
        /\ \/ stage' = stage
           \/ stage = "walk" /\ stage' = "done"
    BY <1>8 DEF WalkStep, WalkEnds, pageVars, treeVars
  <2>2. UNCHANGED <<live, place>>
    BY <1>3, <1>8 DEF WalkStep, WalkEnds, pageVars
  <2>3. Snapshot(CardsUpTo(treePage))' = Snapshot(CardsUpTo(treePage))
    BY <1>2, <2>1, <2>2 DEF Snapshot, CardsUpTo, Cards
  <2>4. QED
    BY <1>2, <2>1, <2>2, <2>3 DEF ReadsInv
<1>9. QED
  BY <1>4, <1>5, <1>6, <1>7, <1>8 DEF TreeNext, PageStep

\* Whatever the catalogue looks like, the page shows all of it but what lies on or below a
\* cycle: neither the pages of the list of cards nor a parent that is missing lose anything.
THEOREM TreesShowAllButCycles == TreeSpec => []TreeShowsAllButCycles
<1>1. TreeInv /\ ReadsInv => TreeShowsAllButCycles
  <2> SUFFICES ASSUME TreeInv, ReadsInv, stage \in {"walk", "done"}, ~treeRaced
               PROVE  LET C == Snapshot(FirstCats)
                      IN  /\ "cats" \notin badList =>
                               ShownCats(treeCats) = {c \in Ids(C) : ~Circular(C, c)}
                          /\ "items" \notin badList =>
                               ShownItems(treeCats, treeItems) =
                                 {i \in Cards : "cats" \in badList \/ ~Circular(C, place[i])}
    BY DEF TreeShowsAllButCycles, FirstCats, PageOfSet, Cards
  <2>1. TypeOK
    BY DEF TreeInv, AdminInv
  <2>2. /\ treeCats = IF "cats" \in badList THEN {} ELSE Snapshot(FirstCats)
        /\ "items" \notin badList => treeItems = Snapshot(Cards)
    BY DEF ReadsInv
  <2>3. FirstCats \in SUBSET Cats /\ Cards \in SUBSET Items
    BY DEF FirstCats, PageOfSet, Cards
  <2>4. /\ Ids(Snapshot(FirstCats)) = FirstCats
        /\ ShownCats(Snapshot(FirstCats)) = {c \in FirstCats : ~Circular(Snapshot(FirstCats), c)}
    BY <2>3, SnapshotRows, TreeHasAllButCycles
  <2>5. /\ ShownItems(Snapshot(FirstCats), Snapshot(Cards)) =
             {i \in Cards : ~Circular(Snapshot(FirstCats), place[i])}
        /\ ShownItems({}, Snapshot(Cards)) = Cards
    BY <2>1, <2>3, CardsOfTree
  <2>6. QED
    BY <2>2, <2>4, <2>5
<1>2. TreeInit => TreeInv /\ ReadsInv
  BY TreeInitial, ReadsInitial
<1>3. TreeInv /\ ReadsInv /\ [TreeNext]_pageVars => (TreeInv /\ ReadsInv)'
  BY TreeStep, ReadsStep
<1>4. QED
  BY <1>1, <1>2, <1>3, PTL DEF TreeSpec
=============================================================================
