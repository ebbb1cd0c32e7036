---------------------------- MODULE CatalogTree -----------------------------
(***************************************************************************)
(* The tree of categories and cards (apps/catalog/tree.py) and the page    *)
(* that shows it (CatalogHomeView.get), composed with CatalogAdmin: the    *)
(* page is put together from several calls while administrators work.      *)
(***************************************************************************)
EXTENDS CatalogAdmin

CONSTANTS
  CatLimit,    \* categories the server lists to the page (1000)
  BrowseSize,  \* rows per page of the cards (100)
  MaxBegun     \* bound: requests of administrators and page views together

ASSUME CatalogTreeAssumption == {CatLimit, BrowseSize} \subseteq Nat \ {0} /\ MaxBegun \in Nat

VARIABLES
  stage,     \* where the view is
  selected,  \* the object the address of the page selects
  treeCats,  \* [id, at]: the categories as they were listed
  treeItems, \* [id, at]: the cards as they were listed, page by page
  treePage,  \* the page of the cards to ask for next
  badList,   \* the lists that could not be read
  at,        \* current_category_id of _resolve_expanded_category_ids
  expanded,  \* the categories on the way to the selected object
  treeRaced  \* history: a command was carried out while the view was reading

treeVars == <<stage, selected, treeCats, treeItems, treePage, badList, at, expanded, treeRaced>>
pageVars == <<adminVars, treeVars>>

Rows == [id : Cats \cup Items, at : Places]

TreeTypeOK ==
  /\ TypeOK
  /\ stage \in {"new", "cats", "items", "walk", "done"}
  /\ selected \in Cats \cup Items \cup {Nowhere}
  /\ treeCats \subseteq Rows /\ treeItems \subseteq Rows
  /\ treePage \in 1 .. Cardinality(Items) + 1
  /\ badList \subseteq {"cats", "items"}
  /\ at \in Places
  /\ expanded \subseteq Cats
  /\ treeRaced \in BOOLEAN

TreeInit ==
  /\ AdminInit
  /\ stage = "new"
  /\ selected = Nowhere
  /\ treeCats = {} /\ treeItems = {}
  /\ treePage = 1
  /\ badList = {}
  /\ at = Nowhere
  /\ expanded = {}
  /\ treeRaced = FALSE

Snapshot(S) == {[id |-> n, at |-> place[n]] : n \in S}
Ids(R) == {x.id : x \in R}

-----------------------------------------------------------------------------
(* build_category_item_tree over rows R of categories and I of cards.      *)

\* Mutant: what lies under a category that is not listed is left out.
UnderMutant(x, R) == x.at

\* A category or card whose category is not listed is shown at the root.
Under(x, R) == IF x.at \in Ids(R) THEN x.at ELSE Nowhere

\* Level k of the tree: the categories whose parent is on the level above.
Level(R) ==
  LET level[k \in 0 .. Cardinality(R)] ==
        IF k = 0 THEN {x.id : x \in {y \in R : Under(y, R) = Nowhere}}
        ELSE {x.id : x \in {y \in R : Under(y, R) \in level[k - 1]}}
  IN  level

ShownCats(R) == UNION {Level(R)[k] : k \in DOMAIN Level(R)}
ShownItems(R, I) == {x.id : x \in {y \in I : Under(y, R) \in ShownCats(R) \cup {Nowhere}}}

-----------------------------------------------------------------------------
(* CatalogHomeView.get: the categories in one call, the cards page by      *)
(* page; a list that fails is empty, with a message.                       *)

OpenPage(n) ==
  /\ stage = "new"
  /\ selected' = n
  /\ stage' = "cats"
  /\ UNCHANGED <<adminVars, treeCats, treeItems, treePage, badList, at, expanded, treeRaced>>

\* What the one call for the categories is answered with, but for the system category.
FirstCats == PageOfSet(live \cap Cats, 1, CatLimit) \ {Uncat}

ReadCats ==
  /\ stage = "cats"
  /\ stage' = "items"
  /\ \/ treeCats' = Snapshot(FirstCats) /\ UNCHANGED badList
     \/ badList' = badList \cup {"cats"} /\ UNCHANGED treeCats
  /\ UNCHANGED <<adminVars, selected, treeItems, treePage, at, expanded, treeRaced>>

\* Where the walk begins: at the category of the selected card, as it was listed, or at
\* the selected category; a card that was not listed selects nothing.
Start(I) ==
  IF selected \in Items
  THEN IF \E x \in I : x.id = selected THEN (CHOOSE x \in I : x.id = selected).at ELSE Nowhere
  ELSE selected

Walk(I) == stage' = "walk" /\ at' = Start(I)

\* One page of the cards, as browse_items asks for it.
BrowsePage == Snapshot(PageOfSet(live \cap Items, treePage, BrowseSize))

ReadItems ==
  /\ stage = "items"
  /\ LET last == LastPage(live \cap Items, treePage, BrowseSize)
         I    == treeItems \cup BrowsePage
     IN  \/ /\ treeItems' = I
            /\ IF last THEN Walk(I) /\ UNCHANGED treePage
               ELSE treePage' = treePage + 1 /\ UNCHANGED <<stage, at>>
            /\ UNCHANGED badList
         \/ /\ treeItems' = {}
            /\ badList' = badList \cup {"items"}
            /\ Walk({})
            /\ UNCHANGED treePage
  /\ UNCHANGED <<adminVars, selected, treeCats, expanded, treeRaced>>

\* Mutant: the walk does not leave a category that is not listed.
WalkStepMutant ==
  /\ stage = "walk"
  /\ at # Nowhere
  /\ expanded' = expanded \cup {at}
  /\ at' \in IF at \in Ids(treeCats) THEN {x.at : x \in {y \in treeCats : y.id = at}} ELSE {at}
  /\ UNCHANGED <<adminVars, stage, selected, treeCats, treeItems, treePage, badList, treeRaced>>

\* One turn of the loop that expands the way from the selection to the root.
WalkStep ==
  /\ stage = "walk"
  /\ at # Nowhere
  /\ expanded' = expanded \cup {at}
  /\ at' \in IF at \in Ids(treeCats) THEN {x.at : x \in {y \in treeCats : y.id = at}} ELSE {Nowhere}
  /\ UNCHANGED <<adminVars, stage, selected, treeCats, treeItems, treePage, badList, treeRaced>>

WalkEnds ==
  /\ stage = "walk"
  /\ at = Nowhere
  /\ stage' = "done"
  /\ UNCHANGED <<adminVars, selected, treeCats, treeItems, treePage, badList, at, expanded, treeRaced>>

PageStep == ReadCats \/ ReadItems \/ WalkStep \/ WalkEnds

\* A step of an administrator or of the server; a command that changes the catalogue
\* overtakes a view that has begun to read.
AdminStep ==
  /\ AdminNext
  /\ treeRaced' = (treeRaced \/ (stage \notin {"new", "cats"} /\ catalog' # catalog))
  /\ UNCHANGED <<stage, selected, treeCats, treeItems, treePage, badList, at, expanded>>

Begun == {r \in Admins : pc[r] # "new"}

TreeNext ==
  /\ \/ AdminStep
     \/ PageStep
     \/ \E n \in Cats \cup Items \cup {Nowhere} : OpenPage(n)
  /\ Cardinality(Begun') + (IF stage' = "new" THEN 0 ELSE 1) <= MaxBegun

\* The web worker that builds the page runs.
TreeSpec == TreeInit /\ [][TreeNext]_pageVars /\ WF_pageVars(PageStep)

-----------------------------------------------------------------------------
(* Properties *)

\* The categories above c, by rows R; c is circular if one of them is above itself.
Above(R, c) ==
  {d \in Ids(R) :
     \E n \in 1 .. Cardinality(R) : \E way \in [0 .. n -> Ids(R)] :
       /\ way[0] = c /\ way[n] = d
       /\ \A k \in 1 .. n : [id |-> way[k - 1], at |-> way[k]] \in R}
Circular(R, c) == \E d \in Above(R, c) \cup {c} : d \in Above(R, d)

\* The tree of a page that no command overtook shows every category that fits in the one
\* list of them and every card that exists, but for those under a cycle of categories: the
\* pages, the system category that is filtered out and the parents that are missing lose
\* nothing else, and no card is lost with categories that could not be read or did not fit.
TreeShowsAllButCycles ==
  stage \in {"walk", "done"} /\ ~treeRaced =>
    LET C == Snapshot(FirstCats)
        I == live \cap Items
    IN  /\ "cats" \notin badList => ShownCats(treeCats) = {c \in Ids(C) : ~Circular(C, c)}
        /\ "items" \notin badList =>
             ShownItems(treeCats, treeItems) =
               {i \in I : "cats" \in badList \/ ~Circular(C, place[i])}

\* The walk from the selection to the root ends, unless the categories as listed have a
\* cycle above the selection.
WalkEndsUnlessCycle ==
  stage = "walk" ~> (stage = "done" \/ (at \in Ids(treeCats) /\ Circular(treeCats, at)))
=============================================================================
