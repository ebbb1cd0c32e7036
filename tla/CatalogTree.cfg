\* Two administrators, or one and a page view; two categories and one card per page.
SPECIFICATION TreeSpec
CONSTANTS
  a1 = a1
  a2 = a2
  Nowhere = Nowhere
  Cats <- TheCats
  Items <- TheItems
  Units <- TheUnits
  Uncat = 0
  New <- TheNew
  Names = {"a", "b"}
  Name0 = "a"
  Place0 <- ThePlaces
  PageSize = 2
  CatLimit = 3
  BrowseSize = 1
  Admins <- TwoAdmins
  KindsOf <- TheKinds
  MaxBegun = 2
INVARIANTS
  TreeTypeOK
  InvalidOnlyByBadList
  TreeShowsAllButCycles
PROPERTIES
  UntouchedFieldSurvives
  WalkEndsUnlessCycle
\* Every request may end: the system stops.
CHECK_DEADLOCK FALSE
