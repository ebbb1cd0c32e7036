\* One sync in pages of two, one search of two results, and a catalogue of three cards that changes.
SPECIFICATION FairSpec
CONSTANTS
  y1 = y1
  q1 = q1
  None = None
  Items <- ThreeItems
  Syncs <- OneSync
  Searches <- OneSearch
  Query <- Matches
  PageSize = 2
  MaxPages = None
  Limit = 2
  RemotePage = 3
  ListsDead = TRUE
  MaxVersion = 2
INVARIANTS
  TypeOK
PROPERTIES
  CacheGoesBackOnlyByRace
  QuietSyncIsComplete
  SearchMissesNothing
  EverySyncEnds
\* Every request may end: the system stops.
CHECK_DEADLOCK FALSE
