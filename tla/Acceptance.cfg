\* Two requests on three lines, read one row per call, two rows at most.
SPECIFICATION FairAssetSpec
CONSTANTS
  r1 = r1
  r2 = r2
  q1 = q1
  q2 = q2
  Unreadable = Unreadable
  Lines <- ThreeLines
  Qty <- ThreeQty
  Forms <- ThreeForms
  Requests <- TwoRequests
  PageOf <- OwnPage
  PageCap = 1
  MaxRows = 2
  MaxPages = 3
  Resolves <- TwoResolves
  HasSource = TRUE
  MaxForms = 3
INVARIANTS
  AssetTypeOK
  MessageTellsTruth
  ConflictOnlyByRace
  ResolveMessageTellsTruth
PROPERTIES
  UnracedVerdictIsExact
  LedgerSpec
  AssetLedgerSpec
  EveryRequestAnswered
\* Every request may be answered: the system stops.
CHECK_DEADLOCK FALSE
