\* The button of one page is pressed twice.
SPECIFICATION AssetSpec
CONSTANTS
  r1 = r1
  r2 = r2
  q1 = q1
  q2 = q2
  Unreadable = Unreadable
  Lines <- OneLine
  Qty <- OneQty
  Forms <- OneForms
  Requests <- TwoRequests
  PageOf <- SamePage
  PageCap = 1
  MaxRows = 1
  MaxPages = 2
  Resolves <- NoResolves
  HasSource = FALSE
  MaxForms = 2
INVARIANTS
  OnePageBooksOnce
CHECK_DEADLOCK FALSE
