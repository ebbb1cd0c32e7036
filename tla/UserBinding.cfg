\* A save, a sync, a rotation, a repair and a form of the binding, in any order and overlap.
SPECIFICATION Spec
CONSTANTS
  v1 = v1
  y1 = y1
  o1 = o1
  p1 = p1
  f1 = f1
  None = None
  ra = ra
  rb = rb
  Roles <- TwoRoles
  Sites = {"s1"}
  Saves <- OneSave
  Syncs <- OneSync
  Rotates <- OneRotate
  Repairs <- OneRepair
  Forms <- OneForm
INVARIANTS
  TypeOK
  WrongTokenIsFlagged
  SettledProfileIsExact
PROPERTIES
  TokenGoesBackOnlyByRace
\* Every request may be answered: the system stops.
CHECK_DEADLOCK FALSE
SYMMETRY RoleSymmetry
