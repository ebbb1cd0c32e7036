\* One user form.
SPECIFICATION Spec
CONSTANTS
  v1 = v1
  y1 = y1
  o1 = o1
  p1 = p1
  f1 = f1
  None = None
  ra = ra
  rb = rb
  Roles <- TwoRoles
  Sites = {"s1"}
  Saves <- OneSave
  Syncs <- Nobody
  Rotates <- Nobody
  Repairs <- Nobody
  Forms <- Nobody
INVARIANTS
  PushIsRecorded
\* Every request may be answered: the system stops.
CHECK_DEADLOCK FALSE
SYMMETRY RoleSymmetry
