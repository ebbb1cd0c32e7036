\* One temporary item, two conversions of it, a merge and a delete, all at once.
SPECIFICATION Spec
CONSTANTS
  t1 = t1
  g1 = g1
  a1 = a1
  a2 = a2
  m1 = m1
  d1 = d1
  None = None
  Temps <- OneTemp
  Cards <- OneCard
  Approvals <- TwoApprovals
  Merges <- OneMerge
  Deletes <- OneDelete
INVARIANTS
  TypeOK
  MessageTellsTruth
  NoSilentOrphan
  CardLostOnlyByTimeout
\* Every request may be answered: the system stops.
CHECK_DEADLOCK FALSE
SYMMETRY Moderators
