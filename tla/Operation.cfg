\* One form, two sends of it, one submit and one cancel.
SPECIFICATION FairSpec
CONSTANTS
  s1 = s1
  s2 = s2
  far = far
  gone = gone
  i1 = i1
  i2 = i2
  p1 = p1
  c1 = c1
  c2 = c2
  k1 = k1
  k2 = k2
  None = None
  Sites <- ThreeSites
  Pages <- OnePage
  FixedSite <- Bound
  Available <- Access
  Operable <- Rights
  Inputs <- SomeInputs
  Creates <- TwoCreates
  Submits <- Submit1
  Cancels <- Cancel1
INVARIANTS
  TypeOK
  StoredIsWellFormed
  MessageTellsTruth
  LeftFormIsStored
  SecondOnlyAfterTimeout
PROPERTIES
  EveryPressAnswered
\* Every request may be answered: the system stops.
CHECK_DEADLOCK FALSE
