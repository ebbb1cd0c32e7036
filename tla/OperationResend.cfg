\* One form with a temporary line, sent twice.
SPECIFICATION Spec
CONSTANTS
  s1 = s1
  s2 = s2
  far = far
  gone = gone
  i1 = i1
  i2 = i2
  p1 = p1
  c1 = c1
  c2 = c2
  k1 = k1
  k2 = k2
  None = None
  Sites <- ThreeSites
  Pages <- OnePage
  FixedSite <- Unbound
  Available <- All
  Operable <- All
  Inputs <- OneInput
  Creates <- TwoCreates
  Submits <- Submit1
  Cancels <- NoCancels
INVARIANTS
  ResendCreatesOnce
CHECK_DEADLOCK FALSE
