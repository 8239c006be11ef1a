SPECIFICATION Spec
CONSTANTS
  p1 = p1  p2 = p2  p3 = p3
  c1 = c1  c2 = c2
  Process = {p1, p2, p3}
  Client = {p1, p2}
  Home <- Own
  Resource = {1}
  Target <- OneTarget
  Claims <- NoClaims
  Free = Free  Vacant = Vacant  NoFile = NoFile
  MaxWrites = 1
  Crashes = TRUE  PidReuse = TRUE  Slow = {TRUE, FALSE}  Timeouts = TRUE  Collects = TRUE
INVARIANTS LiveLeasesKept ExclusionUnlessStolen
SYMMETRY Mirror
CHECK_DEADLOCK FALSE
