SPECIFICATION FairSpec
CONSTANTS
  p1 = p1  p2 = p2  p3 = p3
  c1 = c1  c2 = c2
  Process = {p1, p2}
  Client = {c1, c2}
  Home <- PairHome
  Resource = {1, 2}
  Target <- OneTarget
  Claims <- PairClaims
  Free = Free  Vacant = Vacant  NoFile = NoFile
  MaxWrites = 2
  Crashes = TRUE  PidReuse = FALSE  Slow = {FALSE}  Timeouts = TRUE  Collects = FALSE
INVARIANT NoCircularWait
PROPERTIES ImplementsFence EveryOperationEnds AbandonedLeaseReclaimed
CHECK_DEADLOCK FALSE
