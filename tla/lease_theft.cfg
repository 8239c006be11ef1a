SPECIFICATION Spec
CONSTANTS
  p1 = p1  p2 = p2  p3 = p3
  c1 = c1  c2 = c2
  Process = {p1, p2, p3}
  Client = {p1, p2}
  Home <- Own
  Resource = {1}
  Target <- OneTarget
  Claims <- NoClaims
  Free = Free  Vacant = Vacant  NoFile = NoFile
  MaxWrites = 1
  Crashes = TRUE  PidReuse = FALSE  Slow = {FALSE}  Timeouts = FALSE  Collects = FALSE
INVARIANT ReplacementKept
CHECK_DEADLOCK FALSE
