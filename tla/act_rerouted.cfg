SPECIFICATION RootsSpec
CONSTANTS
  RootCalls = {c1, c2}
  RootActors = {a1, a2}
  Windows = {1, 2, 3}
  FirstWindows = {1}
  Pages = {p1}
  IdOf <- MCIdOf
  TitleOf <- MCTitleOf
  Over <- NoModal
  MaxRootCalls = 3
  MaxEvents = 2
INVARIANT DispatchedToObservedRoot
CHECK_DEADLOCK FALSE
