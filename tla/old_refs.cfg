SPECIFICATION Spec
CONSTANTS
  Calls = {c1, c2}
  Queries = {"item"}
  Ops = {"observe", "expand", "inspect"}
  Uis <- MCUis
  FirstUi <- MCFirstUi
  Changed <- MCChanged
  Reason <- MCReason
  Slices = {1, 4}
  MaxDepth = 1
  MaxNodes = 6
  StateLimit = 2
  MaxCalls = 3
  MaxChanges = 0
INVARIANT OldRefsResolve
SYMMETRY CallSymmetry
