SPECIFICATION Spec
CONSTANTS
  Calls = {c1, c2}
  Queries = {"item"}
  Ops = {"observe", "search", "expand", "inspect", "press", "set"}
  Uis <- MCUis
  FirstUi <- MCFirstUi
  Changed <- MCChanged
  Reason <- MCReason
  Slices = {1, 5}
  MaxDepth = 1
  MaxNodes = 3
  StateLimit = 2
  MaxCalls = 3
  MaxChanges = 1
INVARIANTS RefNamesOneElement OneEpochPerState CompleteIndexIsWhole
PROPERTY RefsKeepMeaning
SYMMETRY CallSymmetry
