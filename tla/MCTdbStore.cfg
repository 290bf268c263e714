CONSTANTS
  p1 = p1
  p2 = p2
  Procs = {p1, p2}
  Keys = {0, 1, 2}
  HashSize = 2
  Lengths = {1, 3}
  InitKeys = {0, 2}
  InitLen = 1
  DeadLimits = {0, 1}
  Page = 4
  ExpandBy = 1
  MaxMap = 16
  MaxOps = 2
  MaxTraversals = 1
  MaxFaults = 1
SPECIFICATION Spec
SYMMETRY Symmetry
INVARIANTS FileOK NoSpaceLost NoSpaceShared FindsStored TraversalComplete
