CONSTANTS
  Objects = {a, b, c}
  Handles = {r, s, t}
  Null = Null
SPECIFICATION Spec
SYMMETRY Symmetry
CONSTRAINT InScope
INVARIANTS HeapOK OwnersKept
