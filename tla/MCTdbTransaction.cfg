\* Two processes, pages of two cells, room for a second recovery area and an
\* expansion; two transactions, two crashes, kills, failed writes or full
\* disks, so that a recovery is interrupted as well.
CONSTANTS
  Procs = {p1, p2}
  NoProc = NoProc
  BlockSize = 2
  BaseSize = 5
  Targets = {3, 4}
  MaxSize = 20
  MaxTxns = 2
  MaxFaults = 2
  MaxNesting = 1
SYMMETRY Symmetry
SPECIFICATION Spec
CONSTRAINT InScope
INVARIANTS TypeOK Atomic NestedCancelFails OpenSucceeds
