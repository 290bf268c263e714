\* One worker, as AFF4Image_finish chooses by default, and two jobs.
CONSTANTS
  Workers = {w1}
  Main = main
  Threads = {w1, main}
  Data = {j1, j2}
  NoData = NoData
  maxsize = 1
  Spurious = FALSE
SPECIFICATION Spec
INVARIANTS JoinRunsAll
