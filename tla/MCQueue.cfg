\* Two putters, two getters, a thread that removes and a queue of two places;
\* every wait may time out or end spuriously.
CONSTANTS
  Threads = {p1, p2, g1, g2, r1}
  Putting = {p1, p2}
  Getting = {g1, g2}
  Removing = {r1}
  Data = {d1, d2, d3, d4, d5}
  NoData = NoData
  maxsize = 2
  Spurious = TRUE
SPECIFICATION Spec
INVARIANTS Fifo SizeIsLength NoLostWakeup IInv SurvivorsInOrder
