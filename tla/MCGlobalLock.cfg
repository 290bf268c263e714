CONSTANTS
  Threads = {t1, t2, t3}
  NoThread = NoThread
  MaxLevel = 3
SPECIFICATION Spec
INVARIANTS LevelRestored FullyReleased DepthIsCount IInv
PROPERTY ImplementsMonitor
