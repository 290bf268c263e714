\* Three objects, two of which have the same URN, two clients, five entries.
\* When every object has been closed and freed nothing is left to do.
CONSTANTS
  Objects = {1, 2, 3}
  NUrns = 2
  Clients = {c1, c2}
  MaxEntries = 5
SPECIFICATION Spec
INVARIANTS NewestEntryOwns UnreturnedIsGone HeldIsAlive
CHECK_DEADLOCK FALSE
