\* The timeout check clears a slot the UDP thread is using.
CONSTANTS
  Ids = {i1, i2}
  MaxRequests = 2
  Worlds <- SlowWorld
  Hole = hole
SYMMETRY Symmetry
SPECIFICATION Spec
INVARIANT PublishedWhole
CHECK_DEADLOCK FALSE
