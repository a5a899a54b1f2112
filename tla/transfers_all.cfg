\* A good network and clients who wait; and networks and clocks that are not.
CONSTANTS
  Ids = {i1, i2}
  MaxRequests = 3
  Worlds <- AllWorlds
  Hole = hole
SPECIFICATION FairSpec
INVARIANTS TypeOK PublishedWhole ServerLives OncePerRequest Isolation
PROPERTIES UploadsComplete SlotsReleased
CHECK_DEADLOCK FALSE
