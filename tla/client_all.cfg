\* A user who waits, with a good disk and a bad one, and one who does not.
CONSTANTS
  MaxRequests = 4
  Worlds <- AllWorlds
  Hole = hole
SPECIFICATION FairSpec
INVARIANTS TypeOK DownloadWhole NoStrayClose PollsOpenSocket
PROPERTIES DownloadsSaved UdpComesBack
CHECK_DEADLOCK FALSE
