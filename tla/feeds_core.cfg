\* Both threads open feeds, the table of users moves, and slots time out.
CONSTANTS
  Ids = {i1, i2}
  UserMax = 2
  Pseudos = {ann, bob}
  Nobody = nobody
  None = none
  Payloads = {1, 2, 3}
  Nameless = nameless
  PostFeeds = {0, 1, 3}
  UploadFeeds = {0, 1}
  FeedNbMax = 2
  U16 = 8
  InitCap = 1
  OldDirs = {1}
  DiskFaults = FALSE
SPECIFICATION FairSpec
CONSTRAINT InTurn
INVARIANTS TypeOK RepliesTruthful NoOrphanFeed FilesAnnounced
PROPERTIES RequestsEnd SignedBySender ImplementsBoard
CHECK_DEADLOCK FALSE
