\* Uploads may open feeds too: two threads in feed_new at once.
CONSTANTS
  Ids = {i1, i2}
  UserMax = 2
  Pseudos = {ann, bob}
  Nobody = nobody
  None = none
  Payloads = {a, b, c}
  Nameless = nameless
  PostFeeds = {0, 1}
  UploadFeeds = {0, 1}
  FeedNbMax = 2
  U16 = 8
  InitCap = 8
  OldDirs = {1}
  DiskFaults = FALSE
SPECIFICATION Spec
INVARIANT CreatorPostsFirst
CHECK_DEADLOCK FALSE
