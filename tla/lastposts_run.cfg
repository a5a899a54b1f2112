\* Arrays of two elements at first, so that they move under the reader; mkdir
\* fails and feed numbers wrap.
CONSTANTS
  Ids = {i1}
  UserMax = 1
  Pseudos = {ann}
  Nobody = nobody
  None = none
  Payloads = {a, b, c, d}
  Nameless = nameless
  PostFeeds = {0, 1}
  UploadFeeds = {0, 1}
  FeedNbMax = 3
  U16 = 3
  InitCap = 2
  OldDirs = {2}
  DiskFaults = TRUE
  AskedFeeds = {0, 1, 2}
  AskedCounts = {0, 1, 2}
  Garbage = garbage
SYMMETRY Symmetry
SPECIFICATION LPSpec
INVARIANTS UnbrokenRun PostTargetExists
CHECK_DEADLOCK FALSE
