\* A post arrives while a round is sent.
CONSTANTS
  MaxFeeds = 1
  MaxPosts = 2
  MaxSubs = 1
  NetFails = FALSE
SPECIFICATION Spec
INVARIANT EveryPostNotified
CHECK_DEADLOCK FALSE
