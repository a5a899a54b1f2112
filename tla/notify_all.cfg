\* Posts, feeds and subscriptions arrive during the rounds; sending may fail.
CONSTANTS
  MaxFeeds = 2
  MaxPosts = 2
  MaxSubs = 2
  NetFails = TRUE
SPECIFICATION FairSpec
INVARIANTS TypeOK SentInOrder GroupOfFeed
PROPERTY CaughtUp
CHECK_DEADLOCK FALSE
