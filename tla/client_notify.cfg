\* Two subscriptions, the second of which may move the queues.
CONSTANTS
  InitCap = 1
  MaxSubs = 2
  MaxMsgs = 4
SPECIFICATION FairSpec
INVARIANTS TypeOK ShownInOrder NothingLost
PROPERTY NotificationsTaken
CHECK_DEADLOCK FALSE
