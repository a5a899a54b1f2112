\* Posts of 12, 13 and 269 characters, by a user who logs in.
CONSTANTS
  c1 = c1
  c2 = c2
  Clients = {c1}
  Earlier <- MCEarlier
  IdMax = 2
  Inputs <- MCLongInputs
  Ids = {4}
  NewFeeds = {2}
  Post <- MCPost
  MaxPosts = 1
  MaxConns = 2
  Ends = {7}
SPECIFICATION Spec
INVARIANT PostHandledAsTyped
CHECK_DEADLOCK FALSE
