\* Two clients, messages with and without CR, in calm and not.
CONSTANTS
  c1 = c1
  c2 = c2
  Clients = {c1, c2}
  IdMax = 2
  Inputs <- MCInputs
  Ids = {1, 104}
  NewFeeds = {2, 13}
  Post <- MCPost
  MaxPosts = 1
  MaxConns = 2
  Ends = {7}
  Earlier <- MCEarlier
SPECIFICATION FairSpec
INVARIANTS TypeOK RequestAsSent AnswerAsSent AccountsKept
PROPERTY EveryoneServed
CHECK_DEADLOCK FALSE
