\* The pool of the server; any loop may give up at any time.
CONSTANTS
  PoolSize = 3
  Jobs = 3
  MayEnd = {1, 2, 3}
SPECIFICATION FairSpec
INVARIANTS TypeOK JobOnce
PROPERTIES ImplementsJobPool JobsStart AllEndedExits
CHECK_DEADLOCK FALSE
