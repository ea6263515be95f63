\* Three jobs of two priorities, each stamped twice at most.
SPECIFICATION FairSpec
CONSTANTS
  Jobs = {1, 2, 3}
  Priorities = {0, 1}
  Base = 64
  Ulp = 2
  MaxAttempts = 2
  MaxTime = 3
CHECK_DEADLOCK FALSE
INVARIANT TypeOK
PROPERTIES
  PoppedInOrder
  QueuedJobIsPopped
