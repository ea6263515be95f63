\* Any two requests (or a request and a tick) interleaved, and one crash, failed tick or loss of Redis.
SPECIFICATION HistorySpec
CONSTANTS
  Jobs = {j1}
  Workers = {w1, w2}
  Attempts = {a1, a2, a3}
  MaxAttempts = 2
  MaxOpen = 2
  Faults = {"server", "reaper", "redis"}
  MaxFaults = 1
SYMMETRY WorkerSymmetry
INVARIANTS
  TypeOK
  Consistent
  QueuedJobHasUnclaimedAttempt
  RetryBudget
  OneLeaseUnlessOvertaken
  PermanentUnlessOvertaken
  OneHolderUnlessOvertaken
PROPERTIES
  UnclaimedAttemptOnlyClaimed
  LifecycleUnlessOvertaken
