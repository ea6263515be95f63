\* Requests served one at a time, two workers, any one fault: what happens in the end.
SPECIFICATION FairSpec
CONSTANTS
  Jobs = {j1}
  Workers = {w1, w2}
  Attempts = {a1, a2, a3, a4}
  MaxAttempts = 2
  MaxOpen = 1
  Faults = {"server", "redis", "reaper", "worker", "network"}
  MaxFaults = 1
PROPERTIES
  EveryJobEnds
  ScheduledRetryIsPromoted
  LapsedLeaseIsHandled
