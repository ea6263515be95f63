\* The defaults in units of five seconds; any two slow or lost requests.
SPECIFICATION Spec
CONSTANTS
  MaxRows = 2
  MaxAttempts = 2
  HeartbeatInterval = 1
  RequestTimeout = 6
  LeaseSeconds = 12
  DeadAfter = 6
  ReaperInterval = 1
  MaxSlow = 2
INVARIANTS
  TypeOK
  PunctualWorkerIsOnline
  RunKeepsItsLease
  OnlineMeansHeard
  AbandonedAttemptEnds
