\* A code bug: OrphanedJobIsRequeued. The server crashes once.
SPECIFICATION FairSpec
CONSTANTS
  Jobs = {j1}
  Workers = {w1, w2}
  Attempts = {a1, a2, a3, a4}
  MaxAttempts = 2
  MaxOpen = 1
  Faults = {"server"}
  MaxFaults = 1
PROPERTIES
  OrphanedJobIsRequeued
CHECK_DEADLOCK FALSE
