\* A divergence from the documentation: TimeoutIsRetryable.
SPECIFICATION Spec
CONSTANTS
  MaxSteps = 1
  Faults = {}
  MaxFaults = 0
PROPERTIES
  TimeoutIsRetryable
