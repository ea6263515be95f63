\* Pipelines of up to three steps, any two faults; fair.
SPECIFICATION FairSpec
CONSTANTS
  MaxSteps = 3
  Faults = {"docker", "transport", "worker"}
  MaxFaults = 2
INVARIANTS
  TypeOK
  SuccessMeansStepsPassed
  RealFailureIsPermanent
  NothingLeftBehind
PROPERTIES
  ImplementsRun
  StepsRunOneAtATime
  RunEnds
  ContainerStops
