\* Two attempts, two presses of the button, any answer, a crash.
SPECIFICATION FairSpec
CONSTANTS
  Attempts = {a1, a2}
  Triggers = {t1, t2}
  Provider = "anthropic"
  MaxFaults = 1
CHECK_DEADLOCK FALSE
INVARIANTS
  TypeOK
  OneAnalysisPerAttempt
PROPERTIES
  CallsEnd
  ReportedFailureIsAnalysed
