\* A code bug: TerminalAttemptIsFinal. No fault.
SPECIFICATION Spec
CONSTANTS
  Jobs = {j1}
  Workers = {w1, w2}
  Attempts = {a1, a2, a3, a4}
  MaxAttempts = 2
  MaxOpen = 2
  Faults = {}
  MaxFaults = 0
PROPERTIES
  TerminalAttemptIsFinal
CHECK_DEADLOCK FALSE
