\* One request executed twice: its idempotent tools are called again.
SPECIFICATION Spec
CONSTANTS
  j1 = j1
  j2 = j2
  j3 = j3
  Jobs <- OneJob
  Request <- AskedOnce
  MaxTurns = 1
  MaxRuns = 2
  MaxMishaps = 0
INVARIANT NeverRepeated
CHECK_DEADLOCK FALSE
