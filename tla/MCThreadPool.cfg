SPECIFICATION BackendSpec
CONSTANTS
  Calls = {c1, c2, c3, c4}
  Workers = {w1, w2}
  InitMayFail = TRUE
  ExitMayFail = TRUE
PROPERTIES FailedInitIsFinal ImplementsLease EveryCallSettles RunsHaveWorkers
CHECK_DEADLOCK FALSE
