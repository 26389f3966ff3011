SPECIFICATION Spec
CONSTANTS
  a = a
  c = c
  early = early
  late = late
  Tasks = {t1, t2}
  Accounts = {a}
  Contracts = {c}
  Ranges = {early, late}
  Callbacks <- MCCallbacks
  MaxNow = 3
INVARIANTS FetchedIsThere AloneReadsFresh
CHECK_DEADLOCK FALSE
