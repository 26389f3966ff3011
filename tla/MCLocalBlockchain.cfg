SPECIFICATION Spec
CONSTANTS
  a = a
  b = b
  Sends = {s1, s2}
  Payers = {p, q}
  Accounts = {a, b}
  Versions = {1, 2}
  Contents = {"x"}
  Templates <- MCTemplates
  Deployed = {0, 1}
INVARIANTS StoreMatchesLedger SlicesCompose
PROPERTIES StaleKeyNeverApplied
CHECK_DEADLOCK FALSE
