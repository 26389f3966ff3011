SPECIFICATION Spec
CONSTANTS
  Tasks = {t1, t2}
  Careless = {t1}
  MaxMethods = 3
INVARIANTS ContextsRestored OwnLayout MethodsBelongToTransaction
PROPERTIES RefusalHasCause
CHECK_DEADLOCK FALSE
