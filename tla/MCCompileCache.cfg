SPECIFICATION Spec
CONSTANTS
  t1 = t1
  t2 = t2
  t3 = t3
  p1 = p1
  p2 = p2
  v1 = v1
  v2 = v2
  Shared = Shared
  Compiles = {t1, t2, t3}
  ProcOf <- MCProcOf
  VersionOf <- MCVersionOf
  Choices <- MCChoices
  MaxFaults = 2
INVARIANTS WholeEntriesMatch KeyIsOwn SrsCacheReleased
PROPERTIES AssertionHasCause
CHECK_DEADLOCK FALSE
