SPECIFICATION FairRpcSpec
CONSTANTS
  Objects = {o1, o2, o3}
  None = None
INVARIANTS NoDanglingWrapper
PROPERTIES CallEnds ImplementsCall
CHECK_DEADLOCK FALSE
