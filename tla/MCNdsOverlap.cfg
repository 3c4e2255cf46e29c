CONSTANTS
  o1 = o1
  o2 = o2
  o3 = o3
  o4 = o4
  Ops <- MCFour
  Gone = Gone
  Original = Original
  Nil = Nil
  Kinds = {"put", "delete"}
  Serial = FALSE
  Faults = {}
  LockValue <- MCOwnLocks
SPECIFICATION Spec
PROPERTIES NoStaleRead
CHECK_DEADLOCK FALSE
