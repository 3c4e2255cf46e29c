CONSTANTS
  o1 = o1
  o2 = o2
  o3 = o3
  o4 = o4
  Ops <- MCFour
  Gone = Gone
  Original = Original
  Nil = Nil
  Kinds = {"put", "txput", "delete"}
  Serial = TRUE
  Faults = {"mcread", "mcset", "mcdelete", "dsread", "dswrite", "crash"}
  LockValue <- MCOwnLocks
SPECIFICATION Spec
SYMMETRY MCSymmetry
INVARIANTS CacheCoherent FreshRead
PROPERTIES NoStolenLock
CHECK_DEADLOCK FALSE
