CONSTANTS
  o1 = o1
  o2 = o2
  o3 = o3
  o4 = o4
  Ops <- MCFour
  Gone = Gone
  Original = Original
  Nil = Nil
  Kinds = {"put"}
  Serial = FALSE
  Faults = {"evict", "mcread", "mcset", "dsread"}
  LockValue <- MCOwnLocks
SPECIFICATION Spec
SYMMETRY MCSymmetry
INVARIANTS TypeOK CacheCoherent
PROPERTIES NoStaleRead
CHECK_DEADLOCK FALSE
