CONSTANTS
  p1 = p1
  p2 = p2
  s1 = s1
  s2 = s2
  i1 = i1
  i2 = i2
  Callers <- MCCallers
  Sweepers <- MCSweepers
  Ids <- MCIds
  Absent = Absent
  DeleteAfter = 1
  ClearOutAfter = 1
  Faults = {"get", "put", "query", "del", "conflict"}
  MaxVersion = 1
  MaxTime = 2
SPECIFICATION Spec
SYMMETRY MCSymmetry
INVARIANTS TypeOK ClearOutsAreApart
PROPERTIES EntityLivesItsTime ImplementsSequentialStore
