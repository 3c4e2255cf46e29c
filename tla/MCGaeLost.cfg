CONSTANTS
  p1 = p1
  p2 = p2
  s1 = s1
  s2 = s2
  i1 = i1
  i2 = i2
  Callers <- MCCallers
  Sweepers <- MCSweepers
  Ids <- MCOneId
  Absent = Absent
  DeleteAfter = 2
  ClearOutAfter = 1
  Faults = {}
  MaxVersion = 2
  MaxTime = 1
SPECIFICATION Spec
SYMMETRY MCSymmetry
PROPERTIES NoLostUpdate
