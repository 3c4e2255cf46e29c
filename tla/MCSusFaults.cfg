CONSTANTS
  p1 = p1
  p2 = p2
  i1 = i1
  i2 = i2
  Callers <- MCCallers
  Ids <- MCOneId
  Absent = Absent
  Free = Free
  Faults = {"get", "marshal", "put", "del"}
  MaxVersion = 3
SPECIFICATION FairSpec
PROPERTIES NoResurrection EveryCallReturns
