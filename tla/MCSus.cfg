CONSTANTS
  p1 = p1
  p2 = p2
  i1 = i1
  i2 = i2
  Callers <- MCCallers
  Ids <- MCIds
  Absent = Absent
  Free = Free
  Faults = {"get"}
  MaxVersion = 2
SPECIFICATION Spec
SYMMETRY MCSymmetry
INVARIANTS TypeOK VersionIdentifiesState RefusedUpdateKeepsVersions AcceptedUpdateIsStored
PROPERTIES NoLostUpdate ImplementsSequentialStore
