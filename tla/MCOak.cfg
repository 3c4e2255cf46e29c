CONSTANTS
  c1 = c1
  c2 = c2
  w1 = w1
  w2 = w2
  i1 = i1
  i2 = i2
  u1 = u1
  u2 = u2
  a1 = a1
  Clients <- MCClients
  Workers <- MCWorkers
  Ids <- MCOneId
  Users <- MCUsers
  Acts <- MCActs
  None = None
  OneAtATime = FALSE
  Faults = {"lost", "save", "maxage", "clearout"}
  MaxVersion = 2
SPECIFICATION Spec
SYMMETRY MCSymmetry
INVARIANTS TypeOK AnsweredActs SeatsAreDistinct TellsTheStored
PROPERTIES NobodyComesBack ImplementsSequentialStore
