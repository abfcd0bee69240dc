SPECIFICATION MCPlacesSpec
CONSTANTS
  x1 = x1
  x2 = x2
  x3 = x3
  i1 = i1
  i2 = i2
  o1 = o1
  o2 = o2
  d1 = d1
  d2 = d2
  Places = {x1, x2, x3}
  Identities = {i1, i2}
  Decisions = {d1, d2}
  Contributions = {o1, o2}
  IdentityOf <- TwoIdentities
  Addressed = {o2}
  PageSize = 1
  MaxFailures = 1
  None = None
INVARIANTS PlacesInv ReferencesResolve
PROPERTIES ProfilesAdvance RebuildCovers
SYMMETRY DecisionSymmetry
CHECK_DEADLOCK FALSE
