SPECIFICATION Spec
CONSTANTS
  member = member
  a1 = a1
  a2 = a2
  a3 = a3
  c1 = c1
  c2 = c2
  c3 = c3
  l1 = l1
  l2 = l2
  None = None
  Acquisitions = {a1, a2, a3}
  Links = {l1}
  Workers = {w1, w2}
  WorkerName <- SharedName
  Calls = {c1, c2, c3}
  OwnerOf <- OneMember
  CommandOf <- ThreeCommands
  Inspections <- AllSucceed
  ActiveLimit = 2
  MaxFaults = 0
  Watched = {}
SYMMETRY BatchSymmetry
INVARIANTS
  OneLeasePerMember
