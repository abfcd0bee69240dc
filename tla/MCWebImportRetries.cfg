SPECIFICATION FairSpec
CONSTANTS
  member = member
  a1 = a1
  a2 = a2
  a3 = a3
  c1 = c1
  c2 = c2
  c3 = c3
  l1 = l1
  l2 = l2
  None = None
  Acquisitions = {a1}
  Links = {l1, l2}
  Workers = {w1, w2}
  WorkerName <- SharedName
  Calls = {c1, c2}
  OwnerOf <- OneMember
  CommandOf <- OneCommand
  Inspections <- Mixed
  ActiveLimit = 1
  MaxFaults = 1
  Watched = {a1}
INVARIANTS
  IInv
  SnapshotIsDelivered
  StoredIsTracked
  ViewWellFormed
PROPERTIES
  FinalIsFinal
  AcquisitionSettles
