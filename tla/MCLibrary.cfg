SPECIFICATION MCLibrarySpec
CONSTANTS
  k1 = k1
  k2 = k2
  x1 = x1
  x2 = x2
  x3 = x3
  l1 = l1
  l2 = l2
  l3 = l3
  o1 = o1
  o2 = o2
  o3 = o3
  Collections = {k1, k2}
  Places = {x1, x2, x3}
  Operations = {o1, o2, o3}
  Commands <- ClientCommands
  Links = {l1, l2, l3}
  Copyable = 2
  MaxImports = 1
  All = All
  None = None
INVARIANTS LibraryInv AnswersAgree
PROPERTIES StaleRefused OrderKept
SYMMETRY OperationSymmetry
CHECK_DEADLOCK FALSE
