SPECIFICATION Spec
SYMMETRY WorkerSymmetry
CONSTANTS
  w1 = w1
  w2 = w2
  a = a
  b = b
  x = x
  q = q
  c1 = c1
  c2 = c2
  Workers = {w1, w2}
  WorkerName <- SharedName
  NumLists = 2
  Items = {a, b}
  ItemList <- OneItemPerList
  Identities = {x}
  ItemIdentity <- OneIdentity
  Listed = {a}
  OtherPlaces = {q}
  Collections = {c1}
  Target <- SharedTarget
  TargetKind <- BothExisting
  PriorBinding <- SecondBound
  Elsewhere = Elsewhere
  NoWorker = NoWorker
  NoItem = NoItem
  NoPlace = NoPlace
  MaxFaults = 1
  MaxResumes = 1
  MaxInterference = 1
  MaxReviews = 2
  MaxClaims = 4
INVARIANTS
  AgreementInv
  LibraryAgrees
  IdentitiesAgree
PROPERTIES
  LibraryWrittenOnce
  FinalIsFinal
CHECK_DEADLOCK FALSE
