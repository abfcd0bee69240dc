SPECIFICATION FairSpec
CONSTANTS
  w1 = w1
  w2 = w2
  a = a
  b = b
  x = x
  q = q
  c1 = c1
  c2 = c2
  Workers = {w1, w2}
  WorkerName <- SharedName
  NumLists = 2
  Items = {a}
  ItemList <- OneItemInSecond
  Identities = {x}
  ItemIdentity <- IdentityOfOne
  Listed = {a}
  OtherPlaces = {q}
  Collections = {c1, c2}
  Target <- OwnTargets
  TargetKind <- BothNew
  PriorBinding <- Unbound
  Elsewhere = Elsewhere
  NoWorker = NoWorker
  NoItem = NoItem
  NoPlace = NoPlace
  MaxFaults = 1
  MaxResumes = 1
  MaxInterference = 1
  MaxReviews = 1
  MaxClaims = 4
INVARIANTS
  IInv
  CancelHonoured
  CompletedMeansApplied
  ViewHonest
PROPERTIES
  ImplementsPromise
  ImportSettles
CHECK_DEADLOCK FALSE
