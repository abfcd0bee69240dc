SPECIFICATION CaptureFairSpec
CONSTANTS
  c1 = c1
  acc1 = acc1
  acc2 = acc2
  p = p
  q = q
  r = r
  c2 = c2
  Captures = {c1}
  Accounts = {acc1, acc2}
  Contents = {p, q, r}
  Listings <- TwoVersions
  None = None
  MaxGrants = 2
  MaxChanges = 3
INVARIANTS CaptureInv
PROPERTIES CaptureStays CaptureSettles
