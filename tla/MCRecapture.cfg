SPECIFICATION CaptureSpec
CONSTANTS
  c1 = c1
  c2 = c2
  acc1 = acc1
  acc2 = acc2
  p = p
  q = q
  r = r
  Captures = {c1, c2}
  Accounts = {acc1, acc2}
  Contents = {p, q, r}
  Listings <- OneListing
  None = None
  MaxGrants = 1
  MaxChanges = 1
INVARIANTS RecaptureRecorded
CHECK_DEADLOCK FALSE
