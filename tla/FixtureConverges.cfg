SPECIFICATION Spec
CONSTANTS
  Runs = {r1, r2}
  Leases = {l1, l2}
  NoLease = NoLease
  Fixtures = {f1}
  PastDays = 0
  FutureDays = 0
  LastDay = 1
  MaxVersion = 1
PROPERTY TableConverges
