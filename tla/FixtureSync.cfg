SPECIFICATION Spec
CONSTANTS
  Runs = {r1, r2}
  Leases = {l1, l2}
  NoLease = NoLease
  Fixtures = {f1, f2}
  PastDays = 0
  FutureDays = 0
  LastDay = 0
  MaxVersion = 1
SYMMETRY Symmetry
INVARIANT TypeOK
INVARIANT ExclusiveWhileLeased
PROPERTY FreesASuccessorOnlyInARace
PROPERTY NoRegressionWithoutOverlap
PROPERTY UntouchedFixturesAreExact
