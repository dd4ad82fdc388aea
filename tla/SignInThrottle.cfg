SPECIFICATION MCSpec
CONSTANTS
  Attempts = {a1, a2, a3}
  Window = 2
  Permitted = 1
  MaxClock = 5
  Never = Never
  Hops = 1
  Networks = {n1, n2}
  Own = Own
  MaxForged = 2
SYMMETRY Symmetry
CHECK_DEADLOCK FALSE
INVARIANT TypeOK
INVARIANT RefusedOnlyWhenSpent
INVARIANT AdmitsTheRate
INVARIANT NeverOnlyAfterAStall
INVARIANT OneBucketPerClient
