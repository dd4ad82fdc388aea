SPECIFICATION Spec
CONSTANTS
  Accounts = {a1}
  Sessions = {s1}
  Requests = {r1}
  Operators = {o1}
  Forms = {}
  Lifetime = 1
  MaxTime = 2
  MaxVersion = 1
INVARIANT ReplacementEndsItsSessions
