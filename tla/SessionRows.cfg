SPECIFICATION Spec
CONSTANTS
  Accounts = {a1}
  Sessions = {s1}
  Requests = {r1}
  Operators = {o1}
  Forms = {f1}
  Lifetime = 1
  MaxTime = 3
  MaxVersion = 1
PROPERTY FirstRevocationIsPermanent
PROPERTY RowOutlivesItsToken
PROPERTY EveryRowIsCollected
