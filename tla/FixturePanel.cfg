SPECIFICATION Spec
CONSTANTS
  Reads = {r1, r2}
  Markets = {m1, m2}
  MaxVersion = 2
  MaxClicks = 5
INVARIANT TypeOK
INVARIANT OneReadAtATime
INVARIANT ShowsOneSynchronization
PROPERTY KeepsThePanelsPromise
CHECK_DEADLOCK FALSE
