SPECIFICATION Spec
CONSTANTS
  Tabs = {b1, b2}
  Tokens = {t1, t2}
  NoToken = NoToken
  MaxActs = 5
  MaxOutages = 1
INVARIANT TypeOK
INVARIANT FormIsExplained
INVARIANT SurrenderedSessionsAreOver
PROPERTY NavigationsEnd
CHECK_DEADLOCK FALSE
