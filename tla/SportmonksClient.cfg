SPECIFICATION Spec
CONSTANTS
  Cursors = {c1, c2}
  First = First
  Nothing = Nothing
  Unpaged = Unpaged
  Nameless = Nameless
  Unstated = Unstated
  NaN = NaN
  Huge = Huge
  Resets <- SomeResets
  MaxPages = 3
  MaxAttempts = 3
  Budget = 3
  Timeout = 2
  Base = 1
  MaxDelay = 1
  LastAnswer = 5
CHECK_DEADLOCK FALSE
INVARIANT TypeOK
INVARIANT AnnouncedPagesAreRead
PROPERTY LateCallsSendNothing
PROPERTY HopelessIsNotRepeated
PROPERTY CallEnds
