SPECIFICATION Spec
CONSTANTS
  Runs = {w1, w2}
  Fixtures = {f1}
  Selections = {1, 2}
  MaxKey = 1
  Earlier = Earlier
  None = None
  Sync = Sync
  Nobody = Nobody
INVARIANT RunsNeverDeadlock
