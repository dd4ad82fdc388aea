SPECIFICATION Spec
CONSTANTS
  Runs = {w1, w2, w3}
  Fixtures = {f1}
  Selections = {1, 2}
  MaxKey = 2
  Earlier = Earlier
  None = None
  Sync = Sync
  Nobody = Nobody
INVARIANT TypeOK
INVARIANT NoOrphans
INVARIANT MixedOnlyWhenDisjoint
INVARIANT DeadlocksNeedADelete
PROPERTY CommitLeavesTheRead
SYMMETRY Symmetry
