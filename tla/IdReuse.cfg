SPECIFICATION Spec
CONSTANTS
  t1 = t1
  t2 = t2
  None = None
  Tasks <- MCTasks
  Names <- TwoNames
  Ids <- TwoIds
  Base <- TwoBase
  Salts <- OneSalt
  MaxCommands = 7
  MaxFailures = 0
  MaxLaunches = 0
SYMMETRY MCTaskSymmetry
INVARIANT RetiredIdsStayRetired
CHECK_DEADLOCK FALSE
