SPECIFICATION RerunSpec
CONSTANTS
  N = 3
  Functions <- MCFunctions
  Graphs <- OrderedGraphs
  BlockFlags <- ReturnFlags
  MaxFlagged = 2
  Conditions <- OwnCondition
INVARIANTS TypeOK ErrBlocksFenced MustHasOrigin OrderIndependent
