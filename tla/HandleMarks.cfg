SPECIFICATION Spec
CONSTANTS
  N = 3
  Functions <- MCFunctions
  Graphs <- SortedGraphs
  BlockFlags <- MixedFlags
  MaxFlagged = 2
  Conditions <- OwnCondition
INVARIANTS HandleSound HandleExact
PROPERTIES MarksKept ImplementsHandleClosure Termination
