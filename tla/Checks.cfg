SPECIFICATION Spec
CONSTANTS
  N = 5
  Functions <- MCFunctions
  Graphs <- FiveBlockGraphs
  BlockFlags <- MixedFlags
  MaxFlagged = 3
  Conditions <- SharedConditions
INVARIANTS HandlerGuardsFound ChecksHaveCause OneCheckPerCondition
