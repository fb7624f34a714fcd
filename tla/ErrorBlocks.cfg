SPECIFICATION Spec
CONSTANTS
  i1 = i1
  i2 = i2
  p = p
  N = 3
  Instr = {i1, i2}
  Cell = {p}
  Bodies <- MCBodies
INVARIANTS TypeOK FlowSound FlowExact SelectsExact HandlersAdded
PROPERTIES Termination
