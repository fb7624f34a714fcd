SPECIFICATION Spec
CONSTANTS
  f = f
  g = g
  i1 = i1
  i2 = i2
  j1 = j1
  p = p
  N = 6
  Instr = {i1, i2, j1}
  Cell = {p}
  Fun = {f, g}
  Programs <- MCPrograms
INVARIANTS ChecksFound ChecksExplained CountsAgree
