SPECIFICATION Spec
CONSTANTS
  f1 = f1
  f2 = f2
  f3 = f3
  f4 = f4
  f5 = f5
  f6 = f6
  f7 = f7
  g = g
  h = h
  NoFun = NoFun
  Fun = {f1, f2, f3, f4, f5, f6, f7, g, h}
  Programs <- MCPrograms
INVARIANTS TypeOK StagesAgree ParametersAgree TotalsCover BackwardExact SeesCheckBefore
PROPERTIES Termination
