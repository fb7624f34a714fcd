SPECIFICATION Spec
CONSTANTS
  f1 = f1
  f2 = f2
  f3 = f3
  NoFunc = NoFunc
  Func = {f1, f2, f3}
  Code <- MCCode
INVARIANT AnswerExact
