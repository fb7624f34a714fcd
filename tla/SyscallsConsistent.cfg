SPECIFICATION Spec
CONSTANTS
  a = a
  b = b
  c = c
  d = d
  A = A
  B = B
  SyS = SyS
  sys = sys
  N1 = N1
  N2 = N2
  F = F
  G = G
  s = s
  t = t
  l = l
  n1 = n1
  n2 = n2
  n3 = n3
  W32 = W32
  W64 = W64
  NoFun = NoFun
  NoName = NoName
  NoNode = NoNode
  Dangling = Dangling
  Fun = {a, b, c, d}
  Name = {A, B, SyS, sys, N1, N2}
  Sig = {F, G}
  Struct = {s, t, l}
  Node = {n1, n2, n3}
  Layout = {W32, W64}
  Renamed <- MCRenamed
  Programs <- MCPrograms
INVARIANT SyscallsConsistent
