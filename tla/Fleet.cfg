SPECIFICATION Spec
CONSTANTS
  m = m
  n = n
  i1 = i1
  i2 = i2
  i3 = i3
  l = l
  k = k
  F = F
  G = G
  H = H
  P = P
  None = None
  Machine = {m, n}
  Channel = {F, G, H, P}
  Plain = {P}
  Command = {i1, i2, i3, l, k}
  Kind <- MCKind
  On <- MCOn
INVARIANTS
  OneRecordForAll
  NoDebris
CHECK_DEADLOCK FALSE
