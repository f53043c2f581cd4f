SPECIFICATION Spec
CONSTANTS
  Clients = {c1, c2}
  CNs = {n1, n2}
  c1 = c1 c2 = c2 n1 = n1 n2 = n2 v1 = v1 v2 = v2
  CnOf <- MCTwoCNs
  Workloads <- MCCold
  Vals = {v1, v2}
  kValueNull = kValueNull
  Absent = Absent
  NoNode = NoNode
  KeyMax = 4
  MaxAddr = 12
  MaxHeight = 4
  LeafSpan = 2
  HopFailAt = 2
  InternalSpan = 3
  CacheCap = 2
INVARIANT SeparatorAboveLeaves
