SPECIFICATION FairSpec
CONSTANTS
  Clients = {c1, c2}
  CNs = {n1, n2}
  c1 = c1 c2 = c2 n1 = n1 n2 = n2 v1 = v1 v2 = v2
  CnOf <- MCTwoCNs
  Workloads <- MCClimb
  Vals = {v1, v2}
  kValueNull = kValueNull
  Absent = Absent
  NoNode = NoNode
  KeyMax = 10
  MaxAddr = 14
  MaxHeight = 4
  LeafSpan = 1
  HopFailAt = 1
  InternalSpan = 3
  CacheCap = 3
INVARIANTS AssertsHold SeparatorsRoute IndexCompleteAtRest
PROPERTIES EveryOpAnswered
