SPECIFICATION FairSpec
CONSTANTS
  Clients = {c1, c2}
  CNs = {n1, n2}
  c1 = c1 c2 = c2 n1 = n1 n2 = n2 v1 = v1 v2 = v2
  CnOf <- MCTwoCNs
  Workloads <- MCWarm
  Vals = {v1, v2}
  kValueNull = kValueNull
  Absent = Absent
  NoNode = NoNode
  KeyMax = 6
  MaxAddr = 10
  MaxHeight = 4
  LeafSpan = 2
  HopFailAt = 1
  InternalSpan = 3
  CacheCap = 2
INVARIANTS TypeOK LockMutex LeafChainOrdered
PROPERTIES RangesOnlyShrink Linearizable EveryOpAnswered
