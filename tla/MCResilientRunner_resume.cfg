SPECIFICATION Spec
CONSTANTS
  Campaign <- MCCampaign
  LongRunning = {"fig_12"}
  Missing = {"fig_15b"}
  Files <- MCFiles
  Points <- MCPoints
  Patchable = {"fig_12", "fig_14"}
  Nodes = {n1, n2, n3}
  n1 = n1 n2 = n2 n3 = n3
  NoNode = NoNode
  MinCN = 1
  MaxRetries = 2
  StallFactor = 2
  MaxFaults = 3
PROPERTY PointsKept
