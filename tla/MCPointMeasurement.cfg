SPECIFICATION FairSpec
CONSTANTS
  N = 2
  Ids <- MCIds
  Epochs = 4
  Points <- MCPoints
  Histograms <- MCHistograms
  MaxFaults = 3
INVARIANTS MeasureTypeOK ResultOfThisRun WindowComplete CacheOfEveryNode PercentilesExact
PROPERTIES EveryPointMeasured
