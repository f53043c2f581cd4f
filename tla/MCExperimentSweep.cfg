SPECIFICATION Spec
CONSTANTS
  Scripts <- MCScripts
  MaxScripts = 2
  MaxFaults = 1
INVARIANTS SweepTypeOK MeasuredAsLabelled SplitFits TargetEpochReached UnsavedAtMostOne StepsInOrder
