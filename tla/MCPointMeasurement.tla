------------------------- MODULE MCPointMeasurement -------------------------
(* Three points with the three ways to read the output.  As in common.json  *)
(* the node that is read first is not the one with identifier 0.            *)
EXTENDS PointMeasurement
MCIds == <<1, 0>>
MCPoints ==
  <<[cns |-> 2, only_need_tpt |-> TRUE, want |-> "avg", lats |-> TRUE, target |-> 4],
    [cns |-> 2, only_need_tpt |-> FALSE, want |-> "epoch", lats |-> FALSE, target |-> 2],
    [cns |-> 2, only_need_tpt |-> FALSE, want |-> "cache", lats |-> FALSE, target |-> 2]>>
Counts(two, nine, ten) == [l \in {2, 9, 10} |-> IF l = 2 THEN two ELSE IF l = 9 THEN nine ELSE ten]
MCHistograms == {Counts(50, 49, 1), Counts(0, 0, 3)}
=============================================================================
