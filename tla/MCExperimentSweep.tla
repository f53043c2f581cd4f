------------------------- MODULE MCExperimentSweep -------------------------
(* Every script after every script.                                         *)
EXTENDS ExperimentSweep
MCScripts == DOMAIN Program
=============================================================================
