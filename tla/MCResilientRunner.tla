------------------------- MODULE MCResilientRunner -------------------------
(* A campaign of one long and two short scripts, one of them missing.       *)
EXTENDS ResilientRunner
MCCampaign == <<"fig_12", "fig_14", "fig_15b">>
MCFiles == [e \in {"fig_12", "fig_14", "fig_15b"} |-> IF e = "fig_12" THEN 2 ELSE 1]
MCPoints == [e \in {"fig_12", "fig_14", "fig_15b"} |-> IF e = "fig_12" THEN 2 ELSE 1]
=============================================================================
