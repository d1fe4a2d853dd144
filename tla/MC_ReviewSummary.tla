------------------------- MODULE MC_ReviewSummary -------------------------
(* Three reviews of one pull request; r1 and r3 are manual. *)
EXTENDS ReviewSummary

MCRuns == {"r1", "r2", "r3"}
MCManual == {"r1", "r3"}
=============================================================================
