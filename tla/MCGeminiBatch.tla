---------------------------- MODULE MCGeminiBatch ----------------------------
(* Values of the constants of GeminiBatch for TLC.                         *)
EXTENDS GeminiBatch
MCMessage == 1..3
MCRelevant == 1..2
MCKeyCounts == {1, 2}
=============================================================================
