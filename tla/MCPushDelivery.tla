--------------------------- MODULE MCPushDelivery ---------------------------
(* An instance of PushDelivery for TLC: two servers in one run, one that   *)
(* reads the posts one by one, by the constants of the cfg, and one with   *)
(* the analyzer, whose alerts come in batches.                             *)
EXTENDS PushDelivery, TLC

CONSTANTS BatchAges, BatchMaxTime

InBatches == INSTANCE PushDelivery
               WITH Batched <- TRUE, Ages <- BatchAges, MaxTime <- BatchMaxTime

VARIABLE analyzer   \* which of the two it is

MCInit == Init /\ analyzer \in BOOLEAN

MCNext ==
  /\ UNCHANGED analyzer
  /\ \/ ~analyzer /\ Next
     \/ analyzer /\ InBatches!Next

MCSpec == MCInit /\ [][MCNext]_<<vars, analyzer>>

Symmetry == Permutations(Task)
=============================================================================
