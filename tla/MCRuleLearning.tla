---------------------------- MODULE MCRuleLearning ----------------------------
(* RuleLearning on a past of which most predictions were too high.         *)
EXTENDS RuleLearning

MCPast == {[confirmed |-> 1, mitigated |-> 0, partially |-> 0,
            overestimated |-> 6, other |-> 0]}
===============================================================================
