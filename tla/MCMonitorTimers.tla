--------------------------- MODULE MCMonitorTimers ---------------------------
(* MonitorTimers on a small instance: one group that is reported, one that *)
(* is predicted, both of shaheds, and a bomb without a group.              *)
EXTENDS MonitorTimers, TLC

CONSTANTS w1, p1, shahed, kab

MCGid == {w1, p1}
MCNorm == [g \in Gid |-> g]
MCType == {shahed, kab}
MCFamily == shahed :> "uav" @@ kab :> "bomb"
MCReportKey == {[type |-> shahed, gid |-> w1], [type |-> kab, gid |-> NoGid]}
MCPredictedKey == {[type |-> shahed, gid |-> p1]}
MCRegexType == {kab}
=============================================================================
