--------------------------- MODULE MCThreatManager ---------------------------
(* ThreatManager on small instances: two spellings of one group and, where *)
(* Gid is MCGid, another group; two types of one family and the official   *)
(* alarm.                                                                  *)
EXTENDS ThreatManager, TLC

CONSTANTS w1, wave1, w2, shahed, drone

MCGid == {w1, wave1, w2}
MCOneGroup == {w1, wave1}
MCNorm == [g \in Gid |-> IF g = w2 THEN w2 ELSE w1]
MCType == {shahed, drone, OfficialAlarm}
MCFamily == shahed :> "uav" @@ drone :> "uav" @@ OfficialAlarm :> "alarm"
(* Nothing tells one slot from another.                                   *)
SlotSymmetry == Permutations(Slot)
=============================================================================
