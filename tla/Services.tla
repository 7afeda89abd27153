-------------------------------- MODULE Services --------------------------------
(***************************************************************************)
(* Five services of the server that share no state: the learning of rules, *)
(* the poll of the sirens, the batches of history, the shelters and the    *)
(* predictions.                                                            *)
(* A behaviour is one of one of them, so that each is checked alone and    *)
(* none multiplies the states of another.                                  *)
(***************************************************************************)
EXTENDS RuleLearning, AlarmPoll, HistoryBatch, ShelterIndex, Prediction

VARIABLE service

servicesVars == <<service, rulesVars, pollVars, historyVars, shelterVars,
                  predictionVars>>

Init ==
  /\ service \in {"rules", "poll", "history", "shelters", "predictions"}
  /\ RulesInit /\ PollInit /\ HistoryInit /\ ShelterInit /\ PredictionInit

RulesStep ==
  /\ service = "rules" /\ RulesNext
  /\ UNCHANGED <<service, pollVars, historyVars, shelterVars, predictionVars>>

PollStep ==
  /\ service = "poll" /\ PollNext
  /\ UNCHANGED <<service, rulesVars, historyVars, shelterVars, predictionVars>>

HistoryStep ==
  /\ service = "history" /\ HistoryNext
  /\ UNCHANGED <<service, rulesVars, pollVars, shelterVars, predictionVars>>

ShelterStep ==
  /\ service = "shelters" /\ ShelterNext
  /\ UNCHANGED <<service, rulesVars, pollVars, historyVars, predictionVars>>

PredictionStep ==
  /\ service = "predictions" /\ PredictionNext
  /\ UNCHANGED <<service, rulesVars, pollVars, historyVars, shelterVars>>

Next == RulesStep \/ PollStep \/ HistoryStep \/ ShelterStep \/ PredictionStep

(* Fair is what is fair of the service at work.                            *)
Fairness ==
  /\ service = "rules" => RulesFairness
  /\ service = "poll" => PollFairness

Spec == Init /\ [][Next]_servicesVars /\ Fairness

TypeOK == RulesTypeOK /\ PollTypeOK /\ HistoryTypeOK /\ ShelterTypeOK

(* The liveness of a service, of the behaviours that are its own.          *)
StaleRulesEnd == service = "rules" => StaleCorrectionEnds
SirensFollow == service = "poll" => SirensFollowSource
NoThreatStays == service = "poll" => ThreatsEnd
===============================================================================
