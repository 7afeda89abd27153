---------------------------- MODULE MonitorTimers ----------------------------
(***************************************************************************)
(* The timers of the Telegram monitor (monitor/telegram_monitor.py) at     *)
(* work on the cards of ThreatManager: auto-clear timers, re-evaluations   *)
(* by the analyzer, predictions for neighbouring regions, the cleanup loop *)
(* and the restart that loses all timers but not the cards.                *)
(*                                                                         *)
(* A timer is kept under the region, type and group of the report that     *)
(* started it, which need not be those of the card the report ended up in. *)
(* Delays are left out: a timer may fire at any time.  The coroutines run  *)
(* alone between two awaits, so the only state in which others can run in  *)
(* the middle of an action is a re-evaluation that awaits its answer.      *)
(***************************************************************************)
EXTENDS ThreatManager, Naturals

CONSTANTS ReportKey,    \* [type, gid] of the reports Gemini finds
          PredictedKey, \* the same of the predictions, "pred_{region}_{type}"
          RegexType,    \* types of the reports that regular expressions find
          MaxMessage,   \* bound on the messages
          MaxRestart    \* bound on the restarts

AnyKey == [type |-> NoType, gid |-> NoGid]
Key == ReportKey \cup PredictedKey \cup {AnyKey}
         \cup {[type |-> ty, gid |-> NoGid] : ty \in RegexType}

ASSUME KeyAssumption ==
  Key \subseteq [type : Type \cup {NoType}, gid : Gid \cup {NoGid}]

VARIABLES smart,       \* the analyzer has a key: Gemini, else regular expressions
          predictive,  \* region -> slots whose card is_predictive
          clearTimers, \* region -> keys of _clear_tasks
          reeval,      \* region -> key -> "none", "waits" (to be run), or "asked"
          cooling,     \* region -> types in _cleared_predictions_cooldown
          renewed,     \* region -> keys reported since their re-evaluation asked
          unseen,      \* region -> slots whose card nothing has looked at since it came
          messages,    \* how many have come
          restarts

timers == <<clearTimers, reeval, renewed>>
flags == <<predictive, unseen>>
counters == <<messages, restarts>>
allVars == <<vars, smart, flags, timers, cooling, counters>>

NoSlots == [r \in Region |-> {}]

TimersInit ==
  /\ Init
  /\ smart \in BOOLEAN
  /\ predictive = NoSlots /\ unseen = NoSlots
  /\ clearTimers = NoSlots /\ cooling = NoSlots /\ renewed = NoSlots
  /\ reeval = [r \in Region |-> [k \in Key |-> "none"]]
  /\ messages = 0 /\ restarts = 0

-----------------------------------------------------------------------------
(* Cards and keys.                                                         *)

CardKey(c) == [type |-> c.type, gid |-> c.gid]

(* Flags of slots without a card are dropped.                              *)
KeepFlags ==
  /\ predictive' = [r \in Region |-> predictive[r] \cap Filled(r)']
  /\ unseen' = [r \in Region |-> unseen[r] \cap Filled(r)']

(* A report of key k: a new card, or an update of the card it is found to  *)
(* be the same as.                                                         *)
SetCard(r, k, predicted) ==
  /\ SetThreat(r, k.gid, k.type, FALSE)
  /\ LET new == {s \in Slot : cards[r][s] = NoCard /\ cards'[r][s] # NoCard}
         same == IF Group(r, k.gid) # {} THEN Group(r, k.gid) ELSE Similar(r, k.type)
     IN  \E s \in IF new # {} THEN new ELSE same :
           /\ predictive' = [predictive EXCEPT ![r] = IF predicted THEN @ \cup {s} ELSE @ \ {s}]
           /\ unseen' = [unseen EXCEPT ![r] = @ \cup new]

(* clear_threat, also for a region without cards.                          *)
ClearCards(r, k) ==
  /\ IF Filled(r) = {}
       THEN UNCHANGED vars
       ELSE ClearThreat(r, k.gid, k.type) /\ UNCHANGED testing
  /\ KeepFlags

(* The timers of the type and group, where these are given.                *)
Matching(k) ==
  {l \in Key : (k.type # NoType => l.type = k.type) /\ (k.gid # NoGid => l.gid = k.gid)}

(* _cancel_clear_tasks: clear timers and re-evaluations.                   *)
Cancel(r, k) ==
  /\ clearTimers' = [clearTimers EXCEPT ![r] = @ \ Matching(k)]
  /\ reeval' = [reeval EXCEPT ![r] =
                  [l \in Key |-> IF l \in Matching(k) THEN "none" ELSE @[l]]]

-----------------------------------------------------------------------------
(* Messages.                                                               *)

Message == messages < MaxMessage /\ messages' = messages + 1

(* Fault: a direct report leaves the re-evaluation of its key running.     *)
KeepReevaluation(r, k, predicted) ==
  reeval' = IF predicted THEN [reeval EXCEPT ![r][k] = "waits"] ELSE reeval

(* A predicted threat is re-evaluated after its ETA; a direct report ends  *)
(* the re-evaluation of its key, even one that awaits its answer.          *)
NextReevaluation(r, k, predicted) ==
  reeval' = [reeval EXCEPT ![r][k] = IF predicted THEN "waits" ELSE "none"]

Report(r, k, predicted) ==
  /\ smart /\ Message
  /\ SetCard(r, k, predicted)
  /\ clearTimers' = [clearTimers EXCEPT ![r] = @ \cup {k}]
  /\ NextReevaluation(r, k, predicted)
  /\ renewed' = [renewed EXCEPT ![r] = @ \cup {k}]
  /\ UNCHANGED <<testing, smart, cooling, restarts>>

(* Regular expressions know no group, and their timer no type either.      *)
RegexReport(r, ty) ==
  /\ ~smart /\ Message
  /\ \E predicted \in BOOLEAN : SetCard(r, [type |-> ty, gid |-> NoGid], predicted)
  /\ clearTimers' = [clearTimers EXCEPT ![r] = @ \cup {AnyKey}]
  /\ UNCHANGED <<testing, smart, cooling, restarts, reeval, renewed>>

(* A threat of k may be foreseen for r, a neighbour of a region under      *)
(* threat: not where the gravest threat is a direct one (cards have no     *)
(* level here, so any predicted card may be the gravest), nor of a type    *)
(* that a re-evaluation has cleared in the last 30 minutes.  Prediction    *)
(* says which are chosen.                                                  *)
Foreseen(r, k) ==
  /\ r \notin Occupied
  /\ Filled(r) = {} \/ predictive[r] # {}
  /\ k.type \notin cooling[r]

(* A prediction that is there already is not made again.                   *)
Propagate(r, k) ==
  /\ smart /\ Message
  /\ Foreseen(r, k)
  /\ \A s \in Filled(r) : ~(cards[r][s].gid = k.gid /\ s \in predictive[r])
  /\ SetCard(r, k, TRUE)
  /\ clearTimers' = [clearTimers EXCEPT ![r] = @ \cup {k}]
  /\ UNCHANGED <<testing, smart, cooling, restarts, reeval, renewed>>

(* A clearing, of a type and group as far as it names them.  Regular       *)
(* expressions name neither.                                               *)
MessageClear(r, k) ==
  /\ (smart \/ k = AnyKey) /\ Message
  /\ ClearCards(r, k)
  /\ Cancel(r, k)
  /\ UNCHANGED <<smart, cooling, restarts, renewed>>

(* A nationwide all-clear leaves the timers.                               *)
MessageClearAll ==
  /\ ClearAll /\ KeepFlags /\ Message
  /\ UNCHANGED <<testing, smart, timers, cooling, restarts>>

-----------------------------------------------------------------------------
(* The siren, as the poller sets it.                                       *)

SirenOn(r) ==
  /\ ~official[r] /\ SetAlarm(r, TRUE)
  /\ UNCHANGED <<testing, smart, flags, timers, cooling, counters>>

SirenOff(r) ==
  /\ EndAlarm(r) /\ KeepFlags
  /\ UNCHANGED <<testing, smart, timers, cooling, counters>>

-----------------------------------------------------------------------------
(* Timers.                                                                 *)

(* The cooldown of 30 minutes is over.                                     *)
CoolDown(r) ==
  /\ cooling[r] # {}
  /\ cooling' = [cooling EXCEPT ![r] = {}]
  /\ UNCHANGED <<vars, smart, flags, timers, counters>>

(* auto_clear asks neither whether its card is still there nor for a siren. *)
AutoClear(r, k) ==
  /\ k \in clearTimers[r]
  /\ ClearCards(r, k)
  /\ clearTimers' = [clearTimers EXCEPT ![r] = @ \ {k}]
  /\ UNCHANGED <<smart, reeval, renewed, cooling, counters>>

Target(r, k) ==
  {s \in Filled(r) : IF k.gid # NoGid THEN cards[r][s].gid = k.gid
                                      ELSE cards[r][s].type = k.type}

(* _run_predictive_reevaluation up to its await: under a siren or without  *)
(* its card it ends; while the region a prediction came from is under      *)
(* threat, or without an analyzer, it is put off.  It asks about one card; *)
(* where the key has no group the verdict is on all cards of the type.     *)
ReevalRun(r, k) ==
  /\ reeval[r][k] = "waits"
  /\ IF official[r] \/ Target(r, k) = {}
       THEN /\ reeval' = [reeval EXCEPT ![r][k] = "none"]
            /\ UNCHANGED <<unseen, renewed>>
       ELSE \E s \in Target(r, k) :
              /\ unseen' = [unseen EXCEPT ![r] = @ \ Target(r, k)]
              /\ \/ /\ smart
                    /\ reeval' = [reeval EXCEPT ![r][k] = "asked"]
                    /\ renewed' = [renewed EXCEPT ![r] = @ \ {k}]
                 \/ /\ ~smart \/ s \in predictive[r]
                    /\ UNCHANGED <<reeval, renewed>>
  /\ UNCHANGED <<vars, smart, predictive, clearTimers, cooling, counters>>

(* The answer, applied to the state as it is then: not active.             *)
ReevalClear(r, k) ==
  /\ reeval[r][k] = "asked"
  /\ ClearCards(r, k)
  /\ Cancel(r, k)
  /\ cooling' = [cooling EXCEPT ![r] = @ \cup {k.type}]
  /\ UNCHANGED <<smart, counters, renewed>>

(* The answer is that it is active, or there is none.                      *)
ReevalKeep(r, k) ==
  /\ reeval[r][k] = "asked"
  /\ reeval' = [reeval EXCEPT ![r][k] = "waits"]
  /\ UNCHANGED <<vars, smart, flags, clearTimers, renewed, cooling, counters>>

Reevaluation(r, k) == ReevalRun(r, k) \/ ReevalClear(r, k) \/ ReevalKeep(r, k)

(* The cleanup loop, every 60 s, at one card.  If nothing waits for it, it *)
(* gets a re-evaluation, or under a siren a clear timer or (when it is past *)
(* its delay) its end; without a siren a direct one older than 5 minutes   *)
(* is re-evaluated even if its clear timer runs.                           *)
NothingWaits(r, k) == reeval[r][k] = "none" /\ k \notin clearTimers[r]

(* Fault: only direct threats are re-evaluated.                            *)
ReevaluatesDirect(r, s) ==
  LET k == CardKey(cards[r][s])
  IN  /\ reeval[r][k] = "none" /\ ~official[r] /\ s \notin predictive[r]
      /\ reeval' = [reeval EXCEPT ![r][k] = "waits"]
      /\ UNCHANGED <<vars, flags, clearTimers>>

CleanupReevaluates(r, s) ==
  LET k == CardKey(cards[r][s])
  IN  /\ reeval[r][k] = "none"
      /\ IF s \in predictive[r] THEN NothingWaits(r, k) ELSE ~official[r]
      /\ reeval' = [reeval EXCEPT ![r][k] = "waits"]
      /\ UNCHANGED <<vars, flags, clearTimers>>

CleanupUnderSiren(r, s) ==
  LET k == CardKey(cards[r][s])
  IN  /\ NothingWaits(r, k) /\ official[r] /\ s \notin predictive[r]
      /\ \/ ClearCards(r, k) /\ UNCHANGED clearTimers
         \/ /\ clearTimers' = [clearTimers EXCEPT ![r] = @ \cup {k}]
            /\ UNCHANGED <<vars, flags>>
      /\ UNCHANGED reeval

Cleanup(r, s) ==
  /\ s \in Filled(r)
  /\ CleanupReevaluates(r, s) \/ CleanupUnderSiren(r, s)
  /\ UNCHANGED <<smart, cooling, renewed, counters>>

(* A restart: the cards are loaded, the timers and cooldowns are gone.     *)
Restart ==
  /\ restarts < MaxRestart
  /\ restarts' = restarts + 1
  /\ clearTimers' = NoSlots /\ cooling' = NoSlots
  /\ reeval' = [r \in Region |-> [k \in Key |-> "none"]]
  /\ UNCHANGED <<vars, smart, flags, renewed, messages>>

-----------------------------------------------------------------------------
TimersNext ==
  \/ MessageClearAll \/ Restart
  \/ \E r \in Region :
       \/ \E k \in ReportKey, p \in BOOLEAN : Report(r, k, p)
       \/ \E ty \in RegexType : RegexReport(r, ty)
       \/ \E k \in PredictedKey : Propagate(r, k)
       \/ \E k \in Key : \/ MessageClear(r, k) \/ AutoClear(r, k)
                         \/ Reevaluation(r, k)
       \/ \E s \in Slot : Cleanup(r, s)
       \/ SirenOn(r) \/ SirenOff(r) \/ CoolDown(r)

(* Timers fire, each re-evaluation is run and answered (within 10 s per    *)
(* key), the cleanup loop finds some card, and a siren ends some day.      *)
TimersFairness ==
  \A r \in Region :
    /\ WF_allVars(SirenOff(r))
    /\ WF_allVars(\E s \in Slot : Cleanup(r, s))
    /\ WF_allVars(\E k \in Key : AutoClear(r, k))
    /\ \A k \in Key \ {AnyKey} : WF_allVars(Reevaluation(r, k))

TimersSpec == TimersInit /\ [][TimersNext]_allVars /\ TimersFairness

-----------------------------------------------------------------------------
(* Properties.                                                             *)

(* telegram_monitor.py:1867.  The answer of a re-evaluation that was asked *)
(* before a report of its own region, type and group came is never         *)
(* applied.  It is when the card has been reported under another type or   *)
(* group and the report was merged into it: what ends a re-evaluation is   *)
(* its own key.                                                            *)
VerdictIsCurrent ==
  \A r \in Region, k \in Key : reeval[r][k] = "asked" => k \notin renewed[r]

(* No card is forgotten: whatever timers are cancelled, replaced or lost   *)
(* in a restart, a card is cleared or looked at in the end.                *)
NoForgottenCard ==
  \A r \in Region, s \in Slot : s \in unseen[r] ~> s \notin unseen[r]
=============================================================================
