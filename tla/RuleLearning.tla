----------------------------- MODULE RuleLearning -----------------------------
(***************************************************************************)
(* The rules the server learns from past events (analyzer/rules/learner.py,*)
(* decay.py, post_mortem.py) and what the predictions read of them         *)
(* (analyzer/gemini_analyzer.py).                                          *)
(*                                                                         *)
(* The model follows one key of the table gemini_rules: one source region, *)
(* target region, type and hour.  Each statement of SQLite is a            *)
(* transaction of its own (connection.py opens with isolation_level None), *)
(* so that learners and reflections interleave between any two of them.    *)
(* Scores are in percent.                                                  *)
(***************************************************************************)
EXTENDS Lists, SequencesExt

CONSTANTS Kind,         \* the kinds of rules followed
          Past,         \* what the events of the last 30 days can count to
          Learner,      \* threads that learn
          Score,        \* confidences a reflection may give
          MaxAttempt,   \* runs tried while the database is locked
          MaxReflection, \* bound on the reflections
          MaxTrouble    \* bound on statements that fail and on restarts

Kinds == <<"route_pattern", "confidence_correction", "time_pattern", "eta_math",
           "aviation_strike_pattern", "launch_site_pattern">>

ASSUME RulesAssumption ==
  /\ Kind \subseteq ToSet(Kinds) /\ Kind # {}
  /\ Past \subseteq [confirmed : Nat, mitigated : Nat, partially : Nat,
                     overestimated : Nat, other : Nat]
  /\ Score \subseteq 0..100 /\ MaxAttempt \in Nat \ {0}
  /\ MaxReflection \in Nat /\ MaxTrouble \in Nat

VARIABLES past,       \* the events of the key, by their accuracy
          rules,      \* rows of gemini_rules, in the order of their ids
          learner,    \* the threads that learn
          reflection, \* the reflection that is saving its rule
          reflections, \* number of reflections so far
          troubles    \* number of failures and restarts so far

rulesVars == <<past, rules, learner, reflection, reflections, troubles>>

(***************************************************************************)
(* What the past of the key teaches.                                       *)
(***************************************************************************)
Total(p) == p.confirmed + p.mitigated + p.partially + p.overestimated + p.other

(* The sum behind AVG(CASE prediction_accuracy ...), and round(x, 2).      *)
Weight(p, mitigated) ==
  100 * p.confirmed + mitigated * p.mitigated + 70 * p.partially
    + 20 * p.overestimated + 50 * p.other
EtaWeight(p) ==
  100 * (p.confirmed + p.mitigated + p.partially) + 30 * (p.overestimated + p.other)
Rounded(sum, n) == (2 * sum + n) \div (2 * n)

(* A row: its correction, evidence and accuracy, whether it names a source,*)
(* is active, was not updated for 14 days, and is the one a reflection has *)
(* found (by its id).                                                      *)
Rule(kind, value, n, score) ==
  {[kind |-> kind, by |-> "learner", value |-> value, n |-> n, score |-> score,
    sourced |-> kind \notin {"confidence_correction", "time_pattern"},
    active |-> TRUE, old |-> FALSE, found |-> FALSE]}

Route(p) ==
  IF Total(p) >= 5 \/ (Total(p) >= 3 /\ Weight(p, 80) >= 70 * Total(p))
  THEN Rule("route_pattern", 0, Total(p), Rounded(Weight(p, 80), Total(p))) ELSE {}

(* The correction's score is the share that was not overestimated.         *)
Correction(p) ==
  LET n == Total(p)
      value == IF 10 * p.overestimated > 6 * n THEN -15
               ELSE IF 10 * p.confirmed > 7 * n THEN 10 ELSE 0
  IN  IF n >= 7 /\ value # 0
      THEN Rule("confidence_correction", value, n,
                Rounded(100 * (n - p.overestimated), n))
      ELSE {}

(* The key has one region at its hour, whose count is then the total.      *)
TimeOfDay(p) ==
  IF p.confirmed >= 7 THEN Rule("time_pattern", 0, p.confirmed, 70) ELSE {}

EtaMath(p) ==
  IF Total(p) >= 3 /\ EtaWeight(p) >= 55 * Total(p)
  THEN Rule("eta_math", 0, Total(p), Rounded(EtaWeight(p), Total(p))) ELSE {}

Launch(kind, p, mitigated) ==
  IF Total(p) >= 2
  THEN Rule(kind, 0, Total(p), Rounded(Weight(p, mitigated), Total(p))) ELSE {}

Learnt(kind, p) ==
  CASE kind = "route_pattern" -> Route(p)
    [] kind = "confidence_correction" -> Correction(p)
    [] kind = "time_pattern" -> TimeOfDay(p)
    [] kind = "eta_math" -> EtaMath(p)
    [] kind = "aviation_strike_pattern" -> Launch(kind, p, 80)
    [] kind = "launch_site_pattern" -> Launch(kind, p, 100)

(***************************************************************************)
(* What the predictions read: the correction of the key, the last row      *)
(* winning, and the rules quoted to Gemini, the eight of most weight.      *)
(***************************************************************************)
Usable(r, n) == r.active /\ r.n >= n /\ r.score >= 60

LoadedCorrection ==
  LET read == SelectSeq(rules, LAMBDA r : r.kind = "confidence_correction" /\ Usable(r, 3))
  IN  IF read = <<>> THEN 0 ELSE Last(read).value

Weightier(r, s) ==
  LET launches == {"aviation_strike_pattern", "launch_site_pattern"}
      W(q) == (IF q.kind \in launches THEN 5 ELSE 2) * q.score * q.n
  IN  W(r) > W(s)

(* Where the messages name the key, or nothing else that has rules.        *)
Quoted ==
  LET usable == SortSeq(SelectSeq(rules, LAMBDA r : Usable(r, 2)), Weightier)
  IN  SubSeq(usable, 1, Min({8, Len(usable)}))

(***************************************************************************)
(* A learner: decay, then kind by kind read, delete, insert.               *)
(***************************************************************************)
NoRun == [pc |-> "idle", at |-> 0, got |-> {}, attempt |-> 0]

RulesInit ==
  /\ past = [confirmed |-> 0, mitigated |-> 0, partially |-> 0,
             overestimated |-> 0, other |-> 0]
  /\ rules = <<>> /\ learner = [l \in Learner |-> NoRun]
  /\ reflection = [pc |-> "idle"]
  /\ reflections = 0 /\ troubles = 0

(* The kind a learner works on after the given place in Kinds.             *)
Goto(l, at) ==
  LET next == {i \in DOMAIN Kinds : i > at /\ Kinds[i] \in Kind}
  IN  learner' = [learner EXCEPT ![l] =
        IF next = {} THEN NoRun
        ELSE [@ EXCEPT !.pc = "read", !.at = Min(next), !.got = {}]]

Start(l) ==
  /\ learner[l].pc = "idle"
  /\ learner' = [learner EXCEPT ![l].pc = "decay"]
  /\ UNCHANGED <<past, rules, reflection, reflections, troubles>>

(* Fault: rules do not age.                                                *)
DecayedByScore(r, step) == [r EXCEPT !.active = @ /\ r.score >= 50]

(* Two updates, each a transaction of its own: rules of little accuracy,   *)
(* then old ones.                                                          *)
Decayed(r, step) ==
  [r EXCEPT !.active = @ /\ (IF step = "decay" THEN r.score >= 50 ELSE ~r.old)]

Decay(l) ==
  /\ learner[l].pc \in {"decay", "age"}
  /\ rules' = [i \in DOMAIN rules |-> Decayed(rules[i], learner[l].pc)]
  /\ IF learner[l].pc = "decay" THEN learner' = [learner EXCEPT ![l].pc = "age"]
     ELSE Goto(l, 0)
  /\ UNCHANGED <<past, reflection, reflections, troubles>>

Read(l) ==
  LET got == Learnt(Kinds[learner[l].at], past) IN
  /\ learner[l].pc = "read"
  /\ IF got = {} THEN Goto(l, learner[l].at)
     ELSE learner' = [learner EXCEPT ![l].pc = "delete", ![l].got = got]
  /\ UNCHANGED <<past, rules, reflection, reflections, troubles>>

(* By source, region and type; a correction by region and type; a rule for *)
(* an hour by type and text, which only the learner writes that way.       *)
Deleted(kind, r) ==
  /\ r.kind = kind
  /\ CASE kind = "confidence_correction" -> TRUE
       [] kind = "time_pattern" -> r.by = "learner"
       [] OTHER -> r.sourced

Delete(l) ==
  /\ learner[l].pc = "delete"
  /\ rules' = Without(rules, {r \in ToSet(rules) : Deleted(Kinds[learner[l].at], r)})
  /\ learner' = [learner EXCEPT ![l].pc = "insert"]
  /\ UNCHANGED <<past, reflection, reflections, troubles>>

Insert(l) ==
  /\ learner[l].pc = "insert"
  /\ rules' = rules \o SetToSeq(learner[l].got)
  /\ Goto(l, learner[l].at)
  /\ UNCHANGED <<past, reflection, reflections, troubles>>

Trouble == troubles < MaxTrouble /\ troubles' = troubles + 1

(* A statement that finds the database locked: the last three kinds catch  *)
(* the error and are left, the others begin the run anew.                  *)
Locked(l) ==
  /\ learner[l].pc \in {"decay", "age", "delete", "insert"} /\ Trouble
  /\ IF learner[l].pc \notin {"decay", "age"} /\ learner[l].at > 3 THEN Goto(l, learner[l].at)
     ELSE learner' = [learner EXCEPT ![l] =
            IF @.attempt + 1 < MaxAttempt
            THEN [NoRun EXCEPT !.pc = "decay", !.attempt = learner[l].attempt + 1]
            ELSE NoRun]
  /\ UNCHANGED <<past, rules, reflection, reflections>>

(***************************************************************************)
(* A reflection: Gemini is asked about the attacks of the last hours, if   *)
(* two have been cleared at least, which may be of any key, and derives a  *)
(* rule.                                                                   *)
(***************************************************************************)
Derived == [kind : Kind, sourced : BOOLEAN, score : Score]

(* The rule is looked up, then written.  One without a source is never     *)
(* found: `source_region = NULL' is not true.                              *)
Reflect(rule) ==
  LET same == {i \in DOMAIN rules :
                 rule.sourced /\ rules[i].kind = rule.kind /\ rules[i].sourced} IN
  /\ reflection.pc = "idle" /\ reflections < MaxReflection
  /\ reflections' = reflections + 1
  /\ reflection' = [pc |-> "write", rule |-> rule, fresh |-> same = {}]
  /\ rules' = [i \in DOMAIN rules |->
                 [rules[i] EXCEPT !.found = same # {} /\ i = Min(same)]]
  /\ UNCHANGED <<past, learner, troubles>>

(* By the id found, though the row may be gone by then.                    *)
Updated(r, score) ==
  [r EXCEPT !.by = "reflection", !.n = @ + 1, !.value = 0, !.active = TRUE,
            !.old = FALSE, !.found = FALSE,
            !.score = Rounded(r.score * r.n + score, r.n + 1)]

ReflectionWritten ==
  LET new == {[r EXCEPT !.by = "reflection", !.sourced = reflection.rule.sourced] :
                r \in Rule(reflection.rule.kind, 0, 1, reflection.rule.score)}
      kept == [i \in DOMAIN rules |->
                 IF rules[i].found THEN Updated(rules[i], reflection.rule.score) ELSE rules[i]]
  IN
  /\ reflection.pc = "write"
  /\ rules' = IF reflection.fresh THEN rules \o SetToSeq(new) ELSE kept
  /\ reflection' = [pc |-> "idle"]
  /\ UNCHANGED <<past, learner, reflections, troubles>>

ReflectionFails ==
  /\ reflection.pc = "write" /\ Trouble
  /\ rules' = [i \in DOMAIN rules |-> [rules[i] EXCEPT !.found = FALSE]]
  /\ reflection' = [pc |-> "idle"]
  /\ UNCHANGED <<past, learner, reflections>>

(***************************************************************************)
(* The world: events end, two weeks pass, the server is started again.     *)
(***************************************************************************)
Events ==
  /\ \E p \in Past \ {past} : past' = p
  /\ UNCHANGED <<rules, learner, reflection, reflections, troubles>>

TwoWeeks ==
  /\ \E i \in DOMAIN rules : ~rules[i].old
  /\ rules' = [i \in DOMAIN rules |-> [rules[i] EXCEPT !.old = TRUE]]
  /\ UNCHANGED <<past, learner, reflection, reflections, troubles>>

Restart ==
  /\ Trouble
  /\ learner' = [l \in Learner |-> NoRun] /\ reflection' = [pc |-> "idle"]
  /\ rules' = [i \in DOMAIN rules |-> [rules[i] EXCEPT !.found = FALSE]]
  /\ UNCHANGED <<past, reflections>>

Learns(l) == Start(l) \/ Decay(l) \/ Read(l) \/ Delete(l) \/ Insert(l)

RulesNext ==
  \/ \E l \in Learner : Learns(l) \/ Locked(l)
  \/ \E rule \in Derived : Reflect(rule)
  \/ ReflectionWritten \/ ReflectionFails \/ Events \/ TwoWeeks \/ Restart

RulesFairness ==
  /\ WF_rulesVars(TwoWeeks) /\ WF_rulesVars(ReflectionWritten)
  /\ \A l \in Learner : WF_rulesVars(Learns(l))

RulesSpec == RulesInit /\ [][RulesNext]_rulesVars /\ RulesFairness

RulesTypeOK ==
  /\ past \in Past \cup {[confirmed |-> 0, mitigated |-> 0, partially |-> 0,
                          overestimated |-> 0, other |-> 0]}
  /\ \A i \in DOMAIN rules :
       /\ rules[i].kind \in Kind /\ rules[i].value \in {-15, 0, 10}
       /\ rules[i].n \in Nat \ {0} /\ rules[i].score \in 0..100
       /\ rules[i].value # 0 => rules[i].kind = "confidence_correction"
  /\ \A l \in Learner :
       /\ learner[l].pc \in {"idle", "decay", "age", "read", "delete", "insert"}
       /\ learner[l].attempt < MaxAttempt
       /\ learner[l].pc \in {"delete", "insert"} => learner[l].got # {}
  /\ reflections \in 0..MaxReflection /\ troubles \in 0..MaxTrouble

(* Once the past no longer shows that most predictions of the key were     *)
(* right, the predictions stop raising the key's confidence, and the rule  *)
(* is no longer quoted to Gemini: the learner skips a key that teaches     *)
(* nothing, so only decay (decay.py:27) ends the rule, whatever other      *)
(* learners and reflections write meanwhile.                               *)
StaleCorrectionEnds ==
  <>[](\A r \in Correction(past) : r.value # 10) =>
    <>[](LoadedCorrection # 10 /\ \A r \in ToSet(Quoted) : r.value # 10)

(* README.md:231: `if the AI often overestimated the threat, a rule is     *)
(* created that lowers the confidence automatically (e.g. -15%), to avoid  *)
(* false alarms'.  A rule just learnt should be read: the learner gives it *)
(* the share of predictions that were right, below 40 percent, as its      *)
(* accuracy, and the reader wants 60.                                      *)
OverestimationLowers ==
  (\E i \in DOMAIN rules : rules[i].active /\ rules[i].value = -15)
    => LoadedCorrection = -15
===============================================================================
