------------------------- MODULE PushDeliveryProofs -------------------------
(***************************************************************************)
(* Proofs about PushDelivery for every value of its constants: the type    *)
(* invariant, that the throttle keeps equal pushes apart, that the queue   *)
(* tells of changes in their order, and when no alert is taken for a       *)
(* duplicate of its own report's row.                                      *)
(***************************************************************************)
EXTENDS PushDelivery, TLAPS

SyncState == [stage : Stage, region : Region, was : BOOLEAN, siren : BOOLEAN, time : Int]

SenderState == [stage : {"throttle", "duplicate", "send"}, push : Push]

-----------------------------------------------------------------------------
(* Lemmas about the helpers.                                               *)

(* A logged row is a row.                                                  *)
LEMMA LogType ==
  ASSUME TypeOK, NEW r \in Region, NEW level \in Level, NEW type \in Type,
         NEW time \in Int, Log(r, level, type, time)
  PROVE  rows' \in [Region -> Seq(Row)]
<1> DEFINE row == [level |-> level, type |-> type, time |-> time]
<1>1. row \in Row
  BY DEF Row
<1>2. rows[r] \in Seq(Row)
  BY DEF TypeOK
<1>3. Append(rows[r], row) \in Seq(Row)
  BY <1>1, <1>2
<1> HIDE DEF row
<1>4. CASE rows' = rows
  BY <1>4 DEF TypeOK
<1>5. CASE rows' = [rows EXCEPT ![r] = Append(@, row)]
  BY <1>3, <1>5 DEF TypeOK
<1>6. QED
  BY <1>4, <1>5 DEF Log, row

(* What is told is a push.                                                 *)
LEMMA TellType ==
  ASSUME TypeOK, Change, NEW r \in Region, NEW level \in Level, NEW type \in Type
  PROVE  /\ Tell(r, level, type) \in Push
         /\ events' \in 0..MaxEvents
BY TimeAssumption DEF TypeOK, Change, Tell, Push

(* The sync tasks a change starts are tasks.                               *)
LEMMA OnChangeType ==
  ASSUME TypeOK, NEW r \in Region, NEW n, OnChange(r, n)
  PROVE  sync' \in [Task -> {Idle} \cup SyncState]
<1> DEFINE fresh == [stage |-> "start", region |-> r, was |-> FALSE,
                     siren |-> FALSE, time |-> 0]
<1>1. fresh \in SyncState
  BY DEF SyncState, Stage
<1>2. PICK ks : sync' = [k \in Task |-> IF k \in ks THEN fresh ELSE sync[k]]
  BY DEF OnChange
<1>3. sync \in [Task -> {Idle} \cup SyncState]
  BY DEF TypeOK, SyncState
<1> HIDE DEF fresh
<1>4. QED
  BY <1>1, <1>2, <1>3

(* Logging a clearing keeps the types of the history.                      *)
LEMMA LogClearingType ==
  ASSUME TypeOK, NEW r \in Region, LogClearing(r)
  PROVE  /\ rows' \in [Region -> Seq(Row)]
         /\ paired' \in [Region -> BOOLEAN]
<1>1. paired' \in [Region -> BOOLEAN]
  BY DEF TypeOK, LogClearing
<1>2. CASE paired[r]
  <2>1. Log(r, "none", "threat", now)
    BY <1>2 DEF LogClearing
  <2>2. now \in Int
    BY TimeAssumption DEF TypeOK
  <2>3. QED
    BY <1>1, <2>1, <2>2, LogType DEF Level, Type
<1>3. CASE ~paired[r]
  BY <1>1, <1>3 DEF LogClearing, TypeOK
<1>4. QED
  BY <1>2, <1>3

(* An all-clear, if there is one, can be queued.                           *)
LEMMA AllClearType ==
  ASSUME TypeOK, Change, NEW r \in Region, NEW type \in Type
  PROVE  AllClear(r, type) \in Seq(Push)
<1>1. Tell(r, "none", type) \in Push
  BY TellType DEF Level
<1> HIDE DEF Push
<1>2. QED
  BY <1>1 DEF AllClear

-----------------------------------------------------------------------------
(* Each action preserves the type invariant.                               *)

LEMMA ReportTyped ==
  ASSUME TypeOK, NEW r \in Region, NEW age \in Ages, Report(r, age)
  PROVE  /\ sync' \in [Task -> {Idle} \cup SyncState]
         /\ events' \in 0..MaxEvents /\ now' \in 0..MaxTime
         /\ threat' \in [Region -> BOOLEAN] /\ alarm' \in [Region -> BOOLEAN]
         /\ since' \in [Region -> Int]
         /\ rows' \in [Region -> Seq(Row)] /\ paired' \in [Region -> BOOLEAN]
         /\ logged' \in [Region -> [threat : BOOLEAN, alarm : BOOLEAN]]
<1>1. sync' \in [Task -> {Idle} \cup SyncState]
  BY OnChangeType DEF Report
<1>2. events' \in 0..MaxEvents
  BY TimeAssumption DEF TypeOK, Report, Change
<1>3. threat' \in [Region -> BOOLEAN]
  BY DEF TypeOK, Report
<1>4. since' \in [Region -> Int]
  BY TimeAssumption DEF TypeOK, Report
<1>5. QED
  BY <1>1, <1>2, <1>3, <1>4 DEF TypeOK, Report, history

LEMMA RaiseTyped ==
  ASSUME TypeOK, NEW r \in Region, NEW age \in Ages, Raise(r, age)
  PROVE  TypeOK'
<1>1. timer' \in [Region -> 0..NotDue]
  <2>1. now + Pause \in 0..NotDue
    <3>1. now \in 0..MaxTime /\ MaxTime \in Nat /\ Pause \in Nat
      BY TimeAssumption DEF TypeOK
    <3> QED BY <3>1 DEF NotDue
  <2>2. timer \in [Region -> 0..NotDue]
    BY DEF TypeOK
  <2>3. timer' = [timer EXCEPT ![r] = now + Pause]
    BY DEF Raise
  <2>4. QED
    BY <2>1, <2>2, <2>3
<1>2. Report(r, age)
  BY DEF Raise
<1>3. UNCHANGED delivery
  BY DEF Raise
<1>4. QED
  BY <1>1, <1>2, <1>3, ReportTyped DEF TypeOK, SyncState, delivery

LEMMA BatchRaiseTyped ==
  ASSUME TypeOK, NEW r \in Region, NEW age \in Ages, BatchRaise(r, age)
  PROVE  TypeOK'
<1> DEFINE p == Tell(r, "high", "threat")
<1>1. Report(r, age)
  BY DEF BatchRaise
<1>2. p \in Push
  BY <1>1, TellType DEF Report, Level, Type
<1>3. IsAlert(p)
  BY DEF IsAlert, Tell
<1>4. p \in {q \in Push : IsAlert(q)}
  BY <1>2, <1>3
<1>5. buffer' = Append(buffer, p) /\ buffer \in Seq({q \in Push : IsAlert(q)})
  BY DEF BatchRaise, TypeOK
<1> HIDE DEF p, Push, IsAlert
<1>6. buffer' \in Seq({q \in Push : IsAlert(q)})
  BY <1>4, <1>5
<1>7. UNCHANGED <<timer, queue, sender, stamp, sent, newest>>
  BY DEF BatchRaise
<1>8. QED
  BY <1>1, <1>6, <1>7, ReportTyped DEF TypeOK, SyncState

LEMMA FlushTyped ==
  ASSUME TypeOK, Flush
  PROVE  TypeOK'
<1> DEFINE Alert == {p \in Push : IsAlert(p)}
<1>1. buffer \in Seq(Alert) /\ queue \in Seq(Push) /\ Alert \subseteq Push
  BY DEF TypeOK
<1>2. queue' = queue \o buffer /\ buffer' = <<>>
  BY DEF Flush
<1> HIDE DEF Alert, Push, IsAlert
<1>3. buffer \in Seq(Push)
  BY <1>1
<1>4. queue' \in Seq(Push) /\ buffer' \in Seq(Alert)
  BY <1>1, <1>2, <1>3
<1>5. UNCHANGED <<now, events, state, timer, history, logged, sync, sender, stamp, sent,
                  newest>>
  BY DEF Flush
<1>6. QED
  BY <1>4, <1>5 DEF TypeOK, state, history, Alert

LEMMA ClearThreatTyped ==
  ASSUME TypeOK, NEW r \in Region, NEW type \in {"threat", "threat_clear"},
         ClearThreat(r, type)
  PROVE  TypeOK'
<1>1. sync' \in [Task -> {Idle} \cup SyncState]
  BY OnChangeType DEF ClearThreat
<1>2. events' \in 0..MaxEvents
  BY TimeAssumption DEF TypeOK, ClearThreat, Change
<1>3. /\ rows' \in [Region -> Seq(Row)]
      /\ paired' \in [Region -> BOOLEAN]
  BY LogClearingType DEF ClearThreat
<1>4. queue' \in Seq(Push)
  <2>1. AllClear(r, type) \in Seq(Push)
    BY AllClearType DEF ClearThreat, Type
  <2> HIDE DEF Push
  <2>2. QED
    BY <2>1 DEF TypeOK, ClearThreat
<1>5. /\ threat' \in [Region -> BOOLEAN]
      /\ timer' \in [Region -> 0..NotDue]
  <2>1. NotDue \in 0..NotDue
    BY TimeAssumption DEF NotDue
  <2>2. threat \in [Region -> BOOLEAN] /\ timer \in [Region -> 0..NotDue]
    BY DEF TypeOK
  <2>3. /\ threat' = [threat EXCEPT ![r] = FALSE]
        /\ timer' = [timer EXCEPT ![r] = NotDue]
    BY DEF ClearThreat
  <2>4. QED
    BY <2>1, <2>2, <2>3
<1>6. QED
  BY <1>1, <1>2, <1>3, <1>4, <1>5 DEF TypeOK, ClearThreat, SyncState

LEMMA PruneThreatTyped ==
  ASSUME TypeOK, NEW r \in Region, PruneThreat(r)
  PROVE  TypeOK'
<1>1. sync' \in [Task -> {Idle} \cup SyncState]
  BY OnChangeType DEF PruneThreat
<1>2. events' \in 0..MaxEvents
  BY TimeAssumption DEF TypeOK, PruneThreat, Change
<1>3. /\ rows' \in [Region -> Seq(Row)]
      /\ paired' \in [Region -> BOOLEAN]
  BY LogClearingType DEF PruneThreat
<1>4. sender' \in [Thread -> {Idle} \cup SenderState]
  <2>1. Tell(r, "none", "threat") \in Push
    BY TellType DEF PruneThreat, Level, Type
  <2> HIDE DEF Push
  <2>2. QED
    BY <2>1 DEF TypeOK, PruneThreat, Carry, SenderState, Thread
<1>5. /\ threat' \in [Region -> BOOLEAN]
      /\ timer' \in [Region -> 0..NotDue]
  <2>1. NotDue \in 0..NotDue
    BY TimeAssumption DEF NotDue
  <2>2. threat \in [Region -> BOOLEAN] /\ timer \in [Region -> 0..NotDue]
    BY DEF TypeOK
  <2>3. /\ threat' = [threat EXCEPT ![r] = FALSE]
        /\ timer' = [timer EXCEPT ![r] = NotDue]
    BY DEF PruneThreat
  <2>4. QED
    BY <2>1, <2>2, <2>3
<1>6. QED
  BY <1>1, <1>2, <1>3, <1>4, <1>5 DEF TypeOK, PruneThreat, SyncState, SenderState

LEMMA AlarmOnTyped ==
  ASSUME TypeOK, NEW r \in Region, AlarmOn(r)
  PROVE  TypeOK'
<1>1. sync' \in [Task -> {Idle} \cup SyncState]
  BY OnChangeType DEF AlarmOn
<1>2. events' \in 0..MaxEvents
  BY TimeAssumption DEF TypeOK, AlarmOn, Change
<1>3. queue' \in Seq(Push)
  <2>1. Tell(r, "high", "official_alarm") \in Push
    BY TellType DEF AlarmOn, Level, Type
  <2>2. QED
    BY <2>1 DEF TypeOK, AlarmOn
<1>4. alarm' \in [Region -> BOOLEAN]
  BY DEF TypeOK, AlarmOn
<1>5. QED
  BY <1>1, <1>2, <1>3, <1>4 DEF TypeOK, AlarmOn, SyncState, history

LEMMA AlarmOffTyped ==
  ASSUME TypeOK, NEW r \in Region, AlarmOff(r)
  PROVE  TypeOK'
<1>1. sync' \in [Task -> {Idle} \cup SyncState]
  BY OnChangeType DEF AlarmOff
<1>2. events' \in 0..MaxEvents
  BY TimeAssumption DEF TypeOK, AlarmOff, Change
<1>3. /\ rows' \in [Region -> Seq(Row)]
      /\ paired' \in [Region -> BOOLEAN]
  BY LogClearingType DEF AlarmOff, TypeOK, history
<1>4. queue' \in Seq(Push)
  <2>1. AllClear(r, "threat") \in Seq(Push)
    BY AllClearType DEF AlarmOff, Type
  <2>2. Tell(r, "none", "official_alarm") \in Push
    BY TellType DEF AlarmOff, Level, Type
  <2>3. queue \in Seq(Push)
    BY DEF TypeOK
  <2> DEFINE over == Tell(r, "none", "official_alarm")
             both == queue \o AllClear(r, "threat")
  <2>4. queue' = both \o <<over>> \/ queue' = Append(queue, over)
    BY DEF AlarmOff
  <2> HIDE DEF over, Push
  <2>5. over \in Push /\ <<over>> \in Seq(Push)
    BY <2>2 DEF over
  <2>6. both \in Seq(Push)
    BY <2>1, <2>3
  <2> HIDE DEF both
  <2>7. both \o <<over>> \in Seq(Push) /\ Append(queue, over) \in Seq(Push)
    BY <2>3, <2>5, <2>6
  <2>8. QED
    BY <2>4, <2>7
<1>5. /\ threat' \in [Region -> BOOLEAN]
      /\ alarm' \in [Region -> BOOLEAN]
      /\ timer' \in [Region -> 0..NotDue]
  <2>1. NotDue \in 0..NotDue
    BY TimeAssumption DEF NotDue
  <2>2. QED
    BY <2>1 DEF TypeOK, AlarmOff
<1>6. QED
  BY <1>1, <1>2, <1>3, <1>4, <1>5 DEF TypeOK, AlarmOff, SyncState

LEMMA SyncTyped ==
  ASSUME TypeOK, NEW k \in Task, SyncStep(k)
  PROVE  TypeOK'
<1> DEFINE r == sync[k].region
<1>1. /\ sync[k] \in SyncState
      /\ sync[k].stage # "idle"
      /\ r \in Region
      /\ sync[k].siren \in BOOLEAN /\ sync[k].was \in BOOLEAN /\ sync[k].time \in Int
  BY DEF TypeOK, SyncStep, SyncState, Stage, Idle
<1>2. /\ logged[r].threat \in BOOLEAN
      /\ alarm[r] \in BOOLEAN
      /\ threat[r] \in BOOLEAN
      /\ since[r] \in Int
      /\ now \in Int
  <2>1. r \in Region
    BY <1>1
  <2> HIDE DEF r
  <2>2. logged \in [Region -> [threat : BOOLEAN, alarm : BOOLEAN]]
    BY DEF TypeOK
  <2>3. logged[r].threat \in BOOLEAN
    BY <2>1, <2>2
  <2>4. alarm[r] \in BOOLEAN /\ threat[r] \in BOOLEAN /\ since[r] \in Int
    BY <2>1 DEF TypeOK
  <2>5. now \in Int
    BY TimeAssumption DEF TypeOK
  <2> QED BY <2>3, <2>4, <2>5
<1>3. sync \in [Task -> {Idle} \cup SyncState]
  BY DEF TypeOK, SyncState
<1>4. ASSUME NEW was \in BOOLEAN, Diff(k, was)
      PROVE  /\ sync' \in [Task -> {Idle} \cup SyncState]
             /\ logged' \in [Region -> [threat : BOOLEAN, alarm : BOOLEAN]]
  <2>1. CASE threat[r] = was
    <3>1. /\ sync' = [sync EXCEPT ![k] = Idle]
          /\ logged' = [logged EXCEPT ![r] = [threat |-> was, alarm |-> alarm[r]]]
      BY <1>4, <2>1, Zenon DEF Diff
    <3>2. QED
      BY <1>2, <1>3, <3>1 DEF TypeOK
  <2>2. CASE threat[r] # was
    <3> DEFINE s == IF threat[r] THEN "added" ELSE "cleared"
    <3>1. s \in Stage
      BY DEF Stage
    <3>2. sync' = [sync EXCEPT ![k].stage = s, ![k].was = was, ![k].time = since[r]]
      BY <1>4, <2>2 DEF Diff
    <3>3. logged' = logged
      BY <1>4, <2>2 DEF Diff
    <3> HIDE DEF s
    <3>4. [sync[k] EXCEPT !.stage = s, !.was = was, !.time = since[r]] \in SyncState
      BY <1>1, <1>2, <3>1 DEF SyncState
    <3>5. QED
      BY <1>3, <3>2, <3>3, <3>4 DEF TypeOK
  <2>3. QED
    BY <2>1, <2>2
<1>5. ASSUME NEW s \in Stage, Step(k, s)
      PROVE  sync' \in [Task -> {Idle} \cup SyncState]
  BY <1>1, <1>3, <1>5 DEF Step, SyncState
<1>6. CASE SyncStart(k)
  <2>1. CASE Diff(k, logged[r].threat)
    BY <1>2, <1>4, <1>6, <2>1
    DEF SyncStart, TypeOK, SyncState, state, history, delivery
  <2>2. CASE ~Diff(k, logged[r].threat)
    <3>1. sync' = [sync EXCEPT ![k].stage = "siren", ![k].siren = alarm[r],
                               ![k].was = logged[r].threat]
      BY <1>6, <2>2 DEF SyncStart
    <3>2. [sync[k] EXCEPT !.stage = "siren", !.siren = alarm[r],
                          !.was = logged[r].threat] \in SyncState
      BY <1>1, <1>2 DEF SyncState, Stage
    <3>3. sync' \in [Task -> {Idle} \cup SyncState]
      BY <1>3, <3>1, <3>2
    <3>4. logged' = logged
      BY <1>6, <2>2 DEF SyncStart
    <3>5. QED
      BY <1>6, <3>3, <3>4
      DEF SyncStart, TypeOK, SyncState, state, history, delivery
  <2>3. QED
    BY <2>1, <2>2
<1>7. CASE SyncSiren(k)
  <2>1. rows' \in [Region -> Seq(Row)]
    BY <1>1, <1>2, <1>7, LogType DEF SyncSiren, Level, Type
  <2>2. sync' \in [Task -> {Idle} \cup SyncState]
    BY <1>5, <1>7 DEF SyncSiren, Stage
  <2>3. QED
    BY <1>7, <2>1, <2>2 DEF SyncSiren, TypeOK, SyncState, state, delivery
<1>13. CASE SyncSirenLogged(k)
  <2>1. \E s \in Stage : Step(k, s)
    BY <1>13 DEF SyncSirenLogged, Stage
  <2>2. sync' \in [Task -> {Idle} \cup SyncState]
    BY <1>5, <2>1
  <2>3. QED
    BY <1>13, <2>2 DEF SyncSirenLogged, TypeOK, SyncState, state, history, delivery
<1>14. CASE SyncAllClear(k)
  <2>1. sync' \in [Task -> {Idle} \cup SyncState]
    BY <1>5, <1>14 DEF SyncAllClear, Stage
  <2>2. paired' \in [Region -> BOOLEAN]
    BY <1>14 DEF SyncAllClear, TypeOK
  <2>3. QED
    BY <1>14, <2>1, <2>2 DEF SyncAllClear, TypeOK, SyncState, state, delivery
<1>8. CASE SyncDiff(k)
  BY <1>1, <1>4, <1>8 DEF SyncDiff, TypeOK, SyncState, state, history, delivery
<1>9. CASE SyncAdded(k)
  <2>1. rows' \in [Region -> Seq(Row)]
    BY <1>1, <1>9, LogType DEF SyncAdded, Level, Type
  <2>2. sync' \in [Task -> {Idle} \cup SyncState]
    BY <1>5, <1>9 DEF SyncAdded, Stage
  <2>3. paired' \in [Region -> BOOLEAN]
    BY <1>1, <1>9 DEF SyncAdded, TypeOK
  <2>4. QED
    BY <1>9, <2>1, <2>2, <2>3 DEF SyncAdded, TypeOK, SyncState, state, delivery
<1>10. CASE SyncCleared(k)
  <2>1. rows' \in [Region -> Seq(Row)]
    BY <1>1, <1>2, <1>10, LogType DEF SyncCleared, Level, Type
  <2>2. sync' \in [Task -> {Idle} \cup SyncState]
    BY <1>5, <1>10 DEF SyncCleared, Stage
  <2>3. QED
    BY <1>10, <2>1, <2>2 DEF SyncCleared, TypeOK, SyncState, state, delivery
<1>15. CASE SyncCloses(k)
  <2>1. sync' \in [Task -> {Idle} \cup SyncState]
    BY <1>5, <1>15 DEF SyncCloses, Stage
  <2>2. paired' \in [Region -> BOOLEAN]
    BY <1>15 DEF SyncCloses, TypeOK
  <2>3. QED
    BY <1>15, <2>1, <2>2 DEF SyncCloses, TypeOK, SyncState, state, delivery
<1>11. CASE SyncDone(k)
  BY <1>1, <1>2, <1>3, <1>11 DEF SyncDone, TypeOK, SyncState, state, history, delivery
<1>12. QED
  BY <1>6, <1>7, <1>8, <1>9, <1>10, <1>11, <1>13, <1>14, <1>15 DEF SyncStep

LEMMA SendTyped ==
  ASSUME TypeOK, NEW x \in Thread, SendStep(x)
  PROVE  TypeOK'
<1>1. /\ sender[x] \in SenderState
      /\ sender[x].push \in Push
      /\ sender \in [Thread -> {Idle} \cup SenderState]
  BY DEF TypeOK, SendStep, Throttle, CheckDuplicate, Send, SenderState
<1>2. KeyOf(sender[x].push) \in Key
  BY <1>1 DEF KeyOf, Key, Push
<1>3. now \in 0..MaxTime
  BY DEF TypeOK
<1> HIDE DEF Push
<1>4. ASSUME NEW s \in {"duplicate", "send"}, Pass(x, s)
      PROVE  sender' \in [Thread -> {Idle} \cup SenderState]
  BY <1>1, <1>4 DEF Pass, SenderState
<1>5. ASSUME Drop(x)
      PROVE  sender' \in [Thread -> {Idle} \cup SenderState]
  BY <1>1, <1>5 DEF Drop
<1>6. CASE Throttle(x)
  <2>1. sender' \in [Thread -> {Idle} \cup SenderState]
    BY <1>4, <1>5, <1>6 DEF Throttle
  <2>2. stamp' \in [Key -> {Never} \cup 0..MaxTime]
    BY <1>2, <1>3, <1>6 DEF Throttle, TypeOK
  <2>3. QED
    BY <1>6, <2>1, <2>2 DEF Throttle, TypeOK, SenderState, state, history
<1>7. CASE CheckDuplicate(x)
  <2>1. sender' \in [Thread -> {Idle} \cup SenderState]
    BY <1>4, <1>5, <1>7 DEF CheckDuplicate
  <2>2. QED
    BY <1>7, <2>1 DEF CheckDuplicate, TypeOK, SenderState, state, history
<1>8. CASE Send(x)
  <2>1. sender' \in [Thread -> {Idle} \cup SenderState]
    BY <1>5, <1>8 DEF Send
  <2>2. sent' \in [Key -> {Never} \cup 0..MaxTime]
    BY <1>2, <1>3, <1>8 DEF Send, TypeOK
  <2>3. newest' \in [Region \X BOOLEAN -> 0..MaxEvents]
    BY <1>1, <1>8 DEF Send, TypeOK, Push
  <2>4. QED
    BY <1>8, <2>1, <2>2, <2>3 DEF Send, TypeOK, SenderState, state, history
<1>9. QED
  BY <1>6, <1>7, <1>8 DEF SendStep

LEMMA TakeTyped ==
  ASSUME TypeOK, Take
  PROVE  TypeOK'
<1>1. Head(queue) \in Push /\ Tail(queue) \in Seq(Push)
  BY DEF TypeOK, Take
<1> HIDE DEF Push
<1>2. sender' \in [Thread -> {Idle} \cup SenderState]
  BY <1>1 DEF TypeOK, Take, Carry, SenderState, Thread
<1>3. QED
  BY <1>1, <1>2 DEF TypeOK, Take, SenderState, state, history

LEMMA ExpireTyped ==
  ASSUME TypeOK, NEW r \in Region, Expire(r)
  PROVE  TypeOK'
<1> DEFINE alert == [region |-> r, level |-> "high", type |-> "threat", of |-> events]
<1>1. alert \in Push
  BY DEF TypeOK, Push, Level, Type
<1>2. timer' \in [Region -> 0..NotDue]
  <2>1. NotDue \in 0..NotDue
    BY TimeAssumption DEF NotDue
  <2>2. QED
    BY <2>1 DEF TypeOK, Expire
<1> HIDE DEF alert, Push
<1>3. sender' = sender \/ Carry(r, alert)
  BY DEF Expire, alert
<1>4. sender' \in [Thread -> {Idle} \cup SenderState]
  <2>1. CASE Carry(r, alert)
    BY <1>1, <2>1 DEF TypeOK, Carry, SenderState, Thread
  <2>2. CASE sender' = sender
    BY <2>2 DEF TypeOK, SenderState
  <2>3. QED
    BY <1>3, <2>1, <2>2
<1>5. QED
  BY <1>2, <1>4 DEF TypeOK, Expire, SenderState, state, history

LEMMA TickTyped ==
  ASSUME TypeOK, Tick
  PROVE  TypeOK'
<1>1. now' \in 0..MaxTime
  BY TimeAssumption DEF TypeOK, Tick
<1>2. QED
  BY <1>1 DEF TypeOK, Tick, state, history, delivery

LEMMA TypeStep ==
  ASSUME TypeOK, [Next]_vars
  PROVE  TypeOK'
<1>1. ASSUME NEW r \in Region, NEW age \in Ages, Raise(r, age) \/ BatchRaise(r, age)
      PROVE  TypeOK'
  BY <1>1, RaiseTyped, BatchRaiseTyped
<1>2. ASSUME NEW r \in Region, NEW type \in {"threat", "threat_clear"},
             ClearThreat(r, type)
      PROVE  TypeOK'
  BY <1>2, ClearThreatTyped
<1>3. ASSUME NEW r \in Region,
             PruneThreat(r) \/ AlarmOn(r) \/ AlarmOff(r) \/ Expire(r)
      PROVE  TypeOK'
  BY <1>3, PruneThreatTyped, AlarmOnTyped, AlarmOffTyped, ExpireTyped
<1>4. ASSUME NEW k \in Task, SyncStep(k) PROVE TypeOK'
  BY <1>4, SyncTyped
<1>5. ASSUME NEW x \in Thread, SendStep(x) PROVE TypeOK'
  BY <1>5, SendTyped
<1>6. CASE UNCHANGED vars
  BY <1>6 DEF TypeOK, vars, state, history, delivery
<1>7. QED
  BY <1>1, <1>2, <1>3, <1>4, <1>5, <1>6, FlushTyped, TakeTyped, TickTyped DEF Next

LEMMA TypeInit == Init => TypeOK
<1> SUFFICES ASSUME Init PROVE TypeOK
  OBVIOUS
<1>1. NotDue \in 0..NotDue
  BY TimeAssumption DEF NotDue
<1>2. <<>> \in Seq(Row) /\ <<>> \in Seq(Push) /\ <<>> \in Seq({p \in Push : IsAlert(p)})
  OBVIOUS
<1>3. 0 \in 0..MaxTime /\ 0 \in 0..MaxEvents
  BY TimeAssumption
<1> HIDE DEF Row, Push, NotDue
<1>4. QED
  BY <1>1, <1>2, <1>3 DEF Init, TypeOK

(* The type invariant holds in every reachable state, for any number of    *)
(* regions and tasks and for every length of the windows.                  *)
THEOREM TypeCorrect == Spec => []TypeOK
<1>1. TypeOK /\ [Next]_vars => TypeOK'
  BY TypeStep
<1>2. QED
  BY <1>1, TypeInit, PTL DEF Spec

-----------------------------------------------------------------------------
(* The throttle.                                                           *)

(* The thread x has got its push through the throttle and has not yet sent *)
(* or dropped it.                                                          *)
Through(x) == sender[x] # Idle /\ sender[x].stage \in {"duplicate", "send"}

(* A push behind the throttle has marked its key in this tick, is the only *)
(* one of its key there, and is the first of the key for a cooldown: the   *)
(* mark of a key is never older than the last push of it.                  *)
ThroughInv ==
  /\ \A x \in Thread :
       Through(x) => /\ stamp[KeyOf(sender[x].push)] = now
                     /\ now - sent[KeyOf(sender[x].push)] >= Cooldown
  /\ \A x, y \in Thread :
       Through(x) /\ Through(y) /\ x # y
         => KeyOf(sender[x].push) # KeyOf(sender[y].push)
  /\ \A k \in Key : sent[k] <= stamp[k]

Inv == TypeOK /\ ThroughInv

(* A step that marks and sends nothing, in which every thread keeps its    *)
(* push or takes one up to the throttle, keeps the invariant.              *)
LEMMA QuietStep ==
  ASSUME Inv, UNCHANGED <<now, stamp, sent>>,
         \A x \in Thread : sender'[x] = sender[x] \/ ~Through(x)'
  PROVE  ThroughInv'
BY DEF Inv, ThroughInv, Through

(* A push that a thread takes up is not through the throttle.              *)
LEMMA CarryStep ==
  ASSUME Inv, NEW c \in Thread, NEW p, Carry(c, p)
  PROVE  \A x \in Thread : sender'[x] = sender[x] \/ ~Through(x)'
BY DEF Inv, TypeOK, Carry, Through

(* What a thread sends is a push of some key.                              *)
LEMMA KeyType ==
  ASSUME TypeOK, NEW x \in Thread, sender[x] # Idle
  PROVE  KeyOf(sender[x].push) \in Key
BY DEF TypeOK, KeyOf, Key, Push

LEMMA ThroughStep ==
  ASSUME Inv, [Next]_vars
  PROVE  ThroughInv'
<1>0. /\ now \in Int
      /\ stamp \in [Key -> Int]
      /\ sent \in [Key -> Int]
      /\ sender = [x \in Thread |-> sender[x]]
  BY TimeAssumption DEF Inv, TypeOK, Never
<1>1. ASSUME UNCHANGED <<now, stamp, sent, sender>> PROVE ThroughInv'
  BY <1>1, QuietStep
<1>2. ASSUME NEW r \in Region, PruneThreat(r) PROVE ThroughInv'
  <2>1. CASE sender' = sender
    BY <1>1, <1>2, <2>1 DEF PruneThreat
  <2>2. CASE Carry(Pruner, Tell(r, "none", "threat"))
    BY <1>2, <2>2, CarryStep, QuietStep DEF PruneThreat, Thread
  <2>3. QED
    BY <1>2, <2>1, <2>2 DEF PruneThreat
<1>3. ASSUME NEW r \in Region, Expire(r) PROVE ThroughInv'
  <2> DEFINE alert == [region |-> r, level |-> "high", type |-> "threat", of |-> events]
  <2>1. sender' = sender \/ Carry(r, alert)
    BY <1>3 DEF Expire
  <2>2. QED
    BY <1>1, <1>3, <2>1, CarryStep, QuietStep DEF Expire, Thread
<1>4. CASE Take
  BY <1>4, CarryStep, QuietStep DEF Take, Thread
<1>5. ASSUME NEW x \in Thread, Throttle(x) PROVE ThroughInv'
  <2> DEFINE k == KeyOf(sender[x].push)
  <2>1. k \in Key
    BY <1>5, KeyType DEF Inv, Throttle
  <2>2. CASE now - stamp[k] < Cooldown
    <3>1. \A y \in Thread : sender'[y] = sender[y] \/ ~Through(y)'
      BY <1>0, <1>5, <2>2 DEF Throttle, Drop, Through
    <3>2. QED
      BY <1>5, <2>2, <3>1, QuietStep DEF Throttle
  <2>3. CASE ~(now - stamp[k] < Cooldown)
    <3>1. /\ stamp' = [stamp EXCEPT ![k] = now]
          /\ sender' = [sender EXCEPT ![x].stage = "duplicate"]
          /\ now' = now /\ sent' = sent
      BY <1>5, <2>3 DEF Throttle, Pass
    <3>2. sender'[x].push = sender[x].push
      <4>1. sender[x] \in SenderState
        BY <1>5 DEF Throttle, Inv, TypeOK, SenderState
      <4>2. QED
        BY <1>0, <3>1, <4>1 DEF SenderState
    <3>3. \A y \in Thread : y # x => sender'[y] = sender[y]
      BY <1>0, <3>1
    <3> HIDE DEF k
    <3>4. \A y \in Thread :
            Through(y) => KeyOf(sender[y].push) # k
      BY <1>0, <2>1, <2>3, TimeAssumption DEF Inv, ThroughInv
    <3>5. now - sent[k] >= Cooldown
      BY <1>0, <2>1, <2>3, TimeAssumption DEF Inv, ThroughInv
    <3>6. ASSUME NEW y \in Thread, Through(y)'
          PROVE  /\ stamp'[KeyOf(sender'[y].push)] = now'
                 /\ now' - sent'[KeyOf(sender'[y].push)] >= Cooldown
      <4>1. CASE y = x
        BY <1>0, <2>1, <3>1, <3>2, <3>5, <4>1 DEF k
      <4>2. CASE y # x
        <5>1. Through(y) /\ KeyOf(sender[y].push) \in Key
          BY <3>3, <3>6, <4>2, KeyType DEF Inv, Through
        <5>2. QED
          BY <1>0, <3>1, <3>3, <3>4, <4>2, <5>1 DEF Inv, ThroughInv
      <4>3. QED
        BY <4>1, <4>2
    <3>7. ASSUME NEW y \in Thread, NEW z \in Thread, Through(y)', Through(z)', y # z
          PROVE  KeyOf(sender'[y].push) # KeyOf(sender'[z].push)
      <4>1. \A w \in Thread : w # x /\ Through(w)' => Through(w)
        BY <3>3 DEF Through
      <4>2. QED
        BY <3>2, <3>3, <3>4, <3>7, <4>1 DEF Inv, ThroughInv, k
    <3>8. \A q \in Key : sent'[q] <= stamp'[q]
      BY <1>0, <2>1, <3>1, <3>5, TimeAssumption DEF Inv, ThroughInv
    <3>9. QED
      BY <3>6, <3>7, <3>8 DEF ThroughInv
  <2>4. QED
    BY <2>2, <2>3
<1>6. ASSUME NEW x \in Thread, CheckDuplicate(x) PROVE ThroughInv'
  <2>1. \A y \in Thread :
          /\ sender'[y] = sender[y] \/ sender'[y] = Idle
             \/ (Through(y) /\ sender'[y].push = sender[y].push)
    <3>1. sender[x] \in SenderState /\ Through(x)
      BY <1>6 DEF CheckDuplicate, Inv, TypeOK, SenderState, Through
    <3>2. QED
      BY <1>0, <1>6, <3>1 DEF CheckDuplicate, Drop, Pass, SenderState
  <2>2. \A y \in Thread : Through(y)' => /\ Through(y)
                                         /\ sender'[y].push = sender[y].push
    BY <2>1 DEF Through
  <2>3. QED
    BY <1>6, <2>2 DEF CheckDuplicate, Inv, ThroughInv
<1>7. ASSUME NEW x \in Thread, Send(x) PROVE ThroughInv'
  <2> DEFINE k == KeyOf(sender[x].push)
  <2>1. k \in Key /\ Through(x)
    BY <1>7, KeyType DEF Inv, Send, Through
  <2>2. \A y \in Thread : Through(y)' => /\ y # x
                                         /\ Through(y)
                                         /\ sender'[y] = sender[y]
    BY <1>0, <1>7 DEF Send, Drop, Through
  <2>3. /\ now' = now /\ stamp' = stamp
        /\ sent' = sent \/ sent' = [sent EXCEPT ![k] = now]
    BY <1>7 DEF Send
  <2> HIDE DEF k
  <2>4. stamp[k] = now
    BY <2>1 DEF Inv, ThroughInv, k
  <2>5. ASSUME NEW y \in Thread, Through(y)'
        PROVE  /\ stamp'[KeyOf(sender'[y].push)] = now'
               /\ now' - sent'[KeyOf(sender'[y].push)] >= Cooldown
    <3>1. KeyOf(sender[y].push) # k
      BY <2>1, <2>2, <2>5 DEF Inv, ThroughInv, k
    <3>2. KeyOf(sender[y].push) \in Key
      BY <2>2, <2>5, KeyType DEF Inv, Through
    <3>3. QED
      BY <1>0, <2>2, <2>3, <2>5, <3>1, <3>2 DEF Inv, ThroughInv
  <2>6. \A y, z \in Thread :
          Through(y)' /\ Through(z)' /\ y # z
            => KeyOf(sender'[y].push) # KeyOf(sender'[z].push)
    BY <2>2 DEF Inv, ThroughInv
  <2>7. \A q \in Key : sent'[q] <= stamp'[q]
    BY <1>0, <2>1, <2>3, <2>4 DEF Inv, ThroughInv
  <2>8. QED
    BY <2>5, <2>6, <2>7 DEF ThroughInv
<1>8. CASE Tick
  BY <1>8 DEF Tick, Inv, ThroughInv, Through, delivery
<1>9. ASSUME NEW r \in Region, NEW age \in Ages, Raise(r, age) \/ BatchRaise(r, age)
      PROVE  ThroughInv'
  BY <1>1, <1>9 DEF Raise, BatchRaise, Report, delivery
<1>10. ASSUME NEW r \in Region, NEW type \in {"threat", "threat_clear"},
              ClearThreat(r, type)
       PROVE  ThroughInv'
  BY <1>1, <1>10 DEF ClearThreat
<1>11. ASSUME NEW r \in Region, AlarmOn(r) \/ AlarmOff(r) PROVE ThroughInv'
  BY <1>1, <1>11 DEF AlarmOn, AlarmOff
<1>12. ASSUME NEW k \in Task, SyncStep(k) PROVE ThroughInv'
  BY <1>1, <1>12 DEF SyncStep, SyncStart, SyncSiren, SyncSirenLogged, SyncAllClear,
                     SyncDiff, SyncAdded, SyncCleared, SyncCloses, SyncDone, delivery
<1>13. CASE UNCHANGED vars \/ Flush
  BY <1>1, <1>13 DEF vars, delivery, Flush
<1>14. QED
  BY <1>2, <1>3, <1>4, <1>5, <1>6, <1>7, <1>8, <1>9, <1>10, <1>11, <1>12, <1>13
  DEF Next, SendStep

(* Whatever threads send at once, no push of a region is repeated within   *)
(* the cooldown: check and mark are one step of _is_fcm_throttled, and the *)
(* mark is of the very tick in which the push goes out.                    *)
THEOREM NoRepeat == Spec => NoRepeatWithinCooldown
<1>1. Init => Inv
  <2>1. Init => ThroughInv
    BY TimeAssumption DEF Init, ThroughInv, Through, Never
  <2>2. QED
    BY <2>1, TypeInit DEF Inv
<1>2. Inv /\ [Next]_vars => Inv'
  BY TypeStep, ThroughStep DEF Inv
<1>3. Inv => [\A x \in Thread :
               Send(x) => now - sent[KeyOf(sender[x].push)] >= Cooldown]_vars
  BY DEF Inv, ThroughInv, Through, Send
<1>4. QED
  BY <1>1, <1>2, <1>3, PTL DEF Spec, NoRepeatWithinCooldown
-----------------------------------------------------------------------------
(* The order of the queue.                                                 *)

QueuedOf(i) == queue[i].of
HeldAt(i) == IsAlert(queue[i])
BufferedOf(i) == buffer[i].of
Carried == sender[Worker].push.of
CarriedHeld == IsAlert(sender[Worker].push)
Carrying == sender[Worker] # Idle
Lane == Region \X BOOLEAN

(* All that waits in the lane of alerts, or in that of other pushes, tells *)
(* of a change no older than v.                                            *)
Ahead(v, held) ==
  /\ \A i \in 1..Len(queue) : (HeldAt(i) <=> held) => v <= QueuedOf(i)
  /\ held => \A i \in 1..Len(buffer) : v <= BufferedOf(i)

(* The pushes of each lane wait in the order of their changes.             *)
Sorted ==
  /\ \A i, j \in 1..Len(queue) :
       i <= j /\ (HeldAt(i) <=> HeldAt(j)) => QueuedOf(i) <= QueuedOf(j)
  /\ \A i, j \in 1..Len(buffer) : i <= j => BufferedOf(i) <= BufferedOf(j)
  /\ \A i \in 1..Len(queue), j \in 1..Len(buffer) :
       HeldAt(i) => QueuedOf(i) <= BufferedOf(j)

NoneAhead ==
  /\ \A i \in 1..Len(queue) : QueuedOf(i) <= events
  /\ \A i \in 1..Len(buffer) : BufferedOf(i) <= events
  /\ Carrying => Carried <= events
  /\ \A lane \in Lane : newest[lane] <= events

(* They wait behind the one that the worker carries, and that behind all   *)
(* that was sent.                                                          *)
InOrder ==
  /\ Sorted
  /\ NoneAhead
  /\ Carrying => Ahead(Carried, CarriedHeld)
  /\ \A lane \in Lane :
       /\ Ahead(newest[lane], lane[2])
       /\ Carrying /\ (CarriedHeld <=> lane[2]) => newest[lane] <= Carried

LEMMA OrderTypes ==
  ASSUME TypeOK
  PROVE  /\ events \in Int /\ Len(queue) \in Nat /\ Len(buffer) \in Nat
         /\ \A i \in 1..Len(queue) : QueuedOf(i) \in Int
         /\ \A i \in 1..Len(buffer) : BufferedOf(i) \in Int /\ IsAlert(buffer[i])
         /\ Carrying => Carried \in Int
         /\ \A lane \in Lane : newest[lane] \in Int /\ lane[2] \in BOOLEAN
<1> DEFINE Alert == {p \in Push : IsAlert(p)}
<1>1. \A p \in Push : p.of \in Int
  BY TimeAssumption DEF Push
<1>2. /\ queue \in Seq(Push) /\ sender[Worker] \in {Idle} \cup SenderState
      /\ buffer \in Seq(Alert)
  BY DEF TypeOK, Thread, SenderState
<1>3. Carrying => Carried \in Int
  BY <1>1, <1>2 DEF SenderState, Carrying, Carried
<1>4. \A p \in Alert : p.of \in Int /\ IsAlert(p)
  BY <1>1
<1> HIDE DEF Push, Alert, IsAlert
<1>5. /\ \A i \in 1..Len(queue) : queue[i] \in Push
      /\ \A i \in 1..Len(buffer) : buffer[i] \in Alert
      /\ Len(queue) \in Nat /\ Len(buffer) \in Nat
  BY <1>2
<1>6. events \in Int /\ \A lane \in Lane : newest[lane] \in Int /\ lane[2] \in BOOLEAN
  BY TimeAssumption DEF TypeOK, Lane
<1> QED BY <1>1, <1>3, <1>4, <1>5, <1>6 DEF QueuedOf, BufferedOf

(* Whatever moves from the buffer to the queue or out of it, and whatever  *)
(* a change adds, v stays ahead.                                           *)
Moved ==
  /\ \A i \in 1..Len(queue') :
       \/ \E j \in 1..Len(queue) : queue'[i] = queue[j]
       \/ \E j \in 1..Len(buffer) : queue'[i] = buffer[j]
       \/ queue'[i].of = events'
  /\ \A i \in 1..Len(buffer') :
       \/ \E j \in 1..Len(buffer) : buffer'[i] = buffer[j]
       \/ buffer'[i].of = events'

AheadNext(v, held) ==
  /\ \A i \in 1..Len(queue') : (IsAlert(queue'[i]) <=> held) => v <= queue'[i].of
  /\ held => \A i \in 1..Len(buffer') : v <= buffer'[i].of

LEMMA AheadKept ==
  ASSUME TypeOK, Moved
  PROVE  \A v \in Int, held \in BOOLEAN :
           v <= events' /\ Ahead(v, held) => AheadNext(v, held)
<1> TAKE v \in Int, held \in BOOLEAN
<1> HAVE v <= events' /\ Ahead(v, held)
<1>1. \A j \in 1..Len(buffer) : IsAlert(buffer[j])
  BY OrderTypes
<1>2. ASSUME NEW i \in 1..Len(queue'), IsAlert(queue'[i]) <=> held
      PROVE  v <= queue'[i].of
  <2>1. ASSUME NEW j \in 1..Len(queue), queue'[i] = queue[j] PROVE v <= queue'[i].of
    BY <1>2, <2>1 DEF Ahead, HeldAt, QueuedOf
  <2>2. ASSUME NEW j \in 1..Len(buffer), queue'[i] = buffer[j] PROVE v <= queue'[i].of
    <3>1. held
      BY <1>1, <1>2, <2>2
    <3> QED BY <2>2, <3>1 DEF Ahead, BufferedOf
  <2> QED BY <2>1, <2>2 DEF Moved
<1>3. held => \A i \in 1..Len(buffer') : v <= buffer'[i].of
  BY DEF Moved, Ahead, BufferedOf
<1> QED BY <1>2, <1>3 DEF AheadNext

(* A step that sends nothing, in which the worker keeps its push or drops  *)
(* it, keeps the order if it keeps the lanes sorted.                       *)
LEMMA MovedInOrder ==
  ASSUME TypeOK, InOrder, Moved, newest' = newest, Sorted',
         events' = events \/ Change,
         sender'[Worker] = Idle \/ (Carrying /\ sender'[Worker].push = sender[Worker].push)
           \/ sender'[Worker] = sender[Worker]
  PROVE  InOrder'
<1>1. events \in Int /\ events' \in Int /\ events <= events'
  BY OrderTypes DEF Change
<1>2. Carrying' => Carrying /\ Carried' = Carried /\ CarriedHeld' = CarriedHeld
  BY DEF Carrying, Carried, CarriedHeld
<1>0. /\ \A i \in 1..Len(queue) : queue[i].of \in Int /\ queue[i].of <= events'
      /\ \A i \in 1..Len(buffer) : buffer[i].of \in Int /\ buffer[i].of <= events'
  <2>1. /\ \A i \in 1..Len(queue) : queue[i].of \in Int
        /\ \A i \in 1..Len(buffer) : buffer[i].of \in Int
    BY OrderTypes DEF QueuedOf, BufferedOf
  <2>2. /\ \A i \in 1..Len(queue) : queue[i].of <= events
        /\ \A i \in 1..Len(buffer) : buffer[i].of <= events
    BY DEF InOrder, NoneAhead, QueuedOf, BufferedOf
  <2> QED BY <1>1, <2>1, <2>2
<1>3. \A i \in 1..Len(queue') : QueuedOf(i)' <= events'
  BY <1>0, <1>1 DEF Moved, QueuedOf
<1>4. \A i \in 1..Len(buffer') : BufferedOf(i)' <= events'
  BY <1>0, <1>1 DEF Moved, BufferedOf
<1>5. Carrying' => Carried' <= events'
  BY <1>1, <1>2, OrderTypes DEF InOrder, NoneAhead
<1>6. \A lane \in Lane : newest[lane] \in Int /\ newest[lane] <= events' /\ lane[2] \in BOOLEAN
  BY <1>1, OrderTypes DEF InOrder, NoneAhead
<1>7. Carrying' => Ahead(Carried, CarriedHeld)'
  <2> SUFFICES ASSUME Carrying' PROVE Ahead(Carried, CarriedHeld)'
    OBVIOUS
  <2>1. /\ Carried \in Int /\ Carried <= events' /\ Ahead(Carried, CarriedHeld)
        /\ CarriedHeld \in BOOLEAN
    BY <1>2, <1>5, OrderTypes DEF InOrder, CarriedHeld, IsAlert
  <2>2. AheadNext(Carried, CarriedHeld)
    BY <2>1, AheadKept
  <2> QED BY <1>2, <2>2 DEF AheadNext, Ahead, HeldAt, QueuedOf, BufferedOf
<1>8. \A lane \in Lane : Ahead(newest[lane], lane[2])'
  <2> TAKE lane \in Lane
  <2>1. AheadNext(newest[lane], lane[2])
    BY <1>6, AheadKept DEF InOrder
  <2> QED BY <2>1 DEF AheadNext, Ahead, HeldAt, QueuedOf, BufferedOf
<1>9. \A lane \in Lane :
        Carrying' /\ (CarriedHeld' <=> lane[2]) => newest'[lane] <= Carried'
  BY <1>2 DEF InOrder
<1> QED BY <1>3, <1>4, <1>5, <1>6, <1>7, <1>8, <1>9 DEF InOrder, NoneAhead

(* Pushes of the change that is made, and no alerts, are put behind the    *)
(* queue.                                                                  *)
Behind ==
  /\ Len(queue') \in Nat /\ Len(queue') >= Len(queue) /\ buffer' = buffer
  /\ \A i \in 1..Len(queue) : queue'[i] = queue[i]
  /\ \A i \in 1..Len(queue') : i > Len(queue) => /\ queue'[i].of = events'
                                               /\ ~IsAlert(queue'[i])

LEMMA BehindKeepsOrder ==
  ASSUME TypeOK, InOrder, Change, Behind,
         sender'[Worker] = sender[Worker], newest' = newest
  PROVE  InOrder'
<1>1. /\ events \in Int /\ events' = events + 1
      /\ Len(queue) \in Nat /\ Len(queue') \in Nat /\ Len(buffer) \in Nat
  BY OrderTypes DEF Change, Behind
<1>2. \A i \in 1..Len(queue') :
        \/ i \in 1..Len(queue) /\ queue'[i] = queue[i]
        \/ i > Len(queue) /\ queue'[i].of = events' /\ ~IsAlert(queue'[i])
  BY <1>1 DEF Behind
<1>3. Moved
  BY <1>2 DEF Moved, Behind
<1>4. \A i \in 1..Len(queue) : QueuedOf(i) \in Int /\ QueuedOf(i) <= events
  BY OrderTypes DEF InOrder, NoneAhead
<1>5. ASSUME NEW i \in 1..Len(queue'), NEW j \in 1..Len(queue'), i <= j,
             IsAlert(queue'[i]) <=> IsAlert(queue'[j])
      PROVE  queue'[i].of <= queue'[j].of
  <2>1. /\ i \in Int /\ j \in Int
        /\ \A k \in 1..Len(queue) : queue[k].of \in Int /\ queue[k].of <= events
    BY <1>1, <1>4 DEF QueuedOf
  <2>2. \A k, l \in 1..Len(queue) :
          k <= l /\ (IsAlert(queue[k]) <=> IsAlert(queue[l])) => queue[k].of <= queue[l].of
    BY DEF InOrder, Sorted, QueuedOf, HeldAt
  <2>3. CASE j \in 1..Len(queue)
    <3>1. i \in 1..Len(queue)
      BY <1>1, <1>5, <2>1, <2>3
    <3> QED BY <1>5, <2>2, <2>3, <3>1 DEF Behind
  <2>4. CASE j \notin 1..Len(queue)
    <3>1. queue'[j].of = events'
      BY <1>2, <2>4
    <3> QED BY <1>1, <1>2, <2>1, <3>1
  <2> QED BY <2>3, <2>4
<1>6. Sorted'
  <2>1. \A i, j \in 1..Len(buffer') : i <= j => buffer'[i].of <= buffer'[j].of
    BY DEF InOrder, Sorted, BufferedOf, Behind
  <2>2. \A i \in 1..Len(queue'), j \in 1..Len(buffer') :
          IsAlert(queue'[i]) => queue'[i].of <= buffer'[j].of
    BY <1>2 DEF InOrder, Sorted, BufferedOf, QueuedOf, HeldAt, Behind
  <2> QED BY <1>5, <2>1, <2>2 DEF Sorted, BufferedOf, QueuedOf, HeldAt
<1> QED BY <1>3, <1>6, MovedInOrder

(* One push of this change put behind what is already behind the queue.    *)
LEMMA OneMoreBehind ==
  ASSUME NEW q \in Seq(Push), NEW p \in Push, p.of = events', ~IsAlert(p),
         queue \in Seq(Push), Len(q) >= Len(queue), buffer' = buffer,
         \A i \in 1..Len(queue) : q[i] = queue[i],
         \A i \in 1..Len(q) : i > Len(queue) => q[i].of = events' /\ ~IsAlert(q[i]),
         queue' = Append(q, p)
  PROVE  Behind
<1> HIDE DEF Push, IsAlert
<1>1. Len(q) \in Nat /\ Len(queue) \in Nat /\ Len(Append(q, p)) = Len(q) + 1
  OBVIOUS
<1>2. \A i \in 1..Len(q) : Append(q, p)[i] = q[i]
  OBVIOUS
<1>3. Append(q, p)[Len(q) + 1] = p
  OBVIOUS
<1> QED BY <1>1, <1>2, <1>3 DEF Behind

LEMMA TellIsNew == ASSUME NEW r, NEW level, NEW type, Change
                   PROVE  /\ Tell(r, level, type).of = events'
                          /\ IsAlert(Tell(r, level, type)) <=> level = "high" /\ type = "threat"
BY DEF Tell, Change, IsAlert

LEMMA AllClearBehind ==
  ASSUME TypeOK, Change, NEW r \in Region, NEW type \in Type,
         queue' = queue \o AllClear(r, type), buffer' = buffer
  PROVE  Behind
<1>1. queue \in Seq(Push)
  BY DEF TypeOK
<1>2. /\ Tell(r, "none", type) \in Push /\ Tell(r, "none", type).of = events'
      /\ ~IsAlert(Tell(r, "none", type))
  BY TellType, TellIsNew DEF Level
<1> HIDE DEF Push, IsAlert
<1>3. CASE timer[r] = NotDue
  <2> DEFINE p == Tell(r, "none", type)
  <2>1. queue' = queue \o <<p>> /\ p \in Push /\ p.of = events' /\ ~IsAlert(p)
    BY <1>2, <1>3 DEF AllClear
  <2> HIDE DEF p
  <2>2. queue' = Append(queue, p)
    BY <1>1, <2>1
  <2>3. \A i \in 1..Len(queue) : i > Len(queue) => queue[i].of = events' /\ ~IsAlert(queue[i])
    BY <1>1
  <2> QED BY <1>1, <2>1, <2>2, <2>3, OneMoreBehind
<1>4. CASE timer[r] # NotDue
  <2>1. queue' = queue
    BY <1>1, <1>4 DEF AllClear
  <2> QED BY <1>1, <2>1 DEF Behind
<1> QED BY <1>3, <1>4

LEMMA AlarmOnBehind == ASSUME TypeOK, NEW r \in Region, AlarmOn(r) PROVE Behind
<1> DEFINE p == Tell(r, "high", "official_alarm")
<1>1. p \in Push /\ p.of = events' /\ ~IsAlert(p)
  BY TellType, TellIsNew DEF AlarmOn, Level, Type
<1>2. queue \in Seq(Push) /\ queue' = Append(queue, p) /\ buffer' = buffer
  BY DEF TypeOK, AlarmOn
<1> HIDE DEF p, Push, IsAlert
<1>3. \A i \in 1..Len(queue) : i > Len(queue) => queue[i].of = events' /\ ~IsAlert(queue[i])
  BY <1>2
<1> QED BY <1>1, <1>2, <1>3, OneMoreBehind

LEMMA AlarmOffBehind == ASSUME TypeOK, NEW r \in Region, AlarmOff(r) PROVE Behind
<1> DEFINE over == Tell(r, "none", "official_alarm")
           clear == Tell(r, "none", "threat")
<1>1. /\ over \in Push /\ over.of = events' /\ ~IsAlert(over)
      /\ clear \in Push /\ clear.of = events' /\ ~IsAlert(clear)
  BY TellType, TellIsNew DEF AlarmOff, Level, Type
<1>2. queue \in Seq(Push) /\ buffer' = buffer
  BY DEF TypeOK, AlarmOff
<1>3. \/ queue' = Append(queue, over)
      \/ queue' = (queue \o <<>>) \o <<over>>
      \/ queue' = (queue \o <<clear>>) \o <<over>>
  BY DEF AlarmOff, AllClear
<1> HIDE DEF over, clear, Push, IsAlert
<1>4. queue' = Append(queue, over) \/ queue' = Append(Append(queue, clear), over)
  <2>1. (queue \o <<>>) \o <<over>> = Append(queue, over)
    BY <1>1, <1>2
  <2>2. queue \o <<clear>> = Append(queue, clear) /\ Append(queue, clear) \in Seq(Push)
    BY <1>1, <1>2
  <2>3. (queue \o <<clear>>) \o <<over>> = Append(Append(queue, clear), over)
    BY <1>1, <2>2
  <2> QED BY <1>3, <2>1, <2>3
<1>5. CASE queue' = Append(queue, over)
  <2>1. \A i \in 1..Len(queue) : i > Len(queue) => queue[i].of = events' /\ ~IsAlert(queue[i])
    BY <1>2
  <2> QED BY <1>1, <1>2, <1>5, <2>1, OneMoreBehind
<1>6. CASE queue' = Append(Append(queue, clear), over)
  <2> DEFINE q == Append(queue, clear)
  <2>1. /\ q \in Seq(Push) /\ Len(q) = Len(queue) + 1 /\ Len(queue) \in Nat
        /\ q[Len(queue) + 1] = clear
    BY <1>1, <1>2
  <2>2. \A i \in 1..Len(queue) : q[i] = queue[i]
    BY <1>1, <1>2
  <2>3. queue' = Append(q, over)
    BY <1>6
  <2> HIDE DEF q
  <2>4. \A i \in 1..Len(q) : i > Len(queue) => q[i].of = events' /\ ~IsAlert(q[i])
    BY <1>1, <2>1
  <2> QED BY <1>1, <1>2, <2>1, <2>2, <2>3, <2>4, OneMoreBehind
<1> QED BY <1>4, <1>5, <1>6

(* A batch's alert is put behind the buffer.                               *)
LEMMA BatchRaiseKeepsOrder ==
  ASSUME TypeOK, InOrder, NEW r \in Region, NEW age \in Ages, BatchRaise(r, age)
  PROVE  InOrder'
<1> DEFINE p == Tell(r, "high", "threat")
<1>1. /\ Change /\ UNCHANGED <<queue, sender, newest>>
      /\ buffer' = Append(buffer, p) /\ p.of = events'
  BY TellIsNew DEF BatchRaise, Report
<1> HIDE DEF p
<1>2. /\ events \in Int /\ events' = events + 1 /\ Len(buffer) \in Nat
      /\ \A i \in 1..Len(queue) : queue[i].of \in Int /\ queue[i].of <= events
      /\ \A i \in 1..Len(buffer) : buffer[i].of \in Int /\ buffer[i].of <= events
  BY <1>1, OrderTypes DEF Change, InOrder, NoneAhead, QueuedOf, BufferedOf
<1>3. buffer \in Seq({q \in Push : IsAlert(q)})
  BY DEF TypeOK
<1> HIDE DEF Push, IsAlert
<1>4. /\ Len(buffer') = Len(buffer) + 1
      /\ \A i \in 1..Len(buffer) : buffer'[i] = buffer[i]
      /\ buffer'[Len(buffer) + 1].of = events'
  BY <1>1, <1>3
<1>5. \A i \in 1..Len(buffer') :
        (i \in 1..Len(buffer) /\ buffer'[i] = buffer[i]) \/ buffer'[i].of = events'
  BY <1>2, <1>4
<1>6. Moved
  BY <1>1, <1>5 DEF Moved
<1>7. ASSUME NEW i \in 1..Len(buffer'), NEW j \in 1..Len(buffer'), i <= j
      PROVE  buffer'[i].of <= buffer'[j].of
  <2>1. CASE j \in 1..Len(buffer)
    <3>1. i \in 1..Len(buffer)
      BY <1>2, <1>7, <2>1
    <3> QED BY <1>4, <1>7, <2>1, <3>1 DEF InOrder, Sorted, BufferedOf
  <2>2. CASE j \notin 1..Len(buffer)
    <3>1. buffer'[j].of = events'
      BY <1>5, <2>2
    <3> QED BY <1>2, <1>5, <3>1
  <2> QED BY <2>1, <2>2
<1>8. ASSUME NEW i \in 1..Len(queue), NEW j \in 1..Len(buffer'), IsAlert(queue[i])
      PROVE  queue[i].of <= buffer'[j].of
  <2>1. CASE j \in 1..Len(buffer)
    BY <1>4, <1>8, <2>1 DEF InOrder, Sorted, BufferedOf, QueuedOf, HeldAt
  <2>2. CASE j \notin 1..Len(buffer)
    BY <1>2, <1>5, <2>2
  <2> QED BY <2>1, <2>2
<1>9. Sorted'
  <2>1. \A i, j \in 1..Len(queue') :
          i <= j /\ (HeldAt(i)' <=> HeldAt(j)') => QueuedOf(i)' <= QueuedOf(j)'
    BY <1>1 DEF InOrder, Sorted, QueuedOf, HeldAt
  <2> QED BY <1>1, <1>7, <1>8, <2>1 DEF Sorted, QueuedOf, BufferedOf, HeldAt
<1> QED BY <1>1, <1>6, <1>9, MovedInOrder

(* The end of a batch puts the buffer behind the queue.                    *)
LEMMA FlushKeepsOrder == ASSUME TypeOK, InOrder, Flush PROVE InOrder'
<1>1. /\ UNCHANGED <<events, sender, newest>>
      /\ queue' = queue \o buffer /\ buffer' = <<>>
  BY DEF Flush
<1>2. queue \in Seq(Push) /\ buffer \in Seq({q \in Push : IsAlert(q)})
  BY DEF TypeOK
<1>3. \A i \in 1..Len(buffer) : IsAlert(buffer[i])
  BY OrderTypes
<1> DEFINE n == Len(queue)
<1> HIDE DEF Push, IsAlert
<1>4. /\ n \in Nat /\ Len(buffer) \in Nat /\ Len(buffer') = 0
      /\ Len(queue') = n + Len(buffer)
      /\ \A i \in 1..n : queue'[i] = queue[i]
      /\ \A i \in 1..Len(queue') : i > n => queue'[i] = buffer[i - n]
  BY <1>1, <1>2
<1> HIDE DEF n
<1>5. \A i \in 1..Len(queue') :
        \/ i \in 1..n /\ queue'[i] = queue[i]
        \/ i > n /\ i - n \in 1..Len(buffer) /\ queue'[i] = buffer[i - n]
  BY <1>4
<1>6. Moved
  BY <1>4, <1>5 DEF Moved, n
<1>7. ASSUME NEW i \in 1..Len(queue'), NEW j \in 1..Len(queue'), i <= j,
             IsAlert(queue'[i]) <=> IsAlert(queue'[j])
      PROVE  queue'[i].of <= queue'[j].of
  <2>1. CASE i \in 1..n /\ queue'[i] = queue[i]
    <3>1. CASE j \in 1..n /\ queue'[j] = queue[j]
      BY <1>7, <2>1, <3>1 DEF InOrder, Sorted, QueuedOf, HeldAt, n
    <3>2. CASE j > n /\ j - n \in 1..Len(buffer) /\ queue'[j] = buffer[j - n]
      BY <1>3, <1>7, <2>1, <3>2 DEF InOrder, Sorted, QueuedOf, BufferedOf, HeldAt, n
    <3> QED BY <1>5, <3>1, <3>2
  <2>2. CASE i > n /\ i - n \in 1..Len(buffer) /\ queue'[i] = buffer[i - n]
    <3>1. j > n /\ j - n \in 1..Len(buffer) /\ queue'[j] = buffer[j - n] /\ i - n <= j - n
      BY <1>4, <1>5, <1>7, <2>2
    <3> QED BY <2>2, <3>1 DEF InOrder, Sorted, BufferedOf
  <2> QED BY <1>5, <2>1, <2>2
<1>8. Sorted'
  <2>1. \A j \in 1..Len(buffer') : FALSE
    BY <1>4
  <2> QED BY <1>7, <2>1 DEF Sorted, QueuedOf, HeldAt
<1> QED BY <1>1, <1>6, <1>8, MovedInOrder

(* The worker takes the first push; it sends what it carries, or drops it. *)
LEMMA TakeKeepsOrder == ASSUME TypeOK, InOrder, Take PROVE InOrder'
<1>1. /\ queue \in Seq(Push) /\ queue # <<>> /\ queue' = Tail(queue)
      /\ UNCHANGED <<events, buffer, newest>>
  BY DEF TypeOK, Take
<1> HIDE DEF Push, IsAlert
<1>2. /\ Len(queue) \in Nat \ {0} /\ Len(queue') = Len(queue) - 1
      /\ \A i \in 1..Len(queue') : queue'[i] = queue[i + 1]
      /\ Head(queue) = queue[1]
  BY <1>1
<1>3. sender'[Worker] = [stage |-> "throttle", push |-> Head(queue)]
  BY DEF TypeOK, Take, Carry, Thread
<1>4. Carrying' /\ Carried' = QueuedOf(1) /\ CarriedHeld' = HeldAt(1)
  BY <1>2, <1>3 DEF Carrying, Carried, CarriedHeld, QueuedOf, HeldAt, Idle
<1>5. \A i \in 1..Len(queue') : /\ i + 1 \in 1..Len(queue)
                                /\ QueuedOf(i)' = QueuedOf(i + 1)
                                /\ HeldAt(i)' = HeldAt(i + 1)
  BY <1>2 DEF QueuedOf, HeldAt
<1>6. 1 \in 1..Len(queue)
  BY <1>2
<1>7. Sorted'
  <2>1. \A i, j \in 1..Len(queue') :
          i <= j /\ (HeldAt(i)' <=> HeldAt(j)') => QueuedOf(i)' <= QueuedOf(j)'
    <3> TAKE i, j \in 1..Len(queue')
    <3> HAVE i <= j /\ (HeldAt(i)' <=> HeldAt(j)')
    <3>1. i + 1 <= j + 1
      BY <1>2
    <3> QED BY <1>5, <3>1 DEF InOrder, Sorted
  <2>2. \A i, j \in 1..Len(buffer') : i <= j => BufferedOf(i)' <= BufferedOf(j)'
    BY <1>1 DEF InOrder, Sorted, BufferedOf
  <2>3. \A i \in 1..Len(queue'), j \in 1..Len(buffer') :
          HeldAt(i)' => QueuedOf(i)' <= BufferedOf(j)'
    BY <1>1, <1>5 DEF InOrder, Sorted, BufferedOf
  <2> QED BY <2>1, <2>2, <2>3 DEF Sorted
<1>8. NoneAhead'
  <2>1. \A i \in 1..Len(queue') : QueuedOf(i)' <= events'
    BY <1>1, <1>5 DEF InOrder, NoneAhead
  <2>2. \A i \in 1..Len(buffer') : BufferedOf(i)' <= events'
    BY <1>1 DEF InOrder, NoneAhead, BufferedOf
  <2>3. Carried' <= events'
    BY <1>1, <1>4, <1>6 DEF InOrder, NoneAhead
  <2>4. \A lane \in Lane : newest'[lane] <= events'
    BY <1>1 DEF InOrder, NoneAhead
  <2> QED BY <2>1, <2>2, <2>3, <2>4 DEF NoneAhead
<1>9. Ahead(Carried, CarriedHeld)'
  <2>1. ASSUME NEW i \in 1..Len(queue'), HeldAt(i)' <=> CarriedHeld'
        PROVE  Carried' <= QueuedOf(i)'
    <3>1. 1 <= i + 1
      BY <1>2
    <3> QED BY <1>4, <1>5, <1>6, <2>1, <3>1 DEF InOrder, Sorted
  <2>2. CarriedHeld' => \A i \in 1..Len(buffer') : Carried' <= BufferedOf(i)'
    BY <1>1, <1>4, <1>6 DEF InOrder, Sorted, BufferedOf
  <2> QED BY <2>1, <2>2 DEF Ahead
<1>10. ASSUME NEW lane \in Lane
       PROVE  /\ Ahead(newest[lane], lane[2])'
              /\ (CarriedHeld' <=> lane[2]) => newest'[lane] <= Carried'
  <2>1. Ahead(newest[lane], lane[2]) /\ newest' = newest
    BY <1>1 DEF InOrder
  <2>2. \A i \in 1..Len(queue') : (HeldAt(i)' <=> lane[2]) => newest[lane] <= QueuedOf(i)'
    BY <1>5, <2>1 DEF Ahead
  <2>3. lane[2] => \A i \in 1..Len(buffer') : newest[lane] <= BufferedOf(i)'
    BY <1>1, <2>1 DEF Ahead, BufferedOf
  <2>4. (CarriedHeld' <=> lane[2]) => newest'[lane] <= Carried'
    BY <1>4, <1>6, <2>1 DEF Ahead
  <2> QED BY <2>1, <2>2, <2>3, <2>4 DEF Ahead
<1> QED BY <1>4, <1>7, <1>8, <1>9, <1>10 DEF InOrder

(* A step that changes neither queue nor buffer nor what was sent.         *)
LEMMA StillInOrder ==
  ASSUME TypeOK, InOrder, UNCHANGED <<queue, buffer, newest>>,
         events' = events \/ Change,
         sender'[Worker] = Idle \/ (Carrying /\ sender'[Worker].push = sender[Worker].push)
           \/ sender'[Worker] = sender[Worker]
  PROVE  InOrder'
<1>1. Moved
  BY DEF Moved
<1>2. Sorted'
  BY DEF InOrder, Sorted, QueuedOf, BufferedOf, HeldAt
<1> QED BY <1>1, <1>2, MovedInOrder

LEMMA SendKeepsOrder == ASSUME TypeOK, InOrder, NEW x \in Thread, SendStep(x) PROVE InOrder'
<1>1. /\ sender[x] \in SenderState /\ sender \in [Thread -> {Idle} \cup SenderState]
      /\ Worker \in Thread /\ sender[x] # Idle
  BY DEF TypeOK, SendStep, Throttle, CheckDuplicate, Send, SenderState, Thread
<1>2. ASSUME NEW s, Pass(x, s)
      PROVE  \/ x = Worker /\ Carrying /\ sender'[Worker].push = sender[Worker].push
             \/ sender'[Worker] = sender[Worker]
  <2>1. sender' = [sender EXCEPT ![x] = [sender[x] EXCEPT !.stage = s]]
    BY <1>2 DEF Pass
  <2>2. [sender[x] EXCEPT !.stage = s].push = sender[x].push
    BY <1>1 DEF SenderState
  <2> QED BY <1>1, <2>1, <2>2 DEF Carrying
<1>3. ASSUME Drop(x)
      PROVE  sender'[Worker] = Idle \/ sender'[Worker] = sender[Worker]
  BY <1>1, <1>3 DEF Drop
<1>4. CASE Throttle(x)
  <2>1. UNCHANGED <<queue, buffer, newest, events>> /\ (Drop(x) \/ Pass(x, "duplicate"))
    BY <1>4 DEF Throttle
  <2> QED BY <1>2, <1>3, <2>1, StillInOrder
<1>5. CASE CheckDuplicate(x)
  <2>1. UNCHANGED <<queue, buffer, newest, events>> /\ (Drop(x) \/ Pass(x, "send"))
    BY <1>5 DEF CheckDuplicate
  <2> QED BY <1>2, <1>3, <2>1, StillInOrder
<1>6. CASE Send(x) /\ newest' = newest
  <2>1. UNCHANGED <<queue, buffer, newest, events>> /\ Drop(x)
    BY <1>6 DEF Send
  <2> QED BY <1>3, <2>1, StillInOrder
<1>7. CASE Send(x) /\ newest' # newest
  <2> DEFINE l == <<sender[Worker].push.region, CarriedHeld>>
  <2>1. /\ x = Worker /\ Carrying /\ UNCHANGED <<queue, buffer, events>>
        /\ newest' = [newest EXCEPT ![l] = Carried]
    BY <1>1, <1>7 DEF Send, Carrying, Carried, CarriedHeld
  <2>2. ~Carrying'
    BY <1>1, <1>7, <2>1 DEF Send, Drop, Carrying
  <2>3. l[2] = CarriedHeld
    OBVIOUS
  <2> HIDE DEF l
  <2>4. \A lane \in Lane : \/ newest'[lane] = newest[lane]
                           \/ newest'[lane] = Carried /\ (lane[2] <=> CarriedHeld)
    BY <2>1, <2>3 DEF TypeOK, Lane
  <2>5. Sorted'
    BY <2>1 DEF InOrder, Sorted, QueuedOf, BufferedOf, HeldAt
  <2>6. /\ Ahead(Carried, CarriedHeld) /\ Carried <= events
        /\ \A lane \in Lane : Ahead(newest[lane], lane[2]) /\ newest[lane] <= events
    BY <2>1 DEF InOrder, NoneAhead
  <2>7. \A lane \in Lane : newest'[lane] <= events
    BY <2>4, <2>6
  <2>8. NoneAhead'
    BY <2>1, <2>2, <2>7 DEF InOrder, NoneAhead, QueuedOf, BufferedOf
  <2>9. ASSUME NEW lane \in Lane PROVE Ahead(newest[lane], lane[2])'
    <3>1. Ahead(newest'[lane], lane[2])
      BY <2>4, <2>6 DEF Ahead
    <3> QED BY <2>1, <3>1 DEF Ahead, QueuedOf, BufferedOf, HeldAt
  <2> QED BY <2>2, <2>5, <2>8, <2>9 DEF InOrder
<1> QED BY <1>4, <1>5, <1>6, <1>7 DEF SendStep

LEMMA OrderStep == ASSUME TypeOK, InOrder, [Next]_vars PROVE InOrder'
<1>1. ASSUME UNCHANGED <<queue, buffer, newest, sender>>, events' = events \/ Change
      PROVE  InOrder'
  BY <1>1, StillInOrder
<1>2. ASSUME NEW r \in Region, NEW age \in Ages, Raise(r, age) PROVE InOrder'
  BY <1>1, <1>2 DEF Raise, Report, delivery
<1>3. ASSUME NEW r \in Region, NEW type \in {"threat", "threat_clear"},
             ClearThreat(r, type)
      PROVE  InOrder'
  <2>1. Behind
    BY <1>3, AllClearBehind DEF ClearThreat, Type
  <2> QED BY <1>3, <2>1, BehindKeepsOrder DEF ClearThreat
<1>4. ASSUME NEW r \in Region, PruneThreat(r) \/ Expire(r) PROVE InOrder'
  <2>1. r # Worker /\ Pruner # Worker
    BY ThreadAssumption
  <2>2. sender'[Worker] = sender[Worker]
    BY <1>4, <2>1 DEF TypeOK, Thread, PruneThreat, Expire, Carry
  <2> QED BY <1>4, <2>2, StillInOrder DEF PruneThreat, Expire
<1>5. ASSUME NEW r \in Region, AlarmOn(r) \/ AlarmOff(r) PROVE InOrder'
  BY <1>5, AlarmOnBehind, AlarmOffBehind, BehindKeepsOrder DEF AlarmOn, AlarmOff
<1>6. ASSUME NEW k \in Task, SyncStep(k) PROVE InOrder'
  BY <1>1, <1>6 DEF SyncStep, SyncStart, SyncSiren, SyncSirenLogged, SyncAllClear, SyncDiff,
                    SyncAdded, SyncCleared, SyncCloses, SyncDone, delivery
<1>7. CASE UNCHANGED vars \/ Tick
  BY <1>1, <1>7 DEF vars, Tick, delivery
<1> QED BY <1>2, <1>3, <1>4, <1>5, <1>6, <1>7, BatchRaiseKeepsOrder, FlushKeepsOrder,
           TakeKeepsOrder, SendKeepsOrder DEF Next

(* Only a push that the worker carries is told, and it is the newest.      *)
LEMMA SentInOrder ==
  ASSUME TypeOK, InOrder, [Next]_vars
  PROVE  \A lane \in Lane : newest'[lane] >= newest[lane]
<1>1. ASSUME newest' = newest PROVE \A lane \in Lane : newest'[lane] >= newest[lane]
  BY <1>1, OrderTypes
<1>2. ASSUME NEW x \in Thread, SendStep(x)
      PROVE  \/ newest' = newest
             \/ \E q : Carrying /\ newest' = [newest EXCEPT ![<<q, CarriedHeld>>] = Carried]
  BY <1>2 DEF SendStep, Throttle, CheckDuplicate, Send, Carrying, Carried, CarriedHeld
<1>3. ASSUME NEW q, Carrying, newest' = [newest EXCEPT ![<<q, CarriedHeld>>] = Carried]
      PROVE  \A lane \in Lane : newest'[lane] >= newest[lane]
  <2> TAKE lane \in Lane
  <2>1. newest[lane] \in Int /\ Carried \in Int
    BY <1>3, OrderTypes
  <2>2. CASE lane = <<q, CarriedHeld>>
    <3>1. lane[2] = CarriedHeld
      BY <2>2
    <3>2. newest[lane] <= Carried
      BY <1>3, <3>1 DEF InOrder
    <3> QED BY <1>3, <2>1, <2>2, <3>2 DEF TypeOK, Lane
  <2>3. CASE lane # <<q, CarriedHeld>>
    BY <1>3, <2>1, <2>3 DEF TypeOK, Lane
  <2> QED BY <2>2, <2>3
<1>4. newest' = newest \/ \E x \in Thread : SendStep(x)
  <2>1. ASSUME NEW r \in Region,
               \/ \E age \in Ages : Raise(r, age) \/ BatchRaise(r, age)
               \/ \E type \in {"threat", "threat_clear"} : ClearThreat(r, type)
               \/ PruneThreat(r) \/ AlarmOn(r) \/ AlarmOff(r) \/ Expire(r)
        PROVE  newest' = newest
    BY <2>1 DEF Raise, BatchRaise, ClearThreat, PruneThreat, AlarmOn, AlarmOff, Expire, delivery
  <2>2. ASSUME NEW k \in Task, SyncStep(k) PROVE newest' = newest
    BY <2>2 DEF SyncStep, SyncStart, SyncSiren, SyncSirenLogged, SyncAllClear, SyncDiff,
                SyncAdded, SyncCleared, SyncCloses, SyncDone, delivery
  <2>3. CASE Flush \/ Take \/ Tick \/ UNCHANGED vars
    BY <2>3 DEF Flush, Take, Tick, vars, delivery
  <2> QED BY <2>1, <2>2, <2>3 DEF Next
<1> QED BY <1>1, <1>2, <1>3, <1>4

(* Whatever the worker drops, fails to send or waits for, the queue tells  *)
(* the phones of no change that is older than one it told them of, batch   *)
(* alerts apart from all else: each of the two is queued in its order, and *)
(* one thread empties fcm_queue.                                           *)
THEOREM QueueOrderCorrect == Spec => QueueKeepsOrder
<1>1. Init => InOrder
  <2> SUFFICES ASSUME Init PROVE InOrder
    OBVIOUS
  <2>1. Len(queue) = 0 /\ Len(buffer) = 0 /\ ~Carrying
    BY DEF Init, Carrying, Thread
  <2>2. \A lane \in Lane : newest[lane] <= events
    BY DEF Init, Lane
  <2> QED BY <2>1, <2>2 DEF InOrder, Sorted, NoneAhead, Ahead
<1>2. TypeOK /\ InOrder /\ [Next]_vars => (TypeOK /\ InOrder)'
  BY TypeStep, OrderStep
<1>3. TypeOK /\ InOrder /\ [Next]_vars
        => [\A lane \in Region \X BOOLEAN : newest'[lane] >= newest[lane]]_vars
  BY SentInOrder DEF Lane
<1> QED BY <1>1, <1>2, <1>3, TypeInit, PTL DEF Spec, QueueKeepsOrder
-----------------------------------------------------------------------------
(* Old reports.                                                            *)

(* What dates an alert of the region r by x: a row of the history, the row *)
(* that a sync task is about to write, or the threat itself.               *)
RowDates(r, x) ==
  \E i \in 1..Len(rows[r]) :
    rows[r][i].level = "high" /\ rows[r][i].type = "threat" /\ rows[r][i].time = x

TaskDates(r, x) ==
  \E k \in Task : sync[k].stage = "added" /\ sync[k].region = r /\ sync[k].time = x

ThreatDates(r, x) == threat[r] /\ since[r] = x

Dates(r, x) == RowDates(r, x) \/ TaskDates(r, x) \/ ThreatDates(r, x)

(* What an alert waits before it may go out.                               *)
Waited == IF Batched THEN 0 ELSE Pause

(* Every date is old enough when the pause of its report is over, and so   *)
(* it is when the alert goes out, unless something was reported after the  *)
(* pause.                                                                  *)
DatesOld ==
  \A r \in Region : \A x \in Int : Dates(r, x) =>
    /\ x + DupWindow <= now + Waited
    /\ timer[r] # NotDue => x + DupWindow <= timer[r]
    /\ sender[r] # Idle /\ sender[r].push.of = events => x + DupWindow <= now

AlertsOwn ==
  \A r \in Region : sender[r] # Idle =>
    /\ sender[r].push.region = r
    /\ sender[r].push.level = "high" /\ sender[r].push.type = "threat"
    /\ sender[r].push.of <= events

(* Alerts take one way: by the buffer and the queue, or by the timers.     *)
OneWay ==
  IF Batched THEN \A r \in Region : timer[r] = NotDue
  ELSE /\ buffer = <<>>
       /\ \A i \in 1..Len(queue) : ~IsAlert(queue[i])
       /\ sender[Worker] # Idle => ~IsAlert(sender[Worker].push)

OldInv == TypeOK /\ OneWay /\ DatesOld /\ AlertsOwn

LongReported == \A age \in Ages : age + Waited >= DupWindow

LEMMA OldTypes ==
  ASSUME TypeOK
  PROVE  /\ now \in 0..MaxTime /\ events \in Int
         /\ {Pause, Waited, DupWindow, MaxTime} \subseteq Nat
         /\ \A r \in Region : timer[r] \in Int
         /\ \A r \in Region : sender[r] # Idle => sender[r].push.of \in Int
<1>1. \A r \in Region : timer[r] \in 0..NotDue
  BY DEF TypeOK
<1>2. NotDue \in Nat
  BY TimeAssumption DEF NotDue
<1>3. \A r \in Region : timer[r] \in Int
  BY <1>1, <1>2
<1>4. \A r \in Region : sender[r] # Idle => sender[r].push.of \in 0..MaxEvents
  BY DEF TypeOK, Thread, Push
<1> QED BY <1>3, <1>4, TimeAssumption DEF TypeOK, Waited

LEMMA OneWayStep == ASSUME TypeOK, OneWay, [Next]_vars PROVE OneWay'
<1>0. /\ timer \in [Region -> 0..NotDue] /\ sender \in [Thread -> {Idle} \cup SenderState]
      /\ queue \in Seq(Push)
  BY DEF TypeOK, SenderState
<1>1. ASSUME Batched PROVE \A r \in Region : timer'[r] = NotDue
  <2>1. ASSUME NEW q \in Region,
               \/ \E age \in Ages : Raise(q, age) \/ BatchRaise(q, age)
               \/ \E type \in {"threat", "threat_clear"} : ClearThreat(q, type)
               \/ PruneThreat(q) \/ AlarmOn(q) \/ AlarmOff(q) \/ Expire(q)
        PROVE  \A r \in Region : timer'[r] = timer[r] \/ timer'[r] = NotDue
    BY <1>0, <1>1, <2>1 DEF Raise, BatchRaise, ClearThreat, PruneThreat, AlarmOn, AlarmOff, Expire
  <2>2. ASSUME NEW k \in Task, SyncStep(k) PROVE timer' = timer
    BY <2>2 DEF SyncStep, SyncStart, SyncSiren, SyncSirenLogged, SyncAllClear, SyncDiff,
                SyncAdded, SyncCleared, SyncCloses, SyncDone
  <2>3. ASSUME NEW x \in Thread, SendStep(x) PROVE timer' = timer
    BY <2>3 DEF SendStep, Throttle, CheckDuplicate, Send
  <2>4. CASE Flush \/ Take \/ Tick \/ UNCHANGED vars
    BY <1>1, <2>4 DEF Flush, Take, Tick, vars, OneWay
  <2> QED BY <1>1, <2>1, <2>2, <2>3, <2>4 DEF Next, OneWay
<1>2. ASSUME ~Batched
      PROVE  /\ buffer' = <<>>
             /\ \A i \in 1..Len(queue') : ~IsAlert(queue'[i])
             /\ sender'[Worker] # Idle => ~IsAlert(sender'[Worker].push)
  <2>0. /\ buffer = <<>>
        /\ \A i \in 1..Len(queue) : ~IsAlert(queue[i])
        /\ sender[Worker] # Idle => ~IsAlert(sender[Worker].push)
    BY <1>2 DEF OneWay
  <2>1. ASSUME Behind, sender' = sender
        PROVE  /\ buffer' = <<>>
               /\ \A i \in 1..Len(queue') : ~IsAlert(queue'[i])
               /\ sender'[Worker] # Idle => ~IsAlert(sender'[Worker].push)
    <3>1. Len(queue) \in Nat
      BY <1>0
    <3>2. \A i \in 1..Len(queue') : ~IsAlert(queue'[i])
      BY <2>0, <2>1, <3>1 DEF Behind
    <3> QED BY <2>0, <2>1, <3>2 DEF Behind
  <2>2. ASSUME NEW q \in Region,
               \/ \E type \in {"threat", "threat_clear"} : ClearThreat(q, type)
               \/ AlarmOn(q) \/ AlarmOff(q)
        PROVE  Behind /\ sender' = sender
    <3>1. Behind
      BY <2>2, AllClearBehind, AlarmOnBehind, AlarmOffBehind DEF ClearThreat, Type
    <3>2. sender' = sender
      BY <2>2 DEF ClearThreat, AlarmOn, AlarmOff
    <3> QED BY <3>1, <3>2
  <2>3. ASSUME UNCHANGED <<buffer, queue>>,
               \/ sender'[Worker] = sender[Worker] \/ sender'[Worker] = Idle
               \/ sender[Worker] # Idle /\ sender'[Worker].push = sender[Worker].push
        PROVE  /\ buffer' = <<>>
               /\ \A i \in 1..Len(queue') : ~IsAlert(queue'[i])
               /\ sender'[Worker] # Idle => ~IsAlert(sender'[Worker].push)
    BY <2>0, <2>3
  <2>4. ASSUME NEW q \in Region, NEW age \in Ages, Raise(q, age) \/ BatchRaise(q, age)
        PROVE  UNCHANGED <<buffer, queue, sender>>
    BY <1>2, <2>4 DEF Raise, BatchRaise, delivery
  <2>5. ASSUME NEW q \in Region, PruneThreat(q) \/ Expire(q)
        PROVE  UNCHANGED <<buffer, queue>> /\ sender'[Worker] = sender[Worker]
    <3>1. q # Worker /\ Pruner # Worker
      BY ThreadAssumption
    <3> QED BY <1>0, <2>5, <3>1 DEF PruneThreat, Expire, Carry, Thread
  <2>6. ASSUME NEW k \in Task, SyncStep(k) PROVE UNCHANGED <<buffer, queue, sender>>
    BY <2>6 DEF SyncStep, SyncStart, SyncSiren, SyncSirenLogged, SyncAllClear, SyncDiff,
                SyncAdded, SyncCleared, SyncCloses, SyncDone, delivery
  <2>7. ASSUME NEW x \in Thread, SendStep(x)
        PROVE  /\ UNCHANGED <<buffer, queue>>
               /\ \/ sender'[Worker] = sender[Worker] \/ sender'[Worker] = Idle
                  \/ sender[Worker] # Idle /\ sender'[Worker].push = sender[Worker].push
    <3>1. UNCHANGED <<buffer, queue>> /\ (Drop(x) \/ \E s : Pass(x, s))
      BY <2>7 DEF SendStep, Throttle, CheckDuplicate, Send
    <3>2. sender[x] # Idle /\ sender[x] \in SenderState
      BY <1>0, <2>7 DEF SendStep, Throttle, CheckDuplicate, Send
    <3>3. ASSUME NEW s, Pass(x, s)
          PROVE  \/ sender'[Worker] = sender[Worker]
                 \/ sender[Worker] # Idle /\ sender'[Worker].push = sender[Worker].push
      <4>1. sender' = [sender EXCEPT ![x] = [sender[x] EXCEPT !.stage = s]]
        BY <3>3 DEF Pass
      <4>2. [sender[x] EXCEPT !.stage = s].push = sender[x].push
        BY <3>2 DEF SenderState
      <4> QED BY <1>0, <3>2, <4>1, <4>2 DEF Thread
    <3>4. Drop(x) => sender'[Worker] = sender[Worker] \/ sender'[Worker] = Idle
      BY <1>0 DEF Drop, Thread
    <3> QED BY <3>1, <3>3, <3>4
  <2>8. CASE Take
    <3>1. /\ sender'[Worker] = [stage |-> "throttle", push |-> Head(queue)]
          /\ queue' = Tail(queue) /\ queue # <<>> /\ buffer' = buffer
      BY <1>0, <2>8 DEF Take, Carry, Thread
    <3> HIDE DEF IsAlert, Push
    <3>2. ~IsAlert(Head(queue)) /\ \A i \in 1..Len(queue') : ~IsAlert(queue'[i])
      BY <1>0, <2>0, <3>1
    <3> QED BY <2>0, <3>1, <3>2
  <2>9. ~Flush
    BY <2>0 DEF Flush
  <2>10. CASE Tick \/ UNCHANGED vars
    BY <2>3, <2>10 DEF Tick, vars, delivery
  <2> QED BY <2>1, <2>2, <2>3, <2>4, <2>5, <2>6, <2>7, <2>8, <2>9, <2>10 DEF Next
<1> QED BY <1>1, <1>2 DEF OneWay

(* A date that is none of a threat of this level is written to no row.     *)
LEMMA OtherRows ==
  ASSUME TypeOK, NEW q \in Region, NEW level \in Level, NEW type \in Type, NEW time \in Int,
         level # "high" \/ type # "threat", Log(q, level, type, time),
         NEW r \in Region, NEW x \in Int, RowDates(r, x)'
  PROVE  RowDates(r, x)
<1> DEFINE row == [level |-> level, type |-> type, time |-> time]
<1>1. /\ row.level # "high" \/ row.type # "threat"
      /\ row \in Row
      /\ rows \in [Region -> Seq(Row)] /\ rows[q] \in Seq(Row) /\ rows[r] \in Seq(Row)
  BY DEF TypeOK, Row
<1>2. rows' = rows \/ rows' = [rows EXCEPT ![q] = Append(rows[q], row)]
  BY DEF Log
<1> HIDE DEF row, Row
<1>3. rows'[r] = rows[r] \/ rows'[r] = Append(rows[r], row)
  BY <1>1, <1>2
<1>4. CASE rows'[r] = rows[r]
  BY <1>4 DEF RowDates
<1>5. CASE rows'[r] = Append(rows[r], row)
  <2>1. PICK i \in 1..Len(rows'[r]) :
          rows'[r][i].level = "high" /\ rows'[r][i].type = "threat" /\ rows'[r][i].time = x
    BY DEF RowDates
  <2>2. rows'[r][i] = row \/ (i \in 1..Len(rows[r]) /\ rows'[r][i] = rows[r][i])
    BY <1>1, <1>5, <2>1
  <2> QED BY <1>1, <2>1, <2>2 DEF RowDates
<1> QED BY <1>3, <1>4, <1>5

(* The row of an alert that a task writes has its date.                    *)
LEMMA AlertRow ==
  ASSUME TypeOK, NEW q \in Region, NEW time \in Int, Log(q, "high", "threat", time),
         NEW r \in Region, NEW x \in Int, RowDates(r, x)'
  PROVE  RowDates(r, x) \/ (r = q /\ x = time)
<1> DEFINE row == [level |-> "high", type |-> "threat", time |-> time]
<1>1. /\ row.time = time
      /\ row \in Row
      /\ rows \in [Region -> Seq(Row)] /\ rows[q] \in Seq(Row) /\ rows[r] \in Seq(Row)
  BY DEF TypeOK, Row, Level, Type
<1>2. rows' = rows \/ rows' = [rows EXCEPT ![q] = Append(rows[q], row)]
  BY DEF Log
<1> HIDE DEF row, Row
<1>3. rows'[r] = rows[r] \/ (r = q /\ rows'[r] = Append(rows[r], row))
  BY <1>1, <1>2
<1>4. CASE rows'[r] = rows[r]
  BY <1>4 DEF RowDates
<1>5. CASE r = q /\ rows'[r] = Append(rows[r], row)
  <2>1. PICK i \in 1..Len(rows'[r]) :
          rows'[r][i].level = "high" /\ rows'[r][i].type = "threat" /\ rows'[r][i].time = x
    BY DEF RowDates
  <2>2. rows'[r][i] = row \/ (i \in 1..Len(rows[r]) /\ rows'[r][i] = rows[r][i])
    BY <1>1, <1>5, <2>1
  <2> QED BY <1>1, <1>5, <2>1, <2>2 DEF RowDates
<1> QED BY <1>3, <1>4, <1>5

LEMMA ClearingRows ==
  ASSUME TypeOK, NEW q \in Region, LogClearing(q),
         NEW r \in Region, NEW x \in Int, RowDates(r, x)'
  PROVE  RowDates(r, x)
<1>1. CASE rows' = rows
  BY <1>1 DEF RowDates
<1>2. CASE Log(q, "none", "threat", now)
  <2>1. now \in Int
    BY OldTypes
  <2> QED BY <1>2, <2>1, OtherRows DEF Level, Type
<1> QED BY <1>1, <1>2 DEF LogClearing

(* A task that begins dates nothing.                                       *)
LEMMA NewTasks ==
  ASSUME NEW q, NEW n, OnChange(q, n), NEW r, NEW x, TaskDates(r, x)'
  PROVE  TaskDates(r, x)
<1> DEFINE fresh == [stage |-> "start", region |-> q, was |-> FALSE,
                     siren |-> FALSE, time |-> 0]
<1>1. PICK ks : sync' = [k \in Task |-> IF k \in ks THEN fresh ELSE sync[k]]
  BY DEF OnChange
<1>2. fresh.stage # "added"
  OBVIOUS
<1> HIDE DEF fresh
<1> QED BY <1>1, <1>2 DEF TaskDates

(* Only a report makes a new date; a sync task hands it on.                *)
LEMMA SyncDates ==
  ASSUME TypeOK, NEW k \in Task, SyncStep(k),
         NEW r \in Region, NEW x \in Int, Dates(r, x)'
  PROVE  Dates(r, x)
<1> DEFINE q == sync[k].region
<1>1. /\ sync[k] \in SyncState /\ sync \in [Task -> {Idle} \cup SyncState]
      /\ q \in Region /\ sync[k].time \in Int /\ now \in Int
      /\ threat' = threat /\ since' = since
  <2>1. sync \in [Task -> {Idle} \cup SyncState] /\ sync[k] # Idle
    BY DEF TypeOK, SyncStep, SyncState
  <2>2. sync[k] \in SyncState
    BY <2>1
  <2>3. q \in Region /\ sync[k].time \in Int
    BY <2>2 DEF SyncState
  <2>4. threat' = threat /\ since' = since
    BY DEF SyncStep, SyncStart, SyncSiren, SyncSirenLogged, SyncAllClear, SyncDiff,
           SyncAdded, SyncCleared, SyncCloses, SyncDone, state
  <2>5. now \in Int
    BY OldTypes
  <2> QED BY <2>1, <2>2, <2>3, <2>4, <2>5
<1>2. ThreatDates(r, x)' => ThreatDates(r, x)
  BY <1>1 DEF ThreatDates
<1>3. ASSUME \/ sync'[k].stage # "added"
             \/ threat[q] /\ sync'[k].region = q /\ sync'[k].time = since[q],
             \A j \in Task : j # k => sync'[j] = sync[j], TaskDates(r, x)'
      PROVE  TaskDates(r, x) \/ ThreatDates(r, x)
  BY <1>3 DEF TaskDates, ThreatDates
<1>4. ASSUME NEW s, Step(k, s), s # "added"
      PROVE  sync'[k].stage # "added" /\ \A j \in Task : j # k => sync'[j] = sync[j]
  <2>1. sync' = [sync EXCEPT ![k] = [sync[k] EXCEPT !.stage = s]]
    BY <1>4 DEF Step
  <2>2. [sync[k] EXCEPT !.stage = s].stage = s
    BY <1>1 DEF SyncState
  <2> QED BY <1>1, <1>4, <2>1, <2>2
<1>5. ASSUME NEW was, Diff(k, was)
      PROVE  /\ \/ sync'[k].stage # "added"
                \/ threat[q] /\ sync'[k].region = q /\ sync'[k].time = since[q]
             /\ \A j \in Task : j # k => sync'[j] = sync[j]
  <2>1. CASE threat[q] = was
    <3>1. sync' = [sync EXCEPT ![k] = Idle]
      BY <1>5, <2>1 DEF Diff
    <3> QED BY <1>1, <3>1 DEF Idle
  <2>2. CASE threat[q] # was
    <3> DEFINE s == IF threat[q] THEN "added" ELSE "cleared"
               new == [sync[k] EXCEPT !.stage = s, !.was = was, !.time = since[q]]
    <3>1. sync' = [sync EXCEPT ![k] = new]
      BY <1>5, <2>2 DEF Diff
    <3>2. s = "added" => threat[q]
      BY Zenon
    <3> HIDE DEF s
    <3>3. new.stage = s /\ new.region = q /\ new.time = since[q]
      BY <1>1 DEF SyncState
    <3> HIDE DEF new, q
    <3>4. sync'[k] = new /\ \A j \in Task : j # k => sync'[j] = sync[j]
      BY <1>1, <3>1
    <3> QED BY <3>2, <3>3, <3>4
  <2> QED BY <2>1, <2>2
<1> HIDE DEF q
<1>6. CASE SyncStart(k)
  <2>1. rows' = rows
    BY <1>6 DEF SyncStart, history
  <2>2. CASE Diff(k, logged[q].threat)
    BY <1>2, <1>3, <1>5, <2>1, <2>2 DEF Dates, RowDates
  <2>3. CASE ~Diff(k, logged[q].threat)
    <3> DEFINE new == [sync[k] EXCEPT !.stage = "siren", !.siren = alarm[q],
                                      !.was = logged[q].threat]
    <3>1. sync' = [sync EXCEPT ![k] = new]
      BY <1>6, <2>3 DEF SyncStart, q
    <3>2. new.stage = "siren"
      BY <1>1 DEF SyncState
    <3> HIDE DEF new
    <3>3. sync'[k].stage # "added" /\ \A j \in Task : j # k => sync'[j] = sync[j]
      BY <1>1, <3>1, <3>2
    <3> QED BY <1>2, <1>3, <2>1, <3>3 DEF Dates, RowDates
  <2> QED BY <2>2, <2>3
<1>7. CASE SyncSiren(k)
  <2>1. RowDates(r, x)' => RowDates(r, x)
    BY <1>1, <1>7, OtherRows DEF SyncSiren, Level, Type, q
  <2> QED BY <1>2, <1>3, <1>4, <1>7, <2>1 DEF SyncSiren, Dates
<1>8. CASE SyncDiff(k)
  <2>1. rows' = rows
    BY <1>8 DEF SyncDiff, history
  <2> QED BY <1>2, <1>3, <1>5, <1>8, <2>1 DEF SyncDiff, Dates, RowDates
<1>9. CASE SyncAdded(k)
  <2>1. RowDates(r, x)' => RowDates(r, x) \/ (r = q /\ x = sync[k].time)
    BY <1>1, <1>9, AlertRow DEF SyncAdded, q
  <2>2. r = q /\ x = sync[k].time => TaskDates(r, x)
    BY <1>9 DEF SyncAdded, TaskDates, q
  <2> QED BY <1>2, <1>3, <1>4, <1>9, <2>1, <2>2 DEF SyncAdded, Dates
<1>10. CASE SyncCleared(k)
  <2>1. RowDates(r, x)' => RowDates(r, x)
    BY <1>1, <1>10, OtherRows DEF SyncCleared, Level, Type, q
  <2> QED BY <1>2, <1>3, <1>4, <1>10, <2>1 DEF SyncCleared, Dates
<1>11. CASE SyncDone(k)
  <2>1. rows' = rows /\ sync' = [sync EXCEPT ![k] = Idle]
    BY <1>11 DEF SyncDone, history
  <2>2. sync'[k].stage # "added" /\ \A j \in Task : j # k => sync'[j] = sync[j]
    BY <1>1, <2>1 DEF Idle
  <2> QED BY <1>2, <1>3, <2>1, <2>2 DEF Dates, RowDates
<1>12. CASE SyncSirenLogged(k) \/ SyncAllClear(k) \/ SyncCloses(k)
  <2>1. rows' = rows
    BY <1>12 DEF SyncSirenLogged, SyncAllClear, SyncCloses, history
  <2>2. \E s : Step(k, s) /\ s # "added"
    BY <1>12 DEF SyncSirenLogged, SyncAllClear, SyncCloses
  <2> QED BY <1>2, <1>3, <1>4, <2>1, <2>2 DEF Dates, RowDates
<1> QED BY <1>6, <1>7, <1>8, <1>9, <1>10, <1>11, <1>12 DEF SyncStep

LEMMA ReportDates ==
  ASSUME TypeOK, NEW q \in Region, NEW age \in Ages, Report(q, age),
         NEW r \in Region, NEW x \in Int, Dates(r, x)'
  PROVE  Dates(r, x) \/ (r = q /\ x = now - age)
<1>1. rows' = rows /\ OnChange(q, 1) /\ threat \in [Region -> BOOLEAN]
      /\ since \in [Region -> Int]
  BY DEF Report, history, TypeOK
<1>2. RowDates(r, x)' => RowDates(r, x)
  BY <1>1 DEF RowDates
<1>3. TaskDates(r, x)' => TaskDates(r, x)
  BY <1>1, NewTasks
<1>4. ThreatDates(r, x)' => ThreatDates(r, x) \/ (r = q /\ x = now - age)
  <2>1. CASE threat[q]
    <3>1. since' = since
      BY <2>1 DEF Report
    <3>2. threat'[r] => threat[r]
      BY <1>1, <2>1 DEF Report
    <3> QED BY <3>1, <3>2 DEF ThreatDates
  <2>2. CASE ~threat[q]
    <3>1. since' = [since EXCEPT ![q] = now - age]
      BY <2>2 DEF Report
    <3>2. r # q => threat'[r] = threat[r]
      BY <1>1 DEF Report
    <3> QED BY <1>1, <3>1, <3>2 DEF ThreatDates
  <2> QED BY <2>1, <2>2
<1> QED BY <1>2, <1>3, <1>4 DEF Dates

(* No other change makes one, and a threat that ends takes its own away.   *)
LEMMA ChangeDates ==
  ASSUME TypeOK, NEW q \in Region,
         \/ \E type : ClearThreat(q, type)
         \/ PruneThreat(q) \/ AlarmOn(q) \/ AlarmOff(q),
         NEW r \in Region, NEW x \in Int, Dates(r, x)'
  PROVE  Dates(r, x)
<1>1. /\ since' = since
      /\ threat' = threat \/ threat' = [threat EXCEPT ![q] = FALSE]
      /\ OnChange(q, 1) \/ OnChange(q, 2)
      /\ rows' = rows \/ LogClearing(q)
  BY DEF ClearThreat, PruneThreat, AlarmOn, AlarmOff, history
<1>2. RowDates(r, x)' => RowDates(r, x)
  <2>1. CASE rows' = rows
    BY <2>1 DEF RowDates
  <2>2. CASE LogClearing(q)
    BY <2>2, ClearingRows
  <2> QED BY <1>1, <2>1, <2>2
<1>3. TaskDates(r, x)' => TaskDates(r, x)
  BY <1>1, NewTasks
<1>4. ThreatDates(r, x)' => ThreatDates(r, x)
  BY <1>1 DEF ThreatDates, TypeOK
<1> QED BY <1>2, <1>3, <1>4 DEF Dates

LEMMA Later ==
  ASSUME NEW a \in Int, NEW b \in Int, NEW c \in Int, NEW p \in Int, NEW w \in Int,
         a + w <= b + p, b <= c
  PROVE  a + w <= c + p
OBVIOUS

(* A step that makes no new date keeps the invariant: an alert goes out    *)
(* when its timer has expired, and tells of the last change by then.       *)
LEMMA NoNewDate ==
  ASSUME OldInv,
         \A r \in Region : \A x \in Int : Dates(r, x)' => Dates(r, x),
         now' \in Int, now <= now', events' = events \/ Change,
         \A r \in Region : timer'[r] = timer[r] \/ timer'[r] = NotDue,
         \A r \in Region :
           \/ sender'[r] = Idle
           \/ sender[r] # Idle /\ sender'[r].push = sender[r].push
           \/ /\ timer[r] <= now /\ now' = now /\ events' = events
              /\ sender'[r].push = [region |-> r, level |-> "high", type |-> "threat",
                                    of |-> events]
  PROVE  DatesOld' /\ AlertsOwn'
<1>1. /\ now \in 0..MaxTime /\ events \in Int /\ events' \in Int /\ events <= events'
      /\ {Pause, Waited, DupWindow, MaxTime} \subseteq Nat
      /\ \A r \in Region : timer[r] \in Int
      /\ \A r \in Region : sender[r] # Idle => sender[r].push.of \in Int
  BY OldTypes DEF OldInv, Change
<1>2. AlertsOwn'
  <2> SUFFICES ASSUME NEW r \in Region, sender'[r] # Idle
               PROVE  /\ sender'[r].push.region = r
                      /\ sender'[r].push.level = "high" /\ sender'[r].push.type = "threat"
                      /\ sender'[r].push.of <= events'
    BY DEF AlertsOwn
  <2>1. CASE sender[r] # Idle /\ sender'[r].push = sender[r].push
    BY <1>1, <2>1 DEF OldInv, AlertsOwn
  <2>2. CASE sender'[r].push = [region |-> r, level |-> "high", type |-> "threat",
                                of |-> events]
    BY <1>1, <2>2
  <2> QED BY <2>1, <2>2
<1>3. DatesOld'
  <2> SUFFICES ASSUME NEW r \in Region, NEW x \in Int, Dates(r, x)'
               PROVE  /\ x + DupWindow <= now' + Waited
                      /\ timer'[r] # NotDue => x + DupWindow <= timer'[r]
                      /\ sender'[r] # Idle /\ sender'[r].push.of = events'
                           => x + DupWindow <= now'
    BY DEF DatesOld
  <2>1. /\ x + DupWindow <= now + Waited
        /\ timer[r] # NotDue => x + DupWindow <= timer[r]
        /\ sender[r] # Idle /\ sender[r].push.of = events => x + DupWindow <= now
    BY DEF OldInv, DatesOld
  <2>2. x + DupWindow <= now' + Waited
    <3>1. now \in Int /\ Waited \in Int /\ DupWindow \in Int
      BY <1>1
    <3>2. x + DupWindow <= now + Waited
      BY <2>1
    <3> QED BY <3>1, <3>2, Later
  <2>3. timer'[r] # NotDue => x + DupWindow <= timer'[r]
    BY <2>1
  <2>4. ASSUME sender'[r] # Idle, sender'[r].push.of = events'
        PROVE  x + DupWindow <= now'
    <3>1. CASE sender[r] # Idle /\ sender'[r].push = sender[r].push
      <4>1. sender[r].push.of = events
        BY <1>1, <2>4, <3>1 DEF OldInv, AlertsOwn, Change
      <4> QED BY <1>1, <2>1, <3>1, <4>1
    <3>2. CASE timer[r] <= now /\ now' = now
      <4>1. timer[r] # NotDue
        BY <1>1, <3>2 DEF NotDue
      <4> QED BY <1>1, <2>1, <3>2, <4>1
    <3> QED BY <2>4, <3>1, <3>2
  <2> QED BY <2>2, <2>3, <2>4
<1> QED BY <1>2, <1>3

(* A report makes one date, which is old enough when its pause is over.    *)
LEMMA ReportOld ==
  ASSUME LongReported, OldInv, NEW q \in Region, NEW age \in Ages, Report(q, age),
         sender' = sender,
         \A r \in Region : \/ timer'[r] = now + Waited
                           \/ timer'[r] = timer[r] /\ (r # q \/ timer[r] = NotDue)
  PROVE  DatesOld' /\ AlertsOwn'
<1>1. /\ now \in Int /\ events \in Int /\ events' = events + 1 /\ now' = now
      /\ Waited \in Nat /\ DupWindow \in Nat /\ age \in Nat
      /\ \A r \in Region : sender[r] # Idle => sender[r].push.of \in Int
  <2>1. /\ now \in Int /\ events \in Int /\ Waited \in Nat /\ DupWindow \in Nat
        /\ \A r \in Region : sender[r] # Idle => sender[r].push.of \in Int
    BY OldTypes DEF OldInv
  <2>2. age \in Nat
    BY TimeAssumption
  <2>3. events' = events + 1 /\ now' = now
    BY DEF Report, Change
  <2> QED BY <2>1, <2>2, <2>3
<1>2. AlertsOwn'
  BY <1>1 DEF OldInv, AlertsOwn
<1>3. DatesOld'
  <2> SUFFICES ASSUME NEW r \in Region, NEW x \in Int, Dates(r, x)'
               PROVE  /\ x + DupWindow <= now' + Waited
                      /\ timer'[r] # NotDue => x + DupWindow <= timer'[r]
                      /\ sender'[r] # Idle /\ sender'[r].push.of = events'
                           => x + DupWindow <= now'
    BY DEF DatesOld
  <2>1. Dates(r, x) \/ (r = q /\ x = now - age)
    BY ReportDates DEF OldInv
  <2>2. Dates(r, x) => /\ x + DupWindow <= now + Waited
                       /\ timer[r] # NotDue => x + DupWindow <= timer[r]
    BY DEF OldInv, DatesOld
  <2>3. now - age + DupWindow <= now + Waited
    BY <1>1 DEF LongReported
  <2>4. x + DupWindow <= now' + Waited
    BY <1>1, <2>1, <2>2, <2>3
  <2>5. timer'[r] # NotDue => x + DupWindow <= timer'[r]
    <3>1. CASE timer'[r] = now + Waited
      BY <1>1, <2>4, <3>1
    <3>2. CASE timer'[r] = timer[r] /\ (r # q \/ timer[r] = NotDue)
      BY <2>1, <2>2, <3>2
    <3> QED BY <3>1, <3>2
  <2>6. ~(sender'[r] # Idle /\ sender'[r].push.of = events')
    BY <1>1 DEF OldInv, AlertsOwn
  <2> QED BY <2>4, <2>5, <2>6
<1> QED BY <1>2, <1>3

LEMMA RaiseOld ==
  ASSUME LongReported, OldInv, NEW q \in Region, NEW age \in Ages,
         Raise(q, age) \/ BatchRaise(q, age)
  PROVE  DatesOld' /\ AlertsOwn'
<1>1. timer \in [Region -> 0..NotDue]
  BY DEF OldInv, TypeOK
<1>2. Report(q, age) /\ sender' = sender
  BY DEF Raise, BatchRaise, delivery
<1>3. CASE Raise(q, age)
  <2>1. timer' = [timer EXCEPT ![q] = now + Pause] /\ Waited = Pause
    BY <1>3 DEF Raise, Waited
  <2>2. \A r \in Region : timer'[r] = now + Waited \/ (timer'[r] = timer[r] /\ r # q)
    BY <1>1, <2>1
  <2> QED BY <1>2, <2>2, ReportOld
<1>4. CASE BatchRaise(q, age)
  <2>1. timer' = timer /\ \A r \in Region : timer[r] = NotDue
    BY <1>4 DEF BatchRaise, OldInv, OneWay
  <2> QED BY <1>2, <2>1, ReportOld
<1> QED BY <1>3, <1>4

(* A step that leaves rows, tasks and threats alone makes no date.         *)
LEMMA SameDates ==
  ASSUME UNCHANGED <<rows, sync, threat, since>>
  PROVE  \A r \in Region : \A x \in Int : Dates(r, x)' => Dates(r, x)
BY DEF Dates, RowDates, TaskDates, ThreatDates

LEMMA OldStep == ASSUME LongReported, OldInv, [Next]_vars PROVE DatesOld' /\ AlertsOwn'
<1>0. /\ TypeOK /\ now \in Int /\ sender \in [Thread -> {Idle} \cup SenderState]
      /\ timer \in [Region -> 0..NotDue] /\ Region \subseteq Thread
  <2>1. TypeOK /\ now \in Int
    BY OldTypes DEF OldInv
  <2>2. sender \in [Thread -> {Idle} \cup SenderState] /\ timer \in [Region -> 0..NotDue]
    BY <2>1 DEF TypeOK, SenderState
  <2> QED BY <2>1, <2>2 DEF Thread
<1>1. ASSUME NEW q \in Region,
             \/ \E type : ClearThreat(q, type)
             \/ PruneThreat(q) \/ AlarmOn(q) \/ AlarmOff(q)
      PROVE  DatesOld' /\ AlertsOwn'
  <2>1. \A r \in Region : \A x \in Int : Dates(r, x)' => Dates(r, x)
    BY <1>0, <1>1, ChangeDates
  <2>2. now' = now /\ Change
    BY <1>1 DEF ClearThreat, PruneThreat, AlarmOn, AlarmOff
  <2>3. \A r \in Region : timer'[r] = timer[r] \/ timer'[r] = NotDue
    BY <1>0, <1>1 DEF ClearThreat, PruneThreat, AlarmOn, AlarmOff
  <2>4. sender' = sender \/ \E p : Carry(Pruner, p)
    BY <1>1 DEF ClearThreat, PruneThreat, AlarmOn, AlarmOff
  <2>5. \A r \in Region : sender'[r] = sender[r]
    BY <1>0, <2>4, ThreadAssumption DEF Carry
  <2> QED BY <1>0, <2>1, <2>2, <2>3, <2>5, NoNewDate
<1>2. ASSUME NEW q \in Region, Expire(q) PROVE DatesOld' /\ AlertsOwn'
  <2> DEFINE alert == [region |-> q, level |-> "high", type |-> "threat", of |-> events]
  <2>1. \A r \in Region : \A x \in Int : Dates(r, x)' => Dates(r, x)
    BY <1>2, SameDates DEF Expire, state, history
  <2>2. now' = now /\ events' = events /\ timer[q] <= now
    BY <1>2 DEF Expire
  <2>3. \A r \in Region : timer'[r] = timer[r] \/ timer'[r] = NotDue
    BY <1>0, <1>2 DEF Expire
  <2>4. sender' = sender \/ Carry(q, alert)
    BY <1>2 DEF Expire
  <2>5. \A r \in Region : sender'[r] = sender[r] \/ (r = q /\ sender'[r].push = alert)
    BY <1>0, <2>4 DEF Carry
  <2> QED BY <1>0, <2>1, <2>2, <2>3, <2>5, NoNewDate
<1>3. ASSUME NEW k \in Task, SyncStep(k) PROVE DatesOld' /\ AlertsOwn'
  <2>1. \A r \in Region : \A x \in Int : Dates(r, x)' => Dates(r, x)
    BY <1>0, <1>3, SyncDates
  <2>2. UNCHANGED <<now, events, timer, sender>>
    BY <1>3 DEF SyncStep, SyncStart, SyncSiren, SyncSirenLogged, SyncAllClear, SyncDiff,
                SyncAdded, SyncCleared, SyncCloses, SyncDone, delivery
  <2> QED BY <1>0, <2>1, <2>2, NoNewDate
<1>4. CASE Take
  <2>1. \A r \in Region : \A x \in Int : Dates(r, x)' => Dates(r, x)
    BY <1>4, SameDates DEF Take, state, history
  <2>2. \A r \in Region : sender'[r] = sender[r]
    BY <1>0, <1>4, ThreadAssumption DEF Take, Carry
  <2>3. UNCHANGED <<now, events, timer>>
    BY <1>4 DEF Take
  <2> QED BY <1>0, <2>1, <2>2, <2>3, NoNewDate
<1>5. ASSUME NEW x \in Thread, SendStep(x) PROVE DatesOld' /\ AlertsOwn'
  <2>1. UNCHANGED <<now, events, timer, rows, sync, threat, since>>
    BY <1>5 DEF SendStep, Throttle, CheckDuplicate, Send, state, history
  <2>2. sender[x] # Idle /\ sender[x] \in SenderState
    BY <1>0, <1>5 DEF SendStep, Throttle, CheckDuplicate, Send
  <2>3. Drop(x) \/ \E s : Pass(x, s)
    BY <1>5 DEF SendStep, Throttle, CheckDuplicate, Send
  <2>4. ASSUME NEW s, Pass(x, s)
        PROVE  \A r \in Region : \/ sender'[r] = sender[r]
                                 \/ sender[r] # Idle /\ sender'[r].push = sender[r].push
    <3>1. sender' = [sender EXCEPT ![x] = [sender[x] EXCEPT !.stage = s]]
      BY <2>4 DEF Pass
    <3>2. [sender[x] EXCEPT !.stage = s].push = sender[x].push
      BY <2>2 DEF SenderState
    <3> QED BY <1>0, <2>2, <3>1, <3>2
  <2>5. \A r \in Region : \/ sender'[r] = Idle \/ sender'[r] = sender[r]
                          \/ sender[r] # Idle /\ sender'[r].push = sender[r].push
    BY <1>0, <2>3, <2>4 DEF Drop
  <2> QED BY <1>0, <2>1, <2>5, SameDates, NoNewDate
<1>6. CASE Tick
  <2>1. now' \in Int /\ now <= now' /\ UNCHANGED <<events, timer, sender>>
    BY <1>0, <1>6 DEF Tick, delivery
  <2>2. UNCHANGED <<rows, sync, threat, since>>
    BY <1>6 DEF Tick, state, history
  <2> QED BY <1>0, <2>1, <2>2, SameDates, NoNewDate
<1>7. CASE UNCHANGED vars
  BY <1>0, <1>7, SameDates, NoNewDate DEF vars, state, history, delivery
<1>8. ASSUME NEW q \in Region, NEW age \in Ages, Raise(q, age) \/ BatchRaise(q, age)
      PROVE  DatesOld' /\ AlertsOwn'
  BY <1>8, RaiseOld
<1>9. CASE Flush
  BY <1>0, <1>9, SameDates, NoNewDate DEF Flush, state, history
<1> QED BY <1>1, <1>2, <1>3, <1>4, <1>5, <1>6, <1>7, <1>8, <1>9 DEF Next

(* A row that makes an alert a duplicate dates it too late.                *)
LEMMA OldPasses ==
  ASSUME OldInv, NEW t \in Region \cup {Worker}, CheckDuplicate(t),
         IsAlert(sender[t].push), t = Worker \/ sender[t].push.of = events
  PROVE  sender'[t] # Idle
<1> DEFINE r == sender[t].push.region
<1>1. /\ sender \in [Thread -> {Idle} \cup SenderState] /\ t \in Thread
      /\ rows \in [Region -> Seq(Row)] /\ now \in Int /\ DupWindow \in Nat
      /\ sender[t] # Idle
  <2>1. sender \in [Thread -> {Idle} \cup SenderState] /\ rows \in [Region -> Seq(Row)]
    BY DEF OldInv, TypeOK, SenderState
  <2>2. now \in Int /\ DupWindow \in Nat
    BY OldTypes DEF OldInv
  <2>3. sender[t] # Idle
    BY DEF CheckDuplicate
  <2> QED BY <2>1, <2>2, <2>3 DEF Thread
<1>2. sender[t] \in SenderState
  BY <1>1
<1>3. r \in Region
  BY <1>2 DEF SenderState, Push
<1>4. \A x \in Int : Dates(r, x) => x + DupWindow <= now
  <2>1. CASE t = Worker
    <3>1. Batched
      BY <1>1, <2>1 DEF OldInv, OneWay
    <3>2. Waited = 0
      BY <3>1 DEF Waited
    <3>3. \A x \in Int : Dates(r, x) => x + DupWindow <= now + Waited
      BY <1>3 DEF OldInv, DatesOld
    <3> QED BY <1>1, <3>2, <3>3
  <2>2. CASE t # Worker
    <3>1. r = t /\ sender[t].push.of = events
      BY <1>1, <2>2 DEF OldInv, AlertsOwn
    <3> QED BY <1>1, <1>3, <3>1 DEF OldInv, DatesOld
  <2> QED BY <2>1, <2>2
<1>5. ~Duplicate(sender[t].push)
  <2> SUFFICES ASSUME Duplicate(sender[t].push) PROVE FALSE
    OBVIOUS
  <2>0. rows[r] \in Seq(Row)
    BY <1>1, <1>3
  <2>1. PICK i \in 1..Len(rows[r]) :
          /\ rows[r][i].level = "high" /\ rows[r][i].type = "threat"
          /\ now - rows[r][i].time < DupWindow
    BY <2>0 DEF Duplicate, IsAlert
  <2> HIDE DEF r, Row
  <2>2. rows[r][i].time \in Int
    <3>1. rows[r][i] \in Row
      BY <2>0, <2>1
    <3> QED BY <3>1 DEF Row
  <2>3. Dates(r, rows[r][i].time)
    BY <2>1 DEF Dates, RowDates
  <2>4. rows[r][i].time + DupWindow <= now
    BY <1>4, <2>2, <2>3
  <2> QED BY <1>1, <2>1, <2>2, <2>4
<1>6. sender' = [sender EXCEPT ![t] = [sender[t] EXCEPT !.stage = "send"]]
  BY <1>5 DEF CheckDuplicate, Pass
<1>7. [sender[t] EXCEPT !.stage = "send"].stage = "send"
  BY <1>2 DEF SenderState
<1> QED BY <1>1, <1>6, <1>7 DEF Idle

(* If every message is so old when it is reported that its age, and        *)
(* without the analyzer the pause, fill the window of is_duplicate_event,  *)
(* no alert is lost to the row of its own report, however many sync tasks  *)
(* and threads run: none of a batch, and none of a timer unless something  *)
(* changed again after the pause.                                          *)
THEOREM OldAlertCorrect == LongReported => (Spec => OldAlertIsNoDuplicate)
<1> SUFFICES ASSUME LongReported PROVE Spec => OldAlertIsNoDuplicate
  OBVIOUS
<1>1. Init => OldInv
  <2> SUFFICES ASSUME Init PROVE OneWay /\ DatesOld /\ AlertsOwn
    BY TypeInit DEF OldInv
  <2>1. \A r \in Region : sender[r] = Idle
    BY DEF Init, Thread
  <2>2. \A r \in Region : Len(rows[r]) = 0 /\ ~threat[r]
    BY DEF Init
  <2>3. \A k \in Task : sync[k].stage # "added"
    BY DEF Init, Idle
  <2>4. \A r \in Region : \A x \in Int : ~Dates(r, x)
    BY <2>2, <2>3 DEF Dates, RowDates, TaskDates, ThreatDates
  <2>5. OneWay
    <3>1. \A r \in Region : timer[r] = NotDue
      BY DEF Init
    <3>2. buffer = <<>> /\ Len(queue) = 0 /\ sender[Worker] = Idle
      BY DEF Init, Thread
    <3> QED BY <3>1, <3>2 DEF OneWay
  <2> QED BY <2>1, <2>4, <2>5 DEF DatesOld, AlertsOwn
<1>2. OldInv /\ [Next]_vars => OldInv'
  BY TypeStep, OneWayStep, OldStep DEF OldInv
<1>3. OldInv /\ [Next]_vars
        => [\A x \in Region \cup {Worker} :
              /\ CheckDuplicate(x)
              /\ IsAlert(sender[x].push)
              /\ x = Worker \/ sender[x].push.of = events
              => sender'[x] # Idle]_vars
  BY OldPasses
<1> QED BY <1>1, <1>2, <1>3, PTL DEF Spec, OldAlertIsNoDuplicate
=============================================================================
