---------------------------- MODULE PushDelivery ----------------------------
(***************************************************************************)
(* From a change of a region's state to the phones: the history row that   *)
(* every change is logged with (sync_threat_state_to_db and                *)
(* log_clearing_to_db, database/analytics_db.py), the queue of pushes, the *)
(* throttle and the duplicate check a push must pass                       *)
(* (database/db_helpers.py, database/connection.py).                       *)
(*                                                                         *)
(* The event loop changes states and runs the sync tasks, the queue worker *)
(* sends the pushes of the loop one by one, every expired verification     *)
(* timer sends its own alert in its own thread, and so does the thread     *)
(* that prunes missile threats.  A sync task gives way wherever the code   *)
(* awaits a thread, so tasks of one region interleave with each other,     *)
(* with new changes and with the senders.                                  *)
(*                                                                         *)
(* What the monitor reports takes one of two ways.  With the analyzer      *)
(* (Batched) it comes in batches: the alert waits in the manager's buffer  *)
(* until the batch is applied and is then queued without a pause.  Without *)
(* it posts are read one by one (_process_message_regex), and an alert     *)
(* waits for its verification timer.                                       *)
(*                                                                         *)
(* Abstractions: a tick is 5 seconds, and the verification timer is its    *)
(* due time (FCMScheduler has its life).  A region has at most one         *)
(* tactical threat, of level "high" and always of the same group, so that  *)
(* its threat_id does not change, and one siren.  log_threat_to_db is one  *)
(* step, and so is log_clearing_to_db.  A sync task ends, and a push that  *)
(* is being sent is sent or fails, within the tick; the queue may fall     *)
(* behind.  A batch is the changes it makes, one by one, and its flush;    *)
(* between them other changes come only if applying it raised, and then    *)
(* the next batch flushes.  How far batches lie apart is left out.         *)
(***************************************************************************)
EXTENDS Integers, Sequences, FiniteSetsExt

CONSTANTS Region,
          Worker,     \* the thread that empties fcm_queue
          Pruner,     \* the thread of prune_expired_missile_threats
          Task,       \* sync tasks that may be under way at once, a bound
          Batched,    \* whether the analyzer is configured
          Ages,       \* how many ticks ago a reported message was written
          Pause,      \* AI_THREAT_VERIFICATION_DELAY
          Cooldown,   \* of _is_fcm_throttled
          DupWindow,  \* window_seconds of is_duplicate_event
          LogWindow,  \* the 15 seconds of log_threat_to_db
          MaxTime, MaxEvents

ASSUME ThreadAssumption ==
  Worker \notin Region /\ Pruner \notin Region /\ Worker # Pruner
ASSUME BatchedAssumption == Batched \in BOOLEAN
ASSUME TimeAssumption ==
  /\ Ages \subseteq Nat
  /\ {Pause, Cooldown, DupWindow, LogWindow, MaxTime, MaxEvents} \subseteq Nat
  /\ Cooldown > 0

VARIABLES now,      \* the time
          events,   \* number of changes so far
          threat,   \* region -> it has a tactical threat
          since,    \* region -> SingleThreat.since
          alarm,    \* region -> its official siren
          timer,    \* region -> when its verification timer expires
          rows,     \* region -> its rows of threat_history
          paired,   \* region -> it has an active row in paired_events
          logged,   \* region -> last_logged_states
          sync,     \* task -> where sync_threat_state_to_db is
          buffer,   \* _fcm_batch_buffer
          queue,    \* fcm_queue
          sender,   \* thread -> the push it sends and how far it is
          stamp,    \* key -> _recent_fcm_pushes
          sent,     \* key -> when a push of this key last went out
          newest    \* region, batch alert or not -> the newest change the queue has told

state == <<threat, since, alarm>>
history == <<rows, paired>>
delivery == <<buffer, queue, sender, stamp, sent, newest>>
vars == <<now, events, state, timer, history, logged, sync, delivery>>

Level == {"high", "none"}
Type == {"threat", "official_alarm", "threat_clear"}
Key == Region \X Level \X Type
Thread == {Worker, Pruner} \cup Region

(* A push: what it says of which region, and the change it tells of.       *)
Push == [region : Region, level : Level, type : Type, of : 0..MaxEvents]
KeyOf(p) == <<p.region, p.level, p.type>>

(* The alert of a threat; in the queue it comes from a batch.              *)
IsAlert(p) == p.level = "high" /\ p.type = "threat"

Row == [level : Level, type : Type, time : Int]
Stage == {"start", "siren", "sirenLogged", "allClear", "diff", "added", "cleared",
          "closing", "done"}
Idle == [stage |-> "idle"]
NotDue == MaxTime + Pause + 1
Never == 0 - Cooldown

TypeOK ==
  /\ now \in 0..MaxTime
  /\ events \in 0..MaxEvents
  /\ threat \in [Region -> BOOLEAN]
  /\ since \in [Region -> Int]
  /\ alarm \in [Region -> BOOLEAN]
  /\ timer \in [Region -> 0..NotDue]
  /\ rows \in [Region -> Seq(Row)]
  /\ paired \in [Region -> BOOLEAN]
  /\ logged \in [Region -> [threat : BOOLEAN, alarm : BOOLEAN]]
  /\ sync \in [Task -> {Idle} \cup [stage : Stage, region : Region, was : BOOLEAN,
                                    siren : BOOLEAN, time : Int]]
  /\ buffer \in Seq({p \in Push : IsAlert(p)})
  /\ queue \in Seq(Push)
  /\ sender \in [Thread -> {Idle} \cup
                   [stage : {"throttle", "duplicate", "send"}, push : Push]]
  /\ stamp \in [Key -> {Never} \cup 0..MaxTime]
  /\ sent \in [Key -> {Never} \cup 0..MaxTime]
  /\ newest \in [Region \X BOOLEAN -> 0..MaxEvents]

Init ==
  /\ now = 0
  /\ events = 0
  /\ threat = [r \in Region |-> FALSE]
  /\ since = [r \in Region |-> 0]
  /\ alarm = [r \in Region |-> FALSE]
  /\ timer = [r \in Region |-> NotDue]
  /\ rows = [r \in Region |-> <<>>]
  /\ paired = [r \in Region |-> FALSE]
  /\ logged = [r \in Region |-> [threat |-> FALSE, alarm |-> FALSE]]
  /\ sync = [k \in Task |-> Idle]
  /\ buffer = <<>>
  /\ queue = <<>>
  /\ sender = [x \in Thread |-> Idle]
  /\ stamp = [k \in Key |-> Never]
  /\ sent = [k \in Key |-> Never]
  /\ newest = [lane \in Region \X BOOLEAN |-> 0]

-----------------------------------------------------------------------------
(* The history.                                                            *)

(* The last row of a type, which the deduplication of log_threat_to_db     *)
(* looks at.                                                               *)
Redundant(r, level, type) ==
  LET same == {i \in DOMAIN rows[r] : rows[r][i].type = type}
  IN  /\ same # {}
      /\ rows[r][Max(same)].level = level
      /\ \/ type = "official_alarm"
         \/ level = "none"
         \/ now - rows[r][Max(same)].time <= LogWindow

(* log_threat_to_db.                                                       *)
Log(r, level, type, time) ==
  rows' = IF Redundant(r, level, type) THEN rows
          ELSE [rows EXCEPT ![r] = Append(@, [level |-> level, type |-> type, time |-> time])]

(* is_duplicate_event: one of the last three rows says the same and is     *)
(* less than 20 seconds old.                                               *)
Duplicate(p) ==
  LET rs == rows[p.region]
  IN  \E i \in DOMAIN rs :
        /\ i > Len(rs) - 3
        /\ rs[i].level = p.level
        /\ rs[i].type = p.type
        /\ now - rs[i].time < DupWindow

-----------------------------------------------------------------------------
(* The changes, on the event loop.                                         *)

Change == events < MaxEvents /\ events' = events + 1

Tell(r, level, type) ==
  [region |-> r, level |-> level, type |-> type, of |-> events + 1]

(* A thread begins _send_fcm_notification_sync.                            *)
Carry(x, p) == sender' = [sender EXCEPT ![x] = [stage |-> "throttle", push |-> p]]

(* on_change: n sync tasks of the region are put on the event loop.        *)
OnChange(r, n) ==
  \E ks \in kSubset(n, {k \in Task : sync[k] = Idle}) :
    sync' = [k \in Task |->
               IF k \in ks THEN [stage |-> "start", region |-> r, was |-> FALSE,
                                 siren |-> FALSE, time |-> 0]
               ELSE sync[k]]

(* Fault: the threat is dated by its report, not by its message.           *)
ReportStampedNow(r, age) ==
  /\ Change
  /\ threat' = [threat EXCEPT ![r] = TRUE]
  /\ since' = IF threat[r] THEN since ELSE [since EXCEPT ![r] = now]
  /\ OnChange(r, 1)
  /\ UNCHANGED <<now, alarm, history, logged>>

(* set_threat up to its push: the message was written some time before it  *)
(* is reported, and a threat that stands keeps its date.                   *)
Report(r, age) ==
  /\ Change
  /\ threat' = [threat EXCEPT ![r] = TRUE]
  /\ since' = IF threat[r] THEN since ELSE [since EXCEPT ![r] = now - age]
  /\ OnChange(r, 1)
  /\ UNCHANGED <<now, alarm, history, logged>>

(* Outside a batch a repeated report restarts the pause.                   *)
Raise(r, age) ==
  /\ ~Batched
  /\ Report(r, age)
  /\ timer' = [timer EXCEPT ![r] = now + Pause]
  /\ UNCHANGED delivery

(* In a batch the alert is held back.                                      *)
BatchRaise(r, age) ==
  /\ Batched
  /\ Report(r, age)
  /\ buffer' = Append(buffer, Tell(r, "high", "threat"))
  /\ UNCHANGED <<timer, queue, sender, stamp, sent, newest>>

(* Fault: the buffer is put on the queue from its end.                     *)
FlushReversed ==
  /\ buffer # <<>>
  /\ queue' = queue \o [i \in DOMAIN buffer |-> buffer[Len(buffer) + 1 - i]]
  /\ buffer' = <<>>
  /\ UNCHANGED <<now, events, state, timer, history, logged, sync, sender, stamp, sent,
                 newest>>

(* flush_fcm_batch at the end of a batch: also what an earlier one left.   *)
Flush ==
  /\ buffer # <<>>
  /\ queue' = queue \o buffer
  /\ buffer' = <<>>
  /\ UNCHANGED <<now, events, state, timer, history, logged, sync, sender, stamp, sent,
                 newest>>

(* The part of clear_threat outside the state: the clearing of an active   *)
(* paired event is logged, and the all-clear is queued unless a pending    *)
(* alert has been cancelled.                                               *)
LogClearing(r) ==
  /\ paired' = [paired EXCEPT ![r] = FALSE]
  /\ IF paired[r] THEN Log(r, "none", "threat", now) ELSE UNCHANGED rows

AllClear(r, type) == IF timer[r] = NotDue THEN <<Tell(r, "none", type)>> ELSE <<>>

(* clear_threat of the monitor; the scheduler of the regex path names no   *)
(* type.                                                                   *)
ClearThreat(r, type) ==
  /\ Change
  /\ threat[r]
  /\ threat' = [threat EXCEPT ![r] = FALSE]
  /\ LogClearing(r)
  /\ queue' = queue \o AllClear(r, type)
  /\ timer' = [timer EXCEPT ![r] = NotDue]
  /\ OnChange(r, 1)
  /\ UNCHANGED <<now, since, alarm, logged, buffer, sender, stamp, sent, newest>>

(* clear_threat in the pruning thread, where no event loop runs: the push  *)
(* does not go through the queue.                                          *)
PruneThreat(r) ==
  /\ Change
  /\ sender[Pruner] = Idle
  /\ threat[r]
  /\ threat' = [threat EXCEPT ![r] = FALSE]
  /\ LogClearing(r)
  /\ IF timer[r] = NotDue THEN Carry(Pruner, Tell(r, "none", "threat")) ELSE UNCHANGED sender
  /\ timer' = [timer EXCEPT ![r] = NotDue]
  /\ OnChange(r, 1)
  /\ UNCHANGED <<now, since, alarm, logged, buffer, queue, stamp, sent, newest>>

(* set_alarm_active; the end of the alarm clears the threat first.         *)
AlarmOn(r) ==
  /\ Change
  /\ ~alarm[r]
  /\ alarm' = [alarm EXCEPT ![r] = TRUE]
  /\ queue' = Append(queue, Tell(r, "high", "official_alarm"))
  /\ OnChange(r, 1)
  /\ UNCHANGED <<now, threat, since, timer, history, logged, buffer, sender, stamp, sent,
                 newest>>

AlarmOff(r) ==
  /\ Change
  /\ alarm[r]
  /\ alarm' = [alarm EXCEPT ![r] = FALSE]
  /\ IF threat[r]
       THEN /\ LogClearing(r)
            /\ queue' = queue \o AllClear(r, "threat")
                              \o <<Tell(r, "none", "official_alarm")>>
            /\ OnChange(r, 2)
       ELSE /\ queue' = Append(queue, Tell(r, "none", "official_alarm"))
            /\ OnChange(r, 1)
            /\ UNCHANGED history
  /\ threat' = [threat EXCEPT ![r] = FALSE]
  /\ timer' = [timer EXCEPT ![r] = IF threat[r] THEN NotDue ELSE @]
  /\ UNCHANGED <<now, since, logged, buffer, sender, stamp, sent, newest>>

-----------------------------------------------------------------------------
(* sync_threat_state_to_db: what is new since the last logged state.       *)

Step(k, s) == sync' = [sync EXCEPT ![k].stage = s]

(* The comparison of the threats, up to the next await or the end.         *)
Diff(k, was) ==
  LET r == sync[k].region
  IN  IF threat[r] = was
        THEN /\ sync' = [sync EXCEPT ![k] = Idle]
             /\ logged' = [logged EXCEPT ![r] = [threat |-> was, alarm |-> alarm[r]]]
        ELSE /\ sync' = [sync EXCEPT ![k].stage = IF threat[r] THEN "added" ELSE "cleared",
                                     ![k].was = was, ![k].time = since[r]]
             /\ UNCHANGED logged

SyncStart(k) ==
  LET r == sync[k].region
  IN  /\ sync[k].stage = "start"
      /\ IF logged[r].alarm = alarm[r]
           THEN Diff(k, logged[r].threat)
           ELSE /\ sync' = [sync EXCEPT ![k].stage = "siren", ![k].siren = alarm[r],
                                        ![k].was = logged[r].threat]
                /\ UNCHANGED logged
      /\ UNCHANGED <<now, events, state, timer, history, delivery>>

(* The siren's row, as the task saw the siren.                             *)
SyncSiren(k) ==
  LET r == sync[k].region
  IN  /\ sync[k].stage = "siren"
      /\ Log(r, IF sync[k].siren THEN "high" ELSE "none", "official_alarm", now)
      /\ Step(k, "sirenLogged")
      /\ UNCHANGED <<now, events, state, timer, paired, logged, delivery>>

(* Back from the thread the task looks at the siren once more.             *)
SyncSirenLogged(k) ==
  /\ sync[k].stage = "sirenLogged"
  /\ Step(k, IF alarm[sync[k].region] THEN "diff" ELSE "allClear")
  /\ UNCHANGED <<now, events, state, timer, history, logged, delivery>>

(* The end of a siren closes every paired event.                           *)
SyncAllClear(k) ==
  /\ sync[k].stage = "allClear"
  /\ paired' = [paired EXCEPT ![sync[k].region] = FALSE]
  /\ Step(k, "diff")
  /\ UNCHANGED <<now, events, state, timer, rows, logged, delivery>>

SyncDiff(k) ==
  /\ sync[k].stage = "diff"
  /\ Diff(k, sync[k].was)
  /\ UNCHANGED <<now, events, state, timer, history, delivery>>

(* The threat's row carries the time of its message, its end that of the   *)
(* write.                                                                  *)
SyncAdded(k) ==
  LET r == sync[k].region
  IN  /\ sync[k].stage = "added"
      /\ Log(r, "high", "threat", sync[k].time)
      /\ paired' = [paired EXCEPT ![r] = @ \/ ~Redundant(r, "high", "threat")]
      /\ Step(k, "done")
      /\ UNCHANGED <<now, events, state, timer, logged, delivery>>

SyncCleared(k) ==
  /\ sync[k].stage = "cleared"
  /\ Log(sync[k].region, "none", "threat", now)
  /\ Step(k, "closing")
  /\ UNCHANGED <<now, events, state, timer, paired, logged, delivery>>

SyncCloses(k) ==
  /\ sync[k].stage = "closing"
  /\ paired' = [paired EXCEPT ![sync[k].region] = FALSE]
  /\ Step(k, "done")
  /\ UNCHANGED <<now, events, state, timer, rows, logged, delivery>>

(* Fault: the siren is left out of the logged state.                       *)
SyncDoneDropsSiren(k) ==
  LET r == sync[k].region
  IN  /\ sync[k].stage = "done"
      /\ logged' = [logged EXCEPT ![r] = [threat |-> ~sync[k].was]]
      /\ sync' = [sync EXCEPT ![k] = Idle]
      /\ UNCHANGED <<now, events, state, timer, history, delivery>>

SyncDone(k) ==
  LET r == sync[k].region
  IN  /\ sync[k].stage = "done"
      /\ logged' = [logged EXCEPT ![r] = [threat |-> ~sync[k].was, alarm |-> alarm[r]]]
      /\ sync' = [sync EXCEPT ![k] = Idle]
      /\ UNCHANGED <<now, events, state, timer, history, delivery>>

-----------------------------------------------------------------------------
(* The senders: _send_fcm_notification_sync in the worker's thread or in   *)
(* that of an expired timer.                                               *)

Drop(x) == sender' = [sender EXCEPT ![x] = Idle]
Pass(x, s) == sender' = [sender EXCEPT ![x].stage = s]

(* Fault: the worker takes the push that came last.                        *)
TakeNewest ==
  /\ sender[Worker] = Idle
  /\ queue # <<>>
  /\ Carry(Worker, queue[Len(queue)])
  /\ queue' = SubSeq(queue, 1, Len(queue) - 1)
  /\ UNCHANGED <<now, events, state, timer, history, logged, sync, buffer, stamp, sent,
                 newest>>

(* fcm_queue_worker takes the next push when it is done with the last.     *)
Take ==
  /\ sender[Worker] = Idle
  /\ queue # <<>>
  /\ Carry(Worker, Head(queue))
  /\ queue' = Tail(queue)
  /\ UNCHANGED <<now, events, state, timer, history, logged, sync, buffer, stamp, sent,
                 newest>>

(* The pause is over: the alert is sent if the threat is still there.      *)
Expire(r) ==
  /\ timer[r] <= now
  /\ sender[r] = Idle
  /\ timer' = [timer EXCEPT ![r] = NotDue]
  /\ IF threat[r]
       THEN Carry(r, [region |-> r, level |-> "high", type |-> "threat", of |-> events])
       ELSE UNCHANGED sender
  /\ UNCHANGED <<now, events, state, history, logged, sync, buffer, queue, stamp, sent,
                 newest>>

(* Fault: official alarms pass without a mark.                             *)
ThrottleSparesAlarms(x) ==
  /\ sender[x] # Idle /\ sender[x].stage = "throttle"
  /\ LET k == KeyOf(sender[x].push)
     IN  IF sender[x].push.type = "official_alarm"
           THEN /\ Pass(x, "duplicate")
                /\ UNCHANGED stamp
           ELSE IF now - stamp[k] < Cooldown
           THEN /\ Drop(x)
                /\ UNCHANGED stamp
           ELSE /\ Pass(x, "duplicate")
                /\ stamp' = [stamp EXCEPT ![k] = now]
  /\ UNCHANGED <<now, events, state, timer, history, logged, sync, buffer, queue, sent,
                 newest>>

(* _is_fcm_throttled: check and mark, under _fcm_dedup_lock.               *)
Throttle(x) ==
  /\ sender[x] # Idle /\ sender[x].stage = "throttle"
  /\ LET k == KeyOf(sender[x].push)
     IN  IF now - stamp[k] < Cooldown
           THEN /\ Drop(x)
                /\ UNCHANGED stamp
           ELSE /\ Pass(x, "duplicate")
                /\ stamp' = [stamp EXCEPT ![k] = now]
  /\ UNCHANGED <<now, events, state, timer, history, logged, sync, buffer, queue, sent,
                 newest>>

CheckDuplicate(x) ==
  /\ sender[x] # Idle /\ sender[x].stage = "duplicate"
  /\ IF Duplicate(sender[x].push) THEN Drop(x) ELSE Pass(x, "send")
  /\ UNCHANGED <<now, events, state, timer, history, logged, sync, buffer, queue, stamp,
                 sent, newest>>

(* messaging.send; a failure is logged and the push is given up.           *)
Send(x) ==
  /\ sender[x] # Idle /\ sender[x].stage = "send"
  /\ LET p == sender[x].push
     IN  \/ /\ sent' = [sent EXCEPT ![KeyOf(p)] = now]
            /\ newest' = IF x = Worker
                            THEN [newest EXCEPT ![<<p.region, IsAlert(p)>>] = p.of]
                            ELSE newest
         \/ UNCHANGED <<sent, newest>>
  /\ Drop(x)
  /\ UNCHANGED <<now, events, state, timer, history, logged, sync, buffer, queue, stamp>>

(* A tick passes; a timer expires in the tick it is due.                   *)
Tick ==
  /\ now < MaxTime
  /\ \A x \in Thread : sender[x] = Idle
  /\ \A k \in Task : sync[k] = Idle
  /\ \A r \in Region : timer[r] > now
  /\ now' = now + 1
  /\ UNCHANGED <<events, state, timer, history, logged, sync, delivery>>

-----------------------------------------------------------------------------
SyncStep(k) ==
  /\ sync[k] # Idle
  /\ \/ SyncStart(k) \/ SyncSiren(k) \/ SyncSirenLogged(k) \/ SyncAllClear(k)
     \/ SyncDiff(k) \/ SyncAdded(k) \/ SyncCleared(k) \/ SyncCloses(k) \/ SyncDone(k)

SendStep(x) == Throttle(x) \/ CheckDuplicate(x) \/ Send(x)

Next ==
  \/ \E r \in Region :
       \/ \E age \in Ages : Raise(r, age) \/ BatchRaise(r, age)
       \/ \E type \in {"threat", "threat_clear"} : ClearThreat(r, type)
       \/ PruneThreat(r)
       \/ AlarmOn(r) \/ AlarmOff(r) \/ Expire(r)
  \/ \E k \in Task : SyncStep(k)
  \/ Flush
  \/ Take
  \/ \E x \in Thread : SendStep(x)
  \/ Tick

Spec == Init /\ [][Next]_vars

-----------------------------------------------------------------------------
(* Properties.                                                             *)

(* Whatever threads send at once, no push of a region is handed to the     *)
(* phones again within the cooldown (_is_fcm_throttled).                   *)
NoRepeatWithinCooldown ==
  [][\A x \in Thread :
       Send(x) => now - sent[KeyOf(sender[x].push)] >= Cooldown]_vars

(* What the queue has told the phones of a region is never overtaken by    *)
(* something older, however many pushes are dropped or fail in between     *)
(* (fcm_queue_worker): the end of an alarm never arrives before the alarm, *)
(* nor an old alert of a batch after a newer one.  Between the two kinds   *)
(* there is no order: a batch's alerts wait for its end, and are told      *)
(* behind an all-clear of the same batch.                                  *)
QueueKeepsOrder ==
  [][\A lane \in Region \X BOOLEAN : newest'[lane] >= newest[lane]]_vars

(* The alert of an old message is never taken for a duplicate of a history *)
(* row, which is dated by its message.  Holds when every message is so old *)
(* when it is reported that its age, and the pause if there is one, fill   *)
(* the window of is_duplicate_event, and, after a pause, nothing has       *)
(* changed since.  A message that waits for its batch no 20 seconds is not *)
(* so old, nor is a prediction, which is dated by its report.              *)
OldAlertIsNoDuplicate ==
  [][\A x \in Region \cup {Worker} :
       /\ CheckDuplicate(x)
       /\ IsAlert(sender[x].push)
       /\ x = Worker \/ sender[x].push.of = events
       => sender'[x] # Idle]_vars
=============================================================================
