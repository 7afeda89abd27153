---------------------------- MODULE FCMScheduler ----------------------------
(***************************************************************************)
(* The verification pause between a change of a region's threat level and  *)
(* the push that announces it: FCMNotificationScheduler                    *)
(* (core/notification_policy.py) as MockThreatManager drives it            *)
(* (core/threats/threat_manager.py).                                       *)
(*                                                                         *)
(* Several threads call the manager: the event loop (Telegram processor,   *)
(* alarm poller, API) and the thread pool (missile pruning, test           *)
(* scenarios, clear_all).  A call first changes the region's level and     *)
(* only then reaches the scheduler, so calls interleave between the two.   *)
(* Every `with self._lock` block is one action; every gap between two      *)
(* blocks is a place where other threads run.                              *)
(*                                                                         *)
(* Abstractions: a region is its level, "none" or not (active); levels,    *)
(* types and texts are left out; official alarms differ only in the length *)
(* of the pause.  Time is left out: a started timer may fire at any        *)
(* moment.  A push counts as sent when send_fcm_notification is called.    *)
(***************************************************************************)
EXTENDS FiniteSets

CONSTANTS Region,       \* the regions
          Caller,       \* the threads that call the manager
          Timer,        \* threading.Timer objects; a finished one is reused
          NoRegion, NoTimer, Nobody,
          TestTraffic,  \* whether the test endpoints are in use
          Sweeps        \* whether clear_all is called

ASSUME NoRegionAssumption == NoRegion \notin Region
ASSUME NoTimerAssumption == NoTimer \notin Timer
ASSUME NobodyAssumption == Nobody \notin Caller
ASSUME TestTrafficAssumption == TestTraffic \in BOOLEAN
ASSUME SweepsAssumption == Sweeps \in BOOLEAN

VARIABLES active,    \* region -> its level is not "none"
          pending,   \* FCMNotificationScheduler._pending_timers
          stage,     \* timer -> where the Timer object is in its life
          target,    \* timer -> the region its closure captured
          pc,        \* caller -> the next step of the call it is in
          arg,       \* caller -> the region of that call
          push,      \* caller -> the push that call wants to schedule
          own,       \* caller -> the timer it has created and not yet started
          sweeper,   \* the caller that holds _clear_lock
          onlyTest,  \* the argument of the running clear_all
          todo,      \* the regions the running clear_all has still to visit
          jobs,      \* daemon threads started to send without a pause
          shown,     \* region -> the last push sent, as the phones see it
          owed       \* region -> a real alert was raised and not yet pushed

callVars == <<pc, arg, push, own>>
sweepVars == <<sweeper, onlyTest, todo>>
timerVars == <<pending, stage, target>>
vars == <<active, pending, stage, target, pc, arg, push, own, sweeper,
          onlyTest, todo, jobs, shown, owed>>

(* What a call wants to push: a real or a test alert, the all-clear of      *)
(* clear_threat, clear_all or the mock API, and that of an official alarm. *)
Push == {"alert", "testAlert", "none", "alarmOver"}

Stage == {"unused",      \* no such object, or one that is finished
          "registered",  \* created and stored, start() not yet called
          "cancelled",   \* cancelled before its start()
          "armed",       \* started, waiting out the pause
          "fired",       \* the pause is over, _execute_send has begun
          "checking",    \* its entry is popped, active_check_fn comes next
          "sending"}     \* the check passed, the push comes next

(* The stages from which a timer still reaches its check or its push.      *)
Live == {"registered", "armed", "fired", "checking", "sending"}

CallStep == {"idle", "supersede", "register", "start", "spawn", "recheck",
             "cancel", "announce", "sweep"}

TypeOK ==
  /\ active \in [Region -> BOOLEAN]
  /\ pending \in [Region -> Timer \cup {NoTimer}]
  /\ stage \in [Timer -> Stage]
  /\ target \in [Timer -> Region \cup {NoRegion}]
  /\ pc \in [Caller -> CallStep]
  /\ arg \in [Caller -> Region \cup {NoRegion}]
  /\ push \in [Caller -> Push]
  /\ own \in [Caller -> Timer \cup {NoTimer}]
  /\ sweeper \in Caller \cup {Nobody}
  /\ onlyTest \in BOOLEAN
  /\ todo \in SUBSET Region
  /\ jobs \in SUBSET (Region \X {"testAlert", "none"})
  /\ shown \in [Region -> {"nothing", "alert", "testAlert", "none"}]
  /\ owed \in [Region -> BOOLEAN]

Init ==
  /\ active = [r \in Region |-> FALSE]
  /\ pending = [r \in Region |-> NoTimer]
  /\ stage = [t \in Timer |-> "unused"]
  /\ target = [t \in Timer |-> NoRegion]
  /\ pc = [c \in Caller |-> "idle"]
  /\ arg = [c \in Caller |-> NoRegion]
  /\ push = [c \in Caller |-> "none"]
  /\ own = [c \in Caller |-> NoTimer]
  /\ sweeper = Nobody
  /\ onlyTest = FALSE
  /\ todo = {}
  /\ jobs = {}
  /\ shown = [r \in Region |-> "nothing"]
  /\ owed = [r \in Region |-> FALSE]

-----------------------------------------------------------------------------
(* Helpers.                                                                *)

(* The call of c goes on with step s, for region r and push p.             *)
Goto(c, s, r, p) ==
  /\ pc' = [pc EXCEPT ![c] = s]
  /\ arg' = [arg EXCEPT ![c] = r]
  /\ push' = [push EXCEPT ![c] = p]

(* The call of c is over; a running clear_all goes on with its next region. *)
Return(c) ==
  Goto(c, IF sweeper = c THEN "sweep" ELSE "idle", NoRegion, "none")

(* The region's last threat is gone, and nothing is owed for it any more.  *)
Clear(r) ==
  /\ active' = [active EXCEPT ![r] = FALSE]
  /\ owed' = [owed EXCEPT ![r] = FALSE]

(* Timer.cancel() on the popped entry of region r: it reaches a timer that *)
(* has not fired and is without effect on one that has.                    *)
CancelTimer(r) ==
  stage' = [t \in Timer |->
              IF t = pending[r] /\ stage[t] = "registered" THEN "cancelled"
              ELSE IF t = pending[r] /\ stage[t] = "armed" THEN "unused"
              ELSE stage[t]]

PopPending(r) == pending' = [pending EXCEPT ![r] = NoTimer]

(* send_fcm_notification(r, p): the phones now show p.                     *)
SendPush(r, p) == shown' = [shown EXCEPT ![r] = p]

-----------------------------------------------------------------------------
(* MockThreatManager.set_threat outside a batch, and the call of           *)
(* schedule_notification it makes when the state has changed.              *)

(* A report raises or updates a threat; a test report has no pause.        *)
Raise(c, r, p) ==
  /\ pc[c] = "idle"
  /\ p = "alert" \/ (TestTraffic /\ p = "testAlert")
  /\ active' = [active EXCEPT ![r] = TRUE]
  /\ owed' = IF p = "alert" THEN [owed EXCEPT ![r] = TRUE] ELSE owed
  /\ Goto(c, "supersede", r, p)
  /\ UNCHANGED <<timerVars, own, sweepVars, jobs, shown>>

(* POST /api/threats/mock with level "none": all threats of the region go, *)
(* or those of one type, and a "none" push is scheduled in either case.    *)
Lower(c, r) ==
  /\ TestTraffic
  /\ pc[c] = "idle"
  /\ Clear(r) \/ UNCHANGED <<active, owed>>
  /\ Goto(c, "supersede", r, "none")
  /\ UNCHANGED <<timerVars, own, sweepVars, jobs, shown>>

(* Fault: the pause is never taken, every push starts at once.             *)
SupersedeNoPause(c) ==
  /\ pc[c] = "supersede"
  /\ PopPending(arg[c])
  /\ CancelTimer(arg[c])
  /\ Goto(c, "spawn", arg[c], push[c])
  /\ UNCHANGED <<active, target, own, sweepVars, jobs, shown, owed>>

(* The first locked block: the pending timer of the region is replaced.    *)
Supersede(c) ==
  /\ pc[c] = "supersede"
  /\ PopPending(arg[c])
  /\ CancelTimer(arg[c])
  /\ Goto(c, IF push[c] = "alert" THEN "register" ELSE "spawn", arg[c], push[c])
  /\ UNCHANGED <<active, target, own, sweepVars, jobs, shown, owed>>

(* delay <= 0: a daemon thread sends the push at once.                     *)
Spawn(c) ==
  /\ pc[c] = "spawn"
  /\ jobs' = jobs \cup {<<arg[c], push[c]>>}
  /\ Return(c)
  /\ UNCHANGED <<active, timerVars, own, sweepVars, shown, owed>>

(* The second locked block stores a new timer, over whatever is there.     *)
Register(c) ==
  /\ pc[c] = "register"
  /\ \E t \in Timer :
       /\ stage[t] = "unused"
       /\ stage' = [stage EXCEPT ![t] = "registered"]
       /\ target' = [target EXCEPT ![t] = arg[c]]
       /\ own' = [own EXCEPT ![c] = t]
       /\ pending' = [pending EXCEPT ![arg[c]] = t]
  /\ Goto(c, "start", arg[c], push[c])
  /\ UNCHANGED <<active, sweepVars, jobs, shown, owed>>

(* Fault: the timer is stored and never started.                           *)
StartForgotten(c) ==
  /\ pc[c] = "start"
  /\ own' = [own EXCEPT ![c] = NoTimer]
  /\ Return(c)
  /\ UNCHANGED <<active, timerVars, sweepVars, jobs, shown, owed>>

(* timer.start(), outside the lock; a cancelled timer ends at once.        *)
Start(c) ==
  /\ pc[c] = "start"
  /\ stage' = [stage EXCEPT ![own[c]] =
                  IF @ = "registered" THEN "armed" ELSE "unused"]
  /\ own' = [own EXCEPT ![c] = NoTimer]
  /\ Return(c)
  /\ UNCHANGED <<active, pending, target, sweepVars, jobs, shown, owed>>

-----------------------------------------------------------------------------
(* MockThreatManager.clear_threat and clear_all.                           *)

(* Fault: the pending push is cancelled although other threats remain.     *)
ClearThreatAnyLevel(c, r) ==
  /\ pc[c] = "idle"
  /\ active[r]
  /\ Goto(c, "cancel", r, "none")
  /\ UNCHANGED <<active, timerVars, own, sweepVars, jobs, shown, owed>>

(* clear_threat removed the region's last threat; a call that leaves some  *)
(* threat, or finds none, does not reach the scheduler.                    *)
ClearThreat(c, r) ==
  /\ pc[c] = "idle"
  /\ active[r]
  /\ Clear(r)
  /\ Goto(c, "recheck", r, "none")
  /\ UNCHANGED <<timerVars, own, sweepVars, jobs, shown>>

(* set_alarm_active, the official alarm of the region is over: it clears    *)
(* the threats one by one with clear_threat and then pushes its own "none". *)
AlarmEnd(c, r) ==
  /\ pc[c] = "idle"
  /\ active[r]
  /\ Clear(r)
  /\ Goto(c, "recheck", r, "alarmOver")
  /\ UNCHANGED <<timerVars, own, sweepVars, jobs, shown>>

(* clear_threat has logged the clearing and reads the level once more: it  *)
(* leaves the scheduler alone if another thread has raised a threat.       *)
Recheck(c) ==
  /\ pc[c] = "recheck"
  /\ IF ~active[arg[c]] THEN Goto(c, "cancel", arg[c], push[c])
     ELSE IF push[c] = "alarmOver" THEN Goto(c, "announce", arg[c], push[c])
     ELSE Return(c)
  /\ UNCHANGED <<active, timerVars, own, sweepVars, jobs, shown, owed>>

(* clear_all begins; a caller that finds _clear_lock taken returns.        *)
ClearAll(c, test) ==
  /\ Sweeps
  /\ pc[c] = "idle"
  /\ test => TestTraffic
  /\ sweeper = Nobody
  /\ sweeper' = c
  /\ onlyTest' = test
  /\ todo' = Region
  /\ pc' = [pc EXCEPT ![c] = "sweep"]
  /\ UNCHANGED <<active, timerVars, arg, push, own, jobs, shown, owed>>

(* clear_all skips a region: no threat, or nothing of a test in it.        *)
SweepSkip(c, r) ==
  /\ pc[c] = "sweep"
  /\ r \in todo
  /\ active[r] => onlyTest
  /\ todo' = todo \ {r}
  /\ UNCHANGED <<active, timerVars, callVars, sweeper, onlyTest, jobs, shown,
                 owed>>

(* clear_all empties a region and goes on to cancel its pending push.      *)
SweepRegion(c, r) ==
  /\ pc[c] = "sweep"
  /\ r \in todo
  /\ ~onlyTest
  /\ active[r]
  /\ todo' = todo \ {r}
  /\ Clear(r)
  /\ Goto(c, "cancel", r, "none")
  /\ UNCHANGED <<timerVars, own, sweeper, onlyTest, jobs, shown>>

(* clear_all(only_test=True) empties a region that held only test threats, *)
(* or none and the test flag, and leaves its pending timer alone.          *)
SweepTestRegion(c, r) ==
  /\ pc[c] = "sweep"
  /\ r \in todo
  /\ onlyTest
  /\ todo' = todo \ {r}
  /\ Clear(r)
  /\ Goto(c, "announce", r, "none")
  /\ UNCHANGED <<timerVars, own, sweeper, onlyTest, jobs, shown>>

(* Fault: the lock is not released.                                        *)
SweepEndKeepsLock(c) ==
  /\ pc[c] = "sweep"
  /\ todo = {}
  /\ pc' = [pc EXCEPT ![c] = "idle"]
  /\ UNCHANGED <<active, timerVars, arg, push, own, sweepVars, jobs, shown, owed>>

(* The last region is done: clear_all releases _clear_lock.                *)
SweepEnd(c) ==
  /\ pc[c] = "sweep"
  /\ todo = {}
  /\ sweeper' = Nobody
  /\ onlyTest' = FALSE
  /\ pc' = [pc EXCEPT ![c] = "idle"]
  /\ UNCHANGED <<active, timerVars, arg, push, own, todo, jobs, shown, owed>>

(* cancel_pending; clear_threat sends no "none" push when it returns True, *)
(* clear_all and set_alarm_active push "none" whatever it returns.         *)
CancelPending(c) ==
  /\ pc[c] = "cancel"
  /\ PopPending(arg[c])
  /\ CancelTimer(arg[c])
  /\ IF pending[arg[c]] = NoTimer \/ sweeper = c \/ push[c] = "alarmOver"
       THEN Goto(c, "announce", arg[c], push[c])
       ELSE Return(c)
  /\ UNCHANGED <<active, target, own, sweepVars, jobs, shown, owed>>

Announce(c) ==
  /\ pc[c] = "announce"
  /\ SendPush(arg[c], "none")
  /\ Return(c)
  /\ UNCHANGED <<active, timerVars, own, sweepVars, jobs, owed>>

-----------------------------------------------------------------------------
(* The timer threads (_execute_send) and the immediate senders.            *)

(* The pause is over before anyone cancelled the timer.                    *)
Fire(t) ==
  /\ stage[t] = "armed"
  /\ stage' = [stage EXCEPT ![t] = "fired"]
  /\ UNCHANGED <<active, pending, target, callVars, sweepVars, jobs, shown, owed>>

(* Fault: a timer that has fired leaves its entry behind.                  *)
PopSelfKeepsEntry(t) ==
  /\ stage[t] = "fired"
  /\ stage' = [stage EXCEPT ![t] = "checking"]
  /\ UNCHANGED <<active, pending, target, callVars, sweepVars, jobs, shown, owed>>

(* The locked block drops the region's entry, whichever timer it names.    *)
PopSelf(t) ==
  /\ stage[t] = "fired"
  /\ PopPending(target[t])
  /\ stage' = [stage EXCEPT ![t] = "checking"]
  /\ UNCHANGED <<active, target, callVars, sweepVars, jobs, shown, owed>>

(* active_check_fn reads the level of the region.                          *)
Check(t) ==
  /\ stage[t] = "checking"
  /\ stage' = [stage EXCEPT ![t] =
                  IF active[target[t]] THEN "sending" ELSE "unused"]
  /\ UNCHANGED <<active, pending, target, callVars, sweepVars, jobs, shown, owed>>

SendVerified(t) ==
  /\ stage[t] = "sending"
  /\ stage' = [stage EXCEPT ![t] = "unused"]
  /\ SendPush(target[t], "alert")
  /\ owed' = [owed EXCEPT ![target[t]] = FALSE]
  /\ UNCHANGED <<active, pending, target, callVars, sweepVars, jobs>>

SendNow(j) ==
  /\ j \in jobs
  /\ jobs' = jobs \ {j}
  /\ SendPush(j[1], j[2])
  /\ UNCHANGED <<active, timerVars, callVars, sweepVars, owed>>

-----------------------------------------------------------------------------
(* A new call of the manager.                                              *)
NewCall(c) ==
  \/ \E r \in Region : \/ \E p \in {"alert", "testAlert"} : Raise(c, r, p)
                       \/ Lower(c, r) \/ ClearThreat(c, r) \/ AlarmEnd(c, r)
  \/ \E test \in BOOLEAN : ClearAll(c, test)

(* The next step of the call that c is in.                                 *)
GoOn(c) ==
  \/ Supersede(c) \/ Spawn(c) \/ Register(c) \/ Start(c)
  \/ Recheck(c) \/ CancelPending(c) \/ Announce(c) \/ SweepEnd(c)
  \/ \E r \in Region : SweepSkip(c, r) \/ SweepRegion(c, r) \/ SweepTestRegion(c, r)

TimerStep(t) == Fire(t) \/ PopSelf(t) \/ Check(t) \/ SendVerified(t)

SenderStep == \E j \in Region \X {"testAlert", "none"} : SendNow(j)

Next ==
  \/ \E c \in Caller : NewCall(c) \/ GoOn(c)
  \/ \E t \in Timer : TimerStep(t)
  \/ SenderStep

Spec == Init /\ [][Next]_vars

(* Threads that have something to do run, and a started timer fires.       *)
(* Nothing obliges anybody to make a new call.                             *)
Fairness ==
  /\ \A c \in Caller : WF_vars(GoOn(c))
  /\ \A t \in Timer : WF_vars(TimerStep(t))
  /\ WF_vars(SenderStep)

FairSpec == Spec /\ Fairness

-----------------------------------------------------------------------------
(* Properties.                                                             *)

(* The entry of a region in _pending_timers is a timer of that region that *)
(* can still be cancelled or is about to drop the entry itself, so that    *)
(* cancel_pending never reports the cancellation of a finished timer, and  *)
(* never stops the push of another region.  Any number of threads.         *)
PendingIsLive ==
  \A r \in Region :
    pending[r] # NoTimer =>
      /\ target[pending[r]] = r
      /\ stage[pending[r]] \in {"registered", "armed", "fired"}

(* The call of c will schedule or start the push of a real alert for r.    *)
Carries(c, r) ==
  /\ pc[c] \in {"supersede", "register"}
  /\ arg[c] = r
  /\ push[c] = "alert"

(* A real alert that has been raised, is not cleared and is not yet pushed *)
(* is in the hands of a timer of its region or of the call that raised it. *)
(* An alert without a carrier is never pushed, however long it lasts.      *)
(* Holds when one thread calls the manager and no test traffic shares the  *)
(* scheduler with it; with two threads clear_threat, between its last look *)
(* at the level and cancel_pending, can lose the alert of another thread,  *)
(* and so can clear_all between emptying a region and cancel_pending.      *)
OwedHasCarrier ==
  \A r \in Region :
    owed[r] =>
      \/ \E t \in Timer : target[t] = r /\ stage[t] \in Live
      \/ \E c \in Caller : Carries(c, r)

(* An alert that is owed is pushed, or its threat is cleared, once reports *)
(* for its region stop: every report within the pause starts it anew.      *)
OwedIsPushed ==
  \A r \in Region :
    <>[][\A c \in Caller : ~Raise(c, r, "alert")]_vars
      => (owed[r] ~> ~owed[r])

(* clear_all gives _clear_lock back, whatever the other threads do.        *)
ClearLockReleased == \A c \in Caller : sweeper = c ~> sweeper # c

(* notification_policy.py:17, of a threat cleared within the pause: "пуші  *)
(* загрози та відбою не надсилаються".  No all-clear of the manager's own  *)
(* goes to phones that were never shown a threat of the region.  The code  *)
(* does not keep it: clear_all ignores whether it cancelled a timer.       *)
NoClearPushWithinPause ==
  [][\A c \in Caller :
       Announce(c) /\ push[c] = "none" => shown[arg[c]] # "nothing"]_vars

(* notification_policy.py:124, on a cancelled notification: "Жодного пуша  *)
(* не надсилалося".  When clear_threat stays silent because it cancelled a *)
(* pending timer, the phones do not show the alert that has just ended.    *)
(* The code does not keep it: the timer may be that of a repeated report.  *)
SilentCancelHidesNoAlert ==
  [][\A c \in Caller :
       CancelPending(c) /\ pc'[c] = "idle" => shown[arg[c]] # "alert"]_vars
=============================================================================
