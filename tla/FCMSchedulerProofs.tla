------------------------- MODULE FCMSchedulerProofs -------------------------
(* What holds of FCMScheduler for every set of regions, threads and timers: *)
(* its type invariant and PendingIsLive with any number of threads, and    *)
(* OwedHasCarrier when one thread calls the manager and no test traffic    *)
(* shares the scheduler with it.                                           *)
EXTENDS FCMScheduler, TLAPS

-----------------------------------------------------------------------------
(* The strengthening of PendingIsLive.                                     *)

(* A call between two of its steps is for a region, and what it pushes     *)
(* agrees with the step it has reached.                                    *)
CallOK ==
  \A c \in Caller :
    /\ pc[c] \notin {"idle", "sweep"} => arg[c] \in Region
    /\ pc[c] = "supersede" => push[c] \in {"alert", "testAlert", "none"}
    /\ pc[c] = "spawn" => push[c] \in {"testAlert", "none"}
    /\ pc[c] \in {"register", "start"} => push[c] = "alert"

(* A timer that its caller has still to start has not begun to run.        *)
OwnNotStarted ==
  \A c \in Caller :
    pc[c] = "start" => /\ own[c] \in Timer
                       /\ stage[own[c]] \in {"registered", "cancelled"}

OwnDistinct ==
  \A c, d \in Caller :
    pc[c] = "start" /\ pc[d] = "start" /\ own[c] = own[d] => c = d

ThreadInv ==
  TypeOK /\ CallOK /\ OwnNotStarted /\ OwnDistinct /\ PendingIsLive

LEMMA ThreadInit == Init => ThreadInv
<1> SUFFICES ASSUME Init
             PROVE  ThreadInv
  OBVIOUS
<1>1. TypeOK
  BY DEF Init, TypeOK, Stage, CallStep, Push
<1>2. CallOK /\ OwnNotStarted /\ OwnDistinct
  BY DEF Init, CallOK, OwnNotStarted, OwnDistinct
<1>3. PendingIsLive
  BY DEF Init, PendingIsLive
<1> QED
  BY <1>1, <1>2, <1>3 DEF ThreadInv

LEMMA ThreadNext == ThreadInv /\ [Next]_vars => ThreadInv'
<1> SUFFICES ASSUME ThreadInv, [Next]_vars
             PROVE  ThreadInv'
  OBVIOUS
<1> USE NoTimerAssumption, NobodyAssumption
    DEF ThreadInv, TypeOK, CallOK, OwnNotStarted, OwnDistinct, PendingIsLive,
        Stage, CallStep, Push, timerVars, sweepVars, callVars
<1>1. ASSUME NEW c \in Caller, NEW r \in Region, NEW p \in {"alert", "testAlert"},
             Raise(c, r, p)
      PROVE  ThreadInv'
  BY <1>1 DEF Raise, Goto
<1>2. ASSUME NEW c \in Caller, NEW r \in Region,
             Lower(c, r) \/ ClearThreat(c, r) \/ AlarmEnd(c, r)
      PROVE  ThreadInv'
  <2>1. CASE Lower(c, r)
    <3>1. CASE Clear(r)
      BY <2>1, <3>1 DEF Lower, Clear, Goto
    <3>2. CASE UNCHANGED <<active, owed>>
      BY <2>1, <3>2 DEF Lower, Goto
    <3> QED
      BY <2>1, <3>1, <3>2 DEF Lower
  <2>2. CASE ClearThreat(c, r)
    BY <2>2 DEF ClearThreat, Clear, Goto
  <2>3. CASE AlarmEnd(c, r)
    BY <2>3 DEF AlarmEnd, Clear, Goto
  <2> QED
    BY <1>2, <2>1, <2>2, <2>3
<1>3. ASSUME NEW c \in Caller, NEW test \in BOOLEAN, ClearAll(c, test)
      PROVE  ThreadInv'
  BY <1>3 DEF ClearAll
<1>4. ASSUME NEW c \in Caller, Supersede(c)
      PROVE  ThreadInv'
  BY <1>4 DEF Supersede, PopPending, CancelTimer, Goto
<1>5. ASSUME NEW c \in Caller, Spawn(c)
      PROVE  ThreadInv'
  BY <1>5 DEF Spawn, Return, Goto
<1>6. ASSUME NEW c \in Caller, Register(c)
      PROVE  ThreadInv'
  BY <1>6 DEF Register, Goto
<1>7. ASSUME NEW c \in Caller, Start(c)
      PROVE  ThreadInv'
  BY <1>7 DEF Start, Return, Goto
<1>8. ASSUME NEW c \in Caller, Recheck(c)
      PROVE  ThreadInv'
  BY <1>8 DEF Recheck, Return, Goto
<1>9. ASSUME NEW c \in Caller, CancelPending(c)
      PROVE  ThreadInv'
  BY <1>9 DEF CancelPending, PopPending, CancelTimer, Return, Goto
<1>10. ASSUME NEW c \in Caller, Announce(c)
       PROVE  ThreadInv'
  BY <1>10 DEF Announce, SendPush, Return, Goto
<1>11. ASSUME NEW c \in Caller, SweepEnd(c)
       PROVE  ThreadInv'
  <2>1. TypeOK'
    BY <1>11 DEF SweepEnd
  <2>2. CallOK'
    BY <1>11 DEF SweepEnd
  <2>3. OwnNotStarted'
    BY <1>11 DEF SweepEnd
  <2>4. OwnDistinct'
    BY <1>11 DEF SweepEnd
  <2>5. PendingIsLive'
    BY <1>11 DEF SweepEnd
  <2> QED
    BY <2>1, <2>2, <2>3, <2>4, <2>5
<1>12. ASSUME NEW c \in Caller, NEW r \in Region,
              SweepSkip(c, r) \/ SweepRegion(c, r) \/ SweepTestRegion(c, r)
       PROVE  ThreadInv'
  <2>1. CASE SweepSkip(c, r)
    BY <2>1 DEF SweepSkip, callVars
  <2>2. CASE SweepRegion(c, r)
    BY <2>2 DEF SweepRegion, Clear, Goto
  <2>3. CASE SweepTestRegion(c, r)
    BY <2>3 DEF SweepTestRegion, Clear, Goto
  <2> QED
    BY <1>12, <2>1, <2>2, <2>3
<1>13. ASSUME NEW t \in Timer, Fire(t)
       PROVE  ThreadInv'
  BY <1>13 DEF Fire
<1>14. ASSUME NEW t \in Timer, PopSelf(t)
       PROVE  ThreadInv'
  <2>1. TypeOK'
    BY <1>14 DEF PopSelf, PopPending
  <2>2. CallOK'
    BY <1>14 DEF PopSelf, PopPending
  <2>3. OwnNotStarted'
    BY <1>14 DEF PopSelf, PopPending
  <2>4. OwnDistinct'
    BY <1>14 DEF PopSelf, PopPending
  <2>5. PendingIsLive'
    BY <1>14 DEF PopSelf, PopPending
  <2> QED
    BY <2>1, <2>2, <2>3, <2>4, <2>5
<1>15. ASSUME NEW t \in Timer, Check(t)
       PROVE  ThreadInv'
  <2>1. TypeOK'
    BY <1>15 DEF Check
  <2>2. CallOK'
    BY <1>15 DEF Check
  <2>3. OwnNotStarted'
    BY <1>15 DEF Check
  <2>4. OwnDistinct'
    BY <1>15 DEF Check
  <2>5. PendingIsLive'
    BY <1>15 DEF Check
  <2> QED
    BY <2>1, <2>2, <2>3, <2>4, <2>5
<1>16. ASSUME NEW t \in Timer, SendVerified(t)
       PROVE  ThreadInv'
  <2>1. TypeOK'
    BY <1>16 DEF SendVerified, SendPush
  <2>2. CallOK'
    BY <1>16 DEF SendVerified, SendPush
  <2>3. OwnNotStarted'
    BY <1>16 DEF SendVerified, SendPush
  <2>4. OwnDistinct'
    BY <1>16 DEF SendVerified, SendPush
  <2>5. PendingIsLive'
    BY <1>16 DEF SendVerified, SendPush
  <2> QED
    BY <2>1, <2>2, <2>3, <2>4, <2>5
<1>17. ASSUME NEW j \in Region \X {"testAlert", "none"}, SendNow(j)
       PROVE  ThreadInv'
  <2>1. TypeOK'
    BY <1>17 DEF SendNow, SendPush
  <2>2. CallOK'
    BY <1>17 DEF SendNow, SendPush
  <2>3. OwnNotStarted'
    BY <1>17 DEF SendNow, SendPush
  <2>4. OwnDistinct'
    BY <1>17 DEF SendNow, SendPush
  <2>5. PendingIsLive'
    BY <1>17 DEF SendNow, SendPush
  <2> QED
    BY <2>1, <2>2, <2>3, <2>4, <2>5
<1>18. CASE UNCHANGED vars
  BY <1>18 DEF vars
<1> HIDE DEF ThreadInv, TypeOK, CallOK, OwnNotStarted, OwnDistinct, PendingIsLive,
             Stage, CallStep, Push, timerVars, sweepVars, callVars
<1> QED
  BY <1>1, <1>2, <1>3, <1>4, <1>5, <1>6, <1>7, <1>8, <1>9, <1>10, <1>11,
     <1>12, <1>13, <1>14, <1>15, <1>16, <1>17, <1>18
     DEF Next, NewCall, GoOn, TimerStep, SenderStep

(* Every reachable state is well typed.                                    *)
THEOREM TypeCorrect == Spec => []TypeOK
<1>1. ThreadInv => TypeOK
  BY DEF ThreadInv
<1> QED
  BY <1>1, ThreadInit, ThreadNext, PTL DEF Spec

(* For any number of regions, threads and timers, an entry of              *)
(* _pending_timers is a timer of its own region that has not been popped:  *)
(* what cancel_pending finds and reports is never a finished timer, nor    *)
(* one of another region.                                                  *)
THEOREM PendingCorrect == Spec => []PendingIsLive
<1>1. ThreadInv => PendingIsLive
  BY DEF ThreadInv
<1> QED
  BY <1>1, ThreadInit, ThreadNext, PTL DEF Spec

-----------------------------------------------------------------------------
(* One thread calls the manager, and there is no test traffic.             *)

OneCaller == \A c, d \in Caller : c = d

(* Between its change of the level and its last step, the only call there  *)
(* is finds the region as it has left it.                                  *)
CallerKnows ==
  \A c \in Caller :
    /\ pc[c] \in {"recheck", "cancel"} => ~active[arg[c]]
    /\ pc[c] = "supersede" => push[c] = "alert"

(* A region whose alert is owed has a threat: clearing settles the debt.   *)
OwedIsActive == \A r \in Region : owed[r] => active[r]

OwedInv == ThreadInv /\ CallerKnows /\ OwedIsActive /\ OwedHasCarrier

LEMMA OwedInit == Init => OwedInv
BY ThreadInit DEF Init, OwedInv, CallerKnows, OwedIsActive, OwedHasCarrier

LEMMA OwedNext ==
  ASSUME OneCaller, ~TestTraffic, OwedInv, [Next]_vars
  PROVE  OwedInv'
<1>1. ThreadInv'
  BY ThreadNext DEF OwedInv
<1> USE NoTimerAssumption
    DEF OneCaller, OwedInv, ThreadInv, TypeOK, CallOK, OwnNotStarted,
        PendingIsLive, Stage, CallStep, Push, Live, CallerKnows, OwedIsActive,
        OwedHasCarrier, Carries, timerVars, sweepVars, callVars
<1>2. ASSUME NEW c \in Caller, NEW r \in Region, NEW p \in {"alert", "testAlert"},
             Raise(c, r, p)
      PROVE  CallerKnows' /\ OwedIsActive' /\ OwedHasCarrier'
  BY <1>2 DEF Raise, Goto
<1>3. ASSUME NEW c \in Caller, NEW r \in Region,
             ClearThreat(c, r) \/ AlarmEnd(c, r)
      PROVE  CallerKnows' /\ OwedIsActive' /\ OwedHasCarrier'
  BY <1>3 DEF ClearThreat, AlarmEnd, Clear, Goto
<1>4. ASSUME NEW c \in Caller, NEW test \in BOOLEAN, ClearAll(c, test)
      PROVE  CallerKnows' /\ OwedIsActive' /\ OwedHasCarrier'
  BY <1>4 DEF ClearAll
<1>5. ASSUME NEW c \in Caller, Supersede(c)
      PROVE  CallerKnows' /\ OwedIsActive' /\ OwedHasCarrier'
  <2>1. CallerKnows' /\ OwedIsActive'
    BY <1>5 DEF Supersede, Goto
  <2>2. Carries(c, arg[c])'
    BY <1>5 DEF Supersede, Goto
  <2>3. \A t \in Timer : target[t] # arg[c] => stage'[t] = stage[t]
    BY <1>5 DEF Supersede, CancelTimer
  <2>4. \A r \in Region, d \in Caller : Carries(d, r) => r = arg[c]
    BY <1>5
  <2>5. ASSUME NEW r \in Region, owed'[r], r # arg[c]
        PROVE  \E t \in Timer : target'[t] = r /\ stage'[t] \in Live
    BY <1>5, <2>3, <2>4, <2>5 DEF Supersede
  <2>6. OwedHasCarrier'
    <3> SUFFICES ASSUME NEW r \in Region, owed'[r], r = arg[c]
                 PROVE  \E d \in Caller : Carries(d, r)'
      BY <2>5
    <3> QED
      BY <1>5, <2>2 DEF Supersede, Goto
  <2> QED
    BY <2>1, <2>6
<1>6. ASSUME NEW c \in Caller, Spawn(c)
      PROVE  CallerKnows' /\ OwedIsActive' /\ OwedHasCarrier'
  BY <1>6 DEF Spawn, Return, Goto
<1>7. ASSUME NEW c \in Caller, Register(c)
      PROVE  CallerKnows' /\ OwedIsActive' /\ OwedHasCarrier'
  BY <1>7 DEF Register, Goto
<1>8. ASSUME NEW c \in Caller, Start(c)
      PROVE  CallerKnows' /\ OwedIsActive' /\ OwedHasCarrier'
  BY <1>8 DEF Start, Return, Goto
<1>9. ASSUME NEW c \in Caller, Recheck(c)
      PROVE  CallerKnows' /\ OwedIsActive' /\ OwedHasCarrier'
  BY <1>9 DEF Recheck, Return, Goto
<1>10. ASSUME NEW c \in Caller, CancelPending(c)
       PROVE  CallerKnows' /\ OwedIsActive' /\ OwedHasCarrier'
  <2>1. CallerKnows' /\ OwedIsActive'
    BY <1>10 DEF CancelPending, Return, Goto
  <2>2. ~owed[arg[c]]
    BY <1>10 DEF CancelPending
  <2>3. \A t \in Timer : target[t] # arg[c] => stage'[t] = stage[t]
    BY <1>10 DEF CancelPending, CancelTimer
  <2>4. \A r \in Region, d \in Caller : ~Carries(d, r)
    BY <1>10 DEF CancelPending
  <2> QED
    BY <1>10, <2>1, <2>2, <2>3, <2>4 DEF CancelPending
<1>11. ASSUME NEW c \in Caller, Announce(c)
       PROVE  CallerKnows' /\ OwedIsActive' /\ OwedHasCarrier'
  BY <1>11 DEF Announce, Return, Goto
<1>12. ASSUME NEW c \in Caller, SweepEnd(c)
       PROVE  CallerKnows' /\ OwedIsActive' /\ OwedHasCarrier'
  BY <1>12 DEF SweepEnd
<1>13. ASSUME NEW c \in Caller, NEW r \in Region, SweepSkip(c, r)
       PROVE  CallerKnows' /\ OwedIsActive' /\ OwedHasCarrier'
  BY <1>13 DEF SweepSkip
<1>14. ASSUME NEW c \in Caller, NEW r \in Region,
              SweepRegion(c, r) \/ SweepTestRegion(c, r)
       PROVE  CallerKnows' /\ OwedIsActive' /\ OwedHasCarrier'
  BY <1>14 DEF SweepRegion, SweepTestRegion, Clear, Goto
<1>15. ASSUME NEW t \in Timer, Fire(t) \/ PopSelf(t)
       PROVE  CallerKnows' /\ OwedIsActive' /\ OwedHasCarrier'
  BY <1>15 DEF Fire, PopSelf
<1>16. ASSUME NEW t \in Timer, Check(t)
       PROVE  CallerKnows' /\ OwedIsActive' /\ OwedHasCarrier'
  BY <1>16 DEF Check
<1>17. ASSUME NEW t \in Timer, SendVerified(t)
       PROVE  CallerKnows' /\ OwedIsActive' /\ OwedHasCarrier'
  BY <1>17 DEF SendVerified
<1>18. ASSUME NEW j \in Region \X {"testAlert", "none"}, SendNow(j)
       PROVE  CallerKnows' /\ OwedIsActive' /\ OwedHasCarrier'
  BY <1>18 DEF SendNow
<1>19. CASE UNCHANGED vars
  BY <1>1, <1>19 DEF vars
<1>20. \A c \in Caller, r \in Region : ~Lower(c, r)
  BY DEF Lower
<1> QED
  BY <1>1, <1>2, <1>3, <1>4, <1>5, <1>6, <1>7, <1>8, <1>9, <1>10, <1>11,
     <1>12, <1>13, <1>14, <1>15, <1>16, <1>17, <1>18, <1>19, <1>20
     DEF Next, NewCall, GoOn, TimerStep, SenderStep

(* With one calling thread and no test traffic, for any number of regions  *)
(* and timers, no raised alert loses the timer or the call that pushes it. *)
THEOREM OwedCorrect ==
  ASSUME OneCaller, ~TestTraffic
  PROVE  Spec => []OwedHasCarrier
<1>1. OwedInv /\ [Next]_vars => OwedInv'
  BY OwedNext
<1>2. OwedInv => OwedHasCarrier
  BY DEF OwedInv
<1> QED
  BY <1>1, <1>2, OwedInit, PTL DEF Spec
=============================================================================
