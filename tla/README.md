# SirenUA threat server: a TLA+ verification project

The server watches Telegram channels and official alarm sources, keeps for each region of
Ukraine the threats that are known there and whether the official siren is on, writes every
change to a history, and pushes changes to phones. This directory holds TLA+ models of its core,
TLC configurations that check them on small instances, and proofs for every value of the
constants.

All paths below are relative to the repository.

## The system

| Component | Where | State | Operations |
|---|---|---|---|
| MockThreatManager | `core/threats/threat_manager.py` | one ThreatState per region, `real_threats_backup`, batch buffer, save timer, `_clear_lock` | `set_threat`, `clear_threat`, `clear_all`, `set_alarm_active`, saving, loading, resetting, batches |
| ThreatState, SingleThreat | `core/threats/threat_state_model.py`, `single_threat.py` | cards of tactical threats, official siren, test flag | match a report to a card, add, update, clear by group or type, to and from dictionaries |
| FCMNotificationScheduler | `core/notification_policy.py` | `_pending_timers`: region to `threading.Timer` | schedule, cancel, the body of a timer |
| FCM delivery | `database/db_helpers.py`, `database/connection.py` | `fcm_queue`, `_recent_fcm_pushes` | queue or send directly, throttle, check for duplicates, send |
| Analytics database | `database/analytics_db.py`, `clearing_logger.py` | `threat_history`, `paired_events`, `threat_clearings`, `last_logged_states` | sync a region, log a threat or a clearing, reconcile at a start |
| History batch | `database/threat_logger.py` | a buffer and its flush timer | queue a row, flush |
| Telegram monitor | `monitor/` | message buffers, auto-clear and re-evaluation timers, last processed ids | collect a batch, analyze, apply, clear by timers |
| Gemini analyzer and rules | `analyzer/` | API keys with cooldowns, learned rules with weights | analyze a batch, rotate keys, decay rules |
| Alarm poller, missile lifecycle | `server.py`, `services/missile_lifecycle_service.py` | last known alarms, tiers of sources | poll, report every region, prune missile threats |
| Backup | `database/firestore_sync.py`, `smart_backup.py` | chunks and a manifest in Firestore | back up, restore |
| Test scenarios, cleaner | `testing/` | none of their own | raise test threats, clear them |
| API | `api/` | none of their own | read state; raise or clear threats by the mock endpoints; administer |
| Shelters, catalogues, models, scripts, tools | `database/shelter_manager.py`, `core/*.py`, `models/`, `scripts/`, `tools/` | static data | look up |

**How they interact.** The monitor, the poller and the API call the manager. The manager changes
the region's ThreatState, then calls the scheduler (a report) or `send_fcm_notification` (a
clearing, a siren), then saves and calls `on_change`, which puts `sync_threat_state_to_db` on the
event loop. The scheduler's timers call `send_fcm_notification` after a pause of 10 s (5 s for an
official alarm) if the threat is still there. A push that is made on the event loop goes through
`fcm_queue`, from any other thread it is sent at once; either way it must pass the throttle and
the duplicate check, and the latter reads the history that the sync tasks write.

**Threads.** One event loop (processor, poller, API, sync tasks, queue worker); the thread pool it
hands work to (missile pruning, test scenarios, `clear_all`, database writes, sending); one thread
per timer. ThreatState has no lock. The scheduler's dictionary has one, and holds it only for
single dictionary operations. `sync_threat_state_to_db` gives way at every `to_thread`.

**What is hard.** Callers that overlap between a change and the scheduling of its push; timers
that fire while they are being replaced or cancelled; a duplicate check that reads what another
task is about to write; two sync tasks of one region; the test flag, which several operations
read and only some write; crashes between saves; messages acknowledged before they are processed; an analysis that returns to a state that has
moved on. `PROJECT.json` lists each at its line under `hazards`, with the property that covers it
or the reason why none does.

**What makes it correct.** A real alert reaches the phones unless its threat goes away first; an
all-clear only follows an alert; nothing is pushed twice; the siren shown is the siren that is
on; a clearing removes its own group; every relevant post is applied, once; a threat the monitor
has shown is looked at again or cleared; after a restart the state is the last one saved; the
history says when each threat began and ended; a search for shelters misses none.

## Modules

| Module | Models | Checked and proved in |
|---|---|---|
| `FCMScheduler` | the verification pause: manager calls from several threads, the scheduler's locked blocks, timers | `MCFCMScheduler`, `FCMSchedulerProofs` |
| `ThreatManager` | the state of regions: cards, siren, test flag, backup | `MCThreatManager`, `ThreatManagerProofs` |
| `PushDelivery` | history rows, sync tasks, queue, throttle, duplicate check, over time | `MCPushDelivery`, `PushDeliveryProofs` |
| `TelegramIngest` | posts of a channel: events, scan, scraper, watchdog, queue, batch | `MCTelegramIngest`, `TelegramIngestProofs` |
| `MessageBatches` | abstract: what a batch processor promises of its messages | implemented by `GeminiBatch` |
| `GeminiBatch` | one batch: key rotation, application, held-back pushes, re-evaluations | `MCGeminiBatch`, `GeminiBatchProofs` |
| `MonitorTimers` | extends `ThreatManager` by the monitor's clear timers, re-evaluations, predictions, cleanup loop, restart | `MCMonitorTimers`, `ThreatManagerProofs` |
| `EventStore` | the statements on the three tables of a region, reconciliation | `MCEventStore`, `EventStoreProofs` |
| `StatePersistence` | the debounced save of the manager, the load with its fallbacks | through `Recovery` |
| `SqliteBackup` | the rows of the database and their chunked backup | through `Recovery` |
| `Recovery` | composes the two with the start of the server and crashes | `MCRecovery`, `RecoveryProofs` |
| `Lists` | a loop over a list as a function of its turns | through the two that use it, `RuleLearning` and `Prediction` |
| `RuleLearning` | what past events teach, decay, reflections, what is read of it | `MCRuleLearning`, `MCServices`, `ServicesProofs` |
| `ThreatLifecycle` | how long a threat may stay: speeds, kinematics, times told | `AlarmPoll`, `ServicesProofs` |
| `AlarmPoll` | the loop over three alarm services, the pruning of threats | `MCServices`, `ServicesProofs` |
| `HistoryBatch` | the buffered rows of `sirenua_history` | `MCServices`, `ServicesProofs` |
| `ShelterIndex` | shelters by cell and by region, searches, loads, questions for one place | `MCServices`, `ServicesProofs` |
| `Prediction` | paths between regions, the engine that chooses predictions | `MCServices`, `ServicesProofs` |
| `Services` | `RuleLearning` and the four modules above, side by side | `MCServices`, `ServicesProofs` |

`FCMScheduler`, `ThreatManager`, `PushDelivery`, `GeminiBatch` and `EventStore` look at the same
calls of the manager from five sides: who runs between two of its steps, what its state becomes,
what reaches the phones when, what a batch makes of it, and what the tables say. `MonitorTimers`
uses the actions of `ThreatManager` as they are; `AlarmPoll` those of `ThreatLifecycle`, `Recovery`
those of both persistence modules.

An `MC` module defines the instance TLC checks. An operator commented `Fault:` is a mutation of the
one after it and no part of the specification: it is there to show that a property notices.

### FCMScheduler

A region is only "has a threat" or not; what matters is who may run between two steps. Each
`with self._lock` block is one action, and so is each stretch of a manager call between two of
them:

- `set_threat`: `Raise` (state), `Supersede` (first block: pop and cancel the old timer),
  `Register` (second block: store the new one), `Start` (`timer.start()`, outside the lock). A test
  report and a mock all-clear have no pause and go to `Spawn`.
- `clear_threat`: `ClearThreat`, `Recheck` (the second look at the level), `CancelPending`, and
  `Announce` if nothing was cancelled. The end of an official alarm (`AlarmEnd`) does the same and
  announces in any case.
- `clear_all`: `ClearAll` takes `_clear_lock`, one `Sweep...` action per region, `SweepEnd` releases it.
- a timer: `Fire`, `PopSelf` (its locked block), `Check` (`active_check_fn`), `SendVerified`.

`shown` and `owed` are history variables: what the phones saw last, and whether a real alert was
raised and neither pushed nor cleared. Time is left out: a started timer may fire at any moment.
`Sweeps` says whether `clear_all` is called: its sweep (486-493) has the same window between the look
at the level and `cancel_pending` as `clear_threat`, and the run `FCMLostAlert` leaves it out to show
that of `clear_threat`.

### ThreatManager

A call is one step. A card is its group id, type and test flag. `Norm` is
`normalize_group_id`, any function; `Family` the tactical families. Whether two reports of one
family are taken for the same group depends on texts, targets and times, which are left out: both
outcomes are allowed. `backup` is `real_threats_backup`, the state without tests; it follows the code
exactly, `set_threat` storing the state *before* the report. A start does not read it
(`load_from_db` takes the saved state, see `StatePersistence`); `reset_to_real_threats` does, which
nothing calls. `cause` (a poll or report turned the siren on and no poll turned it off) and
`confirmed` (cards a real report has named) are history variables.

### PushDelivery

A tick is 5 s, so the constants of the instance are those of the code: `Pause` 2, `Cooldown` 5,
`DupWindow` 4, `LogWindow` 3. A report takes one of two ways. With the analyzer (`Batched`) the alert
goes into `buffer` (`BatchRaise`), and `Flush` at the end of the batch puts the buffer on the queue,
without a pause. Without it posts are read one by one, and the alert waits for its verification timer
(`Raise`, `Expire`). `Report` is what the two share. The other actions of the event loop
(`ClearThreat`, `AlarmOn`, `AlarmOff`), of the pruning thread (`PruneThreat`), of a sync task (one per
stretch between two awaits, from `SyncStart` by `SyncSiren`, `SyncSirenLogged`, `SyncAllClear`,
`SyncDiff`, `SyncAdded`, `SyncCleared` and `SyncCloses` to `SyncDone`), of the worker (`Take`), and of
whichever thread is sending (`Throttle`, `CheckDuplicate`, `Send`) interleave freely within a tick. `sent` (when a key last went out) and
`newest` (the newest change the queue has told, of batch alerts and of all else) are history
variables. A write to the database is
one step; the statements inside `log_threat_to_db` are the subject of `EventStore`. The three
entries of rows that `is_duplicate_event` looks at, the dedup rules of `log_threat_to_db`, and the
time a row carries (a threat's row that of its message, a clearing's or a siren's that of the
write) are as in the code. How far batches lie apart is left out.

### TelegramIngest

A post is its message id, and an action is the code between two awaits. `Event` is the handler of
`NewMessage`, which stores the offset before it processes the post; `CrashInHandler` is a crash
between the two. `ScanAsk`, `ScanAnswer` and `ScanNext` are the scan of missed posts at a start;
`Disconnect` and the `Watchdog` actions hand the channel to the web scraper and back; `Scrape` is
one pass over a page. `Drain`, `BatchDone` and `BatchLost` empty the queue, apply a batch, or lose
part of it. `applied` counts per path how often a post was applied; `excused` are the posts a fault
has touched: a crash, a lost batch, a page they left before it was read, a break or a return of the
connection, a request of the scan that failed, an hour spent unread.

### MessageBatches and GeminiBatch

`GeminiBatch` is the batch loop, `analyze_batch` and the batch mode of the manager: `Drain`, then
one `KeyFails` per key until `Answer`, `AnswerRaises` (applying the results raised: what the buffer
of pushes holds waits for the next batch) or `GiveUp`. A re-evaluation of a single threat goes on
beside it and turns the same `current_key_idx`. `MessageBatches` is its abstract specification:
batches one after the other, no message worked on twice, each done with or lost in the end. The
mapping reads `queue` and `batch`.

### MonitorTimers

Timers and re-evaluations are kept under the region, type and group of the *report* that started
them; the cards are those of `ThreatManager`, which may have taken the report for an update of
another card. `SetCardAt` says which. `Report`, `RegexReport` and `Propagate` set cards and start or restart timers,
`MessageClear`, `MessageClearAll`, `SirenOn` and `SirenOff` clear and cancel, `AutoClear` is a clear
timer that fires, `Reevaluation` is run, then answered by keeping or clearing. `Cleanup` is the loop
over all cards, `Restart` loses timers and cooldowns and keeps the cards. Delays are left out: a
timer may fire at any time. `unseen` are the cards nothing has looked at since they came; `merged` are the verdicts under way
while a report of another key went into a card.

### EventStore

One region and its three tables, one statement per action, since the connections run with
`isolation_level=None`: `ReadLast`, `InsertRow` and `InsertEvent` of `log_threat_to_db`, `Find`,
`InsertClearing`, `Close` and `Sweep` of `log_clearing_to_db`. `pending` are the calls the manager's
changes (`Appear`, `Vanish`, `Siren`) have put in the hands of threads; `Begin` starts one. `Locked`
is a statement that finds the database locked: the function starts anew, up to five times.
`CleanUp` and `ForceClose` are the cleanup of stale events; `Crash` and the `Reconcile` actions a
restart. Which of two equally good events a query takes is left open. The row of a clearing is of the
type the call names or, if it names none, of that of the event it found (`SavedTypes`).

### StatePersistence, SqliteBackup, Recovery

A state of the manager is the number of the change that led to it, and a row of the database stands
for one change, so that *older* and *newer* can be compared. `Change` puts off the save timer;
`Fire` and `SaveNow` start a thread, which runs `WriteDoc` (or `DocFails`), `TakeState` and
`Replace`; two of them may overlap. A backup writes chunks in place and then the manifest. A start
is `RestoreDb` and `LoadState`, each with or without an answer of Firestore; `Crash` may take the
disk with it. `Outcomes` is the decision of the restore: fill up from the backup, lay down the
baseline, or leave alone.

### RuleLearning

One key of `gemini_rules`: source, target, type, hour. `Learnt` is what the events of the last 30
days teach, kind by kind; a run of the learner is `Start`, `Decay` (its two statements, by score and by
age, are two steps), `Read` and then `Delete` and
`Insert` per rule, each statement a transaction of its own, with `Locked` retries. `Reflect` and
`ReflectionWritten` are the post-mortem of one event. `LoadedCorrection` and `Quoted` are what the
analyzer reads: the correction of a confidence, and the rules it quotes in its prompt.

### ThreatLifecycle and AlarmPoll

`ThreatLifecycle` computes in seconds, for every type of `core/threat_types.py`, whether a threat of
a given age has expired (`ShouldExpire`), with and without a siren, from its flying time and the time
a report told (`EtaSeconds`, with its forms). A threat that is not `dated`, because the time of its
report is missing, cannot be parsed or has no zone, never expires. `AlarmPoll` is the loop: three
services with three attempts each, the first answer applied to all regions but the occupied ones and
those in test mode (`TakesPoll`), where a siren's end takes the region's threats along, then the
pruning; if no service answers, neither happens. `Test` and `TestCleared` begin and end test mode,
and so does a report that is no test. The occupied region is not in the instance: nothing ever
happens there.

### HistoryBatch

`LogRow` puts a row into the buffer and starts a timer of 1 s, or, when there are many, cancels it and starts a
thread; `TimerFires`, `Take` (under the lock) and `Write` are the flush.

### ShelterIndex

`LoadStarts`, `GovAnswers`, `OsmAnswers` are a load, whose last step replaces shelters, cells and
lists at once. `Search` gives what it finds, or asks OpenStreetMap for the place; `PlaceAnswers` adds
the answer. `UploadBatch` is the nightly sync, which loads after its last batch. Places are points
of a plane and a cell has a height and a width, since a degree of longitude is shorter; that it is
shorter in the north than in the south, and the region filter of nearby searches, are left out.

### Prediction

`FindPath` is the breadth-first search between two regions a message names; `Propagate` the engine
that scores every neighbour of every threatened region (`Score3000`: alignment with the course,
corridors, learned routes, history), keeps the best offer per region and chooses three. Both run
without an await, so each is one step and its result is what is checked. The search and the table
of the offers are functions of the number of turns their loops have made; the search needs no more
turns than there are regions, each of which is queued once at most. Bearings are whole degrees,
scores 3000ths, in which every term is a whole number; with a corridor or a learned route as its
only boost a threat of the default weight scores exactly the threshold of 0.65, which the floats of the program
miss by rounding, and the types of the instance avoid that. The TLA+ functions and the Python code
agree on all situations of the instance.

### Services

Five services without shared state in one specification: a behaviour is one of one of them
(`service`), so that none multiplies the states of another, and the fairness is that of the one at
work.

## What the runs show

| Run | Instance | Properties |
|---|---|---|
| `FCMOneCaller` | 2 regions, 1 calling thread, 2 timers, no test traffic, fairness | `OwedHasCarrier`, `OwedIsPushed`, `ClearLockReleased` |
| `FCMThreads` | 1 region, 2 calling threads, 3 timers, test traffic | `TypeOK`, `PendingIsLive` |
| `TMAllTraffic` | 2 regions, one occupied, 2 slots, 2 spellings of a group, with and without test traffic | `TypeOK`, `UniqueGroups`, `BackupLagsByOne`, `SirenHasCause` |
| `PDBothWays` | posts one by one, 6 ticks, messages 10 s old, and batches, 3 ticks, messages 20 s old; 1 region, 2 sync tasks, 3 changes | `TypeOK`, `NoRepeatWithinCooldown`, `QueueKeepsOrder`, `OldAlertIsNoDuplicate` |
| `Ingest` | 2 posts, one relevant, scan of 2, first scan of 1, page of 1, 1 crash | `TypeOK`, `Accounted`, `AppliedOnce`, `Applied` |
| `Batch` | 3 messages, 2 relevant, 2 regions, 1 or 2 keys | `TypeOK`, `ThreatsTold`, `EveryKeyTried`, `BatchesKept` |
| `Timers` | 1 region, 2 slots, a reported group, a predicted one, a type without group, 3 messages, 1 restart | `VerdictIsCurrent`, `NoForgottenCard` |
| `EventStore` | 2 cards of a type, one without a group, the siren, 2 writers, 1 extra change, 1 fault | `TypeOK`, `HistoryAlternates`, `OneClearing`, `ClosedOnce`, `ReconcileRestores` |
| `Recovery` | 2 saving threads, 2 backups, 2 changes, 3 jobs, 2 faults | `TypeOK`, `UnsavedHasCarrier`, `StartKeepsSaved`, `StartKeepsBacked` |
| `Services` | see below | `TypeOK`, `RowsHaveCarrier`, `SearchIsExact`, `OsmApart`, `PredictionsSound`, `StaleRulesEnd`, `SirensFollow`, `NoThreatStays` |

The instance of `Services`: 2 learners, 1 reflection, 2 attempts and 1 failure on the rules of kind
`confidence_correction`; 1 region with a siren, tokens for services 1 and 3, 4 threats, one with an unreadable date;
4 history rows of which 2 are many; 2 loads, 1 searcher, 6 searches over 8 shelters; 768 skies over 8
southern oblasts with their real bearings and distances.

- `PendingIsLive`: an entry of `_pending_timers` is a timer of that region that can still be
  cancelled or is about to pop the entry itself.
- `OwedHasCarrier`, `OwedIsPushed`: an alert that is owed has a timer or a call that will push it,
  and is pushed or cleared. The second needs reports for the region to stop, since each restarts
  the pause.
- `ClearLockReleased`: `clear_all` gives its lock back.
- `BackupLagsByOne`, `SirenHasCause`: the backup of the real threats is the present state but for at
  most one card, and no siren outlives its cause, in the state or in the backup. They say nothing of
  a restart, which does not read this backup.
- `UniqueGroups`: no two cards of one group, however its id is spelled.
- `NoRepeatWithinCooldown`: no push is handed on again within its cooldown, whatever thread sends it.
- `QueueKeepsOrder`: what the queue has told of a region is never overtaken by something older, the
  alerts of batches and all else each taken by themselves.
- `OldAlertIsNoDuplicate`: an alert whose message was old enough when it was reported is not taken
  for a duplicate of its own history row. The minimum age is nowhere written down in the code: for a
  post read by itself the window less the pause, for one of a batch, which has no pause, the whole
  window of 20 s. A message that has waited less for its batch is not so old, and a prediction,
  which is dated by its report, never is: their alerts may be dropped.
- `Accounted`, `Applied`: through every switch between client and scraper and over restarts, a
  relevant post that no fault touches is applied or on its way, and is applied in the end.
- `AppliedOnce`: events and scans apply a post once at most, over all restarts, unless an event
  crosses the answer of a scan.
- `ThreatsTold`: batch mode holds back pushes, and yet a threat that stands has had its push,
  unless applying a batch has raised; then its region is in the buffer still.
- `EveryKeyTried`: a batch is given up only after each key has failed for it, whatever key it began
  with, unless a re-evaluation turned the shared index meanwhile.
- `BatchesKept`: `GeminiBatch` implements `MessageBatches`, its liveness included.
- `VerdictIsCurrent`: no verdict on a group is applied that was asked for before a new report of the
  same group. For reports of another group that are merged into the card it does not hold; see
  the known divergences.
- `NoForgottenCard`: whatever timers are cancelled, replaced under another key or lost in a restart,
  a card is cleared or looked at in the end.
- `HistoryAlternates`, `OneClearing`, `ClosedOnce`: no row repeats the one before it and no event has
  two clearings, unless two threads have read the same thing at once (or one broke off); a closed
  event is never touched again, whoever overlaps.
- `ReconcileRestores`: a reconciliation that met no lock, and no row of one of its cards younger than
  15 s, leaves an open event for every card and a card for every open event. Its own "none" row,
  refused where a crash has left one without its clearing, is no excuse.
- `UnsavedHasCarrier`: a state that is neither in the document nor in the file has a timer or a
  thread that has still to take it, unless two saves have overlapped.
- `StartKeepsSaved`, `StartKeepsBacked`: a start brings back the last complete save and the last
  complete backup, but for the cases the formulas name, each of which occurs. A later backup that
  breaks off between its chunks takes nothing away as long as the tables still hold the rows, and
  the formula says so.
- `RowsHaveCarrier`: rows in the buffer have a timer that runs, or a call that will take them.
- `SearchIsExact`, `OsmApart`: a search gives the nearest of all shelters within its radius, though
  it visits few cells and loads run meanwhile; OpenStreetMap's shelters never double another.
- `PredictionsSound`: a path follows borders from one region to the other, none is shorter, and
  none is found only where there is none; the predictions chosen are the
  best whatever the order in which threats are looked at; each is weaker than its source (unless
  low), lasts until its threat is due if that takes two hours at most, and lies ahead of it unless
  a corridor or history says otherwise.
- `StaleRulesEnd`: once the past no longer teaches a raised confidence, it is neither applied nor
  quoted any more, though the learner skips such a key and only the decay can end its rule.
- `SirensFollow`: what a region announces and goes on announcing is what its siren shows in the end,
  as far as the first service that stays up tells it, unless the region is in test mode.
- `NoThreatStays`: every threat whose date can be read ends, if some service stays up.

Two runs in which TLC finds what the repository says to be false:

| Run | Property | What happens |
|---|---|---|
| `FCMLostAlert` | `OwedHasCarrier` | with two calling threads, `clear_threat` (or the end of an alarm) looks at the level a second time, another thread raises an alert and starts its timer, and the first cancels it |
| `RulesCorrection` | `OverestimationLowers` | a key whose predictions were mostly too high is taught -15, with an accuracy below the 60 % the reader wants: the correction is never applied |

**Why the bounds are enough.**

- Regions share only `_clear_lock`, the queue, the throttle and the key index: one or two show every
  interaction. Two callers and two or three timers give an old timer, a new one and one being made.
- Two slots are two cards, of one group or of two.
- In `PDBothWays` three changes make a raise, a repeat and a clearing, or a siren, a threat and the
  end of both; six ticks are longer than each window, and the cooldown of two lets a repeat through.
  `MCPushDelivery` chooses at the start which of the two servers it is. In batches nothing waits for a
  pause, so that three changes, their flushes and a repeat after the cooldown fit into three ticks.
- In `Ingest` two posts let an irrelevant one, or one of a full page, come before or after the
  relevant one; the limits 2, 1 and 1 stand for 20, 5 and a page, so that a post can fall
  behind each; one crash falls between any two steps, and the client comes and goes without bound.
- In `Batch` two keys make the rotation wrap around, one makes it stand still; three messages allow
  a batch, one that waits, and one that comes while a batch waits for its application.
- In `Timers` three messages are a report, one under another key, and a clearing or repeat. A
  restart in between is the one that loses the timers.
  Fires, sirens and cleanups have no bound.
- In `EventStore` two writers interleave statement by statement; two cards of one type, one without
  a group, make every fallback of the search for the original reachable; the fault is a lock or a
  crash anywhere. Where the siren sounds from the start, `MCEventStore` allows a
  fault or an extra change, not both.
- In `Recovery` two changes tell old from new, two faults are a failed call and a crash, or two
  crashes; two chunks and two backups can be mixed; `Few` 1 stands for the 50 rows below
  which a start fills up.
- In `Services` one failure hits any statement of either learner. The rules are of one kind, because kinds do not
  interact but in the order of their statements and two exceed what TLC does in minutes;
  `RulesCorrection` has all six. `AgeStep` 1350 s: a threat's age
  passes every limit up to 2700 s in two steps.

`CHECK_DEADLOCK` is off where a bound on changes, messages, rows or time ends a run, and in
`Services`, whose prediction service stops after one situation.

**Fairness.**

- `FCMScheduler`: a thread inside a call goes on, a started timer fires and its thread runs to the
  end, daemon senders run: weak fairness of the operating system's scheduler, since none of these
  steps waits for anything but a lock held for single dictionary operations. Nobody is obliged to
  start a call.
- `TelegramIngest`: the event loop runs every coroutine that can go on, a pass of the scraper and of
  the watchdog comes round, a batch ends (10 s per key), and a crashed server is started again.
  Nothing obliges the channel to post, the client to reconnect, or a fault to happen.
- `GeminiBatch`: the loop wakes every 30 s, and the call ends after 10 s per key.
- `MonitorTimers`: clear timers fire, each re-evaluation is run and answered, the cleanup loop finds
  some card, and a siren ends some day. Weak fairness of *some* card, not of each: a loop over all
  cards does no more for one that is gone before its turn.
- `RuleLearning`: time passes, a learner that runs goes on and starts again (every 3 h), a
  reflection writes its rule. Failures are bounded.
- `AlarmPoll`: the loop goes on, and threats age. Whether a service answers is open: its two liveness
  properties assume one that stays up.

## What is proved

The proofs hold for any number of regions, threads, timers, slots, group ids, posts, tasks, messages,
keys, changes, rows, loads, searches and crashes, and use only the named assumptions of the modules:
distinct null values; windows and bounds that are naturals, a positive cooldown; limits, pages, cells
and full batches that are positive; points with natural coordinates; notices whose types the code
ranks; a map that lists each neighbour of a region once, with bearings, distances and experience in
whole numbers; past predictions with whole numbers of events. Two things are assumed finite, the writing threads of `EventStore` and the shelters, because
their proofs count or look for a nearest. A theorem with a further hypothesis states it: the instance
of the run meets it.

- `FCMSchedulerProofs`: `TypeCorrect`; `PendingCorrect` (`PendingIsLive`); `OwedCorrect`
  (`OwedHasCarrier`, given one caller and no test traffic, the assumptions of its run).
  `PendingIsLive` is not inductive: a finished `Timer` is reused, so `ThreadInv` adds that the timer
  a caller has still to start has not begun to run and is nobody else's, and that what a call
  pushes agrees with its step. `OwedInv` adds that the one caller, when it is about to cancel a
  timer, still finds the region without a threat, and that what is owed is active: with two
  callers the first of these fails, which is the run `FCMLostAlert`.
- `ThreatManagerProofs`, manager: `TypeCorrect`, `UniqueCorrect`, `BackupCorrect`, `SirenCorrect`, the
  last two without test traffic, when no card is a test card and no region is in test mode.
- `ThreatManagerProofs`, timers: `VerdictCorrect` (`VerdictIsCurrent`, of reports of the group asked about), and the refinement
  `TimersImplementManager`: `TimersSpec => Spec`. Each step of `MonitorTimers` is for the cards one
  call that `ThreatManager` allows, or nothing, so `TimersKeepCards` follows: what the manager
  promises holds whatever timer fires. `TimersInv` adds that a card is of a key a report may have,
  and that the marks of cards are marks of cards that exist.
- `PushDeliveryProofs`: `TypeCorrect`; `NoRepeat` (`NoRepeatWithinCooldown`). `ThroughInv` says that a
  push behind the throttle has marked its key in this very tick, that no other thread behind it has
  that key, and that no key was sent later than it was marked. The first part holds because sending
  ends within the tick; the second because check and mark are one step under `_fcm_dedup_lock`.
  `QueueOrderCorrect` (`QueueKeepsOrder`): `InOrder` says that the queue is sorted by change, the
  worker's push is before all of it, and all it has told of any region is before that.
  `OldAlertCorrect` (`OldAlertIsNoDuplicate`): `OldInv` relates the date of a report to the time its
  alert is taken up, after its pause or with its batch. It needs `LongReported`, that the age of
  every report, for a paused one together with the pause, fills the window of the duplicate check.
  That is the minimum the code does not write down; in seconds, 10 + 10 >= 20, or 20 in a batch.
- `GeminiBatchProofs`: `TypeCorrect`; `ToldCorrect` (`ThreatsTold`, which is inductive as it
  stands); `EveryKeyCorrect` (`EveryKeyTried`), where `FailedInTurn` adds that the keys that have
  failed are an arc of the ring that ends before the key in use, wrapped around or not, and as long
  as the count of attempts says; and `BatchesSafe`, the safety half of the
  refinement: the initial states of `GeminiBatch` are initial states of `MessageBatches` and every
  step is a step of it or a stutter. Its invariant adds that the analyzer is called for a batch
  exactly as long as there is one, so that no result belongs to no batch.
- `TelegramIngestProofs`: `TypeCorrect`, `AccountedCorrect` (`Accounted`), `AppliedOnceCorrect`
  (`AppliedOnce`). `Accounted` says where a post is still to come from, but not that it will be found
  there: `Kept` adds that it is still on the page, that the first pass over the page asks for
  it, and that a server that starts will scan for it. For `AppliedOnce`, `NoneTwice` adds that a
  post is in one place only of events, list, queue and batch, that one that was handled is not ahead
  of the offset, and that the offset has not moved since a scan asked.
- `EventStoreProofs`: `TypeCorrect`, `HistoryCorrect` (`HistoryAlternates`), `OneClearingCorrect`,
  `ClosedOnceCorrect`, `ReconcileCorrect` (`ReconcileRestores`). For the first three `Base` adds that a
  thread about to write a row has read a different last row unless two overlapped, and that an event
  that is still active has no clearing but that of the thread about to close it. For the
  reconciliation, `Closing` is a balance: a clearing may close another event of its group than the
  one it was made for, so not each event but each group is counted, and a group without a card has
  never more active events than clearings to come. `Inserting` says the same of the second pass.
- `RecoveryProofs`: `TypeCorrect`, `CarrierCorrect` (`UnsavedHasCarrier`), `StartKeepsSavedCorrect`,
  `StartKeepsBackedCorrect`. `SavesInv`: an undisturbed save is alone; nothing a start could read or a
  save has taken is older than the last complete save; saves that do not race come one after the
  other, and a change behind the last has started the timer again. `BackupInv`: an undisturbed backup
  is alone and the chunks it wrote are there; what the last complete one kept is in the tables, or
  on the way back from Firestore. The two are independent, and each is kept by the other's steps.
- `ServicesProofs`, history: `HistoryTypeCorrect`; `HistoryCarrierCorrect` (`RowsHaveCarrier`). A timer
  that has fired and is still in the variable blocks the start of another one, so the invariant adds
  that a fired timer has a call that waits for the lock: `timer = "fired" => called > 0`.
- `ServicesProofs`, shelters: `ShelterTypeCorrect` (the cells are `CellsOf(shelters)`, the lists
  `RegionsOf(shelters)`, at all times); `ShelterApartCorrect` (`OsmApart`), from the fact that merging
  one answer keeps apart what it adds, shelter by shelter; `ShelterSearchCorrect` (`SearchIsExact`),
  whose geometry is that coordinates that differ by at most `radius` lie in cells that differ by at
  most `Expand(radius, side)`, for every height and width of a cell. `ExpandDown`, the mutant, is that bound rounded down.
- `ServicesProofs`, sirens and threats: `NoThreatOutlivesLimit` (every dated threat that is old enough is
  expired, after 2700 s at the latest under a siren, for every type and every time told),
  `ExpiryIsFinal` (expiry never goes back as a threat ages or its siren ends), `PollTypeCorrect` (the
  types of the poll) and `AnswerTells` (a service shows a siren exactly where it knows of one, the
  first service the gravest of what it takes from each notice).
- `ServicesProofs`, paths and predictions: `ShortestPath` (what `FindPath` finds is a shortest walk,
  for every map, and where it finds none there is none of any length) and `PredictionsCorrect`
  (`PredictionsSound`). The invariant of the search, `SearchOK`, says that every queued path is a
  shortest one to its end, that the queue is sorted by length with a difference of one at most, and
  that whatever borders on a region that is seen and no longer queued is seen. The regions seen are
  as many as the queued paths and the turns made together, so the search ends in time. For the
  engine, the table holds after each way one offer for each region offered so far, with the best
  score of them (`OfferTable`); of such a table the three taken outdo the rest, by counting ranks
  (`ChosenFacts`), and each one taken has its reason, level and delay (`Plausibly`).
- `ServicesProofs`, rules: the table holds typed rules whatever learners, reflections, locks and
  restarts interleave: values -15, 0 or 10, and other than 0 only for corrections; scores up to 100,
  decayed and rounded. `RulesInv` adds that what a learner has read is exactly one such rule, and
  that the kind it is at is one that is learnt.
- `ServicesTypeCorrect` (`TypeOK`) puts the types of the five services together. In a behaviour of
  `Services` one of them moves, so what is proved of it alone holds there (`EachServiceItsOwn`, a
  lemma that says no more than this).

A loop over a list is proved about without induction over data: the turns after which a fact holds
are a set of numbers, and a set that has the first turn and with each its successor has them all,
because otherwise it would lack a least one. `LeastNumber` is that principle, from the well-founded
order of the naturals; `Turns` is it for loops.

Only model-checked:

- All liveness: `OwedIsPushed`, `ClearLockReleased`, `Applied`, `NoForgottenCard`, `StaleRulesEnd`,
  `SirensFollow`, `NoThreatStays`, and the liveness half of `BatchesKept`. The prover has no rule for
  fairness or `ENABLED` here.
- The two violations, which are counterexamples.

## Known divergences

What was met on the way, in words: no run depends on these, and the models have the code's behaviour.

Pushes and manager. Clearing the tests leaves a siren stuck when a test report was merged into a real
card, switches off the official siren of a region with only test cards, and removes a
card a test made and a real report confirmed. A threat that is pushed, reported again and cleared
within the second pause is cleared silently. `clear_all` announces an all-clear for a threat still in
its pause. The alert of a batch is queued behind an all-clear of the same batch, whichever came first.
An alert of a batch whose message is younger than 20 s, or of a prediction, may be dropped as the
duplicate of its own row, and so may the push of a siren when the sync task has written its row
before the worker takes it: `is_duplicate_event` has no lower bound, though its docstring speaks of
rows 2 to 20 s old (`connection.py:82`). A region in test mode is deaf to the polls until the test is cleared or a
real report comes. A fired timer may remove the entry of the one that followed it, which can then no
longer be cancelled. A report of another type or group that is merged into a card does not end the
re-evaluation of that card: its verdict, on the messages before the report, clears the renewed card
(`telegram_monitor.py:1907`).
`clear_threat` of an unknown group wipes the region. An administrator's restart
(`api/admin/system.py:18`) kills a pending save timer, which loses up to 5 s.

History. A second clearing call falls back to another threat's event. A clearing that names no type
(a re-evaluation, a threat that has flown too long) may fall back to the siren's row, attach itself to it
and write that the siren has ended while it sounds (`analytics_db.py:576-584`, `774-790`). The sync of a card that is gone
is unlinked and closes all active events of the region. The clearing of an official all-clear takes
its own "none" row for its original. "Never write consecutive identical level"
(`analytics_db.py:380`) does not hold when two threads read at once. A retry after a locked insert
is refused as redundant, so the event is missing until a reconciliation. `delete_test_history`
(`database/connection.py:40`) uses a column `paired_events` does not have. The forced update of the
cleanup closes events without a clearing. The sweep at `analytics_db.py:758` overwrites the accuracy
of other events of the region. `flush_history_batch` at `analytics_db.py:869` shadows the one
imported from `threat_logger`, so the monitor's flush after a batch (`telegram_monitor.py:636`) has no
effect.

Persistence. A stale document in Firestore is preferred to a newer file. Overlapping saves can leave
the older state in the document. `load_from_sqlite` brings back threats whose clearing row was lost.
A start without Firebase lays the baseline over the first rows; after a lost disk and a start without
Firestore, the baseline has more than 50 rows, so later starts restore nothing and the next
backup overwrites the cloud. Overlapping chunked backups mix chunks, and a
start with few rows lays the baseline over them then. A backup holds only the newest
rows of each table. `smart_backup` appends all rows each time, and nothing reads its archive.
`local_sqlite_backup` runs only when a backup fails; `local_sqlite_restore` is reached only
through `database/schema.py`, while the server calls `analytics_db.init_analytics_db`.

Sirens, threats, predictions. Tier 1 takes the first grave type of an item, though the comment says
the highest severity (`server.py:115`); the fallback tiers do not see alerts of districts. An
exception in `set_alarm_active` ends the poll task (`server.py:232`). `MAX_FLIGHT_TIMEOUT_SECONDS`
matters only for types without a speed, of which it lists none. Threats told to arrive later than
the longest flight are removed before that. Nothing is pruned while no service answers. A threat whose time of report is missing, cannot be parsed
or has no zone never expires (`missile_lifecycle_service.py:151-159`).
The comment "off-course (>90 degrees)" (`telegram_monitor.py:1081`) stands beside code that means more
than 117. A prediction whose flight takes over two hours is cleared before it is due; predictions that
stand take one of the three places and are not renewed; the boost for a city a message names is
never given, since its column does not exist. Two cards without a group share a re-evaluation.
`normalize_group_id` needs two passes for two numeric suffixes.

Rules and shelters. The README wants three pieces of evidence for a rule where the code takes two, and
a learner every 6 h where the code has 3 h. A post-mortem rule without a source is never found again
and is doubled. An update of a rule by its id is lost if a learner deletes it meanwhile. For some
kinds a lock is swallowed, and the rule is missing until the next run. The shelter load's "retry in 5 min" does not
happen; a refresh without OpenStreetMap drops its shelters; the shelters of the files and of
the government are put together without a look for doubles (`shelter_manager.py:690-694`); the region
filter is applied after the limit; an older load that ends later overwrites a newer one. A search
takes the width of a cell at its own latitude, and may miss a place a little to the north at the very
edge of a wide radius (`shelter_manager.py:109-111`). A retried commit of history rows can double
documents.

## Not modelled

- Prompts and the parsing of model answers, the reading of texts by keywords, texts, titles, sounds
  and topics of pushes, formats of timestamps: they compute data the properties do not tell apart.
- Statistics of the analytics database and of the administration pages, telemetry,
  `validate_prediction_on_alarm`: they read what is modelled here, and write columns nothing here reads.
- The geometry of trajectories beyond bearings and distances, the confidences of predictions,
  districts beside the sirens, caches of files and the schedule of the shelters' refresh.
- `smart_backup`, the local copies of the database and the `.bak` copies of the state file, whose
  loss takes a power failure between two renames.
- `clearing_logger.py` and `threat_logger.log_threat_to_db`, second copies that only tests use;
  `reset_to_real_threats` and `_on_official_alarm_ended`, which nothing calls.
- The API beyond the calls it makes of the manager, the scenarios of `testing/` beyond their calls,
  the ngrok watchdog (it restarts an external process), data classes, scripts and one-off tools.
