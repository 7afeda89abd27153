------------------------------ MODULE EventStore ------------------------------
(***************************************************************************)
(* The tables threat_history, paired_events and threat_clearings of the    *)
(* analytics database, for one region (database/analytics_db.py).          *)
(*                                                                         *)
(* Connections are opened with isolation_level=None: each statement is a   *)
(* transaction of its own, although the functions end in conn.commit().    *)
(* The functions run in pool threads, the event loop and the pruning       *)
(* thread, so an action is one statement.  A statement that finds the      *)
(* database locked starts the function anew, up to five times.             *)
(*                                                                         *)
(* What is recorded are the cards of the manager and the siren.  Levels    *)
(* are reduced to "none" and "high", rows of the history to the last one   *)
(* of each type; where a query takes the newest event, it takes any.  How  *)
(* old an event is is left out: what needs an old one may take any.        *)
(***************************************************************************)
EXTENDS Integers, Sequences, FiniteSets

CONSTANTS Tid,      \* threat ids: each is a card at most once
          TypeOf,   \* threat id -> type
          GidOf,    \* threat id -> group, or NoGid
          NoGid,
          Official, \* the type official_alarm
          ThreatClear, \* the type threat_clear
          Writer,   \* threads
          SirenAtStart, \* a set of Booleans
          MaxExtra, \* bound on the changes of the siren and the events that get old
          MaxFault  \* bound on locked statements and crashes

CardType == {TypeOf[t] : t \in Tid}
Type == CardType \cup {Official, ThreatClear}
Gid == {GidOf[t] : t \in Tid} \cup Tid \cup {NoGid}

ASSUME StoreAssumption ==
  /\ {Official, ThreatClear} \cap CardType = {} /\ Official # ThreatClear /\ NoGid \notin Tid
  /\ SirenAtStart \subseteq BOOLEAN /\ MaxExtra \in Nat /\ MaxFault \in Nat
  /\ IsFiniteSet(Writer)

None == 0          \* no event
Alarm == -1        \* the original of a clearing is a row of the siren
Forced == -2       \* closed by age

VARIABLES came,     \* threat ids that have become cards
          cards,    \* those that still are
          siren,
          last,     \* type -> level of its last row, "" for no row
          alarmRows, \* rows of the siren that no clearing refers to
          events,   \* paired_events: [type, gid, active, by]
          clearings, \* event -> rows of threat_clearings with this original
          pending,  \* calls that threads have still to run
          run,      \* writer -> the call it runs, its statement, the original
                    \*   found, the type of the row it writes
          phase,    \* "run", or reconciling: "close", "insert", and what is left to do,
                    \*   or "over"
          extras, faults,
          doubled, overlapped,  \* types with two rows that say the same; types
                                \*   whose last row two calls read at the same time
          disturbed, \* events that two clearings found at the same time, or whose
                     \*   clearing broke off before it closed them
          missed    \* reconciling: a lock, or for a card the rule of the 15 s,
                    \*   has kept it from putting something right

marks == <<doubled, overlapped, disturbed, missed>>
ram == <<came, cards, siren>>
tables == <<last, alarmRows, events, clearings>>
counters == <<extras, faults>>
vars == <<ram, tables, pending, run, phase, counters, marks>>

EventIds == DOMAIN events
Active == {e \in EventIds : events[e].active}
TypeActive(ty) == {e \in Active : events[e].type = ty}
GidActive(g) == {e \in Active : g # NoGid /\ events[e].gid = g}

(* The calls: log_threat_to_db for a card, log_clearing_to_db from         *)
(* clear_threat, the pruning thread or an old event, and what the sync     *)
(* task does for a card that is gone and for the siren.                    *)
Call == [kind : {"open", "clear", "prune", "gone", "stale", "on", "off"},
         type : CardType \cup {Official}, gid : Gid]
Idle == [call |-> [kind |-> "none"], pc |-> "idle", found |-> None]

TypeOK ==
  /\ cards \subseteq came /\ came \subseteq Tid
  /\ siren \in BOOLEAN
  /\ last \in [Type -> {"", "none", "high"}]
  /\ alarmRows \in Nat
  /\ \A e \in EventIds :
       /\ events[e] \in [type : CardType, gid : Gid, active : BOOLEAN,
                         by : {None, Alarm, Forced} \cup EventIds]
       /\ events[e].active <=> events[e].by = None
  /\ clearings \in [EventIds -> Nat]
  /\ pending \subseteq Call
  /\ \A w \in Writer : \/ run[w] = Idle
                       \/ /\ run[w].call \in Call
                          /\ run[w].pc \in {"read", "row", "event", "find", "clearing", "close", "sweep"}
                          /\ run[w].found \in EventIds \cup {None, Alarm}
                          /\ run[w].row \in Type
  /\ doubled \cup overlapped \subseteq Type /\ disturbed \subseteq EventIds
  /\ missed \in BOOLEAN
  /\ phase.name \in {"run", "close", "insert", "over"}
  /\ extras \in 0..MaxExtra /\ faults \in 0..MaxFault

Init ==
  /\ came = {} /\ cards = {} /\ siren \in SirenAtStart
  /\ last = [ty \in Type |-> IF ty = Official /\ siren THEN "high" ELSE ""]
  /\ alarmRows = (IF siren THEN 1 ELSE 0)
  /\ events = <<>> /\ clearings = <<>>
  /\ pending = {} /\ run = [w \in Writer |-> Idle]
  /\ phase = [name |-> "run", todo |-> {}]
  /\ extras = 0 /\ faults = 0
  /\ doubled = {} /\ overlapped = {} /\ disturbed = {} /\ missed = FALSE

-----------------------------------------------------------------------------
(* The manager.                                                            *)

CallOf(kind, t) == [kind |-> kind, type |-> TypeOf[t], gid |-> GidOf[t]]
SirenCall(kind) == [kind |-> kind, type |-> Official, gid |-> NoGid]

Running == phase.name = "run"

Appear(t) ==
  /\ Running /\ t \notin came
  /\ came' = came \cup {t} /\ cards' = cards \cup {t}
  /\ pending' = pending \cup {CallOf("open", t)}
  /\ UNCHANGED <<siren, tables, run, phase, counters, marks>>

(* The pruning thread runs the calls of prune_expired_missile_threats and  *)
(* of the cleanup one after the other.                                     *)
PrunerBusy ==
  \E c \in pending \cup {run[w].call : w \in Writer} : c.kind \in {"prune", "stale"}

(* clear_threat removes the card, logs a clearing and lets the sync task   *)
(* find it gone.  The pruning thread logs one of its own before all that.  *)
Vanish(t, kind) ==
  /\ Running /\ t \in cards
  /\ kind = "prune" => ~PrunerBusy
  /\ cards' = cards \ {t}
  /\ pending' = pending \cup {CallOf(kind, t)}
  /\ UNCHANGED <<came, siren, tables, run, phase, counters, marks>>

Siren ==
  /\ Running /\ extras < MaxExtra
  /\ siren' = ~siren /\ extras' = extras + 1
  /\ pending' = pending \cup {SirenCall(IF siren THEN "off" ELSE "on")}
  /\ UNCHANGED <<came, cards, tables, run, phase, faults, marks>>

-----------------------------------------------------------------------------
(* The calls and their statements.                                         *)

At(w, pc) == run[w].pc = pc
Goto(w, pc) == run' = [run EXCEPT ![w].pc = pc]

(* Calls that begin with a row of the history; the others end with one.    *)
RowFirst == {"open", "on", "off", "gone"}

Start(c) == [call |-> c, found |-> None, row |-> c.type,
             pc |-> IF c.kind \in RowFirst THEN "read" ELSE "find"]

(* Pruning is followed by clear_threat, and that by the sync.              *)
Done(w) ==
  LET c == run[w].call
      next == CASE c.kind = "prune" -> Start([c EXCEPT !.kind = "clear"])
                [] c.kind = "clear" -> Start([c EXCEPT !.kind = "gone"])
                [] OTHER -> Idle
  IN  run' = [run EXCEPT ![w] = next]

Begin(w) ==
  /\ run[w] = Idle
  /\ \E c \in pending :
       /\ pending' = pending \ {c}
       /\ run' = [run EXCEPT ![w] = Start(c)]
  /\ UNCHANGED <<ram, tables, phase, counters, marks>>

(* The row is written, or needs not be.                                    *)
AfterRow(w) == IF run[w].call.kind \in {"gone", "off"} THEN Goto(w, "find") ELSE Done(w)

(* The clearing is written: it gets a row, unless the sync has logged it.  *)
AfterClearing(w) == IF run[w].call.kind \in RowFirst THEN Done(w) ELSE Goto(w, "read")

-----------------------------------------------------------------------------
(* log_threat_to_db.                                                       *)

Level(c) == IF c.kind \in {"open", "on"} THEN "high" ELSE "none"

(* Fault: the rule of the 15 s alone.                                      *)
RefusedByAge(ty, level) == IF last[ty] = level THEN BOOLEAN ELSE {FALSE}

(* Whether a row would be redundant.  One of the same level is, for 15 s,  *)
(* and for the siren and for "none" at any time.                           *)
Refused(ty, level) ==
  CASE last[ty] # level -> {FALSE}
    [] last[ty] = level /\ (ty = Official \/ level = "none") -> {TRUE}
    [] OTHER -> BOOLEAN

ReadLast(w) ==
  /\ At(w, "read")
  /\ LET c == run[w].call
         ty == run[w].row
         others == {v \in Writer \ {w} : At(v, "row") /\ run[v].row = ty}
     IN  \E refused \in Refused(ty, Level(c)) :
           IF refused
             THEN /\ AfterRow(w)
                  /\ missed' = (missed \/ (~Running /\ c.kind = "open"))
                  /\ UNCHANGED overlapped
             ELSE /\ Goto(w, "row")
                  /\ overlapped' = overlapped \cup (IF others = {} THEN {} ELSE {ty})
                  /\ UNCHANGED missed
  /\ UNCHANGED <<ram, tables, pending, phase, counters, doubled, disturbed>>

InsertRow(w) ==
  /\ At(w, "row")
  /\ LET c == run[w].call
         ty == run[w].row
     IN  /\ last' = [last EXCEPT ![ty] = Level(c)]
         /\ alarmRows' = alarmRows + (IF ty = Official THEN 1 ELSE 0)
         /\ doubled' = IF last[ty] = Level(c) /\ (ty = Official \/ Level(c) = "none")
                         THEN doubled \cup {ty} ELSE doubled
         /\ IF c.kind = "open" THEN Goto(w, "event") ELSE AfterRow(w)
  /\ UNCHANGED <<ram, events, clearings, pending, phase, counters, overlapped, disturbed, missed>>

InsertEvent(w) ==
  /\ At(w, "event")
  /\ events' = Append(events, [type |-> run[w].call.type, gid |-> run[w].call.gid,
                               active |-> TRUE, by |-> None])
  /\ clearings' = Append(clearings, 0)
  /\ Done(w)
  /\ UNCHANGED <<ram, last, alarmRows, pending, phase, counters, marks>>

-----------------------------------------------------------------------------
(* log_clearing_to_db.                                                     *)

(* The sync does not pass the group on.                                    *)
Linked(c) == c.kind \in {"clear", "prune", "stale"} /\ c.gid # NoGid

(* Fault: cleared events are found again.                                  *)
CandidatesAny(c, known) ==
  LET same == {e \in EventIds : events[e].type = c.type}
  IN  IF known /\ same # {} THEN same ELSE Active

(* The original of a clearing: an event of its group, else of its type,    *)
(* else a row of the siren, else any event of the region.                  *)
Candidates(c, known) ==
  IF Linked(c) /\ GidActive(c.gid) # {} THEN GidActive(c.gid)
  ELSE IF known /\ c.type # Official /\ TypeActive(c.type) # {} THEN TypeActive(c.type)
  ELSE IF (~known \/ c.type = Official) /\ alarmRows > 0 THEN {Alarm}
  ELSE Active

(* The type of the clearing's row in the history: without a type it is     *)
(* that of the original, but for a siren "threat_clear" if the text speaks *)
(* of a threat.                                                            *)
SavedTypes(c, known, e) ==
  IF known THEN {c.type} ELSE IF e = Alarm THEN {Official, ThreatClear} ELSE {events[e].type}

(* The pruning thread passes no type: it may be found in the text.         *)
Find(w) ==
  /\ At(w, "find")
  /\ \E known \in IF run[w].call.kind = "prune" THEN BOOLEAN ELSE {TRUE} :
       LET found == Candidates(run[w].call, known)
       IN  \/ /\ found = {}
              /\ Done(w)
              /\ UNCHANGED disturbed
           \/ \E e \in found : \E row \in SavedTypes(run[w].call, known, e) :
                /\ run' = [run EXCEPT ![w].pc = "clearing", ![w].found = e, ![w].row = row]
                /\ disturbed' = IF e # Alarm /\ \E v \in Writer \ {w} :
                                     run[v].found = e /\ run[v].pc \in {"clearing", "close"}
                                  THEN disturbed \cup {e} ELSE disturbed
  /\ UNCHANGED <<ram, tables, pending, phase, counters, doubled, overlapped, missed>>

InsertClearing(w) ==
  /\ At(w, "clearing")
  /\ IF run[w].found = Alarm
       THEN /\ alarmRows' = IF alarmRows > 0 THEN alarmRows - 1 ELSE 0
            /\ UNCHANGED clearings
       ELSE /\ clearings' = [clearings EXCEPT ![run[w].found] = @ + 1]
            /\ UNCHANGED alarmRows
  /\ Goto(w, "close")
  /\ UNCHANGED <<ram, last, events, pending, phase, counters, marks>>

(* Fault: an event is closed without naming its clearing.                  *)
ClosedUnnamed(e, by) == [events[e] EXCEPT !.active = FALSE]

Closed(e, by) == [events[e] EXCEPT !.active = FALSE, !.by = by]

CloseAll(E, by) ==
  events' = [e \in EventIds |-> IF e \in E THEN Closed(e, by) ELSE events[e]]

(* The statement asks again whether the event is active.                   *)
Close(w) ==
  /\ At(w, "close")
  /\ CloseAll({run[w].found} \cap Active, run[w].found)
  /\ IF Linked(run[w].call) THEN AfterClearing(w) ELSE Goto(w, "sweep")
  /\ UNCHANGED <<ram, last, alarmRows, clearings, pending, phase, counters, marks>>

(* Fault: also what is closed.                                             *)
SweepAny == EventIds

Sweepable == Active

(* Without a group, "hanging" events are closed too: all of the region.    *)
Sweep(w) ==
  /\ At(w, "sweep")
  /\ CloseAll(Sweepable, run[w].found)
  /\ AfterClearing(w)
  /\ UNCHANGED <<ram, last, alarmRows, clearings, pending, phase, counters, marks>>

Statement(w) ==
  \/ Begin(w) \/ ReadLast(w) \/ InsertRow(w) \/ InsertEvent(w)
  \/ Find(w) \/ InsertClearing(w) \/ Close(w) \/ Sweep(w)

(* The database is locked: the function starts anew, or gives up.          *)
Locked(w) ==
  /\ run[w] # Idle /\ faults < MaxFault
  /\ faults' = faults + 1
  /\ disturbed' = IF At(w, "close") /\ run[w].found # Alarm
                    THEN disturbed \cup {run[w].found} ELSE disturbed
  /\ missed' = (missed \/ ~Running)
  /\ IF run[w].pc \in {"read", "row", "event"}
       THEN Goto(w, "read") \/ AfterRow(w)
       ELSE Goto(w, "find") \/ Done(w)
  /\ UNCHANGED <<ram, tables, pending, phase, extras, doubled, overlapped>>

-----------------------------------------------------------------------------
(* cleanup_stale_paired_events.                                            *)

StaleCall(e) == [kind |-> "stale", type |-> events[e].type, gid |-> events[e].gid]

(* Events older than two hours are cleared: any may be.                    *)
CleanUp ==
  /\ Running /\ ~PrunerBusy
  /\ extras < MaxExtra /\ extras' = extras + 1
  /\ \E e \in Active : pending' = pending \cup {StaleCall(e)}
  /\ UNCHANGED <<ram, tables, run, phase, faults, marks>>

(* What that has not closed is closed without a clearing after three.      *)
ForceClose ==
  /\ Running /\ ~PrunerBusy
  /\ extras < MaxExtra /\ extras' = extras + 1
  /\ \E e \in Active : CloseAll({e}, Forced)
  /\ UNCHANGED <<ram, last, alarmRows, clearings, pending, run, phase, faults, marks>>

-----------------------------------------------------------------------------
(* A crash, and reconcile_active_threats_with_db after the restart, before *)
(* anything else writes.  With it the model ends.                          *)

Crash ==
  /\ faults < MaxFault /\ Running
  /\ faults' = faults + 1
  /\ cards' \in SUBSET came
  /\ pending' = {} /\ run' = [w \in Writer |-> Idle]
  /\ phase' = [name |-> "close", todo |-> Active]
  /\ missed' = FALSE
  /\ disturbed' = disturbed
       \cup ({run[w].found : w \in {v \in Writer : At(v, "close")}} \ {Alarm})
  /\ UNCHANGED <<came, siren, tables, extras, doubled, overlapped>>

(* A card without a group is entered under its threat id.                  *)
DbGid(t) == IF GidOf[t] = NoGid THEN t ELSE GidOf[t]

(* Fault: a card of the type will do.                                      *)
MatchesType(e, t) == TypeOf[t] = events[e].type

Matches(e, t) ==
  DbGid(t) = events[e].gid \/ (TypeOf[t] = events[e].type /\ events[e].gid = NoGid)

Quiet == pending = {} /\ \A w \in Writer : run[w] = Idle

(* The events were read before: one that an earlier call has closed is     *)
(* cleared again, and the call takes another one.                          *)
ReconcileClose ==
  /\ phase.name = "close" /\ Quiet
  /\ IF phase.todo = {}
       THEN phase' = [name |-> "insert", todo |-> cards] /\ UNCHANGED pending
       ELSE \E e \in phase.todo :
              /\ phase' = [phase EXCEPT !.todo = @ \ {e}]
              /\ pending' = IF \E t \in cards : Matches(e, t) THEN {} ELSE {StaleCall(e)}
  /\ UNCHANGED <<ram, tables, run, counters, marks>>

ReconcileInsert ==
  /\ phase.name = "insert" /\ Quiet
  /\ IF phase.todo = {}
       THEN phase' = [name |-> "over", todo |-> {}] /\ UNCHANGED pending
       ELSE \E t \in phase.todo :
              /\ phase' = [phase EXCEPT !.todo = @ \ {t}]
              /\ pending' = IF GidActive(DbGid(t)) # {} THEN {}
                              ELSE {[CallOf("open", t) EXCEPT !.gid = DbGid(t)]}
  /\ UNCHANGED <<ram, tables, run, counters, marks>>

-----------------------------------------------------------------------------
Next ==
  \/ \E t \in Tid : Appear(t) \/ \E kind \in {"clear", "prune"} : Vanish(t, kind)
  \/ Siren
  \/ \E w \in Writer : Statement(w) \/ Locked(w)
  \/ CleanUp \/ ForceClose
  \/ Crash \/ ReconcileClose \/ ReconcileInsert

Spec == Init /\ [][Next]_vars

-----------------------------------------------------------------------------
(* Properties.                                                             *)

(* "Never write consecutive": no two rows of one type say that the siren   *)
(* is as it was, or that there is still no threat, unless two threads read *)
(* the last row at the same time.                                          *)
HistoryAlternates == doubled \subseteq overlapped

(* An event has one clearing at most, however many calls the pruning, the  *)
(* manager, the sync and the cleanup make for one threat, unless two of    *)
(* them found it at the same time or one broke off.                        *)
OneClearing == \A e \in EventIds \ disturbed : clearings[e] <= 1

(* A closed event is never touched again: no later clearing takes it over. *)
ClosedOnce ==
  [][\A e \in EventIds : ~events[e].active => events'[e].active = FALSE /\ events'[e].by = events[e].by]_vars

(* Whatever a crash has left, a reconciliation that met no lock, and for   *)
(* which no card had a row younger than 15 s, ends with an open event for  *)
(* every card and a card for every open event.                             *)
Mirrored ==
  /\ \A t \in cards : GidActive(DbGid(t)) # {}
  /\ \A e \in Active : \E t \in cards : \/ DbGid(t) = events[e].gid
                                        \/ TypeOf[t] = events[e].type /\ events[e].gid = NoGid
ReconcileRestores ==
  [][phase.name = "insert" /\ phase'.name = "over" /\ ~missed => Mirrored]_vars
=============================================================================
