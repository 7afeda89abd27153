--------------------------- MODULE EventStoreProofs ---------------------------
(***************************************************************************)
(* The tables say of the threats what they should, for any number of       *)
(* threads, threat ids, groups and types, and of locked statements; and    *)
(* the reconciliation after a crash makes them agree with the cards.       *)
(***************************************************************************)
EXTENDS EventStore, TLAPS, FiniteSetTheorems, SequenceTheorems

-----------------------------------------------------------------------------
(* The inductive invariant.                                                *)

Statements == {"read", "row", "event", "find", "clearing", "close", "sweep"}

Event == [type : CardType, gid : Gid, active : BOOLEAN, by : Int]

Started == [call : Call, pc : Statements, found : Nat \cup {Alarm}, row : Type]

Busy(w) == run[w] # Idle

(* The siren's calls are of its type, and only they are.                   *)
CallOK(c) ==
  /\ c \in Call
  /\ c.type = Official <=> c.kind \in {"on", "off"}
  /\ c.type = Official => c.gid = NoGid

(* An event is inserted for a card; a clearing has found an original.      *)
RunOK(r, ids) ==
  /\ CallOK(r.call) /\ r.found \in ids \cup {None, Alarm}
  /\ r.pc = "event" => r.call.kind = "open"
  /\ r.pc \in {"find", "clearing", "close", "sweep"} => r.call.kind \notin {"open", "on"}
  /\ r.pc \in {"clearing", "close", "sweep"} => r.found # None

EventsShape ==
  /\ events \in Seq(Event) /\ clearings \in Seq(Nat) /\ Len(clearings) = Len(events)
  /\ \A e \in EventIds : /\ events[e].by \in {None, Alarm, Forced} \cup EventIds
                         /\ events[e].active <=> events[e].by = None

RunsShape ==
  /\ run \in [Writer -> Started \cup {Idle}]
  /\ \A w \in Writer : Busy(w) => RunOK(run[w], EventIds)
  /\ \A c \in pending : CallOK(c)

Shape ==
  /\ cards \subseteq came /\ came \subseteq Tid /\ siren \in BOOLEAN
  /\ last \in [Type -> {"", "none", "high"}] /\ alarmRows \in Nat
  /\ doubled \subseteq Type /\ overlapped \subseteq Type /\ disturbed \subseteq EventIds
  /\ missed \in BOOLEAN /\ extras \in 0..MaxExtra /\ faults \in 0..MaxFault

PhaseShape ==
  /\ phase = [name |-> phase.name, todo |-> phase.todo]
  /\ phase.name \in {"run", "close", "insert", "over"}
  /\ phase.name = "close" => phase.todo \subseteq EventIds
  /\ phase.name = "insert" => phase.todo \subseteq cards

(* A row that is about to be written is not redundant, unless two calls    *)
(* have read the same last row.                                            *)
Writing(w, ty) == At(w, "row") /\ run[w].row = ty

RowsFresh ==
  /\ \A v, w \in Writer, ty \in Type : v # w /\ Writing(v, ty) /\ Writing(w, ty) => ty \in overlapped
  /\ \A w \in Writer, ty \in Type :
       Writing(w, ty) /\ (ty = Official \/ Level(run[w].call) = "none") =>
         last[ty] # Level(run[w].call) \/ ty \in overlapped

(* An event that is still active has no clearing but that of the thread    *)
(* that is about to close it.                                              *)
Clearing(w, e) == run[w].pc \in {"clearing", "close"} /\ run[w].found = e

ClearingsFew ==
  \A e \in EventIds \ disturbed :
    /\ clearings[e] <= 1
    /\ \A v, w \in Writer : Clearing(v, e) /\ Clearing(w, e) => v = w
    /\ \A w \in Writer : Clearing(w, e) /\ At(w, "clearing") => clearings[e] = 0
    /\ events[e].active /\ clearings[e] # 0 => \E w \in Writer : Clearing(w, e) /\ At(w, "close")

(* The reconciliation makes one call after the other.                      *)
OfPhase(c) ==
  \/ phase.name = "close" /\ c.kind = "stale"
  \/ phase.name = "insert" /\ c.kind = "open"

OneCall ==
  ~Running =>
    /\ \A c, d \in pending : c = d
    /\ \A v, w \in Writer : Busy(v) /\ Busy(w) => v = w
    /\ \A w \in Writer : Busy(w) => pending = {}
    /\ \A c \in pending : OfPhase(c)
    /\ \A w \in Writer : Busy(w) => OfPhase(run[w].call)

(* A clearing of group g is to come; one without a group is.               *)
ClosingOf(g) ==
  \/ \E c \in pending : c.gid = g
  \/ \E w \in Writer : /\ run[w].pc \in {"find", "clearing", "close"}
                       /\ run[w].call.gid = g

Sweeping ==
  \/ \E c \in pending : c.gid = NoGid
  \/ \E w \in Writer : /\ run[w].pc \in {"find", "clearing", "close", "sweep"}
                       /\ run[w].call.gid = NoGid

TodoOf(g) == {e \in phase.todo : events[e].gid = g}

Carded(g) == \E t \in cards : DbGid(t) = g

(* While events without a card are cleared, a group has no more active     *)
(* events than clearings are to come, although a clearing may take another *)
(* event of the group than the one it was made for.                        *)
GroupsClear ==
  \A g \in Gid \ {NoGid} : ~Carded(g) =>
    Cardinality(GidActive(g)) <= Cardinality(TodoOf(g)) + (IF ClosingOf(g) THEN 1 ELSE 0)

FindsItsGroup ==
  \A w \in Writer : run[w].pc \in {"clearing", "close"} /\ run[w].call.gid # NoGid =>
    LET g == run[w].call.gid IN run[w].found \in GidActive(g) \/ GidActive(g) = {}

RestClears ==
  \A e \in Active : events[e].gid = NoGid /\ ~(\E t \in cards : Matches(e, t)) =>
    e \in phase.todo \/ Sweeping

Closing == phase.name = "close" /\ ~missed => GroupsClear /\ FindsItsGroup /\ RestClears

(* Then the cards that have no event get one.                              *)
OpenComing(g) ==
  \/ \E c \in pending : c.gid = g
  \/ \E w \in Writer : Busy(w) /\ run[w].call.gid = g

Inserting ==
  phase.name = "insert" /\ ~missed =>
    /\ \A e \in Active : \E t \in cards : Matches(e, t)
    /\ \A t \in cards \ phase.todo : GidActive(DbGid(t)) # {} \/ OpenComing(DbGid(t))
    /\ \A c \in pending : Carded(c.gid)
    /\ \A w \in Writer : Busy(w) => Carded(run[w].call.gid)

Base ==
  /\ Shape /\ EventsShape /\ RunsShape /\ PhaseShape
  /\ RowsFresh /\ HistoryAlternates
  /\ ClearingsFew /\ OneCall

IInv == Base /\ Closing /\ Inserting

-----------------------------------------------------------------------------
(* What a step does to the thread that takes it.                           *)

(* w has taken a step, no other thread has.                                *)
Turned(w) ==
  /\ run' \in [Writer -> Started \cup {Idle}]
  /\ \A v \in Writer \ {w} : run'[v] = run[v]

Went(w, pc) ==
  /\ Turned(w)
  /\ run'[w] # Idle /\ run'[w].pc = pc
  /\ run'[w].call = run[w].call /\ run'[w].found = run[w].found /\ run'[w].row = run[w].row

(* A call is over, or followed by another for the same threat.             *)
Ended(w) ==
  /\ Turned(w)
  /\ \/ run'[w] = Idle
     \/ /\ run'[w] # Idle /\ run'[w].found = None
        /\ run'[w].call.type = run[w].call.type /\ run'[w].call.gid = run[w].call.gid
        /\ \/ run[w].call.kind = "prune" /\ run'[w].call.kind = "clear" /\ run'[w].pc = "find"
           \/ run[w].call.kind = "clear" /\ run'[w].call.kind = "gone" /\ run'[w].pc = "read"

LEMMA IdleFields == Idle.pc = "idle" /\ Idle.found = None /\ Idle \notin Started
  BY DEF Idle, Started, Statements

LEMMA BusyFields ==
  ASSUME RunsShape, NEW w \in Writer, Busy(w)
  PROVE  /\ run[w] \in Started /\ run[w].call \in Call /\ run[w].pc \in Statements
         /\ run[w].found \in Nat \cup {Alarm} /\ CallOK(run[w].call) /\ run[w].row \in Type
         /\ run[w] = [call |-> run[w].call, pc |-> run[w].pc, found |-> run[w].found,
                      row |-> run[w].row]
<1>1. run[w] \in Started
  BY DEF RunsShape, Busy
<1>2. CallOK(run[w].call)
  BY DEF RunsShape, RunOK
<1> QED  BY <1>1, <1>2 DEF Started

LEMMA StatementIsBusy ==
  ASSUME RunsShape, NEW w \in Writer, run[w].pc \in Statements
  PROVE  Busy(w)
  BY IdleFields DEF Busy, Statements

LEMMA GotoIs ==
  ASSUME RunsShape, NEW w \in Writer, Busy(w), NEW pc \in Statements, Goto(w, pc)
  PROVE  Went(w, pc)
<1> DEFINE r == [call |-> run[w].call, pc |-> pc, found |-> run[w].found, row |-> run[w].row]
<1>1. run' = [run EXCEPT ![w] = [run[w] EXCEPT !.pc = pc]]
  BY DEF Goto
<1>2. [run[w] EXCEPT !.pc = pc] = r
  <2>1. run[w] \in Started
    BY BusyFields
  <2>2. PICK c \in Call, p \in Statements, f \in Nat \cup {Alarm}, ty \in Type :
           run[w] = [call |-> c, pc |-> p, found |-> f, row |-> ty]
    BY <2>1 DEF Started
  <2> QED  BY <2>2
<1>3. r \in Started
  BY BusyFields DEF Started
<1>4. r # Idle
  BY <1>3, IdleFields
<1>5. r.pc = pc /\ r.call = run[w].call /\ r.found = run[w].found /\ r.row = run[w].row
  OBVIOUS
<1> HIDE DEF r
<1>6. run' = [run EXCEPT ![w] = r] /\ run \in [Writer -> Started \cup {Idle}]
  BY <1>1, <1>2 DEF RunsShape
<1> QED  BY <1>3, <1>4, <1>5, <1>6 DEF Went, Turned

LEMMA DoneIs ==
  ASSUME RunsShape, NEW w \in Writer, Busy(w), Done(w)
  PROVE  Ended(w)
<1> DEFINE c == run[w].call
           next == CASE c.kind = "prune" -> Start([c EXCEPT !.kind = "clear"])
                     [] c.kind = "clear" -> Start([c EXCEPT !.kind = "gone"])
                     [] OTHER -> Idle
<1>1. run' = [run EXCEPT ![w] = next] /\ run \in [Writer -> Started \cup {Idle}]
  BY DEF Done, RunsShape
<1>2. c \in Call /\ c.type \in Type
  BY BusyFields DEF Call, Type
<1> HIDE DEF c
<1>3. ASSUME NEW k \in {"clear", "gone"}
      PROVE  /\ [c EXCEPT !.kind = k] \in Call
             /\ [c EXCEPT !.kind = k] = [kind |-> k, type |-> c.type, gid |-> c.gid]
  BY <1>2 DEF Call
<1>4. CASE c.kind = "prune"
  <2>1. next = [call |-> [kind |-> "clear", type |-> c.type, gid |-> c.gid],
                found |-> None, row |-> c.type, pc |-> "find"]
    BY <1>3, <1>4 DEF Start, RowFirst
  <2>2. next \in Started
    BY <1>2, <1>3, <2>1 DEF Started, Statements, None
  <2>3. run'[w] = next /\ next # Idle
    BY <1>1, <2>2, IdleFields
  <2> QED  BY <1>1, <1>4, <2>1, <2>2, <2>3 DEF Ended, Turned, c
<1>5. CASE c.kind = "clear"
  <2>1. next = [call |-> [kind |-> "gone", type |-> c.type, gid |-> c.gid],
                found |-> None, row |-> c.type, pc |-> "read"]
    BY <1>3, <1>5 DEF Start, RowFirst
  <2>2. next \in Started
    BY <1>2, <1>3, <2>1 DEF Started, Statements, None
  <2>3. run'[w] = next /\ next # Idle
    BY <1>1, <2>2, IdleFields
  <2> QED  BY <1>1, <1>5, <2>1, <2>2, <2>3 DEF Ended, Turned, c
<1>6. CASE c.kind \notin {"prune", "clear"}
  <2>1. next = Idle
    BY <1>6
  <2> QED  BY <1>1, <2>1 DEF Ended, Turned
<1> QED  BY <1>4, <1>5, <1>6

(* After a row of w: a clearing, or the end of the call.                   *)
LEMMA AfterRowIs ==
  ASSUME RunsShape, NEW w \in Writer, Busy(w), AfterRow(w)
  PROVE  \/ run[w].call.kind \in {"gone", "off"} /\ Went(w, "find")
         \/ run[w].call.kind \notin {"gone", "off"} /\ Ended(w)
  BY GotoIs, DoneIs DEF AfterRow, Statements

LEMMA AfterClearingIs ==
  ASSUME RunsShape, NEW w \in Writer, Busy(w), AfterClearing(w)
  PROVE  \/ run[w].call.kind \in RowFirst /\ Ended(w)
         \/ run[w].call.kind \notin RowFirst /\ Went(w, "read")
  BY GotoIs, DoneIs DEF AfterClearing, Statements

(* The calls stay well formed when w has gone on where it may, or ended.   *)
LEMMA WentKeepsRuns ==
  ASSUME RunsShape, NEW w \in Writer, Busy(w), NEW pc, Went(w, pc), EventIds \subseteq EventIds',
         pending' = pending,
         pc = "event" => run[w].call.kind = "open",
         pc \in {"find", "clearing", "close", "sweep"} => run[w].call.kind \notin {"open", "on"},
         pc \in {"clearing", "close", "sweep"} => run[w].found # None
  PROVE  RunsShape'
<1>1. RunOK(run[w], EventIds)
  BY DEF RunsShape
<1>2. RunOK(run'[w], EventIds')
  BY <1>1 DEF RunOK, Went
<1>3. \A v \in Writer \ {w} : run'[v] # Idle => RunOK(run'[v], EventIds')
  BY DEF RunsShape, Busy, RunOK, Went, Turned
<1> QED  BY <1>2, <1>3 DEF RunsShape, Busy, Went, Turned

LEMMA EndedKeepsRuns ==
  ASSUME RunsShape, NEW w \in Writer, Busy(w), Ended(w), EventIds \subseteq EventIds', pending' = pending
  PROVE  RunsShape'
<1>1. CallOK(run[w].call)
  BY BusyFields
<1>2. ASSUME run'[w] # Idle PROVE RunOK(run'[w], EventIds')
  <2>1. run'[w] \in Started
    BY <1>2 DEF Ended, Turned
  <2>2. run'[w].call \in Call
    BY <2>1 DEF Started
  <2> QED  BY <1>1, <1>2, <2>2 DEF Ended, RunOK, CallOK
<1>3. \A v \in Writer \ {w} : run'[v] # Idle => RunOK(run'[v], EventIds')
  BY DEF RunsShape, Busy, RunOK, Ended, Turned
<1> QED  BY <1>2, <1>3 DEF RunsShape, Busy, Ended, Turned

LEMMA SameKeepsRuns ==
  ASSUME RunsShape, run' = run, EventIds \subseteq EventIds', \A c \in pending' : CallOK(c)
  PROVE  RunsShape'
  BY DEF RunsShape, Busy, RunOK

-----------------------------------------------------------------------------
(* What a step does to the events.                                         *)

LEMMA EventsBasic ==
  ASSUME EventsShape
  PROVE  /\ Len(events) \in Nat /\ EventIds = 1..Len(events)
         /\ DOMAIN clearings = EventIds /\ IsFiniteSet(EventIds)
         /\ \A e \in EventIds : events[e] \in Event /\ clearings[e] \in Nat
         /\ None \notin EventIds /\ Alarm \notin EventIds /\ Forced \notin EventIds
<1>1. /\ Len(events) \in Nat /\ EventIds = 1..Len(events)
      /\ DOMAIN clearings = EventIds
      /\ \A e \in EventIds : events[e] \in Event /\ clearings[e] \in Nat
  BY LenProperties, ElementOfSeq DEF EventsShape, EventIds
<1>2. IsFiniteSet(EventIds)
  BY <1>1, FS_Interval
<1> QED  BY <1>1, <1>2 DEF None, Alarm, Forced

(* The events of E are closed, the others are as they were.                *)
ClosedAre(E) ==
  /\ EventIds' = EventIds
  /\ \A e \in EventIds : /\ events'[e].type = events[e].type /\ events'[e].gid = events[e].gid
                         /\ events'[e].active <=> events[e].active /\ e \notin E
                         /\ e \notin E => events'[e] = events[e]

LEMMA CloseAllIs ==
  ASSUME EventsShape, NEW E, NEW by \in {Alarm, Forced} \cup EventIds, CloseAll(E, by),
         clearings' = clearings
  PROVE  EventsShape' /\ ClosedAre(E)
<1>1. /\ Len(events) \in Nat /\ EventIds = 1..Len(events)
      /\ \A e \in EventIds : events[e] \in Event
      /\ by \in Int /\ by # None
  BY EventsBasic DEF Alarm, Forced, None
<1>2. ASSUME NEW e \in EventIds
      PROVE  /\ Closed(e, by) \in Event /\ Closed(e, by).active = FALSE /\ Closed(e, by).by = by
             /\ Closed(e, by).type = events[e].type /\ Closed(e, by).gid = events[e].gid
  BY <1>1 DEF Closed, Event
<1>3. /\ events' = [e \in EventIds |-> IF e \in E THEN Closed(e, by) ELSE events[e]]
      /\ EventIds' = EventIds
  BY DEF CloseAll, EventIds
<1>4. events' \in [1..Len(events) -> Event]
  BY <1>1, <1>2, <1>3
<1>5. events' \in Seq(Event)
  BY <1>1, <1>4, SeqDef
<1>6. Len(events') = Len(events)
  BY <1>1, <1>3, <1>5, LenProperties
<1>7. \A e \in EventIds : events'[e] = IF e \in E THEN Closed(e, by) ELSE events[e]
  BY <1>3
<1>8. \A e \in EventIds : /\ events'[e].by \in {None, Alarm, Forced} \cup EventIds
                          /\ events'[e].active <=> events'[e].by = None
  <2>1. ASSUME NEW e \in EventIds, e \in E
        PROVE  events'[e].by = by /\ events'[e].active = FALSE
    BY <1>2, <1>7, <2>1
  <2>2. ASSUME NEW e \in EventIds, e \notin E
        PROVE  events'[e] = events[e]
    BY <1>7, <2>2
  <2> QED  BY <1>1, <2>1, <2>2 DEF EventsShape
<1>9. EventsShape'
  BY <1>3, <1>5, <1>6, <1>8 DEF EventsShape
<1>10. \A e \in EventIds : events'[e].active <=> events[e].active /\ e \notin E
  BY <1>1, <1>2, <1>7
<1>11. ClosedAre(E)
  BY <1>2, <1>3, <1>7, <1>10 DEF ClosedAre
<1> QED  BY <1>9, <1>11

LEMMA AppendIs ==
  ASSUME EventsShape, NEW c, CallOK(c), c.kind = "open",
         events' = Append(events, [type |-> c.type, gid |-> c.gid, active |-> TRUE, by |-> None]),
         clearings' = Append(clearings, 0)
  PROVE  /\ EventsShape'
         /\ LET n == Len(events) + 1
            IN  /\ EventIds' = EventIds \cup {n} /\ n \notin EventIds
                /\ events'[n].active /\ events'[n].type = c.type /\ events'[n].gid = c.gid
                /\ clearings'[n] = 0
         /\ \A e \in EventIds : events'[e] = events[e] /\ clearings'[e] = clearings[e]
<1> DEFINE n == Len(events) + 1
           new == [type |-> c.type, gid |-> c.gid, active |-> TRUE, by |-> None]
<1>1. /\ Len(events) \in Nat /\ EventIds = 1..Len(events) /\ Len(clearings) = Len(events)
      /\ \A e \in EventIds : events[e] \in Event
      /\ events \in Seq(Event) /\ clearings \in Seq(Nat)
  BY EventsBasic DEF EventsShape
<1>2. new \in Event
  BY DEF CallOK, Call, Event, None
<1> HIDE DEF new
<1>3. /\ events' \in Seq(Event) /\ Len(events') = n /\ events'[n] = new
      /\ \A e \in 1..Len(events) : events'[e] = events[e]
  BY <1>1, <1>2, AppendProperties DEF new
<1>4. /\ clearings' \in Seq(Nat) /\ Len(clearings') = n /\ clearings'[n] = 0
      /\ \A e \in 1..Len(events) : clearings'[e] = clearings[e]
  BY <1>1, AppendProperties
<1>5. EventIds' = 1..n
  BY <1>3, LenProperties DEF EventIds
<1>6. EventIds' = EventIds \cup {n} /\ n \notin EventIds
  BY <1>1, <1>5
<1>7. new.active = TRUE /\ new.by = None /\ new.type = c.type /\ new.gid = c.gid
  BY DEF new
<1> HIDE DEF n
<1>8. \A e \in EventIds' : /\ events'[e].by \in {None, Alarm, Forced} \cup EventIds'
                           /\ events'[e].active <=> events'[e].by = None
  BY <1>1, <1>3, <1>6, <1>7 DEF EventsShape
<1>9. EventsShape'
  BY <1>3, <1>4, <1>8 DEF EventsShape
<1> QED  BY <1>1, <1>3, <1>4, <1>6, <1>7, <1>9 DEF n

-----------------------------------------------------------------------------
(* What keeps the parts of the invariant.                                  *)

LEMMA FreshFrame ==
  ASSUME RowsFresh, last' = last, overlapped \subseteq overlapped',
         \A w \in Writer : run'[w].pc = "row" => run'[w] = run[w]
  PROVE  RowsFresh'
  BY DEF RowsFresh, Writing, At

(* A closed event needs no thread that closes it, nor does a disturbed one.*)
LEMMA FewFrame ==
  ASSUME ClearingsFew, EventsShape, EventIds' = EventIds, clearings' = clearings,
         \A e \in EventIds : events'[e].active => events[e].active,
         disturbed \subseteq disturbed',
         \A w \in Writer : run'[w].pc \in {"clearing", "close"} =>
                             run'[w].pc = run[w].pc /\ run'[w].found = run[w].found,
         \A w \in Writer, e \in EventIds \ disturbed' :
           At(w, "close") /\ run[w].found = e /\ events'[e].active =>
             run'[w].pc = "close" /\ run'[w].found = e
  PROVE  ClearingsFew'
<1> SUFFICES ASSUME NEW e \in EventIds \ disturbed'
             PROVE  /\ clearings'[e] <= 1
                    /\ \A v, w \in Writer : Clearing(v, e)' /\ Clearing(w, e)' => v = w
                    /\ \A w \in Writer : Clearing(w, e)' /\ At(w, "clearing")' => clearings'[e] = 0
                    /\ events'[e].active /\ clearings'[e] # 0 =>
                         \E w \in Writer : Clearing(w, e)' /\ At(w, "close")'
  BY DEF ClearingsFew
<1>1. e \in EventIds \ disturbed
  OBVIOUS
<1>2. \A w \in Writer : Clearing(w, e)' => Clearing(w, e) /\ run'[w].pc = run[w].pc
  BY DEF Clearing
<1>3. clearings'[e] <= 1 /\ \A v, w \in Writer : Clearing(v, e)' /\ Clearing(w, e)' => v = w
  BY <1>1, <1>2 DEF ClearingsFew
<1>4. \A w \in Writer : Clearing(w, e)' /\ At(w, "clearing")' => clearings'[e] = 0
  BY <1>1, <1>2 DEF ClearingsFew, At
<1>5. ASSUME events'[e].active, clearings'[e] # 0
      PROVE  \E w \in Writer : Clearing(w, e)' /\ At(w, "close")'
  <2>1. PICK w \in Writer : Clearing(w, e) /\ At(w, "close")
    BY <1>1, <1>5 DEF ClearingsFew
  <2>2. run'[w].pc = "close" /\ run'[w].found = e
    BY <1>5, <2>1 DEF Clearing
  <2> QED  BY <2>2 DEF Clearing, At
<1> QED  BY <1>3, <1>4, <1>5

LEMMA OneCallFrame ==
  ASSUME OneCall, phase' = phase, pending' = pending, NEW w \in Writer, Busy(w),
         Ended(w) \/ (Turned(w) /\ run'[w].call = run[w].call)
  PROVE  OneCall'
<1> SUFFICES ASSUME ~Running
             PROVE  OneCall'
  BY DEF OneCall, Running
<1>1. \A v \in Writer : run'[v] # Idle => v = w
  BY DEF OneCall, Busy, Turned, Ended
<1>2. pending = {} /\ OfPhase(run[w].call)
  BY DEF OneCall
<1>3. run'[w] # Idle => run'[w].call = run[w].call
  BY <1>2 DEF Ended, OfPhase
<1> QED  BY <1>1, <1>2, <1>3 DEF OneCall, Busy, OfPhase

-----------------------------------------------------------------------------
(* The steps keep the tables' part of the invariant: the manager.          *)

LEMMA CardCallOK ==
  ASSUME StoreAssumption, NEW t \in Tid, NEW kind \in {"open", "clear", "prune", "gone"},
         NEW g \in Gid
  PROVE  /\ CallOK(CallOf(kind, t)) /\ CallOf(kind, t).type # Official
         /\ CallOf(kind, t).kind = kind
         /\ [CallOf(kind, t) EXCEPT !.gid = g] = [kind |-> kind, type |-> TypeOf[t], gid |-> g]
         /\ CallOK([CallOf(kind, t) EXCEPT !.gid = g])
  BY DEF CallOK, CallOf, Call, CardType, Gid, StoreAssumption

LEMMA SirenCallOK ==
  ASSUME NEW kind \in {"on", "off"}
  PROVE  CallOK(SirenCall(kind)) /\ SirenCall(kind).type = Official
  BY DEF CallOK, SirenCall, Call, Gid

LEMMA StaleCallOK ==
  ASSUME StoreAssumption, EventsShape, NEW e \in EventIds
  PROVE  /\ CallOK(StaleCall(e)) /\ StaleCall(e).type # Official /\ StaleCall(e).kind = "stale"
         /\ StaleCall(e).gid = events[e].gid
<1>1. events[e] \in Event
  BY EventsBasic
<1> QED  BY <1>1 DEF CallOK, StaleCall, Call, Event, StoreAssumption

(* What the steps need to know of the counters.                            *)
LEMMA Counters ==
  ASSUME Base, StoreAssumption
  PROVE  /\ MaxExtra \in Nat /\ extras \in 0..MaxExtra /\ extras \in Nat
         /\ MaxFault \in Nat /\ faults \in 0..MaxFault /\ alarmRows \in Nat
<1>1. MaxExtra \in Nat /\ MaxFault \in Nat
  BY DEF StoreAssumption
<1>2. extras \in 0..MaxExtra /\ faults \in 0..MaxFault /\ alarmRows \in Nat
  BY DEF Base, Shape
<1> QED  BY <1>1, <1>2

LEMMA ManagerKeeps ==
  ASSUME Base, StoreAssumption, Running, UNCHANGED <<tables, run, phase, faults, marks>>,
         cards' \subseteq came', came' \subseteq Tid, siren' \in BOOLEAN,
         extras' \in 0..MaxExtra, extras <= extras',
         NEW c, CallOK(c), pending' = pending \cup {c}, c.type = Official => extras' = extras + 1
  PROVE  Base'
<1>1. Shape' /\ EventsShape' /\ PhaseShape' /\ HistoryAlternates'
  BY DEF Base, Shape, EventsShape, PhaseShape, HistoryAlternates, tables, marks, Running, EventIds
<1>2. RunsShape'
  BY SameKeepsRuns DEF Base, RunsShape, tables, EventIds
<1>3. RowsFresh'
  BY FreshFrame DEF Base, tables, marks
<1>4. ClearingsFew'
  BY DEF Base, ClearingsFew, Clearing, At, tables, marks, EventIds
<1>5. OneCall'
  BY DEF OneCall, Running
<1> QED  BY <1>1, <1>2, <1>3, <1>4, <1>5 DEF Base

LEMMA AppearKeeps ==
  ASSUME Base, StoreAssumption, NEW t \in Tid, Appear(t)
  PROVE  Base'
<1>1. CallOK(CallOf("open", t)) /\ CallOf("open", t).type # Official
  BY CardCallOK DEF Gid
<1>2. /\ Running /\ UNCHANGED <<tables, run, phase, faults, marks>>
      /\ cards' \subseteq came' /\ came' \subseteq Tid /\ siren' \in BOOLEAN
      /\ extras' = extras /\ pending' = pending \cup {CallOf("open", t)}
  BY DEF Appear, Base, Shape, counters
<1>3. extras' \in 0..MaxExtra /\ extras <= extras'
  BY <1>2, Counters
<1> QED  BY <1>1, <1>2, <1>3, ManagerKeeps

LEMMA VanishKeeps ==
  ASSUME Base, StoreAssumption, NEW t \in Tid, NEW kind \in {"clear", "prune"}, Vanish(t, kind)
  PROVE  Base'
<1>1. CallOK(CallOf(kind, t)) /\ CallOf(kind, t).type # Official
  BY CardCallOK DEF Gid
<1>2. /\ Running /\ UNCHANGED <<tables, run, phase, faults, marks>>
      /\ cards' \subseteq came' /\ came' \subseteq Tid /\ siren' \in BOOLEAN
      /\ extras' = extras /\ pending' = pending \cup {CallOf(kind, t)}
  BY DEF Vanish, Base, Shape, counters
<1>3. extras' \in 0..MaxExtra /\ extras <= extras'
  BY <1>2, Counters
<1> QED  BY <1>1, <1>2, <1>3, ManagerKeeps

LEMMA SirenKeeps ==
  ASSUME Base, StoreAssumption, Siren
  PROVE  Base'
<1>1. PICK kind \in {"on", "off"} : pending' = pending \cup {SirenCall(kind)}
  BY DEF Siren
<1>2. CallOK(SirenCall(kind)) /\ SirenCall(kind).type = Official
  BY SirenCallOK
<1>3. /\ Running /\ UNCHANGED <<tables, run, phase, faults, marks>>
      /\ cards' \subseteq came' /\ came' \subseteq Tid /\ siren' \in BOOLEAN
      /\ extras < MaxExtra /\ extras' = extras + 1
  BY DEF Siren, Base, Shape
<1>4. extras' \in 0..MaxExtra /\ extras <= extras'
  BY <1>3, Counters
<1> QED  BY <1>1, <1>2, <1>3, <1>4, ManagerKeeps

LEMMA CleanUpKeeps ==
  ASSUME Base, StoreAssumption, CleanUp
  PROVE  Base'
<1>1. PICK e \in Active : pending' = pending \cup {StaleCall(e)}
  BY DEF CleanUp
<1>2. CallOK(StaleCall(e)) /\ StaleCall(e).type # Official
  BY StaleCallOK DEF Active, Base
<1>3. /\ Running /\ UNCHANGED <<tables, run, phase, faults, marks>>
      /\ cards' \subseteq came' /\ came' \subseteq Tid /\ siren' \in BOOLEAN
      /\ extras < MaxExtra /\ extras' = extras + 1
  BY DEF CleanUp, Base, Shape, ram
<1>4. extras' \in 0..MaxExtra /\ extras <= extras'
  BY <1>3, Counters
<1> QED  BY <1>1, <1>2, <1>3, <1>4, ManagerKeeps

LEMMA ForceCloseKeeps ==
  ASSUME Base, StoreAssumption, ForceClose
  PROVE  Base'
<1>1. PICK e \in Active : CloseAll({e}, Forced)
  BY DEF ForceClose
<1>2. /\ Running /\ extras < MaxExtra /\ extras' = extras + 1
      /\ UNCHANGED <<ram, last, alarmRows, clearings, pending, run, phase, faults, marks>>
  BY DEF ForceClose
<1>3. EventsShape' /\ ClosedAre({e})
  BY <1>1, <1>2, CloseAllIs DEF Base
<1>4. extras' \in 0..MaxExtra /\ extras <= extras' /\ extras \in Nat /\ extras' \in Nat
  BY <1>2, Counters
<1>5. Shape' /\ PhaseShape' /\ HistoryAlternates'
  BY <1>2, <1>3, <1>4
     DEF Base, Shape, PhaseShape, HistoryAlternates, ram, marks, ClosedAre, Running
<1>6. RunsShape'
  BY <1>2, <1>3, SameKeepsRuns DEF Base, RunsShape, ClosedAre
<1>7. RowsFresh'
  BY <1>2, FreshFrame DEF Base, marks
<1>8. ClearingsFew'
  BY <1>2, <1>3, FewFrame DEF Base, ClosedAre, marks, At
<1>9. OneCall'
  BY <1>2 DEF OneCall, Running
<1> QED  BY <1>3, <1>5, <1>6, <1>7, <1>8, <1>9 DEF Base

-----------------------------------------------------------------------------
(* The steps of a thread.                                                  *)

(* Where a call may go on.                                                 *)
MayGo(w, pc) ==
  /\ pc = "event" => run[w].call.kind = "open"
  /\ pc \in {"find", "clearing", "close", "sweep"} => run[w].call.kind \notin {"open", "on"}
  /\ pc \in {"clearing", "close", "sweep"} => run[w].found # None

Moved(w) == Ended(w) \/ \E pc \in Statements : MayGo(w, pc) /\ Went(w, pc)

LEMMA MovedKeeps ==
  ASSUME Base, NEW w \in Writer, Busy(w), Moved(w), EventIds \subseteq EventIds',
         pending' = pending, phase' = phase
  PROVE  RunsShape' /\ OneCall'
<1>1. RunsShape /\ OneCall
  BY DEF Base
<1>2. CASE Ended(w)
  BY <1>1, <1>2, EndedKeepsRuns, OneCallFrame
<1>3. ASSUME NEW pc \in Statements, MayGo(w, pc), Went(w, pc)
      PROVE  RunsShape' /\ OneCall'
  <2>1. RunsShape'
    BY <1>1, <1>3, WentKeepsRuns DEF MayGo
  <2>2. OneCall'
    BY <1>1, <1>3, OneCallFrame DEF Went
  <2> QED  BY <2>1, <2>2
<1> QED  BY <1>2, <1>3 DEF Moved

(* What a thread may do that is at a statement.                            *)
LEMMA AtStatement ==
  ASSUME Base, NEW w \in Writer, run[w].pc \in Statements
  PROVE  /\ Busy(w) /\ run[w] \in Started /\ CallOK(run[w].call)
         /\ RunOK(run[w], EventIds)
<1>1. RunsShape
  BY DEF Base
<1>2. Busy(w)
  BY <1>1, StatementIsBusy
<1> QED  BY <1>1, <1>2, BusyFields DEF RunsShape

(* After a row there is a clearing, or nothing; and after the closing, a   *)
(* row, or nothing.                                                        *)
LEMMA AfterRowMoves ==
  ASSUME Base, NEW w \in Writer, Busy(w), AfterRow(w)
  PROVE  Moved(w) /\ (Ended(w) \/ Went(w, "find"))
  BY AfterRowIs DEF Base, Moved, MayGo, Statements

LEMMA AfterClearingMoves ==
  ASSUME Base, NEW w \in Writer, Busy(w), AfterClearing(w)
  PROVE  Moved(w) /\ (Ended(w) \/ Went(w, "read"))
<1>1. RunsShape /\ CallOK(run[w].call)
  BY BusyFields DEF Base
<1> QED  BY <1>1, AfterClearingIs DEF Moved, MayGo, Statements, CallOK, RowFirst

LEMMA BeginKeeps ==
  ASSUME Base, StoreAssumption, NEW w \in Writer, Begin(w)
  PROVE  Base'
<1>1. PICK c \in pending : pending' = pending \ {c} /\ run' = [run EXCEPT ![w] = Start(c)]
  BY DEF Begin
<1>2. run[w] = Idle /\ UNCHANGED <<ram, tables, phase, counters, marks>>
  BY DEF Begin
<1>3. RunsShape /\ CallOK(c) /\ c \in Call
  BY DEF Base, RunsShape, CallOK
<1>4. /\ Start(c).call = c /\ Start(c).found = None
      /\ Start(c).pc = IF c.kind \in RowFirst THEN "read" ELSE "find"
      /\ Start(c) \in Started
  <2>1. c.type \in Type
    BY <1>3 DEF Call, Type
  <2> QED  BY <1>3, <2>1 DEF Start, Started, Statements, None
<1>5. /\ run'[w] = Start(c) /\ Turned(w) /\ run'[w] # Idle
  BY <1>1, <1>3, <1>4, IdleFields DEF Turned, RunsShape
<1>6. Shape' /\ EventsShape' /\ PhaseShape' /\ HistoryAlternates' /\ EventIds' = EventIds
  BY <1>2 DEF Base, Shape, EventsShape, PhaseShape, HistoryAlternates, ram, tables, counters, marks,
              EventIds
<1>7. RunsShape'
  <2>1. RunOK(run'[w], EventIds)
    BY <1>3, <1>4, <1>5 DEF RunOK, RowFirst, CallOK, Call
  <2>2. \A v \in Writer \ {w} : run'[v] # Idle => RunOK(run'[v], EventIds)
    BY <1>3, <1>5 DEF RunsShape, Busy, Turned
  <2>3. \A d \in pending' : CallOK(d)
    BY <1>1, <1>3 DEF RunsShape
  <2> QED  BY <1>5, <1>6, <2>1, <2>2, <2>3 DEF RunsShape, Busy, Turned
<1>8. RowsFresh'
  BY <1>2, <1>4, <1>5, FreshFrame DEF Base, tables, marks, Turned
<1>9. ClearingsFew'
  BY <1>2, <1>4, <1>5, <1>6, IdleFields, FewFrame DEF Base, tables, marks, Turned, At
<1>10. OneCall'
  <2> SUFFICES ASSUME ~Running
               PROVE  OneCall'
    BY <1>2 DEF OneCall, Running
  <2>1. (\A d \in pending : d = c) /\ (\A v \in Writer : ~Busy(v)) /\ OfPhase(c)
    BY DEF Base, OneCall
  <2>2. pending' = {} /\ \A v \in Writer : run'[v] # Idle => v = w
    BY <1>1, <1>5, <2>1 DEF Turned, Busy
  <2> QED  BY <1>2, <1>4, <1>5, <2>1, <2>2 DEF OneCall, Busy, OfPhase
<1> QED  BY <1>6, <1>7, <1>8, <1>9, <1>10 DEF Base

LEMMA ReadLastKeeps ==
  ASSUME Base, StoreAssumption, NEW w \in Writer, ReadLast(w)
  PROVE  Base'
<1> DEFINE c == run[w].call
           ty == run[w].row
           others == {v \in Writer \ {w} : At(v, "row") /\ run[v].row = ty}
<1>1. /\ run[w].pc = "read" /\ UNCHANGED <<ram, tables, pending, phase, counters, doubled, disturbed>>
  BY DEF ReadLast, At
<1>2. Busy(w) /\ RunsShape /\ ty \in Type
  BY <1>1, AtStatement DEF Statements, Base, Started
<1>3. \/ /\ AfterRow(w) /\ overlapped' = overlapped
      \/ /\ FALSE \in Refused(ty, Level(c)) /\ Goto(w, "row")
         /\ overlapped' = overlapped \cup (IF others = {} THEN {} ELSE {ty})
  BY DEF ReadLast, Refused
<1>4. missed' \in BOOLEAN /\ overlapped \subseteq overlapped' /\ overlapped' \subseteq Type
  <2>1. missed' \in BOOLEAN
    BY DEF ReadLast, Base, Shape
  <2>2. overlapped \subseteq Type
    BY DEF Base, Shape
  <2> QED  BY <1>2, <1>3, <2>1, <2>2
<1>5. Moved(w) /\ (Ended(w) \/ Went(w, "find") \/ Went(w, "row"))
  <2>1. CASE AfterRow(w)
    BY <1>2, <2>1, AfterRowMoves
  <2>2. CASE Goto(w, "row")
    BY <1>1, <1>2, <2>2, GotoIs DEF Moved, MayGo, Statements
  <2> QED  BY <1>3, <2>1, <2>2
<1>6. Shape' /\ EventsShape' /\ PhaseShape' /\ HistoryAlternates' /\ EventIds' = EventIds
  BY <1>1, <1>4 DEF Base, Shape, EventsShape, PhaseShape, HistoryAlternates, ram, tables, counters,
                    EventIds
<1>7. RunsShape' /\ OneCall'
  BY <1>1, <1>2, <1>5, <1>6, MovedKeeps
<1>8. RowsFresh'
  <2>1. RowsFresh /\ last' = last
    BY <1>1 DEF Base, tables
  <2>2. CASE AfterRow(w)
    <3>1. run'[w].pc # "row" /\ \A v \in Writer \ {w} : run'[v] = run[v]
      BY <1>2, <2>2, AfterRowMoves, IdleFields DEF Ended, Went, Turned
    <3> QED  BY <1>4, <2>1, <3>1, FreshFrame
  <2>3. CASE /\ FALSE \in Refused(ty, Level(c)) /\ Goto(w, "row")
             /\ overlapped' = overlapped \cup (IF others = {} THEN {} ELSE {ty})
    <3>1. /\ run'[w].pc = "row" /\ run'[w].call = c /\ run'[w].row = ty
          /\ \A v \in Writer \ {w} : run'[v] = run[v]
      BY <1>2, <2>3, GotoIs DEF Went, Turned, Statements
    <3>2. last[ty] # Level(c) \/ ~(ty = Official \/ Level(c) = "none")
      BY <2>3 DEF Refused
    <3>3. \A v \in Writer \ {w} : Writing(v, ty) => ty \in overlapped'
      BY <2>3 DEF Writing
    <3> HIDE DEF c, ty, others
    <3>4. \A v \in Writer \ {w} : \A k : Writing(v, k)' <=> Writing(v, k)
      BY <3>1 DEF Writing, At
    <3>5. \A k : Writing(w, k)' <=> k = ty
      BY <3>1 DEF Writing, At
    <3>6. ASSUME NEW u \in Writer, NEW v \in Writer, NEW k \in Type, u # v,
                 Writing(u, k)', Writing(v, k)'
          PROVE  k \in overlapped'
      BY <1>4, <2>1, <3>3, <3>4, <3>5, <3>6 DEF RowsFresh
    <3>7. ASSUME NEW v \in Writer, NEW k \in Type, Writing(v, k)',
                 k = Official \/ Level(run'[v].call) = "none"
          PROVE  last'[k] # Level(run'[v].call) \/ k \in overlapped'
      <4>1. CASE v = w
        BY <2>1, <3>1, <3>2, <3>5, <3>7, <4>1
      <4>2. CASE v # w
        <5>1. Writing(v, k) /\ run'[v] = run[v]
          BY <3>1, <3>4, <3>7, <4>2
        <5> QED  BY <1>4, <2>1, <3>7, <5>1 DEF RowsFresh
      <4> QED  BY <4>1, <4>2
    <3>8. \A v \in Writer : Level(run[v].call)' = Level(run'[v].call)
      BY DEF Level
    <3> QED  BY <3>6, <3>7, <3>8 DEF RowsFresh
  <2> QED  BY <1>3, <2>2, <2>3
<1>9. ClearingsFew'
  <2>1. /\ \A v \in Writer \ {w} : run'[v] = run[v]
        /\ run'[w].pc \in {"idle", "find", "row", "read"}
    BY <1>5, IdleFields DEF Ended, Went, Turned
  <2>2. ClearingsFew /\ EventsShape /\ UNCHANGED <<events, clearings, disturbed>>
    BY <1>1 DEF Base, tables
  <2> QED  BY <1>1, <1>6, <2>1, <2>2, FewFrame DEF At
<1> QED  BY <1>6, <1>7, <1>8, <1>9 DEF Base

LEMMA InsertRowKeeps ==
  ASSUME Base, StoreAssumption, NEW w \in Writer, InsertRow(w)
  PROVE  Base'
<1> DEFINE c == run[w].call
           ty == run[w].row
<1>1. /\ run[w].pc = "row"
      /\ UNCHANGED <<ram, events, clearings, pending, phase, counters, overlapped, disturbed, missed>>
  BY DEF InsertRow, At
<1>2. Busy(w) /\ RunsShape /\ ty \in Type
  BY <1>1, AtStatement DEF Statements, Base, Started
<1>3. /\ last' = [last EXCEPT ![ty] = Level(c)]
      /\ alarmRows' = alarmRows + (IF ty = Official THEN 1 ELSE 0)
      /\ doubled' = IF last[ty] = Level(c) /\ (ty = Official \/ Level(c) = "none")
                      THEN doubled \cup {ty} ELSE doubled
      /\ \/ c.kind = "open" /\ Goto(w, "event")
         \/ c.kind # "open" /\ AfterRow(w)
  BY DEF InsertRow
<1>4. Moved(w) /\ (Ended(w) \/ Went(w, "find") \/ (c.kind = "open" /\ Went(w, "event")))
  <2>1. CASE c.kind # "open" /\ AfterRow(w)
    BY <1>2, <2>1, AfterRowMoves
  <2>2. CASE c.kind = "open" /\ Goto(w, "event")
    BY <1>1, <1>2, <2>2, GotoIs DEF Moved, MayGo, Statements
  <2> QED  BY <1>3, <2>1, <2>2
<1>5. /\ run'[w].pc \in {"idle", "find", "event", "read"}
      /\ \A v \in Writer \ {w} : run'[v] = run[v]
  BY <1>2, <1>4, IdleFields DEF Ended, Went, Turned
<1>6. last[ty] = Level(c) /\ (ty = Official \/ Level(c) = "none") => ty \in overlapped
  BY <1>1, <1>2 DEF Base, RowsFresh, Writing, At
<1>7. last' \in [Type -> {"", "none", "high"}] /\ alarmRows' \in Nat /\ doubled' \subseteq Type
      /\ doubled' \subseteq overlapped'
  <2>1. Level(c) \in {"none", "high"}
    BY DEF Level
  <2>2. /\ last \in [Type -> {"", "none", "high"}] /\ doubled \subseteq Type
        /\ alarmRows \in Nat /\ doubled \subseteq overlapped
    BY DEF Base, Shape, HistoryAlternates
  <2> HIDE DEF c, ty
  <2>3. last' \in [Type -> {"", "none", "high"}]
    <3>1. last \in [Type -> {"", "none", "high"}] /\ last' = [last EXCEPT ![ty] = Level(c)]
      BY <1>3, <2>2
    <3>2. Level(c) \in {"", "none", "high"}
      BY <2>1
    <3> QED  BY <3>1, <3>2
  <2>4. alarmRows' \in Nat
    <3>1. alarmRows' = alarmRows + (IF ty = Official THEN 1 ELSE 0)
      BY <1>3
    <3>2. alarmRows \in Nat
      BY <2>2
    <3> QED  BY <3>1, <3>2
  <2>5. doubled' \subseteq Type /\ doubled' \subseteq overlapped
    BY <1>2, <1>3, <1>6, <2>2
  <2> QED  BY <1>1, <2>3, <2>4, <2>5
<1>8. Shape' /\ EventsShape' /\ PhaseShape' /\ HistoryAlternates' /\ EventIds' = EventIds
  BY <1>1, <1>7 DEF Base, Shape, EventsShape, PhaseShape, HistoryAlternates, ram, counters, EventIds
<1>9. RunsShape' /\ OneCall'
  BY <1>1, <1>2, <1>4, <1>8, MovedKeeps
<1>10. RowsFresh'
  <2>1. RowsFresh /\ overlapped' = overlapped /\ Writing(w, ty)
    BY <1>1 DEF Base, Writing, At
  <2>2. \A k \in Type : k # ty => last'[k] = last[k]
    BY <1>3 DEF Base, Shape
  <2> HIDE DEF c, ty
  <2>3. \A v \in Writer : \A k : Writing(v, k)' => v # w /\ Writing(v, k) /\ run'[v] = run[v]
    BY <1>5 DEF Writing, At
  <2>4. ASSUME NEW u \in Writer, NEW v \in Writer, NEW k \in Type, u # v,
               Writing(u, k)', Writing(v, k)'
        PROVE  k \in overlapped'
    BY <2>1, <2>3, <2>4 DEF RowsFresh
  <2>5. ASSUME NEW v \in Writer, NEW k \in Type, Writing(v, k)',
               k = Official \/ Level(run'[v].call) = "none"
        PROVE  last'[k] # Level(run'[v].call) \/ k \in overlapped'
    <3>1. v # w /\ Writing(v, k) /\ run'[v] = run[v]
      BY <2>3, <2>5
    <3>2. CASE k = ty
      BY <2>1, <3>1, <3>2 DEF RowsFresh
    <3>3. CASE k # ty
      BY <2>1, <2>2, <2>5, <3>1, <3>3 DEF RowsFresh
    <3> QED  BY <3>2, <3>3
  <2>6. \A v \in Writer : Level(run[v].call)' = Level(run'[v].call)
    BY DEF Level
  <2> QED  BY <2>4, <2>5, <2>6 DEF RowsFresh
<1>11. ClearingsFew'
  BY <1>1, <1>5, <1>8, FewFrame DEF Base, At
<1> QED  BY <1>8, <1>9, <1>10, <1>11 DEF Base

LEMMA InsertEventKeeps ==
  ASSUME Base, StoreAssumption, NEW w \in Writer, InsertEvent(w)
  PROVE  Base'
<1> DEFINE c == run[w].call
           n == Len(events) + 1
<1>1. /\ run[w].pc = "event" /\ Done(w)
      /\ UNCHANGED <<ram, last, alarmRows, pending, phase, counters, marks>>
  BY DEF InsertEvent, At
<1>2. Busy(w) /\ CallOK(c) /\ RunsShape /\ c.kind = "open"
  BY <1>1, AtStatement DEF Statements, Base, RunOK
<1>3. EventsShape
  BY DEF Base
<1>4. /\ EventsShape' /\ EventIds' = EventIds \cup {n} /\ n \notin EventIds
      /\ clearings'[n] = 0
      /\ \A e \in EventIds : events'[e] = events[e] /\ clearings'[e] = clearings[e]
  BY <1>2, <1>3, AppendIs DEF InsertEvent
<1>5. Ended(w) /\ Moved(w) /\ run'[w] = Idle
  BY <1>1, <1>2, DoneIs DEF Moved, Ended
<1>6. Shape' /\ PhaseShape' /\ HistoryAlternates'
  BY <1>1, <1>4 DEF Base, Shape, PhaseShape, HistoryAlternates, ram, marks, counters
<1>7. RunsShape' /\ OneCall'
  BY <1>1, <1>2, <1>4, <1>5, MovedKeeps
<1>8. RowsFresh'
  BY <1>1, <1>5, IdleFields, FreshFrame DEF Base, marks, Ended, Turned
<1>9. ClearingsFew'
  <2>1. n \in Nat /\ n # 0
    BY <1>3, EventsBasic
  <2>2. disturbed' = disturbed /\ ClearingsFew
    BY <1>1 DEF marks, Base
  <2>3. \A v \in Writer : \A e : Clearing(v, e)' => v # w /\ run'[v] = run[v] /\ Clearing(v, e)
    BY <1>5, IdleFields DEF Clearing, Ended, Turned
  <2>4. \A v \in Writer : ~Clearing(v, n)
    <3> SUFFICES ASSUME NEW v \in Writer, Clearing(v, n)
                 PROVE  FALSE
      OBVIOUS
    <3>1. run[v].pc \in Statements /\ run[v].found = n
      BY DEF Clearing, Statements
    <3>2. n \in EventIds \cup {None, Alarm}
      BY <3>1, AtStatement DEF RunOK
    <3> QED  BY <1>4, <2>1, <3>2 DEF None, Alarm
  <2> HIDE DEF n, c
  <2>5. \A v \in Writer : \A e : Clearing(v, e) /\ At(v, "close") => Clearing(v, e)' /\ At(v, "close")'
    BY <1>1, <1>5 DEF Clearing, At, Ended, Turned
  <2>6. ASSUME NEW e \in EventIds' \ disturbed'
        PROVE  /\ clearings'[e] <= 1
               /\ \A u, v \in Writer : Clearing(u, e)' /\ Clearing(v, e)' => u = v
               /\ \A v \in Writer : Clearing(v, e)' /\ At(v, "clearing")' => clearings'[e] = 0
               /\ events'[e].active /\ clearings'[e] # 0 =>
                    \E v \in Writer : Clearing(v, e)' /\ At(v, "close")'
    <3>1. CASE e = n
      BY <1>4, <2>3, <2>4, <3>1
    <3>2. CASE e \in EventIds
      <4>1. /\ clearings'[e] <= 1
            /\ \A u, v \in Writer : Clearing(u, e)' /\ Clearing(v, e)' => u = v
        BY <1>4, <2>2, <2>3, <3>2 DEF ClearingsFew
      <4>2. \A v \in Writer : Clearing(v, e)' /\ At(v, "clearing")' => clearings'[e] = 0
        BY <1>4, <2>2, <2>3, <3>2 DEF ClearingsFew, At
      <4>3. events'[e].active /\ clearings'[e] # 0 =>
              \E v \in Writer : Clearing(v, e)' /\ At(v, "close")'
        BY <1>4, <2>2, <2>5, <3>2 DEF ClearingsFew
      <4> QED  BY <4>1, <4>2, <4>3
    <3> QED  BY <1>4, <3>1, <3>2
  <2> QED  BY <2>6 DEF ClearingsFew
<1> QED  BY <1>4, <1>6, <1>7, <1>8, <1>9 DEF Base

-----------------------------------------------------------------------------
(* The steps of a clearing.                                                *)

LEMMA FindKeeps ==
  ASSUME Base, StoreAssumption, NEW w \in Writer, Find(w)
  PROVE  Base'
<1>1. /\ run[w].pc = "find"
      /\ UNCHANGED <<ram, tables, pending, phase, counters, doubled, overlapped, missed>>
  BY DEF Find, At
<1>2. Busy(w) /\ CallOK(run[w].call) /\ RunsShape /\ run[w].call.kind \notin {"open", "on"}
  BY <1>1, AtStatement DEF Statements, Base, RunOK
<1>3. CASE Done(w) /\ disturbed' = disturbed
  <2>1. Ended(w) /\ Moved(w)
    BY <1>2, <1>3, DoneIs DEF Moved
  <2>2. Shape' /\ EventsShape' /\ PhaseShape' /\ HistoryAlternates' /\ EventIds' = EventIds
    BY <1>1, <1>3 DEF Base, Shape, EventsShape, PhaseShape, HistoryAlternates, ram, tables, counters,
                      EventIds
  <2>3. RunsShape' /\ OneCall'
    BY <1>1, <1>2, <2>1, <2>2, MovedKeeps
  <2>4. run'[w].pc \in {"idle", "find", "read"} /\ \A v \in Writer \ {w} : run'[v] = run[v]
    BY <2>1, IdleFields DEF Ended, Turned
  <2>5. RowsFresh'
    BY <1>1, <2>4, FreshFrame DEF Base, tables
  <2>6. ClearingsFew'
    BY <1>1, <1>3, <2>2, <2>4, FewFrame DEF Base, At, tables
  <2> QED  BY <2>2, <2>3, <2>5, <2>6 DEF Base
<1>4. CASE ~(Done(w) /\ disturbed' = disturbed)
  <2>1. PICK e \in Active \cup {Alarm}, ty \in Type :
           /\ run' = [run EXCEPT ![w].pc = "clearing", ![w].found = e, ![w].row = ty]
           /\ disturbed' = IF e # Alarm /\ \E v \in Writer \ {w} :
                                run[v].found = e /\ run[v].pc \in {"clearing", "close"}
                             THEN disturbed \cup {e} ELSE disturbed
    <3>1. \A known \in BOOLEAN : Candidates(run[w].call, known) \subseteq Active \cup {Alarm}
      BY DEF Candidates, GidActive, TypeActive
    <3>2. ASSUME NEW known \in BOOLEAN, NEW e \in Active \cup {Alarm}
          PROVE  SavedTypes(run[w].call, known, e) \subseteq Type
      <4>1. run[w].call.type \in Type
        BY <1>2 DEF CallOK, Call, Type
      <4>2. e # Alarm => events[e].type \in Type
        BY EventsBasic DEF Base, Active, Event, Type
      <4> QED  BY <4>1, <4>2 DEF SavedTypes, Type
    <3> QED  BY <1>4, <3>1, <3>2 DEF Find
  <2>2. e \in Active \cup {Alarm} /\ e # None
    BY <2>1, EventsBasic DEF Active, Base, Alarm, None
  <2>3. e \in Nat \cup {Alarm} /\ e \in EventIds \cup {Alarm}
    BY <2>2, EventsBasic DEF Active, Base
  <2> DEFINE r == [call |-> run[w].call, pc |-> "clearing", found |-> e, row |-> ty]
  <2>4. run[w] \in Started
    BY <1>2, BusyFields
  <2>5. run' = [run EXCEPT ![w] = r] /\ r \in Started
    <3>1. PICK c \in Call, p \in Statements, f \in Nat \cup {Alarm}, k \in Type :
             run[w] = [call |-> c, pc |-> p, found |-> f, row |-> k]
      BY <2>4 DEF Started
    <3>2. [[[run[w] EXCEPT !.pc = "clearing"] EXCEPT !.found = e] EXCEPT !.row = ty] = r
      <4>1. [run[w] EXCEPT !.pc = "clearing"]
              = [call |-> c, pc |-> "clearing", found |-> f, row |-> k]
        BY <3>1
      <4>2. [[call |-> c, pc |-> "clearing", found |-> f, row |-> k] EXCEPT !.found = e]
              = [call |-> c, pc |-> "clearing", found |-> e, row |-> k]
        OBVIOUS
      <4>3. [[call |-> c, pc |-> "clearing", found |-> e, row |-> k] EXCEPT !.row = ty]
              = [call |-> c, pc |-> "clearing", found |-> e, row |-> ty]
        OBVIOUS
      <4>4. run[w].call = c
        BY <3>1
      <4> QED  BY <4>1, <4>2, <4>3, <4>4
    <3>3. run' = [run EXCEPT ![w] = [[[run[w] EXCEPT !.pc = "clearing"] EXCEPT !.found = e]
                                       EXCEPT !.row = ty]]
      BY <1>2, <2>1 DEF RunsShape
    <3>4. r \in Started
      BY <2>3, <3>1 DEF Started, Statements
    <3> QED  BY <3>2, <3>3, <3>4
  <2>6. r.call = run[w].call /\ r.pc = "clearing" /\ r.found = e /\ r # Idle
    BY <2>5, IdleFields
  <2> HIDE DEF r
  <2>7. /\ run'[w] = r /\ \A v \in Writer \ {w} : run'[v] = run[v]
        /\ run' \in [Writer -> Started \cup {Idle}]
    BY <1>2, <2>5 DEF RunsShape
  <2>8. Shape' /\ EventsShape' /\ PhaseShape' /\ HistoryAlternates' /\ EventIds' = EventIds
    <3>1. disturbed' \subseteq EventIds
      BY <2>1, <2>3 DEF Base, Shape
    <3> QED  BY <1>1, <3>1 DEF Base, Shape, EventsShape, PhaseShape, HistoryAlternates, ram, tables,
                               counters, EventIds
  <2>9. RunsShape'
    <3>1. RunOK(run'[w], EventIds)
      BY <1>2, <2>2, <2>3, <2>6, <2>7 DEF RunOK
    <3>2. \A v \in Writer \ {w} : run'[v] # Idle => RunOK(run'[v], EventIds)
      BY <1>2, <2>7 DEF RunsShape, Busy
    <3>3. pending' = pending
      BY <1>1
    <3> QED  BY <1>2, <2>7, <2>8, <3>1, <3>2, <3>3 DEF RunsShape, Busy
  <2>10. RowsFresh'
    BY <1>1, <2>6, <2>7, FreshFrame DEF Base, tables
  <2>11. OneCall'
    BY <1>1, <1>2, <2>6, <2>7, OneCallFrame DEF Base, Turned
  <2>12. ClearingsFew'
    <3>1. ClearingsFew /\ events' = events /\ clearings' = clearings /\ disturbed \subseteq disturbed'
      BY <1>1, <2>1 DEF Base, tables
    <3>2. \A v \in Writer \ {w} : \A a : /\ Clearing(v, a)' <=> Clearing(v, a)
                                         /\ At(v, "close")' <=> At(v, "close")
                                         /\ At(v, "clearing")' <=> At(v, "clearing")
      BY <2>7 DEF Clearing, At
    <3>3. \A a : /\ Clearing(w, a)' <=> a = e
                 /\ ~Clearing(w, a) /\ ~At(w, "close")'
      BY <1>1, <2>6, <2>7 DEF Clearing, At
    <3>4. ASSUME NEW a \in EventIds' \ disturbed'
          PROVE  /\ clearings'[a] <= 1
                 /\ \A u, v \in Writer : Clearing(u, a)' /\ Clearing(v, a)' => u = v
                 /\ \A v \in Writer : Clearing(v, a)' /\ At(v, "clearing")' => clearings'[a] = 0
                 /\ events'[a].active /\ clearings'[a] # 0 =>
                      \E v \in Writer : Clearing(v, a)' /\ At(v, "close")'
      <4>1. a \in EventIds \ disturbed
        BY <2>8, <3>1
      <4>2. CASE a = e
        <5>1. \A v \in Writer \ {w} : ~Clearing(v, a)
          <6>1. a # Alarm
            BY <4>1, EventsBasic DEF Base
          <6> QED  BY <2>1, <4>2, <6>1 DEF Clearing
        <5>2. clearings[a] = 0
          BY <2>2, <3>3, <4>1, <4>2, <5>1, <3>1, EventsBasic DEF ClearingsFew, Base, Active
        <5> QED  BY <3>1, <3>2, <4>1, <5>1, <5>2
      <4>3. CASE a # e
        <5>1. /\ clearings'[a] <= 1
              /\ \A u, v \in Writer : Clearing(u, a)' /\ Clearing(v, a)' => u = v
              /\ \A v \in Writer : Clearing(v, a)' /\ At(v, "clearing")' => clearings'[a] = 0
          BY <3>1, <3>2, <3>3, <4>1, <4>3 DEF ClearingsFew
        <5>2. events'[a].active /\ clearings'[a] # 0 =>
                \E v \in Writer : Clearing(v, a)' /\ At(v, "close")'
          BY <3>1, <3>2, <3>3, <4>1, <4>3 DEF ClearingsFew
        <5> QED  BY <5>1, <5>2
      <4> QED  BY <4>1, <4>2, <4>3
    <3> QED  BY <3>4 DEF ClearingsFew
  <2> QED  BY <2>8, <2>9, <2>10, <2>11, <2>12 DEF Base
<1> QED  BY <1>3, <1>4

LEMMA InsertClearingKeeps ==
  ASSUME Base, StoreAssumption, NEW w \in Writer, InsertClearing(w)
  PROVE  Base'
<1> DEFINE f == run[w].found
<1>1. /\ run[w].pc = "clearing" /\ Goto(w, "close")
      /\ UNCHANGED <<ram, last, events, pending, phase, counters, marks>>
  BY DEF InsertClearing, At
<1>2. /\ Busy(w) /\ RunsShape /\ run[w].call.kind \notin {"open", "on"}
      /\ f \in EventIds \cup {Alarm} /\ f # None
  BY <1>1, AtStatement DEF Statements, Base, RunOK
<1>3. Went(w, "close") /\ Moved(w)
  BY <1>1, <1>2, GotoIs DEF Moved, MayGo, Statements
<1>4. \/ /\ f = Alarm /\ clearings' = clearings
         /\ alarmRows' = IF alarmRows > 0 THEN alarmRows - 1 ELSE 0
      \/ /\ f \in EventIds /\ alarmRows' = alarmRows
         /\ clearings' = [clearings EXCEPT ![f] = @ + 1]
  BY <1>2 DEF InsertClearing
<1>5. alarmRows' \in Nat /\ alarmRows' <= alarmRows /\ alarmRows \in Nat
  <2>1. alarmRows \in Nat
    BY Counters
  <2> QED  BY <1>4, <2>1
<1>6. /\ EventsShape /\ clearings \in Seq(Nat) /\ Len(clearings) = Len(events)
      /\ EventIds = 1..Len(events) /\ Len(events) \in Nat
      /\ DOMAIN clearings = EventIds
      /\ \A a \in EventIds : clearings[a] \in Nat
  BY EventsBasic DEF Base, EventsShape
<1> HIDE DEF f
<1>7. clearings' \in Seq(Nat) /\ Len(clearings') = Len(clearings)
  <2>1. CASE clearings' = clearings
    BY <1>6, <2>1
  <2>2. CASE f \in EventIds /\ clearings' = [clearings EXCEPT ![f] = @ + 1]
    <3>1. f \in 1..Len(clearings) /\ clearings[f] + 1 \in Nat
      BY <1>6, <2>2
    <3> QED  BY <1>6, <2>2, <3>1, ExceptSeq
  <2> QED  BY <1>4, <2>1, <2>2
<1>8. EventsShape' /\ EventIds' = EventIds
  BY <1>1, <1>6, <1>7 DEF EventsShape, EventIds
<1>9. Shape' /\ PhaseShape' /\ HistoryAlternates'
  BY <1>1, <1>5, <1>8 DEF Base, Shape, PhaseShape, HistoryAlternates, ram, counters, marks
<1>10. RunsShape' /\ OneCall'
  BY <1>1, <1>2, <1>3, <1>8, MovedKeeps
<1>11. /\ run'[w].pc = "close" /\ run'[w].found = f
       /\ \A v \in Writer \ {w} : run'[v] = run[v]
  BY <1>3 DEF Went, Turned, f
<1>12. RowsFresh'
  BY <1>1, <1>11, FreshFrame DEF Base, marks
<1>13. ClearingsFew'
  <2>1. ClearingsFew /\ events' = events /\ disturbed' = disturbed
    BY <1>1 DEF Base, marks
  <2>2. \A v \in Writer : \A a : Clearing(v, a)' <=> Clearing(v, a)
    BY <1>1, <1>11 DEF Clearing, f
  <2>3. \A v \in Writer : /\ At(v, "clearing")' => v # w /\ At(v, "clearing")
                          /\ At(v, "close")' <=> v = w \/ At(v, "close")
    BY <1>1, <1>11 DEF At
  <2>4. \A a : Clearing(w, a) <=> a = f
    BY <1>1 DEF Clearing, f
  <2>5. ASSUME NEW a \in EventIds \ disturbed
        PROVE  /\ clearings'[a] <= 1
               /\ \A u, v \in Writer : Clearing(u, a)' /\ Clearing(v, a)' => u = v
               /\ \A v \in Writer : Clearing(v, a)' /\ At(v, "clearing")' => clearings'[a] = 0
               /\ events'[a].active /\ clearings'[a] # 0 =>
                    \E v \in Writer : Clearing(v, a)' /\ At(v, "close")'
    <3>1. CASE a = f
      <4>1. clearings'[a] = 1
        <5>1. clearings[f] = 0 /\ f \in EventIds
          BY <1>1, <2>1, <2>4, <3>1 DEF ClearingsFew, At
        <5>2. clearings' = [clearings EXCEPT ![f] = @ + 1]
          BY <1>4, <1>6, <5>1, EventsBasic
        <5> QED  BY <1>6, <3>1, <5>1, <5>2
      <4>2. \A u, v \in Writer : Clearing(u, a)' /\ Clearing(v, a)' => u = v
        BY <2>1, <2>2 DEF ClearingsFew
      <4>3. \A v \in Writer : ~(Clearing(v, a)' /\ At(v, "clearing")')
        BY <2>2, <2>3, <2>4, <3>1, <4>2
      <4> QED  BY <2>2, <2>3, <2>4, <3>1, <4>1, <4>2, <4>3
    <3>2. CASE a # f
      <4>1. clearings'[a] = clearings[a]
        BY <1>4, <1>6, <3>2
      <4>2. /\ clearings'[a] <= 1
            /\ \A u, v \in Writer : Clearing(u, a)' /\ Clearing(v, a)' => u = v
            /\ \A v \in Writer : Clearing(v, a)' /\ At(v, "clearing")' => clearings'[a] = 0
        BY <2>1, <2>2, <2>3, <4>1 DEF ClearingsFew
      <4>3. events'[a].active /\ clearings'[a] # 0 =>
              \E v \in Writer : Clearing(v, a)' /\ At(v, "close")'
        BY <2>1, <2>2, <2>3, <4>1 DEF ClearingsFew
      <4> QED  BY <4>2, <4>3
    <3> QED  BY <3>1, <3>2
  <2> QED  BY <1>8, <2>1, <2>5 DEF ClearingsFew
<1> QED  BY <1>8, <1>9, <1>10, <1>12, <1>13 DEF Base

(* Closing events of which none is left that a thread was about to close.  *)
LEMMA ClosingKeeps ==
  ASSUME Base, StoreAssumption, NEW w \in Writer, Busy(w), Moved(w),
         run'[w].pc \in {"idle", "find", "read", "sweep"},
         NEW E, CloseAll(E, run[w].found), run[w].found \in {Alarm} \cup EventIds,
         run[w].pc = "close" => {run[w].found} \cap Active \subseteq E,
         UNCHANGED <<ram, last, alarmRows, clearings, pending, phase, counters, marks>>
  PROVE  Base'
<1>1. EventsShape /\ RunsShape
  BY DEF Base
<1>2. EventsShape' /\ ClosedAre(E) /\ EventIds' = EventIds
  BY <1>1, CloseAllIs DEF Forced, ClosedAre
<1>3. Shape' /\ PhaseShape' /\ HistoryAlternates'
  BY <1>2 DEF Base, Shape, PhaseShape, HistoryAlternates, ram, counters, marks
<1>4. RunsShape' /\ OneCall'
  BY <1>2, MovedKeeps
<1>5. \A v \in Writer \ {w} : run'[v] = run[v]
  BY DEF Moved, Ended, Went, Turned
<1>6. RowsFresh'
  BY <1>5, FreshFrame DEF Base, marks
<1>7. ClearingsFew'
  <2>1. \A v \in Writer : \A e \in EventIds \ disturbed' :
           At(v, "close") /\ run[v].found = e /\ events'[e].active =>
             run'[v].pc = "close" /\ run'[v].found = e
    <3> SUFFICES ASSUME NEW v \in Writer, NEW e \in EventIds, At(v, "close"), run[v].found = e,
                        events'[e].active
                 PROVE  v # w
      BY <1>5 DEF At
    <3>1. e \in Active /\ e \notin E
      BY <1>2 DEF ClosedAre, Active
    <3> QED  BY <3>1 DEF At
  <2>2. disturbed' = disturbed /\ ClearingsFew
    BY DEF marks, Base
  <2>3. \A e \in EventIds : events'[e].active => events[e].active
    BY <1>2 DEF ClosedAre
  <2> QED  BY <1>1, <1>2, <1>5, <2>1, <2>2, <2>3, FewFrame
<1> QED  BY <1>2, <1>3, <1>4, <1>6, <1>7 DEF Base

LEMMA CloseKeeps ==
  ASSUME Base, StoreAssumption, NEW w \in Writer, Close(w)
  PROVE  Base'
<1>1. /\ run[w].pc = "close"
      /\ CloseAll({run[w].found} \cap Active, run[w].found)
      /\ UNCHANGED <<ram, last, alarmRows, clearings, pending, phase, counters, marks>>
      /\ AfterClearing(w) \/ Goto(w, "sweep")
  BY DEF Close, At
<1>2. /\ Busy(w) /\ run[w].call.kind \notin {"open", "on"} /\ run[w].found # None
      /\ run[w].found \in EventIds \cup {Alarm}
      /\ RunsShape
  BY <1>1, AtStatement DEF Statements, RunOK, Base
<1>3. Moved(w) /\ run'[w].pc \in {"idle", "find", "read", "sweep"}
  <2>1. CASE AfterClearing(w)
    BY <1>2, <2>1, AfterClearingMoves, IdleFields DEF Ended, Went
  <2>2. CASE Goto(w, "sweep")
    BY <1>2, <2>2, GotoIs DEF Moved, MayGo, Statements, Went
  <2> QED  BY <1>1, <2>1, <2>2
<1> QED  BY <1>1, <1>2, <1>3, ClosingKeeps

LEMMA SweepKeeps ==
  ASSUME Base, StoreAssumption, NEW w \in Writer, Sweep(w)
  PROVE  Base'
<1>1. /\ run[w].pc = "sweep"
      /\ CloseAll(Active, run[w].found)
      /\ UNCHANGED <<ram, last, alarmRows, clearings, pending, phase, counters, marks>>
      /\ AfterClearing(w)
  BY DEF Sweep, At, Sweepable
<1>2. /\ Busy(w) /\ run[w].found # None /\ run[w].found \in EventIds \cup {Alarm}
  BY <1>1, AtStatement DEF Statements, RunOK
<1>3. Moved(w) /\ run'[w].pc \in {"idle", "find", "read", "sweep"}
  BY <1>1, <1>2, AfterClearingMoves, IdleFields DEF Ended, Went
<1> QED  BY <1>1, <1>2, <1>3, ClosingKeeps

-----------------------------------------------------------------------------
(* Locks, crashes and the reconciliation.                                  *)

LEMMA LockedKeeps ==
  ASSUME Base, StoreAssumption, NEW w \in Writer, Locked(w)
  PROVE  Base'
<1>1. /\ Busy(w) /\ faults < MaxFault /\ faults' = faults + 1
      /\ UNCHANGED <<ram, tables, pending, phase, extras, doubled, overlapped>>
      /\ disturbed' = IF At(w, "close") /\ run[w].found # Alarm
                        THEN disturbed \cup {run[w].found} ELSE disturbed
      /\ missed' = (missed \/ ~Running)
  BY DEF Locked, Busy
<1>2. /\ RunsShape /\ run[w].pc \in Statements /\ CallOK(run[w].call)
  BY <1>1, BusyFields DEF Base
<1>3. RunOK(run[w], EventIds)
  BY <1>1, <1>2 DEF RunsShape
<1>4. \/ run[w].pc \in {"read", "row", "event"} /\ (Goto(w, "read") \/ AfterRow(w))
      \/ run[w].pc \notin {"read", "row", "event"} /\ (Goto(w, "find") \/ Done(w))
  BY DEF Locked
<1>5. Moved(w) /\ (Ended(w) \/ Went(w, "read") \/ Went(w, "find"))
  <2>1. CASE Goto(w, "read") /\ run[w].pc \in {"read", "row", "event"}
    BY <1>1, <1>2, <1>3, <2>1, GotoIs DEF Moved, MayGo, Statements, RunOK, CallOK
  <2>2. CASE AfterRow(w)
    BY <1>1, <2>2, AfterRowMoves
  <2>3. CASE Goto(w, "find") /\ run[w].pc \notin {"read", "row", "event"}
    BY <1>1, <1>2, <1>3, <2>3, GotoIs DEF Moved, MayGo, Statements, RunOK
  <2>4. CASE Done(w)
    BY <1>1, <1>2, <2>4, DoneIs DEF Moved
  <2> QED  BY <1>4, <2>1, <2>2, <2>3, <2>4
<1>6. /\ run'[w].pc \in {"idle", "find", "read"}
      /\ \A v \in Writer \ {w} : run'[v] = run[v]
  BY <1>5, IdleFields DEF Ended, Went, Turned
<1>7. disturbed' \subseteq EventIds /\ disturbed \subseteq disturbed' /\ missed' \in BOOLEAN
  <2>1. run[w].found \in EventIds \cup {None, Alarm} /\ (At(w, "close") => run[w].found # None)
    BY <1>3 DEF RunOK, At
  <2>2. disturbed \subseteq EventIds
    BY DEF Base, Shape
  <2> QED  BY <1>1, <2>1, <2>2
<1>8. Shape' /\ EventsShape' /\ PhaseShape' /\ HistoryAlternates' /\ EventIds' = EventIds
  <2>1. faults' \in 0..MaxFault
    BY <1>1, Counters
  <2> QED  BY <1>1, <1>7, <2>1 DEF Base, Shape, EventsShape, PhaseShape, HistoryAlternates, ram,
                                   tables, EventIds
<1>9. RunsShape' /\ OneCall'
  BY <1>1, <1>5, <1>8, MovedKeeps
<1>10. RowsFresh'
  BY <1>1, <1>6, FreshFrame DEF Base, tables
<1>11. ClearingsFew'
  <2>1. \A v \in Writer : \A e \in EventIds \ disturbed' :
           At(v, "close") /\ run[v].found = e /\ events'[e].active =>
             run'[v].pc = "close" /\ run'[v].found = e
    <3> SUFFICES ASSUME NEW v \in Writer, NEW e \in EventIds \ disturbed', At(v, "close"), run[v].found = e
                 PROVE  v # w
      BY <1>6 DEF At
    <3>1. e # Alarm
      BY EventsBasic DEF Base
    <3> QED  BY <1>1, <3>1
  <2>2. ClearingsFew /\ EventsShape /\ UNCHANGED <<events, clearings>>
    BY <1>1 DEF Base, tables
  <2> QED  BY <1>6, <1>7, <1>8, <2>1, <2>2, FewFrame
<1> QED  BY <1>8, <1>9, <1>10, <1>11 DEF Base

LEMMA CrashKeeps ==
  ASSUME Base, StoreAssumption, Crash
  PROVE  Base'
<1>1. /\ faults < MaxFault /\ faults' = faults + 1 /\ cards' \subseteq came
      /\ pending' = {} /\ run' = [w \in Writer |-> Idle]
      /\ phase' = [name |-> "close", todo |-> Active]
      /\ missed' = FALSE
      /\ disturbed' = disturbed
           \cup ({run[w].found : w \in {v \in Writer : At(v, "close")}} \ {Alarm})
      /\ UNCHANGED <<came, siren, tables, extras, doubled, overlapped>>
  BY DEF Crash
<1>2. RunsShape /\ EventsShape
  BY DEF Base
<1>3. /\ run' \in [Writer -> Started \cup {Idle}]
      /\ \A v \in Writer : run'[v] = Idle /\ run'[v].pc = "idle"
  BY <1>1, IdleFields
<1>4. disturbed' \subseteq EventIds /\ disturbed \subseteq disturbed'
  <2>1. \A v \in Writer : At(v, "close") => run[v].found \in EventIds \cup {Alarm}
    <3> SUFFICES ASSUME NEW v \in Writer, At(v, "close")
                 PROVE  run[v].found \in EventIds \cup {Alarm}
      OBVIOUS
    <3> QED  BY AtStatement DEF At, Statements, RunOK
  <2>2. disturbed \subseteq EventIds
    BY DEF Base, Shape
  <2> QED  BY <1>1, <2>1, <2>2
<1>5. Shape' /\ EventsShape' /\ HistoryAlternates' /\ EventIds' = EventIds
  <2>1. faults' \in 0..MaxFault
    BY <1>1, Counters
  <2> QED  BY <1>1, <1>4, <2>1 DEF Base, Shape, EventsShape, HistoryAlternates, tables, EventIds
<1>6. PhaseShape'
  BY <1>1, <1>5 DEF PhaseShape, Active
<1>7. RunsShape'
  BY <1>1, <1>3 DEF RunsShape, Busy
<1>8. RowsFresh'
  BY <1>1, <1>3, FreshFrame DEF Base, tables
<1>9. ClearingsFew'
  <2>1. \A v \in Writer : \A e \in EventIds \ disturbed' : ~(At(v, "close") /\ run[v].found = e)
    <3> SUFFICES ASSUME NEW v \in Writer, NEW e \in EventIds, At(v, "close"), run[v].found = e
                 PROVE  e \in disturbed'
      OBVIOUS
    <3>1. e # Alarm
      BY EventsBasic DEF Base
    <3> QED  BY <1>1, <3>1
  <2>2. ClearingsFew /\ UNCHANGED <<events, clearings>>
    BY <1>1 DEF Base, tables
  <2> QED  BY <1>2, <1>3, <1>4, <1>5, <2>1, <2>2, FewFrame
<1>10. OneCall'
  BY <1>1, <1>3 DEF OneCall, Busy
<1> QED  BY <1>5, <1>6, <1>7, <1>8, <1>9, <1>10 DEF Base

(* One step of the reconciliation: the call before has ended, and one      *)
(* more is made, if any.                                                   *)
LEMMA ReconcileKeeps ==
  ASSUME Base, StoreAssumption, Quiet, UNCHANGED <<ram, tables, run, counters, marks>>, PhaseShape',
         pending' = {} \/ \E c : pending' = {c} /\ CallOK(c) /\ c.type # Official /\ OfPhase(c)'
  PROVE  Base'
<1>1. \A c \in pending' : CallOK(c) /\ c.type # Official /\ OfPhase(c)'
  OBVIOUS
<1>2. \A w \in Writer : run[w] = Idle /\ run'[w] = Idle
  BY DEF Quiet
<1>3. Shape' /\ EventsShape' /\ HistoryAlternates' /\ EventIds' = EventIds
  BY DEF Base, Shape, EventsShape, HistoryAlternates, ram, tables, counters, marks, EventIds
<1>4. RunsShape'
  BY <1>1, <1>3, SameKeepsRuns DEF Base
<1>5. RowsFresh'
  BY FreshFrame DEF Base, tables, marks
<1>6. ClearingsFew'
  BY DEF Base, ClearingsFew, Clearing, At, tables, marks, EventIds
<1>7. OneCall'
  BY <1>1, <1>2 DEF OneCall, Busy
<1> QED  BY <1>3, <1>4, <1>5, <1>6, <1>7 DEF Base

LEMMA ReconcileCloseKeeps ==
  ASSUME Base, StoreAssumption, ReconcileClose
  PROVE  Base'
<1>1. /\ phase.name = "close" /\ Quiet /\ pending = {}
      /\ UNCHANGED <<ram, tables, run, counters, marks>>
      /\ PhaseShape /\ EventsShape /\ EventIds' = EventIds
  BY DEF ReconcileClose, Quiet, Base, tables, EventIds
<1>2. CASE phase.todo = {}
  <2>1. phase' = [name |-> "insert", todo |-> cards] /\ pending' = {}
    BY <1>1, <1>2 DEF ReconcileClose
  <2>2. PhaseShape'
    BY <1>1, <2>1 DEF PhaseShape, ram
  <2> QED  BY <1>1, <2>1, <2>2, ReconcileKeeps
<1>3. CASE phase.todo # {}
  <2>1. PICK e \in phase.todo :
           /\ phase' = [phase EXCEPT !.todo = @ \ {e}]
           /\ pending' = IF \E t \in cards : Matches(e, t) THEN {} ELSE {StaleCall(e)}
    BY <1>3 DEF ReconcileClose
  <2>2. phase' = [name |-> "close", todo |-> phase.todo \ {e}]
    <3> DEFINE todo == phase.todo
    <3>1. phase = [name |-> "close", todo |-> todo]
      BY <1>1 DEF PhaseShape
    <3>2. phase' = [phase EXCEPT !.todo = todo \ {e}]
      BY <2>1
    <3> HIDE DEF todo
    <3>3. phase' = [name |-> "close", todo |-> todo \ {e}]
      BY <3>1, <3>2
    <3> QED  BY <3>3 DEF todo
  <2>3. e \in EventIds /\ phase.todo \subseteq EventIds
    BY <1>1 DEF PhaseShape
  <2>4. PhaseShape'
    BY <1>1, <2>2, <2>3 DEF PhaseShape
  <2>5. /\ CallOK(StaleCall(e)) /\ StaleCall(e).type # Official
        /\ phase'.name = "close" /\ StaleCall(e).kind = "stale"
    BY <1>1, <2>2, <2>3, StaleCallOK
  <2> QED  BY <1>1, <2>1, <2>4, <2>5, ReconcileKeeps DEF OfPhase
<1> QED  BY <1>2, <1>3

LEMMA ReconcileInsertKeeps ==
  ASSUME Base, StoreAssumption, ReconcileInsert
  PROVE  Base'
<1>1. /\ phase.name = "insert" /\ Quiet /\ pending = {}
      /\ UNCHANGED <<ram, tables, run, counters, marks>>
      /\ PhaseShape /\ cards \subseteq Tid
  BY DEF ReconcileInsert, Quiet, Base, Shape
<1>2. CASE phase.todo = {}
  <2>1. phase' = [name |-> "over", todo |-> {}] /\ pending' = {}
    BY <1>1, <1>2 DEF ReconcileInsert
  <2>2. PhaseShape'
    BY <2>1 DEF PhaseShape
  <2> QED  BY <1>1, <2>1, <2>2, ReconcileKeeps
<1>3. CASE phase.todo # {}
  <2>1. PICK t \in phase.todo :
           /\ phase' = [phase EXCEPT !.todo = @ \ {t}]
           /\ pending' = IF GidActive(DbGid(t)) # {} THEN {}
                           ELSE {[CallOf("open", t) EXCEPT !.gid = DbGid(t)]}
    BY <1>3 DEF ReconcileInsert
  <2>2. phase' = [name |-> "insert", todo |-> phase.todo \ {t}]
    <3> DEFINE todo == phase.todo
    <3>1. phase = [name |-> "insert", todo |-> todo]
      BY <1>1 DEF PhaseShape
    <3>2. phase' = [phase EXCEPT !.todo = todo \ {t}]
      BY <2>1
    <3> HIDE DEF todo
    <3>3. phase' = [name |-> "insert", todo |-> todo \ {t}]
      BY <3>1, <3>2
    <3> QED  BY <3>3 DEF todo
  <2>3. t \in Tid /\ phase.todo \subseteq cards
    BY <1>1 DEF PhaseShape
  <2>4. PhaseShape'
    BY <1>1, <2>2, <2>3 DEF PhaseShape, ram
  <2> DEFINE d == [CallOf("open", t) EXCEPT !.gid = DbGid(t)]
  <2>5. /\ CallOK(d) /\ d = [kind |-> "open", type |-> TypeOf[t], gid |-> DbGid(t)]
        /\ TypeOf[t] # Official
    <3>1. DbGid(t) \in Gid
      BY <2>3 DEF DbGid, Gid
    <3>2. TypeOf[t] # Official
      BY <2>3 DEF StoreAssumption, CardType
    <3> QED  BY <2>3, <3>1, <3>2, CardCallOK
  <2>6. d.type # Official /\ d.kind = "open"
    BY <2>5
  <2> HIDE DEF d
  <2>7. pending' = {} \/ pending' = {d}
    BY <2>1 DEF d
  <2>8. phase'.name = "insert"
    BY <2>2
  <2> QED  BY <1>1, <2>4, <2>5, <2>6, <2>7, <2>8, ReconcileKeeps DEF OfPhase
<1> QED  BY <1>2, <1>3

LEMMA StutterKeeps ==
  ASSUME Base, UNCHANGED vars
  PROVE  Base'
<1>1. Shape' /\ EventsShape' /\ PhaseShape' /\ HistoryAlternates'
  BY DEF Base, Shape, EventsShape, PhaseShape, HistoryAlternates, vars, ram, tables, counters, marks,
         EventIds
<1>2. RunsShape'
  BY SameKeepsRuns DEF Base, RunsShape, vars, tables, EventIds
<1>3. RowsFresh'
  BY DEF Base, RowsFresh, Writing, At, vars, tables, marks
<1>4. ClearingsFew'
  BY DEF Base, ClearingsFew, Clearing, At, EventIds, vars, tables, marks
<1>5. OneCall'
  BY DEF Base, OneCall, OfPhase, Busy, Running, vars
<1> QED  BY <1>1, <1>2, <1>3, <1>4, <1>5 DEF Base

-----------------------------------------------------------------------------
(* The tables' part is invariant.                                          *)

LEMMA InitBase ==
  ASSUME StoreAssumption, Init
  PROVE  Base
<1>1. /\ events = <<>> /\ clearings = <<>> /\ pending = {} /\ EventIds = {}
      /\ run = [w \in Writer |-> Idle]
      /\ extras = 0 /\ faults = 0 /\ doubled = {} /\ overlapped = {} /\ disturbed = {}
      /\ missed = FALSE /\ phase = [name |-> "run", todo |-> {}]
      /\ came = {} /\ cards = {} /\ siren \in BOOLEAN
  <2>1. EventIds = {}
    <3>1. events = <<>>
      BY DEF Init
    <3>2. events \in Seq(Event) /\ Len(events) = 0
      BY <3>1, EmptySeq
    <3>3. EventIds = 1..0
      BY <3>2, LenProperties DEF EventIds
    <3> QED  BY <3>3
  <2>2. siren \in BOOLEAN
    BY DEF Init, StoreAssumption
  <2> QED  BY <2>1, <2>2 DEF Init
<1>2. /\ \A w \in Writer : run[w] = Idle /\ run[w].pc = "idle"
      /\ MaxExtra \in Nat /\ MaxFault \in Nat
  <2>1. \A w \in Writer : run[w] = Idle
    BY <1>1
  <2>2. \A w \in Writer : run[w].pc = "idle"
    BY <2>1, IdleFields
  <2>3. MaxExtra \in Nat /\ MaxFault \in Nat
    BY DEF StoreAssumption
  <2> QED  BY <2>1, <2>2, <2>3
<1>3. alarmRows \in Nat
  <2>1. alarmRows = 0 \/ alarmRows = 1
    BY Zenon DEF Init
  <2> QED  BY <2>1
<1>4. last \in [Type -> {"", "none", "high"}]
  <2> DEFINE level(ty) == IF ty = Official /\ siren THEN "high" ELSE ""
  <2>1. \A ty \in Type : level(ty) \in {"", "none", "high"}
    OBVIOUS
  <2>2. last = [ty \in Type |-> level(ty)]
    BY DEF Init
  <2> HIDE DEF level
  <2> QED  BY <2>1, <2>2
<1>5. Shape
  <2>1. extras \in 0..MaxExtra /\ faults \in 0..MaxFault
    BY <1>1, <1>2
  <2> QED  BY <1>1, <1>3, <1>4, <2>1 DEF Shape
<1>6. EventsShape
  BY <1>1, EmptySeq DEF EventsShape
<1>7. RunsShape /\ PhaseShape /\ HistoryAlternates
  BY <1>1, <1>2 DEF RunsShape, PhaseShape, HistoryAlternates, Busy
<1>8. RowsFresh /\ ClearingsFew /\ OneCall
  BY <1>1, <1>2 DEF RowsFresh, Writing, At, ClearingsFew, OneCall, Running
<1> QED  BY <1>5, <1>6, <1>7, <1>8 DEF Base

LEMMA NextBase ==
  ASSUME Base, StoreAssumption, [Next]_vars
  PROVE  Base'
<1>1. ASSUME NEW t \in Tid, Appear(t) PROVE Base'
  BY <1>1, AppearKeeps
<1>2. ASSUME NEW t \in Tid, NEW kind \in {"clear", "prune"}, Vanish(t, kind) PROVE Base'
  BY <1>2, VanishKeeps
<1>3. ASSUME NEW w \in Writer, Statement(w) PROVE Base'
  BY <1>3, BeginKeeps, ReadLastKeeps, InsertRowKeeps, InsertEventKeeps, FindKeeps,
     InsertClearingKeeps, CloseKeeps, SweepKeeps DEF Statement
<1>4. ASSUME NEW w \in Writer, Locked(w) PROVE Base'
  BY <1>4, LockedKeeps
<1>5. CASE Siren
  BY <1>5, SirenKeeps
<1>6. CASE CleanUp
  BY <1>6, CleanUpKeeps
<1>7. CASE ForceClose
  BY <1>7, ForceCloseKeeps
<1>8. CASE Crash
  BY <1>8, CrashKeeps
<1>9. CASE ReconcileClose
  BY <1>9, ReconcileCloseKeeps
<1>10. CASE ReconcileInsert
  BY <1>10, ReconcileInsertKeeps
<1>11. CASE UNCHANGED vars
  BY <1>11, StutterKeeps
<1> QED  BY <1>1, <1>2, <1>3, <1>4, <1>5, <1>6, <1>7, <1>8, <1>9, <1>10, <1>11 DEF Next

LEMMA BaseInvariance ==
  ASSUME StoreAssumption
  PROVE  Spec => []Base
<1>1. Init => Base
  BY InitBase
<1>2. Base /\ [Next]_vars => Base'
  BY NextBase
<1> QED  BY <1>1, <1>2, PTL DEF Spec

(* Every table, every call and every thread's statement is of its type: no *)
(* call records an event of the siren, a clearing refers to an event that  *)
(* is there, and an event is closed exactly when it names what closed it.  *)
THEOREM TypeCorrect == Spec => []TypeOK
<1> SUFFICES ASSUME StoreAssumption
             PROVE  Spec => []TypeOK
  BY StoreAssumption
<1>1. Base => TypeOK
  <2> SUFFICES ASSUME Base
               PROVE  TypeOK
    OBVIOUS
  <2>1. alarmRows \in Nat
    BY Counters
  <2>2. /\ clearings \in [EventIds -> Nat]
        /\ \A e \in EventIds :
             /\ events[e] \in [type : CardType, gid : Gid, active : BOOLEAN,
                               by : {None, Alarm, Forced} \cup EventIds]
             /\ events[e].active <=> events[e].by = None
    <3>1. clearings \in Seq(Nat) /\ DOMAIN clearings = EventIds
      BY EventsBasic DEF Base, EventsShape
    <3>2. clearings \in [EventIds -> Nat]
      BY <3>1, EventsBasic, LenProperties DEF Base, EventsShape
    <3>3. ASSUME NEW e \in EventIds
          PROVE  /\ events[e] \in [type : CardType, gid : Gid, active : BOOLEAN,
                                   by : {None, Alarm, Forced} \cup EventIds]
                 /\ events[e].active <=> events[e].by = None
      <4>1. events[e] \in Event
        BY EventsBasic DEF Base
      <4>2. events[e].by \in {None, Alarm, Forced} \cup EventIds
        BY DEF Base, EventsShape
      <4>3. events[e].active <=> events[e].by = None
        BY DEF Base, EventsShape
      <4> QED  BY <4>1, <4>2, <4>3 DEF Event
    <3> QED  BY <3>2, <3>3
  <2>3. pending \subseteq Call
    BY DEF Base, RunsShape, CallOK
  <2>4. \A w \in Writer : \/ run[w] = Idle
                          \/ /\ run[w].call \in Call
                             /\ run[w].pc \in {"read", "row", "event", "find", "clearing", "close", "sweep"}
                             /\ run[w].found \in EventIds \cup {None, Alarm}
                             /\ run[w].row \in Type
    <3> SUFFICES ASSUME NEW w \in Writer, Busy(w)
                 PROVE  /\ run[w].call \in Call /\ run[w].pc \in Statements
                        /\ run[w].found \in EventIds \cup {None, Alarm} /\ run[w].row \in Type
      BY DEF Busy, Statements
    <3>1. RunsShape
      BY DEF Base
    <3>2. RunOK(run[w], EventIds)
      BY <3>1 DEF RunsShape
    <3> QED  BY <3>1, <3>2, BusyFields DEF RunOK
  <2>5. phase.name \in {"run", "close", "insert", "over"}
    BY DEF Base, PhaseShape
  <2>6. /\ cards \subseteq came /\ came \subseteq Tid /\ siren \in BOOLEAN
        /\ last \in [Type -> {"", "none", "high"}]
        /\ doubled \cup overlapped \subseteq Type /\ disturbed \subseteq EventIds
        /\ missed \in BOOLEAN /\ extras \in 0..MaxExtra /\ faults \in 0..MaxFault
    BY DEF Base, Shape
  <2> QED  BY <2>1, <2>2, <2>3, <2>4, <2>5, <2>6 DEF TypeOK
<1> QED  BY <1>1, BaseInvariance, PTL

(* "Never write consecutive": a type has two rows that say the same only   *)
(* when two calls had read its last row before either wrote.               *)
THEOREM HistoryCorrect == Spec => []HistoryAlternates
<1> SUFFICES ASSUME StoreAssumption
             PROVE  Spec => []HistoryAlternates
  BY StoreAssumption
<1>1. Base => HistoryAlternates
  BY DEF Base
<1> QED  BY <1>1, BaseInvariance, PTL

(* A second clearing for an event takes two calls that found it at once,   *)
(* or one that broke off between its clearing and the closing.             *)
THEOREM OneClearingCorrect == Spec => []OneClearing
<1> SUFFICES ASSUME StoreAssumption
             PROVE  Spec => []OneClearing
  BY StoreAssumption
<1>1. Base => OneClearing
  BY DEF Base, ClearingsFew, OneClearing
<1> QED  BY <1>1, BaseInvariance, PTL

(* No statement of any thread touches an event that is closed.             *)
THEOREM ClosedOnceCorrect == Spec => ClosedOnce
<1> SUFFICES ASSUME StoreAssumption
             PROVE  Spec => ClosedOnce
  BY StoreAssumption
<1> DEFINE Kept == \A e \in EventIds :
               ~events[e].active => events'[e].active = FALSE /\ events'[e].by = events[e].by
<1>1. ASSUME Base, [Next]_vars
      PROVE  Kept
  <2>1. EventsShape /\ \A e \in EventIds : events[e].active \in BOOLEAN
    BY <1>1, EventsBasic DEF Base, Event
  <2>2. CASE events' = events
    BY <2>1, <2>2
  <2>3. ASSUME NEW E \in SUBSET Active, NEW by \in {Alarm, Forced} \cup EventIds, CloseAll(E, by),
               clearings' = clearings
        PROVE  Kept
    <3>1. ClosedAre(E)
      BY <2>1, <2>3, CloseAllIs
    <3> QED  BY <2>1, <3>1 DEF ClosedAre, Active
  <2>4. ASSUME NEW w \in Writer, InsertEvent(w)
        PROVE  Kept
    <3>1. run[w].pc = "event"
      BY <2>4 DEF InsertEvent, At
    <3>2. CallOK(run[w].call) /\ run[w].call.kind = "open"
      BY <1>1, <3>1, AtStatement DEF Statements, RunOK
    <3>3. \A e \in EventIds : events'[e] = events[e]
      BY <2>1, <2>4, <3>2, AppendIs DEF InsertEvent
    <3> QED  BY <2>1, <3>3
  <2>5. ASSUME NEW w \in Writer, Close(w) \/ Sweep(w)
        PROVE  Kept
    <3>1. run[w].pc \in {"close", "sweep"} /\ clearings' = clearings
      BY <2>5 DEF Close, Sweep, At
    <3>2. run[w].found \in {Alarm} \cup EventIds
      BY <1>1, <3>1, AtStatement DEF Statements, RunOK
    <3>3. \E E \in SUBSET Active : CloseAll(E, run[w].found)
      BY <2>5 DEF Close, Sweep, Sweepable
    <3> QED  BY <2>3, <3>1, <3>2, <3>3
  <2>6. CASE ForceClose
    BY <2>3, <2>6 DEF ForceClose
  <2> QED  BY <1>1, <2>2, <2>4, <2>5, <2>6
           DEF Next, Statement, Appear, Vanish, Siren, Begin, ReadLast, InsertRow, Find, InsertClearing,
               Locked, CleanUp, Crash, ReconcileClose, ReconcileInsert, tables, vars
<1>2. Spec => []Base
  BY BaseInvariance
<1>3. Base /\ [Next]_vars => [Kept]_vars
  BY <1>1
<1> QED  BY <1>2, <1>3, PTL DEF Spec, ClosedOnce

-----------------------------------------------------------------------------
(* The reconciliation: clearing the events that have no card.              *)

(* While it runs, a thread that has a call is the only one.                *)
LEMMA BusyAlone ==
  ASSUME Base, ~Running, NEW w \in Writer, Busy(w)
  PROVE  /\ pending = {} /\ OfPhase(run[w].call)
         /\ \A v \in Writer \ {w} : run[v] = Idle /\ run[v].pc = "idle"
<1>1. pending = {} /\ OfPhase(run[w].call) /\ \A v \in Writer : Busy(v) => v = w
  BY DEF Base, OneCall
<1> QED  BY <1>1, IdleFields DEF Busy

LEMMA SameIsClosed ==
  ASSUME EventsShape, events' = events
  PROVE  ClosedAre({})
  BY DEF ClosedAre, EventIds

(* Fewer events are active, and the sets that are counted are finite.      *)
LEMMA FewerActive ==
  ASSUME EventsShape, NEW E, ClosedAre(E), NEW g
  PROVE  /\ GidActive(g)' = GidActive(g) \ E /\ Active' = Active \ E
         /\ IsFiniteSet(GidActive(g)) /\ IsFiniteSet(GidActive(g)')
         /\ Cardinality(GidActive(g)) \in Nat /\ Cardinality(GidActive(g)') \in Nat
         /\ Cardinality(GidActive(g)') <= Cardinality(GidActive(g))
<1>1. Active' = Active \ E
  BY DEF ClosedAre, Active
<1>2. GidActive(g)' = GidActive(g) \ E
  <2>1. \A e \in Active : events'[e].gid = events[e].gid
    BY DEF ClosedAre, Active
  <2> QED  BY <1>1, <2>1 DEF GidActive
<1>3. IsFiniteSet(EventIds) /\ GidActive(g) \subseteq EventIds
  BY EventsBasic DEF GidActive, Active
<1>4. IsFiniteSet(GidActive(g))
  BY <1>3, FS_Subset
<1>5. IsFiniteSet(GidActive(g)') /\ Cardinality(GidActive(g)') <= Cardinality(GidActive(g))
  BY <1>2, <1>4, FS_Subset
<1> QED  BY <1>1, <1>2, <1>4, <1>5, FS_CardinalityType

LEMMA TodoFinite ==
  ASSUME Base, phase.name = "close", NEW g
  PROVE  IsFiniteSet(TodoOf(g)) /\ Cardinality(TodoOf(g)) \in Nat
<1>1. IsFiniteSet(EventIds) /\ TodoOf(g) \subseteq EventIds
  BY EventsBasic DEF Base, PhaseShape, TodoOf
<1> QED  BY <1>1, FS_Subset, FS_CardinalityType

(* Closing events keeps the balance of a group when its clearing is still  *)
(* to come, has closed one of its events, or has found none.               *)
LEMMA BalanceFrame ==
  ASSUME Base, phase.name = "close", GroupsClear, phase' = phase, cards' = cards,
         NEW E, ClosedAre(E),
         \A g \in Gid \ {NoGid} : ClosingOf(g) =>
           \/ ClosingOf(g)' \/ GidActive(g)' = {} \/ \E e \in GidActive(g) : e \in E
  PROVE  GroupsClear'
<1> SUFFICES ASSUME NEW g \in Gid \ {NoGid}, ~Carded(g)
             PROVE  Cardinality(GidActive(g)') <= Cardinality(TodoOf(g)') + (IF ClosingOf(g)' THEN 1 ELSE 0)
  BY DEF GroupsClear, Carded
<1>1. EventsShape
  BY DEF Base
<1>2. TodoOf(g)' = TodoOf(g) /\ Cardinality(TodoOf(g)) \in Nat
  <2>1. \A e \in phase.todo : events'[e].gid = events[e].gid
    BY DEF Base, PhaseShape, ClosedAre
  <2> QED  BY <2>1, TodoFinite DEF TodoOf
<1>3. /\ GidActive(g)' = GidActive(g) \ E
      /\ IsFiniteSet(GidActive(g)) /\ IsFiniteSet(GidActive(g)')
      /\ Cardinality(GidActive(g)) \in Nat /\ Cardinality(GidActive(g)') \in Nat
      /\ Cardinality(GidActive(g)') <= Cardinality(GidActive(g))
  BY <1>1, FewerActive
<1>4. Cardinality(GidActive(g)) <= Cardinality(TodoOf(g)) + (IF ClosingOf(g) THEN 1 ELSE 0)
  BY DEF GroupsClear
<1>5. CASE ~ClosingOf(g) \/ ClosingOf(g)'
  BY <1>2, <1>3, <1>4, <1>5
<1>6. CASE GidActive(g)' = {}
  BY <1>2, <1>6, FS_EmptySet
<1>7. ASSUME NEW e \in GidActive(g), e \in E
      PROVE  Cardinality(GidActive(g)') <= Cardinality(TodoOf(g)') + (IF ClosingOf(g)' THEN 1 ELSE 0)
  <2>1. IsFiniteSet(GidActive(g) \ {e}) /\ Cardinality(GidActive(g) \ {e}) = Cardinality(GidActive(g)) - 1
    BY <1>3, FS_RemoveElement
  <2>2. GidActive(g)' \subseteq GidActive(g) \ {e}
    BY <1>3, <1>7
  <2>3. Cardinality(GidActive(g)') <= Cardinality(GidActive(g)) - 1
    BY <2>1, <2>2, FS_Subset
  <2> QED  BY <1>2, <1>3, <1>4, <2>3
<1> QED  BY <1>5, <1>6, <1>7

LEMMA RestFrame ==
  ASSUME Base, phase.name = "close", RestClears, phase' = phase, cards' = cards, NEW E, ClosedAre(E),
         Sweeping => Sweeping' \/ Active' = {}
  PROVE  RestClears'
<1> SUFFICES ASSUME NEW e \in Active', events'[e].gid = NoGid, ~(\E t \in cards : Matches(e, t)')
             PROVE  e \in phase.todo \/ Sweeping'
  BY DEF RestClears
<1>1. e \in Active /\ events[e].gid = NoGid /\ events'[e].type = events[e].type
  BY DEF ClosedAre, Active
<1>2. ~(\E t \in cards : Matches(e, t))
  BY <1>1 DEF Matches
<1> QED  BY <1>1, <1>2 DEF RestClears

(* A clearing finds an event whenever one is active.                       *)
LEMMA CandidatesIs ==
  ASSUME EventsShape, NEW c, CallOK(c), c.kind = "stale"
  PROVE  /\ Candidates(c, TRUE) = {} => Active = {}
         /\ c.gid # NoGid /\ GidActive(c.gid) # {} => Candidates(c, TRUE) = GidActive(c.gid)
<1>1. c.type # Official
  BY DEF CallOK
<1>2. Linked(c) <=> c.gid # NoGid
  BY DEF Linked
<1> QED  BY <1>1, <1>2 DEF Candidates, TypeActive, GidActive

LEMMA ClosingStatement ==
  ASSUME Base, Base', phase.name = "close", ~missed', Closing, NEW w \in Writer, Statement(w)
  PROVE  Closing'
<1>1. phase' = phase /\ cards' = cards /\ ~missed /\ ~Running
  <2>1. phase' = phase /\ cards' = cards
    BY DEF Statement, Begin, ReadLast, InsertRow, InsertEvent, Find, InsertClearing, Close, Sweep, ram
  <2>2. ~missed
    BY DEF Statement, Begin, ReadLast, InsertRow, InsertEvent, Find, InsertClearing, Close, Sweep, marks
  <2> QED  BY <2>1, <2>2 DEF Running
<1>2. GroupsClear /\ FindsItsGroup /\ RestClears /\ EventsShape /\ RunsShape
  BY <1>1 DEF Closing, Base
<1>3. SUFFICES GroupsClear' /\ FindsItsGroup' /\ RestClears'
  BY DEF Closing
<1>4. CASE Begin(w)
  <2>1. PICK c \in pending : pending' = pending \ {c} /\ run' = [run EXCEPT ![w] = Start(c)]
    BY <1>4 DEF Begin
  <2>2. (\A d \in pending : d = c) /\ OfPhase(c) /\ events' = events /\ \A v \in Writer : ~Busy(v)
    BY <1>1, <1>4 DEF Base, OneCall, Begin, tables
  <2>3. /\ \A v \in Writer : run[v] = Idle /\ run[v].pc = "idle"
        /\ run'[w].call = c /\ run'[w].pc = "find"
        /\ \A v \in Writer \ {w} : run'[v] = run[v]
    <3>1. c.kind = "stale"
      BY <1>1, <2>2 DEF OfPhase
    <3>2. Start(c).call = c /\ Start(c).pc = "find"
      BY <3>1 DEF Start, RowFirst
    <3>3. \A v \in Writer : run[v] = Idle /\ run[v].pc = "idle"
      BY <2>2, IdleFields DEF Busy
    <3>4. run'[w] = Start(c) /\ \A v \in Writer \ {w} : run'[v] = run[v]
      BY <1>2, <2>1 DEF RunsShape
    <3> QED  BY <3>2, <3>3, <3>4
  <2>4. \A g : ClosingOf(g) => ClosingOf(g)'
    BY <2>2, <2>3 DEF ClosingOf
  <2>5. Sweeping => Sweeping'
    BY <2>2, <2>3 DEF Sweeping
  <2>6. FindsItsGroup'
    BY <2>3 DEF FindsItsGroup
  <2> QED  BY <1>1, <1>2, <2>2, <2>4, <2>5, <2>6, SameIsClosed, BalanceFrame, RestFrame
<1>5. CASE ~Begin(w)
  <2>1. run[w].pc \in Statements /\ UNCHANGED pending
    BY <1>5 DEF Statement, ReadLast, InsertRow, InsertEvent, Find, InsertClearing, Close, Sweep, At,
                Statements
  <2>2. /\ Busy(w) /\ CallOK(run[w].call) /\ RunOK(run[w], EventIds) /\ pending = {}
        /\ run[w].call.kind = "stale"
        /\ \A v \in Writer \ {w} : run[v] = Idle /\ run[v].pc = "idle"
    BY <1>1, <2>1, AtStatement, BusyAlone DEF OfPhase
  <2>3. /\ \A g : ClosingOf(g) <=> /\ run[w].pc \in {"find", "clearing", "close"}
                                   /\ run[w].call.gid = g
        /\ Sweeping <=> /\ run[w].pc \in {"find", "clearing", "close", "sweep"}
                        /\ run[w].call.gid = NoGid
    BY <2>2 DEF ClosingOf, Sweeping
  <2>4. /\ \A g : (/\ run'[w].pc \in {"find", "clearing", "close"}
                   /\ run'[w].call.gid = g) => ClosingOf(g)'
        /\ (/\ run'[w].pc \in {"find", "clearing", "close", "sweep"}
            /\ run'[w].call.gid = NoGid) => Sweeping'
    BY DEF ClosingOf, Sweeping
  <2>5. ASSUME Turned(w), run'[w].pc \notin {"clearing", "close"}
        PROVE  FindsItsGroup'
    BY <2>2, <2>5 DEF FindsItsGroup, Turned
  <2>6. CASE ReadLast(w) \/ InsertRow(w)
    <3>1. run[w].pc \in {"read", "row"} /\ events' = events
      BY <2>6 DEF ReadLast, InsertRow, At, tables
    <3>2. AfterRow(w) \/ Goto(w, "row")
      BY <2>2, <2>6 DEF ReadLast, InsertRow
    <3>3. Turned(w) /\ run'[w].pc \notin {"clearing", "close"}
      BY <1>2, <2>2, <3>2, AfterRowIs, GotoIs, IdleFields DEF Statements, Went, Ended
    <3>4. (\A g : ~ClosingOf(g)) /\ ~Sweeping
      BY <2>3, <3>1
    <3> QED  BY <1>1, <1>2, <2>5, <3>1, <3>3, <3>4, SameIsClosed, BalanceFrame, RestFrame
  <2>7. CASE InsertEvent(w)
    BY <2>2, <2>7 DEF InsertEvent, At, RunOK
  <2>8. CASE Find(w)
    <3>1. run[w].pc = "find" /\ events' = events
      BY <2>8 DEF Find, At, tables
    <3>2. CASE Candidates(run[w].call, TRUE) = {}
      <4>1. Active = {} /\ Active' = {} /\ ClosedAre({})
        BY <1>2, <2>2, <3>1, <3>2, CandidatesIs, SameIsClosed DEF Active, EventIds
      <4>2. Done(w)
        BY <2>2, <2>8, <3>2 DEF Find
      <4>3. Turned(w) /\ run'[w].pc \notin {"clearing", "close"}
        BY <1>2, <2>2, <4>2, DoneIs, IdleFields DEF Ended
      <4>4. \A g : GidActive(g)' = {}
        BY <4>1 DEF GidActive
      <4> QED  BY <1>1, <1>2, <2>5, <4>1, <4>3, <4>4, BalanceFrame, RestFrame
    <3>3. CASE Candidates(run[w].call, TRUE) # {}
      <4>1. PICK e \in Candidates(run[w].call, TRUE), ty \in {run[w].call.type} :
               run' = [run EXCEPT ![w].pc = "clearing", ![w].found = e, ![w].row = ty]
        BY <2>2, <2>8, <3>3 DEF Find, SavedTypes
      <4>2. /\ run'[w].pc = "clearing" /\ run'[w].found = e /\ run'[w].call = run[w].call
            /\ \A v \in Writer \ {w} : run'[v] = run[v]
        <5>1. PICK c \in Call, p \in Statements, f \in Nat \cup {Alarm}, k \in Type :
                 run[w] = [call |-> c, pc |-> p, found |-> f, row |-> k]
          BY <1>2, <2>2, BusyFields DEF Started
        <5>2. run' = [run EXCEPT ![w] = [[[run[w] EXCEPT !.pc = "clearing"] EXCEPT !.found = e]
                                           EXCEPT !.row = ty]]
          BY <1>2, <4>1 DEF RunsShape
        <5>3. [run[w] EXCEPT !.pc = "clearing"]
                = [call |-> c, pc |-> "clearing", found |-> f, row |-> k]
          BY <5>1
        <5>4. [[call |-> c, pc |-> "clearing", found |-> f, row |-> k] EXCEPT !.found = e]
                = [call |-> c, pc |-> "clearing", found |-> e, row |-> k]
          OBVIOUS
        <5>5. [[call |-> c, pc |-> "clearing", found |-> e, row |-> k] EXCEPT !.row = ty]
                = [call |-> c, pc |-> "clearing", found |-> e, row |-> ty]
          OBVIOUS
        <5>6. run'[w] = [call |-> c, pc |-> "clearing", found |-> e, row |-> ty]
          BY <1>2, <5>2, <5>3, <5>4, <5>5 DEF RunsShape
        <5>7. \A v \in Writer \ {w} : run'[v] = run[v]
          BY <1>2, <5>2 DEF RunsShape
        <5> QED  BY <5>1, <5>6, <5>7
      <4>3. FindsItsGroup'
        <5> SUFFICES ASSUME NEW g, g = run[w].call.gid, g # NoGid
                     PROVE  e \in GidActive(g)' \/ GidActive(g)' = {}
          BY <2>2, <4>2 DEF FindsItsGroup
        <5>1. GidActive(g)' = GidActive(g)
          BY <3>1 DEF GidActive, Active, EventIds
        <5>2. e \in GidActive(g) \/ GidActive(g) = {}
          BY <1>2, <2>2, CandidatesIs
        <5> QED  BY <5>1, <5>2
      <4>4. /\ \A g : ClosingOf(g) => ClosingOf(g)'
            /\ Sweeping => Sweeping'
        BY <2>3, <2>4, <4>2
      <4> QED  BY <1>1, <1>2, <3>1, <4>3, <4>4, SameIsClosed, BalanceFrame, RestFrame
    <3> QED  BY <3>2, <3>3
  <2>9. CASE InsertClearing(w)
    <3>1. run[w].pc = "clearing" /\ events' = events
      BY <2>9 DEF InsertClearing, At
    <3>2. Went(w, "close")
      BY <1>2, <2>2, <2>9, GotoIs DEF InsertClearing, Statements
    <3>3. /\ run'[w].pc = "close" /\ run'[w].found = run[w].found /\ run'[w].call = run[w].call
          /\ \A v \in Writer \ {w} : run'[v] = run[v]
      BY <3>2 DEF Went, Turned
    <3>4. FindsItsGroup'
      <4> SUFFICES ASSUME NEW g, g = run[w].call.gid, g # NoGid
                   PROVE  run[w].found \in GidActive(g)' \/ GidActive(g)' = {}
        BY <2>2, <3>3 DEF FindsItsGroup
      <4>1. GidActive(g)' = GidActive(g)
        BY <3>1 DEF GidActive, Active, EventIds
      <4>2. run[w].found \in GidActive(g) \/ GidActive(g) = {}
        BY <1>2, <3>1 DEF FindsItsGroup
      <4> QED  BY <4>1, <4>2
    <3>5. /\ \A g : ClosingOf(g) => ClosingOf(g)'
          /\ Sweeping => Sweeping'
      BY <2>3, <2>4, <3>3
    <3> QED  BY <1>1, <1>2, <3>1, <3>4, <3>5, SameIsClosed, BalanceFrame, RestFrame
  <2>10. CASE Close(w)
    <3> DEFINE E == {run[w].found} \cap Active
    <3>0. PICK g0 : g0 = run[w].call.gid
      OBVIOUS
    <3>1. /\ run[w].pc = "close" /\ CloseAll(E, run[w].found) /\ clearings' = clearings
          /\ run[w].found \in {Alarm} \cup EventIds
      BY <2>2, <2>10 DEF Close, At, RunOK
    <3>2. ClosedAre(E)
      BY <1>2, <3>1, CloseAllIs
    <3>3. CASE g0 # NoGid
      <4>1. Went(w, "read")
        BY <1>2, <2>2, <2>10, <3>0, <3>3, AfterClearingIs DEF Close, Linked, RowFirst
      <4>2. FindsItsGroup'
        BY <2>5, <4>1 DEF Went
      <4>3. RestClears'
        BY <1>1, <1>2, <2>3, <3>0, <3>2, <3>3, RestFrame
      <4>4. GidActive(g0)' = {} \/ \E e \in GidActive(g0) : e \in E
        <5>1. run[w].found \in GidActive(g0) \/ GidActive(g0) = {}
          BY <1>2, <3>0, <3>1, <3>3 DEF FindsItsGroup
        <5>2. GidActive(g0)' = GidActive(g0) \ E /\ GidActive(g0) \subseteq Active
          <6>1. ASSUME NEW F, F = E
                PROVE  GidActive(g0)' = GidActive(g0) \ F
            BY <1>2, <3>2, <6>1, FewerActive
          <6> QED  BY <6>1 DEF GidActive
        <5> QED  BY <5>1, <5>2
      <4>5. \A g \in Gid \ {NoGid} : ClosingOf(g) => GidActive(g)' = {} \/ \E e \in GidActive(g) : e \in E
        BY <2>3, <3>0, <4>4
      <4>6. GroupsClear'
        BY <1>1, <1>2, <3>2, <4>5, BalanceFrame
      <4> QED  BY <4>2, <4>3, <4>6
    <3>4. CASE g0 = NoGid
      <4>1. Went(w, "sweep")
        BY <1>2, <2>2, <2>10, <3>0, <3>4, GotoIs DEF Close, Linked, Statements
      <4>2. FindsItsGroup'
        BY <2>5, <4>1 DEF Went
      <4>3. Sweeping'
        BY <2>4, <3>0, <3>4, <4>1 DEF Went
      <4>4. \A g \in Gid \ {NoGid} : ~ClosingOf(g)
        BY <2>3, <3>0, <3>4
      <4> QED  BY <1>1, <1>2, <3>2, <4>2, <4>3, <4>4, BalanceFrame, RestFrame
    <3> QED  BY <3>3, <3>4
  <2>11. CASE Sweep(w)
    <3>1. /\ run[w].pc = "sweep" /\ CloseAll(Active, run[w].found) /\ clearings' = clearings
          /\ run[w].found \in {Alarm} \cup EventIds /\ AfterClearing(w)
      BY <2>2, <2>11 DEF Sweep, Sweepable, At, RunOK
    <3>2. ClosedAre(Active)
      BY <1>2, <3>1, CloseAllIs
    <3>3. Active' = {} /\ \A g : GidActive(g)' = {}
      BY <1>2, <3>2, FewerActive DEF GidActive
    <3>4. Turned(w) /\ run'[w].pc \notin {"clearing", "close"}
      BY <1>2, <2>2, <3>1, AfterClearingIs, IdleFields DEF Went, Ended
    <3> QED  BY <1>1, <1>2, <2>5, <3>2, <3>3, <3>4, BalanceFrame, RestFrame
  <2> QED  BY <1>5, <2>6, <2>7, <2>8, <2>9, <2>10, <2>11 DEF Statement
<1> QED  BY <1>4, <1>5

LEMMA CrashRecon ==
  ASSUME Base, Crash
  PROVE  Closing' /\ Inserting'
<1>1. /\ phase' = [name |-> "close", todo |-> Active] /\ pending' = {}
      /\ run' = [w \in Writer |-> Idle] /\ events' = events
  BY DEF Crash, tables
<1>2. \A w \in Writer : run'[w] = Idle /\ run'[w].pc = "idle"
  BY <1>1, IdleFields
<1>3. EventIds' = EventIds /\ Active' = Active /\ phase'.name = "close" /\ phase'.todo = Active
  BY <1>1 DEF EventIds, Active
<1>4. ASSUME NEW g \in Gid \ {NoGid}
      PROVE  Cardinality(GidActive(g)') <= Cardinality(TodoOf(g)') + (IF ClosingOf(g)' THEN 1 ELSE 0)
  <2>1. GidActive(g)' = TodoOf(g)'
    BY <1>1, <1>3 DEF GidActive, TodoOf
  <2>2. Cardinality(GidActive(g)') \in Nat
    <3>1. EventsShape /\ GidActive(g)' = GidActive(g)
      BY <1>1, <1>3 DEF Base, GidActive
    <3> QED  BY <1>1, <3>1, SameIsClosed, FewerActive
  <2> QED  BY <2>1, <2>2
<1>5. FindsItsGroup' /\ RestClears'
  BY <1>2, <1>3 DEF FindsItsGroup, RestClears
<1> QED  BY <1>3, <1>4, <1>5 DEF Closing, Inserting, GroupsClear

(* A step of the reconciliation that takes an event out of what is left    *)
(* makes its clearing, unless the event has a card.                        *)
LEMMA ReconcileCloseRecon ==
  ASSUME StoreAssumption, Base, Closing, Inserting, ReconcileClose
  PROVE  Closing' /\ Inserting'
<1>1. /\ phase.name = "close" /\ pending = {} /\ \A w \in Writer : run[w] = Idle
      /\ UNCHANGED <<cards, events, run, missed>> /\ EventIds' = EventIds
      /\ PhaseShape /\ EventsShape /\ phase.todo \subseteq EventIds
  BY DEF ReconcileClose, Quiet, Base, PhaseShape, ram, tables, marks, EventIds
<1>2. \A w \in Writer : run[w].pc = "idle" /\ run'[w].pc = "idle" /\ run'[w] = Idle
  BY <1>1, IdleFields
<1>3. (\A g : ~ClosingOf(g)) /\ ~Sweeping
  BY <1>1, <1>2 DEF ClosingOf, Sweeping
<1>4. Active' = Active /\ \A g : GidActive(g)' = GidActive(g)
  BY <1>1 DEF Active, GidActive
<1>5. CASE missed
  BY <1>1, <1>5 DEF Closing, Inserting
<1>6. CASE ~missed /\ phase.todo = {}
  <2>1. GroupsClear /\ RestClears
    BY <1>1, <1>6 DEF Closing
  <2>2. phase' = [name |-> "insert", todo |-> cards] /\ pending' = {}
    BY <1>1, <1>6 DEF ReconcileClose
  <2>3. ASSUME NEW e \in Active
        PROVE  \E t \in cards : Matches(e, t)
    <3>1. CASE events[e].gid = NoGid
      BY <1>3, <1>6, <2>1, <3>1 DEF RestClears
    <3>2. ASSUME NEW g, g = events[e].gid, g # NoGid
          PROVE  Carded(g)
      <4>1. e \in GidActive(g) /\ g \in Gid \ {NoGid}
        <5>1. events[e] \in Event
          BY <1>1, EventsBasic DEF Active
        <5> QED  BY <3>2, <5>1 DEF GidActive, Event
      <4>2. TodoOf(g) = {} /\ Cardinality(TodoOf(g)) = 0
        BY <1>6, FS_EmptySet DEF TodoOf
      <4>3. IsFiniteSet(GidActive(g)) /\ Cardinality(GidActive(g)) \in Nat
        BY <1>1, SameIsClosed, FewerActive
      <4>4. Cardinality(GidActive(g)) # 0
        BY <4>1, <4>3, FS_EmptySet
      <4> QED  BY <1>3, <2>1, <4>1, <4>2, <4>3, <4>4 DEF GroupsClear
    <3> QED  BY <3>1, <3>2 DEF Carded, Matches
  <2>4. \A e \in Active' : \E t \in cards' : Matches(e, t)'
    BY <1>1, <1>4, <2>3 DEF Matches
  <2>5. Inserting'
    BY <1>1, <1>2, <2>2, <2>4 DEF Inserting, Busy
  <2> QED  BY <2>2, <2>5 DEF Closing
<1>7. CASE ~missed /\ phase.todo # {}
  <2>1. GroupsClear /\ RestClears
    BY <1>1, <1>7 DEF Closing
  <2>2. PICK e \in phase.todo :
           /\ phase' = [phase EXCEPT !.todo = @ \ {e}]
           /\ pending' = IF \E t \in cards : Matches(e, t) THEN {} ELSE {StaleCall(e)}
    BY <1>7 DEF ReconcileClose
  <2>3. phase'.name = "close" /\ phase'.todo = phase.todo \ {e}
    <3> DEFINE todo == phase.todo
    <3>1. phase = [name |-> "close", todo |-> todo]
      BY <1>1 DEF PhaseShape
    <3>2. phase' = [phase EXCEPT !.todo = todo \ {e}]
      BY <2>2
    <3> HIDE DEF todo
    <3>3. phase' = [name |-> "close", todo |-> todo \ {e}]
      BY <3>1, <3>2
    <3> QED  BY <3>3 DEF todo
  <2>4. e \in EventIds /\ StaleCall(e).gid = events[e].gid
    BY <1>1, StaleCallOK
  <2>5. GroupsClear'
    <3> SUFFICES ASSUME NEW g \in Gid \ {NoGid}, ~Carded(g)
                 PROVE  Cardinality(GidActive(g)') <= Cardinality(TodoOf(g)') + (IF ClosingOf(g)' THEN 1 ELSE 0)
      BY <1>1 DEF GroupsClear, Carded
    <3>1. Cardinality(GidActive(g)') <= Cardinality(TodoOf(g))
      <4>1. Cardinality(GidActive(g)) <= Cardinality(TodoOf(g)) + 0
        BY <1>3, <2>1 DEF GroupsClear
      <4>2. Cardinality(TodoOf(g)) \in Nat
        BY <1>1, TodoFinite
      <4> QED  BY <1>4, <4>1, <4>2
    <3>2. TodoOf(g)' = TodoOf(g) \ {e}
      BY <1>1, <2>3 DEF TodoOf
    <3>3. /\ IsFiniteSet(TodoOf(g)) /\ Cardinality(TodoOf(g)) \in Nat
          /\ Cardinality(GidActive(g)') \in Nat
      BY <1>1, <1>4, TodoFinite, SameIsClosed, FewerActive
    <3>4. CASE events[e].gid # g
      <4>1. TodoOf(g)' = TodoOf(g)
        BY <3>2, <3>4 DEF TodoOf
      <4> QED  BY <3>1, <3>3, <4>1
    <3>5. CASE events[e].gid = g
      <4>1. pending' = {StaleCall(e)}
        BY <2>2, <3>5 DEF Matches, Carded
      <4>2. ClosingOf(g)'
        BY <2>4, <3>5, <4>1 DEF ClosingOf
      <4>3. Cardinality(TodoOf(g)') = Cardinality(TodoOf(g)) - 1
        <5>1. e \in TodoOf(g)
          BY <3>5 DEF TodoOf
        <5> QED  BY <3>2, <3>3, <5>1, FS_RemoveElement
      <4> QED  BY <3>1, <3>3, <4>2, <4>3
    <3> QED  BY <3>4, <3>5
  <2>6. FindsItsGroup'
    BY <1>2 DEF FindsItsGroup
  <2>7. RestClears'
    <3> SUFFICES ASSUME NEW a \in Active, events[a].gid = NoGid, ~(\E t \in cards : Matches(a, t))
                 PROVE  a \in phase'.todo \/ Sweeping'
      BY <1>1, <1>4 DEF RestClears, Matches
    <3>1. a \in phase.todo
      BY <1>3, <2>1 DEF RestClears
    <3>2. CASE a = e
      <4>1. pending' = {StaleCall(e)}
        BY <2>2, <3>2
      <4> QED  BY <2>4, <3>2, <4>1 DEF Sweeping
    <3> QED  BY <2>3, <3>1, <3>2
  <2> QED  BY <2>3, <2>5, <2>6, <2>7 DEF Closing, Inserting
<1> QED  BY <1>5, <1>6, <1>7

-----------------------------------------------------------------------------
(* Then: entering the cards that have no event.                            *)

LEMMA InsertingStatement ==
  ASSUME Base, phase.name = "insert", ~missed', Inserting, StoreAssumption, NEW w \in Writer, Statement(w)
  PROVE  Inserting'
<1>1. phase' = phase /\ cards' = cards /\ ~missed /\ ~Running /\ cards \subseteq Tid
  <2>1. phase' = phase /\ cards' = cards
    BY DEF Statement, Begin, ReadLast, InsertRow, InsertEvent, Find, InsertClearing, Close, Sweep, ram
  <2>2. ~missed
    BY DEF Statement, Begin, ReadLast, InsertRow, InsertEvent, Find, InsertClearing, Close, Sweep, marks
  <2> QED  BY <2>1, <2>2 DEF Running, Base, Shape
<1>2. /\ \A e \in Active : \E t \in cards : Matches(e, t)
      /\ \A t \in cards \ phase.todo : GidActive(DbGid(t)) # {} \/ OpenComing(DbGid(t))
      /\ \A c \in pending : Carded(c.gid)
      /\ \A v \in Writer : Busy(v) => Carded(run[v].call.gid)
      /\ EventsShape /\ RunsShape
  BY <1>1 DEF Inserting, Base
<1>3. CASE events' = events
  <2>1. \A e \in Active' : \E t \in cards' : Matches(e, t)'
    BY <1>1, <1>2, <1>3 DEF Active, EventIds, Matches
  <2>2. \A g : GidActive(g)' = GidActive(g)
    BY <1>3 DEF GidActive, Active, EventIds
  <2>3. \A t : DbGid(t)' = DbGid(t)
    BY DEF DbGid
  <2>4. \A g : Carded(g)' <=> Carded(g)
    BY <1>1 DEF Carded
  <2>5. CASE Begin(w)
    <3>1. PICK c \in pending : pending' = pending \ {c} /\ run' = [run EXCEPT ![w] = Start(c)]
      BY <2>5 DEF Begin
    <3>2. (\A d \in pending : d = c) /\ \A v \in Writer : ~Busy(v)
      BY <1>1 DEF Base, OneCall
    <3>3. /\ run'[w] = Start(c) /\ Start(c).call = c /\ Start(c) # Idle
          /\ \A v \in Writer \ {w} : run'[v] = Idle
      <4>1. Start(c) \in Started
        <5>1. c \in Call
          BY <1>2 DEF RunsShape, CallOK
        <5>2. c.type \in Type
          BY <5>1 DEF Call, Type
        <5> QED  BY <5>1, <5>2 DEF Start, Started, Statements, None
      <4> QED  BY <1>2, <3>1, <3>2, <4>1, IdleFields DEF RunsShape, Busy, Start
    <3>4. \A g : OpenComing(g) => OpenComing(g)'
      BY <3>2, <3>3 DEF OpenComing, Busy
    <3>5. \A v \in Writer : run'[v] # Idle => Carded(run'[v].call.gid)
      BY <1>2, <3>3
    <3>6. pending' = {}
      BY <3>1, <3>2
    <3>7. \A v \in Writer : Busy(v)' => Carded(run[v].call.gid)'
      BY <1>1, <3>5 DEF Busy, Carded
    <3>8. \A t \in cards \ phase.todo : GidActive(DbGid(t))' # {} \/ OpenComing(DbGid(t))'
      BY <1>2, <2>2, <2>3, <3>4
    <3> QED  BY <1>1, <2>1, <3>6, <3>7, <3>8 DEF Inserting
  <2>6. CASE ~Begin(w)
    <3>1. run[w].pc \in Statements /\ pending' = pending
      BY <2>6 DEF Statement, ReadLast, InsertRow, InsertEvent, Find, InsertClearing, Close, Sweep, At,
                  Statements
    <3>2. /\ Busy(w) /\ RunOK(run[w], EventIds) /\ pending = {} /\ run[w].call.kind = "open"
          /\ \A v \in Writer \ {w} : run[v] = Idle
      BY <1>1, <3>1, AtStatement, BusyAlone DEF OfPhase
    <3>3. ReadLast(w) \/ InsertRow(w) \/ InsertEvent(w)
      BY <2>6, <3>2 DEF Statement, Find, InsertClearing, Close, Sweep, At, RunOK
    <3>4. ~InsertEvent(w)
      <4> SUFFICES ASSUME InsertEvent(w)
                   PROVE  FALSE
        OBVIOUS
      <4>1. CallOK(run[w].call)
        BY <3>2 DEF RunOK
      <4>2. EventIds' # EventIds
        BY <1>2, <3>2, <4>1, AppendIs DEF InsertEvent
      <4> QED  BY <1>3, <4>2 DEF EventIds
    <3>5. Goto(w, "row") \/ Goto(w, "event")
      BY <1>1, <3>2, <3>3, <3>4 DEF ReadLast, InsertRow
    <3>6. \E pc : Went(w, pc)
      BY <1>2, <3>2, <3>5, GotoIs DEF Statements
    <3>7. /\ run'[w] # Idle /\ run'[w].call = run[w].call
          /\ \A v \in Writer \ {w} : run'[v] = Idle
      BY <3>2, <3>6 DEF Went, Turned
    <3>8. \A g : OpenComing(g) => OpenComing(g)'
      BY <3>1, <3>2, <3>7 DEF OpenComing, Busy
    <3>9. \A v \in Writer : Busy(v)' => Carded(run[v].call.gid)'
      BY <1>1, <1>2, <3>2, <3>7 DEF Busy, Carded
    <3>10. \A t \in cards \ phase.todo : GidActive(DbGid(t))' # {} \/ OpenComing(DbGid(t))'
      BY <1>2, <2>2, <2>3, <3>8
    <3> QED  BY <1>1, <2>1, <3>1, <3>2, <3>9, <3>10 DEF Inserting
  <2> QED  BY <2>5, <2>6
<1>4. CASE InsertEvent(w)
  <2>1. run[w].pc = "event" /\ Done(w) /\ pending' = pending
    BY <1>4 DEF InsertEvent, At
  <2>2. /\ Busy(w) /\ CallOK(run[w].call) /\ pending = {} /\ run[w].call.kind = "open"
        /\ \A v \in Writer \ {w} : run[v] = Idle
    BY <1>1, <2>1, AtStatement, BusyAlone DEF OfPhase, Statements
  <2>3. PICK g : g = run[w].call.gid
    OBVIOUS
  <2>4. Carded(g) /\ g # NoGid
    <3>1. PICK t \in cards : DbGid(t) = g
      BY <1>2, <2>2, <2>3 DEF Carded
    <3> QED  BY <1>1, <1>2, <2>2, <2>3, <3>1 DEF DbGid, StoreAssumption
  <2>5. PICK n : /\ EventIds' = EventIds \cup {n} /\ n \notin EventIds
                 /\ events'[n].active /\ events'[n].gid = g
                 /\ \A e \in EventIds : events'[e] = events[e]
    BY <1>2, <1>4, <2>2, <2>3, AppendIs DEF InsertEvent
  <2>6. Active' = Active \cup {n}
    BY <2>5 DEF Active
  <2>7. \A v \in Writer : run'[v] = Idle
    BY <1>2, <2>1, <2>2, DoneIs DEF Ended, Turned
  <2>8. \A e \in Active' : \E t \in cards' : Matches(e, t)'
    <3>1. \E t \in cards : Matches(n, t)'
      BY <2>4, <2>5 DEF Matches, Carded, DbGid
    <3>2. \A e \in Active : \E t \in cards : Matches(e, t)'
      BY <1>2, <2>5 DEF Matches, Active
    <3> QED  BY <1>1, <2>6, <3>1, <3>2
  <2>9. \A t \in cards \ phase.todo : GidActive(DbGid(t))' # {}
    <3> SUFFICES ASSUME NEW t \in cards \ phase.todo
                 PROVE  GidActive(DbGid(t))' # {}
      OBVIOUS
    <3>1. PICK h : h = DbGid(t)
      OBVIOUS
    <3>2. CASE h = g
      <4>1. n \in GidActive(h)'
        BY <2>4, <2>5, <2>6, <3>2 DEF GidActive
      <4> QED  BY <3>1, <4>1 DEF DbGid
    <3>3. CASE h # g
      <4>1. ~OpenComing(h)
        BY <2>2, <2>3, <3>3 DEF OpenComing, Busy
      <4>2. PICK e : e \in GidActive(h)
        BY <1>2, <3>1, <4>1
      <4>3. e \in GidActive(h)'
        BY <2>5, <2>6, <4>2 DEF GidActive, Active
      <4> QED  BY <3>1, <4>3 DEF DbGid
    <3> QED  BY <3>2, <3>3
  <2> QED  BY <1>1, <2>1, <2>2, <2>7, <2>8, <2>9 DEF Inserting, Busy
<1> QED
  <2>1. events' = events \/ (RunOK(run[w], EventIds) /\ run[w].call.kind = "open")
    BY <1>1, AtStatement, BusyAlone
       DEF Statement, Begin, ReadLast, InsertRow, InsertEvent, Find, InsertClearing, Close, Sweep, At,
           OfPhase, Statements, tables
  <2> QED
    BY <1>3, <1>4, <2>1
       DEF Statement, Begin, ReadLast, InsertRow, Find, InsertClearing, Close, Sweep, At, RunOK, tables

LEMMA ReconcileInsertRecon ==
  ASSUME Base, Inserting, ReconcileInsert
  PROVE  Closing' /\ Inserting'
<1>1. /\ phase.name = "insert" /\ pending = {} /\ \A w \in Writer : run[w] = Idle /\ run'[w] = Idle
      /\ UNCHANGED <<cards, events, run, missed>> /\ EventIds' = EventIds
      /\ PhaseShape /\ phase.todo \subseteq cards
  BY DEF ReconcileInsert, Quiet, Base, PhaseShape, ram, tables, marks, EventIds
<1>2. CASE phase.todo = {}
  <2>1. phase'.name = "over"
    BY <1>1, <1>2 DEF ReconcileInsert
  <2> QED  BY <2>1 DEF Closing, Inserting
<1>3. CASE phase.todo # {}
  <2>1. PICK t \in phase.todo :
           /\ phase' = [phase EXCEPT !.todo = @ \ {t}]
           /\ pending' = IF GidActive(DbGid(t)) # {} THEN {}
                           ELSE {[CallOf("open", t) EXCEPT !.gid = DbGid(t)]}
    BY <1>3 DEF ReconcileInsert
  <2>2. phase'.name = "insert" /\ phase'.todo = phase.todo \ {t}
    <3> DEFINE todo == phase.todo
    <3>1. phase = [name |-> "insert", todo |-> todo]
      BY <1>1 DEF PhaseShape
    <3>2. phase' = [phase EXCEPT !.todo = todo \ {t}]
      BY <2>1
    <3> HIDE DEF todo
    <3>3. phase' = [name |-> "insert", todo |-> todo \ {t}]
      BY <3>1, <3>2
    <3> QED  BY <3>3 DEF todo
  <2>3. [CallOf("open", t) EXCEPT !.gid = DbGid(t)] = [kind |-> "open", type |-> TypeOf[t], gid |-> DbGid(t)]
    BY DEF CallOf
  <2>4. \A c \in pending' : c.gid = DbGid(t)
    BY <2>1, <2>3
  <2>5. GidActive(DbGid(t)) # {} \/ \E c \in pending' : c.gid = DbGid(t)
    BY <2>1, <2>3
  <2>6. CASE ~missed
    <3>1. /\ \A e \in Active : \E u \in cards : Matches(e, u)
          /\ \A u \in cards \ phase.todo : GidActive(DbGid(u)) # {}
      BY <1>1, <2>6 DEF Inserting, OpenComing, Busy
    <3>2. \A e \in Active' : \E u \in cards' : Matches(e, u)'
      BY <1>1, <3>1 DEF Active, Matches
    <3>3. \A g : GidActive(g)' = GidActive(g)
      BY <1>1 DEF GidActive, Active
    <3>4. \A u \in cards' \ phase'.todo : GidActive(DbGid(u))' # {} \/ OpenComing(DbGid(u))'
      <4>1. \A u \in cards \ phase.todo : GidActive(DbGid(u))' # {}
        BY <3>1, <3>3 DEF DbGid
      <4>2. GidActive(DbGid(t))' # {} \/ OpenComing(DbGid(t))'
        BY <2>5, <3>3 DEF OpenComing, DbGid
      <4> QED  BY <1>1, <2>2, <4>1, <4>2
    <3>5. \A c \in pending' : Carded(c.gid)'
      BY <1>1, <2>4 DEF Carded, DbGid
    <3> QED  BY <1>1, <2>2, <3>2, <3>4, <3>5 DEF Closing, Inserting, Busy
  <2>7. CASE missed
    BY <1>1, <2>2, <2>7 DEF Closing, Inserting
  <2> QED  BY <2>6, <2>7
<1> QED  BY <1>2, <1>3

-----------------------------------------------------------------------------
(* The whole invariant.                                                    *)

LEMMA NextInv ==
  ASSUME IInv, StoreAssumption, [Next]_vars
  PROVE  IInv'
<1>1. Base /\ Base' /\ Closing /\ Inserting
  BY NextBase DEF IInv
<1>2. SUFFICES ASSUME ~missed'
               PROVE  Closing' /\ Inserting'
  BY <1>1 DEF IInv, Closing, Inserting
<1>3. CASE Running /\ phase' = phase
  BY <1>3 DEF Running, Closing, Inserting
<1>4. CASE Crash
  BY <1>1, <1>4, CrashRecon
<1>5. CASE ReconcileClose
  BY <1>1, <1>5, ReconcileCloseRecon
<1>6. CASE ReconcileInsert
  BY <1>1, <1>6, ReconcileInsertRecon
<1>7. ASSUME NEW w \in Writer, Statement(w)
      PROVE  Closing' /\ Inserting'
  <2>1. phase' = phase
    BY <1>7 DEF Statement, Begin, ReadLast, InsertRow, InsertEvent, Find, InsertClearing, Close, Sweep
  <2>2. CASE phase.name = "close"
    BY <1>1, <1>2, <1>7, <2>1, <2>2, ClosingStatement DEF Inserting
  <2>3. CASE phase.name = "insert"
    BY <1>1, <1>2, <1>7, <2>1, <2>3, InsertingStatement DEF Closing
  <2>4. CASE phase.name \notin {"close", "insert"}
    BY <2>1, <2>4 DEF Closing, Inserting
  <2> QED  BY <2>2, <2>3, <2>4
<1>8. ASSUME NEW w \in Writer, Locked(w)
      PROVE  Closing' /\ Inserting'
  <2>1. Running /\ phase' = phase
    BY <1>2, <1>8 DEF Locked
  <2> QED  BY <1>3, <2>1
<1>9. CASE UNCHANGED vars
  <2>1. UNCHANGED <<cards, events, pending, run, phase, missed>>
    BY <1>9 DEF vars, ram, tables, marks
  <2>2. Closing'
    BY <1>1, <2>1
       DEF Closing, GroupsClear, FindsItsGroup, RestClears, GidActive, Active, EventIds, TodoOf,
           ClosingOf, Sweeping, Carded, Matches
  <2>3. Inserting'
    BY <1>1, <2>1
       DEF Inserting, GidActive, Active, EventIds, OpenComing, Busy, Carded, Matches
  <2> QED  BY <2>2, <2>3
<1> QED
  BY <1>3, <1>4, <1>5, <1>6, <1>7, <1>8, <1>9
     DEF Next, Appear, Vanish, Siren, CleanUp, ForceClose

LEMMA Invariance ==
  ASSUME StoreAssumption
  PROVE  Spec => []IInv
<1>1. Init => IInv
  <2> SUFFICES ASSUME Init
               PROVE  IInv
    OBVIOUS
  <2>1. phase = [name |-> "run", todo |-> {}]
    BY DEF Init
  <2> QED  BY <2>1, InitBase DEF IInv, Closing, Inserting
<1>2. IInv /\ [Next]_vars => IInv'
  BY NextInv
<1> QED  BY <1>1, <1>2, PTL DEF Spec

(* A reconciliation that met no lock, and in which no card was refused for *)
(* a row younger than 15 s, ends with an open event for every card and a   *)
(* card for every open event: whatever the crash has left of either, also  *)
(* a row of "none" without its clearing, for which the reconciliation's    *)
(* own row is refused; in whatever order they are gone through; and        *)
(* although a clearing may close another event than it was made for.       *)
THEOREM ReconcileCorrect == Spec => ReconcileRestores
<1> SUFFICES ASSUME StoreAssumption
             PROVE  Spec => ReconcileRestores
  BY StoreAssumption
<1>1. ASSUME IInv, [Next]_vars, phase.name = "insert", phase'.name = "over", ~missed
      PROVE  Mirrored
  <2>1. ReconcileInsert
    <3>1. phase' # phase
      BY <1>1
    <3> QED
      BY <1>1, <3>1
         DEF Next, Appear, Vanish, Siren, CleanUp, ForceClose, Statement, Begin, ReadLast, InsertRow,
             InsertEvent, Find, InsertClearing, Close, Sweep, Locked, Crash, ReconcileClose, Running, vars
  <2>2. Quiet /\ phase.todo = {}
    <3>1. ASSUME phase.todo # {}
          PROVE  FALSE
      <4>1. PICK t : phase' = [phase EXCEPT !.todo = @ \ {t}]
        BY <2>1, <3>1 DEF ReconcileInsert
      <4>2. phase'.name = phase.name
        <5>1. phase = [name |-> phase.name, todo |-> phase.todo]
          BY <1>1 DEF IInv, Base, PhaseShape
        <5>2. PICK name, todo : phase = [name |-> name, todo |-> todo]
          BY <5>1
        <5> QED  BY <4>1, <5>2
      <4> QED  BY <1>1, <4>2
    <3> QED  BY <2>1, <3>1 DEF ReconcileInsert
  <2>3. /\ \A e \in Active : \E t \in cards : Matches(e, t)
        /\ \A t \in cards : GidActive(DbGid(t)) # {} \/ OpenComing(DbGid(t))
    BY <1>1, <2>2 DEF IInv, Inserting
  <2>4. \A t \in cards : GidActive(DbGid(t)) # {}
    BY <2>2, <2>3 DEF Quiet, OpenComing, Busy
  <2> QED  BY <2>3, <2>4 DEF Mirrored, Matches
<1>2. IInv /\ [Next]_vars => [phase.name = "insert" /\ phase'.name = "over" /\ ~missed => Mirrored]_vars
  BY <1>1
<1> QED  BY <1>2, Invariance, PTL DEF Spec, ReconcileRestores
=============================================================================
