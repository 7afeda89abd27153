------------------------------ MODULE Prediction ------------------------------
(***************************************************************************)
(* Where the monitor expects the threats to go next                        *)
(* (monitor/telegram_monitor.py _find_path, _propagate_predictive_threats, *)
(* with the tables of core/topology.py).  Neither awaits anything, so each *)
(* is one step.  A region is described by the gravest of its cards.        *)
(*                                                                         *)
(* Bearings are in whole degrees, distances in km, boosts in percent and   *)
(* scores in 3000ths, in which every term of a score is a whole number.    *)
(* Confidences and texts of the predictions are left out, and so is the    *)
(* way to a city a message names: telemetry_data has no such column.       *)
(***************************************************************************)
EXTENDS ThreatLifecycle, Lists, FiniteSets, SequencesExt

CONSTANTS Oblast,     \* the regions, in the order of the manager's table
          Border,     \* UKRAINE_TOPOLOGY: region -> sequence of neighbours
          Closed,     \* PERMANENTLY_OCCUPIED_REGIONS
          Course,     \* bearing from a region's centre to a neighbour's
          Far,        \* km between the two centres
          Corridor,   \* SHAHED_ROUTES: sequences of regions
          Experience, \* rows of gemini_rules: routes and flying times
          Confirmed,  \* <<from, to>> -> clearings that confirmed a prediction
          Sky,        \* the situations
          NoHeading

VARIABLES seen,    \* the situation of the last run of the engine
          made,    \* the predictions that run chose
          between  \* the pair of regions a message named, and the path

predictionVars == <<seen, made, between>>

PredictionInit == seen = {} /\ made = {} /\ between = {}

-----------------------------------------------------------------------------
(* The shortest path from one region to another, breadth first.            *)

(* One turn of the loop, unless the queue is empty or its first path there. *)
Turned(search, goal) ==
  LET path == Head(search.queue)
      next == Without(Border[Last(path)], search.visited)
  IN  IF search.queue = <<>> \/ Last(path) = goal THEN search
      ELSE [queue |-> Tail(search.queue) \o [i \in DOMAIN next |-> Append(path, next[i])],
            visited |-> search.visited \cup ToSet(next)]

(* There are no more turns than regions, each being queued once at most.   *)
FindPath(from, to) ==
  LET search[n \in 0..Len(Oblast)] ==
        IF n = 0 THEN [queue |-> << <<from>> >>, visited |-> {from}]
        ELSE Turned(search[n - 1], to)
      left == search[Len(Oblast)].queue
  IN  IF left = <<>> THEN <<>> ELSE Head(left)

(* A message that names two regions predicts those between them.           *)
NamesTwo(from, to) ==
  /\ between' = {[from |-> from, to |-> to, path |-> FindPath(from, to)]}
  /\ UNCHANGED <<seen, made>>

-----------------------------------------------------------------------------
(* What is known of a threat and of its way.                               *)

VectorBearing ==
  [south_to_north |-> 0, north_to_south |-> 180, east_to_west |-> 270,
   west_to_east |-> 90, southeast_to_northwest |-> 315,
   northeast_to_southwest |-> 225, crimea_inland |-> 0, sea_to_coast |-> 0,
   border_shelling |-> NoHeading, unknown |-> NoHeading]

(* What is over a region.                                                  *)
Overhead ==
  [level : {"none", "low", "medium", "high", "critical"}, type : ThreatType,
   predictive : BOOLEAN, heading : Int \cup {NoHeading},
   vector : DOMAIN VectorBearing, speed : Nat]

ASSUME PredictionAssumption ==
  /\ Oblast \in Seq(ToSet(Oblast)) /\ Border \in [ToSet(Oblast) -> Seq(ToSet(Oblast))]
  /\ \A r \in ToSet(Oblast) :
       /\ IsInjective(Border[r])
       /\ \A s \in ToSet(Border[r]) :
            /\ Course[<<r, s>>] \in Int
            /\ Far[<<r, s>>] \in Nat /\ Confirmed[<<r, s>>] \in Nat
  /\ \A e \in Experience : e.score \in Nat /\ e.n \in Nat /\ e.minutes \in Nat
  /\ \A sky \in Sky : sky.card \in [ToSet(Oblast) -> Overhead]
  /\ NoHeading \notin Int

Heading(t) == IF t.heading # NoHeading THEN t.heading ELSE VectorBearing[t.vector]

(* The telemetry of the last two hours, if any, else the type's speed.     *)
Pace(t) == IF t.speed > 0 THEN t.speed ELSE Speed[t.type]

(* Does a known corridor lead from one to the other?                       *)
Forward(from, to) ==
  \E c \in Corridor : \E i, j \in DOMAIN c : i < j /\ c[i] = from /\ c[j] = to

(* The rule of a kind that weighs most; type is "any" for routes.          *)
BestRule(kind, from, to, type) ==
  LET all == {e \in Experience : /\ e.kind = kind /\ e.from = from /\ e.to = to
                                 /\ e.type = type /\ e.active /\ e.score >= 55}
  IN  {e \in all : \A f \in all : f.score * f.n <= e.score * e.n}

(* _get_historical_route_score: of a learned rule, or of the clearings.    *)
History(from, to) ==
  LET rule == BestRule("route", from, to, "any")
      n == Confirmed[<<from, to>>]
  IN  IF rule # {}
      THEN LET e == CHOOSE e \in rule : TRUE
           IN  AtMost(AtLeast((e.score * 35 + 50) \div 100, 15), 35)
      ELSE IF n >= 6 THEN 15 ELSE IF n >= 3 THEN 10 ELSE IF n >= 1 THEN 5 ELSE 0

(* The time of the flight, mixed with what was learned of it.              *)
Arrival(t, from, to) ==
  LET flown == IF Pace(t) > 0 THEN (Far[<<from, to>>] * 3600) \div Pace(t) ELSE 0
      rule == BestRule("eta_math", from, to, t.type)
      learned == 60 * (CHOOSE e \in rule : TRUE).minutes
  IN  IF rule = {} THEN flown
      ELSE IF Pace(t) = 0 THEN learned
      ELSE (65 * learned + 35 * flown) \div 100

-----------------------------------------------------------------------------
(* The score of a neighbour as the next region of a threat.                *)

Turn(a, b) ==
  LET d == IF a < b THEN b - a ELSE a - b IN IF d > 180 THEN 360 - d ELSE d

(* Six tenths of the alignment, boosted below 45 degrees.                  *)
Alignment(turn) ==
  IF turn < 45 THEN AtMost(2340 - 13 * turn, 1800) ELSE 1800 - 10 * turn

(* THREAT_PREDICTIVE_WEIGHTS, in percent.                                  *)
Foresight(type) ==
  CASE type = "shahed" -> 15
    [] type \in {"reactive_uav", "jet_shahed", "tu95"} -> 10
    [] type = "cruise_missile" -> 8
    [] type \in {"mig31k", "tu22m3", "recon", "recon_uav", "unknown"} -> 5
    [] type = "su35_su57" -> 4
    [] type \in {"kab", "fpv"} -> 2
    [] type \in {"artillery", "mlrs"} -> 1
    [] OTHER -> 0

(* Tactical munitions do not cross regions.                                *)
Tactical == {"kab", "artillery", "mlrs", "fpv", "recon", "recon_uav", "urban_fights"}

Direct(c) == c.level # "none" /\ ~c.predictive

OffCourse(t, from, to) == Turn(Heading(t), Course[<<from, to>>]) > 117

(* Without a heading, a corridor or the history must speak for it.         *)
Expected(t, from, to) ==
  IF Heading(t) # NoHeading THEN ~OffCourse(t, from, to)
  ELSE Forward(from, to) \/ History(from, to) >= 20

Score3000(t, from, to) ==
  AtMost(3000,
    (IF Heading(t) = NoHeading THEN 1050
                               ELSE Alignment(Turn(Heading(t), Course[<<from, to>>])))
    + 30 * (Foresight(t.type) + History(from, to)
            + IF Forward(from, to) THEN 25 ELSE 0))

(* May the threat over one region be predicted for the other?              *)
Offered(sky, from, to) ==
  LET t == sky.card[from] IN
  /\ Direct(t) /\ t.type \notin Tactical
  /\ to \notin Closed
  /\ ~Direct(sky.card[to])
  /\ <<to, t.type>> \notin sky.cold
  /\ Expected(t, from, to)
  /\ Score3000(t, from, to) >= 1950

Offer(sky, from, to) ==
  LET t == sky.card[from]
  IN  [region |-> to, from |-> from, type |-> t.type, source |-> t.level,
       score |-> Score3000(t, from, to), eta |-> Arrival(t, from, to)]

(* Fault: the last offer for a region is kept.                             *)
KeptLast(table, o) ==
  IF \E i \in DOMAIN table : table[i].region = o.region
  THEN [i \in DOMAIN table |-> IF table[i].region = o.region THEN o ELSE table[i]]
  ELSE Append(table, o)

(* Of the offers for a region the first of the best score is kept, at the  *)
(* place in the table that the first of them took.                         *)
Kept(table, o) ==
  IF \E i \in DOMAIN table : table[i].region = o.region
  THEN [i \in DOMAIN table |->
          IF table[i].region = o.region /\ table[i].score < o.score THEN o ELSE table[i]]
  ELSE Append(table, o)

(* The regions and their neighbours, in the order of the loops.            *)
Ways ==
  FlattenSeq([i \in DOMAIN Oblast |->
    [j \in DOMAIN Border[Oblast[i]] |-> <<Oblast[i], Border[Oblast[i]][j]>>]])

(* The table after all of them.                                            *)
Offers(sky) ==
  LET table[n \in 0..Len(Ways)] ==
        IF n = 0 THEN <<>>
        ELSE IF Offered(sky, Ways[n][1], Ways[n][2])
             THEN Kept(table[n - 1], Offer(sky, Ways[n][1], Ways[n][2]))
             ELSE table[n - 1]
  IN  table[Len(Ways)]

(* The first three of the table, sorted by score.                          *)
Likeliest(table) ==
  {table[i] : i \in {i \in DOMAIN table :
     Cardinality({j \in DOMAIN table :
       \/ table[j].score > table[i].score
       \/ table[j].score = table[i].score /\ j < i}) < 3}}

-----------------------------------------------------------------------------
(* The predictions made of the offers chosen.                              *)

Grade(level) ==
  CASE level = "low" -> 1 [] level = "medium" -> 2 [] level = "high" -> 3
    [] level = "critical" -> 4

(* Medium or low, and a level below that of the source if there is one.    *)
LevelOf(o) == IF o.score >= 2250 /\ Grade(o.source) >= 3 THEN "medium" ELSE "low"

(* Twice the time of the flight, between 10 minutes and 2 hours.           *)
Delay(o) == AtLeast(AtMost(2 * (IF o.eta > 0 THEN o.eta ELSE 1800), 7200), 600)

(* Nothing is made where the same prediction stands.                       *)
Stands(sky, o) ==
  LET c == sky.card[o.region] IN c.level # "none" /\ c.predictive /\ c.type = o.type

Predictions(sky) ==
  {[region |-> o.region, type |-> o.type, level |-> LevelOf(o), delay |-> Delay(o),
    offer |-> o] :
     o \in {o \in Likeliest(Offers(sky)) : ~Stands(sky, o)}}

Propagate(sky) ==
  /\ seen' = {sky} /\ made' = Predictions(sky)
  /\ UNCHANGED between

(* Each situation, and each pair of regions, is taken up alone.            *)
PredictionNext ==
  /\ seen = {} /\ between = {}
  /\ \/ \E sky \in Sky : Propagate(sky)
     \/ \E from, to \in ToSet(Oblast) : NamesTwo(from, to)

-----------------------------------------------------------------------------
(* The ways from one region to another that pass n regions.                *)
Walks(n, from, to) ==
  {w \in [1..n -> ToSet(Oblast)] :
     /\ w[1] = from /\ w[n] = to
     /\ \A i \in 1..(n - 1) : w[i + 1] \in ToSet(Border[w[i]])}

(* telegram_monitor.py:535, 1573.  The path between two regions follows    *)
(* borders from the one to the other, and none is shorter; where none is   *)
(* found there is none.                                                    *)
ShortestWay ==
  \A b \in between :
    LET n == Len(b.path) IN
    /\ n > 0 => b.path \in Walks(n, b.from, b.to)
    /\ \A m \in 1..(IF n = 0 THEN Len(Oblast) ELSE n - 1) : Walks(m, b.from, b.to) = {}

(* Of what a situation foresees the best is predicted.                     *)
BestOf(sky) ==
  LET pairs == {p \in ToSet(Oblast) \X ToSet(Oblast) :
                  p[2] \in ToSet(Border[p[1]]) /\ Offered(sky, p[1], p[2])}
      score(p) == Score3000(sky.card[p[1]], p[1], p[2])
      top(r) == CHOOSE n \in {score(p) : p \in {p \in pairs : p[2] = r}} :
                  \A p \in {p \in pairs : p[2] = r} : score(p) <= n
      foreseen == {p[2] : p \in pairs}
      standing == {r \in foreseen : sky.card[r].level # "none"}
      chosen == {p.region : p \in made}
  IN  /\ Cardinality(made) = Cardinality(chosen) /\ Cardinality(made) <= 3
      /\ \A p \in made : p.offer.score = top(p.region)
      /\ \A r \in foreseen \ (chosen \cup standing) :
           Cardinality({g \in foreseen \ {r} : top(g) >= top(r)}) >= 3

(* telegram_monitor.py:1212, 1231.  Whatever the order in which threats    *)
(* and neighbours are looked at, and however many threats bear on one      *)
(* region: a region is predicted once, with the best score any threat      *)
(* gives it, and one that is passed over is outdone by three others.       *)
BestChosen == \A sky \in seen : BestOf(sky)

(* A prediction p of a situation follows from it.                          *)
Follows(sky, p) ==
  LET t == sky.card[p.offer.from] IN
  /\ p.level = "low" \/ Grade(p.level) < Grade(t.level)
  /\ p.offer.eta <= 7200 => p.delay >= p.offer.eta
  /\ Forward(p.offer.from, p.region) \/ History(p.offer.from, p.region) > 0
       \/ Turn(Heading(t), Course[<<p.offer.from, p.region>>]) < 45

(* telegram_monitor.py:1244, 1298.  A prediction is weaker than the threat *)
(* it comes from (but for low ones), it stays until a threat that takes no *)
(* more than two hours must have arrived, and only a corridor or the       *)
(* history sends a threat more than 45 degrees off its course.             *)
Plausible == \A sky \in seen, p \in made : Follows(sky, p)

(* All of it: what the engine and the paths predict.                       *)
PredictionsSound == ShortestWay /\ BestChosen /\ Plausible
===============================================================================
