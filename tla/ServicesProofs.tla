----------------------------- MODULE ServicesProofs -----------------------------
(***************************************************************************)
(* What is proved of the services around the threat state: the batch of    *)
(* history rows, the rules of expiry and the poll of the sirens, the index *)
(* of the shelters, the predictions and the paths between regions, the     *)
(* and the rules that are learnt.                                          *)
(*                                                                         *)
(* Inductions over the turns of a loop are made with a set: the turns      *)
(* after which a fact holds contain the first and with each its successor. *)
(***************************************************************************)
EXTENDS Services, TLAPS, FiniteSetTheorems, WellFoundedInduction

-----------------------------------------------------------------------------
(* The batch of history rows.                                              *)

(* What makes RowsHaveCarrier inductive: the timer that a caller sees may  *)
(* have fired, but then the call it made has not come to its turn, since   *)
(* each flush forgets the timer.                                           *)
FiredHasCall == timer = "fired" => called > 0

HistoryInv == HistoryTypeOK /\ FiredHasCall /\ RowsHaveCarrier

LEMMA PutRowKeepsHistory ==
  ASSUME HistoryInv, NEW row \in HistoryRow, PutRow(row)
  PROVE  HistoryInv'
<1> USE DEF HistoryInv, HistoryTypeOK
<1>1. CASE Cardinality(buffer') >= Many
  BY <1>1 DEF PutRow, FiredHasCall, RowsHaveCarrier
<1>2. CASE ~(Cardinality(buffer') >= Many)
  <2>1. /\ timer' = (IF timer = "none" THEN "running" ELSE timer)
        /\ called' = called /\ buffer' = buffer \cup {row}
        /\ UNCHANGED <<batches, written, lost>>
    BY <1>2 DEF PutRow
  <2> QED  BY <2>1 DEF FiredHasCall, RowsHaveCarrier
<1> QED  BY <1>1, <1>2

LEMMA TakeKeepsHistory ==
  ASSUME HistoryInv, Take(buffer)
  PROVE  HistoryInv'
<1>1. called' \in Nat
  BY DEF HistoryInv, HistoryTypeOK, Take
<1>2. batches' \subseteq SUBSET HistoryRow /\ lost' \subseteq HistoryRow
  BY DEF HistoryInv, HistoryTypeOK, Take
<1> QED  BY <1>1, <1>2 DEF HistoryInv, HistoryTypeOK, Take, FiredHasCall, RowsHaveCarrier

LEMMA WriteKeepsHistory ==
  ASSUME HistoryInv, NEW batch \in batches, Write(batch)
  PROVE  HistoryInv'
<1>1. batch \subseteq HistoryRow
  BY DEF HistoryInv, HistoryTypeOK
<1> QED  BY <1>1 DEF HistoryInv, HistoryTypeOK, Write, FiredHasCall, RowsHaveCarrier

LEMMA HistoryIInvHolds == HistorySpec => []HistoryInv
<1>1. HistoryInit => HistoryInv
  BY DEF HistoryInit, HistoryInv, HistoryTypeOK, FiredHasCall, RowsHaveCarrier
<1>2. HistoryInv /\ [HistoryNext]_historyVars => HistoryInv'
  <2> SUFFICES ASSUME HistoryInv, [HistoryNext]_historyVars PROVE HistoryInv'
    OBVIOUS
  <2>1. ASSUME NEW row \in HistoryRow, LogRow(row) PROVE HistoryInv'
    BY <2>1, PutRowKeepsHistory DEF LogRow
  <2>2. CASE TimerFires
    BY <2>2 DEF TimerFires, HistoryInv, HistoryTypeOK, FiredHasCall, RowsHaveCarrier
  <2>3. CASE Take(buffer)
    BY <2>3, TakeKeepsHistory
  <2>4. ASSUME NEW batch \in batches, Write(batch) PROVE HistoryInv'
    BY <2>4, WriteKeepsHistory
  <2>5. CASE UNCHANGED historyVars
    BY <2>5 DEF historyVars, HistoryInv, HistoryTypeOK, FiredHasCall, RowsHaveCarrier
  <2> QED  BY <2>1, <2>2, <2>3, <2>4, <2>5 DEF HistoryNext
<1> QED  BY <1>1, <1>2, PTL DEF HistorySpec

(* The variables hold what they are meant to.                              *)
THEOREM HistoryTypeCorrect == HistorySpec => []HistoryTypeOK
BY HistoryIInvHolds, PTL DEF HistoryInv

(* A row in the buffer always has a running timer or a call that takes it, *)
(* in whatever order callers, timers and flushes run.                      *)
THEOREM HistoryCarrierCorrect == HistorySpec => []RowsHaveCarrier
BY HistoryIInvHolds, PTL DEF HistoryInv

-----------------------------------------------------------------------------
(* The rules of expiry.                                                    *)

LEMMA SpeedIsNat == \A type \in ThreatType : Speed[type] \in Nat
BY DEF ThreatType, Speed

LEMMA FlightIsNat ==
  ASSUME NEW type \in ThreatType, Speed[type] # 0
  PROVE  Flight(type, Distance) \in Int
<1>1. Speed[type] \in Nat \ {0}
  BY SpeedIsNat
<1> DEFINE t == (3600 * Distance) \div Speed[type]
<1>2. t \in Int
  BY <1>1 DEF Distance
<1> HIDE DEF t
<1>3. t + 60 \in Int /\ t + 120 \in Int /\ t + 600 \in Int
  BY <1>2
<1>4. Flight(type, Distance) \in {AtLeast(t + 60, 120), AtLeast(t + 120, 300),
                                  AtLeast(t + 600, 900), t}
  BY DEF Flight, t
<1> QED  BY <1>2, <1>3, <1>4 DEF AtLeast

LEMMA MaxFlightBound ==
  ASSUME NEW type \in ThreatType
  PROVE  MaxFlight(type) \in Int /\ MaxFlight(type) <= 2700
<1>1. CASE Speed[type] = 0
  BY <1>1 DEF MaxFlight
<1>2. CASE Speed[type] # 0
  <2>1. Flight(type, Distance) \in Int
    BY <1>2, FlightIsNat
  <2>2. MaxFlight(type) \in {AtMost(Flight(type, Distance) + 120, 300),
                             AtMost(Flight(type, Distance) + 180, 2700)}
    BY <1>2 DEF MaxFlight
  <2> QED  BY <2>1, <2>2 DEF AtMost
<1> QED  BY <1>1, <1>2

(* Whatever its type, the time it gives and the siren of its area, a threat*)
(* of 45 minutes is to be removed, if the date of its report can be read   *)
(* (missile_lifecycle_service.py:151-159, 197).                            *)
THEOREM NoThreatOutlivesLimit ==
  ASSUME NEW c \in Threat, c.dated, NEW alarmed \in BOOLEAN, NEW elapsed \in Nat, elapsed >= 2700
  PROVE  ShouldExpire(c, alarmed, elapsed)
<1>1. c.type \in ThreatType
  BY DEF Threat
<1> QED  BY <1>1, MaxFlightBound DEF ShouldExpire

LEMMA EtaSecondsIsNat ==
  ASSUME NEW eta \in Eta
  PROVE  EtaSeconds(eta) \in Nat
<1>1. eta.n \in Nat /\ eta.from \in Nat
  BY DEF Eta
<1>2. 60 * eta.n \in Nat /\ 3600 * eta.n \in Nat
      /\ 60 * (60 * eta.from + eta.n) \in Nat
  BY <1>1
<1> QED  BY <1>1, <1>2 DEF EtaSeconds

LEMMA PatienceIsNat ==
  ASSUME NEW c \in Threat
  PROVE  Patience(c) \in Nat
<1> DEFINE eta == EtaSeconds(c.eta)
<1>1. eta \in Nat
  BY EtaSecondsIsNat DEF Threat
<1> HIDE DEF eta
<1>2. Patience(c) = IF eta > 0 THEN eta + (IF Fast(c.type) THEN 30 ELSE 45)
                    ELSE (IF c.predictive THEN 120 ELSE 180)
                           * (IF Fast(c.type) THEN 1 ELSE 2)
  BY DEF Patience, eta
<1> QED  BY <1>1, <1>2

(* A threat that is to be removed stays so as it ages: one that a poll did *)
(* not reach in time is removed by a later one, and a siren that ends in   *)
(* between never gives a threat more time (missile_lifecycle:169-200).     *)
THEOREM ExpiryIsFinal ==
  ASSUME NEW c \in Threat, NEW alarmed \in BOOLEAN, NEW elapsed \in Nat,
         NEW later \in Nat, later >= elapsed, ShouldExpire(c, alarmed, elapsed)
  PROVE  ShouldExpire(c, alarmed, later) /\ ShouldExpire(c, FALSE, later)
<1>1. c.type \in ThreatType
  BY DEF Threat
<1>2. Patience(c) \in Int /\ MaxFlight(c.type) \in Int
  BY <1>1, PatienceIsNat, MaxFlightBound
<1> HIDE DEF Patience, MaxFlight
<1> QED  BY <1>2 DEF ShouldExpire

-----------------------------------------------------------------------------
(* The poll of the sirens.                                                 *)

Grave == DOMAIN Gravity

LEMMA Gravities ==
  /\ Grave = {"nuclear", "chemical", "urban_fights", "artillery", "air"}
  /\ \A t \in Grave : Gravity[t] \in 1..5
  /\ Off \notin Grave
BY DEF Grave, Gravity, Off

LEMMA LeastNumber ==
  ASSUME NEW S \in SUBSET Nat, S # {}
  PROVE  \E i \in S : \A j \in S : i <= j
<1>1. \E i \in S : \A j \in S : ~(<<j, i>> \in OpToRel(<, Nat))
  BY NatLessThanWellFounded, WFMin
<1>2. PICK i \in S : \A j \in S : ~(<<j, i>> \in OpToRel(<, Nat))
  BY <1>1
<1>3. ASSUME NEW j \in S PROVE i <= j
  <2>1. ~(j < i)
    BY <1>2 DEF OpToRel
  <2> QED BY <2>1
<1> QED BY <1>3

(* A notice counts as one of the types it lists, or as an air alert.       *)
LEMMA PrimaryType ==
  ASSUME NEW n, n.types \in Seq(Grave)
  PROVE  Primary(n) \in Grave
<1> DEFINE grave == {i \in DOMAIN n.types : n.types[i] # "air"}
<1>1. CASE grave = {}
  BY <1>1, Gravities DEF Primary
<1>2. CASE grave # {}
  <2>1. grave \subseteq 1..Len(n.types) /\ grave \in SUBSET Nat
    OBVIOUS
  <2>2. \E i \in grave : \A j \in grave : i <= j
    BY <1>2, <2>1, LeastNumber
  <2> DEFINE first == CHOOSE i \in grave : \A j \in grave : i <= j
  <2>3. first \in grave
    BY <2>2
  <2>4. Primary(n) = n.types[first]
    BY <1>2 DEF Primary
  <2>5. first \in 1..Len(n.types)
    BY <2>1, <2>3
  <2> HIDE DEF grave, first
  <2> QED BY <2>4, <2>5
<1> QED BY <1>1, <1>2

(* Of notices that list only known types, none is graver than the one that *)
(* is shown, and one is shown whenever there is any.                       *)
LEMMA GravestIsGravest ==
  ASSUME NEW ns, \A n \in ns : n.types \in Seq(Grave)
  PROVE  /\ ns = {} => Gravest(ns) = Off
         /\ ns # {} => /\ Gravest(ns) \in Grave
                       /\ \E n \in ns : Gravest(ns) = Primary(n)
                       /\ \A n \in ns : Gravity[Gravest(ns)] >= Gravity[Primary(n)]
<1> DEFINE types == {Primary(n) : n \in ns}
<1>1. CASE ns = {}
  BY <1>1 DEF Gravest
<1>2. CASE ns # {}
  <2>1. types \subseteq Grave /\ types # {}
    BY <1>2, PrimaryType
  <2> HIDE DEF types
  <2>2. \E t \in types : \A u \in types : Gravity[t] >= Gravity[u]
    <3> DEFINE below == {5 - Gravity[t] : t \in types}
    <3>1. below \in SUBSET Nat /\ below # {}
      <4>1. \A t \in types : 5 - Gravity[t] \in Nat
        <5>1. \A g \in 1..5 : 5 - g \in Nat
          OBVIOUS
        <5> QED BY <2>1, <5>1, Gravities
      <4> QED BY <2>1, <4>1
    <3>2. PICK i \in below : \A j \in below : i <= j
      BY <3>1, LeastNumber
    <3>3. PICK t \in types : i = 5 - Gravity[t]
      BY <3>2
    <3>4. ASSUME NEW u \in types PROVE Gravity[t] >= Gravity[u]
      <4>1. 5 - Gravity[t] <= 5 - Gravity[u]
        BY <3>2, <3>3
      <4>2. Gravity[t] \in 1..5 /\ Gravity[u] \in 1..5
        BY <2>1, Gravities
      <4> QED BY <4>1, <4>2
    <3> QED BY <3>4
  <2>3. Gravest(ns) = CHOOSE t \in types : \A u \in types : Gravity[t] >= Gravity[u]
    BY <2>1 DEF Gravest, types
  <2>4. Gravest(ns) \in types /\ \A u \in types : Gravity[Gravest(ns)] >= Gravity[u]
    BY <2>2, <2>3
  <2> QED BY <1>2, <2>1, <2>4 DEF types
<1> QED BY <1>1, <1>2

(* What a service answers: the first shows a siren exactly where a notice  *)
(* is in force, and the gravest one; the others show one exactly where a   *)
(* notice is for the whole region (server.py:48-244).                      *)
THEOREM AnswerTells ==
  ASSUME announced \in [PollRegion -> Notices], NEW tier \in Tier, NEW r \in PollRegion
  PROVE  /\ Answer(tier)[r] \in Grave \cup {Off}
         /\ Answer(tier)[r] # Off <=>
              IF tier = 1 THEN announced[r] # {} ELSE \E m \in announced[r] : m.whole
         /\ tier = 1 => \A n \in announced[r] : Gravity[Answer(1)[r]] >= Gravity[Primary(n)]
<1>1. \A n \in announced[r] : n.types \in Seq(Grave)
  BY NoticesAssumption DEF Grave
<1>2. CASE tier = 1
  <2>1. Answer(tier)[r] = Gravest(announced[r])
    BY <1>2 DEF Answer
  <2> QED BY <1>1, <1>2, <2>1, GravestIsGravest, Gravities
<1>3. CASE tier # 1
  <2>1. Answer(tier)[r] = IF \E n \in announced[r] : n.whole THEN "air" ELSE Off
    BY <1>3 DEF Answer
  <2> QED BY <1>3, <2>1, Gravities
<1> QED BY <1>2, <1>3

LEMMA AnswerType ==
  ASSUME announced \in [PollRegion -> Notices], NEW tier \in Tier
  PROVE  Answer(tier) \in [PollRegion -> Grave \cup {Off}]
<1>1. \A r \in PollRegion : Answer(tier)[r] \in Grave \cup {Off}
  BY AnswerTells
<1>2. Answer(tier) = [r \in PollRegion |-> Answer(tier)[r]]
  BY DEF Answer
<1> QED BY <1>1, <1>2

(* What the loop is about to do, with all that the step carries.           *)
PollState ==
  [pc : {"sleep"}]
    \cup [pc : {"ask"}, tier : {2} \cup Tokens, attempt : 1..Attempts]
    \cup [pc : {"apply", "prune"}, sirens : [PollRegion -> Grave \cup {Off}]]

PollInv == poll \in PollState /\ PollTypeOK

LEMMA AskingTyped ==
  ASSUME NEW tier \in {2} \cup Tokens
  PROVE  Asking(tier) \in PollState
BY DEF Asking, PollState, Attempts

LEMMA PollTyped ==
  ASSUME poll \in PollState
  PROVE  /\ poll.pc \in {"sleep", "ask", "apply", "prune"}
         /\ poll.pc = "ask" => /\ poll.tier \in {2} \cup Tokens
                               /\ poll.attempt \in 1..Attempts
                               /\ poll \in [pc : {"ask"}, tier : {2} \cup Tokens,
                                            attempt : 1..Attempts]
         /\ poll.pc \in {"apply", "prune"} =>
              /\ poll.sirens \in [PollRegion -> Grave \cup {Off}]
              /\ poll \in [pc : {"apply", "prune"}, sirens : [PollRegion -> Grave \cup {Off}]]
BY DEF PollState

LEMMA PollsTyped ==
  ASSUME PollInv, Polls
  PROVE  poll' \in PollState
<1>0. poll \in PollState /\ announced \in [PollRegion -> Notices] /\ Tokens \subseteq {1, 3}
  BY PollAssumption DEF PollInv, PollTypeOK
<1>1. CASE Wake
  BY <1>1, AskingTyped DEF Wake
<1>2. CASE Answered
  <2>1. poll.tier \in Tier
    BY <1>0, <1>2, PollTyped DEF Answered, Tier
  <2>2. Answer(poll.tier) \in [PollRegion -> Grave \cup {Off}]
    BY <1>0, <2>1, AnswerType
  <2> QED BY <1>2, <2>2 DEF Answered, PollState
<1>3. CASE Unanswered
  <2>1. /\ poll \in [pc : {"ask"}, tier : {2} \cup Tokens, attempt : 1..Attempts]
        /\ poll.attempt \in 1..3
    BY <1>0, <1>3, PollTyped DEF Unanswered, Attempts
  <2>2. CASE poll.tier # 3 /\ poll.attempt < Attempts
    <3>1. poll' = [poll EXCEPT !.attempt = poll.attempt + 1]
      BY <1>3, <2>2 DEF Unanswered
    <3>2. poll.attempt + 1 \in 1..Attempts
      BY <2>1, <2>2 DEF Attempts
    <3>3. poll' \in [pc : {"ask"}, tier : {2} \cup Tokens, attempt : 1..Attempts]
      BY <2>1, <3>1, <3>2
    <3> QED BY <3>3 DEF PollState
  <2>3. CASE ~(poll.tier # 3 /\ poll.attempt < Attempts)
    <3>1. poll' \in {Asking(2), [pc |-> "sleep"]} \/ (3 \in Tokens /\ poll' = Asking(3))
      BY <1>3, <2>3 DEF Unanswered
    <3> QED BY <3>1, AskingTyped DEF PollState
  <2> QED BY <2>2, <2>3
<1>4. CASE Apply
  <2>1. poll \in [pc : {"apply", "prune"}, sirens : [PollRegion -> Grave \cup {Off}]]
    BY <1>0, <1>4, PollTyped DEF Apply
  <2>2. poll' = [poll EXCEPT !.pc = "prune"]
    BY <1>4 DEF Apply
  <2>3. poll' \in [pc : {"apply", "prune"}, sirens : [PollRegion -> Grave \cup {Off}]]
    BY <2>1, <2>2
  <2> QED BY <2>3 DEF PollState
<1>5. CASE Prune
  BY <1>5 DEF Prune, PollState
<1> QED BY <1>1, <1>2, <1>3, <1>4, <1>5 DEF Polls

LEMMA SirensTyped ==
  ASSUME PollInv, [PollNext]_pollVars
  PROVE  siren' \in [PollRegion -> Grave \cup {Off}]
<1>1. CASE siren' = siren
  BY <1>1 DEF PollInv, PollTypeOK, Grave
<1>2. CASE Apply
  BY <1>2, PollTyped DEF Apply, PollInv, PollTypeOK, Grave
<1>3. ASSUME NEW r \in PollRegion, TestCleared(r) PROVE siren' \in [PollRegion -> Grave \cup {Off}]
  BY <1>3 DEF TestCleared, PollInv, PollTypeOK, Grave
<1> QED BY <1>1, <1>2, <1>3 DEF PollNext, Polls, Wake, Answered, Unanswered, Prune, Announce,
                               Outage, Ages, ReportThreat, Test, pollVars

LEMMA AgesTyped ==
  ASSUME PollInv, [PollNext]_pollVars
  PROVE  card' \in Card \cup {NoThreat} /\ age' \in 0..(MaxAge + AgeStep)
<1>1. /\ card \in Card \cup {NoThreat} /\ age \in 0..(MaxAge + AgeStep)
      /\ AgeStep \in Nat /\ MaxAge \in Nat
  BY PollAssumption DEF PollInv, PollTypeOK, MaxAge
<1>2. 0 \in 0..(MaxAge + AgeStep)
  BY <1>1
<1>3. CASE UNCHANGED <<card, age>>
  BY <1>1, <1>3
<1>4. CASE Ages
  BY <1>1, <1>4 DEF Ages
<1>5. CASE Prune
  BY <1>1, <1>2, <1>5 DEF Prune
<1>6. ASSUME NEW c \in Card, ReportThreat(c)
      PROVE  card' \in Card /\ age' = 0
  BY <1>6 DEF ReportThreat
<1>7. CASE Apply
  BY <1>1, <1>2, <1>7 DEF Apply
<1> QED BY <1>2, <1>3, <1>4, <1>5, <1>6, <1>7
        DEF PollNext, Polls, Wake, Answered, Unanswered, Announce, Outage, Test, TestCleared,
            pollVars

LEMMA PollStepTyped == PollInv /\ [PollNext]_pollVars => PollInv'
<1> SUFFICES ASSUME PollInv, [PollNext]_pollVars PROVE PollInv'
  OBVIOUS
<1>1. poll' \in PollState
  <2>1. CASE poll' = poll
    BY <2>1 DEF PollInv
  <2> QED BY <2>1, PollsTyped DEF PollNext, Announce, Outage, Ages, ReportThreat, Test,
                                 TestCleared, pollVars
<1>2. announced' \in [PollRegion -> Notices]
  <2>1. announced \in [PollRegion -> Notices]
    BY DEF PollInv, PollTypeOK
  <2>2. announced' = announced \/ Announce
    BY DEF PollNext, Polls, Wake, Answered, Unanswered, Apply, Prune, Outage, Ages,
           ReportThreat, Test, TestCleared, pollVars
  <2> QED BY <2>1, <2>2 DEF Announce
<1>3. up' \subseteq Tier
  <2>1. up \subseteq Tier
    BY DEF PollInv, PollTypeOK
  <2>2. up' = up \/ Outage
    BY DEF PollNext, Polls, Wake, Answered, Unanswered, Apply, Prune, Announce, Ages,
           ReportThreat, Test, TestCleared, pollVars
  <2> QED BY <2>1, <2>2 DEF Outage
<1>4. PollTypeOK'
  <2>1. /\ poll'.pc \in {"sleep", "ask", "apply", "prune"}
        /\ poll'.pc = "ask" => poll'.tier \in {2} \cup Tokens /\ poll'.attempt \in 1..Attempts
        /\ poll'.pc \in {"apply", "prune"} =>
             poll'.sirens \in [PollRegion -> DOMAIN Gravity \cup {Off}]
    BY <1>1 DEF PollState, Grave
  <2>2. siren' \in [PollRegion -> DOMAIN Gravity \cup {Off}]
    BY SirensTyped DEF Grave
  <2>3. testing' \subseteq PollRegion
    <3>1. testing \subseteq PollRegion
      BY DEF PollInv, PollTypeOK
    <3>2. testing' \subseteq testing \/ \E r \in PollRegion : Test(r)
      BY DEF PollNext, Polls, Wake, Answered, Unanswered, Apply, Prune, Announce, Outage, Ages,
             ReportThreat, TestCleared, pollVars
    <3> QED BY <3>1, <3>2 DEF Test
  <2> QED BY <1>2, <1>3, <2>1, <2>2, <2>3, AgesTyped DEF PollTypeOK
<1> QED BY <1>1, <1>4 DEF PollInv

LEMMA PollBegins == PollInit => PollInv
<1> SUFFICES ASSUME PollInit PROVE PollInv
  OBVIOUS
<1>1. poll = [pc |-> "sleep"]
  BY DEF PollInit
<1>2. poll \in PollState /\ poll.pc = "sleep"
  BY <1>1 DEF PollState
<1>3. 0 \in 0..(MaxAge + AgeStep)
  BY PollAssumption DEF MaxAge
<1>4. announced \in [PollRegion -> Notices]
  BY NoticesAssumption DEF PollInit
<1> QED BY <1>2, <1>3, <1>4 DEF PollInit, PollInv, PollTypeOK

(* The loop always knows what it asks or applies, the sirens it shows are  *)
(* known types, and the attempts stay within their bound, whatever fails   *)
(* and is announced (poll_aerial_alerts).                                  *)
THEOREM PollTypeCorrect == PollSpec => []PollTypeOK
<1>1. PollInv => PollTypeOK
  BY DEF PollInv
<1> QED BY <1>1, PollBegins, PollStepTyped, PTL DEF PollSpec

-----------------------------------------------------------------------------
(* The index of the shelters: it misses none, whatever its cells, the      *)
(* places, the radius and the order of loads and searches.                 *)

(* A number whose square is no greater than another's lies within it.      *)
LEMMA SquareBounds ==
  ASSUME NEW x \in Int, NEW r \in Nat, Square(x) <= Square(r)
  PROVE  x \in -r .. r
<1>1. ASSUME x > r PROVE FALSE
  <2>1. x * x >= x * r /\ x * r >= r * r /\ (r = 0 => x * x > 0)
    BY <1>1
  <2>2. r > 0 => x * r > r * r
    BY <1>1
  <2> QED  BY <2>1, <2>2, <1>1 DEF Square
<1>2. ASSUME -x > r PROVE FALSE
  <2> DEFINE y == -x
  <2>1. y \in Int /\ y > r /\ y * y = x * x
    BY <1>2
  <2> HIDE DEF y
  <2>2. y * y >= y * r /\ (y * r) >= r * r /\ (r = 0 => y * y > 0)
    BY <2>1
  <2>3. r > 0 => y * r > r * r
    BY <2>1
  <2> QED  BY <2>1, <2>2, <2>3 DEF Square
<1> QED  BY <1>1, <1>2

(* The quotients of two numbers no farther apart than so many cells.       *)
LEMMA Quotients ==
  ASSUME NEW a \in Nat, NEW b \in Nat, NEW e \in Nat, NEW c \in Nat \ {0},
         a - b <= e * c
  PROVE  (a \div c) - (b \div c) <= e
<1> DEFINE p == a \div c
           q == b \div c
<1>1. p \in Int /\ q \in Int /\ c * p <= a /\ b < c * (q + 1)
  <2>1. p \in Int /\ c * p <= a
    BY SMT
  <2>2. q \in Int /\ b < c * q + c
    BY SMT
  <2> QED  BY <2>1, <2>2
<1> HIDE DEF p, q
<1>2. c * p < c * (q + 1 + e)
  BY <1>1
<1>3. p < q + 1 + e
  BY <1>1, <1>2
<1> QED  BY <1>1, <1>3 DEF p, q

(* The cells to each side are enough for the radius.                       *)
LEMMA ExpandReaches ==
  ASSUME NEW r \in Nat, NEW side \in Nat \ {0}
  PROVE  Expand(r, side) \in Nat /\ r <= Expand(r, side) * side
<1> DEFINE n == r + side - 1
           d == n \div side
<1>1. CASE r = 0
  BY <1>1 DEF Expand
<1>2. CASE r # 0
  <2>1. n \in Nat
    OBVIOUS
  <2> HIDE DEF n
  <2>2. d \in Nat /\ n < side * d + side
    BY <2>1, SMT
  <2>3. Expand(r, side) = d
    BY <1>2 DEF Expand, CeilDiv, n
  <2> HIDE DEF d
  <2> QED  BY <2>1, <2>2, <2>3 DEF n
<1> QED  BY <1>1, <1>2

(* On either axis, what is no farther than the radius is no more cells     *)
(* away than the search visits.                                            *)
LEMMA AxisReached ==
  ASSUME NEW a \in Nat, NEW b \in Nat, NEW r \in Nat, NEW side \in Nat \ {0},
         a - b \in -r .. r
  PROVE  /\ a \div side \in Int /\ b \div side \in Int
         /\ (b \div side) - (a \div side) \in Reach(r, side)
<1> DEFINE e == Expand(r, side)
           w == e * side
<1>1. e \in Nat /\ r <= w
  BY ExpandReaches
<1> HIDE DEF e
<1>2. w \in Nat
  BY <1>1
<1> HIDE DEF w
<1>3. a - b <= w /\ b - a <= w
  BY <1>1, <1>2
<1>4. (a \div side) - (b \div side) <= e /\ (b \div side) - (a \div side) <= e
  BY <1>1, <1>3, Quotients DEF w
<1>5. a \div side \in Int /\ b \div side \in Int
  OBVIOUS
<1>6. (b \div side) - (a \div side) \in -e .. e
  BY <1>1, <1>4, <1>5
<1> QED  BY <1>5, <1>6 DEF Reach, e

Place == Nat \X Nat
Keys(at, radius) ==
  {<<Key(at)[1] + i, Key(at)[2] + j>> :
     i \in Reach(radius, CellHeight), j \in Reach(radius, CellWidth)}

(* A place within the radius lies in a cell the search considered.             *)
LEMMA PlaceVisited ==
  ASSUME NEW a \in Place, NEW b \in Place, NEW r \in Nat,
         Distance2(a, b) <= Square(r)
  PROVE  Key(b) \in Keys(a, r)
<1>0. CellHeight \in Nat \ {0} /\ CellWidth \in Nat \ {0}
  BY ShelterAssumption
<1>1. a[1] \in Nat /\ a[2] \in Nat /\ b[1] \in Nat /\ b[2] \in Nat
  BY DEF Place
<1> DEFINE x == a[1] - b[1]
           y == a[2] - b[2]
<1>2. x \in Int /\ y \in Int /\ Square(x) >= 0 /\ Square(y) >= 0
      /\ Square(x) \in Int /\ Square(y) \in Int /\ Square(r) \in Int
  <2>1. x \in Int /\ y \in Int
    BY <1>1
  <2> HIDE DEF x, y
  <2> QED  BY <2>1 DEF Square
<1>3. Square(x) <= Square(r) /\ Square(y) <= Square(r)
  <2>1. Square(x) + Square(y) <= Square(r)
    BY DEF Distance2
  <2> HIDE DEF x, y
  <2> QED  BY <1>2, <2>1
<1>4. x \in -r .. r /\ y \in -r .. r
  <2> HIDE DEF x, y
  <2> QED  BY <1>2, <1>3, SquareBounds
<1> DEFINE i == (b[1] \div CellHeight) - (a[1] \div CellHeight)
           j == (b[2] \div CellWidth) - (a[2] \div CellWidth)
<1>5. /\ i \in Reach(r, CellHeight)
      /\ a[1] \div CellHeight \in Int /\ b[1] \div CellHeight \in Int
  BY <1>0, <1>1, <1>4, AxisReached
<1>6. /\ j \in Reach(r, CellWidth)
      /\ a[2] \div CellWidth \in Int /\ b[2] \div CellWidth \in Int
  BY <1>0, <1>1, <1>4, AxisReached
<1>7. Key(b) = <<Key(a)[1] + i, Key(a)[2] + j>>
  BY <1>5, <1>6 DEF Key
<1> QED  BY <1>5, <1>6, <1>7 DEF Keys

LEMMA Places ==
  /\ \A s \in Shelter : s.at \in Place
  /\ \A q \in Query : q.at \in Place /\ q.radius \in Nat /\ q.limit \in Nat \ {0}
  /\ Near \in Nat /\ Around \in Nat /\ IsFiniteSet(Shelter)
BY ShelterAssumption DEF Place

(* What a search considers is what lies within its radius.                 *)
LEMMA CandidatesAreNear ==
  ASSUME NEW set, set \subseteq Shelter, NEW a \in Place, NEW r \in Nat
  PROVE  Candidates(CellsOf(set), a, r) = {s \in set : Distance2(a, s.at) <= Square(r)}
<1> DEFINE index == CellsOf(set)
           considered == UNION {index[k] : k \in Keys(a, r) \cap DOMAIN index}
<1>1. Candidates(index, a, r) = {s \in considered : Distance2(a, s.at) <= Square(r)}
  BY DEF Candidates, Keys
<1>2. considered \subseteq set
  BY DEF CellsOf
<1>3. ASSUME NEW s \in set, Distance2(a, s.at) <= Square(r) PROVE s \in considered
  <2>1. Key(s.at) \in Keys(a, r)
    BY <1>3, Places, PlaceVisited
  <2>2. Key(s.at) \in DOMAIN index /\ s \in index[Key(s.at)]
    BY DEF CellsOf
  <2> QED  BY <2>1, <2>2
<1> QED  BY <1>1, <1>2, <1>3

LEMMA Distances ==
  ASSUME NEW a \in Place, NEW b \in Place
  PROVE  Distance2(a, b) \in Nat /\ Distance2(a, b) = Distance2(b, a)
<1>1. \A x, y \in Nat : Square(x - y) \in Nat /\ Square(x - y) = Square(y - x)
  BY DEF Square
<1>2. a[1] \in Nat /\ a[2] \in Nat /\ b[1] \in Nat /\ b[2] \in Nat
  BY DEF Place
<1>3. /\ Square(a[1] - b[1]) \in Nat /\ Square(a[1] - b[1]) = Square(b[1] - a[1])
      /\ Square(a[2] - b[2]) \in Nat /\ Square(a[2] - b[2]) = Square(b[2] - a[2])
  BY <1>1, <1>2
<1> HIDE DEF Square
<1> QED  BY <1>3 DEF Distance2

TooNear(s, t) == Distance2(s.at, t.at) <= Square(Near)

(* What is added is not near anything that is there in the end.            *)
LEMMA MergedFacts ==
  ASSUME NEW set, set \subseteq Shelter, NEW new, new \subseteq Shelter,
         NEW all \in Merged(set, new)
  PROVE  /\ set \subseteq all /\ all \subseteq set \cup new
         /\ \A s \in all \ set : \A t \in all \ {s} : ~TooNear(s, t)
<1>1. set \subseteq all /\ all \subseteq set \cup new /\ \A s \in all \ set : Clear(all, s)
  BY DEF Merged
<1>2. ASSUME NEW s \in all \ set, NEW t \in all \ {s}, TooNear(s, t) PROVE FALSE
  <2>1. Candidates(CellsOf(all \ {s}), s.at, Near) = {}
    BY <1>1 DEF Clear
  <2>2. s \in Shelter /\ all \ {s} \subseteq Shelter /\ s.at \in Place /\ Near \in Nat
    BY <1>1, Places
  <2>3. {x \in all \ {s} : Distance2(s.at, x.at) <= Square(Near)} = {}
    BY <2>1, <2>2, CandidatesAreNear
  <2> QED  BY <1>2, <2>3 DEF TooNear
<1> QED  BY <1>1, <1>2

(* The type invariant, and OsmApart in the form that a step keeps.         *)
Separate(set) == \A s \in set \cap Osm : \A t \in set \ {s} : ~TooNear(s, t)

LEMMA MergedSeparate ==
  ASSUME NEW set, set \subseteq Shelter, NEW new, new \subseteq Osm,
         NEW all \in Merged(set, new), Separate(set)
  PROVE  all \subseteq Shelter /\ Separate(all)
<1>1. /\ set \subseteq all /\ all \subseteq set \cup new
      /\ \A s \in all \ set : \A t \in all \ {s} : ~TooNear(s, t)
  BY MergedFacts DEF Shelter
<1>2. all \subseteq Shelter
  BY <1>1 DEF Shelter
<1>3. \A s, t \in all : TooNear(s, t) => TooNear(t, s)
  BY <1>2, Places, Distances DEF TooNear
<1>4. ASSUME NEW s \in all \cap Osm, NEW t \in all \ {s}, TooNear(s, t) PROVE FALSE
  <2>1. CASE s \notin set
    BY <1>1, <1>4, <2>1
  <2>2. CASE t \notin set
    BY <1>1, <1>3, <1>4, <2>2
  <2>3. CASE s \in set /\ t \in set
    BY <1>4, <2>3 DEF Separate
  <2> QED  BY <2>1, <2>2, <2>3
<1> QED  BY <1>2, <1>4 DEF Separate

ShelterInv == ShelterTypeOK /\ Separate(shelters)

LEMMA InitShelter == ShelterInit => ShelterInv
<1> SUFFICES ASSUME ShelterInit PROVE ShelterInv
  OBVIOUS
<1>1. ShelterTypeOK
  BY DEF ShelterInit, ShelterTypeOK, Shelter
<1>2. Seed \cap Osm = {}
  BY ShelterAssumption
<1> QED  BY <1>1, <1>2 DEF ShelterInit, ShelterInv, Separate

LEMMA OsmAnswersShelter ==
  ASSUME ShelterInv, NEW l \in Loader, OsmAnswers(l)
  PROVE  ShelterInv'
<1>1. loader[l] \in [pc : {"osm"}, gov : SUBSET Gov] /\ loader[l].gov \subseteq Gov
  BY DEF ShelterInv, ShelterTypeOK, OsmAnswers
<1>2. stored' = stored /\ upload' = upload
      /\ loader' \in [Loader -> [pc : {"idle", "gov"}] \cup [pc : {"osm"}, gov : SUBSET Gov]]
      /\ searcher' = searcher
  BY DEF ShelterInv, ShelterTypeOK, OsmAnswers
<1> DEFINE base == Seed \cup loader[l].gov
<1>3. base \subseteq Shelter /\ Separate(base)
  BY <1>1, ShelterAssumption DEF Shelter, Separate
<1>4. PICK osm \in OsmTold : \E all \in Merged(base, osm) :
        IF all = {} THEN UNCHANGED <<cells, shelters, regional>>
        ELSE shelters' = all /\ cells' = CellsOf(all) /\ regional' = RegionsOf(all)
  BY DEF OsmAnswers
<1>5. PICK all \in Merged(base, osm) :
        IF all = {} THEN UNCHANGED <<cells, shelters, regional>>
        ELSE shelters' = all /\ cells' = CellsOf(all) /\ regional' = RegionsOf(all)
  BY <1>4
<1>6. all \subseteq Shelter /\ Separate(all)
  <2>1. osm \subseteq Osm
    BY <1>4 DEF OsmTold
  <2> QED  BY <1>3, <1>5, <2>1, MergedSeparate
<1> HIDE DEF base
<1>7. /\ shelters' \subseteq Shelter /\ Separate(shelters') /\ cells' = CellsOf(shelters')
      /\ regional' = RegionsOf(shelters')
  BY <1>5, <1>6 DEF ShelterInv, ShelterTypeOK
<1> QED  BY <1>2, <1>7 DEF ShelterInv, ShelterTypeOK, Separate

LEMMA PlaceAnswersShelter ==
  ASSUME ShelterInv, NEW s \in Searcher, PlaceAnswers(s)
  PROVE  ShelterInv'
<1>1. loader' = loader /\ stored' = stored /\ upload' = upload
      /\ searcher' \in [Searcher -> [pc : {"idle"}] \cup [pc : {"asked"}, q : Query]]
  BY DEF ShelterInv, ShelterTypeOK, PlaceAnswers
<1>2. /\ shelters' \subseteq Shelter /\ Separate(shelters') /\ cells' = CellsOf(shelters')
      /\ regional' = RegionsOf(shelters')
  <2>1. CASE UNCHANGED <<cells, shelters, regional>>
    BY <2>1 DEF ShelterInv, ShelterTypeOK
  <2> DEFINE lists == [g \in Region |-> regional[g]
                         \cup {o \in shelters' \ shelters : o.region = g}]
  <2>2. CASE /\ shelters' \in Added(shelters, searcher[s].q) /\ cells' = CellsOf(shelters')
             /\ regional' = lists
    <3>1. PICK new \in SUBSET Osm : shelters' \in Merged(shelters, new)
      BY <2>2 DEF Added
    <3>2. shelters \subseteq Shelter /\ Separate(shelters)
      BY DEF ShelterInv, ShelterTypeOK
    <3>3. shelters \subseteq shelters'
      BY <3>1, <3>2, MergedFacts DEF Shelter
    <3>4. \A g \in Region : lists[g] = {o \in shelters' : o.region = g}
      <4>1. \A g \in Region : regional[g] = {o \in shelters : o.region = g}
        BY DEF ShelterInv, ShelterTypeOK, RegionsOf
      <4> QED  BY <3>3, <4>1
    <3>5. regional' = RegionsOf(shelters')
      BY <2>2, <3>4 DEF RegionsOf
    <3> HIDE DEF lists
    <3> QED  BY <2>2, <3>1, <3>2, <3>5, MergedSeparate
  <2> QED  BY <2>1, <2>2 DEF PlaceAnswers
<1> QED  BY <1>1, <1>2 DEF ShelterInv, ShelterTypeOK, Separate

LEMMA NextShelter == ShelterInv /\ [ShelterNext]_shelterVars => ShelterInv'
<1> SUFFICES ASSUME ShelterInv, [ShelterNext]_shelterVars PROVE ShelterInv'
  OBVIOUS
<1>1. ASSUME UNCHANGED shelterVars PROVE ShelterInv'
  BY <1>1 DEF ShelterInv, ShelterTypeOK, shelterVars, Separate
<1>2. ASSUME NEW l \in Loader, LoadStarts(l) PROVE ShelterInv'
  BY <1>2 DEF ShelterInv, ShelterTypeOK, LoadStarts, Separate
<1>3. ASSUME NEW l \in Loader, GovAnswers(l) PROVE ShelterInv'
  BY <1>3 DEF ShelterInv, ShelterTypeOK, GovAnswers, Separate
<1>4. ASSUME NEW l \in Loader, OsmAnswers(l) PROVE ShelterInv'
  BY <1>4, OsmAnswersShelter
<1>5. ASSUME NEW s \in Searcher, PlaceAnswers(s) PROVE ShelterInv'
  BY <1>5, PlaceAnswersShelter
<1>6. ASSUME NEW s \in Searcher, NEW q \in Query, Search(s, q) PROVE ShelterInv'
  BY <1>6 DEF ShelterInv, ShelterTypeOK, Search, Separate
<1>7. ASSUME SyncStarts PROVE ShelterInv'
  BY <1>7 DEF ShelterInv, ShelterTypeOK, SyncStarts, Separate
<1>8. ASSUME UploadBatch PROVE ShelterInv'
  <2>1. PICK some \in SUBSET upload.left : stored' = stored \cup some
                                        /\ upload' = [upload EXCEPT !.left = @ \ some]
    BY <1>8 DEF UploadBatch
  <2>2. upload \in [pc : {"busy"}, left : SUBSET Gov]
    BY <1>8 DEF UploadBatch, ShelterInv, ShelterTypeOK
  <2>3. stored' \subseteq Gov /\ upload' \in [pc : {"busy"}, left : SUBSET Gov]
    BY <2>1, <2>2 DEF ShelterInv, ShelterTypeOK
  <2> QED  BY <1>8, <2>3 DEF ShelterInv, ShelterTypeOK, UploadBatch, Separate
<1>9. ASSUME NEW l \in Loader, SyncLoads(l) PROVE ShelterInv'
  BY <1>9 DEF ShelterInv, ShelterTypeOK, SyncLoads, Separate
<1> QED  BY <1>1, <1>2, <1>3, <1>4, <1>5, <1>6, <1>7, <1>8, <1>9 DEF ShelterNext

(* The index holds the shelters of the list, each in its cell.             *)
THEOREM ShelterTypeCorrect == ShelterSpec => []ShelterTypeOK
<1>1. ShelterInv => ShelterTypeOK
  BY DEF ShelterInv
<1> QED  BY <1>1, InitShelter, NextShelter, PTL DEF ShelterSpec

(* No shelter of OpenStreetMap stands beside another, whatever the order   *)
(* of the answers.                                                         *)
THEOREM ShelterApartCorrect == ShelterSpec => []OsmApart
<1>1. ShelterInv => OsmApart
  <2> SUFFICES ASSUME ShelterInv, NEW s \in shelters \cap Osm, NEW t \in shelters \ {s}
               PROVE  Distance2(s.at, t.at) > Square(Near)
    BY DEF OsmApart
  <2>1. s.at \in Place /\ t.at \in Place /\ Near \in Nat
    BY Places DEF ShelterInv, ShelterTypeOK
  <2>2. Distance2(s.at, t.at) \in Nat /\ Square(Near) \in Int
    BY <2>1, Distances DEF Square
  <2>3. ~(Distance2(s.at, t.at) <= Square(Near))
    BY DEF ShelterInv, Separate, TooNear
  <2> QED  BY <2>2, <2>3
<1> QED  BY <1>1, InitShelter, NextShelter, PTL DEF ShelterSpec

LEMMA SearchOfList ==
  ASSUME ShelterTypeOK, NEW q \in Query
  PROVE  LET near == {s \in shelters : Distance2(q.at, s.at) <= Square(q.radius)}
             Better(f, s) == Cardinality({t \in near \ f : Nearer(q.at, t, s)})
         IN  \A f \in FindNearby(cells, q) :
               /\ f \subseteq near
               /\ \A s \in f : Better(f, s) = 0
               /\ f = near \/ Cardinality(f) = q.limit
<1> DEFINE near == {s \in shelters : Distance2(q.at, s.at) <= Square(q.radius)}
           n == IF Cardinality(near) < q.limit THEN Cardinality(near) ELSE q.limit
<1>1. Candidates(cells, q.at, q.radius) = near
  BY Places, CandidatesAreNear DEF ShelterTypeOK
<1>2. FindNearby(cells, q) =
        {f \in SUBSET near :
           Cardinality(f) = n /\ \A s \in f, t \in near \ f : ~Nearer(q.at, t, s)}
  BY <1>1 DEF FindNearby
<1>3. IsFiniteSet(near)
  BY Places, FS_Subset DEF ShelterTypeOK
<1> HIDE DEF near
<1> SUFFICES ASSUME NEW f \in FindNearby(cells, q)
             PROVE  /\ f \subseteq near
                    /\ \A s \in f : Cardinality({t \in near \ f : Nearer(q.at, t, s)}) = 0
                    /\ f = near \/ Cardinality(f) = q.limit
  BY DEF near
<1>4. f \subseteq near /\ Cardinality(f) = n
      /\ \A s \in f, t \in near \ f : ~Nearer(q.at, t, s)
  BY <1>2
<1>5. ASSUME NEW s \in f PROVE Cardinality({t \in near \ f : Nearer(q.at, t, s)}) = 0
  <2>1. {t \in near \ f : Nearer(q.at, t, s)} = {}
    BY <1>4
  <2> QED  BY <2>1, FS_EmptySet
<1>6. Cardinality(f) = Cardinality(near) => f = near
  BY <1>3, <1>4, FS_Subset
<1> QED  BY <1>4, <1>5, <1>6

LEMMA RegionOfList ==
  ASSUME ShelterTypeOK, NEW q \in Query, NEW g \in Region,
         NEW f \in OfRegion(regional, g, q.limit)
  PROVE  LET there == {s \in shelters : s.region = g} IN
         /\ f \subseteq there
         /\ \A s \in f, t \in there \ f : s.tier <= t.tier
         /\ f = there \/ Cardinality(f) = q.limit
<1> DEFINE there == {s \in shelters : s.region = g}
           n == IF Cardinality(there) < q.limit THEN Cardinality(there) ELSE q.limit
<1>1. regional[g] = there
  BY DEF ShelterTypeOK, RegionsOf
<1>2. f \in SUBSET there /\ Cardinality(f) = n
      /\ \A s \in f, t \in there \ f : ~(t.tier < s.tier)
  BY <1>1 DEF OfRegion
<1>3. IsFiniteSet(there)
  BY Places, FS_Subset DEF ShelterTypeOK
<1>4. \A s \in there : s.tier \in 0..2
  BY ShelterAssumption DEF ShelterTypeOK
<1> HIDE DEF there
<1>5. \A s \in f, t \in there \ f : s.tier <= t.tier
  BY <1>2, <1>4
<1>6. Cardinality(f) = Cardinality(there) => f = there
  BY <1>2, <1>3, FS_Subset
<1> QED  BY <1>2, <1>5, <1>6 DEF there

(* A search misses nothing that is near, or in its region.                 *)
THEOREM ShelterSearchCorrect == ShelterSpec => []SearchIsExact
<1>1. ShelterTypeOK => SearchIsExact
  BY SearchOfList, RegionOfList DEF SearchIsExact
<1> QED  BY <1>1, ShelterTypeCorrect, PTL

-----------------------------------------------------------------------------
(* Loops over lists.  What holds before the first turn of a loop, and after *)
(* a turn if it held before it, holds after each turn; T are the turns     *)
(* after which it does.                                                    *)
LEMMA Turns ==
  ASSUME NEW N \in Nat, NEW T, 0 \in T, \A n \in 1..N : n - 1 \in T => n \in T
  PROVE  \A n \in 0..N : n \in T
<1> DEFINE bad == {n \in 0..N : n \notin T}
<1> SUFFICES ASSUME bad # {} PROVE FALSE
  OBVIOUS
<1>1. bad \in SUBSET Nat
  OBVIOUS
<1>2. PICK n \in bad : \A m \in bad : n <= m
  BY <1>1, LeastNumber
<1>3. n \in 1..N
  BY <1>2
<1>4. n - 1 \in 0..N /\ ~(n <= n - 1)
  BY <1>3
<1>5. n - 1 \in T
  BY <1>2, <1>4
<1> QED  BY <1>2, <1>3, <1>5

(* A loop whose turns take states of S to states of S has a run.           *)
IsLoop(N, S, start, turn) ==
  N \in Nat /\ start \in S /\ turn \in [1..N -> [S -> S]]

IsRun(f, N, S, start, turn) ==
  /\ f \in [0..N -> S] /\ f[0] = start
  /\ \A n \in 1..N : f[n] = turn[n][f[n - 1]]

LEMMA LoopRuns ==
  ASSUME NEW N, NEW S, NEW start, NEW turn, IsLoop(N, S, start, turn)
  PROVE  \E f : IsRun(f, N, S, start, turn)
<1> USE DEF IsLoop
<1> DEFINE T == {n \in 0..N : \E f : IsRun(f, n, S, start, turn)}
<1>1. 0 \in T
  <2> DEFINE g == [m \in 0..0 |-> start]
  <2>1. IsRun(g, 0, S, start, turn)
    BY DEF IsRun
  <2> HIDE DEF g
  <2> QED  BY <2>1
<1>2. ASSUME NEW n \in 1..N, n - 1 \in T PROVE n \in T
  <2>1. PICK f : IsRun(f, n - 1, S, start, turn)
    BY <1>2
  <2> DEFINE g == [m \in 0..n |-> IF m = n THEN turn[n][f[n - 1]] ELSE f[m]]
  <2>2. f \in [0..(n - 1) -> S]
    BY <2>1 DEF IsRun
  <2>3. turn[n][f[n - 1]] \in S
    <3>1. f[n - 1] \in S
      BY <2>2
    <3> QED  BY <3>1
  <2>4. g \in [0..n -> S] /\ g[0] = start
    BY <2>1, <2>2, <2>3 DEF IsRun
  <2>5. ASSUME NEW m \in 1..n PROVE g[m] = turn[m][g[m - 1]]
    <3>1. m - 1 \in 0..n /\ m - 1 # n
      OBVIOUS
    <3>2. g[m - 1] = f[m - 1]
      BY <3>1
    <3>3. CASE m = n
      BY <3>2, <3>3
    <3>4. CASE m # n
      <4>1. m \in 1..(n - 1) /\ m \in 0..n
        BY <3>4
      <4> QED  BY <2>1, <3>2, <3>4, <4>1 DEF IsRun
    <3> QED  BY <3>3, <3>4
  <2> HIDE DEF g
  <2>6. IsRun(g, n, S, start, turn)
    BY <2>4, <2>5 DEF IsRun
  <2> QED  BY <2>6
<1> HIDE DEF T
<1>3. \A n \in 0..N : n \in T
  BY <1>1, <1>2, Turns
<1>4. N \in T
  BY <1>3
<1> QED  BY <1>4 DEF T

(* What Without leaves of a list is in it and not in K, and all of that; a *)
(* list without repetitions has none then.                                 *)
WithoutOf(s, K) ==
  CHOOSE kept : kept =
    [n \in 0..Len(s) |-> IF n = 0 THEN <<>>
       ELSE IF s[n] \in K THEN kept[n - 1] ELSE Append(kept[n - 1], s[n])]

LEMMA WithoutRuns ==
  ASSUME NEW S, NEW s \in Seq(S), NEW K
  PROVE  LET f == WithoutOf(s, K) IN
         /\ f[0] = <<>>
         /\ \A n \in 1..Len(s) :
              f[n] = IF s[n] \in K THEN f[n - 1] ELSE Append(f[n - 1], s[n])
<1> DEFINE N == Len(s)
           Step(n, x) == IF s[n] \in K THEN x ELSE Append(x, s[n])
           turn == [n \in 1..N |-> [x \in Seq(S) |-> Step(n, x)]]
           Eqn(f) == f = [n \in 0..N |-> IF n = 0 THEN <<>>
                            ELSE IF s[n] \in K THEN f[n - 1] ELSE Append(f[n - 1], s[n])]
<1>1. N \in Nat /\ <<>> \in Seq(S)
  OBVIOUS
<1>2. IsLoop(N, Seq(S), <<>>, turn)
  BY DEF IsLoop
<1>3. PICK f : IsRun(f, N, Seq(S), <<>>, turn)
  <2> HIDE DEF turn, N
  <2> QED  BY <1>2, LoopRuns
<1>4. ASSUME NEW n \in 1..N PROVE f[n] = Step(n, f[n - 1])
  <2>1. f[n - 1] \in Seq(S)
    BY <1>3, n - 1 \in 0..N DEF IsRun
  <2> QED  BY <1>3, <2>1 DEF IsRun
<1> HIDE DEF turn
<1>5. ASSUME NEW n \in 0..N PROVE f[n] = IF n = 0 THEN <<>> ELSE Step(n, f[n - 1])
  BY <1>3, <1>4, n = 0 \/ n \in 1..N DEF IsRun
<1>6. Eqn(f)
  <2>1. f = [n \in 0..N |-> f[n]]
    BY <1>3 DEF IsRun
  <2> QED  BY <1>5, <2>1
<1>7. Eqn(WithoutOf(s, K))
  <2> HIDE DEF Eqn
  <2>1. \E g : Eqn(g)
    BY <1>6
  <2>2. WithoutOf(s, K) = CHOOSE g : Eqn(g)
    BY DEF WithoutOf, Eqn
  <2> QED  BY <2>1, <2>2
<1> DEFINE h == WithoutOf(s, K)
<1>8. h = [n \in 0..N |-> IF n = 0 THEN <<>>
                            ELSE IF s[n] \in K THEN h[n - 1] ELSE Append(h[n - 1], s[n])]
  BY <1>7
<1> HIDE DEF h
<1>9. h[0] = <<>> /\ \A n \in 1..N : h[n] = IF s[n] \in K THEN h[n - 1] ELSE Append(h[n - 1], s[n])
  <2>1. 0 \in 0..N /\ \A n \in 1..N : n \in 0..N /\ n # 0
    BY <1>1
  <2>2. h[0] = <<>>
    BY <1>8, <2>1, Zenon
  <2>3. ASSUME NEW n \in 1..N
        PROVE  h[n] = IF s[n] \in K THEN h[n - 1] ELSE Append(h[n - 1], s[n])
    BY <1>8, <2>1, Zenon
  <2> QED  BY <2>2, <2>3
<1> QED  BY <1>9 DEF h

LEMMA WithoutFacts ==
  ASSUME NEW S, NEW s \in Seq(S), NEW K
  PROVE  /\ Without(s, K) \in Seq(S)
         /\ ToSet(Without(s, K)) = ToSet(s) \ K
         /\ IsInjective(s) => IsInjective(Without(s, K))
<1> DEFINE f == WithoutOf(s, K)
           N == Len(s)
           Firsts(n) == {s[i] : i \in 1..n}
           Good(n) == /\ f[n] \in Seq(S) /\ ToSet(f[n]) = Firsts(n) \ K
                      /\ IsInjective(s) => IsInjective(f[n])
           T == {n \in 0..N : Good(n)}
<1>1. Without(s, K) = f[N]
  BY DEF Without, WithoutOf
<1>2. /\ f[0] = <<>>
      /\ \A n \in 1..N : f[n] = IF s[n] \in K THEN f[n - 1] ELSE Append(f[n - 1], s[n])
  BY WithoutRuns
<1> HIDE DEF f
<1> N \in Nat
  OBVIOUS
<1>3. 0 \in T
  <2>1. <<>> \in Seq(S) /\ ToSet(<<>>) = {} /\ IsInjective(<<>>)
    BY DEF ToSet, IsInjective
  <2>2. Firsts(0) = {}
    OBVIOUS
  <2> HIDE DEF Firsts
  <2>3. Good(0)
    BY <1>2, <2>1, <2>2
  <2> QED  BY <2>3
<1>4. ASSUME NEW n \in 1..N, n - 1 \in T PROVE n \in T
  <2> SUFFICES Good(n)
    OBVIOUS
  <2> DEFINE g == f[n - 1]
  <2>1. g \in Seq(S) /\ ToSet(g) = Firsts(n - 1) \ K /\ (IsInjective(s) => IsInjective(g))
    BY <1>4
  <2>2. Firsts(n) = Firsts(n - 1) \cup {s[n]}
    OBVIOUS
  <2>3. f[n] = IF s[n] \in K THEN g ELSE Append(g, s[n])
    BY <1>2
  <2>4. s[n] \in S
    OBVIOUS
  <2> HIDE DEF g, Firsts
  <2>5. CASE s[n] \in K
    BY <2>1, <2>2, <2>3, <2>5
  <2>6. CASE s[n] \notin K
    <3>1. f[n] = Append(g, s[n]) /\ f[n] \in Seq(S)
      BY <2>1, <2>3, <2>4, <2>6
    <3>2. ToSet(f[n]) = ToSet(g) \cup {s[n]}
      BY <2>1, <2>4, <3>1 DEF ToSet
    <3>3. ASSUME IsInjective(s) PROVE IsInjective(f[n])
      <4>1. s[n] \notin Firsts(n - 1)
        BY <3>3 DEF IsInjective, Firsts
      <4>2. s[n] \notin ToSet(g) /\ IsInjective(g)
        BY <2>1, <3>3, <4>1
      <4> QED  BY <2>1, <2>4, <3>1, <4>2 DEF IsInjective, ToSet
    <3> QED  BY <2>1, <2>2, <2>6, <3>1, <3>2, <3>3
  <2> QED  BY <2>5, <2>6
<1>5. \A n \in 0..N : n \in T
  <2> HIDE DEF T, N
  <2> QED  BY <1>3, <1>4, Turns
<1>6. Good(N)
  <2>1. N \in T
    <3> HIDE DEF T, N
    <3> QED  BY <1>5
  <2> QED  BY <2>1
<1>7. Firsts(N) = ToSet(s)
  BY DEF ToSet
<1> QED  BY <1>1, <1>6, <1>7

-----------------------------------------------------------------------------
(* The search for a way between two regions.                               *)
Regions == ToSet(Oblast)

Way == Seq(Regions) \ {<<>>}

Searches == [queue : Seq(Way), visited : SUBSET Regions]

SearchOf(from, to) ==
  CHOOSE search : search =
    [n \in 0..Len(Oblast) |->
       IF n = 0 THEN [queue |-> << <<from>> >>, visited |-> {from}]
       ELSE Turned(search[n - 1], to)]

LEMMA Map ==
  /\ Oblast \in Seq(Regions) /\ Len(Oblast) \in Nat
  /\ \A r \in Regions : Border[r] \in Seq(Regions) /\ IsInjective(Border[r])
  /\ IsFiniteSet(Regions) /\ Cardinality(Regions) <= Len(Oblast)
<1>1. Oblast \in Seq(Regions) /\ Border \in [Regions -> Seq(Regions)]
  BY PredictionAssumption DEF Regions
<1>2. \A r \in Regions : IsInjective(Border[r])
  BY PredictionAssumption DEF Regions
<1>3. Oblast \in [1..Len(Oblast) -> Regions] /\ Len(Oblast) \in Nat
  BY <1>1
<1>4. \A r \in Regions : \E i \in 1..Len(Oblast) : Oblast[i] = r
  BY <1>3 DEF Regions, ToSet
<1>5. ExistsSurjection(1..Len(Oblast), Regions)
  BY <1>3, <1>4 DEF ExistsSurjection, Surjection
<1>6. IsFiniteSet(Regions)
  BY <1>3, <1>5, FS_NatSurjection
<1>7. Cardinality(Regions) <= Len(Oblast)
  BY <1>3, <1>5, FS_SurjCardinalityBound
<1> QED  BY <1>1, <1>2, <1>3, <1>6, <1>7

LEMMA Joined ==
  ASSUME NEW S, NEW a \in Seq(S), NEW b \in Seq(S)
  PROVE  /\ a \o b \in Seq(S) /\ Len(a \o b) = Len(a) + Len(b)
         /\ \A i \in 1..Len(a) : (a \o b)[i] = a[i]
         /\ \A i \in 1..Len(b) : (a \o b)[Len(a) + i] = b[i]
OBVIOUS

(* What a turn does to a search that goes on: the first path leaves the    *)
(* queue, and its continuations join it.                                   *)
LEMMA TurnFacts ==
  ASSUME NEW s \in Searches, NEW to, s.queue # <<>>, Last(Head(s.queue)) # to
  PROVE  \E next \in Seq(Regions) :
           LET path == s.queue[1]
               t == Turned(s, to)
               n == Len(s.queue) - 1
           IN  /\ path \in Way /\ Last(path) \in Regions
               /\ ToSet(next) = ToSet(Border[Last(path)]) \ s.visited
               /\ IsInjective(next)
               /\ t.visited = s.visited \cup ToSet(next)
               /\ t.queue \in Seq(Way) /\ Len(t.queue) = n + Len(next)
               /\ \A i \in 1..n : t.queue[i] = s.queue[i + 1]
               /\ \A i \in 1..Len(next) : t.queue[n + i] = Append(path, next[i])
               /\ t \in Searches
<1> DEFINE path == s.queue[1]
           next == Without(Border[Last(path)], s.visited)
           n == Len(s.queue) - 1
           new == [i \in DOMAIN next |-> Append(path, next[i])]
           t == Turned(s, to)
<1>1. s.queue \in Seq(Way) /\ s.visited \subseteq Regions
  BY DEF Searches
<1>2. n \in Nat /\ Len(s.queue) = n + 1
  BY <1>1
<1>3. path \in Way /\ Head(s.queue) = path
  BY <1>1, <1>2
<1>4. path \in Seq(Regions) /\ Len(path) \in Nat \ {0}
  BY <1>3 DEF Way
<1>5. Last(path) \in Regions
  BY <1>4 DEF Last
<1>6. /\ next \in Seq(Regions)
      /\ ToSet(next) = ToSet(Border[Last(path)]) \ s.visited
      /\ IsInjective(next)
  BY <1>5, Map, WithoutFacts
<1>7. t = [queue |-> Tail(s.queue) \o new, visited |-> s.visited \cup ToSet(next)]
  BY <1>3 DEF Turned
<1> HIDE DEF path, next, t
<1>8. /\ new \in Seq(Way) /\ Len(new) = Len(next)
      /\ \A i \in 1..Len(next) : new[i] = Append(path, next[i])
  <2>1. ASSUME NEW i \in 1..Len(next) PROVE Append(path, next[i]) \in Way
    BY <1>4, <1>6 DEF Way
  <2>2. DOMAIN next = 1..Len(next) /\ Len(next) \in Nat
    BY <1>6
  <2>3. new \in [1..Len(next) -> Way]
    BY <2>1, <2>2
  <2> QED  BY <2>2, <2>3
<1> HIDE DEF new
<1>9. /\ Tail(s.queue) \in Seq(Way) /\ Len(Tail(s.queue)) = n
      /\ \A i \in 1..n : Tail(s.queue)[i] = s.queue[i + 1]
  BY <1>1, <1>2
<1> DEFINE rest == Tail(s.queue)
<1> HIDE DEF rest
<1>10. t.queue \in Seq(Way) /\ Len(t.queue) = n + Len(next)
  BY <1>6, <1>7, <1>8, <1>9
<1>11. t.queue = rest \o new
  BY <1>7 DEF rest
<1>12. ASSUME NEW i \in 1..n PROVE t.queue[i] = s.queue[i + 1]
  <2>1. (rest \o new)[i] = rest[i] /\ rest[i] = s.queue[i + 1]
    BY <1>8, <1>9, Joined DEF rest
  <2> QED  BY <1>11, <2>1
<1>13. ASSUME NEW i \in 1..Len(next) PROVE t.queue[n + i] = Append(path, next[i])
  <2>1. rest \in Seq(Way) /\ new \in Seq(Way) /\ Len(rest) = n /\ Len(new) = Len(next)
    BY <1>8, <1>9 DEF rest
  <2>2. \A j \in 1..Len(new) : (rest \o new)[Len(rest) + j] = new[j]
    BY <2>1, Joined
  <2>3. new[i] = Append(path, next[i])
    BY <1>8
  <2> QED  BY <1>11, <2>1, <2>2, <2>3
<1>14. ToSet(next) \subseteq Regions
  BY <1>6 DEF ToSet
<1>15. t \in Searches /\ t.visited = s.visited \cup ToSet(next)
  BY <1>1, <1>7, <1>10, <1>14 DEF Searches
<1> QED  BY <1>3, <1>5, <1>6, <1>10, <1>12, <1>13, <1>15 DEF path, n, t

LEMMA SearchRuns ==
  ASSUME NEW from \in Regions, NEW to
  PROVE  LET f == SearchOf(from, to) IN
         /\ f[0] = [queue |-> << <<from>> >>, visited |-> {from}]
         /\ \A n \in 0..Len(Oblast) : f[n] \in Searches
         /\ \A n \in 1..Len(Oblast) : f[n] = Turned(f[n - 1], to)
<1> DEFINE N == Len(Oblast)
           start == [queue |-> << <<from>> >>, visited |-> {from}]
           turn == [n \in 1..N |-> [s \in Searches |-> Turned(s, to)]]
           Eqn(f) == f = [n \in 0..N |-> IF n = 0 THEN start ELSE Turned(f[n - 1], to)]
<1> N \in Nat
  BY Map
<1>1. start \in Searches
  <2>1. <<from>> \in Way
    BY DEF Way
  <2> QED  BY <2>1 DEF Searches
<1>2. ASSUME NEW s \in Searches PROVE Turned(s, to) \in Searches
  <2>1. CASE s.queue = <<>> \/ Last(Head(s.queue)) = to
    BY <2>1 DEF Turned
  <2>2. CASE ~(s.queue = <<>> \/ Last(Head(s.queue)) = to)
    BY <2>2, TurnFacts
  <2> QED  BY <2>1, <2>2
<1>3. IsLoop(N, Searches, start, turn)
  BY <1>1, <1>2 DEF IsLoop
<1> HIDE DEF start
<1>4. PICK f : IsRun(f, N, Searches, start, turn)
  <2> HIDE DEF turn, N
  <2> QED  BY <1>3, LoopRuns
<1>5. ASSUME NEW n \in 1..N PROVE f[n] = Turned(f[n - 1], to)
  <2>1. f[n - 1] \in Searches
    BY <1>4, n - 1 \in 0..N DEF IsRun
  <2> QED  BY <1>4, <2>1 DEF IsRun
<1> HIDE DEF turn
<1>6. ASSUME NEW n \in 0..N PROVE f[n] = IF n = 0 THEN start ELSE Turned(f[n - 1], to)
  BY <1>4, <1>5, n = 0 \/ n \in 1..N DEF IsRun
<1>7. Eqn(f)
  <2>1. f = [n \in 0..N |-> f[n]]
    BY <1>4 DEF IsRun
  <2> QED  BY <1>6, <2>1
<1>8. Eqn(SearchOf(from, to))
  <2> HIDE DEF Eqn
  <2>1. \E g : Eqn(g)
    BY <1>7
  <2>2. SearchOf(from, to) = CHOOSE g : Eqn(g)
    BY DEF SearchOf, Eqn, start
  <2> QED  BY <2>1, <2>2
<1> DEFINE h == SearchOf(from, to)
<1>9. h = [n \in 0..N |-> IF n = 0 THEN start ELSE Turned(h[n - 1], to)]
  BY <1>8
<1> HIDE DEF h
<1>10. /\ h[0] = start /\ \A n \in 1..N : h[n] = Turned(h[n - 1], to)
  <2>1. 0 \in 0..N /\ \A n \in 1..N : n \in 0..N /\ n # 0
    OBVIOUS
  <2>2. h[0] = start
    BY <1>9, <2>1, Zenon
  <2>3. ASSUME NEW n \in 1..N PROVE h[n] = Turned(h[n - 1], to)
    BY <1>9, <2>1, Zenon
  <2> QED  BY <2>2, <2>3
<1> DEFINE T == {n \in 0..N : h[n] \in Searches}
<1>11. 0 \in T
  BY <1>1, <1>10 DEF start
<1>12. ASSUME NEW n \in 1..N, n - 1 \in T PROVE n \in T
  BY <1>2, <1>10, <1>12
<1>13. \A n \in 0..N : n \in T
  <2> HIDE DEF T, N
  <2> QED  BY <1>11, <1>12, Turns
<1> QED  BY <1>10, <1>13 DEF h, start

(* Where a search stands after n turns: it goes on with the shorter paths  *)
(* first, each of them a shortest one, and whatever is next to a region it *)
(* has seen, and does not still have to go on from, it has seen.           *)
Stopped(s, to) == s.queue = <<>> \/ Last(Head(s.queue)) = to

Shortest(path, from) ==
  /\ path \in Walks(Len(path), from, Last(path))
  /\ \A m \in 1..(Len(path) - 1) : Walks(m, from, Last(path)) = {}

SearchOK(s, n, from, to) ==
  /\ s \in Searches /\ from \in s.visited
  /\ \A i \in 1..Len(s.queue) : Shortest(s.queue[i], from) /\ Last(s.queue[i]) \in s.visited
  /\ \A i, j \in 1..Len(s.queue) :
       i <= j => /\ Len(s.queue[i]) <= Len(s.queue[j])
                 /\ Len(s.queue[j]) <= Len(s.queue[i]) + 1
  /\ \A r \in s.visited :
       \/ \E i \in 1..Len(s.queue) : Last(s.queue[i]) = r
       \/ r # to /\ ToSet(Border[r]) \subseteq s.visited
  /\ Stopped(s, to) \/ Cardinality(s.visited) = Len(s.queue) + n

(* What the walks pass that are no longer than the first path queued.      *)
LEMMA Passed ==
  ASSUME NEW from \in Regions, NEW to, NEW n, NEW s, SearchOK(s, n, from, to),
         NEW m \in Nat \ {0}, s.queue = <<>> \/ m <= Len(s.queue[1]),
         NEW r, NEW w \in Walks(m, from, r)
  PROVE  r \in s.visited
<1> DEFINE T == {k \in 0..m : k = 0 \/ w[k] \in s.visited}
<1>1. /\ w \in [1..m -> Regions] /\ w[1] = from /\ w[m] = r
      /\ \A i \in 1..(m - 1) : w[i + 1] \in ToSet(Border[w[i]])
  BY DEF Walks, Regions
<1>2. /\ s.queue \in Seq(Way) /\ \A i \in 1..Len(s.queue) : Len(s.queue[i]) \in Nat
  BY DEF SearchOK, Searches, Way
<1>3. ASSUME NEW k \in 1..m, k - 1 \in T PROVE k \in T
  <2>1. CASE k = 1
    BY <1>1, <2>1 DEF SearchOK
  <2>2. CASE k # 1
    <3> DEFINE j == k - 1
               v == [i \in 1..j |-> w[i]]
    <3>1. j \in 1..(m - 1) /\ j + 1 = k /\ j \in 1..m
      BY <2>2
    <3>2. w[j] \in s.visited
      BY <1>3, <3>1
    <3>3. v \in Walks(j, from, w[j])
      <4>1. v \in [1..j -> Regions]
        BY <1>1, <3>1
      <4>2. v[1] = from /\ v[j] = w[j]
        BY <1>1, <3>1
      <4>3. ASSUME NEW i \in 1..(j - 1) PROVE v[i + 1] \in ToSet(Border[v[i]])
        BY <1>1, <3>1, i \in 1..(m - 1), i \in 1..j, i + 1 \in 1..j
      <4> HIDE DEF v, j
      <4> QED  BY <4>1, <4>2, <4>3 DEF Walks, Regions
    <3>4. ASSUME NEW i \in 1..Len(s.queue) PROVE Last(s.queue[i]) # w[j]
      <4>1. m <= Len(s.queue[1]) /\ Len(s.queue[1]) <= Len(s.queue[i])
        BY <1>2 DEF SearchOK
      <4>2. j \in 1..(Len(s.queue[i]) - 1)
        BY <1>2, <3>1, <4>1
      <4> HIDE DEF v, j
      <4> QED  BY <3>3, <4>2 DEF SearchOK, Shortest
    <3>5. w[j + 1] \in s.visited
      BY <1>1, <3>1, <3>2, <3>4 DEF SearchOK
    <3> QED  BY <3>1, <3>5
  <2> QED  BY <2>1, <2>2
<1>4. \A k \in 0..m : k \in T
  <2> 0 \in T
    OBVIOUS
  <2> HIDE DEF T
  <2> QED  BY <1>3, Turns
<1> QED  BY <1>1, <1>4

LEMMA SearchBegins ==
  ASSUME NEW from \in Regions, NEW to
  PROVE  SearchOK([queue |-> << <<from>> >>, visited |-> {from}], 0, from, to)
<1> DEFINE s == [queue |-> << <<from>> >>, visited |-> {from}]
<1>1. s \in Searches
  <2>1. <<from>> \in Way
    BY DEF Way
  <2> QED  BY <2>1 DEF Searches
<1>2. Last(<<from>>) = from
  BY DEF Last
<1>3. Shortest(<<from>>, from)
  <2>1. <<from>> \in Walks(1, from, from)
    BY DEF Walks, Regions
  <2> QED  BY <1>2, <2>1 DEF Shortest
<1>4. Cardinality({from}) = 1
  BY FS_Singleton
<1>5. s.queue = << <<from>> >> /\ s.visited = {from} /\ Len(s.queue) = 1 /\ s.queue[1] = <<from>>
  OBVIOUS
<1> HIDE DEF s
<1>6. SearchOK(s, 0, from, to)
  BY <1>1, <1>2, <1>3, <1>4, <1>5 DEF SearchOK
<1> QED  BY <1>6 DEF s

LEMMA Longer ==
  ASSUME NEW path \in Way, NEW r \in ToSet(Border[Last(path)]), NEW from,
         path \in Walks(Len(path), from, Last(path))
  PROVE  LET longer == Append(path, r) IN
         /\ longer \in Way /\ Len(longer) = Len(path) + 1 /\ Last(longer) = r /\ r \in Regions
         /\ longer \in Walks(Len(longer), from, r)
<1> DEFINE longer == Append(path, r)
           n == Len(path)
<1>1. path \in Seq(Regions) /\ n \in Nat \ {0} /\ path \in [1..n -> Regions]
  BY DEF Way
<1>2. r \in Regions
  <2>1. Last(path) \in Regions
    BY <1>1 DEF Last
  <2> QED  BY <2>1, Map DEF ToSet
<1>3. /\ longer \in Seq(Regions) /\ Len(longer) = n + 1 /\ longer[n + 1] = r
      /\ \A i \in 1..n : longer[i] = path[i]
  BY <1>1, <1>2
<1>4. longer \in Way /\ Last(longer) = r
  BY <1>1, <1>3 DEF Way, Last
<1>5. /\ path[1] = from /\ Last(path) = path[n]
      /\ \A i \in 1..(n - 1) : path[i + 1] \in ToSet(Border[path[i]])
  BY DEF Walks, Last
<1> HIDE DEF longer
<1>6. longer \in [1..(n + 1) -> Regions]
  <2> longer \in [1..Len(longer) -> Regions]
    BY <1>3
  <2> QED  BY <1>3
<1>7. ASSUME NEW i \in 1..n PROVE longer[i + 1] \in ToSet(Border[longer[i]])
  <2>1. CASE i = n
    BY <1>1, <1>3, <1>5, <2>1
  <2>2. CASE i # n
    <3> i \in 1..(n - 1) /\ i + 1 \in 1..n
      <4> n \in Nat
        BY <1>1
      <4> HIDE DEF n
      <4> QED  BY <2>2
    <3> QED  BY <1>3, <1>5
  <2> QED  BY <2>1, <2>2
<1>8. longer[1] = from
  BY <1>1, <1>3, <1>5
<1> HIDE DEF n
<1>9. longer \in Walks(n + 1, from, r)
  <2> n \in Nat /\ (n + 1) - 1 = n
    BY <1>1
  <2> QED  BY <1>3, <1>6, <1>7, <1>8 DEF Walks, Regions
<1> QED  BY <1>2, <1>3, <1>4, <1>9 DEF longer, n

LEMMA SearchGoesOn ==
  ASSUME NEW from \in Regions, NEW to, NEW k \in Nat, NEW s, SearchOK(s, k, from, to)
  PROVE  SearchOK(Turned(s, to), k + 1, from, to)
<1>1. CASE Stopped(s, to)
  <2>1. Turned(s, to) = s
    BY <1>1 DEF Stopped, Turned
  <2> QED  BY <1>1, <2>1 DEF SearchOK
<1>2. CASE ~Stopped(s, to)
  <2> DEFINE path == s.queue[1]
             t == Turned(s, to)
             n == Len(s.queue) - 1
  <2>1. s \in Searches /\ s.queue # <<>> /\ Last(Head(s.queue)) # to
    BY <1>2 DEF SearchOK, Stopped
  <2>2. PICK next \in Seq(Regions) :
          /\ path \in Way /\ Last(path) \in Regions
          /\ ToSet(next) = ToSet(Border[Last(path)]) \ s.visited
          /\ IsInjective(next)
          /\ t.visited = s.visited \cup ToSet(next)
          /\ t.queue \in Seq(Way) /\ Len(t.queue) = n + Len(next)
          /\ \A i \in 1..n : t.queue[i] = s.queue[i + 1]
          /\ \A i \in 1..Len(next) : t.queue[n + i] = Append(path, next[i])
          /\ t \in Searches
    BY <2>1, TurnFacts
  <2> HIDE DEF t
  <2>3. /\ s.queue \in Seq(Way) /\ Len(s.queue) = n + 1 /\ n \in Nat /\ Len(next) \in Nat
        /\ s.visited \subseteq Regions /\ Head(s.queue) = path
        /\ \A i \in 1..n : i + 1 \in 1..Len(s.queue)
        /\ 1 \in 1..Len(s.queue)
    BY <2>1 DEF Searches
  <2> HIDE DEF n
  <2>4. Shortest(path, from) /\ Last(path) \in s.visited /\ Len(path) \in Nat \ {0}
    BY <2>2, <2>3 DEF SearchOK, Way
  <2>5. \A i \in 1..Len(t.queue) : i \in 1..n \/ \E j \in 1..Len(next) : i = n + j
    <3> TAKE i \in 1..Len(t.queue)
    <3> DEFINE l == Len(next)
    <3>1. n \in Nat /\ l \in Nat /\ i \in 1..(n + l)
      BY <2>2, <2>3
    <3> HIDE DEF l
    <3>2. i \in 1..n \/ (i - n \in 1..l /\ i = n + (i - n))
      BY <3>1
    <3> QED  BY <3>2 DEF l
  <2>6. \A i \in 1..n : Len(t.queue[i]) \in Nat
    <3>1. \A i \in 1..Len(t.queue) : Len(t.queue[i]) \in Nat
      BY <2>2 DEF Way
    <3>2. \A i \in 1..n : i \in 1..Len(t.queue)
      <4> DEFINE l == Len(next)
      <4>1. n \in Nat /\ l \in Nat /\ Len(t.queue) = n + l
        BY <2>2, <2>3
      <4> HIDE DEF l
      <4> QED  BY <4>1
    <3> QED  BY <3>1, <3>2
  <2>7. ASSUME NEW j \in 1..Len(next)
        PROVE  /\ Shortest(t.queue[n + j], from) /\ Last(t.queue[n + j]) = next[j]
               /\ next[j] \in t.visited /\ Len(t.queue[n + j]) = Len(path) + 1
    <3>1. next[j] \in ToSet(next)
      BY DEF ToSet
    <3>2. next[j] \in ToSet(Border[Last(path)]) /\ next[j] \notin s.visited
      BY <2>2, <3>1
    <3> DEFINE longer == Append(path, next[j])
    <3>3. /\ Len(longer) = Len(path) + 1 /\ Last(longer) = next[j]
          /\ longer \in Walks(Len(longer), from, next[j])
      BY <2>2, <2>4, <3>2, Longer DEF Shortest
    <3> HIDE DEF longer
    <3>4. ASSUME NEW m \in 1..(Len(longer) - 1), NEW w \in Walks(m, from, next[j]) PROVE FALSE
      <4>1. m \in Nat \ {0} /\ m <= Len(s.queue[1])
        BY <2>4, <3>3
      <4>2. next[j] \in s.visited
        BY <4>1, Passed
      <4> QED  BY <3>2, <4>2
    <3>5. Shortest(longer, from)
      BY <3>3, <3>4 DEF Shortest
    <3> QED  BY <2>2, <3>1, <3>3, <3>5 DEF longer
  <2>8. ASSUME NEW i \in 1..n
        PROVE  /\ Shortest(t.queue[i], from) /\ Last(t.queue[i]) \in t.visited
               /\ Len(path) <= Len(t.queue[i]) /\ Len(t.queue[i]) <= Len(path) + 1
    <3>1. t.queue[i] = s.queue[i + 1] /\ i + 1 \in 1..Len(s.queue) /\ 1 <= i + 1
      <4>1. t.queue[i] = s.queue[i + 1]
        BY <2>2
      <4>2. i + 1 \in 1..Len(s.queue)
        BY <2>3
      <4> QED  BY <4>1, <4>2
    <3> QED  BY <2>2, <2>3, <3>1 DEF SearchOK
  <2>9. \A i \in 1..Len(t.queue) : Shortest(t.queue[i], from) /\ Last(t.queue[i]) \in t.visited
    BY <2>5, <2>7, <2>8
  <2>10. ASSUME NEW i \in 1..Len(t.queue), NEW j \in 1..Len(t.queue), i <= j
         PROVE  /\ Len(t.queue[i]) <= Len(t.queue[j])
                /\ Len(t.queue[j]) <= Len(t.queue[i]) + 1
    <3>1. CASE i \in 1..n /\ j \in 1..n
      <4>1. t.queue[i] = s.queue[i + 1] /\ t.queue[j] = s.queue[j + 1]
        BY <2>2, <3>1
      <4>2. i + 1 \in 1..Len(s.queue) /\ j + 1 \in 1..Len(s.queue)
        BY <2>3, <3>1
      <4>3. i + 1 <= j + 1
        BY <2>3, <2>10, <3>1
      <4> QED  BY <4>1, <4>2, <4>3 DEF SearchOK
    <3>2. CASE i \in 1..n /\ j \notin 1..n
      <4>1. Len(t.queue[j]) = Len(path) + 1
        BY <2>5, <2>7, <3>2
      <4> QED  BY <2>4, <2>6, <2>8, <3>2, <4>1
    <3>3. CASE i \notin 1..n
      <4>1. j \notin 1..n
        BY <2>3, <2>10, <3>3
      <4>2. Len(t.queue[i]) = Len(path) + 1 /\ Len(t.queue[j]) = Len(path) + 1
        BY <2>5, <2>7, <3>3, <4>1
      <4> QED  BY <2>4, <4>2
    <3> QED  BY <3>1, <3>2, <3>3
  <2>11. ASSUME NEW r \in t.visited
         PROVE  \/ \E i \in 1..Len(t.queue) : Last(t.queue[i]) = r
                \/ r # to /\ ToSet(Border[r]) \subseteq t.visited
    <3>1. CASE r \in ToSet(next)
      <4>1. PICK j \in 1..Len(next) : next[j] = r
        BY <3>1 DEF ToSet
      <4>2. n + j \in 1..Len(t.queue)
        BY <2>2, <2>3
      <4> QED  BY <2>7, <4>1, <4>2
    <3>2. CASE r \in s.visited /\ r # Last(path)
      <4>1. CASE \E i \in 1..Len(s.queue) : Last(s.queue[i]) = r
        <5>1. PICK i \in 1..Len(s.queue) : Last(s.queue[i]) = r
          BY <4>1
        <5>2. i - 1 \in 1..n /\ i - 1 \in 1..Len(t.queue) /\ (i - 1) + 1 = i
          <6>1. i # 1
            BY <2>3, <3>2, <5>1
          <6>2. i \in 1..(n + 1) /\ n \in Nat
            BY <2>3
          <6>3. i - 1 \in 1..n /\ (i - 1) + 1 = i
            BY <6>1, <6>2
          <6>4. \A j \in 1..n : j \in 1..Len(t.queue)
            <7> DEFINE l == Len(next)
            <7>1. l \in Nat /\ Len(t.queue) = n + l
              BY <2>2, <2>3
            <7> HIDE DEF l
            <7> QED  BY <6>2, <7>1
          <6> QED  BY <6>3, <6>4
        <5>3. t.queue[i - 1] = s.queue[i]
          BY <2>2, <5>2
        <5> QED  BY <5>1, <5>2, <5>3
      <4>2. CASE r # to /\ ToSet(Border[r]) \subseteq s.visited
        BY <2>2, <4>2
      <4> QED  BY <3>2, <4>1, <4>2 DEF SearchOK
    <3>3. CASE r = Last(path)
      BY <2>1, <2>2, <2>3, <3>3
    <3> QED  BY <2>2, <3>1, <3>2, <3>3
  <2>12. Cardinality(t.visited) = Len(t.queue) + (k + 1)
    <3>1. Cardinality(s.visited) = (n + 1) + k
      BY <1>2, <2>3 DEF SearchOK
    <3>2. ToSet(next) \subseteq Regions /\ s.visited \cap ToSet(next) = {}
      BY <2>2 DEF ToSet
    <3>3. IsFiniteSet(s.visited) /\ IsFiniteSet(ToSet(next))
      BY <2>3, <3>2, Map, FS_Subset
    <3>4. Cardinality(ToSet(next)) = Len(next)
      <4>1. next \in [1..Len(next) -> ToSet(next)]
        BY DEF ToSet
      <4>2. ExistsBijection(1..Len(next), ToSet(next))
        <5>1. next \in Injection(1..Len(next), ToSet(next))
          BY <2>2, <4>1 DEF Injection, IsInjective
        <5>2. next \in Surjection(1..Len(next), ToSet(next))
          BY <4>1 DEF Surjection, ToSet
        <5> QED  BY <5>1, <5>2 DEF ExistsBijection, Bijection
      <4> QED  BY <2>3, <4>2, FS_CountingElements
    <3>5. Cardinality(t.visited) = Cardinality(s.visited) + Cardinality(ToSet(next))
      <4>1. Cardinality(s.visited \cap ToSet(next)) = 0
        BY <3>2, FS_EmptySet
      <4>2. Cardinality(s.visited \cup ToSet(next)) =
              Cardinality(s.visited) + Cardinality(ToSet(next))
                - Cardinality(s.visited \cap ToSet(next))
        BY <3>3, FS_Union
      <4>3. Cardinality(s.visited) \in Nat /\ Cardinality(ToSet(next)) \in Nat
        BY <3>3, FS_CardinalityType
      <4> QED  BY <2>2, <4>1, <4>2, <4>3
    <3> DEFINE l == Len(next)
               q == Len(t.queue)
    <3>6. l \in Nat /\ q = n + l /\ n \in Nat
      BY <2>2, <2>3
    <3>7. Cardinality(t.visited) = (n + 1) + k + l
      BY <3>1, <3>4, <3>5
    <3> HIDE DEF l, q
    <3> QED  BY <3>6, <3>7 DEF q
  <2> QED  BY <2>2, <2>9, <2>10, <2>11, <2>12 DEF SearchOK, t
<1> QED  BY <1>1, <1>2

(* The path between two regions (_find_path, telegram_monitor.py:535), for *)
(* every map: it follows borders from the one to the other, no walk that   *)
(* is shorter leads there, and where none is found there is none of any    *)
(* length.  The search is over after as many turns as there are regions.   *)
THEOREM ShortestPath ==
  ASSUME NEW from \in Regions, NEW to
  PROVE  LET path == FindPath(from, to)
             n == Len(path)
         IN  /\ n \in Nat
             /\ n > 0 => path \in Walks(n, from, to)
             /\ \A m \in Nat \ {0} : n = 0 \/ m < n => Walks(m, from, to) = {}
<1> DEFINE f == SearchOf(from, to)
           N == Len(Oblast)
           T == {n \in 0..N : SearchOK(f[n], n, from, to)}
           s == f[N]
<1>1. FindPath(from, to) = IF s.queue = <<>> THEN <<>> ELSE Head(s.queue)
  BY DEF FindPath, SearchOf
<1>2. /\ f[0] = [queue |-> << <<from>> >>, visited |-> {from}]
      /\ \A n \in 1..N : f[n] = Turned(f[n - 1], to)
  BY SearchRuns
<1> HIDE DEF f
<1> N \in Nat
  BY Map
<1>3. 0 \in T
  BY <1>2, SearchBegins
<1>4. ASSUME NEW n \in 1..N, n - 1 \in T PROVE n \in T
  <2>1. n - 1 \in Nat /\ (n - 1) + 1 = n
    OBVIOUS
  <2>2. SearchOK(Turned(f[n - 1], to), (n - 1) + 1, from, to)
    BY <1>4, <2>1, SearchGoesOn
  <2> QED  BY <1>2, <2>1, <2>2
<1>5. SearchOK(s, N, from, to)
  <2>1. \A n \in 0..N : n \in T
    <3> HIDE DEF T, N
    <3> QED  BY <1>3, <1>4, Turns
  <2> N \in T
    <3> HIDE DEF T, N
    <3> QED  BY <2>1
  <2> QED  OBVIOUS
<1> HIDE DEF s
<1>6. s.queue \in Seq(Way) /\ s.visited \subseteq Regions
  BY <1>5 DEF SearchOK, Searches
<1>7. Stopped(s, to)
  <2> SUFFICES ASSUME ~Stopped(s, to) PROVE FALSE
    OBVIOUS
  <2>1. Cardinality(s.visited) = Len(s.queue) + N
    BY <1>5 DEF SearchOK
  <2>2. Cardinality(s.visited) <= Cardinality(Regions)
    BY <1>6, Map, FS_Subset
  <2>3. Cardinality(Regions) \in Nat
    BY Map, FS_CardinalityType
  <2>4. s.queue # <<>>
    BY DEF Stopped
  <2>5. Len(s.queue) \in Nat /\ Len(s.queue) > 0
    BY <1>6, <2>4
  <2> QED  BY <2>1, <2>2, <2>3, <2>5, Map
<1>8. CASE s.queue = <<>>
  <2>1. ASSUME NEW m \in Nat \ {0}, NEW w \in Walks(m, from, to) PROVE FALSE
    <3>1. to \in s.visited
      BY <1>5, <1>8, Passed
    <3>2. Len(s.queue) = 0
      BY <1>8
    <3>3. \A i \in 1..Len(s.queue) : FALSE
      BY <3>2
    <3> QED  BY <1>5, <3>1, <3>3 DEF SearchOK
  <2> QED  BY <1>1, <1>8, <2>1
<1>9. CASE s.queue # <<>>
  <2> DEFINE path == Head(s.queue)
  <2>1. path = s.queue[1] /\ path \in Way /\ 1 \in 1..Len(s.queue)
    BY <1>6, <1>9
  <2>2. Last(path) = to
    BY <1>7, <1>9 DEF Stopped
  <2>3. Shortest(path, from)
    BY <1>5, <2>1 DEF SearchOK
  <2> HIDE DEF path
  <2>4. Len(path) \in Nat \ {0}
    BY <2>1 DEF Way
  <2> QED  BY <1>1, <1>9, <2>2, <2>3, <2>4 DEF Shortest, path
<1> QED  BY <1>8, <1>9

-----------------------------------------------------------------------------
(* The numbers of the predictions.                                         *)

(* The ways along which a situation offers a prediction, and the offers.   *)
Pairs(sky) ==
  {p \in Regions \X Regions : p[2] \in ToSet(Border[p[1]]) /\ Offered(sky, p[1], p[2])}

Given(sky) == {Offer(sky, p[1], p[2]) : p \in Pairs(sky)}

LEMMA HistoryBounds ==
  ASSUME NEW from \in Regions, NEW to \in ToSet(Border[from])
  PROVE  History(from, to) \in 0..35
<1> DEFINE rule == BestRule("route", from, to, "any")
<1>1. CASE rule = {}
  <2>1. Confirmed[<<from, to>>] \in Nat
    BY PredictionAssumption DEF Regions
  <2> QED  BY <1>1, <2>1 DEF History
<1>2. CASE rule # {}
  <2> DEFINE e == CHOOSE e \in rule : TRUE
  <2>1. e \in rule
    BY <1>2
  <2> HIDE DEF e
  <2>2. e.score \in Nat
    BY <2>1, PredictionAssumption DEF BestRule
  <2> DEFINE n == (e.score * 35 + 50) \div 100
  <2>3. n \in Nat
    BY <2>2
  <2> HIDE DEF n
  <2>4. AtMost(AtLeast(n, 15), 35) \in 0..35
    BY <2>3 DEF AtMost, AtLeast
  <2> QED  BY <1>2, <2>4 DEF History, e, n
<1> QED  BY <1>1, <1>2

LEMMA Skies ==
  ASSUME NEW sky \in Sky, NEW r \in Regions
  PROVE  /\ sky.card[r] \in Overhead
         /\ Heading(sky.card[r]) \in Int \/ Heading(sky.card[r]) = NoHeading
         /\ Pace(sky.card[r]) \in Nat
<1> DEFINE c == sky.card[r]
<1>1. c \in Overhead
  BY PredictionAssumption DEF Regions
<1> HIDE DEF c
<1>2. /\ c.heading \in Int \cup {NoHeading} /\ c.vector \in DOMAIN VectorBearing
      /\ c.type \in ThreatType /\ c.speed \in Nat
  BY <1>1 DEF Overhead
<1>3. VectorBearing[c.vector] \in Int \/ VectorBearing[c.vector] = NoHeading
  BY <1>2 DEF VectorBearing
<1>4. Speed[c.type] \in Nat
  BY <1>2 DEF ThreatType, Speed
<1>5. Pace(c) \in Nat
  BY <1>2, <1>4 DEF Pace
<1>6. Heading(c) \in Int \/ Heading(c) = NoHeading
  BY <1>2, <1>3 DEF Heading
<1> QED  BY <1>1, <1>5, <1>6 DEF c

LEMMA TurnBounds ==
  ASSUME NEW a \in Int, NEW b \in Int
  PROVE  /\ Turn(a, b) \in Int /\ Alignment(Turn(a, b)) \in Int
         /\ Turn(a, b) >= 45 => Alignment(Turn(a, b)) <= 1350
<1>1. Turn(a, b) \in Int
  BY DEF Turn
<1> DEFINE d == Turn(a, b)
<1> HIDE DEF d
<1>2. d \in Int
  BY <1>1 DEF d
<1>3. Alignment(d) \in Int /\ (d >= 45 => Alignment(d) <= 1350)
  BY <1>2 DEF Alignment, AtMost
<1> QED  BY <1>2, <1>3 DEF d

LEMMA ForesightBounds == \A type : Foresight(type) \in 0..15
BY DEF Foresight

(* A score is a number, and without a corridor or a history only a threat  *)
(* that heads for a region, to within 45 degrees, is offered for it.       *)
LEMMA Scores ==
  ASSUME NEW sky \in Sky, NEW from \in Regions, NEW to \in ToSet(Border[from])
  PROVE  LET t == sky.card[from] IN
         /\ Score3000(t, from, to) \in Int
         /\ Offered(sky, from, to) =>
              \/ Forward(from, to) \/ History(from, to) > 0
              \/ Turn(Heading(t), Course[<<from, to>>]) < 45
<1> DEFINE t == sky.card[from]
           course == Course[<<from, to>>]
           h == Heading(t)
           f == Foresight(t.type)
           known == History(from, to)
<1>1. course \in Int
  BY PredictionAssumption DEF Regions
<1>2. h \in Int \/ h = NoHeading
  BY Skies
<1>3. f \in 0..15 /\ known \in 0..35
  BY ForesightBounds, HistoryBounds
<1>4. NoHeading \notin Int
  BY PredictionAssumption
<1> DEFINE base == IF h = NoHeading THEN 1050 ELSE Alignment(Turn(h, course))
           more == f + known + IF Forward(from, to) THEN 25 ELSE 0
           score == Score3000(t, from, to)
<1>5. score = AtMost(3000, base + 30 * more)
  BY DEF Score3000
<1> HIDE DEF t, course, h, f, known
<1>6. base \in Int /\ more \in Int
  <2>1. h # NoHeading => Alignment(Turn(h, course)) \in Int
    BY <1>1, <1>2, TurnBounds
  <2>2. base \in Int
    BY <2>1
  <2>3. more \in Int
    BY <1>3
  <2> QED  BY <2>2, <2>3
<1> HIDE DEF base, more, score
<1>7. score \in Int /\ (score >= 1950 => base + 30 * more >= 1950)
  BY <1>5, <1>6 DEF AtMost
<1>8. ASSUME Offered(sky, from, to), ~Forward(from, to), ~(known > 0) PROVE Turn(h, course) < 45
  <2>1. Expected(t, from, to) /\ score >= 1950
    BY <1>8 DEF Offered, t, score
  <2>2. known = 0 /\ more <= 15
    BY <1>3, <1>8 DEF more
  <2>3. h # NoHeading
    BY <1>8, <2>1, <2>2 DEF Expected, h, known
  <2>4. base = Alignment(Turn(h, course)) /\ h \in Int
    BY <1>2, <2>3 DEF base
  <2>5. base >= 1500
    BY <1>6, <1>7, <2>1, <2>2
  <2> DEFINE d == Turn(h, course)
  <2>6. d \in Int /\ (d >= 45 => Alignment(d) <= 1350)
    BY <1>1, <2>4, TurnBounds
  <2> HIDE DEF d
  <2>7. base = Alignment(d)
    BY <2>4 DEF d
  <2>8. d < 45
    BY <1>6, <2>5, <2>6, <2>7
  <2> QED  BY <2>8 DEF d
<1> QED  BY <1>7, <1>8 DEF t, h, course, known, score

LEMMA ArrivalIsNat ==
  ASSUME NEW sky \in Sky, NEW from \in Regions, NEW to \in ToSet(Border[from])
  PROVE  Arrival(sky.card[from], from, to) \in Nat
<1> DEFINE t == sky.card[from]
           flown == IF Pace(t) > 0 THEN (Far[<<from, to>>] * 3600) \div Pace(t) ELSE 0
           rule == BestRule("eta_math", from, to, t.type)
           learned == 60 * (CHOOSE e \in rule : TRUE).minutes
<1>1. Far[<<from, to>>] \in Nat /\ Pace(t) \in Nat
  BY PredictionAssumption, Skies DEF Regions
<1>2. flown \in Nat
  <2> DEFINE km == Far[<<from, to>>]
             v == Pace(t)
  <2>1. km \in Nat /\ v \in Nat
    BY <1>1
  <2> HIDE DEF km, v
  <2>2. v > 0 => (km * 3600) \div v \in Nat
    BY <2>1
  <2> QED  BY <2>2 DEF km, v
<1>3. rule # {} => learned \in Nat
  <2> SUFFICES ASSUME rule # {} PROVE learned \in Nat
    OBVIOUS
  <2> DEFINE e == CHOOSE e \in rule : TRUE
  <2>1. e \in rule
    OBVIOUS
  <2> HIDE DEF e
  <2>2. e.minutes \in Nat
    BY <2>1, PredictionAssumption DEF BestRule
  <2> QED  BY <2>2 DEF e
<1>4. Arrival(t, from, to) =
        IF rule = {} THEN flown
        ELSE IF Pace(t) = 0 THEN learned
        ELSE (65 * learned + 35 * flown) \div 100
  BY DEF Arrival
<1> HIDE DEF t, flown, rule, learned
<1> QED  BY <1>2, <1>3, <1>4 DEF t

-----------------------------------------------------------------------------
(* The table of the offers.                                                *)

(* All pieces in one list have all their elements.                         *)
FlattenOf(seqs) ==
  CHOOSE flatten : flatten =
    [i \in 1..Len(seqs) |-> IF i = 1 THEN seqs[i] ELSE flatten[i - 1] \o seqs[i]]

LEMMA FlattenRuns ==
  ASSUME NEW S, NEW seqs \in Seq(Seq(S)), seqs # <<>>
  PROVE  LET f == FlattenOf(seqs) IN
         /\ f[1] = seqs[1]
         /\ \A i \in 2..Len(seqs) : f[i] = f[i - 1] \o seqs[i]
<1> DEFINE N == Len(seqs)
           turn == [n \in 1..N |-> [x \in Seq(S) |-> IF n = 1 THEN seqs[1] ELSE x \o seqs[n]]]
           Eqn(f) == f = [i \in 1..N |-> IF i = 1 THEN seqs[i] ELSE f[i - 1] \o seqs[i]]
<1>1. N \in Nat /\ N >= 1 /\ <<>> \in Seq(S) /\ \A n \in 1..N : seqs[n] \in Seq(S)
  OBVIOUS
<1>2. IsLoop(N, Seq(S), <<>>, turn)
  BY <1>1 DEF IsLoop
<1>3. PICK g : IsRun(g, N, Seq(S), <<>>, turn)
  <2> HIDE DEF turn, N
  <2> QED  BY <1>2, LoopRuns
<1>4. ASSUME NEW n \in 1..N PROVE g[n] = IF n = 1 THEN seqs[1] ELSE g[n - 1] \o seqs[n]
  <2>1. g[n - 1] \in Seq(S)
    BY <1>3, n - 1 \in 0..N DEF IsRun
  <2> QED  BY <1>3, <2>1 DEF IsRun
<1> HIDE DEF turn
<1> DEFINE f == [i \in 1..N |-> g[i]]
<1>5. Eqn(f)
  <2>1. ASSUME NEW i \in 1..N PROVE f[i] = IF i = 1 THEN seqs[i] ELSE f[i - 1] \o seqs[i]
    BY <1>4, i # 1 => i - 1 \in 1..N
  <2>2. f = [i \in 1..N |-> f[i]]
    OBVIOUS
  <2> HIDE DEF f, N
  <2> QED  BY <2>1, <2>2
<1>6. Eqn(FlattenOf(seqs))
  <2> HIDE DEF Eqn
  <2>1. \E e : Eqn(e)
    BY <1>5
  <2>2. FlattenOf(seqs) = CHOOSE e : Eqn(e)
    BY DEF FlattenOf, Eqn
  <2> QED  BY <2>1, <2>2
<1> DEFINE h == FlattenOf(seqs)
<1>7. h = [i \in 1..N |-> IF i = 1 THEN seqs[i] ELSE h[i - 1] \o seqs[i]]
  BY <1>6
<1> HIDE DEF h
<1>8. h[1] = seqs[1]
  <2>1. 1 \in 1..N
    BY <1>1
  <2> QED  BY <1>7, <2>1, Zenon
<1>9. ASSUME NEW i \in 2..N PROVE h[i] = h[i - 1] \o seqs[i]
  <2>1. i \in 1..N /\ i # 1
    OBVIOUS
  <2> QED  BY <1>7, <2>1, Zenon
<1> QED  BY <1>8, <1>9 DEF h

LEMMA Flattened ==
  ASSUME NEW S, NEW seqs \in Seq(Seq(S))
  PROVE  /\ FlattenSeq(seqs) \in Seq(S)
         /\ ToSet(FlattenSeq(seqs)) = UNION {ToSet(seqs[i]) : i \in 1..Len(seqs)}
<1> DEFINE N == Len(seqs)
           f == FlattenOf(seqs)
           Firsts(n) == UNION {ToSet(seqs[i]) : i \in 1..n}
           T == {n \in 0..N : n = 0 \/ (f[n] \in Seq(S) /\ ToSet(f[n]) = Firsts(n))}
<1>1. CASE seqs = <<>>
  BY <1>1 DEF FlattenSeq, ToSet
<1>2. CASE seqs # <<>>
  <2>1. FlattenSeq(seqs) = f[N]
    BY <1>2 DEF FlattenSeq, FlattenOf
  <2>2. f[1] = seqs[1] /\ \A i \in 2..N : f[i] = f[i - 1] \o seqs[i]
    BY <1>2, FlattenRuns
  <2> HIDE DEF f
  <2> N \in Nat /\ N # 0
    BY <1>2
  <2>3. ASSUME NEW n \in 1..N, n - 1 \in T PROVE n \in T
    <3>1. seqs[n] \in Seq(S)
      OBVIOUS
    <3>2. CASE n = 1
      <4>1. Firsts(1) = ToSet(seqs[1])
        OBVIOUS
      <4> QED  BY <2>2, <3>1, <3>2, <4>1
    <3>3. CASE n # 1
      <4> DEFINE a == f[n - 1]
                 b == seqs[n]
      <4>1. a \in Seq(S) /\ ToSet(a) = Firsts(n - 1)
        BY <2>3, <3>3
      <4>2. f[n] = a \o b
        BY <2>2, <3>3, n \in 2..N
      <4>3. Firsts(n) = Firsts(n - 1) \cup ToSet(b)
        <5>1. \A i \in 1..n : i \in 1..(n - 1) \/ i = n
          OBVIOUS
        <5>2. 1..(n - 1) \subseteq 1..n /\ n \in 1..n
          OBVIOUS
        <5> QED  BY <5>1, <5>2
      <4> HIDE DEF a, b, Firsts
      <4>4. a \o b \in Seq(S) /\ ToSet(a \o b) = ToSet(a) \cup ToSet(b)
        <5> b \in Seq(S)
          BY <3>1 DEF b
        <5>1. /\ Len(a) \in Nat /\ Len(b) \in Nat /\ Len(a \o b) = Len(a) + Len(b)
              /\ \A i \in 1..Len(a) : (a \o b)[i] = a[i]
              /\ \A i \in 1..Len(b) : (a \o b)[Len(a) + i] = b[i]
          BY <4>1, Joined
        <5> DEFINE m == Len(a)
                   k == Len(b)
        <5>2. /\ m \in Nat /\ k \in Nat
              /\ DOMAIN (a \o b) = 1..(m + k) /\ DOMAIN a = 1..m /\ DOMAIN b = 1..k
          BY <4>1, <5>1
        <5>3. \A i \in 1..m : i \in 1..(m + k)
          BY <5>2
        <5>4. \A i \in 1..k : m + i \in 1..(m + k)
          BY <5>2
        <5>5. \A i \in 1..(m + k) : i \in 1..m \/ (i - m \in 1..k /\ m + (i - m) = i)
          <6> HIDE DEF m, k
          <6> QED  BY <5>2
        <5>6. (\A i \in 1..m : (a \o b)[i] = a[i]) /\ (\A i \in 1..k : (a \o b)[m + i] = b[i])
          BY <5>1
        <5> HIDE DEF m, k
        <5>7. \A i \in 1..(m + k) : (a \o b)[i] \in ToSet(a) \cup ToSet(b)
          <6> TAKE i \in 1..(m + k)
          <6>1. CASE i \in 1..m
            BY <5>2, <5>6, <6>1 DEF ToSet
          <6>2. CASE i - m \in 1..k /\ m + (i - m) = i
            <7>1. (a \o b)[m + (i - m)] = b[i - m]
              BY <5>6, <6>2
            <7> QED  BY <5>2, <6>2, <7>1 DEF ToSet
          <6> QED  BY <5>5, <6>1, <6>2
        <5>8. ToSet(a \o b) \subseteq ToSet(a) \cup ToSet(b)
          BY <5>2, <5>7 DEF ToSet
        <5>9. ToSet(a) \subseteq ToSet(a \o b)
          BY <5>2, <5>3, <5>6 DEF ToSet
        <5>10. ToSet(b) \subseteq ToSet(a \o b)
          BY <5>2, <5>4, <5>6 DEF ToSet
        <5>11. a \o b \in Seq(S)
          BY <4>1, Joined
        <5> QED  BY <5>8, <5>9, <5>10, <5>11
      <4>5. f[n] \in Seq(S) /\ ToSet(f[n]) = Firsts(n)
        <5> HIDE DEF T
        <5> QED  BY <4>1, <4>2, <4>3, <4>4
      <4> QED  BY <4>5
    <3> QED  BY <3>2, <3>3
  <2>4. \A n \in 0..N : n \in T
    <3> 0 \in T
      OBVIOUS
    <3> HIDE DEF T, N
    <3> QED  BY <2>3, Turns
  <2>5. N \in T
    <3> HIDE DEF T, N
    <3> QED  BY <2>4
  <2> QED  BY <2>1, <2>5
<1> QED  BY <1>1, <1>2

LEMMA WaysOf ==
  /\ Ways \in Seq(Regions \X Regions)
  /\ ToSet(Ways) = {p \in Regions \X Regions : p[2] \in ToSet(Border[p[1]])}
<1> DEFINE of == [i \in DOMAIN Oblast |->
                    [j \in DOMAIN Border[Oblast[i]] |-> <<Oblast[i], Border[Oblast[i]][j]>>]]
           S == Regions \X Regions
           N == Len(Oblast)
<1>1. /\ Oblast \in Seq(Regions) /\ N \in Nat /\ DOMAIN Oblast = 1..N
      /\ \A i \in 1..N : Oblast[i] \in Regions
      /\ \A r \in Regions : Border[r] \in Seq(Regions)
  BY Map
<1>2. ASSUME NEW i \in 1..N
      PROVE  /\ of[i] \in Seq(S)
             /\ ToSet(of[i]) = {<<Oblast[i], s>> : s \in ToSet(Border[Oblast[i]])}
  <2> DEFINE b == Border[Oblast[i]]
             new == [j \in DOMAIN b |-> <<Oblast[i], b[j]>>]
  <2>1. b \in Seq(Regions) /\ DOMAIN b = 1..Len(b) /\ Len(b) \in Nat
    BY <1>1
  <2>2. of[i] = new
    BY <1>1
  <2> HIDE DEF of, b
  <2>3. new \in [1..Len(b) -> S]
    BY <1>1, <2>1
  <2>4. new \in Seq(S)
    BY <2>1, <2>3
  <2>5. ToSet(new) = {<<Oblast[i], s>> : s \in ToSet(b)}
    BY <2>1 DEF ToSet
  <2> QED  BY <2>2, <2>4, <2>5 DEF b
<1>3. of \in Seq(Seq(S)) /\ Len(of) = N
  <2>1. of \in [1..N -> Seq(S)]
    BY <1>1, <1>2
  <2> QED  BY <1>1, <2>1
<1>4. Ways = FlattenSeq(of)
  BY DEF Ways
<1> HIDE DEF of, S, N
<1>5. Ways \in Seq(S) /\ ToSet(Ways) = UNION {ToSet(of[i]) : i \in 1..N}
  BY <1>3, <1>4, Flattened
<1>6. ASSUME NEW p \in ToSet(Ways) PROVE p \in S /\ p[2] \in ToSet(Border[p[1]])
  <2>1. PICK i \in 1..N : p \in ToSet(of[i])
    BY <1>5
  <2>2. PICK s \in ToSet(Border[Oblast[i]]) : p = <<Oblast[i], s>>
    BY <1>2, <2>1
  <2>3. s \in Regions
    BY <1>1, <2>2 DEF ToSet
  <2> QED  BY <1>1, <2>2, <2>3 DEF S
<1>7. ASSUME NEW p \in S, p[2] \in ToSet(Border[p[1]]) PROVE p \in ToSet(Ways)
  <2>1. p[1] \in Regions /\ p = <<p[1], p[2]>>
    BY DEF S
  <2>2. PICK i \in 1..N : Oblast[i] = p[1]
    BY <1>1, <2>1 DEF Regions, ToSet
  <2>3. p \in ToSet(of[i])
    BY <1>2, <1>7, <2>1, <2>2
  <2> QED  BY <1>5, <2>3
<1> QED  BY <1>5, <1>6, <1>7 DEF S

LEMMA GivenFacts ==
  ASSUME NEW sky \in Sky, NEW o \in Given(sky)
  PROVE  \E p \in Pairs(sky) :
           /\ o = Offer(sky, p[1], p[2]) /\ o.from = p[1] /\ o.region = p[2]
           /\ o.type = sky.card[p[1]].type /\ o.source = sky.card[p[1]].level
           /\ o.score = Score3000(sky.card[p[1]], p[1], p[2]) /\ o.score \in Int
           /\ o.eta = Arrival(sky.card[p[1]], p[1], p[2]) /\ o.eta \in Nat
<1>1. PICK p \in Pairs(sky) : o = Offer(sky, p[1], p[2])
  BY DEF Given
<1>2. p[1] \in Regions /\ p[2] \in ToSet(Border[p[1]])
  BY DEF Pairs
<1>3. /\ Score3000(sky.card[p[1]], p[1], p[2]) \in Int
      /\ Arrival(sky.card[p[1]], p[1], p[2]) \in Nat
  BY <1>2, Scores, ArrivalIsNat
<1> QED  BY <1>1, <1>3 DEF Offer

(* An offer takes its place in the table.                                  *)
Distinct(table) ==
  \A i, j \in 1..Len(table) : table[i].region = table[j].region => i = j

LEMMA KeptFacts ==
  ASSUME NEW sky \in Sky, NEW table \in Seq(Given(sky)), Distinct(table), NEW o \in Given(sky)
  PROVE  LET t == Kept(table, o) IN
         /\ t \in Seq(Given(sky)) /\ Distinct(t) /\ Len(table) <= Len(t)
         /\ \A i \in 1..Len(table) : t[i].region = table[i].region /\ table[i].score <= t[i].score
         /\ \E i \in 1..Len(t) : t[i].region = o.region /\ o.score <= t[i].score
<1> DEFINE t == Kept(table, o)
           n == Len(table)
           G == Given(sky)
<1>1. n \in Nat /\ DOMAIN table = 1..n /\ \A i \in 1..n : table[i] \in G /\ table[i].score \in Int
  BY GivenFacts
<1>2. o.score \in Int
  BY GivenFacts
<1>3. CASE \E i \in DOMAIN table : table[i].region = o.region
  <2>1. t = [i \in 1..n |->
               IF table[i].region = o.region /\ table[i].score < o.score THEN o ELSE table[i]]
    BY <1>1, <1>3 DEF Kept
  <2> HIDE DEF t, n, G
  <2>2. t \in Seq(G) /\ Len(t) = n
    <3>1. t \in [1..n -> G]
      BY <1>1, <2>1 DEF G
    <3> QED  BY <1>1, <3>1
  <2>3. ASSUME NEW i \in 1..n
        PROVE  /\ t[i].region = table[i].region /\ table[i].score <= t[i].score
               /\ table[i].region = o.region => o.score <= t[i].score
    <3>1. t[i] = IF table[i].region = o.region /\ table[i].score < o.score THEN o ELSE table[i]
      BY <2>1
    <3>2. table[i].score \in Int
      BY <1>1
    <3>3. CASE table[i].region = o.region /\ table[i].score < o.score
      <4>1. t[i] = o
        BY <3>1, <3>3
      <4> QED  BY <1>2, <3>2, <3>3, <4>1
    <3>4. CASE ~(table[i].region = o.region /\ table[i].score < o.score)
      <4>1. t[i] = table[i]
        BY <3>1, <3>4
      <4> QED  BY <1>2, <3>2, <3>4, <4>1
    <3> QED  BY <3>3, <3>4
  <2>4. Distinct(t)
    BY <2>2, <2>3 DEF Distinct, n
  <2>5. PICK i \in 1..n : table[i].region = o.region
    BY <1>1, <1>3
  <2> QED  BY <1>1, <2>2, <2>3, <2>4, <2>5 DEF t, n, G
<1>4. CASE ~\E i \in DOMAIN table : table[i].region = o.region
  <2>1. t = Append(table, o)
    BY <1>4 DEF Kept
  <2>2. t \in Seq(G) /\ Len(t) = n + 1 /\ t[n + 1] = o /\ \A i \in 1..n : t[i] = table[i]
    BY <2>1
  <2> HIDE DEF t, n, G
  <2>3. \A i \in 1..n : t[i].region # o.region
    BY <1>1, <1>4, <2>2
  <2>4. ASSUME NEW i \in 1..Len(t), NEW j \in 1..Len(t), t[i].region = t[j].region PROVE i = j
    <3>1. (i \in 1..n \/ i = n + 1) /\ (j \in 1..n \/ j = n + 1)
      BY <1>1, <2>2
    <3>2. CASE i \in 1..n /\ j \in 1..n
      BY <2>2, <2>4, <3>2 DEF Distinct, n
    <3>3. CASE ~(i \in 1..n /\ j \in 1..n)
      BY <2>2, <2>3, <2>4, <3>1, <3>3
    <3> QED  BY <3>2, <3>3
  <2>5. Distinct(t)
    BY <2>4 DEF Distinct
  <2>6. ASSUME NEW i \in 1..n
        PROVE  t[i].region = table[i].region /\ table[i].score <= t[i].score
    <3>1. t[i] = table[i] /\ table[i].score \in Int
      BY <1>1, <2>2
    <3> QED  BY <3>1
  <2>7. n + 1 \in 1..Len(t) /\ o.score <= o.score /\ n <= Len(t)
    BY <1>1, <1>2, <2>2
  <2> QED  BY <2>2, <2>5, <2>6, <2>7 DEF t, n, G
<1> QED  BY <1>3, <1>4

(* The table after n ways: of the offers of these ways, one for each       *)
(* region, and none better.                                                *)
TableOf(sky) ==
  CHOOSE table : table =
    [n \in 0..Len(Ways) |->
       IF n = 0 THEN <<>>
       ELSE IF Offered(sky, Ways[n][1], Ways[n][2])
            THEN Kept(table[n - 1], Offer(sky, Ways[n][1], Ways[n][2]))
            ELSE table[n - 1]]

(* The table of which the loop makes another, if it is one of offers.      *)
Tables(sky) == {t \in Seq(Given(sky)) : Distinct(t)}

Entered(sky, n, t) ==
  IF Offered(sky, Ways[n][1], Ways[n][2]) THEN Kept(t, Offer(sky, Ways[n][1], Ways[n][2])) ELSE t

LEMMA AddedFacts ==
  ASSUME NEW sky \in Sky, NEW n \in 1..Len(Ways), NEW table \in Tables(sky)
  PROVE  LET t == Entered(sky, n, table) IN
         /\ t \in Tables(sky) /\ Len(table) <= Len(t)
         /\ \A i \in 1..Len(table) : t[i].region = table[i].region /\ table[i].score <= t[i].score
         /\ Ways[n] \in Pairs(sky) =>
              \E i \in 1..Len(t) : /\ t[i].region = Ways[n][2]
                                   /\ Score3000(sky.card[Ways[n][1]], Ways[n][1], Ways[n][2])
                                        <= t[i].score
<1> DEFINE p == Ways[n]
           o == Offer(sky, p[1], p[2])
<1>1. p \in Regions \X Regions /\ p[2] \in ToSet(Border[p[1]])
  <2>1. p \in ToSet(Ways)
    BY WaysOf DEF ToSet
  <2> QED  BY <2>1, WaysOf
<1>2. CASE Offered(sky, p[1], p[2])
  <2>1. o \in Given(sky)
    BY <1>1, <1>2 DEF Given, Pairs
  <2>2. Entered(sky, n, table) = Kept(table, o)
    BY <1>2 DEF Entered
  <2>3. o.region = p[2] /\ o.score = Score3000(sky.card[p[1]], p[1], p[2])
    BY DEF Offer
  <2> HIDE DEF o, p
  <2>4. /\ Kept(table, o) \in Tables(sky) /\ Len(table) <= Len(Kept(table, o))
        /\ \A i \in 1..Len(table) : /\ Kept(table, o)[i].region = table[i].region
                                    /\ table[i].score <= Kept(table, o)[i].score
        /\ \E i \in 1..Len(Kept(table, o)) : /\ Kept(table, o)[i].region = o.region
                                             /\ o.score <= Kept(table, o)[i].score
    BY <2>1, KeptFacts DEF Tables
  <2> QED  BY <2>2, <2>3, <2>4 DEF p
<1>3. CASE ~Offered(sky, p[1], p[2])
  <2>1. Entered(sky, n, table) = table /\ p \notin Pairs(sky)
    BY <1>3 DEF Entered, Pairs
  <2>2. \A i \in 1..Len(table) : table[i].score \in Int /\ table[i].score <= table[i].score
    BY GivenFacts DEF Tables
  <2>3. Len(table) <= Len(table)
    BY DEF Tables
  <2> QED  BY <2>1, <2>2, <2>3
<1> QED  BY <1>2, <1>3

LEMMA TableRuns ==
  ASSUME NEW sky \in Sky
  PROVE  LET f == TableOf(sky) IN
         /\ f[0] = <<>> /\ \A n \in 0..Len(Ways) : f[n] \in Tables(sky)
         /\ \A n \in 1..Len(Ways) : f[n] = Entered(sky, n, f[n - 1])
<1> DEFINE N == Len(Ways)
           S == Tables(sky)
           turn == [n \in 1..N |-> [x \in S |-> Entered(sky, n, x)]]
           Eqn(f) == f = [n \in 0..N |-> IF n = 0 THEN <<>> ELSE Entered(sky, n, f[n - 1])]
<1> N \in Nat
  BY WaysOf
<1>1. <<>> \in S
  BY DEF Tables, Distinct
<1>2. IsLoop(N, S, <<>>, turn)
  BY <1>1, AddedFacts DEF IsLoop
<1>3. PICK g : IsRun(g, N, S, <<>>, turn)
  <2> HIDE DEF turn, N, S
  <2> QED  BY <1>2, LoopRuns
<1>4. ASSUME NEW n \in 1..N PROVE g[n] = Entered(sky, n, g[n - 1])
  <2>1. g[n - 1] \in S
    BY <1>3, n - 1 \in 0..N DEF IsRun
  <2> QED  BY <1>3, <2>1 DEF IsRun
<1> HIDE DEF turn
<1>5. Eqn(g)
  <2>1. ASSUME NEW n \in 0..N PROVE g[n] = IF n = 0 THEN <<>> ELSE Entered(sky, n, g[n - 1])
    BY <1>3, <1>4, n = 0 \/ n \in 1..N DEF IsRun
  <2>2. g = [n \in 0..N |-> g[n]]
    BY <1>3 DEF IsRun
  <2> QED  BY <2>1, <2>2
<1>6. Eqn(TableOf(sky))
  <2> HIDE DEF Eqn
  <2>1. \E e : Eqn(e)
    BY <1>5
  <2>2. TableOf(sky) = CHOOSE e : Eqn(e)
    BY DEF TableOf, Eqn, Entered
  <2> QED  BY <2>1, <2>2
<1> DEFINE h == TableOf(sky)
<1>7. h = [n \in 0..N |-> IF n = 0 THEN <<>> ELSE Entered(sky, n, h[n - 1])]
  BY <1>6
<1> HIDE DEF h
<1>8. h[0] = <<>> /\ \A n \in 1..N : h[n] = Entered(sky, n, h[n - 1])
  <2>1. 0 \in 0..N /\ \A n \in 1..N : n \in 0..N /\ n # 0
    OBVIOUS
  <2>2. h[0] = <<>>
    BY <1>7, <2>1, Zenon
  <2>3. ASSUME NEW n \in 1..N PROVE h[n] = Entered(sky, n, h[n - 1])
    BY <1>7, <2>1, Zenon
  <2> QED  BY <2>2, <2>3
<1> DEFINE T == {n \in 0..N : h[n] \in S}
<1>9. 0 \in T
  BY <1>1, <1>8
<1>10. ASSUME NEW n \in 1..N, n - 1 \in T PROVE n \in T
  BY <1>8, <1>10, AddedFacts
<1>11. \A n \in 0..N : n \in T
  <2> HIDE DEF T, N
  <2> QED  BY <1>9, <1>10, Turns
<1> QED  BY <1>8, <1>11 DEF h

(* The table of all offers: each is of a region of its own, and as good as *)
(* any that a neighbour gives that region.                                 *)
LEMMA OfferTable ==
  ASSUME NEW sky \in Sky
  PROVE  LET t == Offers(sky) IN
         /\ t \in Seq(Given(sky)) /\ Distinct(t)
         /\ \A p \in Pairs(sky) : \E i \in 1..Len(t) :
              t[i].region = p[2] /\ Score3000(sky.card[p[1]], p[1], p[2]) <= t[i].score
<1> DEFINE f == TableOf(sky)
           N == Len(Ways)
           score(p) == Score3000(sky.card[p[1]], p[1], p[2])
           Best(t, p) == \E i \in 1..Len(t) : t[i].region = p[2] /\ score(p) <= t[i].score
           T == {n \in 0..N : \A k \in 1..n : Ways[k] \in Pairs(sky) => Best(f[n], Ways[k])}
<1>1. Offers(sky) = f[N]
  BY DEF Offers, TableOf
<1>2. /\ \A n \in 0..N : f[n] \in Tables(sky)
      /\ \A n \in 1..N : f[n] = Entered(sky, n, f[n - 1])
  BY TableRuns
<1> HIDE DEF f
<1> N \in Nat
  BY WaysOf
<1>3. 0 \in T
  OBVIOUS
<1>4. ASSUME NEW n \in 1..N, n - 1 \in T PROVE n \in T
  <2> DEFINE a == f[n - 1]
             b == f[n]
  <2>1. n - 1 \in 0..N /\ a \in Tables(sky) /\ b \in Tables(sky) /\ b = Entered(sky, n, a)
    BY <1>2
  <2> HIDE DEF a, b
  <2>2. /\ Len(a) <= Len(b)
        /\ \A i \in 1..Len(a) : b[i].region = a[i].region /\ a[i].score <= b[i].score
        /\ Ways[n] \in Pairs(sky) => Best(b, Ways[n])
    BY <2>1, AddedFacts
  <2>3. ASSUME NEW k \in 1..n, Ways[k] \in Pairs(sky) PROVE Best(b, Ways[k])
    <3>1. CASE k = n
      BY <2>2, <2>3, <3>1
    <3>2. CASE k # n
      <4>1. Best(a, Ways[k])
        BY <1>4, <2>3, <3>2, k \in 1..(n - 1) DEF a
      <4>2. PICK i \in 1..Len(a) : a[i].region = Ways[k][2] /\ score(Ways[k]) <= a[i].score
        BY <4>1
      <4>3. i \in 1..Len(b) /\ b[i].region = Ways[k][2] /\ a[i].score <= b[i].score
        <5> Len(a) \in Nat /\ Len(b) \in Nat
          BY <2>1 DEF Tables
        <5> QED  BY <2>2, <4>2
      <4>4. score(Ways[k]) \in Int /\ a[i].score \in Int /\ b[i].score \in Int
        <5>1. score(Ways[k]) \in Int
          BY <2>3, Scores DEF Pairs
        <5>2. a[i] \in Given(sky) /\ b[i] \in Given(sky)
          BY <2>1, <4>2, <4>3 DEF Tables
        <5> QED  BY <5>1, <5>2, GivenFacts
      <4>5. score(Ways[k]) <= b[i].score
        <5> DEFINE x == score(Ways[k])
                   y == a[i].score
                   z == b[i].score
        <5>1. x \in Int /\ y \in Int /\ z \in Int /\ x <= y /\ y <= z
          BY <4>2, <4>3, <4>4
        <5> HIDE DEF x, y, z
        <5>2. x <= z
          BY <5>1
        <5> QED  BY <5>2 DEF x, z
      <4> QED  BY <4>3, <4>5
    <3> QED  BY <3>1, <3>2
  <2> QED  BY <2>3 DEF b
<1>5. N \in T
  <2>1. \A n \in 0..N : n \in T
    <3> HIDE DEF T, N
    <3> QED  BY <1>3, <1>4, Turns
  <2> HIDE DEF T, N
  <2> QED  BY <2>1
<1>6. ASSUME NEW p \in Pairs(sky) PROVE Best(f[N], p)
  <2>1. p \in ToSet(Ways)
    BY WaysOf DEF Pairs
  <2>2. PICK k \in 1..N : Ways[k] = p
    BY <2>1, WaysOf DEF ToSet
  <2> QED  BY <1>5, <2>2
<1>7. f[N] \in Seq(Given(sky)) /\ Distinct(f[N])
  BY <1>2 DEF Tables
<1> QED  BY <1>1, <1>6, <1>7

(* Three offers at most are chosen, and three outdo each of the others.    *)
Ahead(t, i) ==
  {j \in DOMAIN t : t[j].score > t[i].score \/ (t[j].score = t[i].score /\ j < i)}

Chosen(t) == {i \in DOMAIN t : Cardinality(Ahead(t, i)) < 3}

LEMMA ChosenFacts ==
  ASSUME NEW sky \in Sky, NEW t \in Seq(Given(sky))
  PROVE  /\ IsFiniteSet(Chosen(t)) /\ Cardinality(Chosen(t)) <= 3
         /\ \A i \in DOMAIN t : IsFiniteSet(Ahead(t, i))
         /\ \A i \in DOMAIN t \ Chosen(t) : Cardinality(Ahead(t, i)) >= 3
<1> DEFINE n == Len(t)
           D == DOMAIN t
           rank == [i \in Chosen(t) |-> Cardinality(Ahead(t, i))]
<1>1. n \in Nat /\ D = 1..n /\ \A i \in D : t[i].score \in Int
  BY GivenFacts
<1> HIDE DEF D, n
<1>2. IsFiniteSet(D) /\ D \subseteq Int
  <2>1. 1 \in Int /\ n \in Int
    BY <1>1
  <2>2. IsFiniteSet(1..n)
    BY <2>1, FS_Interval
  <2>3. 1..n \subseteq Int
    BY <2>1
  <2> QED  BY <1>1, <2>2, <2>3
<1>3. \A i \in D : Ahead(t, i) \subseteq D
  BY DEF Ahead, D
<1>4. \A i \in D : IsFiniteSet(Ahead(t, i)) /\ Cardinality(Ahead(t, i)) \in Nat
  <2> TAKE i \in D
  <2>1. IsFiniteSet(Ahead(t, i))
    BY <1>2, <1>3, FS_Subset
  <2> QED  BY <2>1, FS_CardinalityType
<1>5. ASSUME NEW i \in D, NEW j \in D, i # j,
             t[i].score > t[j].score \/ (t[i].score = t[j].score /\ i < j)
      PROVE  Cardinality(Ahead(t, i)) < Cardinality(Ahead(t, j))
  <2>1. Ahead(t, i) \subseteq Ahead(t, j)
    <3> SUFFICES ASSUME NEW k \in D,
                        t[k].score > t[i].score \/ (t[k].score = t[i].score /\ k < i)
                 PROVE  t[k].score > t[j].score \/ (t[k].score = t[j].score /\ k < j)
      BY DEF Ahead, D
    <3> DEFINE x == t[i].score
               y == t[j].score
               z == t[k].score
    <3>1. x \in Int /\ y \in Int /\ z \in Int /\ i \in Int /\ j \in Int /\ k \in Int
      BY <1>1, <1>2
    <3>2. (x > y \/ (x = y /\ i < j)) /\ (z > x \/ (z = x /\ k < i))
      BY <1>5
    <3> HIDE DEF x, y, z
    <3>3. z > y \/ (z = y /\ k < j)
      BY <3>1, <3>2
    <3> QED  BY <3>3 DEF y, z
  <2>2. i \in Ahead(t, j)
    BY <1>5 DEF Ahead, D
  <2>3. i \notin Ahead(t, i)
    <3>1. t[i].score \in Int /\ i \in Int
      BY <1>1, <1>2
    <3>2. ~(t[i].score > t[i].score) /\ ~(i < i)
      BY <3>1
    <3> QED  BY <3>2 DEF Ahead
  <2>4. Cardinality(Ahead(t, i)) <= Cardinality(Ahead(t, j))
    BY <1>4, <2>1, FS_Subset
  <2>5. Cardinality(Ahead(t, i)) # Cardinality(Ahead(t, j))
    BY <1>4, <2>1, <2>2, <2>3, FS_Subset
  <2> QED  BY <1>4, <2>4, <2>5
<1>6. Chosen(t) \subseteq D
  BY DEF Chosen, D
<1>7. rank \in Injection(Chosen(t), 0..2)
  <2>1. rank \in [Chosen(t) -> 0..2]
    BY <1>4, <1>6 DEF Chosen
  <2>2. ASSUME NEW i \in Chosen(t), NEW j \in Chosen(t), i # j PROVE rank[i] # rank[j]
    <3>1. i \in D /\ j \in D
      BY <1>6
    <3>2. \/ t[i].score > t[j].score \/ (t[i].score = t[j].score /\ i < j)
          \/ t[j].score > t[i].score \/ (t[j].score = t[i].score /\ j < i)
      <4> DEFINE x == t[i].score
                 y == t[j].score
      <4>1. x \in Int /\ y \in Int /\ i \in Int /\ j \in Int
        BY <1>1, <1>2, <3>1
      <4> HIDE DEF x, y
      <4>2. x > y \/ (x = y /\ i < j) \/ y > x \/ (y = x /\ j < i)
        BY <2>2, <4>1
      <4> QED  BY <4>2 DEF x, y
    <3>3. \/ Cardinality(Ahead(t, i)) < Cardinality(Ahead(t, j))
          \/ Cardinality(Ahead(t, j)) < Cardinality(Ahead(t, i))
      BY <1>5, <2>2, <3>1, <3>2
    <3> QED  BY <1>4, <3>1, <3>3
  <2> HIDE DEF rank
  <2> QED  BY <2>1, <2>2 DEF Injection, IsInjective
<1>8. IsFiniteSet(Chosen(t)) /\ Cardinality(Chosen(t)) <= 3
  <2>1. IsFiniteSet(0..2) /\ Cardinality(0..2) = 3
    <3> DEFINE a == 0
               b == 2
    <3>1. a \in Int /\ b \in Int
      OBVIOUS
    <3> HIDE DEF a, b
    <3>2. IsFiniteSet(a..b) /\ Cardinality(a..b) = IF a > b THEN 0 ELSE b - a + 1
      BY <3>1, FS_Interval
    <3> QED  BY <3>2 DEF a, b
  <2> HIDE DEF rank
  <2> QED  BY <1>7, <2>1, FS_Injection
<1>9. ASSUME NEW i \in D \ Chosen(t) PROVE Cardinality(Ahead(t, i)) >= 3
  BY <1>4, <1>9 DEF Chosen, D
<1> QED  BY <1>4, <1>8, <1>9 DEF D

(* What the engine makes of a situation.                                   *)
LEMMA Choice ==
  ASSUME NEW sky \in Sky, made = Predictions(sky)
  PROVE  BestOf(sky)
<1> DEFINE t == Offers(sky)
           D == DOMAIN t
           J == {i \in Chosen(t) : ~Stands(sky, t[i])}
           Of(o) == [region |-> o.region, type |-> o.type, level |-> LevelOf(o),
                     delay |-> Delay(o), offer |-> o]
           P == Pairs(sky)
           score(p) == Score3000(sky.card[p[1]], p[1], p[2])
           top(r) == CHOOSE n \in {score(p) : p \in {p \in P : p[2] = r}} :
                       \A p \in {p \in P : p[2] = r} : score(p) <= n
           foreseen == {p[2] : p \in P}
           standing == {r \in foreseen : sky.card[r].level # "none"}
           chosen == {p.region : p \in made}
<1>1. /\ t \in Seq(Given(sky)) /\ Distinct(t)
      /\ \A p \in P : \E i \in 1..Len(t) : t[i].region = p[2] /\ score(p) <= t[i].score
  BY OfferTable
<1>2. D = 1..Len(t) /\ Len(t) \in Nat
  BY <1>1
<1>3. /\ IsFiniteSet(Chosen(t)) /\ Cardinality(Chosen(t)) <= 3
      /\ \A i \in D : IsFiniteSet(Ahead(t, i))
      /\ \A i \in D \ Chosen(t) : Cardinality(Ahead(t, i)) >= 3
  BY <1>1, ChosenFacts
<1>4. made = {Of(t[i]) : i \in J}
  <2>1. Likeliest(t) = {t[i] : i \in Chosen(t)}
    BY DEF Likeliest, Chosen, Ahead
  <2>2. made = {Of(o) : o \in {o \in Likeliest(t) : ~Stands(sky, o)}}
    BY DEF Predictions
  <2> QED  BY <2>1, <2>2
<1> HIDE DEF t
<1>5. J \subseteq Chosen(t) /\ J \subseteq D
  BY DEF Chosen
<1>6. ASSUME NEW i \in D
      PROVE  \E p \in P : t[i].region = p[2] /\ t[i].score = score(p) /\ t[i].score \in Int
  <2>1. t[i] \in Given(sky)
    BY <1>1, <1>2
  <2> QED  BY <2>1, GivenFacts
<1>7. ASSUME NEW i \in D PROVE t[i].region \in foreseen /\ top(t[i].region) = t[i].score
  <2> DEFINE r == t[i].region
             Q == {p \in P : p[2] = r}
             x == t[i].score
  <2>1. PICK p \in P : r = p[2] /\ x = score(p) /\ x \in Int
    BY <1>6
  <2>2. ASSUME NEW q \in Q PROVE score(q) <= x
    <3>1. PICK j \in 1..Len(t) : t[j].region = q[2] /\ score(q) <= t[j].score
      BY <1>1
    <3>2. j = i
      BY <1>1, <1>2, <3>1 DEF Distinct
    <3> QED  BY <3>1, <3>2
  <2>3. \A q \in Q : score(q) \in Int
    BY Scores DEF Pairs
  <2>4. p \in Q
    BY <2>1
  <2>5. x \in {score(q) : q \in Q}
    BY <2>1, <2>4
  <2>6. ASSUME NEW y \in {score(q) : q \in Q}, \A q \in Q : score(q) <= y PROVE y = x
    <3>1. y \in Int /\ y <= x
      BY <2>2, <2>3, <2>6
    <3>2. x <= y
      BY <2>1, <2>4, <2>6
    <3> QED  BY <2>1, <3>1, <3>2
  <2>7. top(r) = x
    <3> DEFINE V == {score(q) : q \in Q}
               Above(y) == \A q \in Q : score(q) <= y
    <3>1. top(r) = CHOOSE y \in V : Above(y)
      OBVIOUS
    <3>2. x \in V /\ Above(x) /\ \A y \in V : Above(y) => y = x
      BY <2>2, <2>5, <2>6
    <3> HIDE DEF V, Above, top, x
    <3> QED  BY <3>1, <3>2
  <2> HIDE DEF top
  <2> QED  BY <2>1, <2>7
<1> HIDE DEF top, score, P
<1>8. \A r \in foreseen : \E i \in D : t[i].region = r
  BY <1>1, <1>2
<1> HIDE DEF foreseen
<1>9. \A i \in J : Of(t[i]).region = t[i].region /\ Of(t[i]).offer = t[i]
  OBVIOUS
<1>10. Cardinality(made) = Cardinality(chosen) /\ Cardinality(made) <= 3
  <2> DEFINE f == [i \in J |-> Of(t[i])]
             g == [p \in made |-> p.region]
  <2>1. f \in Surjection(J, made)
    <3>1. f \in [J -> made] /\ \A p \in made : \E i \in J : f[i] = p
      BY <1>4
    <3> HIDE DEF f, J
    <3> QED  BY <3>1 DEF Surjection
  <2>2. IsFiniteSet(J) /\ Cardinality(J) <= Cardinality(Chosen(t))
    BY <1>3, <1>5, FS_Subset
  <2>3. IsFiniteSet(made) /\ Cardinality(made) <= Cardinality(J)
    <3> HIDE DEF f, J
    <3> QED  BY <2>1, <2>2, FS_Surjection
  <2>4. g \in Bijection(made, chosen)
    <3>1. g \in [made -> chosen] /\ \A r \in chosen : \E p \in made : g[p] = r
      OBVIOUS
    <3>2. ASSUME NEW p \in made, NEW q \in made, g[p] = g[q] PROVE p = q
      <4>1. PICK i \in J : p = Of(t[i])
        BY <1>4
      <4>2. PICK j \in J : q = Of(t[j])
        BY <1>4
      <4>3. t[i].region = t[j].region
        BY <3>2, <4>1, <4>2
      <4>4. i = j
        <5> i \in D /\ j \in D
          BY <1>5
        <5> QED  BY <1>1, <1>2, <4>3 DEF Distinct
      <4> QED  BY <4>1, <4>2, <4>4
    <3> HIDE DEF g, chosen
    <3> QED  BY <3>1, <3>2 DEF Bijection, Injection, IsInjective, Surjection
  <2>5. Cardinality(chosen) = Cardinality(made)
    <3> HIDE DEF g, chosen
    <3> QED  BY <2>3, <2>4, FS_Bijection DEF ExistsBijection
  <2>6. Cardinality(made) \in Nat /\ Cardinality(J) \in Nat /\ Cardinality(Chosen(t)) \in Nat
    BY <1>3, <2>2, <2>3, FS_CardinalityType
  <2> QED  BY <1>3, <2>2, <2>3, <2>5, <2>6
<1>11. \A p \in made : p.offer.score = top(p.region)
  <2> TAKE p \in made
  <2>1. PICK i \in J : p = Of(t[i])
    BY <1>4
  <2>2. i \in D /\ p.offer = t[i] /\ p.region = t[i].region
    BY <1>5, <2>1
  <2> QED  BY <1>7, <2>2
<1>12. ASSUME NEW r \in foreseen \ (chosen \cup standing)
       PROVE  Cardinality({g \in foreseen \ {r} : top(g) >= top(r)}) >= 3
  <2>1. PICK i \in D : t[i].region = r
    BY <1>8
  <2>2. i \notin Chosen(t)
    <3> SUFFICES ASSUME i \in Chosen(t) PROVE FALSE
      OBVIOUS
    <3>1. CASE Stands(sky, t[i])
      BY <1>12, <2>1, <3>1 DEF Stands
    <3>2. CASE ~Stands(sky, t[i])
      <4>1. i \in J /\ Of(t[i]) \in made /\ Of(t[i]).region = r
        BY <1>4, <2>1, <3>2
      <4>2. r \in chosen
        BY <4>1
      <4> QED  BY <1>12, <4>2
    <3> QED  BY <3>1, <3>2
  <2>3. IsFiniteSet(Ahead(t, i)) /\ Cardinality(Ahead(t, i)) >= 3
    BY <1>3, <2>2
  <2> DEFINE G == {g \in foreseen \ {r} : top(g) >= top(r)}
             f == [j \in Ahead(t, i) |-> t[j].region]
  <2>4. ASSUME NEW j \in Ahead(t, i) PROVE j \in D /\ t[j].region \in G
    <3>1. j \in D /\ (t[j].score > t[i].score \/ (t[j].score = t[i].score /\ j < i))
      BY <2>4 DEF Ahead
    <3>2. t[j].score \in Int /\ t[i].score \in Int /\ i \in Int
      BY <1>2, <1>6, <3>1
    <3>3. t[j].score >= t[i].score /\ j # i
      BY <3>1, <3>2
    <3>4. t[j].region # r
      BY <1>1, <1>2, <2>1, <3>1, <3>3 DEF Distinct
    <3>5. t[j].region \in foreseen /\ top(t[j].region) = t[j].score /\ top(r) = t[i].score
      BY <1>7, <2>1, <3>1
    <3> QED  BY <3>1, <3>3, <3>4, <3>5
  <2>5. \A j, k \in Ahead(t, i) : t[j].region = t[k].region => j = k
    BY <1>1, <1>2, <2>4 DEF Distinct
  <2>6. f \in Injection(Ahead(t, i), G)
    <3>1. f \in [Ahead(t, i) -> G] /\ \A j, k \in Ahead(t, i) : f[j] = f[k] => j = k
      BY <2>4, <2>5
    <3> HIDE DEF f, G
    <3> QED  BY <3>1 DEF Injection, IsInjective
  <2>7. IsFiniteSet(G)
    <3>1. G \subseteq Regions
      BY DEF foreseen, P, Pairs
    <3> HIDE DEF G
    <3> QED  BY <3>1, Map, FS_Subset
  <2>8. Cardinality(Ahead(t, i)) <= Cardinality(G)
    <3> HIDE DEF f, G
    <3> QED  BY <2>6, <2>7, FS_Injection
  <2>9. Cardinality(G) \in Nat /\ Cardinality(Ahead(t, i)) \in Nat
    <3> HIDE DEF G
    <3> QED  BY <2>3, <2>7, FS_CardinalityType
  <2> HIDE DEF G
  <2>10. Cardinality(G) >= 3
    BY <2>3, <2>8, <2>9
  <2> QED  BY <2>10 DEF G
<1> QED  BY <1>10, <1>11, <1>12 DEF BestOf, top, score, P, foreseen, Pairs, Regions

LEMMA Plausibly ==
  ASSUME NEW sky \in Sky, made = Predictions(sky), NEW p \in made
  PROVE  Follows(sky, p)
<1>1. PICK o \in Likeliest(Offers(sky)) :
        p = [region |-> o.region, type |-> o.type, level |-> LevelOf(o),
             delay |-> Delay(o), offer |-> o]
  BY DEF Predictions
<1>2. o \in Given(sky)
  <2> DEFINE t == Offers(sky)
  <2>1. t \in Seq(Given(sky)) /\ \A i \in DOMAIN t : t[i] \in Given(sky)
    BY OfferTable
  <2>2. \E i \in DOMAIN t : o = t[i]
    BY DEF Likeliest
  <2> QED  BY <2>1, <2>2
<1>3. PICK q \in Pairs(sky) :
        /\ o.from = q[1] /\ o.region = q[2] /\ o.source = sky.card[q[1]].level
        /\ o.score \in Int /\ o.eta \in Nat
  BY <1>2, GivenFacts
<1> DEFINE t == sky.card[o.from]
<1>4. /\ p.offer = o /\ p.region = o.region /\ p.level = LevelOf(o) /\ p.delay = Delay(o)
  BY <1>1
<1>5. LevelOf(o) = "low" \/ Grade(LevelOf(o)) < Grade(t.level)
  <2> SUFFICES ASSUME LevelOf(o) # "low" PROVE Grade(LevelOf(o)) < Grade(t.level)
    OBVIOUS
  <2>1. Grade(o.source) >= 3 /\ LevelOf(o) = "medium"
    BY DEF LevelOf
  <2>2. t.level = o.source
    BY <1>3
  <2>3. Grade("medium") = 2
    BY DEF Grade
  <2>4. Grade(o.source) \in Int
    <3>1. q[1] \in Regions /\ Offered(sky, q[1], q[2])
      BY DEF Pairs
    <3>2. o.source \in {"low", "medium", "high", "critical"}
      BY <1>3, <3>1, Skies DEF Offered, Direct, Overhead
    <3> QED  BY <3>2 DEF Grade
  <2> QED  BY <2>1, <2>2, <2>3, <2>4
<1>6. o.eta <= 7200 => Delay(o) >= o.eta
  <2> DEFINE eta == o.eta
  <2>1. eta \in Nat
    BY <1>3
  <2>2. Delay(o) = AtLeast(AtMost(2 * (IF eta > 0 THEN eta ELSE 1800), 7200), 600)
    BY DEF Delay
  <2> HIDE DEF eta
  <2>3. eta <= 7200 => Delay(o) >= eta
    BY <2>1, <2>2 DEF AtLeast, AtMost
  <2> QED  BY <2>3 DEF eta
<1>7. Forward(o.from, o.region) \/ History(o.from, o.region) > 0
        \/ Turn(Heading(t), Course[<<o.from, o.region>>]) < 45
  <2>1. q[1] \in Regions /\ q[2] \in ToSet(Border[q[1]]) /\ Offered(sky, q[1], q[2])
    BY DEF Pairs
  <2>2. Forward(q[1], q[2]) \/ History(q[1], q[2]) > 0
          \/ Turn(Heading(sky.card[q[1]]), Course[<<q[1], q[2]>>]) < 45
    BY <2>1, Scores
  <2> QED  BY <1>3, <2>2
<1> QED  BY <1>4, <1>5, <1>6, <1>7 DEF Follows

(* The predictions are those of the situation seen, and the path is that   *)
(* between the regions named.                                              *)
PredictionInv ==
  /\ seen = {} \/ \E sky \in Sky : seen = {sky} /\ made = Predictions(sky)
  /\ \A b \in between :
       b.from \in Regions /\ b.to \in Regions /\ b.path = FindPath(b.from, b.to)

LEMMA PredictionBegins == PredictionInit => PredictionInv
BY DEF PredictionInit, PredictionInv

LEMMA PredictionStepKeeps == PredictionInv /\ [PredictionNext]_predictionVars => PredictionInv'
<1> SUFFICES ASSUME PredictionInv, [PredictionNext]_predictionVars PROVE PredictionInv'
  OBVIOUS
<1>1. CASE UNCHANGED predictionVars
  BY <1>1 DEF PredictionInv, predictionVars
<1>2. ASSUME NEW sky \in Sky, Propagate(sky) PROVE PredictionInv'
  BY <1>2 DEF Propagate, PredictionInv
<1>3. ASSUME NEW from \in ToSet(Oblast), NEW to \in ToSet(Oblast), NamesTwo(from, to)
      PROVE  PredictionInv'
  BY <1>3 DEF NamesTwo, PredictionInv, Regions
<1> QED  BY <1>1, <1>2, <1>3 DEF PredictionNext

LEMMA PredictionInvSound == PredictionInv => PredictionsSound
<1> SUFFICES ASSUME PredictionInv PROVE PredictionsSound
  OBVIOUS
<1>1. ShortestWay
  <2> SUFFICES ASSUME NEW b \in between
               PROVE  LET n == Len(b.path) IN
                      /\ n > 0 => b.path \in Walks(n, b.from, b.to)
                      /\ \A m \in 1..(IF n = 0 THEN Len(Oblast) ELSE n - 1) :
                           Walks(m, b.from, b.to) = {}
    BY DEF ShortestWay
  <2> DEFINE n == Len(b.path)
  <2>1. b.from \in Regions /\ b.path = FindPath(b.from, b.to)
    BY DEF PredictionInv
  <2>2. /\ n \in Nat /\ (n > 0 => b.path \in Walks(n, b.from, b.to))
        /\ \A m \in Nat \ {0} : n = 0 \/ m < n => Walks(m, b.from, b.to) = {}
    BY <2>1, ShortestPath
  <2> HIDE DEF n
  <2>3. \A m \in 1..(IF n = 0 THEN Len(Oblast) ELSE n - 1) :
          m \in Nat \ {0} /\ (n = 0 \/ m < n)
    BY <2>2, Map
  <2> QED  BY <2>2, <2>3 DEF n
<1>2. BestChosen /\ Plausible
  <2>1. CASE seen = {}
    BY <2>1 DEF BestChosen, Plausible
  <2>2. ASSUME NEW sky \in Sky, seen = {sky}, made = Predictions(sky)
        PROVE  BestChosen /\ Plausible
    BY <2>2, Choice, Plausibly DEF BestChosen, Plausible
  <2> QED  BY <2>1, <2>2 DEF PredictionInv
<1> QED  BY <1>1, <1>2 DEF PredictionsSound

--------------------------------------------------------------------------
(* The rules that are learnt.                                              *)

(* A rule as it may stand in the table.                                    *)
RuleRow ==
  {r \in [kind : Kind, by : {"learner", "reflection"}, value : {-15, 0, 10},
          n : Nat \ {0}, score : 0..100, sourced : BOOLEAN, active : BOOLEAN,
          old : BOOLEAN, found : BOOLEAN] :
     r.value # 0 => r.kind = "confidence_correction"}

NoPast == [confirmed |-> 0, mitigated |-> 0, partially |-> 0, overestimated |-> 0, other |-> 0]

Working(run) ==
  /\ run.at \in DOMAIN Kinds /\ Kinds[run.at] \in Kind
  /\ run.pc # "read" => \E r \in RuleRow : run.got = {r}

Run ==
  {run \in [pc : {"idle", "decay", "age", "read", "delete", "insert"}, at : 0..6,
            got : SUBSET RuleRow, attempt : Nat] :
     /\ run.attempt < MaxAttempt
     /\ run.pc \in {"read", "delete", "insert"} => Working(run)}

RulesInv ==
  /\ past \in Past \cup {NoPast}
  /\ rules \in Seq(RuleRow)
  /\ learner \in [Learner -> Run]
  /\ reflection \in [pc : {"idle"}] \cup [pc : {"write"}, rule : Derived, fresh : BOOLEAN]
  /\ reflections \in 0..MaxReflection /\ troubles \in 0..MaxTrouble

(* What round(x, 2) makes of an average of shares.                         *)
LEMMA RoundedBounds ==
  ASSUME NEW sum \in Nat, NEW n \in Nat \ {0}, sum <= 100 * n
  PROVE  Rounded(sum, n) \in 0..100
<1> DEFINE a == 2 * sum + n
           b == 2 * n
           q == a \div b
<1>1. a \in Nat /\ b \in Nat \ {0} /\ a <= 201 * n /\ b * 101 = 202 * n
  OBVIOUS
<1>2. a < b * 101
  BY <1>1
<1> HIDE DEF a, b
<1>3. q \in Int /\ b * q <= a /\ a < b * q + b
  BY <1>1, SMT
<1> HIDE DEF q
<1>4. q < 101
  <2>1. b * q < b * 101
    BY <1>1, <1>2, <1>3
  <2> QED  BY <1>1, <1>3, <2>1
<1>5. q >= 0
  <2>1. b * q + b > 0
    BY <1>1, <1>3
  <2>2. b * (q + 1) > 0
    BY <1>1, <1>3, <2>1
  <2>3. q + 1 > 0
    BY <1>1, <1>3, <2>2
  <2> QED  BY <1>3, <2>3
<1>6. q \in 0..100
  BY <1>3, <1>4, <1>5
<1> QED  BY <1>6 DEF Rounded, q, a, b

LEMMA PastTyped ==
  ASSUME NEW p \in Past \cup {NoPast}
  PROVE  /\ p.confirmed \in Nat /\ p.mitigated \in Nat /\ p.partially \in Nat
         /\ p.overestimated \in Nat /\ p.other \in Nat
BY RulesAssumption DEF NoPast

(* Only a correction corrects.                                             *)
Corrects(kind, value) ==
  value \in {-15, 0, 10} /\ (value # 0 => kind = "confidence_correction")

LEMMA RuleTyped ==
  ASSUME NEW kind \in Kind, NEW value, NEW n \in Nat \ {0}, NEW score \in 0..100,
         Corrects(kind, value)
  PROVE  \E r \in RuleRow : Rule(kind, value, n, score) = {r}
<1> DEFINE r == [kind |-> kind, by |-> "learner", value |-> value, n |-> n, score |-> score,
                 sourced |-> kind \notin {"confidence_correction", "time_pattern"},
                 active |-> TRUE, old |-> FALSE, found |-> FALSE]
<1>1. (kind \notin {"confidence_correction", "time_pattern"}) \in BOOLEAN
  OBVIOUS
<1>2. r \in RuleRow
  BY <1>1 DEF RuleRow, Corrects
<1>3. Rule(kind, value, n, score) = {r}
  BY DEF Rule
<1> QED  BY <1>2, <1>3

LEMMA NoCorrection == \A kind : Corrects(kind, 0)
BY DEF Corrects

LEMMA LearntTyped ==
  ASSUME NEW kind \in Kind, NEW p \in Past \cup {NoPast}, Learnt(kind, p) # {}
  PROVE  \E r \in RuleRow : Learnt(kind, p) = {r}
<1> DEFINE a == p.confirmed
           b == p.mitigated
           c == p.partially
           d == p.overestimated
           e == p.other
           n == Total(p)
<1>1. a \in Nat /\ b \in Nat /\ c \in Nat /\ d \in Nat /\ e \in Nat
  BY PastTyped
<1>2. /\ n = a + b + c + d + e
      /\ Weight(p, 80) = 100 * a + 80 * b + 70 * c + 20 * d + 50 * e
      /\ Weight(p, 100) = 100 * a + 100 * b + 70 * c + 20 * d + 50 * e
      /\ EtaWeight(p) = 100 * (a + b + c) + 30 * (d + e)
  BY DEF Total, Weight, EtaWeight
<1> DEFINE w == Weight(p, 80)
           v == Weight(p, 100)
           u == EtaWeight(p)
<1> HIDE DEF a, b, c, d, e, n, w, v, u
<1>3. /\ n \in Nat /\ w \in Nat /\ v \in Nat /\ u \in Nat /\ 100 * (n - d) \in Nat
      /\ w <= 100 * n /\ v <= 100 * n /\ u <= 100 * n /\ 100 * (n - d) <= 100 * n
  BY <1>1, <1>2 DEF w, v, u
<1>4. n # 0 => /\ Rounded(w, n) \in 0..100 /\ Rounded(v, n) \in 0..100
               /\ Rounded(u, n) \in 0..100 /\ Rounded(100 * (n - d), n) \in 0..100
  BY <1>3, RoundedBounds
<1>5. kind \in {"route_pattern", "confidence_correction", "time_pattern", "eta_math",
                "aviation_strike_pattern", "launch_site_pattern"}
  BY RulesAssumption DEF Kinds, ToSet
<1>6. CASE kind = "route_pattern"
  <2>1. Learnt(kind, p) = Rule(kind, 0, n, Rounded(w, n)) /\ n # 0
    BY <1>3, <1>6 DEF Learnt, Route, n, w
  <2> DEFINE x == Rounded(w, n)
  <2>2. n \in Nat \ {0} /\ x \in 0..100
    BY <1>3, <1>4, <2>1
  <2> HIDE DEF x
  <2>3. \E r \in RuleRow : Rule(kind, 0, n, x) = {r}
    BY <2>2, RuleTyped, NoCorrection
  <2> QED  BY <2>1, <2>3 DEF x
<1>7. CASE kind = "confidence_correction"
  <2> DEFINE value == IF 10 * d > 6 * n THEN -15 ELSE IF 10 * a > 7 * n THEN 10 ELSE 0
  <2>1. Learnt(kind, p) = Rule(kind, value, n, Rounded(100 * (n - d), n)) /\ n # 0
    BY <1>3, <1>7 DEF Learnt, Correction, n, d, a
  <2>2. value \in {-15, 0, 10}
    OBVIOUS
  <2> DEFINE x == Rounded(100 * (n - d), n)
  <2>3. n \in Nat \ {0} /\ x \in 0..100
    BY <1>3, <1>4, <2>1
  <2> HIDE DEF value, x
  <2>4. \E r \in RuleRow : Rule(kind, value, n, x) = {r}
    <3>1. Corrects(kind, value)
      BY <1>7, <2>2 DEF Corrects
    <3> QED  BY <2>3, <3>1, RuleTyped
  <2> QED  BY <2>1, <2>4 DEF x
<1>8. CASE kind = "time_pattern"
  <2>1. Learnt(kind, p) = Rule(kind, 0, a, 70) /\ a # 0
    BY <1>1, <1>8 DEF Learnt, TimeOfDay, a
  <2> QED  BY <1>1, <2>1, RuleTyped, NoCorrection
<1>9. CASE kind = "eta_math"
  <2>1. Learnt(kind, p) = Rule(kind, 0, n, Rounded(u, n)) /\ n # 0
    BY <1>3, <1>9 DEF Learnt, EtaMath, n, u
  <2> DEFINE x == Rounded(u, n)
  <2>2. n \in Nat \ {0} /\ x \in 0..100
    BY <1>3, <1>4, <2>1
  <2> HIDE DEF x
  <2>3. \E r \in RuleRow : Rule(kind, 0, n, x) = {r}
    BY <2>2, RuleTyped, NoCorrection
  <2> QED  BY <2>1, <2>3 DEF x
<1>10. CASE kind = "aviation_strike_pattern"
  <2>1. Learnt(kind, p) = Rule(kind, 0, n, Rounded(w, n)) /\ n # 0
    BY <1>3, <1>10 DEF Learnt, Launch, n, w
  <2> DEFINE x == Rounded(w, n)
  <2>2. n \in Nat \ {0} /\ x \in 0..100
    BY <1>3, <1>4, <2>1
  <2> HIDE DEF x
  <2>3. \E r \in RuleRow : Rule(kind, 0, n, x) = {r}
    BY <2>2, RuleTyped, NoCorrection
  <2> QED  BY <2>1, <2>3 DEF x
<1>11. CASE kind = "launch_site_pattern"
  <2>1. Learnt(kind, p) = Rule(kind, 0, n, Rounded(v, n)) /\ n # 0
    BY <1>3, <1>11 DEF Learnt, Launch, n, v
  <2> DEFINE x == Rounded(v, n)
  <2>2. n \in Nat \ {0} /\ x \in 0..100
    BY <1>3, <1>4, <2>1
  <2> HIDE DEF x
  <2>3. \E r \in RuleRow : Rule(kind, 0, n, x) = {r}
    BY <2>2, RuleTyped, NoCorrection
  <2> QED  BY <2>1, <2>3 DEF x
<1> QED  BY <1>5, <1>6, <1>7, <1>8, <1>9, <1>10, <1>11

LEMMA OneRow ==
  ASSUME NEW S, NEW r \in S
  PROVE  SetToSeq({r}) \in Seq(S)
<1> DEFINE f == [i \in 1..1 |-> r]
           V == [1..1 -> {r}]
<1>1. Cardinality({r}) = 1
  BY FS_Singleton
<1>2. f \in V /\ IsInjective(f)
  BY DEF IsInjective
<1>3. SetToSeq({r}) = CHOOSE g \in V : IsInjective(g)
  BY <1>1 DEF SetToSeq
<1>4. SetToSeq({r}) \in V
  <2> HIDE DEF V, f
  <2>1. \E g \in V : IsInjective(g)
    BY <1>2
  <2> QED  BY <1>3, <2>1, Zenon
<1>5. ASSUME NEW g \in V PROVE g \in Seq(S)
  <2>1. g = [i \in 1..1 |-> r]
    BY <1>5
  <2> QED  BY <2>1
<1> QED  BY <1>4, <1>5

LEMMA KindsFacts ==
  DOMAIN Kinds = 1..6 /\ \A S \in SUBSET (1..6) : S # {} => Min(S) \in S
<1>1. DOMAIN Kinds = 1..6
  BY DEF Kinds
<1>2. ASSUME NEW S \in SUBSET (1..6), S # {} PROVE Min(S) \in S
  <2>1. \E i \in S : \A j \in S : i <= j
    BY <1>2, LeastNumber
  <2> QED  BY <2>1 DEF Min
<1> QED  BY <1>1, <1>2

(* A thread of learning goes on to the next kind, or ends.                 *)
LEMMA GotoTyped ==
  ASSUME RulesInv, NEW l \in Learner, NEW at \in 0..6, Goto(l, at)
  PROVE  learner' \in [Learner -> Run]
<1> DEFINE next == {i \in DOMAIN Kinds : i > at /\ Kinds[i] \in Kind}
           run == learner[l]
           new == IF next = {} THEN NoRun
                  ELSE [run EXCEPT !.pc = "read", !.at = Min(next), !.got = {}]
<1>1. learner' = [learner EXCEPT ![l] = new]
  BY DEF Goto
<1>2. learner \in [Learner -> Run] /\ run \in Run
  BY DEF RulesInv
<1>3. CASE next = {}
  <2>1. NoRun \in Run
    BY RulesAssumption DEF Run, NoRun
  <2>2. new = NoRun
    BY <1>3
  <2> QED  BY <1>1, <1>2, <2>1, <2>2
<1>4. CASE next # {}
  <2> DEFINE m == Min(next)
  <2>1. m \in next
    BY <1>4, KindsFacts
  <2>2. m \in 1..6 /\ m \in DOMAIN Kinds /\ Kinds[m] \in Kind
    BY <2>1, KindsFacts
  <2>3. new = [run EXCEPT !.pc = "read", !.at = m, !.got = {}]
    BY <1>4
  <2> HIDE DEF m, run, new, next
  <2>4. new = [pc |-> "read", at |-> m, got |-> {}, attempt |-> run.attempt]
    BY <1>2, <2>3 DEF Run
  <2>5. run.attempt \in Nat /\ run.attempt < MaxAttempt
    BY <1>2 DEF Run
  <2>6. new \in Run
    BY <2>2, <2>4, <2>5 DEF Run, Working
  <2> QED  BY <1>1, <1>2, <2>6 DEF new, run
<1> QED  BY <1>3, <1>4

Shape == [pc : {"idle", "decay", "age", "read", "delete", "insert"}, at : 0..6,
          got : SUBSET RuleRow, attempt : Nat]

LEMMA RulesBegin == RulesInit => RulesInv
<1> SUFFICES ASSUME RulesInit PROVE RulesInv
  OBVIOUS
<1>1. NoRun \in Run
  BY RulesAssumption DEF Run, NoRun
<1>2. learner \in [Learner -> Run]
  BY <1>1 DEF RulesInit
<1>3. past = NoPast /\ rules \in Seq(RuleRow) /\ reflection \in [pc : {"idle"}]
  BY DEF RulesInit, NoPast
<1> QED  BY <1>2, <1>3, RulesAssumption DEF RulesInv, RulesInit


LEMMA RowList ==
  ASSUME RulesInv, NEW new \in [DOMAIN rules -> RuleRow]
  PROVE  new \in Seq(RuleRow)
<1>1. rules \in Seq(RuleRow) /\ DOMAIN rules = 1..Len(rules) /\ Len(rules) \in Nat
  BY DEF RulesInv
<1>2. new \in [1..Len(rules) -> RuleRow]
  BY <1>1
<1> QED  BY <1>1, <1>2

LEMMA RowOf ==
  ASSUME RulesInv, NEW i \in DOMAIN rules
  PROVE  rules[i] \in RuleRow
BY DEF RulesInv

(* What the statements make of a row.                                      *)
LEMMA RowsKept ==
  ASSUME NEW r \in RuleRow
  PROVE  /\ \A step : Decayed(r, step) \in RuleRow /\ [r EXCEPT !.old = TRUE] \in RuleRow
         /\ \A b \in BOOLEAN : [r EXCEPT !.found = b] \in RuleRow
         /\ \A score \in 0..100 : Updated(r, score) \in RuleRow
<1>1. ASSUME NEW step PROVE Decayed(r, step) \in RuleRow
  BY DEF Decayed, RuleRow
<1>2. [r EXCEPT !.old = TRUE] \in RuleRow /\ \A b \in BOOLEAN : [r EXCEPT !.found = b] \in RuleRow
  BY DEF RuleRow
<1>3. ASSUME NEW score \in 0..100 PROVE Updated(r, score) \in RuleRow
  <2> DEFINE n == r.n
             s == r.score
             x == Rounded(s * n + score, n + 1)
  <2>1. n \in Nat \ {0} /\ s \in 0..100
    BY DEF RuleRow
  <2> HIDE DEF n, s
  <2>2. s * n \in Nat /\ s * n <= 100 * n
    BY <2>1
  <2> DEFINE sum == s * n + score
             m == n + 1
  <2>3. sum \in Nat /\ m \in Nat \ {0} /\ sum <= 100 * m
    BY <2>1, <2>2
  <2> HIDE DEF sum, m
  <2>4. x \in 0..100
    BY <2>3, RoundedBounds DEF sum, m
  <2> HIDE DEF x
  <2>5. Updated(r, score) =
          [r EXCEPT !.by = "reflection", !.n = n + 1, !.value = 0, !.active = TRUE,
                    !.old = FALSE, !.found = FALSE, !.score = x]
    BY DEF Updated, RuleRow, x, n, s
  <2> DEFINE u == Updated(r, score)
  <2>6. /\ u = [kind |-> r.kind, by |-> "reflection", value |-> 0, n |-> n + 1, score |-> x,
               sourced |-> r.sourced, active |-> TRUE, old |-> FALSE, found |-> FALSE]
        /\ r.kind \in Kind /\ r.sourced \in BOOLEAN
    BY <2>5 DEF RuleRow
  <2> HIDE DEF u
  <2>7. n + 1 \in Nat \ {0}
    BY <2>1
  <2>8. u \in RuleRow
    BY <2>4, <2>6, <2>7 DEF RuleRow
  <2> QED  BY <2>8 DEF u
<1> QED  BY <1>1, <1>2, <1>3

LEMMA LearnsKeeps ==
  ASSUME RulesInv, NEW l \in Learner, Learns(l) \/ Locked(l)
  PROVE  RulesInv'
<1> DEFINE run == learner[l]
<1>1. /\ past \in Past \cup {NoPast} /\ rules \in Seq(RuleRow) /\ learner \in [Learner -> Run]
      /\ reflection \in [pc : {"idle"}] \cup [pc : {"write"}, rule : Derived, fresh : BOOLEAN]
      /\ reflections \in 0..MaxReflection /\ troubles \in 0..MaxTrouble
      /\ run \in Run
  BY DEF RulesInv
<1>2. run.at \in 0..6 /\ run.attempt \in Nat
  BY <1>1 DEF Run
<1>3. CASE Start(l)
  <2>1. learner' = [learner EXCEPT ![l] = [run EXCEPT !.pc = "decay"]]
    BY <1>1, <1>3 DEF Start
  <2>2. [run EXCEPT !.pc = "decay"] \in Run
    BY <1>1 DEF Run
  <2> QED  BY <1>1, <1>3, <2>1, <2>2 DEF Start, RulesInv
<1>4. CASE Decay(l)
  <2>1. learner' \in [Learner -> Run]
    <3>1. CASE run.pc = "decay"
      <4>1. [run EXCEPT !.pc = "age"] \in Run
        BY <1>1, <3>1 DEF Run
      <4> QED  BY <1>1, <1>4, <3>1, <4>1 DEF Decay
    <3>2. CASE run.pc # "decay"
      BY <1>4, <3>2, GotoTyped DEF Decay
    <3> QED  BY <3>1, <3>2
  <2>2. rules' \in Seq(RuleRow)
    <3>1. [i \in DOMAIN rules |-> Decayed(rules[i], run.pc)] \in [DOMAIN rules -> RuleRow]
      BY RowOf, RowsKept
    <3> QED  BY <1>4, <3>1, RowList DEF Decay
  <2> QED  BY <1>1, <1>4, <2>1, <2>2 DEF Decay, RulesInv
<1>5. CASE Read(l)
  <2> DEFINE got == Learnt(Kinds[run.at], past)
  <2>1. learner' \in [Learner -> Run]
    <3>1. CASE got = {}
      BY <1>2, <1>5, <3>1, GotoTyped DEF Read
    <3>2. CASE got # {}
      <4>1. Working(run) /\ run.pc = "read"
        BY <1>1, <1>5 DEF Read, Run
      <4>2. \E r \in RuleRow : got = {r}
        BY <1>1, <3>2, <4>1, LearntTyped DEF Working
      <4>3. learner' = [learner EXCEPT ![l] = [run EXCEPT !.pc = "delete", !.got = got]]
        BY <1>1, <1>5, <3>2 DEF Read
      <4> DEFINE new == [run EXCEPT !.pc = "delete", !.got = got]
      <4> HIDE DEF got
      <4>4. /\ new \in Shape /\ new.pc = "delete" /\ new.at = run.at /\ new.got = got
            /\ new.attempt = run.attempt
        <5>1. run \in Shape /\ got \in SUBSET RuleRow
          BY <1>1, <4>2 DEF Run, Shape
        <5> HIDE DEF run
        <5> QED  BY <5>1 DEF Shape
      <4>5. run.attempt < MaxAttempt /\ run.at \in DOMAIN Kinds /\ Kinds[run.at] \in Kind
        BY <1>1, <4>1 DEF Run, Working
      <4> HIDE DEF new
      <4>6. new \in Run
        BY <1>2, <4>2, <4>4, <4>5 DEF Run, Working, Shape
      <4> QED  BY <1>1, <4>3, <4>6 DEF new
    <3> QED  BY <3>1, <3>2
  <2> QED  BY <1>1, <1>5, <2>1 DEF Read, RulesInv
<1>6. CASE Delete(l)
  <2>1. learner' = [learner EXCEPT ![l] = [run EXCEPT !.pc = "insert"]] /\ run.pc = "delete"
    BY <1>1, <1>6 DEF Delete
  <2>2. [run EXCEPT !.pc = "insert"] \in Run
    BY <1>1, <2>1 DEF Run, Working
  <2>3. rules' \in Seq(RuleRow)
    BY <1>1, <1>6, WithoutFacts DEF Delete
  <2> QED  BY <1>1, <1>6, <2>1, <2>2, <2>3 DEF Delete, RulesInv
<1>7. CASE Insert(l)
  <2>1. learner' \in [Learner -> Run]
    BY <1>2, <1>7, GotoTyped DEF Insert
  <2>2. run.pc = "insert" /\ Working(run)
    BY <1>1, <1>7 DEF Insert, Run
  <2>3. PICK r \in RuleRow : run.got = {r}
    BY <2>2 DEF Working
  <2>4. SetToSeq(run.got) \in Seq(RuleRow)
    BY <2>3, OneRow
  <2>5. rules' \in Seq(RuleRow)
    BY <1>1, <1>7, <2>4 DEF Insert
  <2> QED  BY <1>1, <1>7, <2>1, <2>5 DEF Insert, RulesInv
<1>8. CASE Locked(l)
  <2>1. learner' \in [Learner -> Run]
    <3>1. CASE run.pc \notin {"decay", "age"} /\ run.at > 3
      BY <1>2, <1>8, <3>1, GotoTyped DEF Locked
    <3>2. CASE ~(run.pc \notin {"decay", "age"} /\ run.at > 3)
      <4> DEFINE new == IF run.attempt + 1 < MaxAttempt
                        THEN [NoRun EXCEPT !.pc = "decay", !.attempt = run.attempt + 1]
                        ELSE NoRun
      <4>1. learner' = [learner EXCEPT ![l] = new]
        BY <1>1, <1>8, <3>2 DEF Locked
      <4>2. NoRun \in Run
        BY RulesAssumption DEF Run, NoRun
      <4>3. ASSUME run.attempt + 1 < MaxAttempt
            PROVE  [NoRun EXCEPT !.pc = "decay", !.attempt = run.attempt + 1] \in Run
        <5> DEFINE a == run.attempt + 1
        <5>1. a \in Nat /\ a < MaxAttempt
          BY <1>2, <4>3
        <5> HIDE DEF a
        <5> DEFINE it == [NoRun EXCEPT !.pc = "decay", !.attempt = a]
        <5>2. NoRun \in Shape
          BY <4>2 DEF Run, Shape
        <5>3. it \in Shape /\ it.pc = "decay" /\ it.attempt = a
          BY <5>1, <5>2 DEF Shape
        <5> HIDE DEF it
        <5>4. it \in Run
          BY <5>1, <5>3 DEF Run, Shape
        <5> QED  BY <5>4 DEF it, a
      <4>4. new \in Run
        BY <4>2, <4>3
      <4> HIDE DEF new
      <4> QED  BY <1>1, <4>1, <4>4
    <3> QED  BY <3>1, <3>2
  <2>2. troubles' \in 0..MaxTrouble
    BY <1>1, <1>8, RulesAssumption DEF Locked, Trouble
  <2> QED  BY <1>1, <1>8, <2>1, <2>2 DEF Locked, RulesInv
<1> QED  BY <1>3, <1>4, <1>5, <1>6, <1>7, <1>8 DEF Learns

LEMMA ReflectKeeps ==
  ASSUME RulesInv, NEW rule \in Derived, Reflect(rule)
  PROVE  RulesInv'
<1> DEFINE same == {i \in DOMAIN rules :
                      rule.sourced /\ rules[i].kind = rule.kind /\ rules[i].sourced}
           new == [i \in DOMAIN rules |->
                     [rules[i] EXCEPT !.found = same # {} /\ i = Min(same)]]
<1>1. rules' \in Seq(RuleRow)
  <2>1. ASSUME NEW i \in DOMAIN rules PROVE new[i] \in RuleRow
    <3> DEFINE b == same # {} /\ i = Min(same)
    <3>1. new[i] = [rules[i] EXCEPT !.found = b] /\ b \in BOOLEAN
      OBVIOUS
    <3> HIDE DEF b
    <3> QED  BY <3>1, RowOf, RowsKept
  <2>2. rules' = new
    BY DEF Reflect
  <2>3. new \in [DOMAIN rules -> RuleRow]
    BY <2>1
  <2> HIDE DEF new
  <2> QED  BY <2>2, <2>3, RowList
<1>2. reflections' \in 0..MaxReflection
  BY RulesAssumption DEF Reflect, RulesInv
<1>3. reflection' \in [pc : {"write"}, rule : Derived, fresh : BOOLEAN]
  BY DEF Reflect
<1> QED  BY <1>1, <1>2, <1>3 DEF Reflect, RulesInv

LEMMA WrittenKeeps ==
  ASSUME RulesInv, ReflectionWritten
  PROVE  RulesInv'
<1> DEFINE rule == reflection.rule
           new == {[r EXCEPT !.by = "reflection", !.sourced = rule.sourced] :
                     r \in Rule(rule.kind, 0, 1, rule.score)}
           kept == [i \in DOMAIN rules |->
                      IF rules[i].found THEN Updated(rules[i], rule.score) ELSE rules[i]]
<1>1. rule.kind \in Kind /\ rule.sourced \in BOOLEAN /\ rule.score \in 0..100
  <2>1. reflection \in [pc : {"write"}, rule : Derived, fresh : BOOLEAN]
    BY DEF ReflectionWritten, RulesInv
  <2>2. rule \in Derived
    BY <2>1
  <2> QED  BY <2>2, RulesAssumption DEF Derived
<1>2. rules' = IF reflection.fresh THEN rules \o SetToSeq(new) ELSE kept
  BY DEF ReflectionWritten
<1> HIDE DEF rule
<1>3. rules \o SetToSeq(new) \in Seq(RuleRow)
  <2>1. PICK r \in RuleRow : Rule(rule.kind, 0, 1, rule.score) = {r}
    <3> DEFINE k == rule.kind
               x == rule.score
    <3>1. k \in Kind /\ x \in 0..100 /\ 1 \in Nat \ {0}
      BY <1>1
    <3> HIDE DEF k, x
    <3>2. \E r \in RuleRow : Rule(k, 0, 1, x) = {r}
      BY <3>1, RuleTyped, NoCorrection
    <3> QED  BY <3>2 DEF k, x
  <2> DEFINE s == [r EXCEPT !.by = "reflection", !.sourced = rule.sourced]
  <2>2. new = {s}
    BY <2>1
  <2>3. s \in RuleRow
    BY <1>1 DEF RuleRow
  <2> HIDE DEF s, new
  <2>4. SetToSeq(new) \in Seq(RuleRow)
    BY <2>2, <2>3, OneRow
  <2> QED  BY <2>4 DEF RulesInv
<1>4. kept \in Seq(RuleRow)
  <2>1. kept \in [DOMAIN rules -> RuleRow]
    BY <1>1, RowOf, RowsKept
  <2> HIDE DEF kept
  <2> QED  BY <2>1, RowList
<1> HIDE DEF new, kept
<1>5. rules' \in Seq(RuleRow) /\ reflection' \in [pc : {"idle"}]
  BY <1>2, <1>3, <1>4 DEF ReflectionWritten
<1> QED  BY <1>5 DEF ReflectionWritten, RulesInv

LEMMA RulesStepKeeps == RulesInv /\ [RulesNext]_rulesVars => RulesInv'
<1> SUFFICES ASSUME RulesInv, [RulesNext]_rulesVars PROVE RulesInv'
  OBVIOUS
<1>1. CASE UNCHANGED rulesVars
  BY <1>1 DEF rulesVars, RulesInv
<1>2. ASSUME NEW l \in Learner, Learns(l) \/ Locked(l) PROVE RulesInv'
  BY <1>2, LearnsKeeps
<1>3. ASSUME NEW rule \in Derived, Reflect(rule) PROVE RulesInv'
  BY <1>3, ReflectKeeps
<1>4. CASE ReflectionWritten
  BY <1>4, WrittenKeeps
<1>5. [i \in DOMAIN rules |-> [rules[i] EXCEPT !.found = FALSE]] \in Seq(RuleRow)
  <2>1. [i \in DOMAIN rules |-> [rules[i] EXCEPT !.found = FALSE]] \in [DOMAIN rules -> RuleRow]
    BY RowOf, RowsKept
  <2> QED  BY <2>1, RowList
<1>6. Trouble => troubles' \in 0..MaxTrouble
  BY RulesAssumption DEF Trouble, RulesInv
<1>7. CASE ReflectionFails
  <2>1. rules' \in Seq(RuleRow) /\ reflection' \in [pc : {"idle"}] /\ troubles' \in 0..MaxTrouble
    BY <1>5, <1>6, <1>7 DEF ReflectionFails
  <2> QED  BY <1>7, <2>1 DEF ReflectionFails, RulesInv
<1>8. CASE Events
  BY <1>8 DEF Events, RulesInv
<1>9. CASE TwoWeeks
  <2>1. [i \in DOMAIN rules |-> [rules[i] EXCEPT !.old = TRUE]] \in [DOMAIN rules -> RuleRow]
    BY RowOf, RowsKept
  <2>2. rules' \in Seq(RuleRow)
    BY <1>9, <2>1, RowList DEF TwoWeeks
  <2> QED  BY <1>9, <2>2 DEF TwoWeeks, RulesInv
<1>10. CASE Restart
  <2>1. NoRun \in Run
    BY RulesAssumption DEF Run, NoRun
  <2>2. /\ learner' \in [Learner -> Run] /\ reflection' \in [pc : {"idle"}]
        /\ rules' \in Seq(RuleRow) /\ troubles' \in 0..MaxTrouble
    BY <1>5, <1>6, <1>10, <2>1 DEF Restart
  <2> QED  BY <1>10, <2>2 DEF Restart, RulesInv
<1> QED  BY <1>1, <1>2, <1>3, <1>4, <1>7, <1>8, <1>9, <1>10 DEF RulesNext

LEMMA RulesInvTyped == RulesInv => RulesTypeOK
<1> SUFFICES ASSUME RulesInv PROVE RulesTypeOK
  OBVIOUS
<1>1. ASSUME NEW i \in DOMAIN rules
      PROVE  /\ rules[i].kind \in Kind /\ rules[i].value \in {-15, 0, 10}
             /\ rules[i].n \in Nat \ {0} /\ rules[i].score \in 0..100
             /\ rules[i].value # 0 => rules[i].kind = "confidence_correction"
  BY RowOf DEF RuleRow
<1>2. ASSUME NEW l \in Learner
      PROVE  /\ learner[l].pc \in {"idle", "decay", "age", "read", "delete", "insert"}
             /\ learner[l].attempt < MaxAttempt
             /\ learner[l].pc \in {"delete", "insert"} => learner[l].got # {}
  <2>1. learner[l] \in Run
    BY DEF RulesInv
  <2> QED  BY <2>1 DEF Run, Working
<1> QED  BY <1>1, <1>2 DEF RulesTypeOK, RulesInv, NoPast

-----------------------------------------------------------------------------
(* The runs let one service move in a behaviour, to check each alone: what *)
(* holds of a service of its own holds there.  This follows from how Next  *)
(* is put together and says nothing of services that run beside each       *)
(* other; the facts proved of a service do not read the state of another.  *)
LEMMA EachServiceItsOwn ==
  Spec => /\ RulesInit /\ [][RulesNext]_rulesVars
          /\ PollInit /\ [][PollNext]_pollVars
          /\ HistorySpec /\ ShelterSpec
          /\ PredictionInit /\ [][PredictionNext]_predictionVars
<1>1. Init => RulesInit /\ PollInit /\ HistoryInit /\ ShelterInit /\ PredictionInit
  BY DEF Init
<1>2. [Next]_servicesVars =>
        /\ [RulesNext]_rulesVars /\ [PollNext]_pollVars /\ [HistoryNext]_historyVars
        /\ [ShelterNext]_shelterVars /\ [PredictionNext]_predictionVars
  BY DEF Next, servicesVars, RulesStep, PollStep, HistoryStep, ShelterStep, PredictionStep
<1> QED  BY <1>1, <1>2, PTL DEF Spec, HistorySpec, ShelterSpec

(* The state of each service is what it is meant to be: the attempts of    *)
(* the poll and of the learners stay within their bounds, each rule has    *)
(* evidence and a score of at most 100, only a correction corrects, and    *)
(* what a learner is about to write it has learnt (learner.py:437).        *)
THEOREM ServicesTypeCorrect == Spec => []TypeOK
<1>1. PollInv => PollTypeOK
  BY DEF PollInv
<1>2. RulesTypeOK /\ PollTypeOK /\ HistoryTypeOK /\ ShelterTypeOK => TypeOK
  BY DEF TypeOK
<1> QED  BY <1>1, <1>2, EachServiceItsOwn, RulesBegin, RulesStepKeeps, RulesInvTyped,
            PollBegins, PollStepTyped, HistoryTypeCorrect, ShelterTypeCorrect, PTL

(* Whatever the map, the situation and the order of the loops: the path    *)
(* between two regions is a shortest one, and none is found only where     *)
(* there is none; at most three regions are predicted, each once and with  *)
(* the best score any threat gives it, the rest being outdone by three;    *)
(* and a prediction is weaker than its threat or low, lasts until a threat *)
(* of two hours at most must have arrived, and has a reason                *)
(* (telegram_monitor.py:535, 973).                                         *)
THEOREM PredictionsCorrect == Spec => []PredictionsSound
BY EachServiceItsOwn, PredictionBegins, PredictionStepKeeps, PredictionInvSound, PTL
===============================================================================
