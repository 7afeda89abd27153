------------------------------- MODULE AlarmPoll -------------------------------
(***************************************************************************)
(* The loop that asks three services for the official sirens               *)
(* (poll_aerial_alerts in server.py) and then ends the threats whose time  *)
(* is past.  The answer of the first service to answer is applied as a     *)
(* whole; if none does, the sirens stay as they are and no threat ends.    *)
(* The districts kept beside the sirens are left out, and so are the       *)
(* sirens that reports tell of: ThreatManager has them.                    *)
(***************************************************************************)
EXTENDS ThreatLifecycle, FiniteSets, Sequences

CONSTANTS PollRegion,
          Occupied,   \* regions the manager keeps no state of
          Notices,    \* what may be announced: sets of notices, by region
          Tokens,     \* the services, of 1 and 3, there is a token for
          Card,       \* threats that may be reported, with their region
          AgeStep     \* a step of the clock

Tier == {1, 2, 3}
Attempts == 3

ASSUME PollAssumption ==
  /\ Tokens \subseteq {1, 3} /\ AgeStep \in Nat \ {0}
  /\ \A c \in Card : c.region \in PollRegion \ Occupied

VARIABLES announced,  \* the notices in force, by region
          up,         \* the services that answer
          siren,      \* the siren the manager has for a region
          testing,    \* the regions in test mode
          poll,       \* what the loop is about to do
          card,       \* the threat on the map
          age         \* time since it was reported

pollVars == <<announced, up, siren, testing, poll, card, age>>

Off == "off"
NoThreat == [region |-> "none", dated |-> TRUE]
MaxAge == 2700 + AgeStep

Asking(tier) == [pc |-> "ask", tier |-> tier, attempt |-> 1]

PollInit ==
  /\ announced = [r \in PollRegion |-> {}] /\ up = Tier
  /\ siren = [r \in PollRegion |-> Off] /\ testing = {}
  /\ poll = [pc |-> "sleep"] /\ card = NoThreat /\ age = 0

(***************************************************************************)
(* What a service tells of a region.  A notice is for the region or for a  *)
(* part of it, and lists types.  The first service tells of both, with the *)
(* first of the grave types of each notice, and the gravest of these       *)
(* counts; the others tell of whole regions only.                          *)
(***************************************************************************)
Gravity == [nuclear |-> 5, chemical |-> 4, urban_fights |-> 3, artillery |-> 2, air |-> 1]

ASSUME NoticesAssumption ==
  /\ {} \in Notices
  /\ \A ns \in Notices : \A n \in ns : n.types \in Seq(DOMAIN Gravity)

Primary(notice) ==
  LET grave == {i \in DOMAIN notice.types : notice.types[i] # "air"}
  IN  IF grave = {} THEN "air"
      ELSE notice.types[CHOOSE i \in grave : \A j \in grave : i <= j]

Gravest(notices) ==
  LET types == {Primary(n) : n \in notices}
  IN  IF types = {} THEN Off
      ELSE CHOOSE t \in types : \A u \in types : Gravity[t] >= Gravity[u]

(* Fault: regions a service does not list are not set to inactive.         *)
AnswerOfListed(tier) ==
  [r \in PollRegion |->
     IF announced[r] = {} THEN siren[r]
     ELSE IF tier = 1 THEN Gravest(announced[r])
     ELSE IF \E n \in announced[r] : n.whole THEN "air" ELSE siren[r]]

Answer(tier) ==
  [r \in PollRegion |->
     IF tier = 1 THEN Gravest(announced[r])
     ELSE IF \E n \in announced[r] : n.whole THEN "air" ELSE Off]

(***************************************************************************)
(* The loop.                                                               *)
(***************************************************************************)
Wake ==
  /\ poll.pc = "sleep"
  /\ poll' = Asking(IF 1 \in Tokens THEN 1 ELSE 2)
  /\ UNCHANGED <<announced, up, siren, testing, card, age>>

Answered ==
  /\ poll.pc = "ask" /\ poll.tier \in up
  /\ poll' = [pc |-> "apply", sirens |-> Answer(poll.tier)]
  /\ UNCHANGED <<announced, up, siren, testing, card, age>>

(* Fault: one attempt too many.                                            *)
UnansweredOnceMore ==
  /\ poll.pc = "ask" /\ poll.tier \notin up
  /\ poll' = IF poll.tier # 3 /\ poll.attempt <= Attempts
             THEN [poll EXCEPT !.attempt = @ + 1]
             ELSE IF poll.tier = 1 THEN Asking(2)
             ELSE IF poll.tier = 2 /\ 3 \in Tokens THEN Asking(3)
             ELSE [pc |-> "sleep"]
  /\ UNCHANGED <<announced, up, siren, testing, card, age>>

(* Three times, but once the third; then the next, or none.                *)
Unanswered ==
  /\ poll.pc = "ask" /\ poll.tier \notin up
  /\ poll' = IF poll.tier # 3 /\ poll.attempt < Attempts
             THEN [poll EXCEPT !.attempt = @ + 1]
             ELSE IF poll.tier = 1 THEN Asking(2)
             ELSE IF poll.tier = 2 /\ 3 \in Tokens THEN Asking(3)
             ELSE [pc |-> "sleep"]
  /\ UNCHANGED <<announced, up, siren, testing, card, age>>

(* A region in test mode keeps its siren, whatever the answer.             *)
TakesPoll(r) == r \notin Occupied \cup testing

(* Where a siren ends, all threats of the region end with it.              *)
Apply ==
  /\ poll.pc = "apply"
  /\ siren' = [r \in PollRegion |-> IF TakesPoll(r) THEN poll.sirens[r] ELSE siren[r]]
  /\ poll' = [poll EXCEPT !.pc = "prune"]
  /\ LET ended == {r \in PollRegion : siren[r] # Off /\ siren'[r] = Off}
     IN  IF card # NoThreat /\ card.region \in ended
           THEN card' = NoThreat /\ age' = 0
           ELSE UNCHANGED <<card, age>>
  /\ UNCHANGED <<announced, up, testing>>

(* In a thread, with the answer of this poll.                              *)
Prune ==
  /\ poll.pc = "prune"
  /\ poll' = [pc |-> "sleep"]
  /\ IF card # NoThreat /\ ShouldExpire(card, poll.sirens[card.region] # Off, age)
     THEN card' = NoThreat /\ age' = 0
     ELSE UNCHANGED <<card, age>>
  /\ UNCHANGED <<announced, up, siren, testing>>

(***************************************************************************)
(* The world.                                                              *)
(***************************************************************************)
Announce ==
  /\ \E r \in PollRegion : \E n \in Notices \ {announced[r]} :
       announced' = [announced EXCEPT ![r] = n]
  /\ UNCHANGED <<up, siren, testing, poll, card, age>>

Outage ==
  /\ \E tier \in Tier :
       up' = IF tier \in up THEN up \ {tier} ELSE up \cup {tier}
  /\ UNCHANGED <<announced, siren, testing, poll, card, age>>

(* A report that is no test ends the test mode.                            *)
ReportThreat(c) ==
  /\ card = NoThreat /\ card' = c /\ age' = 0
  /\ testing' = testing \ {c.region}
  /\ UNCHANGED <<announced, up, siren, poll>>

(* Cards of tests are left out.  A test that is cleared takes the siren    *)
(* along, if no other card is left.                                        *)
Test(r) ==
  /\ r \notin Occupied \cup testing
  /\ testing' = testing \cup {r}
  /\ UNCHANGED <<announced, up, siren, poll, card, age>>

TestCleared(r) ==
  /\ r \in testing
  /\ testing' = testing \ {r}
  /\ siren' = [siren EXCEPT ![r] = IF card.region = r THEN @ ELSE Off]
  /\ UNCHANGED <<announced, up, poll, card, age>>

Ages ==
  /\ card # NoThreat /\ age < MaxAge
  /\ age' = age + AgeStep
  /\ UNCHANGED <<announced, up, siren, testing, poll, card>>

Polls == Wake \/ Answered \/ Unanswered \/ Apply \/ Prune

PollNext ==
  \/ Polls \/ Announce \/ Outage \/ Ages
  \/ \E c \in Card : ReportThreat(c)
  \/ \E r \in PollRegion : Test(r) \/ TestCleared(r)

PollFairness == WF_pollVars(Polls) /\ WF_pollVars(Ages)
PollSpec == PollInit /\ [][PollNext]_pollVars /\ PollFairness

PollTypeOK ==
  /\ announced \in [PollRegion -> Notices] /\ up \subseteq Tier
  /\ siren \in [PollRegion -> DOMAIN Gravity \cup {Off}] /\ testing \subseteq PollRegion
  /\ poll.pc \in {"sleep", "ask", "apply", "prune"}
  /\ poll.pc = "ask" => poll.tier \in {2} \cup Tokens /\ poll.attempt \in 1..Attempts
  /\ poll.pc \in {"apply", "prune"} =>
       poll.sirens \in [PollRegion -> DOMAIN Gravity \cup {Off}]
  /\ card \in Card \cup {NoThreat} /\ age \in 0..(MaxAge + AgeStep)

(* The service a loop hears once it is asked in turn.                      *)
Heard(tier) ==
  /\ tier \in up /\ tier \in {2} \cup Tokens
  /\ \A better \in {2} \cup Tokens : better < tier => better \notin up

(* Whatever is announced and stays so is what the sirens show in the end,  *)
(* as far as the first service that answers tells it: a siren neither      *)
(* stays on from an answer of another service nor is missed, though any    *)
(* request may fail (server.py:48-244).  Not where a test goes on: there   *)
(* the siren is deaf to the polls (threat_manager.py:560), until the test  *)
(* is cleared or a report that is no test comes.                           *)
SirensFollowSource ==
  \A tier \in Tier, r \in PollRegion \ Occupied, n \in Notices :
    LET told == IF tier = 1 THEN n # {} ELSE \E m \in n : m.whole IN
    <>[](Heard(tier) /\ announced[r] = n /\ r \notin testing) => <>[]((siren[r] # Off) = told)

(* A threat whose time of report can be read does not stay for ever, with  *)
(* a siren or without: rule 2, which `prevents eternal hanging'            *)
(* (missile_lifecycle_service.py:197).  It takes a service that answers:   *)
(* threats end only after a successful poll.                               *)
ThreatsEnd ==
  (\E tier \in Tier : <>[]Heard(tier)) => []<>(card = NoThreat \/ ~card.dated)
===============================================================================
