---------------------------- MODULE ThreatManager ----------------------------
(***************************************************************************)
(* The state MockThreatManager keeps of every region                       *)
(* (core/threats/threat_manager.py, core/threats/threat_state_model.py):   *)
(* the cards of the tactical threats, the official siren, the test flag,   *)
(* and real_threats_backup.  Reports come from the Telegram monitor, the   *)
(* test scenarios and the mock API; the siren from the alarm poller.       *)
(*                                                                         *)
(* Abstractions: a call is one step; what other threads may do between its *)
(* parts is the subject of FCMScheduler.  A card is its group id, its type *)
(* and its test flag.  The order of a region's cards is left out: where    *)
(* the code takes the first or the last of several, any of them is taken.  *)
(* Two cards of the same family may or may not be found to be the same     *)
(* group by text, targets, wave and time, so either outcome is allowed.    *)
(***************************************************************************)
EXTENDS FiniteSets

CONSTANTS Region,
          Occupied,     \* PERMANENTLY_OCCUPIED_REGIONS: always under alarm
          Slot,         \* places for the cards of one region, a bound
          Gid, NoGid,   \* group ids as written in reports
          Norm,         \* Gid -> Gid, normalize_group_id
          Type, NoType, \* threat types
          OfficialAlarm,\* the type "official_alarm"
          Family,       \* type -> its tactical family
          NoCard, NoBackup,
          TestTraffic   \* what `testing' may be: a subset of BOOLEAN

Card == [gid : Gid \cup {NoGid}, type : Type \cup {NoType}, test : BOOLEAN]

ASSUME OccupiedAssumption == Occupied \subseteq Region
ASSUME NoGidAssumption == NoGid \notin Gid
ASSUME NoTypeAssumption == NoType \notin Type
ASSUME NormAssumption == Norm \in [Gid -> Gid]
ASSUME NoCardAssumption == NoCard \notin Card
ASSUME TestTrafficAssumption == TestTraffic \subseteq BOOLEAN

VARIABLES cards,     \* region -> slot -> ThreatState.active_threats
          official,  \* region -> ThreatState.is_active
          testMode,  \* region -> ThreatState.is_test
          backup,    \* region -> its entry of real_threats_backup
          cause,     \* region -> a poll or a real report has turned the siren on,
                     \*   and no poll has turned it off since
          confirmed, \* region -> slots of cards that a real report has named
          testing    \* whether the test endpoints are in use

vars == <<cards, official, testMode, backup, cause, confirmed, testing>>

Cards == [Slot -> Card \cup {NoCard}]
Entry == [cards : Cards, active : BOOLEAN]
ASSUME NoBackupAssumption == NoBackup \notin Entry

NoCards == [s \in Slot |-> NoCard]

(* Fault: to_dict() without the siren.                                     *)
DictWithoutAlarm(cs, alarm) == [cards |-> cs]

(* to_dict(), as far as it is kept here.                                   *)
Dict(cs, alarm) == [cards |-> cs, active |-> alarm]

TypeOK ==
  /\ cards \in [Region -> Cards]
  /\ official \in [Region -> BOOLEAN]
  /\ testMode \in [Region -> BOOLEAN]
  /\ backup \in [Region -> Entry \cup {NoBackup}]
  /\ cause \in [Region -> BOOLEAN]
  /\ confirmed \in [Region -> SUBSET Slot]
  /\ testing \in BOOLEAN

(* A first start: nothing is stored, or an older backup names some regions. *)
Init ==
  /\ cards = [r \in Region |-> NoCards]
  /\ official = [r \in Region |-> r \in Occupied]
  /\ testMode = [r \in Region |-> FALSE]
  /\ backup \in [Region -> {Dict(NoCards, FALSE), NoBackup}]
  /\ cause = [r \in Region |-> r \in Occupied]
  /\ confirmed = [r \in Region |-> {}]
  /\ testing \in TestTraffic

-----------------------------------------------------------------------------
(* Looking cards up.                                                       *)

Filled(r) == {s \in Slot : cards[r][s] # NoCard}

(* Fault: group ids are compared as they are written.                      *)
SameSpelling(g, h) == g \in Gid /\ g = h

(* Two reports name the same group: their normalized ids are equal.        *)
SameGroup(g, h) == g \in Gid /\ h \in Gid /\ Norm[g] = Norm[h]

Group(r, g) == {s \in Filled(r) : SameGroup(cards[r][s].gid, g)}

OfType(r, ty) == {s \in Filled(r) : ty # NoType /\ cards[r][s].type = ty}

(* _is_same_or_duplicate_threat: only cards of the same family can match.  *)
Similar(r, ty) ==
  {s \in Filled(r) : /\ ty # NoType
                     /\ cards[r][s].type # NoType
                     /\ Family[cards[r][s].type] = Family[ty]}

TestCards(r) == {s \in Filled(r) : cards[r][s].test}

Only(r, slots) == [s \in Slot |-> IF s \in slots THEN cards[r][s] ELSE NoCard]

-----------------------------------------------------------------------------
(* set_threat with a level other than "none".                              *)

(* The backup entry is the state before the report; a test report makes    *)
(* one only of a region with threats and without the test flag.            *)
BackUpBefore(r, test) ==
  backup' = IF test => (~testMode[r] /\ Filled(r) # {})
              THEN [backup EXCEPT ![r] = Dict(cards[r], official[r])]
              ELSE backup

(* The report updates a card: its group, type and test flag stay.          *)
UpdateCard(r, s, test) ==
  /\ cards' = cards
  /\ confirmed' = [confirmed EXCEPT ![r] = IF test THEN @ ELSE @ \cup {s}]

AddCard(r, s, g, ty, test) ==
  /\ cards' = [cards EXCEPT ![r][s] = [gid |-> g, type |-> ty, test |-> test]]
  /\ confirmed' = [confirmed EXCEPT ![r] = IF test THEN @ \ {s} ELSE @ \cup {s}]

SetThreat(r, g, ty, test) ==
  /\ r \notin Occupied
  /\ test => testing
  /\ BackUpBefore(r, test)
  /\ testMode' = [testMode EXCEPT ![r] = test]
  /\ official' = IF ty = OfficialAlarm THEN [official EXCEPT ![r] = TRUE] ELSE official
  /\ cause' = IF ty = OfficialAlarm /\ ~test
                THEN [cause EXCEPT ![r] = TRUE] ELSE cause
  /\ \/ \E s \in Group(r, g) : UpdateCard(r, s, test)
     \/ /\ Group(r, g) = {}
        /\ \/ \E s \in Similar(r, ty) : UpdateCard(r, s, test)
           \/ \E s \in Slot \ Filled(r) : AddCard(r, s, g, ty, test)

(* set_threat with level "none", which only the mock API passes on: the    *)
(* cards of one type go, or without a type the whole state of the region.  *)
Lower(r, ty) ==
  /\ r \notin Occupied
  /\ testing
  /\ BackUpBefore(r, TRUE)
  /\ LET kept == IF ty = NoType THEN {} ELSE Filled(r) \ OfType(r, ty)
     IN  /\ cards' = [cards EXCEPT ![r] = Only(r, kept)]
         /\ confirmed' = [confirmed EXCEPT ![r] = @ \cap kept]
  /\ official' = IF ty \in {NoType, OfficialAlarm}
                   THEN [official EXCEPT ![r] = FALSE] ELSE official
  /\ testMode' = IF ty = NoType THEN [testMode EXCEPT ![r] = FALSE] ELSE testMode
  /\ UNCHANGED cause

-----------------------------------------------------------------------------
(* clear_threat and clear_all.                                             *)

(* What a clearing of group g and type ty removes: the first card of the   *)
(* group; or else the cards of the type; or else every card.               *)
Cleared(r, g, ty) ==
  IF Group(r, g) # {} THEN {{s} : s \in Group(r, g)}
  ELSE IF OfType(r, ty) # {} THEN {OfType(r, ty)}
  ELSE {Filled(r)}

(* The backup follows the state unless removed_threat is a test card.      *)
ClearThreat(r, g, ty) ==
  /\ r \notin Occupied
  /\ \E gone \in Cleared(r, g, ty) : \E removed \in gone :
       LET kept == Filled(r) \ gone
       IN  /\ cards' = [cards EXCEPT ![r] = Only(r, kept)]
           /\ confirmed' = [confirmed EXCEPT ![r] = @ \cap kept]
           /\ backup' = IF cards[r][removed].test THEN backup
                        ELSE [backup EXCEPT ![r] = Dict(Only(r, kept), official[r])]
  /\ UNCHANGED <<official, testMode, cause>>

(* Fault: clear_all does not update the backup.                            *)
ClearAllKeepsBackup ==
  /\ cards' = [r \in Region |-> NoCards]
  /\ official' = [r \in Region |-> official[r] /\ Filled(r) = {}]
  /\ testMode' = [r \in Region |-> testMode[r] /\ Filled(r) = {}]
  /\ confirmed' = [r \in Region |-> {}]
  /\ UNCHANGED <<backup, cause>>

(* clear_all: every region with a threat is wiped, its siren included.     *)
ClearAll ==
  /\ cards' = [r \in Region |-> NoCards]
  /\ official' = [r \in Region |-> official[r] /\ Filled(r) = {}]
  /\ testMode' = [r \in Region |-> testMode[r] /\ Filled(r) = {}]
  /\ backup' = [r \in Region |-> IF Filled(r) # {} /\ ~testMode[r]
                                   THEN Dict(NoCards, FALSE) ELSE backup[r]]
  /\ confirmed' = [r \in Region |-> {}]
  /\ UNCHANGED cause

(* clear_all(only_test=True): the test cards go, and where no card is left *)
(* of a region that had one or the test flag, the whole state is wiped.    *)
ClearAllTest ==
  /\ testing
  /\ LET Kept(r) == Filled(r) \ TestCards(r)
     IN  /\ cards' = [r \in Region |-> Only(r, Kept(r))]
         /\ confirmed' = [r \in Region |-> confirmed[r] \cap Kept(r)]
         /\ official' = [r \in Region |->
                           /\ official[r]
                           /\ (TestCards(r) # {} \/ testMode[r]) => Kept(r) # {}]
  /\ testMode' = [r \in Region |-> FALSE]
  /\ UNCHANGED <<backup, cause>>

-----------------------------------------------------------------------------
(* set_alarm_active, called for every region after each successful poll.   *)

(* Fault: an entry that is already there keeps its siren.                  *)
WithAlarmStale(r, on) ==
  IF backup[r] = NoBackup THEN Dict(NoCards, on) ELSE backup[r]

(* The backup entry with its siren set; a missing entry is made without    *)
(* any card.                                                               *)
WithAlarm(r, on) ==
  IF backup[r] = NoBackup THEN Dict(NoCards, on) ELSE [backup[r] EXCEPT !.active = on]

(* The state of a region with the test flag does not follow the poll.      *)
SetAlarm(r, on) ==
  /\ r \notin Occupied
  /\ on \/ testMode[r] \/ ~official[r]
  /\ cause' = [cause EXCEPT ![r] = on]
  /\ backup' = [backup EXCEPT ![r] = WithAlarm(r, on)]
  /\ official' = IF testMode[r] THEN official ELSE [official EXCEPT ![r] = on]
  /\ UNCHANGED <<cards, testMode, confirmed>>

(* The siren is over: the cards are cleared one by one with clear_threat.  *)
(* The backup follows up to the last one that removed no test card.        *)
EndBackup(r) ==
  IF Filled(r) = {} THEN {WithAlarm(r, FALSE)}
  ELSE IF TestCards(r) = {} THEN {Dict(NoCards, FALSE)}
  ELSE {WithAlarm(r, FALSE)} \cup {Dict(Only(r, k), FALSE) : k \in SUBSET Filled(r)}

EndAlarm(r) ==
  /\ r \notin Occupied
  /\ ~testMode[r]
  /\ official[r]
  /\ cause' = [cause EXCEPT ![r] = FALSE]
  /\ official' = [official EXCEPT ![r] = FALSE]
  /\ cards' = [cards EXCEPT ![r] = NoCards]
  /\ confirmed' = [confirmed EXCEPT ![r] = {}]
  /\ \E b \in EndBackup(r) : backup' = [backup EXCEPT ![r] = b]
  /\ UNCHANGED testMode

-----------------------------------------------------------------------------
Call ==
  \/ ClearAllTest
  \/ ClearAll
  \/ \E r \in Region :
       \/ \E g \in Gid \cup {NoGid}, ty \in Type \cup {NoType} :
            \/ \E test \in BOOLEAN : SetThreat(r, g, ty, test)
            \/ ClearThreat(r, g, ty)
       \/ \E ty \in Type \cup {NoType} : Lower(r, ty)
       \/ \E on \in BOOLEAN : SetAlarm(r, on)
       \/ EndAlarm(r)

Next == Call /\ UNCHANGED testing

Spec == Init /\ [][Next]_vars

-----------------------------------------------------------------------------
(* Properties.                                                             *)

(* However a group id is spelled, a region has at most one card of the     *)
(* group, so that the first match of a report or of a clearing is the only *)
(* one.  All traffic.                                                      *)
UniqueGroups ==
  \A r \in Region : \A s, t \in Filled(r) :
    LET g == cards[r][s].gid
        h == cards[r][t].gid
    IN  {g, h} \subseteq Gid /\ Norm[g] = Norm[h] => s = t

(* The backup has no card that is not there, and misses at most one.       *)
BackupBehindByOne ==
  \A r \in Region :
    IF backup[r] = NoBackup THEN Filled(r) = {}
    ELSE /\ \A s \in Slot : backup[r].cards[s] \in {NoCard, cards[r][s]}
         /\ \A s, t \in Filled(r) :
              backup[r].cards[s] = NoCard /\ backup[r].cards[t] = NoCard => s = t

(* Without test traffic, real_threats_backup is at most one report behind  *)
(* the state, although set_threat stores it as it was before the report.   *)
BackupLagsByOne == ~testing => BackupBehindByOne

(* A siren, in the state and in the backup, has a poll or report behind it. *)
SirenCaused ==
  \A r \in Region :
    official[r] \/ (backup[r] # NoBackup /\ backup[r].active) => cause[r]

(* threat_state_model.py:273.  A region's siren, in the state and in the   *)
(* backup, is on only if a poll or report has turned it on and no poll     *)
(* has turned it off since.  Without test traffic.                         *)
SirenHasCause == ~testing => SirenCaused

(* threat_state_model.py:273: "Повертає True ТІЛЬКИ якщо активна офіційна  *)
(* тривога".  A region without test cards has no siren of the past.  The   *)
(* code does not keep it once a test report has joined a real card.        *)
SirenTruthful ==
  \A r \in Region : TestCards(r) = {} => (official[r] => cause[r])
=============================================================================
