------------------------- MODULE ThreatManagerProofs -------------------------
(***************************************************************************)
(* What holds of ThreatManager for every set of regions, groups, types and *)
(* cards: its type invariant and UniqueGroups under all traffic, and       *)
(* BackupLagsByOne and SirenHasCause without test traffic.  Then of        *)
(* MonitorTimers: that whatever the timers of the monitor do is a call of  *)
(* ThreatManager, and that no verdict comes late.                          *)
(***************************************************************************)
EXTENDS MonitorTimers, TLAPS

LEMMA OnlyType ==
  ASSUME TypeOK, NEW r \in Region, NEW slots
  PROVE  Only(r, slots) \in Cards
BY DEF TypeOK, Only, Cards

LEMMA NoCardsType == NoCards \in Cards
BY DEF NoCards, Cards

LEMMA NoCardsAt == \A s \in Slot : NoCards[s] = NoCard
BY DEF NoCards

LEMMA DictType ==
  ASSUME NEW cs \in Cards, NEW b \in BOOLEAN
  PROVE  Dict(cs, b) \in Entry
BY DEF Dict, Entry

LEMMA WithAlarmType ==
  ASSUME TypeOK, NEW r \in Region, NEW b \in BOOLEAN
  PROVE  WithAlarm(r, b) \in Entry
BY NoCardsType, DictType DEF TypeOK, WithAlarm, Entry

LEMMA TypeInit == Init => TypeOK
<1> SUFFICES ASSUME Init
             PROVE  TypeOK
  OBVIOUS
<1>1. Dict(NoCards, FALSE) \in Entry
  BY NoCardsType, DictType
<1>2. /\ official \in [Region -> BOOLEAN]
      /\ cause \in [Region -> BOOLEAN]
  <2>1. \A r \in Region : (r \in Occupied) \in BOOLEAN
    OBVIOUS
  <2> QED
    BY <2>1, Zenon DEF Init
<1>3. backup \in [Region -> Entry \cup {NoBackup}]
  BY <1>1 DEF Init
<1> QED
  BY <1>2, <1>3, NoCardsType, TestTrafficAssumption DEF Init, TypeOK

LEMMA TypeNext == TypeOK /\ [Next]_vars => TypeOK'
<1> SUFFICES ASSUME TypeOK, [Next]_vars
             PROVE  TypeOK'
  OBVIOUS
<1> USE DEF TypeOK
<1>0. testing' \in BOOLEAN
  BY DEF Next, vars
<1> USE <1>0
<1>1. ASSUME NEW r \in Region, NEW g \in Gid \cup {NoGid},
             NEW ty \in Type \cup {NoType}, NEW test \in BOOLEAN,
             SetThreat(r, g, ty, test)
      PROVE  TypeOK'
  <2>1. backup' \in [Region -> Entry \cup {NoBackup}]
    BY <1>1, DictType DEF SetThreat, BackUpBefore
  <2>2. cards' \in [Region -> Cards] /\ confirmed' \in [Region -> SUBSET Slot]
    <3>1. ASSUME NEW s \in Slot, UpdateCard(r, s, test)
          PROVE  cards' \in [Region -> Cards] /\ confirmed' \in [Region -> SUBSET Slot]
      BY <3>1 DEF UpdateCard
    <3>2. ASSUME NEW s \in Slot, AddCard(r, s, g, ty, test)
          PROVE  cards' \in [Region -> Cards] /\ confirmed' \in [Region -> SUBSET Slot]
      BY <3>2 DEF AddCard, Cards, Card
    <3> QED
      BY <1>1, <3>1, <3>2 DEF SetThreat, Group, Similar, Filled
  <2>3. /\ official' \in [Region -> BOOLEAN]
        /\ testMode' \in [Region -> BOOLEAN]
        /\ cause' \in [Region -> BOOLEAN]
    BY <1>1 DEF SetThreat
  <2> QED
    BY <2>1, <2>2, <2>3
<1>2. ASSUME NEW r \in Region, NEW ty \in Type \cup {NoType}, Lower(r, ty)
      PROVE  TypeOK'
  <2>1. backup' \in [Region -> Entry \cup {NoBackup}]
    BY <1>2, DictType DEF Lower, BackUpBefore
  <2>2. cards' \in [Region -> Cards] /\ confirmed' \in [Region -> SUBSET Slot]
    BY <1>2, OnlyType DEF Lower
  <2>3. /\ official' \in [Region -> BOOLEAN]
        /\ testMode' \in [Region -> BOOLEAN]
        /\ cause' \in [Region -> BOOLEAN]
    BY <1>2 DEF Lower
  <2> QED
    BY <2>1, <2>2, <2>3
<1>3. ASSUME NEW r \in Region, NEW g \in Gid \cup {NoGid},
             NEW ty \in Type \cup {NoType}, ClearThreat(r, g, ty)
      PROVE  TypeOK'
  <2>1. PICK kept : /\ cards' = [cards EXCEPT ![r] = Only(r, kept)]
                    /\ confirmed' = [confirmed EXCEPT ![r] = @ \cap kept]
                    /\ \/ backup' = backup
                       \/ backup' = [backup EXCEPT ![r] = Dict(Only(r, kept), official[r])]
    BY <1>3 DEF ClearThreat
  <2>2. Only(r, kept) \in Cards
    BY OnlyType
  <2>3. Dict(Only(r, kept), official[r]) \in Entry
    BY <2>2, DictType
  <2> QED
    BY <1>3, <2>1, <2>2, <2>3 DEF ClearThreat
<1>4. CASE ClearAll
  <2>1. Dict(NoCards, FALSE) \in Entry
    BY NoCardsType, DictType
  <2> QED
    BY <1>4, <2>1, NoCardsType DEF ClearAll
<1>5. CASE ClearAllTest
  <2>1. cards' \in [Region -> Cards]
    BY <1>5, OnlyType DEF ClearAllTest
  <2>2. confirmed' \in [Region -> SUBSET Slot]
    BY <1>5 DEF ClearAllTest
  <2>3. official' \in [Region -> BOOLEAN]
    BY <1>5, Zenon DEF ClearAllTest
  <2> QED
    BY <1>5, <2>1, <2>2, <2>3 DEF ClearAllTest
<1>6. ASSUME NEW r \in Region, NEW on \in BOOLEAN, SetAlarm(r, on)
      PROVE  TypeOK'
  BY <1>6, WithAlarmType DEF SetAlarm
<1>7. ASSUME NEW r \in Region, EndAlarm(r)
      PROVE  TypeOK'
  <2>1. EndBackup(r) \subseteq Entry
    BY OnlyType, NoCardsType, DictType, WithAlarmType DEF EndBackup
  <2> QED
    BY <1>7, <2>1, NoCardsType DEF EndAlarm
<1>8. CASE UNCHANGED vars
  BY <1>8 DEF vars
<1> HIDE DEF TypeOK
<1> QED
  BY <1>1, <1>2, <1>3, <1>4, <1>5, <1>6, <1>7, <1>8 DEF Next, Call

(* Every reachable state is well typed.                                    *)
THEOREM TypeCorrect == Spec => []TypeOK
BY TypeInit, TypeNext, PTL DEF Spec

-----------------------------------------------------------------------------
(* UniqueGroups.  A step keeps it when each card it leaves was there       *)
(* before, or is a new one whose group the region did not have.            *)

(* UniqueGroups says nothing of a region's empty slots.                    *)
LEMMA UniqueFewer ==
  ASSUME TypeOK, UniqueGroups,
         \A r \in Region, s \in Slot : cards'[r][s] \in {NoCard, cards[r][s]}
  PROVE  UniqueGroups'
BY DEF UniqueGroups, Filled

LEMMA UniqueInit == Init => UniqueGroups
BY DEF Init, UniqueGroups, Filled, Group, NoCards

LEMMA UniqueNext == TypeOK /\ UniqueGroups /\ [Next]_vars => UniqueGroups'
<1> SUFFICES ASSUME TypeOK, UniqueGroups, [Next]_vars
             PROVE  UniqueGroups'
  OBVIOUS
<1>1. ASSUME NEW r \in Region, NEW g \in Gid \cup {NoGid},
             NEW ty \in Type \cup {NoType}, NEW test \in BOOLEAN,
             SetThreat(r, g, ty, test)
      PROVE  UniqueGroups'
  <2>1. CASE cards' = cards
    BY <2>1, UniqueFewer
  <2>2. ASSUME NEW n \in Slot \ Filled(r), Group(r, g) = {},
               AddCard(r, n, g, ty, test)
        PROVE  UniqueGroups'
    <3> DEFINE new == [gid |-> g, type |-> ty, test |-> test]
    <3>1. cards' = [cards EXCEPT ![r][n] = new]
      BY <2>2 DEF AddCard
    <3>2. cards'[r][n] = new
      BY <3>1 DEF TypeOK, Cards
    <3>3. \A q \in Region, s \in Slot : ~(q = r /\ s = n) => cards'[q][s] = cards[q][s]
      BY <3>1 DEF TypeOK, Cards
    <3>4. \A s \in Filled(r) : ~SameGroup(cards[r][s].gid, g)
      BY <2>2 DEF Group
    <3> SUFFICES ASSUME NEW q \in Region, NEW s \in Slot, NEW t \in Slot,
                        cards'[q][s] # NoCard, cards'[q][t] # NoCard,
                        SameGroup(cards'[q][t].gid, cards'[q][s].gid)
                 PROVE  s = t
      BY DEF UniqueGroups, Filled, SameGroup
    <3>5. CASE q = r /\ s = n /\ t # n
      BY <3>2, <3>3, <3>4, <3>5 DEF Filled
    <3>6. CASE q = r /\ t = n /\ s # n
      <4>1. SameGroup(cards[r][s].gid, g)
        BY <3>2, <3>3, <3>6 DEF SameGroup
      <4> QED
        BY <3>3, <3>4, <3>6, <4>1 DEF Filled
    <3>7. CASE ~(q = r /\ s = n) /\ ~(q = r /\ t = n)
      BY <3>3, <3>7 DEF UniqueGroups, Filled, SameGroup
    <3> QED
      BY <3>5, <3>6, <3>7
  <2> QED
    BY <1>1, <2>1, <2>2 DEF SetThreat, UpdateCard
<1>2. ASSUME NEW r \in Region, NEW ty \in Type \cup {NoType}, Lower(r, ty)
      PROVE  UniqueGroups'
  BY <1>2, UniqueFewer DEF Lower, Only, TypeOK, Cards
<1>3. ASSUME NEW r \in Region, NEW g \in Gid \cup {NoGid},
             NEW ty \in Type \cup {NoType}, ClearThreat(r, g, ty)
      PROVE  UniqueGroups'
  <2>1. PICK kept : cards' = [cards EXCEPT ![r] = Only(r, kept)]
    BY <1>3 DEF ClearThreat
  <2> QED
    BY <2>1, UniqueFewer DEF Only, TypeOK, Cards
<1>4. CASE ClearAll
  BY <1>4, UniqueFewer DEF ClearAll, NoCards
<1>5. CASE ClearAllTest
  BY <1>5, UniqueFewer DEF ClearAllTest, Only
<1>6. ASSUME NEW r \in Region, EndAlarm(r)
      PROVE  UniqueGroups'
  BY <1>6, UniqueFewer DEF EndAlarm, NoCards, TypeOK
<1>7. CASE cards' = cards
  BY <1>7, UniqueFewer
<1> QED
  BY <1>1, <1>2, <1>3, <1>4, <1>5, <1>6, <1>7 DEF Next, Call, SetAlarm, vars

(* For any regions, group ids and spellings of them, and under test        *)
(* traffic too, a region never has two cards of one group.                 *)
THEOREM UniqueCorrect == Spec => []UniqueGroups
<1>1. TypeOK /\ UniqueGroups /\ [Next]_vars => TypeOK' /\ UniqueGroups'
  BY TypeNext, UniqueNext
<1> QED
  BY <1>1, TypeInit, UniqueInit, PTL DEF Spec

-----------------------------------------------------------------------------
(* Production: no test traffic.                                            *)

(* No region carries the test flag and no card is a test card, so that     *)
(* every call takes the branch for real threats.                           *)
NoTests ==
  \A r \in Region :
    /\ ~testMode[r]
    /\ \A s \in Filled(r) : ~cards[r][s].test

ProdInv == TypeOK /\ NoTests /\ SirenCaused /\ BackupBehindByOne

LEMMA DictFields ==
  ASSUME NEW cs, NEW b
  PROVE  Dict(cs, b).cards = cs /\ Dict(cs, b).active = b
BY DEF Dict

LEMMA DictIsEntry ==
  ASSUME NEW cs \in Cards, NEW b \in BOOLEAN
  PROVE  Dict(cs, b) # NoBackup
BY DictType, NoBackupAssumption

LEMMA WithAlarmFields ==
  ASSUME TypeOK, NEW r \in Region, NEW b \in BOOLEAN
  PROVE  /\ WithAlarm(r, b).active = b
         /\ WithAlarm(r, b).cards =
              IF backup[r] = NoBackup THEN NoCards ELSE backup[r].cards
BY DEF TypeOK, WithAlarm, Dict, Entry

LEMMA ProdInit == Init => ProdInv
<1> SUFFICES ASSUME Init
             PROVE  ProdInv
  OBVIOUS
<1>1. TypeOK
  BY TypeInit
<1>2. NoTests
  BY DEF Init, NoTests, Filled, NoCards
<1>3. \A r \in Region : Filled(r) = {} /\ cards[r] = NoCards
  BY DEF Init, Filled, NoCards
<1>4. \A r \in Region : backup[r] # NoBackup =>
        backup[r].cards = NoCards /\ backup[r].active = FALSE
  BY DEF Init, Dict
<1>5. SirenCaused
  BY <1>4 DEF Init, SirenCaused
<1>6. BackupBehindByOne
  <2>1. ASSUME NEW r \in Region, backup[r] # NoBackup
        PROVE  \A s \in Slot : backup[r].cards[s] = NoCard
    BY <1>4, <2>1, NoCardsAt
  <2> QED
    BY <1>3, <2>1 DEF BackupBehindByOne
<1> QED
  BY <1>1, <1>2, <1>5, <1>6 DEF ProdInv

(* A report adds at most one card, and the backup becomes the state before *)
(* it.                                                                     *)
LEMMA ProdSetThreat ==
  ASSUME ~testing, ProdInv, TypeOK',
         NEW r \in Region, NEW g \in Gid \cup {NoGid},
         NEW ty \in Type \cup {NoType}, NEW test \in BOOLEAN,
         SetThreat(r, g, ty, test)
  PROVE  NoTests' /\ SirenCaused' /\ BackupBehindByOne'
<1> USE DEF ProdInv
<1>1. /\ test = FALSE
      /\ testMode' = [testMode EXCEPT ![r] = FALSE]
      /\ backup' = [backup EXCEPT ![r] = Dict(cards[r], official[r])]
  BY DEF SetThreat, BackUpBefore
<1>2. \/ cards' = cards
      \/ \E n \in Slot : /\ cards[r][n] = NoCard
                         /\ cards' = [cards EXCEPT ![r][n] =
                                        [gid |-> g, type |-> ty, test |-> FALSE]]
  BY <1>1 DEF SetThreat, UpdateCard, AddCard, Filled
<1>3. PICK n : /\ \A q \in Region, s \in Slot :
                    ~(q = r /\ s = n) => cards'[q][s] = cards[q][s]
               /\ \A s \in Slot :
                    s = n => \/ cards'[r][s] = cards[r][s]
                             \/ cards[r][s] = NoCard /\ ~cards'[r][s].test
  <2>1. CASE cards' = cards
    BY <2>1
  <2>2. CASE \E n \in Slot : /\ cards[r][n] = NoCard
                            /\ cards' = [cards EXCEPT ![r][n] =
                                           [gid |-> g, type |-> ty, test |-> FALSE]]
    BY <2>2 DEF TypeOK, Cards
  <2> QED
    BY <1>2, <2>1, <2>2
<1>4. NoTests'
  BY <1>1, <1>3 DEF NoTests, Filled, TypeOK
<1>5. SirenCaused'
  BY <1>1, DictFields DEF SetThreat, SirenCaused, TypeOK
<1>6. BackupBehindByOne'
  <2> SUFFICES ASSUME NEW q \in Region
               PROVE  IF backup'[q] = NoBackup THEN Filled(q)' = {}
                      ELSE /\ \A s \in Slot : backup'[q].cards[s] \in {NoCard, cards'[q][s]}
                           /\ \A s, t \in Filled(q)' :
                                backup'[q].cards[s] = NoCard /\ backup'[q].cards[t] = NoCard
                                  => s = t
    BY DEF BackupBehindByOne
  <2>1. CASE q # r
    BY <1>1, <1>3, <2>1 DEF BackupBehindByOne, Filled, TypeOK
  <2>2. CASE q = r
    <3>1. backup'[q].cards = cards[r]
      BY <1>1, <2>2, DictFields DEF TypeOK
    <3>2. backup'[q] # NoBackup
      BY <1>1, <2>2, DictIsEntry DEF TypeOK
    <3>3. \A s \in Slot : cards[r][s] \in {NoCard, cards'[r][s]}
      BY <1>3
    <3>4. \A s \in Slot : s # n => cards'[r][s] = cards[r][s]
      BY <1>3
    <3> QED
      BY <2>2, <3>1, <3>2, <3>3, <3>4 DEF Filled
  <2> QED
    BY <2>1, <2>2
<1> QED
  BY <1>4, <1>5, <1>6

(* A clearing, a sweep or the end of an alarm leaves the backup equal to   *)
(* the state.                                                              *)
LEMMA ProdClear ==
  ASSUME ProdInv, NEW r \in Region, NEW cs \in Cards, NEW b \in BOOLEAN,
         cards' = [cards EXCEPT ![r] = cs],
         \A s \in Slot : cs[s] \in {NoCard, cards[r][s]},
         testMode' = testMode,
         backup' = [backup EXCEPT ![r] = Dict(cs, b)],
         official' = [official EXCEPT ![r] = b],
         \A q \in Region : q # r => cause'[q] = cause[q],
         b => cause'[r]
  PROVE  NoTests' /\ SirenCaused' /\ BackupBehindByOne'
<1> USE DEF ProdInv
<1>1. NoTests'
  BY DEF NoTests, Filled, TypeOK
<1>2. SirenCaused'
  BY DictFields DEF SirenCaused, TypeOK
<1>3. BackupBehindByOne'
  <2>1. ASSUME NEW q \in Region, q # r
        PROVE  cards'[q] = cards[q] /\ backup'[q] = backup[q]
    BY <2>1 DEF TypeOK
  <2>2. cards'[r] = cs /\ backup'[r] = Dict(cs, b) /\ backup'[r].cards = cs
    BY DictFields DEF TypeOK
  <2>3. backup'[r] # NoBackup
    BY <2>2, DictIsEntry
  <2> QED
    BY <2>1, <2>2, <2>3 DEF BackupBehindByOne, Filled
<1> QED
  BY <1>1, <1>2, <1>3

LEMMA ProdClearAll ==
  ASSUME ProdInv, ClearAll
  PROVE  NoTests' /\ SirenCaused' /\ BackupBehindByOne'
<1> USE DEF ProdInv
<1>1. NoTests'
  BY DEF ClearAll, NoTests, Filled, NoCards
<1>2. \A q \in Region :
        \/ backup'[q] = Dict(NoCards, FALSE)
        \/ backup'[q] = backup[q] /\ Filled(q) = {}
  BY DEF ClearAll, NoTests
<1>3. SirenCaused'
  BY <1>2, DictFields DEF ClearAll, SirenCaused
<1>4. BackupBehindByOne'
  <2>1. ASSUME NEW q \in Region
        PROVE  Filled(q)' = {} /\ \A s \in Slot : cards'[q][s] = NoCard
    BY DEF ClearAll, Filled, NoCards
  <2>2. ASSUME NEW q \in Region, backup'[q] # NoBackup
        PROVE  \A s \in Slot : backup'[q].cards[s] = NoCard
    <3>1. CASE backup'[q] = Dict(NoCards, FALSE)
      BY <3>1, NoCardsAt DEF Dict
    <3>2. CASE backup'[q] = backup[q] /\ Filled(q) = {}
      BY <2>2, <3>2 DEF BackupBehindByOne, Filled
    <3> QED
      BY <1>2, <3>1, <3>2
  <2> QED
    BY <2>1, <2>2 DEF BackupBehindByOne
<1> QED
  BY <1>1, <1>3, <1>4

(* A poll that leaves the cards alone sets the siren of the backup too.    *)
LEMMA ProdSetAlarm ==
  ASSUME ProdInv, NEW r \in Region, NEW on \in BOOLEAN,
         cards' = cards, testMode' = testMode,
         cause' = [cause EXCEPT ![r] = on],
         official' = [official EXCEPT ![r] = on],
         backup' = [backup EXCEPT ![r] = WithAlarm(r, on)]
  PROVE  NoTests' /\ SirenCaused' /\ BackupBehindByOne'
<1> USE DEF ProdInv
<1>1. NoTests'
  BY DEF NoTests, Filled
<1>2. backup'[r] = WithAlarm(r, on) /\ \A q \in Region : q # r => backup'[q] = backup[q]
  BY DEF TypeOK
<1>3. SirenCaused'
  BY <1>2, WithAlarmFields DEF SirenCaused, TypeOK
<1>4. BackupBehindByOne'
  <2>1. backup'[r] # NoBackup
    BY <1>2, WithAlarmType, NoBackupAssumption
  <2>3. CASE backup[r] = NoBackup
    <3>1. \A s \in Slot : backup'[r].cards[s] = NoCard
      BY <1>2, <2>3, WithAlarmFields, NoCardsAt
    <3>2. Filled(r) = {}
      BY <2>3 DEF BackupBehindByOne
    <3> QED
      BY <1>2, <2>1, <3>1, <3>2 DEF BackupBehindByOne, Filled
  <2>4. CASE backup[r] # NoBackup
    <3>1. backup'[r].cards = backup[r].cards
      BY <1>2, <2>4, WithAlarmFields
    <3> QED
      BY <1>2, <2>1, <2>4, <3>1 DEF BackupBehindByOne, Filled
  <2> QED
    BY <2>3, <2>4
<1> QED
  BY <1>1, <1>3, <1>4

LEMMA ProdNext ==
  ASSUME ~testing, ProdInv, [Next]_vars
  PROVE  ProdInv'
<1>1. TypeOK'
  BY TypeNext DEF ProdInv
<1> SUFFICES NoTests' /\ SirenCaused' /\ BackupBehindByOne'
  BY <1>1 DEF ProdInv
<1>2. ASSUME NEW r \in Region, NEW g \in Gid \cup {NoGid},
             NEW ty \in Type \cup {NoType}, NEW test \in BOOLEAN,
             SetThreat(r, g, ty, test)
      PROVE  NoTests' /\ SirenCaused' /\ BackupBehindByOne'
  BY <1>1, <1>2, ProdSetThreat
<1>3. ASSUME NEW r \in Region, NEW g \in Gid \cup {NoGid},
             NEW ty \in Type \cup {NoType}, ClearThreat(r, g, ty)
      PROVE  NoTests' /\ SirenCaused' /\ BackupBehindByOne'
  <2>1. PICK gone \in Cleared(r, g, ty) : \E removed \in gone :
          /\ cards' = [cards EXCEPT ![r] = Only(r, Filled(r) \ gone)]
          /\ backup' = IF cards[r][removed].test THEN backup
                       ELSE [backup EXCEPT ![r] =
                               Dict(Only(r, Filled(r) \ gone), official[r])]
    BY <1>3 DEF ClearThreat
  <2>2. gone \subseteq Filled(r)
    BY <2>1 DEF Cleared, Group, OfType
  <2>3. \A s \in gone : ~cards[r][s].test
    BY <2>2 DEF ProdInv, NoTests
  <2> DEFINE cs == Only(r, Filled(r) \ gone)
  <2>4. cs \in Cards /\ \A s \in Slot : cs[s] \in {NoCard, cards[r][s]}
    BY OnlyType DEF ProdInv, Only
  <2>5. /\ cards' = [cards EXCEPT ![r] = cs]
        /\ backup' = [backup EXCEPT ![r] = Dict(cs, official[r])]
    BY <2>1, <2>3
  <2>6. /\ official' = [official EXCEPT ![r] = official[r]]
        /\ official[r] \in BOOLEAN
        /\ official[r] => cause'[r]
        /\ testMode' = testMode
        /\ cause' = cause
    BY <1>3 DEF ClearThreat, ProdInv, TypeOK, SirenCaused
  <2> HIDE DEF cs
  <2> QED
    BY <2>4, <2>5, <2>6, ProdClear
<1>4. CASE ClearAll
  BY <1>4, ProdClearAll
<1>5. ASSUME NEW r \in Region, NEW on \in BOOLEAN, SetAlarm(r, on)
      PROVE  NoTests' /\ SirenCaused' /\ BackupBehindByOne'
  BY <1>5, ProdSetAlarm DEF SetAlarm, ProdInv, NoTests
<1>6. ASSUME NEW r \in Region, EndAlarm(r)
      PROVE  NoTests' /\ SirenCaused' /\ BackupBehindByOne'
  <2>1. TestCards(r) = {}
    BY DEF ProdInv, NoTests, TestCards
  <2>2. /\ cards' = [cards EXCEPT ![r] = NoCards]
        /\ official' = [official EXCEPT ![r] = FALSE]
        /\ testMode' = testMode
        /\ \A q \in Region : q # r => cause'[q] = cause[q]
    BY <1>6 DEF EndAlarm, ProdInv, TypeOK
  <2>3. CASE Filled(r) # {}
    <3>1. backup' = [backup EXCEPT ![r] = Dict(NoCards, FALSE)]
      BY <1>6, <2>1, <2>3 DEF EndAlarm, EndBackup
    <3> QED
      BY <2>2, <3>1, NoCardsType, NoCardsAt, ProdClear
  <2>4. CASE Filled(r) = {}
    <3>1. cards' = cards
      BY <2>2, <2>4 DEF ProdInv, TypeOK, Cards, Filled, NoCards
    <3>2. backup' = [backup EXCEPT ![r] = WithAlarm(r, FALSE)]
      BY <1>6, <2>4 DEF EndAlarm, EndBackup
    <3> QED
      BY <1>6, <2>2, <3>1, <3>2, ProdSetAlarm DEF EndAlarm
  <2> QED
    BY <2>3, <2>4
<1>7. CASE UNCHANGED vars
  BY <1>7 DEF vars, ProdInv, NoTests, SirenCaused, BackupBehindByOne, Filled
<1>8. /\ ~ClearAllTest
      /\ \A r \in Region, ty \in Type \cup {NoType} : ~Lower(r, ty)
  BY DEF ClearAllTest, Lower
<1> QED
  BY <1>2, <1>3, <1>4, <1>5, <1>6, <1>7, <1>8 DEF Next, Call

(* What holds of every run: the type, and ProdInv without test traffic.    *)
RunInv == TypeOK /\ (~testing => ProdInv)

LEMMA RunInvariance == Spec => []RunInv
<1>1. Init => RunInv
  BY TypeInit, ProdInit DEF RunInv
<1>2. RunInv /\ [Next]_vars => RunInv'
  <2> SUFFICES ASSUME RunInv, [Next]_vars PROVE RunInv'
    OBVIOUS
  <2>1. testing' = testing
    BY DEF Next, vars
  <2>2. TypeOK'
    BY TypeNext DEF RunInv
  <2>3. ASSUME ~testing PROVE ProdInv'
    BY <2>3, ProdNext DEF RunInv
  <2> QED
    BY <2>1, <2>2, <2>3 DEF RunInv
<1> QED
  BY <1>1, <1>2, PTL DEF Spec

(* Without test traffic the backup of real threats is never more than one  *)
(* report behind the state.                                                *)
THEOREM BackupCorrect == Spec => []BackupLagsByOne
<1>1. RunInv => BackupLagsByOne
  BY DEF RunInv, ProdInv, BackupLagsByOne
<1> QED
  BY <1>1, RunInvariance, PTL

(* Without test traffic no siren is on, in the state or in the backup, but *)
(* by a poll or a report, and none stays on after the poll that ends it.   *)
THEOREM SirenCorrect == Spec => []SirenHasCause
<1>1. RunInv => SirenHasCause
  BY DEF RunInv, ProdInv, SirenHasCause
<1> QED
  BY <1>1, RunInvariance, PTL

-----------------------------------------------------------------------------
(* The timers of the monitor.                                              *)

Stage == {"none", "waits", "asked"}

TimersOK ==
  /\ clearTimers \in [Region -> SUBSET Key] /\ renewed \in [Region -> SUBSET Key]
  /\ reeval \in [Region -> [Key -> Stage]]

(* Each card is of a key that a report may have, so that the cleanup loop  *)
(* finds the timers of a card.                                             *)
CardsHaveKeys == \A r \in Region : \A s \in Filled(r) : CardKey(cards[r][s]) \in Key

(* A flag is that of a card.                                               *)
FlagsOfCards ==
  \A r \in Region : predictive[r] \subseteq Filled(r) /\ unseen[r] \subseteq Filled(r)

FlagsOK ==
  /\ predictive \in [Region -> SUBSET Slot] /\ unseen \in [Region -> SUBSET Slot]
  /\ FlagsOfCards

CardsInv == TypeOK /\ CardsHaveKeys

TimersInv == CardsInv /\ FlagsOK /\ TimersOK /\ VerdictIsCurrent

LEMMA KeyFields ==
  ASSUME NEW k \in Key
  PROVE  k.type \in Type \cup {NoType} /\ k.gid \in Gid \cup {NoGid}
BY KeyAssumption

LEMMA KeysOfReports ==
  /\ ReportKey \subseteq Key /\ PredictedKey \subseteq Key /\ AnyKey \in Key
  /\ \A ty \in RegexType : [type |-> ty, gid |-> NoGid] \in Key
BY DEF Key

(* What a report, a clearing and a siren do to the cards.                  *)
Reported(k) == \E r \in Region : SetThreat(r, k.gid, k.type, FALSE)
Removed ==
  \A r \in Region, s \in Slot : cards'[r][s] \in {NoCard, cards[r][s]}

LEMMA ReportKeepsKeys ==
  ASSUME CardsInv, TypeOK', NEW k \in Key, Reported(k)
  PROVE  CardsHaveKeys'
<1>1. PICK r \in Region : SetThreat(r, k.gid, k.type, FALSE)
  BY DEF Reported
<1>2. CASE cards' = cards
  BY <1>2 DEF CardsInv, CardsHaveKeys, Filled
<1>3. ASSUME NEW s \in Slot, AddCard(r, s, k.gid, k.type, FALSE)
      PROVE  CardsHaveKeys'
  <2> DEFINE new == [gid |-> k.gid, type |-> k.type, test |-> FALSE]
  <2>1. cards' = [cards EXCEPT ![r][s] = new]
    BY <1>3 DEF AddCard
  <2>2. CardKey(new) = k
    <3>1. k \in [type : Type \cup {NoType}, gid : Gid \cup {NoGid}]
      BY KeyAssumption
    <3> QED  BY <3>1 DEF CardKey
  <2> HIDE DEF new
  <2>3. ASSUME NEW q \in Region, NEW t \in Slot, cards'[q][t] # NoCard
        PROVE  CardKey(cards'[q][t]) \in Key
    <3>1. CASE q = r /\ t = s
      BY <2>1, <2>2, <3>1 DEF CardsInv, TypeOK, Cards
    <3>2. CASE ~(q = r /\ t = s)
      <4>1. cards'[q][t] = cards[q][t]
        BY <2>1, <3>2 DEF CardsInv, TypeOK, Cards
      <4> QED  BY <2>3, <4>1 DEF CardsInv, CardsHaveKeys, Filled
    <3> QED  BY <3>1, <3>2
  <2> QED  BY <2>3 DEF CardsHaveKeys, Filled
<1> QED  BY <1>1, <1>2, <1>3 DEF SetThreat, UpdateCard

LEMMA RemovalKeepsKeys ==
  ASSUME CardsInv, TypeOK', Removed
  PROVE  CardsHaveKeys'
BY DEF CardsInv, CardsHaveKeys, Filled, Removed

(* Every step of the timers is a call of the manager, or none.             *)
LEMMA ClearCardsIsCall ==
  ASSUME CardsInv, NEW r \in Region, NEW k,
         k.gid \in Gid \cup {NoGid}, k.type \in Type \cup {NoType}, ClearCards(r, k)
  PROVE  [Next]_vars /\ Removed
<1>1. CASE UNCHANGED vars
  BY <1>1 DEF vars, Removed
<1>2. CASE ClearThreat(r, k.gid, k.type) /\ UNCHANGED testing
  <2>1. [Next]_vars
    BY <1>2 DEF Next, Call
  <2>2. PICK kept : cards' = [cards EXCEPT ![r] = Only(r, kept)]
    BY <1>2 DEF ClearThreat
  <2>3. Removed
    BY <2>2 DEF Removed, Only, CardsInv, TypeOK, Cards
  <2> QED  BY <2>1, <2>3
<1> QED  BY <1>1, <1>2 DEF ClearCards

LEMMA SetCardIsCall ==
  ASSUME NEW r \in Region, NEW k \in Key, NEW p, SetCard(r, k, p), UNCHANGED testing
  PROVE  [Next]_vars /\ Reported(k)
<1>1. SetThreat(r, k.gid, k.type, FALSE)
  BY DEF SetCard
<1> QED  BY <1>1, KeyFields DEF Next, Call, Reported

(* The steps of the timers of one region.                                  *)
TimersOf(r) ==
  \/ \E k \in ReportKey, p \in BOOLEAN : Report(r, k, p)
  \/ \E ty \in RegexType : RegexReport(r, ty)
  \/ \E k \in PredictedKey : Propagate(r, k)
  \/ \E k \in Key : \/ MessageClear(r, k) \/ AutoClear(r, k)
                    \/ Reevaluation(r, k)
  \/ \E s \in Slot : Cleanup(r, s)
  \/ SirenOn(r) \/ SirenOff(r) \/ CoolDown(r)

LEMMA TimersSteps ==
  [TimersNext]_allVars <=>
    MessageClearAll \/ Restart \/ (\E r \in Region : TimersOf(r)) \/ UNCHANGED allVars
BY DEF TimersNext, TimersOf

IsCall == [Next]_vars /\ (Removed \/ \E k \in Key : Reported(k))

LEMMA StepIsCall ==
  ASSUME CardsInv, [TimersNext]_allVars
  PROVE  IsCall
<1> USE DEF IsCall
<1>1. ASSUME UNCHANGED vars PROVE IsCall
  BY <1>1 DEF vars, Removed
<1>2. ASSUME NEW r \in Region, NEW k \in Key, NEW p, SetCard(r, k, p), UNCHANGED testing
      PROVE  IsCall
  BY <1>2, SetCardIsCall
<1>3. ASSUME NEW r \in Region, NEW k \in Key, ClearCards(r, k)
      PROVE  IsCall
  BY <1>3, KeyFields, ClearCardsIsCall
<1>4. CASE MessageClearAll
  <2>1. Next
    BY <1>4 DEF MessageClearAll, Next, Call
  <2>2. Removed
    BY <1>4 DEF MessageClearAll, ClearAll, NoCards, Removed
  <2> QED  BY <2>1, <2>2
<1>5. ASSUME NEW r \in Region, SirenOn(r) \/ SirenOff(r) PROVE IsCall
  <2>1. Next
    <3>1. UNCHANGED testing /\ (SetAlarm(r, TRUE) \/ EndAlarm(r))
      BY <1>5 DEF SirenOn, SirenOff
    <3> QED  BY <3>1, Zenon DEF Next, Call
  <2>2. cards' = cards \/ cards' = [cards EXCEPT ![r] = NoCards]
    BY <1>5, Zenon DEF SirenOn, SirenOff, SetAlarm, EndAlarm
  <2>3. Removed
    BY <2>2 DEF NoCards, Removed, CardsInv, TypeOK
  <2> QED  BY <2>1, <2>3
<1>6. ASSUME NEW r \in Region, NEW s \in Slot, Cleanup(r, s) PROVE IsCall
  <2> DEFINE k == CardKey(cards[r][s])
  <2>1. k \in Key
    BY <1>6 DEF Cleanup, CardsInv, CardsHaveKeys
  <2>2. UNCHANGED vars \/ ClearCards(r, k)
    BY <1>6 DEF Cleanup, CleanupReevaluates, CleanupUnderSiren
  <2> QED  BY <1>1, <1>3, <2>1, <2>2
<1>7. CASE UNCHANGED allVars
  BY <1>1, <1>7 DEF allVars
<1>8. ASSUME NEW r \in Region, NEW k \in ReportKey, NEW p \in BOOLEAN, Report(r, k, p)
      PROVE  IsCall
  BY <1>2, <1>8, KeysOfReports DEF Report
<1>9. ASSUME NEW r \in Region, NEW ty \in RegexType, RegexReport(r, ty)
      PROVE  IsCall
  BY <1>2, <1>9, KeysOfReports DEF RegexReport
<1>10. ASSUME NEW r \in Region, NEW k \in PredictedKey, Propagate(r, k)
       PROVE  IsCall
  BY <1>2, <1>10, KeysOfReports DEF Propagate
<1>11. ASSUME NEW r \in Region, NEW k \in Key, MessageClear(r, k) \/ AutoClear(r, k)
       PROVE  IsCall
  BY <1>3, <1>11 DEF MessageClear, AutoClear
<1>12. ASSUME NEW r \in Region, NEW k \in Key, Reevaluation(r, k)
       PROVE  IsCall
  BY <1>1, <1>3, <1>12 DEF Reevaluation, ReevalRun, ReevalClear, ReevalKeep
<1>13. ASSUME NEW r \in Region, CoolDown(r) PROVE IsCall
  BY <1>1, <1>13 DEF CoolDown
<1>14. CASE Restart
  BY <1>1, <1>14 DEF Restart
<1> HIDE DEF IsCall
<1>15. ASSUME NEW r \in Region, TimersOf(r) PROVE IsCall
  BY <1>5, <1>6, <1>8, <1>9, <1>10, <1>11, <1>12, <1>13, <1>15, ZenonT(30) DEF TimersOf
<1> QED  BY <1>4, <1>7, <1>14, <1>15, TimersSteps

LEMMA CardsNext == CardsInv /\ [TimersNext]_allVars => CardsInv'
<1> SUFFICES ASSUME CardsInv, [TimersNext]_allVars PROVE CardsInv'
  OBVIOUS
<1>1. TypeOK'
  BY StepIsCall, TypeNext DEF CardsInv, IsCall
<1> QED  BY <1>1, StepIsCall, ReportKeepsKeys, RemovalKeepsKeys DEF CardsInv, IsCall

-----------------------------------------------------------------------------
(* The flags and the timers themselves.                                    *)

LEMMA FilledNext ==
  ASSUME NEW r \in Region
  PROVE  Filled(r)' = {s \in Slot : cards'[r][s] # NoCard}
BY DEF Filled

(* A card is added or stays.                                               *)
LEMMA ReportFills ==
  ASSUME TypeOK, NEW r \in Region, NEW k, NEW p, SetCard(r, k, p)
  PROVE  /\ \A q \in Region : Filled(q) \subseteq Filled(q)'
         /\ \E s \in Filled(r)', new \in SUBSET Filled(r)' :
              /\ predictive' = [predictive EXCEPT ![r] = IF p THEN @ \cup {s} ELSE @ \ {s}]
              /\ unseen' = [unseen EXCEPT ![r] = @ \cup new]
<1>1. ASSUME NEW q \in Region, NEW s \in Slot, cards[q][s] # NoCard
      PROVE  cards'[q][s] # NoCard
  <2>1. CASE cards' = cards
    BY <1>1, <2>1
  <2>2. ASSUME NEW t \in Slot \ Filled(r), AddCard(r, t, k.gid, k.type, FALSE)
        PROVE  cards'[q][s] # NoCard
    <3>1. ~(q = r /\ s = t)
      BY <1>1, <2>2 DEF Filled
    <3>2. cards'[q][s] = cards[q][s]
      BY <2>2, <3>1 DEF AddCard, TypeOK, Cards
    <3> QED  BY <1>1, <3>2
  <2> QED  BY <2>1, <2>2 DEF SetCard, SetThreat, UpdateCard
<1>2. \A q \in Region : Filled(q) \subseteq Filled(q)'
  BY <1>1, FilledNext DEF Filled
<1> DEFINE new == {s \in Slot : cards[r][s] = NoCard /\ cards'[r][s] # NoCard}
           same == IF Group(r, k.gid) # {} THEN Group(r, k.gid) ELSE Similar(r, k.type)
<1>3. new \subseteq Filled(r)' /\ same \subseteq Filled(r)'
  BY <1>2, FilledNext DEF Group, Similar
<1>4. PICK s \in IF new # {} THEN new ELSE same :
        /\ predictive' = [predictive EXCEPT ![r] = IF p THEN @ \cup {s} ELSE @ \ {s}]
        /\ unseen' = [unseen EXCEPT ![r] = @ \cup new]
  BY DEF SetCard
<1> HIDE DEF new, same
<1>5. s \in Filled(r)'
  BY <1>3, <1>4
<1> QED  BY <1>2, <1>3, <1>4, <1>5

LEMMA ReportKeepsFlags ==
  ASSUME TypeOK, FlagsOK, NEW r \in Region, NEW k, NEW p, SetCard(r, k, p)
  PROVE  FlagsOK'
<1>1. \A q \in Region : Filled(q) \subseteq Filled(q)' /\ Filled(q)' \subseteq Slot
  BY ReportFills DEF Filled
<1>2. PICK s \in Filled(r)', new \in SUBSET Filled(r)' :
        /\ predictive' = [predictive EXCEPT ![r] = IF p THEN @ \cup {s} ELSE @ \ {s}]
        /\ unseen' = [unseen EXCEPT ![r] = @ \cup new]
  BY ReportFills
<1>3. \A q \in Region : predictive[q] \subseteq Filled(q)' /\ unseen[q] \subseteq Filled(q)'
  BY <1>1 DEF FlagsOK, FlagsOfCards
<1>4. /\ predictive' \in [Region -> SUBSET Slot] /\ unseen' \in [Region -> SUBSET Slot]
  BY <1>1, <1>2 DEF FlagsOK
<1>5. \A q \in Region : predictive'[q] \subseteq Filled(q)' /\ unseen'[q] \subseteq Filled(q)'
  BY <1>2, <1>3 DEF FlagsOK
<1> QED  BY <1>4, <1>5 DEF FlagsOK, FlagsOfCards

LEMMA KeepFlagsKeeps ==
  ASSUME FlagsOK, KeepFlags
  PROVE  FlagsOK'
<1>1. \A q \in Region : Filled(q)' \subseteq Slot
  BY DEF Filled
<1> HIDE DEF Filled
<1> QED  BY <1>1 DEF KeepFlags, FlagsOK, FlagsOfCards

LEMMA CardsStayFlags ==
  ASSUME FlagsOK, cards' = cards, predictive' = predictive,
         \A r \in Region : unseen'[r] \subseteq unseen[r],
         unseen' \in [Region -> SUBSET Slot]
  PROVE  FlagsOK'
BY DEF FlagsOK, FlagsOfCards, Filled

LEMMA FlagsNext == CardsInv /\ FlagsOK /\ [TimersNext]_allVars => FlagsOK'
<1> SUFFICES ASSUME CardsInv, FlagsOK, [TimersNext]_allVars PROVE FlagsOK'
  OBVIOUS
<1>1. ASSUME NEW r \in Region, NEW k, NEW p, SetCard(r, k, p) PROVE FlagsOK'
  BY <1>1, ReportKeepsFlags DEF CardsInv
<1>2. ASSUME KeepFlags PROVE FlagsOK'
  BY <1>2, KeepFlagsKeeps
<1>3. ASSUME UNCHANGED <<cards, predictive, unseen>> PROVE FlagsOK'
  BY <1>3, CardsStayFlags DEF FlagsOK
<1>4. ASSUME NEW r \in Region, SirenOn(r) PROVE FlagsOK'
  BY <1>3, <1>4 DEF SirenOn, SetAlarm, flags
<1>5. ASSUME NEW r \in Region, NEW k \in Key, ReevalRun(r, k) PROVE FlagsOK'
  <2>1. UNCHANGED <<cards, predictive>>
    BY <1>5 DEF ReevalRun, vars
  <2>2. unseen' = unseen \/ unseen' = [unseen EXCEPT ![r] = @ \ Target(r, k)]
    BY <1>5 DEF ReevalRun
  <2> QED  BY <2>1, <2>2, CardsStayFlags DEF FlagsOK
<1>6. ASSUME NEW r \in Region, NEW s \in Slot, Cleanup(r, s) PROVE FlagsOK'
  <2>1. UNCHANGED <<vars, flags>> \/ KeepFlags
    BY <1>6 DEF Cleanup, CleanupReevaluates, CleanupUnderSiren, ClearCards
  <2> QED  BY <1>2, <1>3, <2>1 DEF vars, flags
<1>7. CASE Restart \/ UNCHANGED allVars
  BY <1>3, <1>7 DEF Restart, allVars, vars, flags
<1>8. ASSUME NEW r \in Region, CoolDown(r) PROVE FlagsOK'
  BY <1>3, <1>8 DEF CoolDown, vars, flags
<1>9. ASSUME NEW r \in Region, NEW k \in Key, Reevaluation(r, k) PROVE FlagsOK'
  <2>1. CASE ReevalKeep(r, k)
    BY <1>3, <2>1 DEF ReevalKeep, vars, flags
  <2>2. CASE ReevalClear(r, k)
    BY <1>2, <2>2 DEF ReevalClear, ClearCards
  <2> QED  BY <1>5, <1>9, <2>1, <2>2 DEF Reevaluation
<1>10. ASSUME NEW r \in Region, NEW k \in Key, MessageClear(r, k) \/ AutoClear(r, k)
       PROVE  FlagsOK'
  BY <1>2, <1>10 DEF MessageClear, AutoClear, ClearCards
<1>11. ASSUME NEW r \in Region, SirenOff(r) PROVE FlagsOK'
  BY <1>2, <1>11 DEF SirenOff
<1>12. CASE MessageClearAll
  BY <1>2, <1>12 DEF MessageClearAll
<1>13. ASSUME NEW r \in Region, NEW k \in ReportKey, NEW p \in BOOLEAN, Report(r, k, p)
       PROVE  FlagsOK'
  BY <1>1, <1>13 DEF Report
<1>14. ASSUME NEW r \in Region, NEW ty \in RegexType, RegexReport(r, ty) PROVE FlagsOK'
  BY <1>1, <1>14 DEF RegexReport
<1>15. ASSUME NEW r \in Region, NEW k \in PredictedKey, Propagate(r, k) PROVE FlagsOK'
  BY <1>1, <1>15 DEF Propagate
<1>16. ASSUME NEW r \in Region, TimersOf(r) PROVE FlagsOK'
  BY <1>4, <1>6, <1>8, <1>9, <1>10, <1>11, <1>13, <1>14, <1>15, <1>16, ZenonT(30) DEF TimersOf
<1> QED  BY <1>7, <1>12, <1>16, TimersSteps

(* The re-evaluation of one key is started, asked, answered or ended.      *)
LEMMA OneTimer ==
  ASSUME TimersOK, NEW r \in Region, NEW k, NEW st \in Stage \ {"asked"}, VerdictIsCurrent,
         reeval' = [reeval EXCEPT ![r][k] = st],
         renewed' = renewed \/ renewed' = [renewed EXCEPT ![r] = @ \cup {k}],
         k \in Key \/ renewed' = renewed
  PROVE  /\ reeval' \in [Region -> [Key -> Stage]] /\ renewed' \in [Region -> SUBSET Key]
         /\ VerdictIsCurrent'
<1>1. reeval' \in [Region -> [Key -> Stage]] /\ renewed' \in [Region -> SUBSET Key]
  <2>1. [reeval[r] EXCEPT ![k] = st] \in [Key -> Stage]
    BY DEF TimersOK
  <2>2. reeval' = [reeval EXCEPT ![r] = [reeval[r] EXCEPT ![k] = st]]
    BY DEF TimersOK
  <2>3. reeval' \in [Region -> [Key -> Stage]]
    BY <2>1, <2>2 DEF TimersOK
  <2>4. CASE renewed' = renewed
    BY <2>3, <2>4 DEF TimersOK
  <2>5. CASE renewed' = [renewed EXCEPT ![r] = @ \cup {k}] /\ k \in Key
    <3>1. renewed[r] \cup {k} \in SUBSET Key
      BY <2>5 DEF TimersOK
    <3> QED  BY <2>3, <2>5, <3>1 DEF TimersOK
  <2> QED  BY <2>4, <2>5
<1>2. ASSUME NEW q \in Region, NEW l \in Key, reeval'[q][l] = "asked"
      PROVE  l \notin renewed'[q]
  <2>1. ~(q = r /\ l = k) /\ reeval[q][l] = "asked"
    BY <1>2 DEF TimersOK
  <2> QED  BY <2>1 DEF TimersOK, VerdictIsCurrent
<1> QED  BY <1>1, <1>2 DEF VerdictIsCurrent

LEMMA CancelKeeps ==
  ASSUME TimersOK, NEW r \in Region, NEW k, Cancel(r, k), renewed' = renewed, VerdictIsCurrent
  PROVE  TimersOK' /\ VerdictIsCurrent'
<1> DEFINE those == [l \in Key |-> IF l \in Matching(k) THEN "none" ELSE reeval[r][l]]
<1>1. those \in [Key -> Stage]
  BY DEF TimersOK, Stage
<1>2. reeval' = [reeval EXCEPT ![r] = those]
  BY DEF Cancel
<1>3. \A l \in Key : those[l] = "asked" => reeval[r][l] = "asked"
  OBVIOUS
<1> HIDE DEF those
<1>4. reeval' \in [Region -> [Key -> Stage]]
  BY <1>1, <1>2 DEF TimersOK
<1>5. clearTimers' \in [Region -> SUBSET Key]
  BY DEF Cancel, TimersOK
<1>6. \A q \in Region, l \in Key : reeval'[q][l] = "asked" => reeval[q][l] = "asked"
  BY <1>2, <1>3 DEF TimersOK
<1> QED  BY <1>4, <1>5, <1>6 DEF TimersOK, VerdictIsCurrent

LEMMA ReevalRunKeeps ==
  ASSUME TimersOK, NEW r \in Region, NEW k \in Key, ReevalRun(r, k), VerdictIsCurrent
  PROVE  TimersOK' /\ VerdictIsCurrent'
<1>1. clearTimers' = clearTimers
  BY DEF ReevalRun
<1>2. CASE reeval' = reeval /\ renewed' = renewed
  BY <1>1, <1>2 DEF TimersOK, VerdictIsCurrent
<1>3. CASE reeval' = [reeval EXCEPT ![r][k] = "none"] /\ renewed' = renewed
  BY <1>1, <1>3, OneTimer DEF TimersOK, Stage
<1>4. CASE /\ reeval' = [reeval EXCEPT ![r][k] = "asked"]
           /\ renewed' = [renewed EXCEPT ![r] = @ \ {k}]
  <2>1. reeval' \in [Region -> [Key -> Stage]] /\ renewed' \in [Region -> SUBSET Key]
    BY <1>4 DEF TimersOK, Stage
  <2>2. \A q \in Region, l \in Key : ~(q = r /\ l = k) => reeval'[q][l] = reeval[q][l]
    BY <1>4 DEF TimersOK
  <2>3. k \notin renewed'[r] /\ \A q \in Region : renewed'[q] \subseteq renewed[q]
    BY <1>4 DEF TimersOK
  <2> QED  BY <1>1, <2>1, <2>2, <2>3 DEF TimersOK, VerdictIsCurrent
<1> QED  BY <1>2, <1>3, <1>4 DEF ReevalRun

LEMMA TimersOKNext ==
  ASSUME CardsInv, TimersOK, VerdictIsCurrent, [TimersNext]_allVars
  PROVE  TimersOK' /\ VerdictIsCurrent'
<1> DEFINE Goal == TimersOK' /\ VerdictIsCurrent'
<1>1. ASSUME UNCHANGED timers PROVE Goal
  BY <1>1 DEF timers, TimersOK, VerdictIsCurrent
<1>2. ASSUME UNCHANGED <<reeval, renewed>>, clearTimers' \in [Region -> SUBSET Key]
      PROVE  Goal
  BY <1>2 DEF TimersOK, VerdictIsCurrent
<1>3. ASSUME NEW r \in Region, NEW k \in ReportKey, NEW p \in BOOLEAN, Report(r, k, p)
      PROVE  Goal
  <2>1. k \in Key
    BY KeysOfReports
  <2>2. clearTimers' \in [Region -> SUBSET Key]
    BY <1>3, <2>1 DEF Report, TimersOK
  <2>3. PICK st \in Stage \ {"asked"} : reeval' = [reeval EXCEPT ![r][k] = st]
    BY <1>3 DEF Report, NextReevaluation, Stage
  <2>4. renewed' = [renewed EXCEPT ![r] = @ \cup {k}]
    BY <1>3 DEF Report
  <2> QED  BY <2>1, <2>2, <2>3, <2>4, OneTimer DEF TimersOK
<1>4. ASSUME NEW r \in Region, NEW ty \in RegexType, RegexReport(r, ty) PROVE Goal
  BY <1>2, <1>4, KeysOfReports DEF RegexReport, TimersOK
<1>5. ASSUME NEW r \in Region, NEW k \in PredictedKey, Propagate(r, k) PROVE Goal
  BY <1>2, <1>5, KeysOfReports DEF Propagate, TimersOK
<1>6. ASSUME NEW r \in Region, NEW k \in Key, MessageClear(r, k) PROVE Goal
  BY <1>6, CancelKeeps DEF MessageClear
<1>7. ASSUME NEW r \in Region, NEW k \in Key, AutoClear(r, k) PROVE Goal
  BY <1>2, <1>7 DEF AutoClear, TimersOK
<1>8. ASSUME NEW r \in Region, NEW k \in Key, Reevaluation(r, k) PROVE Goal
  <2>1. CASE ReevalRun(r, k)
    BY <2>1, ReevalRunKeeps
  <2>2. CASE ReevalClear(r, k)
    BY <2>2, CancelKeeps DEF ReevalClear
  <2>3. CASE ReevalKeep(r, k)
    BY <2>3, OneTimer DEF ReevalKeep, TimersOK, Stage
  <2> QED  BY <1>8, <2>1, <2>2, <2>3 DEF Reevaluation
<1>9. ASSUME NEW r \in Region, NEW s \in Slot, Cleanup(r, s) PROVE Goal
  <2> DEFINE k == CardKey(cards[r][s])
  <2>1. k \in Key
    BY <1>9 DEF Cleanup, CardsInv, CardsHaveKeys
  <2>2. CASE CleanupReevaluates(r, s)
    <3>1. /\ reeval' = [reeval EXCEPT ![r][k] = "waits"] /\ clearTimers' = clearTimers
          /\ renewed' = renewed
      BY <1>9, <2>2 DEF Cleanup, CleanupReevaluates
    <3>2. "waits" \in Stage \ {"asked"}
      BY DEF Stage
    <3> HIDE DEF k
    <3>3. /\ reeval' \in [Region -> [Key -> Stage]] /\ renewed' \in [Region -> SUBSET Key]
          /\ VerdictIsCurrent'
      BY <2>1, <3>1, <3>2, OneTimer
    <3> QED  BY <3>1, <3>3 DEF TimersOK
  <2>3. CASE CleanupUnderSiren(r, s)
    <3>1. /\ UNCHANGED <<reeval, renewed>>
          /\ clearTimers' = clearTimers
               \/ clearTimers' = [clearTimers EXCEPT ![r] = @ \cup {k}]
      BY <1>9, <2>3 DEF Cleanup, CleanupUnderSiren
    <3> HIDE DEF k
    <3> QED  BY <1>2, <2>1, <3>1 DEF TimersOK
  <2> QED  BY <1>9, <2>2, <2>3 DEF Cleanup
<1>10. ASSUME NEW r \in Region, SirenOn(r) \/ SirenOff(r) \/ CoolDown(r) PROVE Goal
  BY <1>1, <1>10 DEF SirenOn, SirenOff, CoolDown
<1>11. CASE MessageClearAll
  BY <1>1, <1>11 DEF MessageClearAll
<1>12. CASE UNCHANGED allVars
  BY <1>1, <1>12 DEF allVars
<1>13. CASE Restart
  BY <1>13 DEF Restart, TimersOK, VerdictIsCurrent, NoSlots, Stage
<1>14. ASSUME NEW r \in Region, TimersOf(r) PROVE TimersOK' /\ VerdictIsCurrent'
  <2> HIDE DEF TimersOK, VerdictIsCurrent
  <2> QED  BY <1>3, <1>4, <1>5, <1>6, <1>7, <1>8, <1>9, <1>10, <1>14, ZenonT(30) DEF TimersOf
<1> QED  BY <1>11, <1>12, <1>13, <1>14, TimersSteps

LEMMA TimersInitInv == TimersInit => TimersInv
<1> SUFFICES ASSUME TimersInit PROVE TimersInv
  OBVIOUS
<1>1. TypeOK
  BY TypeInit DEF TimersInit
<1>2. \A r \in Region : Filled(r) = {}
  BY DEF TimersInit, Init, Filled, NoCards
<1>3. CardsHaveKeys
  BY <1>2 DEF CardsHaveKeys
<1>4. FlagsOK /\ TimersOK /\ VerdictIsCurrent
  BY DEF TimersInit, NoSlots, FlagsOK, FlagsOfCards, TimersOK, VerdictIsCurrent, Stage
<1> QED  BY <1>1, <1>3, <1>4 DEF TimersInv, CardsInv

LEMMA TimersInvariance == TimersSpec => []TimersInv
<1>1. TimersInv /\ [TimersNext]_allVars => TimersInv'
  BY CardsNext, FlagsNext, TimersOKNext DEF TimersInv
<1> QED  BY <1>1, TimersInitInv, PTL DEF TimersSpec

(* A re-evaluation whose answer is still to be applied has not been        *)
(* overtaken by a report of its own region, type and group: neither a      *)
(* restart, a cancelled timer, a clearing nor the cleanup loop revives one *)
(* that such a report has ended (telegram_monitor.py:1867).  Of a report   *)
(* under another type or group that is merged into its card it says        *)
(* nothing: there the old answer is applied.                               *)
THEOREM VerdictCorrect == TimersSpec => []VerdictIsCurrent
<1>1. TimersInv => VerdictIsCurrent
  BY DEF TimersInv
<1> QED  BY <1>1, TimersInvariance, PTL

(* The timers implement the manager: whatever fires, in whatever order, is *)
(* for the cards a call that ThreatManager allows, or nothing.             *)
THEOREM TimersImplementManager == TimersSpec => Spec
<1>1. TimersInit => Init
  BY DEF TimersInit
<1>2. TimersInv /\ [TimersNext]_allVars => [Next]_vars
  BY StepIsCall DEF TimersInv, IsCall
<1> QED  BY <1>1, <1>2, TimersInvariance, PTL DEF TimersSpec, Spec

(* So the cards keep what the manager promises, timers or not: one card    *)
(* per group, a backup at most one report behind, no siren without cause.  *)
THEOREM TimersKeepCards == TimersSpec => [](UniqueGroups /\ BackupLagsByOne /\ SirenHasCause)
BY TimersImplementManager, UniqueCorrect, BackupCorrect, SirenCorrect, PTL
=============================================================================
