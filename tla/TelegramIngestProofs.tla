------------------------- MODULE TelegramIngestProofs -------------------------
(***************************************************************************)
(* No post goes missing unnoticed and none is applied twice, for any       *)
(* number of posts, any limits of the scan and the page, and any number of *)
(* crashes.                                                                *)
(***************************************************************************)
EXTENDS TelegramIngest, TLAPS, WellFoundedInduction

-----------------------------------------------------------------------------
(* The inductive invariant.                                                *)

Direct(p) == [post |-> p, path |-> "direct"]

(* The event of p, or the scan that found it, is done with it.             *)
Handled(p) == Direct(p) \in queue \cup batch \/ applied[p]["direct"] > 0

HeldArePublished == \A e \in queue \cup batch : e.post \in Published

(* A server that is down holds nothing.                                    *)
DownIsEmpty ==
  ~up => /\ ~mtproto /\ link = "none" /\ joined /\ ~retry
         /\ events = {} /\ scan = NoScan /\ seen = 0 /\ queue = {} /\ batch = {}

LinkedOrScraping == (up /\ mtproto => link # "none") /\ (retry => ~mtproto)

ListWhenFound == scan.stage # "list" => scan.list = {}

(* A post that nobody has taken is still to be seen on the page of the     *)
(* site, the first pass over the page still asks for it, and a server that *)
(* starts will scan for it.                                                *)
Waiting == (Published \cap Relevant) \ (excused \cup Taken)

InReach(p) ==
  /\ p > posts - PageSize
  /\ seen = 0 /\ p \notin events \cup scan.list => p > old
  /\ ~up => p > offset

(* Where it is still to come from.                                         *)
ToCome(p) ==
  \/ p \in events \cup scan.list
  \/ ~up /\ p > offset
  \/ scan.stage \in {"due", "asked"} /\ p > offset
  \/ up /\ (~mtproto \/ ~joined \/ retry) /\ p > seen

Kept == \A p \in Waiting : InReach(p) /\ ToCome(p)

(* A post is in one place only on its way from the client, and what was    *)
(* handled is not ahead of the offset.                                     *)
InOnePlace(p) ==
  /\ Handled(p) => p <= offset
  /\ p \in events \cup scan.list => ~Handled(p)
  /\ p \notin events \cap scan.list
  /\ Direct(p) \in queue \cup batch => applied[p]["direct"] = 0
  /\ Direct(p) \notin queue \cap batch
  /\ applied[p]["direct"] <= 1

NoneTwice ==
  smart /\ ~raced => /\ scan.stage = "asked" => scan.from = offset
                     /\ \A p \in Post : InOnePlace(p)

Shape == TypeOK /\ HeldArePublished /\ DownIsEmpty /\ LinkedOrScraping /\ ListWhenFound

IInv == Shape /\ Kept /\ NoneTwice

-----------------------------------------------------------------------------
(* Facts about the operators.                                              *)

LEMMA Bounds ==
  /\ MaxPost \in Nat /\ MaxCrash \in Nat /\ Relevant \subseteq Post
  /\ ScanLimit \in Nat \ {0} /\ FirstLimit \in Nat \ {0} /\ PageSize \in Nat \ {0}
BY BoundAssumption

LEMMA MinOfTwo ==
  ASSUME NEW a \in Int, NEW b \in Int
  PROVE  Min({a, b}) = IF a <= b THEN a ELSE b
<1>1. \E x \in {a, b} : \A y \in {a, b} : x =< y
  OBVIOUS
<1>2. \A x \in {a, b} : (\A y \in {a, b} : x =< y) => x = IF a <= b THEN a ELSE b
  OBVIOUS
<1> QED  BY <1>1, <1>2 DEF Min

LEMMA MaxOfTwo ==
  ASSUME NEW a \in Int, NEW b \in Int
  PROVE  Max({a, b}) = IF a >= b THEN a ELSE b
<1>1. \E x \in {a, b} : \A y \in {a, b} : x >= y
  OBVIOUS
<1>2. \A x \in {a, b} : (\A y \in {a, b} : x >= y) => x = IF a >= b THEN a ELSE b
  OBVIOUS
<1> QED  BY <1>1, <1>2 DEF Max

LEMMA MaxOfThree ==
  ASSUME NEW a \in Int, NEW b \in Int, NEW c \in Int
  PROVE  LET m == Max({a, b, c})
         IN  m \in {a, b, c} /\ m >= a /\ m >= b /\ m >= c
<1>1. \E x \in {a, b, c} : \A y \in {a, b, c} : x >= y
  <2>1. CASE a >= b /\ a >= c
    BY <2>1
  <2>2. CASE b >= a /\ b >= c
    BY <2>2
  <2>3. CASE c >= a /\ c >= b
    BY <2>3
  <2> QED  BY <2>1, <2>2, <2>3
<1> QED  BY <1>1 DEF Max

LEMMA MinIsMember ==
  ASSUME NEW S, S \subseteq Nat, S # {}
  PROVE  Min(S) \in S
<1>1. PICK x \in S : \A y \in S : <<y, x>> \notin OpToRel(<, Nat)
  BY WFMin, NatLessThanWellFounded, Zenon
<1>2. \A y \in S : ~(y < x)
  BY <1>1, Zenon DEF OpToRel
<1>3. \E z \in S : \A y \in S : z =< y
  BY <1>2
<1> QED  BY <1>3 DEF Min

Counts == [Post -> [Path -> 0..2]]

(* What is applied is counted at least once, up to two from the client;    *)
(* the rest keeps its count.                                               *)
LEMMA AppliedWithCounts ==
  ASSUME applied \in Counts, NEW E
  PROVE  /\ AppliedWith(E) \in Counts
         /\ \A p \in Post, w \in Path :
              /\ [post |-> p, path |-> w] \in E => AppliedWith(E)[p][w] > 0
              /\ [post |-> p, path |-> w] \notin E
                   => AppliedWith(E)[p][w] = applied[p][w]
              /\ applied[p][w] > 0 => AppliedWith(E)[p][w] > 0
              /\ AppliedWith(E)[p][w] <= applied[p][w] + 1
<1> DEFINE more(p, w) == IF [post |-> p, path |-> w] \in E
                           THEN Min({IF w = "page" THEN 1 ELSE 2, applied[p][w] + 1})
                           ELSE applied[p][w]
<1>1. ASSUME NEW p \in Post, NEW w \in Path
      PROVE  /\ more(p, w) \in 0..2
             /\ [post |-> p, path |-> w] \in E => more(p, w) > 0
             /\ [post |-> p, path |-> w] \notin E => more(p, w) = applied[p][w]
             /\ applied[p][w] > 0 => more(p, w) > 0
             /\ more(p, w) <= applied[p][w] + 1
  <2>1. applied[p][w] \in 0..2
    BY DEF Counts
  <2> DEFINE n == applied[p][w]
             top == IF w = "page" THEN 1 ELSE 2
  <2>2. n \in 0..2 /\ top \in 1..2
    BY <2>1
  <2>3. Min({top, n + 1}) = IF top <= n + 1 THEN top ELSE n + 1
    <3> HIDE DEF n, top
    <3> QED  BY <2>2, MinOfTwo
  <2>4. more(p, w) = IF [post |-> p, path |-> w] \in E
                       THEN IF top <= n + 1 THEN top ELSE n + 1 ELSE n
    BY <2>3
  <2> HIDE DEF n, top, more
  <2>5. /\ more(p, w) \in 0..2
        /\ [post |-> p, path |-> w] \in E => more(p, w) > 0
        /\ [post |-> p, path |-> w] \notin E => more(p, w) = n
        /\ n > 0 => more(p, w) > 0
        /\ more(p, w) <= n + 1
    BY <2>2, <2>4
  <2> QED  BY <2>5 DEF n
<1>2. AppliedWith(E) = [p \in Post |-> [w \in Path |-> more(p, w)]]
  BY DEF AppliedWith
<1> HIDE DEF more
<1>3. AppliedWith(E) \in Counts
  <2>1. \A p \in Post, w \in Path : more(p, w) \in 0..2
    BY <1>1
  <2>2. \A p \in Post : [w \in Path |-> more(p, w)] \in [Path -> 0..2]
    BY <2>1
  <2> QED  BY <1>2, <2>2 DEF Counts
<1>4. \A p \in Post, w \in Path : AppliedWith(E)[p][w] = more(p, w)
  BY <1>2
<1> QED  BY <1>1, <1>3, <1>4

LEMMA TimesCount ==
  ASSUME NEW p \in Post, applied \in Counts
  PROVE  Times(p) > 0 <=> \E w \in Path : applied[p][w] > 0
<1>1. applied[p]["direct"] \in 0..2 /\ applied[p]["page"] \in 0..2
  BY DEF Counts, Path
<1> QED  BY <1>1 DEF Times, Path

LEMMA StoredIsLater ==
  ASSUME NEW p \in Nat, offset \in Nat
  PROVE  Stored(p) \in {offset, p} /\ Stored(p) >= offset /\ Stored(p) >= p
BY MaxOfTwo DEF Stored

-----------------------------------------------------------------------------
(* The shape of the state.                                                 *)

LEMMA TypeFacts ==
  ASSUME Shape
  PROVE  /\ posts \in 0..MaxPost /\ old \in 0..posts /\ offset \in 0..posts
         /\ seen \in 0..posts /\ posts \in Nat /\ old \in Nat /\ offset \in Nat
         /\ seen \in Nat /\ Published \subseteq Post /\ Published \subseteq Nat
         /\ applied \in Counts
BY Bounds DEF Shape, TypeOK, Published, Post, Counts

(* What a message does to the queue of the analyzer, or to the threats.    *)
LEMMA ProcessShape ==
  ASSUME Shape, NEW E, E \subseteq Entry, \A e \in E : e.post \in Published, Process(E)
  PROVE  /\ queue' \subseteq Entry /\ batch' = batch /\ applied' \in Counts
         /\ \A e \in queue' \cup batch' : e.post \in Published
         /\ queue' \subseteq queue \cup E
<1>1. applied \in Counts /\ AppliedWith(E) \in Counts
  BY TypeFacts, AppliedWithCounts
<1>2. queue \subseteq Entry /\ \A e \in queue \cup batch : e.post \in Published
  BY DEF Shape, TypeOK, HeldArePublished
<1> QED  BY <1>1, <1>2 DEF Process

LEMMA OneEntry ==
  ASSUME Shape, NEW p \in Published, NEW w \in Path
  PROVE  /\ {[post |-> p, path |-> w]} \subseteq Entry
         /\ \A e \in {[post |-> p, path |-> w]} : e.post \in Published
BY TypeFacts DEF Entry

LEMMA LatestArePublished ==
  ASSUME NEW from, NEW n
  PROVE  Latest(from, n) \subseteq Published
BY DEF Latest

(* The least of the posts that a scan found.                               *)
LEMMA NextOfScan ==
  ASSUME Shape, scan.list # {}
  PROVE  Min(scan.list) \in scan.list /\ Min(scan.list) \in Published
<1>1. scan.list \subseteq Published
  BY DEF Shape, TypeOK
<1>2. scan.list \subseteq Nat
  BY <1>1, TypeFacts
<1> QED  BY <1>1, <1>2, MinIsMember

LEMMA PublishShape ==
  ASSUME Shape, Publish
  PROVE  Shape'
<1>1. /\ posts' = posts + 1 /\ posts < MaxPost
      /\ Published' = Published \cup {posts + 1}
      /\ posts + 1 \in Published'
  BY TypeFacts DEF Publish, Published
<1>2. /\ UNCHANGED <<old, up, mtproto, link, joined, retry, offset, scan, seen, smart,
                     raced, crashes, queue, batch, applied>>
      /\ events' \subseteq events \cup {posts + 1}
      /\ excused' \subseteq excused \cup {posts + 1} \cup Published
      /\ ~up => events' = events
  <2>1. ~up => link # "up"
    BY DEF Shape, DownIsEmpty
  <2> QED  BY <2>1 DEF Publish, client, work
<1>3. events' \subseteq Published' /\ excused' \subseteq Published'
  BY <1>1, <1>2 DEF Shape, TypeOK
<1>4. /\ scan' \in [stage : {"none", "due", "asked", "list"}, from : 0..posts',
                    list : SUBSET Published']
      /\ posts' \in 0..MaxPost /\ old' \in 0..posts' /\ offset' \in 0..posts'
      /\ seen' \in 0..posts'
  <2>1. 0..posts \subseteq 0..posts' /\ SUBSET Published \subseteq SUBSET Published'
    BY <1>1, TypeFacts
  <2>2. posts' \in 0..MaxPost
    BY <1>1, TypeFacts, Bounds
  <2> QED  BY <1>2, <2>1, <2>2 DEF Shape, TypeOK
<1>5. TypeOK'
  BY <1>2, <1>3, <1>4 DEF Shape, TypeOK
<1> QED  BY <1>1, <1>2, <1>5 DEF Shape, HeldArePublished, DownIsEmpty, LinkedOrScraping, ListWhenFound

LEMMA StartShape ==
  ASSUME Shape, Start
  PROVE  Shape'
<1>1. /\ up' = TRUE /\ mtproto' \in BOOLEAN /\ link' \in {"none", "up"} /\ joined' \in BOOLEAN
      /\ retry' = FALSE /\ (mtproto' => link' = "up")
      /\ scan' \in {NoScan, [NoScan EXCEPT !.stage = "due"]}
      /\ excused' \in {excused, excused \cup (Published \ Taken)}
      /\ UNCHANGED <<posts, old, events, offset, seen, smart, raced, crashes, queue, batch,
                     applied>>
  BY DEF Start, StartScraper, StartMtproto, Fresh, source, work
<1>2. excused' \subseteq Published
  BY <1>1 DEF Shape, TypeOK
<1>3. /\ scan' \in [stage : {"none", "due", "asked", "list"}, from : 0..posts,
                    list : SUBSET Published]
      /\ scan'.list = {}
  BY <1>1, TypeFacts DEF NoScan
<1> QED  BY <1>1, <1>2, <1>3 DEF Shape, TypeOK, Published, HeldArePublished, DownIsEmpty,
            LinkedOrScraping, ListWhenFound

LEMMA GoneShape ==
  ASSUME Shape, Gone, offset' \in 0..posts,
         excused' = excused \cup {p \in 1..Max({offset', old, posts - PageSize}) : Times(p) = 0}
  PROVE  Shape'
<1> DEFINE m == Max({offset', old, posts - PageSize})
<1>1. m \in {offset', old, posts - PageSize}
  <2>1. offset' \in Int /\ old \in Int /\ posts - PageSize \in Int
    BY TypeFacts, Bounds
  <2> QED  BY <2>1, MaxOfThree
<1>2. m \in Int /\ m <= posts
  BY <1>1, TypeFacts, Bounds
<1>3. excused' \subseteq Published
  <2> HIDE DEF m
  <2>1. 1..m \subseteq Published
    BY <1>2, TypeFacts DEF Published
  <2> QED  BY <2>1 DEF Shape, TypeOK, m
<1>4. /\ UNCHANGED <<posts, old, smart, applied, raced>>
      /\ crashes' \in 0..MaxCrash
      /\ up' = FALSE /\ mtproto' = FALSE /\ link' = "none" /\ joined' = TRUE /\ retry' = FALSE
      /\ events' = {} /\ scan' = NoScan /\ seen' = 0 /\ queue' = {} /\ batch' = {}
  BY Bounds DEF Gone, source, Shape, TypeOK
<1>5. NoScan \in [stage : {"none", "due", "asked", "list"}, from : 0..posts,
                  list : SUBSET Published] /\ NoScan.list = {}
  BY TypeFacts DEF NoScan
<1>6. TypeOK'
  <2>1. Published' = Published /\ posts' \in 0..MaxPost /\ old' \in 0..posts' /\ seen' \in 0..posts'
    BY <1>4, TypeFacts DEF Published
  <2>2. /\ excused' \subseteq Published' /\ events' \subseteq Published'
        /\ queue' \subseteq Entry /\ batch' \subseteq Entry
    BY <1>3, <1>4, <2>1
  <2>3. scan' \in [stage : {"none", "due", "asked", "list"}, from : 0..posts',
                   list : SUBSET Published'] /\ offset' \in 0..posts'
    BY <1>4, <1>5, <2>1
  <2>4. smart' \in BOOLEAN /\ applied' \in [Post -> [Path -> 0..2]] /\ raced' \in BOOLEAN
    BY <1>4 DEF Shape, TypeOK
  <2> QED  BY <1>4, <2>1, <2>2, <2>3, <2>4 DEF TypeOK
<1>7. HeldArePublished' /\ ListWhenFound'
  BY <1>4, <1>5 DEF HeldArePublished, ListWhenFound
<1>8. DownIsEmpty' /\ LinkedOrScraping'
  BY <1>4 DEF DownIsEmpty, LinkedOrScraping
<1> QED  BY <1>6, <1>7, <1>8 DEF Shape

LEMMA EventShape ==
  ASSUME Shape, Event
  PROVE  Shape'
<1>1. PICK p \in events : /\ events' = events \ {p} /\ offset' = Stored(p)
                          /\ Process({Direct(p)})
                          /\ excused' \subseteq excused \cup Published
                          /\ raced' \in BOOLEAN
  BY DEF Event, Direct, Shape, TypeOK
<1>2. p \in Published
  BY DEF Shape, TypeOK
<1>3. /\ UNCHANGED <<posts, old, up, mtproto, link, joined, retry, scan, seen, smart, crashes>>
      /\ up
  BY DEF Event, source, client
<1>4. offset' \in 0..posts
  BY <1>1, <1>2, TypeFacts, StoredIsLater DEF Published
<1>5. /\ queue' \subseteq Entry /\ batch' = batch /\ applied' \in Counts
      /\ \A e \in queue' \cup batch' : e.post \in Published
  BY <1>1, <1>2, OneEntry, ProcessShape DEF Direct, Path
<1>6. TypeOK'
  BY <1>1, <1>3, <1>4, <1>5 DEF Shape, TypeOK, Published, Counts
<1> QED  BY <1>3, <1>5, <1>6 DEF Shape, HeldArePublished, DownIsEmpty, LinkedOrScraping,
            ListWhenFound, Published

LEMMA ScanAnswerShape ==
  ASSUME Shape, ScanAnswer
  PROVE  Shape'
<1>1. PICK n : \/ /\ scan' = [scan EXCEPT !.stage = "list", !.list = Latest(scan.from, n)]
                  /\ offset' \in {posts, offset} /\ raced' \in BOOLEAN
                  /\ excused' \subseteq excused \cup Published
               \/ /\ scan' = NoScan /\ offset' = offset /\ raced' = raced
                  /\ excused' \subseteq excused \cup Published
  BY DEF ScanAnswer, Shape, TypeOK
<1>2. UNCHANGED <<posts, old, up, mtproto, link, joined, retry, events, seen, smart, crashes,
                  queue, batch, applied>> /\ up
  BY DEF ScanAnswer, source, client, work
<1>3. /\ scan' \in [stage : {"none", "due", "asked", "list"}, from : 0..posts,
                    list : SUBSET Published]
      /\ scan'.stage = "list" \/ scan'.list = {}
  <2>1. scan \in [stage : {"none", "due", "asked", "list"}, from : 0..posts,
                  list : SUBSET Published]
    BY DEF Shape, TypeOK
  <2>2. Latest(scan.from, n) \in SUBSET Published
    BY LatestArePublished
  <2>3. CASE scan' = [scan EXCEPT !.stage = "list", !.list = Latest(scan.from, n)]
    <3> DEFINE l == Latest(scan.from, n)
    <3> HIDE DEF l
    <3> QED  BY <2>1, <2>2, <2>3 DEF l
  <2>4. CASE scan' = NoScan
    BY <2>4, TypeFacts DEF NoScan
  <2> QED  BY <1>1, <2>3, <2>4
<1>4. TypeOK'
  BY <1>1, <1>2, <1>3, TypeFacts DEF Shape, TypeOK, Published
<1> QED  BY <1>2, <1>3, <1>4 DEF Shape, HeldArePublished, DownIsEmpty, LinkedOrScraping,
            ListWhenFound, Published

LEMMA ScanNextShape ==
  ASSUME Shape, ScanNext
  PROVE  Shape'
<1>1. /\ UNCHANGED <<posts, old, up, mtproto, link, joined, retry, events, seen, smart,
                     raced, excused, crashes>>
      /\ up /\ scan.stage = "list"
  BY DEF ScanNext, source, client
<1>2. /\ queue' \subseteq Entry /\ batch' \subseteq Entry /\ applied' \in Counts
      /\ \A e \in queue' \cup batch' : e.post \in Published
      /\ offset' \in 0..posts
      /\ scan' = NoScan \/ \E l \in SUBSET Published : scan' = [scan EXCEPT !.list = l]
  <2>1. CASE scan.list = {}
    BY <2>1, TypeFacts DEF ScanNext, work, Shape, TypeOK, HeldArePublished
  <2>2. CASE scan.list # {}
    <3> DEFINE p == Min(scan.list)
    <3>1. p \in scan.list /\ p \in Published
      BY <2>2, NextOfScan
    <3>2. /\ scan' = [scan EXCEPT !.list = @ \ {p}] /\ offset' = Stored(p)
          /\ Process({[post |-> p, path |-> "direct"]})
      BY <2>2 DEF ScanNext
    <3> HIDE DEF p
    <3>3. offset' \in 0..posts
      BY <3>1, <3>2, TypeFacts, StoredIsLater DEF Published
    <3>4. scan' = [scan EXCEPT !.list = scan.list \ {p}] /\ scan.list \ {p} \in SUBSET Published
      BY <3>2 DEF Shape, TypeOK
    <3>5. /\ queue' \subseteq Entry /\ batch' = batch /\ applied' \in Counts
          /\ \A e \in queue' \cup batch' : e.post \in Published
      BY <3>1, <3>2, OneEntry, ProcessShape DEF Path
    <3> QED  BY <3>3, <3>4, <3>5 DEF Shape, TypeOK
  <2> QED  BY <2>1, <2>2
<1>3. /\ scan' \in [stage : {"none", "due", "asked", "list"}, from : 0..posts,
                    list : SUBSET Published]
      /\ scan'.stage = "list" \/ scan'.list = {}
  BY <1>1, <1>2, TypeFacts DEF Shape, TypeOK, NoScan
<1>4. TypeOK'
  BY <1>1, <1>2, <1>3 DEF Shape, TypeOK, Published, Counts
<1> QED  BY <1>1, <1>2, <1>3, <1>4 DEF Shape, HeldArePublished, DownIsEmpty,
            LinkedOrScraping, ListWhenFound, Published

LEMMA ScrapeShape ==
  ASSUME Shape, Scrape
  PROVE  Shape'
<1> DEFINE E == {[post |-> p, path |-> "page"] : p \in OnPage}
<1>1. /\ UNCHANGED <<posts, old, up, mtproto, link, joined, retry, events, offset, scan,
                     smart, raced, excused, crashes>>
      /\ up /\ seen' = posts /\ Process(E)
  BY DEF Scrape, source, client
<1>2. E \subseteq Entry /\ \A e \in E : e.post \in Published
  BY TypeFacts DEF OnPage, Entry, Path
<1>3. /\ queue' \subseteq Entry /\ batch' = batch /\ applied' \in Counts
      /\ \A e \in queue' \cup batch' : e.post \in Published
  <2> HIDE DEF E
  <2> QED  BY <1>1, <1>2, ProcessShape
<1>4. TypeOK'
  BY <1>1, <1>3, TypeFacts DEF Shape, TypeOK, Published, Counts
<1> QED  BY <1>1, <1>3, <1>4 DEF Shape, HeldArePublished, DownIsEmpty, LinkedOrScraping,
            ListWhenFound, Published

(* The steps of a batch.                                                   *)
LEMMA BatchShape ==
  ASSUME Shape, Drain \/ BatchDone \/ BatchLost
  PROVE  Shape'
<1>0. /\ queue \subseteq Entry /\ batch \subseteq Entry
      /\ \A e \in queue \cup batch : e.post \in Published
  BY DEF Shape, TypeOK, HeldArePublished
<1>1. /\ UNCHANGED <<posts, old, up, mtproto, link, joined, retry, events, offset, scan, seen,
                     smart, raced, crashes>>
      /\ up
  <2>1. batch # {} => up
    BY DEF Shape, DownIsEmpty
  <2> QED  BY <2>1 DEF Drain, BatchDone, BatchLost, source, client
<1>2. /\ queue' \subseteq queue /\ batch' \subseteq queue /\ applied' \in Counts
      /\ excused' \subseteq excused \cup {e.post : e \in batch}
  BY TypeFacts, AppliedWithCounts DEF Drain, BatchDone, BatchLost
<1>3. excused' \subseteq Published
  BY <1>0, <1>2 DEF Shape, TypeOK
<1>4. TypeOK'
  BY <1>0, <1>1, <1>2, <1>3 DEF Shape, TypeOK, Published, Counts
<1> QED  BY <1>0, <1>1, <1>2, <1>4 DEF Shape, HeldArePublished, DownIsEmpty,
            LinkedOrScraping, ListWhenFound, Published

(* The steps that leave offset, queue and threats alone.                   *)
LEMMA OtherShape ==
  ASSUME Shape, Age \/ ScanAsk \/ Disconnect \/ Watchdog
  PROVE  Shape'
<1>1. UNCHANGED <<posts, up, joined, offset, seen, smart, raced, crashes, queue, batch, applied>>
  BY DEF Age, ScanAsk, Disconnect, Watchdog, WatchdogNotice, WatchdogBack, WatchdogFail,
         source, client, work
<1>2. excused' \subseteq excused \cup Published /\ events' \in {events, {}} /\ old' \in {posts, old}
  BY DEF Age, ScanAsk, Disconnect, Watchdog, WatchdogNotice, WatchdogBack, WatchdogFail,
         source, client, work
<1>3. /\ scan' \in [stage : {"none", "due", "asked", "list"}, from : 0..posts,
                    list : SUBSET Published]
      /\ scan' = scan \/ scan'.list = {}
  BY TypeFacts DEF Age, ScanAsk, Disconnect, Watchdog, WatchdogNotice, WatchdogBack,
         WatchdogFail, NoScan, Shape, TypeOK
<1>4. /\ mtproto' \in BOOLEAN /\ retry' \in BOOLEAN /\ link' \in {"none", "up", "lost"}
      /\ LinkedOrScraping'
      /\ ~up => UNCHANGED <<mtproto, link, retry, events, scan>>
  <2>1. /\ mtproto \in BOOLEAN /\ retry \in BOOLEAN /\ link \in {"none", "up", "lost"}
        /\ LinkedOrScraping /\ up' = up
    BY <1>1 DEF Shape, TypeOK
  <2>2. CASE Age \/ ScanAsk
    <3>1. UNCHANGED <<mtproto, retry, link>> /\ (~up => UNCHANGED <<events, scan>>)
      BY <2>2 DEF Age, ScanAsk, client
    <3> QED  BY <2>1, <3>1 DEF LinkedOrScraping
  <2>3. CASE Disconnect
    BY <2>1, <2>3 DEF Disconnect, LinkedOrScraping
  <2>4. CASE Watchdog
    <3>1. up /\ events' = events /\ scan' = scan
      BY <2>4, <2>1 DEF Watchdog, WatchdogNotice, WatchdogBack, WatchdogFail
    <3>2. CASE WatchdogNotice
      BY <2>1, <3>1, <3>2 DEF WatchdogNotice, LinkedOrScraping
    <3>3. CASE WatchdogBack
      BY <2>1, <3>1, <3>3 DEF WatchdogBack, LinkedOrScraping
    <3>4. CASE WatchdogFail
      BY <2>1, <3>1, <3>4 DEF WatchdogFail, LinkedOrScraping
    <3> QED  BY <2>4, <3>2, <3>3, <3>4 DEF Watchdog
  <2> QED  BY <2>2, <2>3, <2>4
<1>5. TypeOK'
  BY <1>1, <1>2, <1>3, <1>4, TypeFacts DEF Shape, TypeOK, Published
<1> QED  BY <1>1, <1>3, <1>4, <1>5 DEF Shape, HeldArePublished, DownIsEmpty,
            ListWhenFound, Published

LEMMA ShapeNext == Shape /\ [Next]_vars => Shape'
<1> SUFFICES ASSUME Shape, [Next]_vars PROVE Shape'
  OBVIOUS
<1>1. ASSUME Crash PROVE Shape'
  BY <1>1, GoneShape, TypeFacts DEF Crash
<1>2. ASSUME CrashInHandler PROVE Shape'
  <2>1. PICK p \in events : offset' = Stored(p)
    BY <1>2 DEF CrashInHandler
  <2>2. p \in Published
    BY DEF Shape, TypeOK
  <2>3. offset' \in 0..posts
    BY <2>1, <2>2, TypeFacts, StoredIsLater DEF Published
  <2> QED  BY <1>2, <2>3, GoneShape DEF CrashInHandler
<1>3. ASSUME UNCHANGED vars PROVE Shape'
  BY <1>3 DEF vars, source, client, work, Shape, TypeOK, HeldArePublished, DownIsEmpty,
            LinkedOrScraping, ListWhenFound, Published
<1> QED
  BY <1>1, <1>2, <1>3, PublishShape, StartShape, EventShape, ScanAnswerShape, ScanNextShape,
     ScrapeShape, BatchShape, OtherShape
     DEF Next, Ingest

-----------------------------------------------------------------------------
(* No post goes missing.                                                   *)

LEMMA KeptIsAccounted == Kept => Accounted
BY DEF Kept, Accounted, ToCome, Waiting

LEMMA TakenMeans ==
  ASSUME applied \in Counts, NEW p \in Post
  PROVE  p \in Taken <=> /\ p \in Published
                         /\ \/ \E w \in Path : applied[p][w] > 0
                            \/ \E e \in queue \cup batch : e.post = p
BY TimesCount DEF Taken

LEMMA TakenMeansNext ==
  ASSUME applied' \in Counts, NEW p \in Post
  PROVE  p \in Taken' <=> /\ p \in Published'
                          /\ \/ \E w \in Path : applied'[p][w] > 0
                             \/ \E e \in queue' \cup batch' : e.post = p
<1>1. /\ applied'[p]["direct"] \in 0..2 /\ applied'[p]["page"] \in 0..2
  BY DEF Counts, Path
<1>2. Times(p)' > 0 <=> \E w \in Path : applied'[p][w] > 0
  BY <1>1 DEF Times, Path
<1> QED  BY <1>2 DEF Taken

LEMMA TakenUnchanged ==
  ASSUME UNCHANGED <<posts, applied, queue, batch>>
  PROVE  Taken' = Taken /\ Published' = Published
BY DEF Taken, Published, Times

(* What is processed is taken, and what was taken stays so.                *)
LEMMA ProcessTakes ==
  ASSUME Shape, NEW E, E \subseteq Entry, \A e \in E : e.post \in Published, Process(E),
         posts' = posts
  PROVE  Taken \subseteq Taken' /\ \A e \in E : e.post \in Taken'
<1>1. Published' = Published /\ Published \subseteq Post /\ applied \in Counts
  BY TypeFacts DEF Published
<1>2. applied' \in Counts /\ batch' = batch
  BY ProcessShape
<1>3. ASSUME NEW p \in Published,
             \/ \E w \in Path : applied[p][w] > 0
             \/ \E e \in queue \cup batch : e.post = p
      PROVE  \/ \E w \in Path : applied'[p][w] > 0
             \/ \E e \in queue' \cup batch' : e.post = p
  <2>1. CASE smart
    BY <1>2, <1>3, <2>1 DEF Process
  <2>2. CASE ~smart
    <3>1. applied' = AppliedWith(E) /\ queue' = queue
      BY <2>2 DEF Process
    <3>2. \A w \in Path : applied[p][w] > 0 => applied'[p][w] > 0
      BY <1>1, <3>1, AppliedWithCounts
    <3> QED  BY <1>2, <1>3, <3>1, <3>2
  <2> QED  BY <2>1, <2>2
<1>4. Taken \subseteq Taken'
  <2> SUFFICES ASSUME NEW p \in Taken PROVE p \in Taken'
    OBVIOUS
  <2>1. p \in Published /\ p \in Post
    BY <1>1 DEF Taken
  <2> QED  BY <1>1, <1>2, <1>3, <2>1, TakenMeans, TakenMeansNext
<1>5. ASSUME NEW e \in E PROVE e.post \in Taken'
  <2>1. /\ e.post \in Post /\ e.path \in Path /\ e = [post |-> e.post, path |-> e.path]
        /\ e.post \in Published'
    BY <1>1 DEF Entry
  <2>2. CASE smart
    <3>1. e \in queue'
      BY <2>2 DEF Process
    <3> QED  BY <1>2, <2>1, <3>1, TakenMeansNext
  <2>3. CASE ~smart
    <3>1. applied' = AppliedWith(E)
      BY <2>3 DEF Process
    <3>2. applied'[e.post][e.path] > 0
      BY <1>1, <2>1, <3>1, AppliedWithCounts
    <3> QED  BY <1>2, <2>1, <3>2, TakenMeansNext
  <2> QED  BY <2>2, <2>3
<1> QED  BY <1>4, <1>5

LEMMA OneIsTaken ==
  ASSUME Shape, NEW p \in Published, Process({Direct(p)}), posts' = posts
  PROVE  Taken \subseteq Taken' /\ p \in Taken'
<1> DEFINE E == {Direct(p)}
<1>1. E \subseteq Entry /\ \A e \in E : e.post \in Published
  BY OneEntry DEF Direct, Path
<1>2. \E e \in E : e.post = p
  BY DEF Direct
<1> HIDE DEF E
<1>3. Taken \subseteq Taken' /\ \A e \in E : e.post \in Taken'
  <2>1. Process(E)
    BY DEF E
  <2> QED  BY <1>1, <2>1, ProcessTakes
<1> QED  BY <1>2, <1>3

LEMMA PublishKept ==
  ASSUME Shape, Kept, Publish
  PROVE  Kept'
<1>1. /\ posts' = posts + 1 /\ posts \in Nat /\ Published' = Published \cup {posts + 1}
      /\ posts + 1 \notin Published
  BY TypeFacts DEF Publish, Published
<1>2. UNCHANGED <<old, up, mtproto, link, joined, retry, offset, scan, seen, queue, batch,
                  applied>>
  BY DEF Publish, client, work
<1>3. /\ excused \subseteq excused' /\ Taken \subseteq Taken'
      /\ {posts + 1 - PageSize} \cap (Published \ Taken) \subseteq excused'
      /\ events \subseteq events' /\ events' \subseteq events \cup {posts + 1}
      /\ posts + 1 \in events' \/ link # "up" \/ ~joined
      /\ up /\ mtproto /\ (link = "lost" \/ retry) => posts + 1 \in excused'
  <2>1. Taken \subseteq Taken'
    BY <1>1, <1>2 DEF Taken, Times
  <2> QED  BY <2>1 DEF Publish
<1>4. ASSUME NEW p \in Waiting', p # posts + 1 PROVE InReach(p)' /\ ToCome(p)'
  <2>1. p \in Waiting /\ p \in Nat
    BY <1>1, <1>3, <1>4, TypeFacts DEF Waiting
  <2>2. InReach(p) /\ ToCome(p)
    BY <2>1 DEF Kept
  <2>3. p # posts + 1 - PageSize
    BY <1>3, <2>1, <1>4 DEF Waiting
  <2>4. InReach(p)'
    BY <1>1, <1>2, <1>3, <1>4, <2>1, <2>2, <2>3, Bounds, TypeFacts DEF InReach
  <2> QED  BY <1>2, <1>3, <2>2, <2>4 DEF ToCome
<1>5. ASSUME NEW p \in Waiting', p = posts + 1 PROVE InReach(p)' /\ ToCome(p)'
  <2>1. InReach(p)'
    BY <1>1, <1>2, <1>5, Bounds, TypeFacts DEF InReach
  <2>2. p \notin excused'
    BY <1>5 DEF Waiting
  <2>3. p > seen /\ p > offset
    BY <1>5, TypeFacts
  <2>4. link # "up" => link \in {"none", "lost"} /\ (up /\ mtproto => link = "lost")
    BY DEF Shape, TypeOK, LinkedOrScraping
  <2> QED  BY <1>2, <1>3, <1>5, <2>1, <2>2, <2>3, <2>4 DEF ToCome
<1> QED  BY <1>4, <1>5 DEF Kept

LEMMA AgeKept ==
  ASSUME Shape, Kept, Age
  PROVE  Kept'
<1>1. UNCHANGED <<posts, up, mtproto, link, joined, retry, offset, scan, seen, events, queue,
                  batch, applied>>
  BY DEF Age, client, work
<1>2. Taken' = Taken /\ Published' = Published
  BY <1>1, TakenUnchanged
<1>3. /\ excused \subseteq excused'
      /\ \A p \in Published \ excused' : p \in Taken \cup events \cup scan.list \/ seen > 0
  BY DEF Age
<1>4. ASSUME NEW p \in Waiting' PROVE InReach(p)' /\ ToCome(p)'
  <2>1. p \in Waiting /\ p \in Published \ excused' /\ p \notin Taken
    BY <1>2, <1>3, <1>4 DEF Waiting
  <2>2. InReach(p) /\ ToCome(p)
    BY <2>1 DEF Kept
  <2>3. p \in events \cup scan.list \/ seen > 0
    BY <1>3, <2>1
  <2>4. InReach(p)'
    BY <1>1, <2>2, <2>3, TypeFacts DEF InReach
  <2> QED  BY <1>1, <2>2, <2>4 DEF ToCome
<1> QED  BY <1>4 DEF Kept

LEMMA StartKept ==
  ASSUME Shape, Kept, Start
  PROVE  Kept'
<1>1. /\ ~up /\ up' = TRUE
      /\ UNCHANGED <<posts, old, events, offset, seen, queue, batch, applied>>
      /\ excused \subseteq excused'
  BY DEF Start, StartScraper, StartMtproto, Fresh, source, work
<1>2. /\ \/ mtproto' = FALSE /\ scan' = NoScan
         \/ scan' = [NoScan EXCEPT !.stage = "due"]
         \/ Published \ Taken \subseteq excused'
  BY DEF Start, StartScraper, StartMtproto
<1>3. Taken' = Taken /\ Published' = Published
  BY <1>1, TakenUnchanged
<1>4. events = {} /\ scan = NoScan /\ seen = 0 /\ events' = {} /\ seen' = 0
  BY <1>1 DEF Shape, DownIsEmpty
<1>5. ASSUME NEW p \in Waiting' PROVE InReach(p)' /\ ToCome(p)'
  <2>1. p \in Waiting /\ p \in Published \ Taken /\ p \notin excused' /\ p \in Nat /\ p > 0
    BY <1>1, <1>3, <1>5, TypeFacts DEF Waiting, Published
  <2>2. InReach(p)
    BY <2>1 DEF Kept
  <2>3. p > posts - PageSize /\ p > old /\ p > offset
    BY <1>1, <1>4, <2>2 DEF InReach, NoScan
  <2>4. InReach(p)'
    BY <1>1, <2>3 DEF InReach
  <2>5. \/ mtproto' = FALSE
        \/ scan'.stage = "due"
    BY <1>2, <2>1 DEF NoScan
  <2> QED  BY <1>1, <1>4, <2>1, <2>3, <2>4, <2>5 DEF ToCome
<1> QED  BY <1>5 DEF Kept

(* A server that ends: what it held, and what is behind its offset, the    *)
(* page or the hour, counts as excused.                                    *)
LEMMA GoneKept ==
  ASSUME Shape, Gone, offset' \in 0..posts,
         excused' = excused \cup {p \in 1..Max({offset', old, posts - PageSize}) : Times(p) = 0}
  PROVE  Kept'
<1> DEFINE m == Max({offset', old, posts - PageSize})
<1>1. offset' \in Int /\ old \in Int /\ posts - PageSize \in Int
  BY TypeFacts, Bounds
<1>2. m \in Int /\ m >= offset' /\ m >= old /\ m >= posts - PageSize
  BY <1>1, MaxOfThree
<1> HIDE DEF m
<1>3. /\ UNCHANGED <<posts, old, applied>> /\ up' = FALSE /\ events' = {} /\ seen' = 0
      /\ excused' = excused \cup {p \in 1..m : Times(p) = 0}
  BY DEF Gone, source, m
<1>4. ASSUME NEW p \in Waiting' PROVE InReach(p)' /\ ToCome(p)'
  <2>1. p \in Published /\ p \in Post /\ p \in Nat /\ p > 0 /\ p \notin Taken' /\ p \notin excused'
    BY <1>3, <1>4, TypeFacts DEF Waiting, Published
  <2>2. Times(p) = 0
    <3>1. Times(p) = Times(p)'
      BY <1>3 DEF Times
    <3>2. ~(Times(p) > 0)
      BY <1>3, <2>1, <3>1 DEF Taken, Published
    <3>3. Times(p) \in Nat
      BY <2>1, TypeFacts DEF Times, Counts, Path
    <3> QED  BY <3>2, <3>3
  <2>3. p > m
    BY <1>2, <1>3, <2>1, <2>2
  <2>4. p > offset' /\ p > old /\ p > posts - PageSize
    BY <1>1, <1>2, <2>1, <2>3
  <2> QED  BY <1>3, <2>4 DEF InReach, ToCome
<1> QED  BY <1>4 DEF Kept

(* A step that leaves the client, the offset and the page where they are,  *)
(* and lets no post out of hand.                                           *)
LEMMA StillKept ==
  ASSUME Shape, Kept, UNCHANGED <<posts, old, up, mtproto, link, joined, retry, offset, seen>>,
         excused \subseteq excused', Taken \cap Relevant \subseteq Taken' \cup excused',
         scan'.stage \in {"due", "asked"} \/ scan.stage \notin {"due", "asked"},
         events \cup scan.list \subseteq events' \cup scan'.list \cup Taken'
  PROVE  Kept'
<1>1. Published' = Published
  BY DEF Published
<1>2. ASSUME NEW p \in Waiting' PROVE InReach(p)' /\ ToCome(p)'
  <2>1. p \in Waiting /\ p \notin Taken'
    BY <1>1, <1>2 DEF Waiting
  <2>2. InReach(p) /\ ToCome(p)
    BY <2>1 DEF Kept
  <2>3. p \in events \cup scan.list => p \in events' \cup scan'.list
    BY <2>1
  <2>4. InReach(p)'
    BY <2>2, <2>3 DEF InReach
  <2> QED  BY <2>2, <2>3, <2>4 DEF ToCome
<1> QED  BY <1>2 DEF Kept

LEMMA EventKept ==
  ASSUME Shape, Kept, Event
  PROVE  Kept'
<1>1. PICK p \in events : /\ events' = events \ {p} /\ offset' = Stored(p)
                          /\ Process({Direct(p)})
                          /\ scan.stage \in {"due", "asked"} =>
                               \A q \in Published \ (Taken \cup events) :
                                 q < p => q \in excused'
  BY DEF Event, Direct
<1>2. p \in Published /\ p \in Nat
  BY TypeFacts DEF Shape, TypeOK
<1>3. /\ UNCHANGED <<posts, old, up, mtproto, link, joined, retry, scan, seen>> /\ up
      /\ excused \subseteq excused'
  BY DEF Event, source, client
<1>4. Taken \subseteq Taken' /\ p \in Taken' /\ Published' = Published
  BY <1>1, <1>2, <1>3, OneIsTaken DEF Published
<1>5. Stored(p) = offset \/ Stored(p) = p
  BY <1>2, TypeFacts, StoredIsLater
<1>7. ASSUME NEW q \in Waiting' PROVE InReach(q)' /\ ToCome(q)'
  <2>1. q \in Waiting /\ q # p /\ q \notin excused' /\ q \in Published /\ q \notin Taken /\ q \in Nat
    BY <1>3, <1>4, <1>7, TypeFacts DEF Waiting
  <2>2. InReach(q) /\ ToCome(q)
    BY <2>1 DEF Kept
  <2>3. InReach(q)'
    BY <1>1, <1>3, <2>1, <2>2 DEF InReach
  <2>4. q \in events \cup scan.list => q \in events' \cup scan'.list
    BY <1>1, <1>3, <2>1
  <2>5. scan.stage \in {"due", "asked"} /\ q > offset /\ q \notin events => q > offset'
    BY <1>1, <1>2, <1>5, <2>1
  <2> QED  BY <1>3, <2>2, <2>3, <2>4, <2>5 DEF ToCome
<1> QED  BY <1>7 DEF Kept

LEMMA ScanAskKept ==
  ASSUME Shape, Kept, ScanAsk
  PROVE  Kept'
<1>1. /\ UNCHANGED <<posts, old, up, mtproto, link, joined, retry, offset, seen, events, queue,
                     batch, applied>>
      /\ scan.stage = "due" /\ excused \subseteq excused'
  BY DEF ScanAsk, source, client, work
<1>2. Taken' = Taken /\ Published' = Published
  BY <1>1, TakenUnchanged
<1>3. scan.list = {}
  BY <1>1 DEF Shape, ListWhenFound
<1>4. CASE mtproto
  <2>1. scan'.stage = "asked"
    BY <1>4 DEF ScanAsk
  <2> QED  BY <1>1, <1>2, <1>3, <2>1, StillKept
<1>5. CASE ~mtproto
  <2>1. Waiting' = {}
    BY <1>2, <1>5 DEF ScanAsk, Waiting
  <2> QED  BY <2>1 DEF Kept
<1> QED  BY <1>4, <1>5

(* After the answer only what was found, or is an event, is not excused.   *)
LEMMA ScanAnswerKept ==
  ASSUME Shape, Kept, ScanAnswer
  PROVE  Kept'
<1> DEFINE found == Latest(scan.from, IF scan.from = 0 THEN FirstLimit ELSE ScanLimit)
<1>1. /\ UNCHANGED <<posts, old, up, events, seen, queue, batch, applied>> /\ up
      /\ excused \subseteq excused'
      /\ \A p \in Published : p \in Taken \cup events \cup scan'.list \cup excused'
  <2>1. CASE scan' = [scan EXCEPT !.stage = "list", !.list = found]
             /\ excused' = excused \cup (Published \ (Taken \cup found \cup events))
    <3>1. scan'.list = found
      <4> HIDE DEF found
      <4> QED  BY <2>1 DEF Shape, TypeOK
    <3> QED  BY <2>1, <3>1 DEF ScanAnswer, source, work
  <2>2. CASE scan' = NoScan /\ excused' = excused \cup (Published \ (Taken \cup events))
    BY <2>2 DEF ScanAnswer, source, work
  <2> QED  BY <2>1, <2>2 DEF ScanAnswer
<1>2. Taken' = Taken /\ Published' = Published
  BY <1>1, TakenUnchanged
<1>3. ASSUME NEW p \in Waiting' PROVE InReach(p)' /\ ToCome(p)'
  <2>1. p \in Waiting /\ p \in events \cup scan'.list
    BY <1>1, <1>2, <1>3 DEF Waiting
  <2>2. InReach(p)
    BY <2>1 DEF Kept
  <2> QED  BY <1>1, <2>1, <2>2 DEF InReach, ToCome
<1> QED  BY <1>3 DEF Kept

LEMMA ScanNextKept ==
  ASSUME Shape, Kept, ScanNext
  PROVE  Kept'
<1>1. /\ UNCHANGED <<posts, old, up, mtproto, link, joined, retry, seen, events, excused>>
      /\ up /\ scan.stage = "list"
  BY DEF ScanNext, source, client
<1>2. Taken \subseteq Taken' /\ scan.list \subseteq scan'.list \cup Taken'
  <2>1. CASE scan.list = {}
    <3>1. UNCHANGED <<queue, batch, applied>>
      BY <2>1 DEF ScanNext, work
    <3> QED  BY <1>1, <2>1, <3>1, TakenUnchanged
  <2>2. CASE scan.list # {}
    <3> DEFINE p == Min(scan.list)
    <3>1. p \in scan.list /\ p \in Published
      BY <2>2, NextOfScan
    <3>2. scan' = [scan EXCEPT !.list = @ \ {p}] /\ Process({Direct(p)})
      BY <2>2 DEF ScanNext, Direct
    <3> HIDE DEF p
    <3>3. Taken \subseteq Taken' /\ p \in Taken'
      BY <1>1, <3>1, <3>2, OneIsTaken
    <3>4. scan'.list = scan.list \ {p}
      BY <3>2 DEF Shape, TypeOK
    <3> QED  BY <3>3, <3>4
  <2> QED  BY <2>1, <2>2
<1>3. ASSUME NEW p \in Waiting' PROVE InReach(p)' /\ ToCome(p)'
  <2>1. p \in Waiting /\ (p \in scan.list => p \in scan'.list)
    BY <1>1, <1>2, <1>3 DEF Waiting, Published
  <2>2. InReach(p) /\ ToCome(p)
    BY <2>1 DEF Kept
  <2> QED  BY <1>1, <2>1, <2>2 DEF InReach, ToCome
<1> QED  BY <1>3 DEF Kept

(* What is still within reach is on the page, so that a pass takes it.     *)
LEMMA ScrapeKept ==
  ASSUME Shape, Kept, Scrape
  PROVE  Kept'
<1> DEFINE E == {[post |-> p, path |-> "page"] : p \in OnPage}
<1>1. /\ UNCHANGED <<posts, old, up, mtproto, link, joined, retry, events, offset, scan,
                     excused>>
      /\ up /\ seen' = posts /\ posts > seen /\ Process(E)
  BY DEF Scrape, source, client
<1>2. E \subseteq Entry /\ \A e \in E : e.post \in Published
  BY TypeFacts DEF OnPage, Entry, Path
<1>3. Taken \subseteq Taken' /\ OnPage \subseteq Taken'
  <2>1. ASSUME NEW p \in OnPage PROVE \E e \in E : e.post = p
    <3>1. [post |-> p, path |-> "page"] \in E
      OBVIOUS
    <3> QED  BY <3>1
  <2> HIDE DEF E
  <2> QED  BY <1>1, <1>2, <2>1, ProcessTakes
<1>4. ASSUME NEW p \in Waiting' PROVE InReach(p)' /\ ToCome(p)'
  <2>1. p \in Waiting /\ p \notin OnPage /\ p \in Published /\ p \in Nat
    BY <1>1, <1>3, <1>4, TypeFacts DEF Waiting, Published
  <2>2. InReach(p) /\ ToCome(p)
    BY <2>1 DEF Kept
  <2>3. p \notin events \cup scan.list => p <= seen
    <3>1. p > posts - PageSize => ~(IF seen = 0 THEN p > old ELSE p > seen)
      BY <2>1 DEF OnPage
    <3> QED  BY <2>1, <2>2, <3>1, TypeFacts DEF InReach
  <2>4. seen' # 0
    BY <1>1, TypeFacts
  <2>5. InReach(p)'
    BY <1>1, <2>2, <2>4 DEF InReach
  <2>6. p \notin events \cup scan.list => ~(p > seen)
    BY <2>1, <2>3, TypeFacts
  <2> QED  BY <1>1, <2>2, <2>5, <2>6 DEF ToCome
<1> QED  BY <1>4 DEF Kept

LEMMA BatchKept ==
  ASSUME Shape, Kept, Drain \/ BatchDone \/ BatchLost
  PROVE  Kept'
<1>1. /\ UNCHANGED <<posts, old, up, mtproto, link, joined, retry, offset, seen, events, scan>>
      /\ excused \subseteq excused'
  BY DEF Drain, BatchDone, BatchLost, source, client
<1>2. applied \in Counts /\ applied' \in Counts /\ Published' = Published
      /\ Published \subseteq Post
  BY <1>1, TypeFacts, BatchShape DEF Published, Shape, TypeOK, Counts
<1>3. \A e \in batch : e \in Entry /\ e = [post |-> e.post, path |-> e.path]
                       /\ e.path \in Path
  BY DEF Shape, TypeOK, Entry
<1>4. ASSUME NEW p \in Taken \cap Relevant PROVE p \in Taken' \cup excused'
  <2>1. /\ p \in Published /\ p \in Post
        /\ \/ \E w \in Path : applied[p][w] > 0
           \/ \E e \in queue \cup batch : e.post = p
    BY <1>2, TakenMeans DEF Taken
  <2>2. CASE Drain
    <3>1. \A e \in queue : e.post = p => e \in batch'
      BY <2>2 DEF Drain
    <3>2. applied' = applied /\ batch = {}
      BY <2>2 DEF Drain
    <3> QED  BY <1>2, <2>1, <3>1, <3>2, TakenMeansNext
  <2>3. CASE BatchDone
    <3>1. queue' = queue /\ applied' = AppliedWith(batch)
      BY <2>3 DEF BatchDone
    <3>2. ASSUME NEW e \in batch, e.post = p PROVE \E w \in Path : applied'[p][w] > 0
      BY <1>2, <1>3, <2>1, <3>1, <3>2, AppliedWithCounts
    <3>3. \A w \in Path : applied[p][w] > 0 => applied'[p][w] > 0
      BY <1>2, <2>1, <3>1, AppliedWithCounts
    <3> QED  BY <1>2, <2>1, <3>1, <3>2, <3>3, TakenMeansNext
  <2>4. CASE BatchLost
    <3>1. PICK E \in SUBSET batch : applied' = AppliedWith(E)
      BY <2>4 DEF BatchLost
    <3>2. queue' = queue /\ \A e \in batch : e.post \in excused'
      BY <2>4 DEF BatchLost
    <3>3. \A w \in Path : applied[p][w] > 0 => applied'[p][w] > 0
      BY <1>2, <2>1, <3>1, AppliedWithCounts
    <3> QED  BY <1>2, <2>1, <3>2, <3>3, TakenMeansNext
  <2> QED  BY <2>2, <2>3, <2>4
<1> QED  BY <1>1, <1>4, StillKept

LEMMA ClientKept ==
  ASSUME Shape, Kept, Disconnect \/ Watchdog
  PROVE  Kept'
<1>1. /\ UNCHANGED <<posts, old, up, joined, offset, seen, scan, queue, batch, applied>>
  BY DEF Disconnect, Watchdog, WatchdogNotice, WatchdogBack, WatchdogFail, source, work
<1>2. Taken' = Taken /\ Published' = Published
  BY <1>1, TakenUnchanged
<1>3. CASE Disconnect \/ WatchdogBack
  <2>1. Waiting' = {}
    BY <1>2, <1>3 DEF Disconnect, WatchdogBack, Waiting
  <2> QED  BY <2>1 DEF Kept
<1>4. CASE WatchdogNotice \/ WatchdogFail
  <2>1. UNCHANGED <<events, excused>>
    BY <1>4 DEF WatchdogNotice, WatchdogFail
  <2>2. ~mtproto'
    BY <1>4 DEF WatchdogNotice, WatchdogFail, Shape, LinkedOrScraping
  <2>3. ASSUME NEW p \in Waiting' PROVE InReach(p)' /\ ToCome(p)'
    <3>1. p \in Waiting
      BY <1>2, <2>1, <2>3 DEF Waiting
    <3>2. InReach(p) /\ ToCome(p)
      BY <3>1 DEF Kept
    <3> QED  BY <1>1, <2>1, <2>2, <3>2 DEF InReach, ToCome
  <2> QED  BY <2>3 DEF Kept
<1> QED  BY <1>3, <1>4 DEF Watchdog

LEMMA KeptNext == Shape /\ Kept /\ [Next]_vars => Kept'
<1> SUFFICES ASSUME Shape, Kept, [Next]_vars PROVE Kept'
  OBVIOUS
<1>1. ASSUME Crash PROVE Kept'
  BY <1>1, GoneKept, TypeFacts DEF Crash
<1>2. ASSUME CrashInHandler PROVE Kept'
  <2>1. PICK p \in events : offset' = Stored(p)
    BY <1>2 DEF CrashInHandler
  <2>2. p \in Published
    BY DEF Shape, TypeOK
  <2>3. offset' \in 0..posts
    BY <2>1, <2>2, TypeFacts, StoredIsLater DEF Published
  <2> QED  BY <1>2, <2>3, GoneKept DEF CrashInHandler
<1>3. ASSUME UNCHANGED vars PROVE Kept'
  <2>1. UNCHANGED <<posts, old, up, mtproto, link, joined, retry, offset, seen, events, scan,
                    excused, queue, batch, applied>>
    BY <1>3 DEF vars, source, client, work
  <2>2. Taken' = Taken
    BY <2>1, TakenUnchanged
  <2> QED  BY <2>1, <2>2, StillKept
<1> QED
  BY <1>1, <1>2, <1>3, PublishKept, AgeKept, StartKept, EventKept, ScanAskKept,
     ScanAnswerKept, ScanNextKept, ScrapeKept, BatchKept, ClientKept
     DEF Next, Ingest

-----------------------------------------------------------------------------
(* None is applied twice.                                                  *)

LEMMA NoneTwiceMeans ==
  ASSUME NoneTwice, smart, ~raced
  PROVE  /\ scan.stage = "asked" => scan.from = offset
         /\ \A p \in Post : InOnePlace(p)
BY DEF NoneTwice

(* Steps that give nobody a post and leave the offset.                     *)
LEMMA LessIsOnce ==
  ASSUME Shape, NoneTwice, UNCHANGED <<queue, batch, applied, offset, smart, raced>>,
         events' \subseteq events, scan'.list \subseteq scan.list,
         scan' = scan \/ scan'.stage # "asked" \/ scan'.from = offset
  PROVE  NoneTwice'
<1> SUFFICES ASSUME smart, ~raced
             PROVE  /\ scan'.stage = "asked" => scan'.from = offset'
                    /\ \A p \in Post : InOnePlace(p)'
  BY DEF NoneTwice
<1>1. scan'.stage = "asked" => scan'.from = offset'
  BY NoneTwiceMeans
<1>2. ASSUME NEW p \in Post PROVE InOnePlace(p)'
  <2>1. InOnePlace(p)
    BY NoneTwiceMeans
  <2>2. Handled(p)' <=> Handled(p)
    BY DEF Handled
  <2> QED  BY <2>1, <2>2 DEF InOnePlace
<1> QED  BY <1>1, <1>2

LEMMA PublishOnce ==
  ASSUME Shape, NoneTwice, Publish
  PROVE  NoneTwice'
<1>1. /\ UNCHANGED <<queue, batch, applied, offset, smart, raced, scan>>
      /\ events' \subseteq events \cup {posts + 1}
  BY DEF Publish, work
<1> SUFFICES ASSUME smart, ~raced
             PROVE  /\ scan'.stage = "asked" => scan'.from = offset'
                    /\ \A p \in Post : InOnePlace(p)'
  BY <1>1 DEF NoneTwice
<1>2. ASSUME NEW p \in Post PROVE InOnePlace(p)'
  <2>1. InOnePlace(p) /\ (Handled(p)' <=> Handled(p))
    BY <1>1, NoneTwiceMeans DEF Handled
  <2>2. CASE p # posts + 1
    BY <1>1, <2>1, <2>2 DEF InOnePlace
  <2>3. CASE p = posts + 1
    <3>1. p \notin scan.list
      BY <2>3, TypeFacts DEF Shape, TypeOK, Published
    <3>2. ~Handled(p)
      BY <2>1, <2>3, TypeFacts DEF InOnePlace
    <3> QED  BY <1>1, <2>1, <3>1, <3>2 DEF InOnePlace
  <2> QED  BY <2>2, <2>3
<1> QED  BY <1>1, <1>2, NoneTwiceMeans

LEMMA GoneOnce ==
  ASSUME Shape, NoneTwice, Gone, offset' \in Nat, offset' >= offset
  PROVE  NoneTwice'
<1>1. /\ UNCHANGED <<smart, raced, applied>>
      /\ events' = {} /\ scan' = NoScan /\ queue' = {} /\ batch' = {}
  BY DEF Gone
<1>2. scan'.stage # "asked" /\ scan'.list = {}
  BY <1>1 DEF NoScan
<1> SUFFICES ASSUME smart, ~raced, NEW p \in Post PROVE InOnePlace(p)'
  BY <1>1, <1>2 DEF NoneTwice
<1>3. InOnePlace(p) /\ (Handled(p)' => Handled(p)) /\ p \in Nat
  BY <1>1, NoneTwiceMeans DEF Handled, Post
<1>4. Handled(p)' => p <= offset'
  BY <1>3, TypeFacts DEF InOnePlace
<1> QED  BY <1>1, <1>2, <1>3, <1>4 DEF InOnePlace

(* A post that goes from the events, or from the list, into the queue.     *)
LEMMA HandlingOnce ==
  ASSUME Shape, NoneTwice, NEW p \in Published, smart, ~raced,
         UNCHANGED <<batch, applied>>, queue' = queue \cup {Direct(p)},
         p \in events \cup scan.list, p \notin events' \cup scan'.list,
         events' \subseteq events, scan'.list \subseteq scan.list,
         offset' = Stored(p)
  PROVE  \A q \in Post : InOnePlace(q)'
<1>1. p \in Post /\ p \in Nat /\ offset \in Nat /\ offset' >= offset /\ offset' >= p
      /\ offset' \in Nat
  BY TypeFacts, StoredIsLater
<1> SUFFICES ASSUME NEW q \in Post PROVE InOnePlace(q)'
  OBVIOUS
<1>2. InOnePlace(q) /\ q \in Nat
  BY NoneTwiceMeans DEF Post
<1>3. CASE q = p
  <2>1. ~Handled(p)
    BY <1>2, <1>3 DEF InOnePlace
  <2>2. Direct(p) \notin batch /\ ~(applied[p]["direct"] > 0) /\ applied[p]["direct"] \in 0..2
    BY <1>1, <2>1, TypeFacts DEF Handled, Counts, Path
  <2> QED  BY <1>1, <1>3, <2>2 DEF InOnePlace
<1>4. CASE q # p
  <2>1. Direct(q) # Direct(p)
    BY <1>4 DEF Direct
  <2>2. Handled(q)' <=> Handled(q)
    BY <2>1 DEF Handled
  <2>3. Handled(q)' => q <= offset'
    BY <1>1, <1>2, <2>2 DEF InOnePlace
  <2> QED  BY <1>2, <2>1, <2>2, <2>3 DEF InOnePlace
<1> QED  BY <1>3, <1>4

LEMMA EventOnce ==
  ASSUME Shape, NoneTwice, Event
  PROVE  NoneTwice'
<1>1. PICK p \in events : /\ events' = events \ {p} /\ offset' = Stored(p)
                          /\ Process({Direct(p)})
                          /\ raced' = (raced \/ scan.stage = "asked")
  BY DEF Event, Direct
<1>2. UNCHANGED <<scan, smart>> /\ p \in Published
  BY DEF Event, Shape, TypeOK
<1> SUFFICES ASSUME smart, ~raced'
             PROVE  /\ scan.stage # "asked"
                    /\ \A q \in Post : InOnePlace(q)'
  BY <1>2 DEF NoneTwice
<1>3. ~raced /\ scan.stage # "asked"
  BY <1>1
<1>4. queue' = queue \cup {Direct(p)} /\ UNCHANGED <<batch, applied>>
  BY <1>1 DEF Process
<1>5. p \in Post
  BY <1>2, TypeFacts
<1>6. p \notin scan.list
  BY <1>1, <1>3, <1>5, NoneTwiceMeans DEF InOnePlace
<1>7. p \notin events' \cup scan'.list /\ events' \subseteq events /\ scan'.list \subseteq scan.list
  BY <1>1, <1>2, <1>6
<1> QED  BY <1>1, <1>2, <1>3, <1>4, <1>7, HandlingOnce

LEMMA ScanNextOnce ==
  ASSUME Shape, NoneTwice, ScanNext
  PROVE  NoneTwice'
<1>1. UNCHANGED <<smart, raced, events>> /\ scan.stage = "list"
  BY DEF ScanNext
<1>2. CASE scan.list = {}
  <2>1. UNCHANGED <<queue, batch, applied, offset>> /\ scan' = NoScan
    BY <1>2 DEF ScanNext, work
  <2>2. scan'.stage # "asked" /\ scan'.list = {}
    BY <2>1 DEF NoScan
  <2> QED  BY <1>1, <2>1, <2>2, LessIsOnce
<1>3. CASE scan.list # {}
  <2> DEFINE p == Min(scan.list)
  <2>1. p \in scan.list /\ p \in Published
    BY <1>3, NextOfScan
  <2>2. /\ scan' = [scan EXCEPT !.list = @ \ {p}] /\ offset' = Stored(p)
        /\ Process({Direct(p)})
    BY <1>3 DEF ScanNext, Direct
  <2> HIDE DEF p
  <2> SUFFICES ASSUME smart, ~raced
               PROVE  /\ scan'.stage # "asked"
                      /\ \A q \in Post : InOnePlace(q)'
    BY <1>1 DEF NoneTwice
  <2>3. scan'.list = scan.list \ {p} /\ scan'.stage = "list"
    BY <1>1, <2>2 DEF Shape, TypeOK
  <2>4. queue' = queue \cup {Direct(p)} /\ UNCHANGED <<batch, applied>>
    BY <2>2 DEF Process
  <2>5. p \in Post
    BY <2>1, TypeFacts
  <2>6. p \notin events
    BY <2>1, <2>5, NoneTwiceMeans DEF InOnePlace
  <2> QED  BY <1>1, <2>1, <2>2, <2>3, <2>4, <2>6, HandlingOnce
<1> QED  BY <1>2, <1>3

(* The answer holds what is after the offset, and nothing that was handled *)
(* is; unless an event crossed it.                                         *)
LEMMA ScanAnswerOnce ==
  ASSUME Shape, NoneTwice, ScanAnswer
  PROVE  NoneTwice'
<1> DEFINE found == Latest(scan.from, IF scan.from = 0 THEN FirstLimit ELSE ScanLimit)
<1>1. UNCHANGED <<smart, events, queue, batch, applied>> /\ scan.stage = "asked"
  BY DEF ScanAnswer, work
<1>2. CASE scan' = NoScan /\ UNCHANGED <<offset, raced>>
  <2>1. scan'.stage # "asked" /\ scan'.list = {}
    BY <1>2 DEF NoScan
  <2> QED  BY <1>1, <1>2, <2>1, LessIsOnce
<1>3. CASE /\ scan' = [scan EXCEPT !.stage = "list", !.list = found]
           /\ raced' = (raced \/ found \cap events # {})
           /\ offset' \in {offset, posts}
  <2>1. \A p \in found : p > scan.from
    BY DEF Latest
  <2> HIDE DEF found
  <2>2. scan'.stage = "list" /\ scan'.list = found
    BY <1>3 DEF Shape, TypeOK
  <2> SUFFICES ASSUME smart, ~raced', NEW p \in Post PROVE InOnePlace(p)'
    BY <1>1, <2>2 DEF NoneTwice
  <2>3. ~raced /\ found \cap events = {}
    BY <1>3
  <2>4. Handled(p)' <=> Handled(p)
    BY <1>1 DEF Handled
  <2>5. InOnePlace(p) /\ p \in Nat /\ scan.from = offset /\ p \notin found \cap events
    BY <1>1, <2>3, NoneTwiceMeans DEF Post
  <2>6. Handled(p)' => p <= offset'
    BY <1>3, <2>4, <2>5, TypeFacts DEF InOnePlace
  <2>7. p \in found => ~Handled(p)
    BY <2>1, <2>5, TypeFacts DEF InOnePlace
  <2> QED  BY <1>1, <2>2, <2>4, <2>5, <2>6, <2>7 DEF InOnePlace
<1>4. \/ scan' = NoScan /\ UNCHANGED <<offset, raced>>
      \/ /\ scan' = [scan EXCEPT !.stage = "list", !.list = found]
         /\ raced' = (raced \/ found \cap events # {})
         /\ offset' \in {offset, posts}
  BY DEF ScanAnswer
<1> QED  BY <1>2, <1>3, <1>4

LEMMA ScrapeOnce ==
  ASSUME Shape, NoneTwice, Scrape
  PROVE  NoneTwice'
<1> DEFINE E == {[post |-> p, path |-> "page"] : p \in OnPage}
<1>1. UNCHANGED <<smart, raced, events, scan, offset>> /\ Process(E)
  BY DEF Scrape
<1>2. \A p \in Post : Direct(p) \notin E
  BY DEF Direct
<1> HIDE DEF E
<1> SUFFICES ASSUME smart, ~raced PROVE \A p \in Post : InOnePlace(p)'
  BY <1>1, NoneTwiceMeans DEF NoneTwice
<1> SUFFICES ASSUME NEW p \in Post PROVE InOnePlace(p)'
  OBVIOUS
<1>3. queue' = queue \cup E /\ UNCHANGED <<batch, applied>>
  BY <1>1 DEF Process
<1>4. InOnePlace(p) /\ (Direct(p) \in queue' <=> Direct(p) \in queue)
  BY <1>2, <1>3, NoneTwiceMeans
<1>5. Handled(p)' <=> Handled(p)
  BY <1>3, <1>4 DEF Handled
<1> QED  BY <1>1, <1>3, <1>4, <1>5 DEF InOnePlace

LEMMA BatchOnce ==
  ASSUME Shape, NoneTwice, Drain \/ BatchDone \/ BatchLost
  PROVE  NoneTwice'
<1>1. UNCHANGED <<smart, raced, events, scan, offset>>
  BY DEF Drain, BatchDone, BatchLost
<1> SUFFICES ASSUME smart, ~raced PROVE \A p \in Post : InOnePlace(p)'
  BY <1>1, NoneTwiceMeans DEF NoneTwice
<1> SUFFICES ASSUME NEW p \in Post PROVE InOnePlace(p)'
  OBVIOUS
<1>2. InOnePlace(p) /\ applied[p]["direct"] \in 0..2
  BY NoneTwiceMeans, TypeFacts DEF Counts, Path
<1>3. CASE Drain
  <2>1. queue' = {} /\ batch' \subseteq queue /\ applied' = applied
    BY <1>3 DEF Drain
  <2>2. Handled(p)' => Handled(p)
    BY <2>1 DEF Handled
  <2> QED  BY <1>1, <1>2, <2>1, <2>2 DEF InOnePlace
<1>4. CASE BatchDone \/ BatchLost
  <2>1. PICK E \in SUBSET batch : applied' = AppliedWith(E)
    BY <1>4 DEF BatchDone, BatchLost
  <2>2. queue' = queue /\ batch' = {}
    BY <1>4 DEF BatchDone, BatchLost
  <2> DEFINE n == applied[p]["direct"]
             m == applied'[p]["direct"]
  <2>3. m \in 0..2 /\ m <= n + 1 /\ (Direct(p) \notin E => m = n)
    <3>1. AppliedWith(E) \in Counts
      BY TypeFacts, AppliedWithCounts
    <3>2. m \in 0..2
      BY <2>1, <3>1 DEF Counts, Path
    <3>3. AppliedWith(E)[p]["direct"] <= n + 1
          /\ (Direct(p) \notin E => AppliedWith(E)[p]["direct"] = n)
      BY TypeFacts, AppliedWithCounts DEF Path, Direct
    <3> QED  BY <2>1, <3>2, <3>3
  <2> HIDE DEF n, m
  <2>4. Direct(p) \in batch => n = 0 /\ Direct(p) \notin queue
    BY <1>2 DEF InOnePlace, n
  <2>5. n \in 0..2 /\ n <= 1
    BY <1>2 DEF InOnePlace, n
  <2>6. m > 0 => n > 0 \/ Direct(p) \in batch
    BY <2>1, <2>3, <2>5
  <2>7. m <= 1
    BY <2>1, <2>3, <2>4, <2>5
  <2>8. Handled(p)' => Handled(p)
    BY <2>2, <2>6 DEF Handled, n, m
  <2>9. Direct(p) \in queue => m = 0
    <3>1. Direct(p) \in queue => n = 0 /\ Direct(p) \notin batch
      BY <1>2 DEF InOnePlace, n
    <3> QED  BY <2>1, <2>3, <3>1
  <2> QED  BY <1>1, <1>2, <2>2, <2>7, <2>8, <2>9 DEF InOnePlace, m
<1> QED  BY <1>3, <1>4

LEMMA OtherOnce ==
  ASSUME Shape, NoneTwice, Age \/ Start \/ ScanAsk \/ Disconnect \/ Watchdog \/ UNCHANGED vars
  PROVE  NoneTwice'
<1>1. UNCHANGED <<queue, batch, applied, offset, smart, raced>> /\ events' \subseteq events
  BY DEF Age, Start, StartScraper, StartMtproto, Fresh, ScanAsk, Disconnect, Watchdog,
         WatchdogNotice, WatchdogBack, WatchdogFail, work, vars
<1>2. scan' = scan \/ (scan'.list = {} /\ (scan'.stage # "asked" \/ scan'.from = offset))
  <2>1. CASE Start
    <3>1. scan' \in {NoScan, [NoScan EXCEPT !.stage = "due"]}
      BY <2>1 DEF Start, StartScraper, StartMtproto
    <3> QED  BY <3>1 DEF NoScan
  <2>2. CASE ScanAsk
    BY <2>2 DEF ScanAsk, NoScan
  <2>3. CASE Age \/ Disconnect \/ Watchdog \/ UNCHANGED vars
    BY <2>3 DEF Age, Disconnect, Watchdog, WatchdogNotice, WatchdogBack, WatchdogFail, vars
  <2> QED  BY <2>1, <2>2, <2>3
<1>3. scan'.list \subseteq scan.list
  BY <1>2
<1> QED  BY <1>1, <1>2, <1>3, LessIsOnce

LEMMA NoneTwiceNext == Shape /\ NoneTwice /\ [Next]_vars => NoneTwice'
<1> SUFFICES ASSUME Shape, NoneTwice, [Next]_vars PROVE NoneTwice'
  OBVIOUS
<1>1. ASSUME Crash PROVE NoneTwice'
  BY <1>1, GoneOnce, TypeFacts DEF Crash
<1>2. ASSUME CrashInHandler PROVE NoneTwice'
  <2>1. PICK p \in events : offset' = Stored(p)
    BY <1>2 DEF CrashInHandler
  <2>2. p \in Published /\ p \in Nat
    BY TypeFacts DEF Shape, TypeOK
  <2>3. offset' \in Nat /\ offset' >= offset
    BY <2>1, <2>2, TypeFacts, StoredIsLater
  <2> QED  BY <1>2, <2>3, GoneOnce DEF CrashInHandler
<1> QED
  BY <1>1, <1>2, PublishOnce, EventOnce, ScanAnswerOnce, ScanNextOnce, ScrapeOnce, BatchOnce,
     OtherOnce
     DEF Next, Ingest

-----------------------------------------------------------------------------
LEMMA InitIInv == Init => IInv
<1> SUFFICES ASSUME Init PROVE IInv
  OBVIOUS
<1>1. /\ posts = 0 /\ Published = {} /\ applied = [p \in Post |-> [w \in Path |-> 0]]
      /\ scan.stage = "none" /\ scan.list = {} /\ scan.from = 0
      /\ scan \in [stage : {"none", "due", "asked", "list"}, from : 0..0, list : SUBSET {}]
  BY DEF Init, Published, NoScan
<1>2. Shape
  <2>1. applied \in [Post -> [Path -> 0..2]] /\ posts \in 0..MaxPost /\ crashes \in 0..MaxCrash
    BY <1>1, Bounds DEF Init
  <2>2. TypeOK
    BY <1>1, <2>1 DEF Init, TypeOK
  <2> QED  BY <1>1, <2>2 DEF Init, Shape, HeldArePublished, DownIsEmpty, LinkedOrScraping,
              ListWhenFound
<1>3. Kept
  BY <1>1 DEF Kept, Waiting
<1>4. ASSUME NEW p \in Post PROVE InOnePlace(p)
  <2>1. applied[p]["direct"] = 0 /\ queue = {} /\ batch = {} /\ events = {}
    BY <1>1 DEF Init, Path
  <2> QED  BY <1>1, <2>1 DEF InOnePlace, Handled
<1> QED  BY <1>1, <1>2, <1>3, <1>4 DEF IInv, NoneTwice

LEMMA IInvHolds == Spec => []IInv
<1>1. IInv /\ [Next]_vars => IInv'
  BY ShapeNext, KeptNext, NoneTwiceNext DEF IInv
<1> QED  BY <1>1, InitIInv, PTL DEF Spec

(* The variables hold what they are meant to; offset, last seen post and   *)
(* queue never name a post that the channel does not have.                 *)
THEOREM TypeCorrect == Spec => []TypeOK
<1>1. IInv => TypeOK
  BY DEF IInv, Shape
<1> QED  BY <1>1, IInvHolds, PTL

(* Through every switch between the client and the site, every lost        *)
(* connection, scan and restart a relevant post that no fault has touched  *)
(* is applied or still on its way (telegram_monitor.py).                   *)
THEOREM AccountedCorrect == Spec => []Accounted
<1>1. IInv => Accounted
  BY KeptIsAccounted DEF IInv
<1> QED  BY <1>1, IInvHolds, PTL

(* The events of the client and the scans for missed posts never apply a   *)
(* post twice, over all restarts, unless an event crosses a scan's answer. *)
THEOREM AppliedOnceCorrect == Spec => []AppliedOnce
<1>1. IInv => AppliedOnce
  <2> SUFFICES ASSUME Shape, NoneTwice, smart, ~raced, NEW p \in Published
               PROVE  applied[p]["direct"] <= 1
    BY DEF IInv, AppliedOnce
  <2>1. p \in Post
    BY TypeFacts
  <2> QED  BY <2>1, NoneTwiceMeans DEF InOnePlace
<1> QED  BY <1>1, IInvHolds, PTL
===============================================================================
