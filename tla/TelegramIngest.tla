---------------------------- MODULE TelegramIngest ----------------------------
(***************************************************************************)
(* How the posts of one Telegram channel reach the threat state            *)
(* (monitor/telegram_monitor.py): the events of the MTProto client, the    *)
(* scan of missed posts at the start, the web scraper that takes over when *)
(* the client is gone, and the queue that is analysed every 30 seconds.    *)
(* What becomes of a batch inside is the subject of GeminiBatch.           *)
(*                                                                         *)
(* Between two awaits a coroutine runs alone, so each action is the code   *)
(* from one await to the next.  A post is its message id.  A pass over one *)
(* page of the web site is one step.  Queue and batch are sets of entries: *)
(* their order is left out.  Writing the offset file always succeeds.      *)
(***************************************************************************)
EXTENDS Integers, FiniteSets, FiniteSetsExt

CONSTANTS MaxPost,     \* bound on the posts of the channel
          Relevant,    \* posts that _is_threat_relevant lets through
          ScanLimit,   \* posts asked for by the scan that knows an offset (20)
          FirstLimit,  \* posts asked for by the first scan (5)
          PageSize,    \* posts on a page of the web site
          MaxCrash     \* bound on the crashes

Post == 1..MaxPost
Path == {"direct", "page"}   \* from the MTProto client, or from the site
Entry == [post : Post, path : Path]

ASSUME BoundAssumption ==
  /\ MaxPost \in Nat /\ MaxCrash \in Nat /\ Relevant \subseteq Post
  /\ {ScanLimit, FirstLimit, PageSize} \subseteq Nat \ {0}

NoScan == [stage |-> "none", from |-> 0, list |-> {}]

VARIABLES posts,    \* how many posts the channel has
          old,      \* posts older than an hour
          up,       \* is_running
          mtproto,  \* use_mtproto
          link,     \* the MTProto client: "none", "up" or "lost"
          joined,   \* the channel is not in _failed_channels
          retry,    \* the watchdog awaits client.connect()
          events,   \* posts whose NewMessage event is on its way
          offset,   \* last_processed_msg_ids, kept in its file
          scan,     \* _sync_recent_channel_messages
          seen,     \* last_seen_posts, 0 for None
          queue,    \* message_queue
          batch,    \* the messages of the batch that is analysed
          smart,    \* analyzer.is_configured: an API key is set
          applied,  \* post -> path -> how often it was applied
          raced,    \* an event came in while a scan was waiting for its answer,
                    \*   or a scan found a post whose event was on its way
          excused,  \* posts that a fault has touched on their way
          crashes

source == <<posts, old>>
client == <<mtproto, link, joined, retry>>
work == <<queue, batch, applied>>
vars == <<source, up, client, events, offset, scan, seen, smart, work, raced, excused,
          crashes>>

Published == 1..posts

TypeOK ==
  /\ posts \in 0..MaxPost /\ old \in 0..posts
  /\ up \in BOOLEAN /\ mtproto \in BOOLEAN /\ joined \in BOOLEAN /\ retry \in BOOLEAN
  /\ link \in {"none", "up", "lost"}
  /\ events \subseteq Published /\ excused \subseteq Published
  /\ offset \in 0..posts /\ seen \in 0..posts
  /\ scan \in [stage : {"none", "due", "asked", "list"}, from : 0..posts, list : SUBSET Published]
  /\ queue \subseteq Entry /\ batch \subseteq Entry
  /\ smart \in BOOLEAN
  /\ applied \in [Post -> [Path -> 0..2]]
  /\ raced \in BOOLEAN
  /\ crashes \in 0..MaxCrash

Init ==
  /\ posts = 0 /\ old = 0
  /\ up = FALSE /\ mtproto = FALSE /\ link = "none" /\ joined = TRUE /\ retry = FALSE
  /\ events = {} /\ offset = 0 /\ scan = NoScan /\ seen = 0
  /\ queue = {} /\ batch = {} /\ smart \in BOOLEAN
  /\ applied = [p \in Post |-> [w \in Path |-> 0]]
  /\ raced = FALSE /\ excused = {} /\ crashes = 0

-----------------------------------------------------------------------------
(* Looking posts up.                                                       *)

Times(p) == applied[p]["direct"] + applied[p]["page"]

(* Posts that are applied or in the queue or the batch.                    *)
Taken == {p \in Published : Times(p) > 0 \/ \E e \in queue \cup batch : e.post = p}

(* The last n posts after `from', as far as they are not older than an hour. *)
Latest(from, n) == {p \in Published : p > from /\ p > posts - n /\ p > old}

(* Counted up to two from the client, up to one from the site.             *)
AppliedWith(E) ==
  [p \in Post |-> [w \in Path |->
     IF [post |-> p, path |-> w] \in E
       THEN Min({IF w = "page" THEN 1 ELSE 2, applied[p][w] + 1})
       ELSE applied[p][w]]]

(* Faults: the offset is never stored, or is that of the next post.        *)
StoredNever(p) == offset
StoredAhead(p) == p + 1

(* The offset after post p.                                                *)
Stored(p) == Max({offset, p})

(* _process_message: into the queue of the analyzer, or without one the    *)
(* regular expressions at once.                                            *)
Process(E) ==
  /\ UNCHANGED batch
  /\ IF smart THEN queue' = queue \cup E /\ UNCHANGED applied
              ELSE applied' = AppliedWith(E) /\ UNCHANGED queue

-----------------------------------------------------------------------------
(* The channel.                                                            *)

(* A post appears: a connected client gets an event of it.  A post that    *)
(* drops from the page of the site before it was read is a lost one.       *)
Publish ==
  /\ posts < MaxPost
  /\ posts' = posts + 1
  /\ \/ /\ link = "up"
        /\ events' = events \cup {posts + 1}
     \/ /\ link # "up" \/ ~joined
        /\ UNCHANGED events
  /\ excused' = excused
       \cup (IF up /\ mtproto /\ (link = "lost" \/ retry) THEN {posts + 1} ELSE {})
       \cup ({posts + 1 - PageSize} \cap (Published \ Taken))
  /\ UNCHANGED <<old, up, client, offset, scan, seen, smart, raced, crashes, work>>

(* An hour passes: a scan or the first pass over the page will not catch   *)
(* up with a post that was not read by then.                               *)
Age ==
  /\ old < posts
  /\ old' = posts
  /\ excused' = excused \cup
       (Published \ (Taken \cup events \cup scan.list
                      \cup (IF seen > 0 THEN {p \in Published : p > seen} ELSE {})))
  /\ UNCHANGED <<posts, up, client, events, offset, scan, seen, smart, raced,
                 crashes, work>>

-----------------------------------------------------------------------------
(* start, stop and crash.                                                  *)

Fresh ==
  /\ ~up /\ up' = TRUE
  /\ retry' = FALSE
  /\ UNCHANGED <<source, events, offset, seen, smart, raced, crashes, work>>

(* With the StringSession the posts missed are scanned for; with the       *)
(* session file they are not.                                              *)
StartMtproto(session) ==
  /\ Fresh
  /\ mtproto' = TRUE /\ link' = "up" /\ joined' \in BOOLEAN
  /\ scan' = IF session = "string" THEN [NoScan EXCEPT !.stage = "due"] ELSE NoScan
  /\ excused' = IF session = "string" THEN excused ELSE excused \cup (Published \ Taken)

StartScraper ==
  /\ Fresh
  /\ mtproto' = FALSE /\ link' = "none" /\ joined' = TRUE
  /\ scan' = NoScan
  /\ UNCHANGED excused

Start == StartScraper \/ \E session \in {"string", "file"} : StartMtproto(session)

Gone ==
  /\ up /\ crashes < MaxCrash
  /\ crashes' = crashes + 1
  /\ up' = FALSE /\ mtproto' = FALSE /\ link' = "none" /\ joined' = TRUE /\ retry' = FALSE
  /\ events' = {} /\ scan' = NoScan /\ seen' = 0 /\ queue' = {} /\ batch' = {}
  /\ UNCHANGED <<source, smart, applied, raced>>

(* The process ends: what it held of the posts up to the offset, or too    *)
(* old for the page or the hour, is gone.                                  *)
Crash ==
  /\ Gone
  /\ excused' = excused \cup {p \in 1..Max({offset, old, posts - PageSize}) : Times(p) = 0}
  /\ UNCHANGED offset

(* It ends in the event handler, after the offset was stored and before    *)
(* the message is processed.                                               *)
CrashInHandler ==
  /\ Gone
  /\ \E p \in events : offset' = Stored(p)
  /\ excused' = excused \cup {p \in 1..Max({offset', old, posts - PageSize}) : Times(p) = 0}

-----------------------------------------------------------------------------
(* The MTProto client.                                                     *)

(* The handler stores the offset, then processes the message.  An event    *)
(* that comes before the scan has read the offset hides the posts that the *)
(* scan should find.                                                       *)
Event ==
  /\ up
  /\ \E p \in events :
       /\ events' = events \ {p}
       /\ offset' = Stored(p)
       /\ Process({[post |-> p, path |-> "direct"]})
       /\ raced' = (raced \/ scan.stage = "asked")
       /\ excused' = IF scan.stage \in {"due", "asked"}
                       THEN excused \cup {q \in Published \ (Taken \cup events) : q < p}
                       ELSE excused
  /\ UNCHANGED <<source, up, client, scan, seen, smart, crashes>>

(* The scan asks for the posts after the offset.                           *)
ScanAsk ==
  /\ up /\ scan.stage = "due"
  /\ IF mtproto
       THEN /\ scan' = [stage |-> "asked", from |-> offset, list |-> {}]
            /\ UNCHANGED excused
       ELSE /\ scan' = NoScan
            /\ excused' = excused \cup (Published \ Taken)
  /\ UNCHANGED <<source, up, client, events, offset, seen, smart, raced, crashes, work>>

(* The answer.  Without an offset the newest posts are asked for, and the  *)
(* newest becomes the offset, whatever an event has stored meanwhile.  If  *)
(* the request fails the scan has found nothing.                           *)
ScanAnswer ==
  /\ up /\ scan.stage = "asked"
  /\ LET found == Latest(scan.from, IF scan.from = 0 THEN FirstLimit ELSE ScanLimit)
     IN  \/ /\ scan' = [scan EXCEPT !.stage = "list", !.list = found]
            /\ raced' = (raced \/ found \cap events # {})
            /\ offset' = IF scan.from = 0 /\ posts > 0 THEN posts ELSE offset
            /\ excused' = excused \cup (Published \ (Taken \cup found \cup events))
         \/ /\ scan' = NoScan
            /\ excused' = excused \cup (Published \ (Taken \cup events))
            /\ UNCHANGED <<offset, raced>>
  /\ UNCHANGED <<source, up, client, events, seen, smart, crashes, work>>

(* The posts found are processed one every 0.3 s, the oldest first, and    *)
(* the offset is stored after each.                                        *)
ScanNext ==
  /\ up /\ scan.stage = "list"
  /\ IF scan.list = {}
       THEN /\ scan' = NoScan
            /\ UNCHANGED <<offset, work>>
       ELSE LET p == Min(scan.list)
            IN  /\ scan' = [scan EXCEPT !.list = @ \ {p}]
                /\ offset' = Stored(p)
                /\ Process({[post |-> p, path |-> "direct"]})
  /\ UNCHANGED <<source, up, client, events, seen, smart, raced, excused, crashes>>

(* The connection breaks: events on their way are gone.                    *)
Disconnect ==
  /\ up /\ link = "up"
  /\ link' = "lost"
  /\ events' = {}
  /\ excused' = excused \cup (Published \ Taken)
  /\ UNCHANGED <<source, up, mtproto, joined, retry, offset, scan, seen, smart,
                 raced, crashes, work>>

(* The watchdog sees it, turns the scraper on and tries once to connect.   *)
WatchdogNotice ==
  /\ up /\ mtproto /\ link = "lost" /\ ~retry
  /\ mtproto' = FALSE /\ retry' = TRUE
  /\ UNCHANGED <<source, up, link, joined, events, offset, scan, seen, smart,
                 raced, excused, crashes, work>>

(* If that works, the scraper is off again, whether it has read or not.    *)
WatchdogBack ==
  /\ up /\ retry
  /\ link' = "up" /\ mtproto' = TRUE /\ retry' = FALSE
  /\ excused' = excused \cup (Published \ Taken)
  /\ UNCHANGED <<source, up, joined, events, offset, scan, seen, smart, raced,
                 crashes, work>>

(* If not, the watchdog never tries again.                                 *)
WatchdogFail ==
  /\ up /\ retry
  /\ retry' = FALSE
  /\ UNCHANGED <<source, up, mtproto, link, joined, events, offset, scan, seen,
                 smart, raced, excused, crashes, work>>

-----------------------------------------------------------------------------
(* The web scraper.                                                        *)

(* Fault: the first pass only notes the last post.                         *)
OnPageLater == {p \in Published : p > posts - PageSize /\ seen > 0 /\ p > seen}

(* What a pass over the page processes: at first the posts of the last     *)
(* hour, later those after the last post it has seen.                      *)
OnPage ==
  {p \in Published : /\ p > posts - PageSize
                     /\ IF seen = 0 THEN p > old ELSE p > seen}

(* _scrape_loop: all channels without MTProto, else the failed ones.       *)
Scrape ==
  /\ up /\ (~mtproto \/ ~joined)
  /\ posts > seen
  /\ seen' = posts
  /\ Process({[post |-> p, path |-> "page"] : p \in OnPage})
  /\ UNCHANGED <<source, up, client, events, offset, scan, smart, raced, excused,
                 crashes>>

-----------------------------------------------------------------------------
(* The batches.                                                            *)

(* Fault: one message alone is not worth a call.                           *)
WorthACall == Cardinality(queue) > 1

CanDrain == queue # {}

(* Every 30 s the queue is emptied; what is not relevant is left out.      *)
Drain ==
  /\ up /\ batch = {} /\ CanDrain
  /\ batch' = {e \in queue : e.post \in Relevant}
  /\ queue' = {}
  /\ UNCHANGED <<source, up, client, events, offset, scan, seen, smart, applied, raced,
                 excused, crashes>>

BatchDone ==
  /\ batch # {}
  /\ batch' = {}
  /\ applied' = AppliedWith(batch)
  /\ UNCHANGED <<source, up, client, events, offset, scan, seen, smart, queue, raced,
                 excused, crashes>>

(* No key works, or applying a result raises: the messages are in no queue *)
(* any more, and those not applied are gone.                               *)
BatchLost ==
  /\ batch # {}
  /\ batch' = {}
  /\ \E E \in SUBSET batch \ {batch} : applied' = AppliedWith(E)
  /\ excused' = excused \cup {e.post : e \in batch}
  /\ UNCHANGED <<source, up, client, events, offset, scan, seen, smart, queue, raced,
                 crashes>>

-----------------------------------------------------------------------------
Ingest == Event \/ ScanAsk \/ ScanAnswer \/ ScanNext \/ Scrape
Watchdog == WatchdogNotice \/ WatchdogBack \/ WatchdogFail

Next ==
  \/ Publish \/ Age
  \/ Start \/ Crash \/ CrashInHandler
  \/ Ingest \/ Disconnect \/ Watchdog
  \/ Drain \/ BatchDone \/ BatchLost

(* The event loop runs every coroutine that can go on, and a call of the   *)
(* analyzer ends after at most 10 s per key.  A crashed server is started. *)
Fairness ==
  /\ WF_vars(Start) /\ WF_vars(Event) /\ WF_vars(Scrape)
  /\ WF_vars(ScanAsk) /\ WF_vars(ScanAnswer) /\ WF_vars(ScanNext)
  /\ WF_vars(Watchdog) /\ WF_vars(Drain)
  /\ WF_vars(BatchDone \/ BatchLost)

Spec == Init /\ [][Next]_vars /\ Fairness

-----------------------------------------------------------------------------
(* Properties.                                                             *)

(* Whatever path a relevant post comes by, and through every switch and    *)
(* restart: unless a fault touched it, it is applied or on its way: an     *)
(* event, still ahead of the scan or the scraper, in a list or the queue.  *)
Accounted ==
  \A p \in (Published \cap Relevant) \ excused :
    \/ p \in Taken \cup events \cup scan.list
    \/ ~up /\ p > offset
    \/ scan.stage \in {"due", "asked"} /\ p > offset
    \/ up /\ (~mtproto \/ ~joined \/ retry) /\ p > seen

(* "... без дублювання" (the scan): events and scan together apply a post  *)
(* once at most, over all restarts, unless an event crossed the answer of  *)
(* the scan.                                                               *)
AppliedOnce ==
  smart /\ ~raced =>
    \A p \in Published : applied[p]["direct"] <= 1

(* A relevant post that no fault touches is applied in the end.            *)
Applied ==
  \A p \in Relevant :
    (p \in Published) ~> (p \in excused \/ Times(p) > 0)
=============================================================================
