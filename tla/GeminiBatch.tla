------------------------------ MODULE GeminiBatch ------------------------------
(***************************************************************************)
(* What becomes of a batch of messages (_batch_processor_loop of           *)
(* monitor/telegram_monitor.py, analyzer/gemini_analyzer.py, the batch     *)
(* mode of core/threats/threat_manager.py): one API key is tried after the *)
(* other, the results are applied to the manager in one step of the event  *)
(* loop with their pushes held back, and the pushes are sent at the end.   *)
(* Re-evaluations of single threats share the key index.                   *)
(*                                                                         *)
(* The verdicts on a batch are the regions whose threats they set and      *)
(* clear.  All other changes of the state are Other.                       *)
(***************************************************************************)
EXTENDS Integers, FiniteSets

CONSTANTS Message, Relevant, Region, KeyCounts

ASSUME BatchAssumption == Relevant \subseteq Message /\ KeyCounts \subseteq Nat \ {0}

VARIABLES queue,    \* message_queue
          batch,    \* the messages of the batch that is analysed
          keys,     \* number of API keys
          keyIdx,   \* current_key_idx
          call,     \* analyze_batch: its attempt (0: no call) and the key it uses
          recall,   \* reevaluate_expired_threat: the same
          buffer,   \* _fcm_batch_buffer: the regions of its pushes
          threat,   \* regions with a threat
          told,     \* regions whose threat has been pushed since it was set
          raised,   \* applying a batch has raised and nothing was flushed since
          done, lost,
          failed,   \* keys that have failed for this batch
          turned    \* a re-evaluation has turned the key during this batch

vars == <<queue, batch, keys, keyIdx, call, recall, buffer, threat, told, raised, done,
          lost, failed, turned>>

NoCall == [n |-> 0, key |-> 0]

TypeOK ==
  /\ queue \subseteq Message /\ batch \subseteq Message
  /\ done \subseteq Message /\ lost \subseteq Message
  /\ keys \in KeyCounts /\ keyIdx \in 0..(keys - 1)
  /\ call \in [n : 0..keys, key : 0..(keys - 1)]
  /\ recall \in [n : 0..keys, key : 0..(keys - 1)]
  /\ buffer \subseteq Region /\ threat \subseteq Region /\ told \subseteq Region
  /\ failed \subseteq 0..(keys - 1)
  /\ raised \in BOOLEAN /\ turned \in BOOLEAN

Init ==
  /\ queue = {} /\ batch = {} /\ done = {} /\ lost = {}
  /\ keys \in KeyCounts /\ keyIdx = 0
  /\ call = NoCall /\ recall = NoCall
  /\ buffer = {} /\ threat = {} /\ told = {} /\ raised = FALSE
  /\ failed = {} /\ turned = FALSE

-----------------------------------------------------------------------------
manager == <<buffer, threat, told, raised>>

Queue ==
  /\ \E m \in Message \ (queue \cup batch \cup done \cup lost) : queue' = queue \cup {m}
  /\ UNCHANGED <<batch, keys, keyIdx, call, recall, manager, done, lost, failed, turned>>

(* Fault: a batch is begun while one is analysed.                          *)
DrainAnyTime == queue # {}

CanDrain == batch = {} /\ queue # {}

(* Every 30 s the queue is emptied; if nothing in it is relevant, the      *)
(* analyzer is not called.                                                 *)
Drain ==
  /\ CanDrain
  /\ queue' = {}
  /\ batch' = queue \cap Relevant
  /\ done' = done \cup (queue \ Relevant)
  /\ call' = IF queue \cap Relevant = {} THEN NoCall ELSE [n |-> 1, key |-> keyIdx]
  /\ failed' = {} /\ turned' = FALSE
  /\ UNCHANGED <<keys, keyIdx, recall, manager, lost>>

-----------------------------------------------------------------------------
(* The API keys.                                                           *)

(* Faults: a call that fails leaves out a key, or runs over the last one.   *)
SkipKey == (keyIdx + 2) % keys
PastLastKey == keyIdx + 1

NextKey == (keyIdx + 1) % keys

(* A key fails by an error, an answer that is no JSON, or after 10 s, and  *)
(* the next one is tried.                                                  *)
KeyFails ==
  /\ call.n \in 1..(keys - 1)
  /\ failed' = failed \cup {call.key}
  /\ keyIdx' = NextKey
  /\ call' = [n |-> call.n + 1, key |-> NextKey]
  /\ UNCHANGED <<queue, batch, keys, recall, manager, done, lost, turned>>

(* After as many attempts as there are keys, analyze_batch returns nothing: *)
(* the messages are in no queue any more.  The index stays.                *)
GiveUp ==
  /\ call.n = keys
  /\ failed' = failed \cup {call.key}
  /\ call' = NoCall /\ batch' = {} /\ lost' = lost \cup batch
  /\ UNCHANGED <<queue, keys, keyIdx, recall, manager, done, turned>>

(* A re-evaluation turns the key only after a rate limit or a 404, and     *)
(* ends with the first other error, an answer, or the last attempt.        *)
Reevaluate ==
  /\ recall.n = 0
  /\ recall' = [n |-> 1, key |-> keyIdx]
  /\ UNCHANGED <<queue, batch, keys, keyIdx, call, manager, done, lost, failed, turned>>

ReevaluateTurns ==
  /\ recall.n \in 1..(keys - 1)
  /\ keyIdx' = NextKey
  /\ recall' = [n |-> recall.n + 1, key |-> NextKey]
  /\ turned' = (turned \/ call.n > 0)
  /\ UNCHANGED <<queue, batch, keys, call, manager, done, lost, failed>>

ReevaluateEnds ==
  /\ recall.n > 0
  /\ recall' = NoCall
  /\ UNCHANGED <<queue, batch, keys, keyIdx, call, manager, done, lost, failed, turned>>

-----------------------------------------------------------------------------
(* Applying the results.                                                   *)

(* Fault: the buffer is emptied without being sent.                        *)
FlushNothing(set) == {}

(* flush_fcm_batch, after results that set the threats of the regions set. *)
Flush(set) == buffer \cup set

(* set_threat pushes only what changes the state: a threat that stands may *)
(* be named again without a push.                                          *)
Changes(set, pushed) == set \ threat \subseteq pushed /\ pushed \subseteq set

(* Without a single result the buffer is not looked at.  A threat that the *)
(* same batch clears again is pushed all the same, after its all-clear.    *)
Answer ==
  /\ call.n > 0
  /\ call' = NoCall /\ batch' = {} /\ done' = done \cup batch
  /\ \/ UNCHANGED manager
     \/ \E set, gone \in SUBSET Region : \E pushed \in SUBSET set :
          /\ Changes(set, pushed)
          /\ threat' = (threat \cup set) \ gone
          /\ told' = (told \ gone) \cup Flush(pushed)
          /\ buffer' = {} /\ raised' = FALSE
  /\ UNCHANGED <<queue, keys, keyIdx, recall, lost, failed, turned>>

(* Applying raises: what was applied before stays, and so do its pushes in *)
(* the buffer, which only the next batch with results looks at.            *)
AnswerRaises ==
  /\ call.n > 0
  /\ call' = NoCall /\ batch' = {}
  /\ \E S \in SUBSET batch : done' = done \cup S /\ lost' = lost \cup (batch \ S)
  /\ \E set, gone \in SUBSET Region : \E pushed \in SUBSET set :
       /\ Changes(set, pushed)
       /\ threat' = (threat \cup set) \ gone
       /\ told' = told \ gone
       /\ buffer' = buffer \cup pushed
  /\ raised' = TRUE
  /\ UNCHANGED <<queue, keys, keyIdx, recall, failed, turned>>

(* Timers, polls and clearings change the threats between the batches, and *)
(* push at once.                                                           *)
Other ==
  /\ \E r \in Region :
       \/ threat' = threat \ {r} /\ told' = told \ {r}
       \/ r \notin threat /\ threat' = threat \cup {r} /\ told' = told \cup {r}
  /\ UNCHANGED <<queue, batch, keys, keyIdx, call, recall, buffer, raised, done, lost,
                 failed, turned>>

-----------------------------------------------------------------------------
Analysis == KeyFails \/ GiveUp \/ Answer \/ AnswerRaises

Next ==
  \/ Queue \/ Drain \/ Analysis
  \/ Reevaluate \/ ReevaluateTurns \/ ReevaluateEnds
  \/ Other

(* The loop wakes every 30 s, and a call ends after 10 s per key.          *)
Spec == Init /\ [][Next]_vars /\ WF_vars(Drain) /\ WF_vars(Analysis)

-----------------------------------------------------------------------------
(* Properties.                                                             *)

(* A region whose threat stands has had its push, unless applying a batch  *)
(* has raised and its push waits for the next results.                     *)
ThreatsTold == threat \subseteq told \cup (IF raised THEN buffer ELSE {})

(* A batch is given up only after each key has failed for it, whatever key *)
(* it began with, unless a re-evaluation has turned the shared index.      *)
EveryKeyTried == [][GiveUp /\ ~turned => Cardinality(failed') = keys]_vars

(* The batch processor keeps what MessageBatches promises.                 *)
Batches == INSTANCE MessageBatches WITH waiting <- queue, working <- batch
BatchesKept == Batches!Spec
=============================================================================
