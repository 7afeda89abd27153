----------------------------- MODULE HistoryBatch -----------------------------
(***************************************************************************)
(* The rows of sirenua_history on their way to Firestore                   *)
(* (database/threat_logger.py): callers put them into a buffer; a timer of *)
(* one second, or a thread as soon as there are many, takes all of them    *)
(* and writes them as one batch.                                           *)
(***************************************************************************)
EXTENDS Integers, FiniteSets

CONSTANTS HistoryRow,  \* the rows that may be put
          Many         \* rows that do not wait for the timer (20)

ASSUME HistoryAssumption == Many \in Nat \ {0}

VARIABLES buffer,   \* _history_batch_buffer
          timer,    \* _batch_timer: none, one that runs, or one that has fired
          called,   \* calls of flush_history_batch that wait for the lock
          batches,  \* batches being written
          written, lost

historyVars == <<buffer, timer, called, batches, written, lost>>

HistoryInit ==
  /\ buffer = {} /\ timer = "none" /\ called = 0
  /\ batches = {} /\ written = {} /\ lost = {}

Known == buffer \cup UNION batches \cup written \cup lost

(* queue_history_for_batch, under the lock.  The timer is cancelled, which *)
(* stops it only if it has not fired.                                      *)
PutRow(row) ==
  /\ buffer' = buffer \cup {row}
  /\ IF Cardinality(buffer') >= Many
     THEN timer' = "none" /\ called' = called + 1
     ELSE timer' = (IF timer = "none" THEN "running" ELSE timer) /\ UNCHANGED called
  /\ UNCHANGED <<batches, written, lost>>

(* log_threat_to_firestore: each report becomes a row of its own, if the   *)
(* database has not had the like a moment ago and Firestore is set up.     *)
LogRow(row) == row \notin Known /\ PutRow(row)

TimerFires ==
  /\ timer = "running" /\ timer' = "fired" /\ called' = called + 1
  /\ UNCHANGED <<buffer, batches, written, lost>>

(* Fault: the timer that fired is left in its place.                       *)
TakeKeepsTimer(batch) ==
  /\ called > 0 /\ called' = called - 1
  /\ buffer' = {}
  /\ \/ batches' = batches \cup ({batch} \ {{}}) /\ UNCHANGED lost
     \/ batch # {} /\ lost' = lost \cup batch /\ UNCHANGED batches
  /\ UNCHANGED <<written, timer>>

(* The part of a flush under the lock; without Firestore the rows are gone.*)
Take(batch) ==
  /\ called > 0 /\ called' = called - 1
  /\ timer' = "none" /\ buffer' = {}
  /\ \/ batches' = batches \cup ({batch} \ {{}}) /\ UNCHANGED lost
     \/ batch # {} /\ lost' = lost \cup batch /\ UNCHANGED batches
  /\ UNCHANGED written

(* The rest of it, with its retries.                                       *)
Write(batch) ==
  /\ batches' = batches \ {batch}
  /\ \/ written' = written \cup batch /\ UNCHANGED lost
     \/ lost' = lost \cup batch /\ UNCHANGED written
  /\ UNCHANGED <<buffer, timer, called>>

HistoryNext ==
  \/ \E row \in HistoryRow : LogRow(row)
  \/ TimerFires \/ Take(buffer)
  \/ \E batch \in batches : Write(batch)

HistorySpec == HistoryInit /\ [][HistoryNext]_historyVars

HistoryTypeOK ==
  /\ buffer \subseteq HistoryRow
  /\ timer \in {"none", "running", "fired"} /\ called \in Nat
  /\ batches \subseteq SUBSET HistoryRow
  /\ written \subseteq HistoryRow /\ lost \subseteq HistoryRow

(* A row in the buffer is not forgotten: a timer runs, or a call is under  *)
(* way that will take it.  The timer that callers see may be one that has  *)
(* fired already, and a call may cancel the timer of rows it does not take *)
(* (threat_logger.py:24-37, 250-259).                                      *)
RowsHaveCarrier == buffer # {} => timer = "running" \/ called > 0
===============================================================================
