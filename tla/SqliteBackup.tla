----------------------------- MODULE SqliteBackup -----------------------------
(***************************************************************************)
(* The rows of the analytics database and their backup in Firestore        *)
(* (database/firestore_sync.py): one document, or chunks and then a        *)
(* manifest, which backups in several threads overwrite in place.          *)
(*                                                                         *)
(* A row stands for one change of the manager's state and what the tables  *)
(* say of it; its key is its id.  A row of the baseline that comes with    *)
(* the program has the value 0.                                            *)
(***************************************************************************)
EXTENDS StatePersistence, Functions

CONSTANTS Backup,  \* threads that back up
          Few      \* so few rows the start fills up (50)

ASSUME FewAssumption == Few \in Nat

VARIABLES unlogged, \* changes whose row is still to be written
          rows,     \* id -> change
          lost,     \* changes whose row was never written
          cloud,    \* sirenua_backup: [n, data, chunk]
          job,      \* the threads
          backed,   \* rows of the last complete backup no other ran beside, {} once a
                    \*   backup of tables that have lost them has overwritten it
          orphaned  \* rows were lost with the disk, or overwritten by the baseline

backupVars == <<unlogged, rows, lost, cloud, job, backed, orphaned>>

(* What a backup is made of: its rows, or NoRows for a chunk never written.*)
NoRows == [i \in {0} |-> 0]
Empty == <<>>
Baseline == [i \in {1, 2} |-> 0]

Size(g) == Cardinality(DOMAIN g)

(* Fault: one chunk too many is counted.                                   *)
ChunksRoundedUp(g) == IF Size(g) <= 1 THEN 1 ELSE 3

(* A backup of more than one row needs two chunks.                         *)
Chunks(g) == IF Size(g) <= 1 THEN 1 ELSE 2

NoJob == [pc |-> "idle", rows |-> Empty, clean |-> TRUE]

IsRows(g) == DOMAIN g \subseteq Nat /\ Range(g) \subseteq State

BackupTypeOK ==
  /\ unlogged \subseteq 1..changes /\ lost \subseteq 1..changes
  /\ IsRows(rows)
  /\ cloud.n \in {0, 1, 2}
  /\ cloud.n = 1 => IsRows(cloud.data)
  /\ \A b \in Backup : /\ job[b].pc \in {"idle", "chunk1", "chunk2", "manifest"}
                       /\ IsRows(job[b].rows) /\ job[b].clean \in BOOLEAN
  /\ backed \subseteq State /\ orphaned \in BOOLEAN

BackupInit ==
  /\ unlogged = {} /\ rows = Empty /\ lost = {}
  /\ cloud = [n |-> 0, data |-> Empty, chunk |-> <<NoRows, NoRows>>]
  /\ job = [b \in Backup |-> NoJob]
  /\ backed = {} /\ orphaned = FALSE

-----------------------------------------------------------------------------
NextId == IF DOMAIN rows = {} THEN 1 ELSE 1 + CHOOSE i \in DOMAIN rows : \A j \in DOMAIN rows : j <= i

(* A row is written, or given up when the database stays locked.           *)
Log(v) ==
  /\ v \in unlogged
  /\ unlogged' = unlogged \ {v}
  /\ \/ rows' = [i \in DOMAIN rows \cup {NextId} |-> IF i = NextId THEN v ELSE rows[i]]
        /\ UNCHANGED <<lost, faults>>
     \/ /\ faults < MaxFault /\ faults' = faults + 1
        /\ lost' = lost \cup {v} /\ UNCHANGED rows
  /\ UNCHANGED <<cloud, job, backed, orphaned, jobs>>

-----------------------------------------------------------------------------
(* backup_sqlite_to_firestore: periodic, before a test, by an              *)
(* administrator, after an error of a handler.                             *)

StartBackup(b) ==
  /\ job[b].pc = "idle" /\ jobs < MaxJob
  /\ jobs' = jobs + 1
  /\ LET others == {o \in Backup \ {b} : job[o].pc # "idle"}
     IN  job' = [o \in Backup |->
                   IF o = b THEN [pc |-> IF Chunks(rows) = 1 THEN "manifest" ELSE "chunk1",
                                  rows |-> rows, clean |-> others = {}]
                   ELSE [job[o] EXCEPT !.clean = @ /\ o \notin others]]
  /\ UNCHANGED <<unlogged, rows, lost, cloud, backed, orphaned, faults>>

WriteChunk(b, i) ==
  /\ job[b].pc = (IF i = 1 THEN "chunk1" ELSE "chunk2")
  /\ cloud' = [cloud EXCEPT !.chunk[i] = job[b].rows]
  /\ job' = [job EXCEPT ![b].pc = IF i = 1 THEN "chunk2" ELSE "manifest"]
  /\ backed' = IF cloud.n = 2 /\ orphaned THEN {} ELSE backed
  /\ UNCHANGED <<unlogged, rows, lost, orphaned, counters>>

WriteManifest(b) ==
  /\ job[b].pc = "manifest"
  /\ cloud' = [cloud EXCEPT !.n = Chunks(job[b].rows),
                            !.data = IF Chunks(job[b].rows) = 1 THEN job[b].rows ELSE Empty]
  /\ job' = [job EXCEPT ![b] = NoJob]
  /\ backed' = IF job[b].clean THEN Range(job[b].rows) ELSE IF orphaned THEN {} ELSE backed
  /\ orphaned' = IF job[b].clean THEN FALSE ELSE orphaned
  /\ UNCHANGED <<unlogged, rows, lost, counters>>

(* Every attempt at a document fails: the backup ends there.               *)
BackupFails(b) ==
  /\ job[b].pc # "idle" /\ faults < MaxFault
  /\ faults' = faults + 1
  /\ job' = [job EXCEPT ![b] = NoJob]
  /\ UNCHANGED <<unlogged, rows, lost, cloud, backed, orphaned, jobs>>

BackUp(b) ==
  \/ StartBackup(b) \/ WriteManifest(b) \/ BackupFails(b)
  \/ \E i \in {1, 2} : WriteChunk(b, i)

-----------------------------------------------------------------------------
(* restore_sqlite_from_firestore.                                          *)

(* Rows are inserted, or replaced where the id is taken.                   *)
Restored(g) == [i \in DOMAIN g \cup DOMAIN rows |-> IF i \in DOMAIN g THEN g[i] ELSE rows[i]]

(* Fault: the last chunk is not read.                                      *)
PayloadShort == IF cloud.n = 1 THEN {cloud.data} ELSE {}

(* What the documents decode to: nothing, if the chunks are of different   *)
(* backups.  Chunks of one backup may be those of a later one that wrote   *)
(* no manifest.                                                            *)
Payload ==
  CASE cloud.n = 1 -> {cloud.data}
    [] cloud.n = 2 /\ cloud.chunk[1] = cloud.chunk[2] -> {cloud.chunk[1]} \ {NoRows}
    [] OTHER -> {}

(* The manifest stands before chunks of two backups.                       *)
Torn == cloud.n = 2 /\ cloud.chunk[1] # cloud.chunk[2]

(* The rows the start leaves.                                              *)
Outcomes(client, reachable) ==
  IF client /\ Size(rows) > Few THEN {rows}
  ELSE IF client /\ reachable /\ Payload # {} THEN {Restored(g) : g \in Payload}
  ELSE IF client /\ reachable /\ cloud.n = 0
    THEN {rows, Restored(Baseline)}   \* what sirenua_history has leaves no events
  ELSE {Restored(Baseline)}
=============================================================================
