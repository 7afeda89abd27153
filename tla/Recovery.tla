------------------------------- MODULE Recovery -------------------------------
(***************************************************************************)
(* What a restart brings back: the start of the server (server.py,         *)
(* lifespan) restores the database, then loads the state of the manager,   *)
(* and a crash ends both at any time.  An orderly stop is a backup and     *)
(* then a crash: neither it nor the restart by an administrator waits for  *)
(* the timer of StatePersistence.                                          *)
(***************************************************************************)
EXTENDS SqliteBackup

VARIABLES phase, \* "down", "restored", "up"
          reached \* whether the last step of the start has had an answer of Firestore

vars == <<stateVars, backupVars, counters, phase, reached>>

TypeOK == StateTypeOK /\ BackupTypeOK /\ phase \in {"down", "restored", "up"} /\ reached \in BOOLEAN

Init == StateInit /\ BackupInit /\ phase = "down" /\ reached = FALSE

-----------------------------------------------------------------------------
Report ==
  /\ phase = "up" /\ Change
  /\ unlogged' = unlogged \cup {changes'}
  /\ UNCHANGED <<rows, lost, cloud, job, backed, orphaned, phase, reached>>

PersistState ==
  /\ phase = "up"
  /\ \E s \in Saver : Fire(s) \/ SaveNow(s) \/ Save(s)
  /\ UNCHANGED <<backupVars, phase, reached>>

WriteRow ==
  /\ phase = "up"
  /\ \E v \in unlogged : Log(v)
  /\ UNCHANGED <<stateVars, phase, reached>>

BackUpRows ==
  /\ phase = "up"
  /\ \E b \in Backup : BackUp(b)
  /\ UNCHANGED <<stateVars, phase, reached>>

(* The process ends, and the disk may be lost with it.                     *)
Crash ==
  /\ phase # "down" /\ faults < MaxFault
  /\ faults' = faults + 1
  /\ phase' = "down"
  /\ ram' = 0 /\ timer' = FALSE /\ saver' = [s \in Saver |-> NoSave]
  /\ job' = [b \in Backup |-> NoJob]
  /\ unlogged' = {} /\ lost' = lost \cup unlogged
  /\ \/ UNCHANGED <<rows, file, orphaned>>
     \/ /\ rows' = Empty /\ file' = Missing
        /\ orphaned' = TRUE
  /\ UNCHANGED <<changes, quiet, doc, saved, raced, cloud, backed, reached, jobs>>

-----------------------------------------------------------------------------
(* Firestore may have no client, or not answer.                            *)
RestoreDb ==
  /\ phase = "down"
  /\ phase' = "restored"
  /\ \E client \in BOOLEAN, answers \in BOOLEAN :
       /\ reached' = (client /\ answers)
       /\ rows' \in Outcomes(client, answers)
       /\ orphaned' = /\ orphaned \/ ~(Range(rows) \subseteq Range(rows'))
                      /\ ~(reached' /\ Size(rows) <= Few /\ Payload # {})
  /\ UNCHANGED <<stateVars, unlogged, lost, cloud, job, backed, counters>>

(* The threats that the newest row tells of, if it tells of any.           *)
InDatabase == {v \in Range(rows) \ quiet : \A w \in Range(rows) : w <= v}

(* A state without threats, or none, is replaced by what the database      *)
(* says, which is saved at once.                                           *)
LoadState ==
  /\ phase = "restored"
  /\ phase' = "up"
  /\ reached' \in BOOLEAN
  /\ LET found == IF Loaded(reached') = Missing THEN 0 ELSE Loaded(reached')
     IN  IF found \in quiet /\ InDatabase # {}
             THEN /\ ram' \in InDatabase
                  /\ doc' = IF reached' THEN ram' ELSE doc
                  /\ file' = ram'
                  /\ saved' = IF reached' \/ ram' < saved THEN ram' ELSE saved
             ELSE ram' = found /\ UNCHANGED <<doc, file, saved>>
  /\ raced' = FALSE
  /\ UNCHANGED <<changes, quiet, timer, saver, backupVars, counters>>

Next ==
  \/ Report \/ PersistState \/ WriteRow \/ BackUpRows \/ Crash
  \/ RestoreDb \/ LoadState

Spec == Init /\ [][Next]_vars

-----------------------------------------------------------------------------
(* Properties.                                                             *)

(* What has not been saved will be: there is a timer, or a thread that has *)
(* still to take the state.                                                *)
UnsavedHasCarrier ==
  phase = "up" /\ ~raced /\ ram \notin {doc, file, 0} =>
    \/ timer
    \/ \E s \in Saver : saver[s].pc \in {"doc", "snap"} \/ (Busy(s) /\ saver[s].forFile = ram)

(* A start brings back the last complete save or a later state, unless the *)
(* file is lost and Firestore does not answer, or the threats that ended   *)
(* with it are open in the database, which has no row of their end.        *)
StartKeepsSaved ==
  [][phase = "restored" /\ phase' = "up" =>
       \/ ram' >= saved
       \/ file = Missing /\ ~reached'
       \/ saved \notin Range(rows) /\ ram' \in InDatabase]_vars

(* A start brings back the rows of the last complete backup, whatever has  *)
(* become of the backups begun since.  It does not if the disk is lost and *)
(* Firestore does not answer, or has chunks of two backups; nor those that *)
(* the baseline replaces, which is laid over the tables in these cases.    *)
StartKeepsBacked ==
  [][phase = "down" /\ phase' = "restored" =>
       \/ backed \subseteq Range(rows')
       \/ orphaned /\ (~reached' \/ Torn \/ Size(rows) > Few)
       \/ (~reached' \/ Torn) /\ \E i \in DOMAIN Baseline \cap DOMAIN rows : rows[i] # 0]_vars
=============================================================================
