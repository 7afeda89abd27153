--------------------------- MODULE StatePersistence ---------------------------
(***************************************************************************)
(* How MockThreatManager keeps its state over restarts                     *)
(* (core/threats/threat_manager.py): a change puts off a timer of five     *)
(* seconds, whose thread writes the state to a document in Firestore and   *)
(* then to a file.  The two copies made of the file before are read when   *)
(* it cannot be, which its renaming excludes: they are left out.           *)
(*                                                                         *)
(* A state is the number of the change that led to it; 0 is the state a    *)
(* process begins with.  States without a threat are `quiet'.  The same    *)
(* way, without the retries, the manager keeps its real_threats_backup.    *)
(***************************************************************************)
EXTENDS Integers, FiniteSets

CONSTANTS Saver,      \* threads that save
          MaxChange,  \* bound on the changes
          MaxJob,     \* bound on the saves and backups
          MaxFault    \* bound on crashes and on calls that fail

ASSUME PersistenceAssumption == MaxChange \in Nat /\ MaxJob \in Nat /\ MaxFault \in Nat

VARIABLES changes,    \* number of changes so far
          quiet,      \* states without a threat
          ram,        \* the state of the manager
          timer,      \* whether _save_timer is running
          saver,      \* the threads
          doc,        \* sirenua_state/threats
          file,       \* threats_state.json
          saved,      \* the newest state whose save was complete, with no
                      \*   other save in between
          raced,      \* since the start, two saves have run at the same time
          jobs, faults

counters == <<jobs, faults>>
stateVars == <<changes, quiet, ram, timer, saver, doc, file, saved, raced>>

Missing == -1
State == 0..MaxChange

(* What a thread has still to do, the state it has taken for the document, *)
(* the one it has taken for the file, and whether the save has been        *)
(* undisturbed.                                                            *)
NoSave == [pc |-> "idle", forDoc |-> 0, forFile |-> 0, clean |-> TRUE]

StateTypeOK ==
  /\ changes \in State /\ quiet \subseteq State /\ ram \in 0..changes
  /\ timer \in BOOLEAN /\ raced \in BOOLEAN
  /\ saver \in [Saver -> [pc : {"idle", "doc", "snap", "replace"},
                          forDoc : State, forFile : State, clean : BOOLEAN]]
  /\ doc \in State \cup {Missing} /\ file \in State \cup {Missing}
  /\ saved \in 0..changes
  /\ jobs \in 0..MaxJob /\ faults \in 0..MaxFault

StateInit ==
  /\ changes = 0 /\ quiet = {0} /\ ram = 0 /\ timer = FALSE
  /\ saver = [s \in Saver |-> NoSave]
  /\ doc = Missing /\ file = Missing
  /\ saved = 0 /\ raced = FALSE /\ jobs = 0 /\ faults = 0

Busy(s) == saver[s].pc # "idle"
Others(s) == {o \in Saver \ {s} : Busy(o)}

-----------------------------------------------------------------------------
(* Fault: while a state is being saved, no timer is started.               *)
TimerUnlessSaving == \A s \in Saver : ~Busy(s)

TimerStarted == TRUE

(* save_to_db: the timer is put off.                                       *)
Change ==
  /\ changes < MaxChange
  /\ changes' = changes + 1 /\ ram' = changes + 1 /\ timer' = TimerStarted
  /\ quiet' \in {quiet, quiet \cup {changes + 1}}
  /\ UNCHANGED <<saver, doc, file, saved, raced, counters>>

(* _execute_save_to_db begins, in the thread of the timer or, with         *)
(* clear_all and reset_to_real_threats, at once.                           *)
Begin(s) ==
  /\ jobs < MaxJob /\ jobs' = jobs + 1
  /\ saver' = [o \in Saver |->
                 IF o = s THEN [NoSave EXCEPT !.pc = "doc", !.forDoc = ram, !.clean = Others(s) = {}]
                 ELSE [saver[o] EXCEPT !.clean = @ /\ ~Busy(o)]]
  /\ raced' = (raced \/ Others(s) # {})

Fire(s) ==
  /\ timer /\ ~Busy(s)
  /\ timer' = FALSE
  /\ Begin(s)
  /\ UNCHANGED <<changes, quiet, ram, doc, file, saved, faults>>

SaveNow(s) ==
  /\ ram \in quiet /\ ram # 0 /\ ~Busy(s)
  /\ Begin(s)
  /\ UNCHANGED <<changes, quiet, ram, timer, doc, file, saved, faults>>

Goto(s, pc) == saver' = [saver EXCEPT ![s].pc = pc]

WriteDoc(s) ==
  /\ saver[s].pc = "doc"
  /\ doc' = saver[s].forDoc
  /\ Goto(s, "snap")
  /\ UNCHANGED <<changes, quiet, ram, timer, file, saved, raced, counters>>

(* An attempt fails, whether it has got through or not.  After the last    *)
(* one, or an error that is not of the network, the save goes on.          *)
DocFails(s) ==
  /\ saver[s].pc = "doc" /\ faults < MaxFault
  /\ faults' = faults + 1
  /\ doc' \in {doc, saver[s].forDoc}
  /\ \/ UNCHANGED saver
     \/ saver' = [saver EXCEPT ![s].pc = "snap", ![s].clean = FALSE]
  /\ UNCHANGED <<changes, quiet, ram, timer, file, saved, raced, jobs>>

-----------------------------------------------------------------------------
(* save_to_file and _atomic_json_save.                                     *)

TakeState(s) ==
  /\ saver[s].pc = "snap"
  /\ saver' = [saver EXCEPT ![s].forFile = ram, ![s].pc = "replace"]
  /\ UNCHANGED <<changes, quiet, ram, timer, doc, file, saved, raced, counters>>

(* The file is written under a name of its own and renamed.                *)
Replace(s) ==
  /\ saver[s].pc = "replace"
  /\ file' = saver[s].forFile
  /\ saved' = IF saver[s].clean THEN saver[s].forDoc ELSE saved
  /\ saver' = [saver EXCEPT ![s] = NoSave]
  /\ UNCHANGED <<changes, quiet, ram, timer, doc, raced, counters>>

Save(s) ==
  \/ WriteDoc(s) \/ DocFails(s) \/ TakeState(s)
  \/ Replace(s)

-----------------------------------------------------------------------------
(* load_from_file: the file, or the copies made of it.                     *)
FromFile == file

(* Fault: without the document nothing is loaded.                          *)
DocOnly(reachable) == IF reachable THEN doc ELSE Missing

(* load_from_db: the document, else the file.                              *)
Loaded(reachable) == IF reachable /\ doc # Missing THEN doc ELSE FromFile
=============================================================================
