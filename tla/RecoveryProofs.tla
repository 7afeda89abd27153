---------------------------- MODULE RecoveryProofs ----------------------------
(***************************************************************************)
(* A start brings back what was saved and what was backed up, and what is  *)
(* unsaved has a thread or a timer that will save it, for any number of    *)
(* threads that save and back up, of changes, of crashes and of failed     *)
(* calls.                                                                  *)
(***************************************************************************)
EXTENDS Recovery, TLAPS, FiniteSetTheorems, WellFoundedInduction

-----------------------------------------------------------------------------
(* The inductive invariant.                                                *)

(* A table has positive ids, of which there is a greatest, and rows of the *)
(* first n changes.                                                        *)
IsTable(g, n) ==
  /\ DOMAIN g \subseteq Nat \ {0}
  /\ \A i \in DOMAIN g : g[i] \in 0..n
  /\ \E m \in Nat : \A i \in DOMAIN g : i <= m

JobOK(j, n) ==
  /\ j = [pc |-> j.pc, rows |-> j.rows, clean |-> j.clean]
  /\ j.pc \in {"idle", "chunk1", "chunk2", "manifest"} /\ j.clean \in BOOLEAN
  /\ IsTable(j.rows, n) /\ (j.pc = "idle" => j.rows = Empty)

SavesShape ==
  /\ StateTypeOK
  /\ 0 \in quiet /\ (timer => ram # 0)
  /\ phase # "up" => timer = FALSE /\ \A s \in Saver : ~Busy(s)

(* Nothing is backed up by a server that is not up.                        *)
TablesShape ==
  /\ unlogged \subseteq 1..changes /\ lost \subseteq 1..changes
  /\ backed \subseteq 0..changes /\ orphaned \in BOOLEAN
  /\ IsTable(rows, changes)
  /\ cloud = [n |-> cloud.n, data |-> cloud.data, chunk |-> <<cloud.chunk[1], cloud.chunk[2]>>]
  /\ cloud.n \in {0, 1, 2}
  /\ cloud.n = 1 => IsTable(cloud.data, changes)
  /\ \A i \in {1, 2} : cloud.chunk[i] = NoRows \/ IsTable(cloud.chunk[i], changes)
  /\ job = [b \in Backup |-> job[b]]
  /\ \A b \in Backup : JobOK(job[b], changes)
  /\ phase # "up" => \A b \in Backup : job[b].pc = "idle"

(* A save that has been undisturbed is the only one.                       *)
SaveAlone ==
  \A s \in Saver : Busy(s) /\ saver[s].clean =>
    /\ \A o \in Saver \ {s} : ~Busy(o)
    /\ saver[s].pc \in {"snap", "replace"} => doc = saver[s].forDoc

(* Nothing that a start could read, and nothing that a save has taken, is  *)
(* older than the last complete save.                                      *)
NothingOlder ==
  /\ phase = "up" /\ ram # 0 => ram >= saved
  /\ doc # Missing => doc \in saved..changes
  /\ file # Missing => file \in saved..changes
  /\ saved # 0 => doc # Missing
  /\ \A s \in Saver : Busy(s) =>
       /\ saved <= saver[s].forDoc /\ saver[s].forDoc <= ram /\ ram # 0
       /\ saver[s].pc = "replace" => saver[s].forDoc <= saver[s].forFile /\ saver[s].forFile <= ram

(* Saves that do not race come one after the other, and a change after the *)
(* last one took the state has started the timer again.                    *)
OneSave ==
  ~raced => /\ \A s, o \in Saver : Busy(s) /\ Busy(o) => s = o
            /\ \A s \in Saver : saver[s].pc = "replace" => timer \/ saver[s].forFile = ram

(* A backup that has been undisturbed is the only one, and the chunks it   *)
(* has written are there.                                                  *)
BackupAlone ==
  \A b \in Backup : job[b].pc # "idle" /\ job[b].clean =>
    /\ \A o \in Backup \ {b} : job[o].pc = "idle"
    /\ Chunks(job[b].rows) = 2 =>
         /\ job[b].pc \in {"chunk2", "manifest"} => cloud.chunk[1] = job[b].rows
         /\ job[b].pc = "manifest" => cloud.chunk[2] = job[b].rows

(* A thread that has come to pc has written its chunk i.                   *)
Written(pc, i) == pc = "manifest" \/ (pc = "chunk2" /\ i = 1)

(* What the last complete backup has kept is in the tables and in whatever *)
(* is made of them, or on the way back from Firestore; chunks that a later *)
(* manifest may find are of backups that had it too.                       *)
BackedIsKept ==
  /\ ~orphaned => backed \subseteq Range(rows)
  /\ \A b \in Backup : /\ Range(job[b].rows) \subseteq Range(rows)
                       /\ job[b].pc # "idle" /\ ~orphaned => backed \subseteq Range(job[b].rows)
  /\ \A g \in Payload : backed \subseteq Range(g)

ChunksAreThere ==
  /\ \A b \in Backup, i \in {1, 2} : Chunks(job[b].rows) = 2 /\ Written(job[b].pc, i) =>
       /\ cloud.chunk[i] # NoRows
       /\ ~orphaned => backed \subseteq Range(cloud.chunk[i])
  /\ cloud.n = 0 => backed = {}
  /\ cloud.n = 2 => cloud.chunk[1] # NoRows /\ cloud.chunk[2] # NoRows

SavesInv == SavesShape /\ SaveAlone /\ NothingOlder /\ OneSave /\ UnsavedHasCarrier

BackupInv == TablesShape /\ BackupAlone /\ BackedIsKept /\ ChunksAreThere

IInv ==
  /\ phase \in {"down", "restored", "up"} /\ reached \in BOOLEAN
  /\ SavesInv /\ BackupInv

-----------------------------------------------------------------------------
(* The saves.                                                              *)

LEMMA SavesUnchanged ==
  ASSUME SavesInv, UNCHANGED stateVars, jobs' \in 0..MaxJob, faults' \in 0..MaxFault,
         phase' = "up" <=> phase = "up"
  PROVE  SavesInv'
<1>2. SavesShape'
  BY DEF SavesInv, SavesShape, StateTypeOK, stateVars, Busy
<1>3. SaveAlone' /\ OneSave'
  BY DEF SavesInv, SaveAlone, OneSave, stateVars, Busy
<1>4. NothingOlder' /\ UnsavedHasCarrier'
  BY DEF SavesInv, NothingOlder, UnsavedHasCarrier, stateVars, Busy
<1> QED  BY <1>2, <1>3, <1>4 DEF SavesInv

LEMMA ChangeKeeps ==
  ASSUME SavesInv, PersistenceAssumption, phase = "up", phase' = "up", Change
  PROVE  SavesInv'
<1> USE DEF Change, TimerStarted, counters, Busy
<1>1. SavesShape'
  BY DEF SavesInv, SavesShape, StateTypeOK, State, Missing, PersistenceAssumption
<1>2. SaveAlone'
  BY DEF SavesInv, SaveAlone
<1>3. NothingOlder'
  BY DEF SavesInv, SavesShape, StateTypeOK, State, NothingOlder, PersistenceAssumption
<1>4. OneSave'
  BY DEF SavesInv, OneSave
<1>5. UnsavedHasCarrier'
  BY DEF UnsavedHasCarrier
<1> QED  BY <1>1, <1>2, <1>3, <1>4, <1>5 DEF SavesInv

LEMMA BeginKeeps ==
  ASSUME SavesInv, PersistenceAssumption, phase = "up", phase' = "up", ram # 0,
         NEW s \in Saver, ~Busy(s), Begin(s), timer' \in {timer, FALSE},
         UNCHANGED <<changes, quiet, ram, doc, file, saved, faults>>
  PROVE  SavesInv'
<1>1. saver' \in [Saver -> [pc : {"idle", "doc", "snap", "replace"},
                            forDoc : State, forFile : State, clean : BOOLEAN]]
  <2> DEFINE Record == [pc : {"idle", "doc", "snap", "replace"},
                        forDoc : State, forFile : State, clean : BOOLEAN]
  <2>1. saver \in [Saver -> Record] /\ ram \in State /\ 0 \in State
    BY DEF SavesInv, SavesShape, StateTypeOK, State, PersistenceAssumption
  <2>2. [NoSave EXCEPT !.pc = "doc", !.forDoc = ram, !.clean = (Others(s) = {})] \in Record
    BY <2>1 DEF NoSave
  <2>3. ASSUME NEW o \in Saver
        PROVE  [saver[o] EXCEPT !.clean = @ /\ ~Busy(o)] \in Record
    <3>1. saver[o] \in Record
      BY <2>1
    <3>2. (saver[o].clean /\ ~Busy(o)) \in BOOLEAN
      BY Zenon
    <3> QED  BY <3>1, <3>2
  <2> HIDE DEF Record
  <2>4. saver' \in [Saver -> Record]
    BY <2>2, <2>3 DEF Begin
  <2> QED  BY <2>4 DEF Record
<1>2. /\ saver'[s].pc = "doc" /\ saver'[s].forDoc = ram
      /\ saver'[s].clean => \A o \in Saver \ {s} : ~Busy(o)
  BY DEF Begin, NoSave, SavesInv, SavesShape, StateTypeOK, Others
<1>3. ASSUME NEW o \in Saver \ {s}
      PROVE  /\ saver'[o].pc = saver[o].pc /\ saver'[o].forDoc = saver[o].forDoc
             /\ saver'[o].forFile = saver[o].forFile
             /\ saver'[o].clean => ~Busy(o)
  BY <1>3 DEF Begin, SavesInv, SavesShape, StateTypeOK
<1>4. raced' \in BOOLEAN /\ (~raced' => ~raced /\ \A o \in Saver \ {s} : ~Busy(o))
  BY Zenon DEF Begin, Others
<1>5. SavesShape'
  <2>1. timer' \in BOOLEAN /\ (timer' => ram # 0)
    BY DEF SavesInv, SavesShape, StateTypeOK
  <2>2. jobs' \in 0..MaxJob
    <3>1. jobs < MaxJob /\ jobs' = jobs + 1
      BY Zenon DEF Begin
    <3> QED  BY <3>1 DEF SavesInv, SavesShape, StateTypeOK, PersistenceAssumption
  <2>3. raced' \in BOOLEAN
    BY <1>4
  <2> QED  BY <1>1, <2>1, <2>2, <2>3 DEF SavesInv, SavesShape, StateTypeOK
<1>6. SaveAlone'
  BY <1>2, <1>3 DEF SaveAlone, Busy
<1>7. NothingOlder'
  BY <1>2, <1>3 DEF SavesInv, SavesShape, StateTypeOK, State, NothingOlder, Busy, PersistenceAssumption
<1>8. OneSave'
  BY <1>2, <1>3, <1>4 DEF OneSave, Busy
<1>9. UnsavedHasCarrier'
  BY <1>2 DEF UnsavedHasCarrier
<1> QED  BY <1>5, <1>6, <1>7, <1>8, <1>9 DEF SavesInv

LEMMA WriteDocKeeps ==
  ASSUME SavesInv, phase = "up", phase' = "up", NEW s \in Saver, WriteDoc(s)
  PROVE  SavesInv'
<1>1. saver[s] \in [pc : {"idle", "doc", "snap", "replace"},
                    forDoc : State, forFile : State, clean : BOOLEAN]
  BY DEF SavesInv, SavesShape, StateTypeOK
<1>2. saver' = [saver EXCEPT ![s] = [saver[s] EXCEPT !.pc = "snap"]]
  BY DEF WriteDoc, Goto
<1>3. /\ saver[s].pc = "doc" /\ saver'[s].pc = "snap"
      /\ saver'[s].forDoc = saver[s].forDoc
      /\ saver'[s].clean => saver[s].clean
      /\ \A o \in Saver \ {s} : saver'[o] = saver[o]
  BY <1>1, <1>2 DEF WriteDoc, SavesInv, SavesShape, StateTypeOK
<1>4. SavesShape'
  BY <1>1, <1>2 DEF WriteDoc, SavesInv, SavesShape, StateTypeOK, counters
<1>5. SaveAlone'
  BY <1>3 DEF WriteDoc, SavesInv, SaveAlone, Busy
<1>6. NothingOlder'
  BY <1>1, <1>3
     DEF WriteDoc, SavesInv, NothingOlder, SavesShape, StateTypeOK, State, Missing, Busy
<1>7. OneSave'
  BY <1>3 DEF WriteDoc, SavesInv, OneSave, Busy
<1>8. UnsavedHasCarrier'
  BY <1>3 DEF UnsavedHasCarrier
<1> QED  BY <1>4, <1>5, <1>6, <1>7, <1>8 DEF SavesInv

LEMMA DocFailsKeeps ==
  ASSUME SavesInv, PersistenceAssumption, phase = "up", phase' = "up",
         NEW s \in Saver, DocFails(s)
  PROVE  SavesInv'
<1>1. saver[s] \in [pc : {"idle", "doc", "snap", "replace"},
                    forDoc : State, forFile : State, clean : BOOLEAN]
  BY DEF SavesInv, SavesShape, StateTypeOK
<1>2. \/ saver' = saver
      \/ saver' = [saver EXCEPT ![s] = [saver[s] EXCEPT !.pc = "snap", !.clean = FALSE]]
  BY <1>1 DEF DocFails, SavesInv, SavesShape, StateTypeOK
<1>3. /\ saver[s].pc = "doc" /\ saver'[s].pc \in {"doc", "snap"}
      /\ saver'[s].forDoc = saver[s].forDoc
      /\ saver'[s].clean => saver[s].clean /\ saver'[s].pc = "doc"
      /\ saver'[s] \in [pc : {"idle", "doc", "snap", "replace"},
                        forDoc : State, forFile : State, clean : BOOLEAN]
  BY <1>1, <1>2 DEF DocFails, SavesInv, SavesShape, StateTypeOK
<1>4. \A o \in Saver \ {s} : saver'[o] = saver[o]
  BY <1>2 DEF SavesInv, SavesShape, StateTypeOK
<1>5. SavesShape'
  <2>1. saver' \in [Saver -> [pc : {"idle", "doc", "snap", "replace"},
                              forDoc : State, forFile : State, clean : BOOLEAN]]
    BY <1>2, <1>3 DEF SavesInv, SavesShape, StateTypeOK
  <2>2. doc' \in State \cup {Missing} /\ faults' \in 0..MaxFault
    BY <1>1 DEF DocFails, SavesInv, SavesShape, StateTypeOK, PersistenceAssumption
  <2> QED  BY <2>1, <2>2 DEF DocFails, SavesInv, SavesShape, StateTypeOK
<1>6. SaveAlone'
  BY <1>3, <1>4 DEF DocFails, SavesInv, SaveAlone, Busy
<1>7. NothingOlder'
  BY <1>1, <1>3, <1>4
     DEF DocFails, SavesInv, NothingOlder, SavesShape, StateTypeOK, State, Missing, Busy
<1>8. OneSave'
  BY <1>3, <1>4 DEF DocFails, SavesInv, OneSave, Busy
<1>9. UnsavedHasCarrier'
  BY <1>3 DEF UnsavedHasCarrier
<1> QED  BY <1>5, <1>6, <1>7, <1>8, <1>9 DEF SavesInv

LEMMA TakeStateKeeps ==
  ASSUME SavesInv, PersistenceAssumption, phase = "up", phase' = "up",
         NEW s \in Saver, TakeState(s)
  PROVE  SavesInv'
<1>1. saver[s] \in [pc : {"idle", "doc", "snap", "replace"},
                    forDoc : State, forFile : State, clean : BOOLEAN]
  BY DEF SavesInv, SavesShape, StateTypeOK
<1>2. saver' = [saver EXCEPT ![s] = [saver[s] EXCEPT !.forFile = ram, !.pc = "replace"]]
  BY DEF TakeState, SavesInv, SavesShape, StateTypeOK
<1>3. /\ saver[s].pc = "snap" /\ saver'[s].pc = "replace"
      /\ saver'[s].forDoc = saver[s].forDoc /\ saver'[s].forFile = ram
      /\ saver'[s].clean => saver[s].clean
      /\ \A o \in Saver \ {s} : saver'[o] = saver[o]
  BY <1>1, <1>2 DEF TakeState, SavesInv, SavesShape, StateTypeOK
<1>4. SavesShape'
  <2>1. ram \in State
    BY DEF SavesInv, SavesShape, StateTypeOK, State, PersistenceAssumption
  <2>2. saver' \in [Saver -> [pc : {"idle", "doc", "snap", "replace"},
                              forDoc : State, forFile : State, clean : BOOLEAN]]
    BY <1>1, <1>2, <2>1 DEF SavesInv, SavesShape, StateTypeOK
  <2> QED  BY <2>2, <1>3 DEF TakeState, SavesInv, SavesShape, StateTypeOK, counters
<1>5. SaveAlone'
  <2>1. doc' = doc /\ SaveAlone
    BY DEF TakeState, SavesInv
  <2>2. \A o \in Saver : Busy(o)' <=> Busy(o)
    BY <1>3 DEF Busy
  <2>3. \A o \in Saver : saver'[o].clean => saver[o].clean
    BY <1>3
  <2>4. \A o \in Saver : /\ saver'[o].forDoc = saver[o].forDoc
                         /\ saver'[o].pc \in {"snap", "replace"}
                              => saver[o].pc \in {"snap", "replace"}
    BY <1>3
  <2> QED  BY <2>1, <2>2, <2>3, <2>4 DEF SaveAlone
<1>6. NothingOlder'
  BY <1>1, <1>3
     DEF TakeState, SavesInv, NothingOlder, SavesShape, StateTypeOK, State, Missing, Busy
<1>7. OneSave'
  BY <1>3 DEF TakeState, SavesInv, OneSave, Busy
<1>8. UnsavedHasCarrier'
  BY <1>3 DEF TakeState, UnsavedHasCarrier, Busy
<1> QED  BY <1>4, <1>5, <1>6, <1>7, <1>8 DEF SavesInv

LEMMA ReplaceKeeps ==
  ASSUME SavesInv, phase = "up", phase' = "up", NEW s \in Saver, Replace(s)
  PROVE  SavesInv'
<1>1. saver[s] \in [pc : {"idle", "doc", "snap", "replace"},
                    forDoc : State, forFile : State, clean : BOOLEAN]
  BY DEF SavesInv, SavesShape, StateTypeOK
<1>2. /\ saver[s].pc = "replace" /\ saver'[s].pc = "idle"
      /\ \A o \in Saver \ {s} : saver'[o] = saver[o]
  BY DEF Replace, NoSave, SavesInv, SavesShape, StateTypeOK
<1>3. /\ saved <= saver[s].forDoc /\ saver[s].forDoc <= saver[s].forFile
      /\ saver[s].forFile <= ram /\ ram # 0
  BY <1>2 DEF SavesInv, NothingOlder, Busy
<1>4. saved' \in 0..changes
  BY <1>1, <1>3 DEF Replace, SavesInv, SavesShape, StateTypeOK, State
<1>5. SavesShape'
  <2>1. NoSave \in [pc : {"idle", "doc", "snap", "replace"},
                    forDoc : State, forFile : State, clean : BOOLEAN]
    BY DEF NoSave, State, SavesInv, SavesShape, StateTypeOK
  <2> QED  BY <1>1, <1>4, <2>1 DEF Replace, SavesInv, SavesShape, StateTypeOK, counters
<1>6. SaveAlone'
  BY <1>2 DEF Replace, SavesInv, SaveAlone, Busy
<1>7. NothingOlder'
  <2>1. CASE saver[s].clean
    <3>1. saved' = saver[s].forDoc /\ doc = saver[s].forDoc
      BY <1>2, <2>1 DEF Replace, SavesInv, SaveAlone, Busy
    <3>2. \A o \in Saver : saver'[o].pc = "idle"
      BY <1>2, <2>1 DEF SavesInv, SaveAlone, Busy
    <3> QED
      BY <1>1, <1>3, <3>1, <3>2
         DEF Replace, SavesInv, NothingOlder, SavesShape, StateTypeOK, State, Missing, Busy
  <2>2. CASE ~saver[s].clean
    BY <1>1, <1>2, <1>3, <2>2
       DEF Replace, SavesInv, NothingOlder, SavesShape, StateTypeOK, State, Missing, Busy
  <2> QED  BY <2>1, <2>2
<1>8. OneSave'
  BY <1>2 DEF Replace, SavesInv, OneSave, Busy
<1>9. UnsavedHasCarrier'
  BY <1>2 DEF Replace, SavesInv, OneSave, UnsavedHasCarrier, Busy
<1> QED  BY <1>5, <1>6, <1>7, <1>8, <1>9 DEF SavesInv

(* What of a crash the saves see.                                          *)
LEMMA CrashEndsSaves ==
  ASSUME SavesInv, PersistenceAssumption, Crash
  PROVE  SavesInv'
<1>1. /\ phase' = "down" /\ ram' = 0 /\ timer' = FALSE
      /\ saver' = [s \in Saver |-> NoSave] /\ file' \in {file, Missing}
      /\ UNCHANGED <<changes, quiet, doc, saved, raced, jobs>>
      /\ faults < MaxFault /\ faults' = faults + 1
  BY DEF Crash
<1>2. SavesShape'
  <2>1. faults' \in 0..MaxFault /\ file' \in State \cup {Missing} /\ 0 \in State /\ 0 \in 0..changes
    BY <1>1 DEF SavesInv, SavesShape, StateTypeOK, State, PersistenceAssumption
  <2>2. NoSave \in [pc : {"idle", "doc", "snap", "replace"},
                    forDoc : State, forFile : State, clean : BOOLEAN]
    BY <2>1 DEF NoSave
  <2>3. \A s \in Saver : saver'[s].pc = "idle"
    BY <1>1 DEF NoSave
  <2> QED  BY <1>1, <2>1, <2>2, <2>3 DEF SavesInv, SavesShape, StateTypeOK, Busy
<1>3. SaveAlone' /\ OneSave'
  BY <1>1 DEF SaveAlone, OneSave, NoSave, Busy
<1>4. NothingOlder'
  BY <1>1 DEF SavesInv, NothingOlder, NoSave, Busy
<1>5. UnsavedHasCarrier'
  BY <1>1 DEF UnsavedHasCarrier
<1> QED  BY <1>2, <1>3, <1>4, <1>5 DEF SavesInv

(* What a start finds, and what the database says, is a state there was.   *)
LEMMA FoundStates ==
  ASSUME SavesInv, IsTable(rows, changes), NEW answered \in BOOLEAN
  PROVE  /\ Loaded(answered) \in 0..changes \cup {Missing}
         /\ InDatabase \subseteq 0..changes /\ 0 \notin InDatabase
<1>1. doc \in 0..changes \cup {Missing} /\ file \in 0..changes \cup {Missing}
  BY DEF SavesInv, NothingOlder, SavesShape, StateTypeOK, State
<1>2. Loaded(answered) \in {doc, file}
  BY DEF Loaded, FromFile
<1>3. \A v \in InDatabase : v \in Range(rows) /\ v \notin quiet
  BY Zenon DEF InDatabase
<1>4. Range(rows) \subseteq 0..changes
  BY DEF IsTable, Range
<1>5. 0 \in quiet
  BY DEF SavesInv, SavesShape
<1> QED  BY <1>1, <1>2, <1>3, <1>4, <1>5

LEMMA LoadStateKeeps ==
  ASSUME SavesInv, IsTable(rows, changes), PersistenceAssumption, LoadState
  PROVE  SavesInv'
<1> DEFINE found == IF Loaded(reached') = Missing THEN 0 ELSE Loaded(reached')
<1>1. /\ phase = "restored" /\ phase' = "up" /\ reached' \in BOOLEAN /\ raced' = FALSE
      /\ UNCHANGED <<changes, quiet, timer, saver, jobs, faults>>
  BY DEF LoadState, counters
<1>2. \/ /\ ram' \in InDatabase /\ file' = ram' /\ doc' = (IF reached' THEN ram' ELSE doc)
         /\ saved' = (IF reached' \/ ram' < saved THEN ram' ELSE saved)
      \/ ram' = found /\ UNCHANGED <<doc, file, saved>>
  BY DEF LoadState
<1>3. timer = FALSE /\ \A s \in Saver : saver[s].pc = "idle"
  BY <1>1 DEF SavesInv, SavesShape, Busy
<1>4. /\ Loaded(reached') \in 0..changes \cup {Missing}
      /\ InDatabase \subseteq 0..changes /\ 0 \notin InDatabase
  BY <1>1, FoundStates
<1>5. changes \in Nat /\ saved \in 0..changes /\ 0 \in 0..changes
  BY DEF SavesInv, SavesShape, StateTypeOK, State, PersistenceAssumption
<1>6. ram' \in 0..changes
  BY <1>2, <1>4, <1>5
<1>7. SavesShape'
  <2>2. doc' \in State \cup {Missing} /\ file' \in State \cup {Missing} /\ saved' \in 0..changes
    BY <1>2, <1>4, <1>5, <1>6 DEF SavesInv, SavesShape, StateTypeOK, State, PersistenceAssumption
  <2>3. timer' = FALSE /\ \A s \in Saver : saver'[s].pc = "idle"
    BY <1>1, <1>3
  <2> QED  BY <1>1, <1>6, <2>2, <2>3 DEF SavesInv, SavesShape, StateTypeOK, Busy
<1>8. SaveAlone' /\ OneSave'
  BY <1>1, <1>3 DEF SaveAlone, OneSave, Busy
<1>9. NothingOlder'
  <2>1. CASE /\ ram' \in InDatabase /\ file' = ram' /\ doc' = (IF reached' THEN ram' ELSE doc)
             /\ saved' = (IF reached' \/ ram' < saved THEN ram' ELSE saved)
    <3>1. ram' \in 1..changes /\ saved \in 0..changes /\ changes \in Nat
      BY <1>4, <1>5, <2>1
    <3>2. CASE reached'
      <4>1. doc' = ram' /\ file' = ram' /\ saved' = ram'
        BY <2>1, <3>2
      <4>2. ram' # Missing /\ ram' \in ram'..changes
        BY <3>1 DEF Missing
      <4> QED  BY <1>1, <1>3, <3>1, <4>1, <4>2 DEF NothingOlder, Busy
    <3>3. CASE ~reached'
      <4>1. doc' = doc /\ saved' = (IF ram' < saved THEN ram' ELSE saved)
        BY <2>1, <3>3
      <4>2. /\ doc # Missing => doc \in saved..changes
            /\ saved # 0 => doc # Missing
        BY DEF SavesInv, NothingOlder
      <4>3. saved' <= saved /\ saved' <= ram' /\ saved' \in 0..changes
        BY <3>1, <4>1
      <4>4. doc # Missing => doc \in saved'..changes
        BY <3>1, <4>2, <4>3
      <4>5. saved' # 0 => doc # Missing
        BY <3>1, <4>1, <4>2
      <4> QED  BY <1>1, <1>3, <2>1, <3>1, <4>1, <4>3, <4>4, <4>5 DEF NothingOlder, Busy
    <3> QED  BY <3>2, <3>3
  <2>2. CASE ram' = found /\ UNCHANGED <<doc, file, saved>>
    BY <1>1, <1>3, <2>2
       DEF SavesInv, NothingOlder, Busy, Missing, Loaded, FromFile
  <2> QED  BY <1>2, <2>1, <2>2
<1>10. UnsavedHasCarrier'
  BY <1>1, <1>2 DEF UnsavedHasCarrier, Loaded, FromFile
<1> QED  BY <1>7, <1>8, <1>9, <1>10 DEF SavesInv

-----------------------------------------------------------------------------
(* Tables.                                                                 *)

LEMMA TablesBasic ==
  ASSUME NEW n \in Nat
  PROVE  /\ IsTable(Empty, n) /\ DOMAIN Empty = {} /\ Range(Empty) = {}
         /\ IsTable(Baseline, n) /\ Range(Baseline) = {0}
         /\ ~IsTable(NoRows, n)
<1>1. DOMAIN Empty = {} /\ Range(Empty) = {}
  BY DEF Empty, Range
<1>2. DOMAIN Baseline = {1, 2} /\ Baseline[1] = 0 /\ Baseline[2] = 0
  BY DEF Baseline
<1>3. 0 \in DOMAIN NoRows
  BY DEF NoRows
<1>4. IsTable(Empty, n)
  BY <1>1 DEF IsTable
<1>5. IsTable(Baseline, n) /\ Range(Baseline) = {0}
  BY <1>2 DEF IsTable, Range
<1> QED  BY <1>1, <1>3, <1>4, <1>5 DEF IsTable

(* A table stays one when there are more changes.                          *)
LEMMA TablesGrow ==
  ASSUME NEW g, NEW m \in Nat, NEW n \in Nat, m <= n, IsTable(g, m)
  PROVE  IsTable(g, n)
  BY DEF IsTable

(* Rows laid over those there are: the new ones are there, and of the old  *)
(* ones only those are missing whose id was taken.                         *)
LEMMA LaidOver ==
  ASSUME NEW g, NEW n \in Nat, IsTable(g, n), IsTable(rows, n)
  PROVE  /\ IsTable(Restored(g), n)
         /\ Range(g) \subseteq Range(Restored(g))
         /\ \A i \in DOMAIN rows \ DOMAIN g : rows[i] \in Range(Restored(g))
<1>1. /\ DOMAIN Restored(g) = DOMAIN g \cup DOMAIN rows
      /\ \A i \in DOMAIN g : Restored(g)[i] = g[i]
      /\ \A i \in DOMAIN rows \ DOMAIN g : Restored(g)[i] = rows[i]
  BY DEF Restored
<1>2. PICK k \in Nat : \A i \in DOMAIN g : i <= k
  BY DEF IsTable
<1>3. PICK l \in Nat : \A i \in DOMAIN rows : i <= l
  BY DEF IsTable
<1>4. DOMAIN g \subseteq Nat /\ DOMAIN rows \subseteq Nat
  BY DEF IsTable
<1>5. k + l \in Nat /\ \A i \in DOMAIN Restored(g) : i <= k + l
  BY <1>1, <1>2, <1>3, <1>4
<1>6. IsTable(Restored(g), n)
  BY <1>1, <1>5 DEF IsTable
<1>7. /\ Range(g) \subseteq Range(Restored(g))
      /\ \A i \in DOMAIN rows \ DOMAIN g : rows[i] \in Range(Restored(g))
  BY <1>1 DEF Range
<1> QED  BY <1>6, <1>7

LEMMA TablesAreFinite ==
  ASSUME NEW g, NEW n, IsTable(g, n)
  PROVE  Size(g) \in Nat
<1>1. PICK m \in Nat : \A i \in DOMAIN g : i <= m
  BY DEF IsTable
<1>2. DOMAIN g \subseteq 1..m
  BY <1>1 DEF IsTable
<1>3. IsFiniteSet(1..m)
  BY FS_Interval
<1>4. IsFiniteSet(DOMAIN g)
  BY <1>2, <1>3, FS_Subset
<1> QED  BY <1>4, FS_CardinalityType DEF Size

(* A row gets an id that no other has.                                     *)
LEMMA NextIdIsNew ==
  ASSUME NEW n, IsTable(rows, n)
  PROVE  NextId \in Nat \ {0} /\ NextId \notin DOMAIN rows
<1>1. CASE DOMAIN rows = {}
  BY <1>1 DEF NextId
<1>2. CASE DOMAIN rows # {}
  <2> DEFINE bounds == {m \in Nat : \A i \in DOMAIN rows : i <= m}
  <2>1. bounds \subseteq Nat /\ bounds # {}
    BY DEF IsTable
  <2>2. PICK m \in bounds : \A y \in bounds : <<y, m>> \notin OpToRel(<, Nat)
    BY <2>1, WFMin, NatLessThanWellFounded, Zenon
  <2>3. \A y \in bounds : ~(y < m)
    BY <2>1, <2>2, Zenon DEF OpToRel
  <2>4. m \in DOMAIN rows
    <3>1. PICK i \in DOMAIN rows : TRUE
      BY <1>2
    <3>2. i <= m /\ i \in Nat \ {0} /\ m \in Nat
      BY <2>2, <3>1 DEF IsTable
    <3>3. m - 1 \in Nat /\ m - 1 \notin bounds
      BY <2>3, <3>2
    <3>4. PICK j \in DOMAIN rows : ~(j <= m - 1)
      BY <3>3
    <3>5. j <= m /\ j \in Nat
      BY <2>2, <3>4 DEF IsTable
    <3> QED  BY <3>2, <3>4, <3>5
  <2> DEFINE last == CHOOSE i \in DOMAIN rows : \A j \in DOMAIN rows : j <= i
  <2>5. last \in DOMAIN rows /\ \A j \in DOMAIN rows : j <= last
    BY <2>2, <2>4
  <2>6. NextId = 1 + last
    BY <1>2 DEF NextId
  <2> HIDE DEF last
  <2> QED  BY <2>5, <2>6 DEF IsTable
<1> QED  BY <1>1, <1>2

-----------------------------------------------------------------------------
(* The rows and the backups.                                               *)

LEMMA BackupUnchanged ==
  ASSUME BackupInv, UNCHANGED <<rows, cloud, job, backed, orphaned>>,
         changes \in Nat, changes' \in Nat, changes <= changes',
         unlogged' \subseteq 1..changes', lost' \subseteq 1..changes',
         phase' # "up" => phase # "up"
  PROVE  BackupInv'
<1>1. IsTable(rows, changes')
  BY TablesGrow DEF BackupInv, TablesShape
<1>2. cloud.n = 1 => IsTable(cloud.data, changes')
  BY TablesGrow DEF BackupInv, TablesShape
<1>3. \A i \in {1, 2} : cloud.chunk[i] = NoRows \/ IsTable(cloud.chunk[i], changes')
  BY TablesGrow DEF BackupInv, TablesShape
<1>4. \A b \in Backup : JobOK(job[b], changes')
  BY TablesGrow DEF BackupInv, TablesShape, JobOK
<1>5. TablesShape'
  BY <1>1, <1>2, <1>3, <1>4 DEF BackupInv, TablesShape
<1>6. BackupAlone' /\ BackedIsKept' /\ ChunksAreThere'
  BY DEF BackupInv, BackupAlone, BackedIsKept, ChunksAreThere, Payload
<1> QED  BY <1>5, <1>6 DEF BackupInv

LEMMA LogKeeps ==
  ASSUME BackupInv, changes \in Nat, changes' = changes, phase' = phase, NEW v \in unlogged, Log(v)
  PROVE  BackupInv'
<1>1. CASE UNCHANGED rows
  <2>1. /\ unlogged' \subseteq 1..changes' /\ lost' \subseteq 1..changes'
        /\ UNCHANGED <<rows, cloud, job, backed, orphaned>>
    BY <1>1 DEF Log, BackupInv, TablesShape
  <2> QED  BY <2>1, BackupUnchanged
<1>2. CASE rows' = [i \in DOMAIN rows \cup {NextId} |-> IF i = NextId THEN v ELSE rows[i]] /\ UNCHANGED lost
  <2>1. IsTable(rows, changes) /\ v \in 0..changes
    BY DEF BackupInv, TablesShape
  <2>2. NextId \in Nat \ {0} /\ NextId \notin DOMAIN rows
    BY <2>1, NextIdIsNew
  <2>3. /\ DOMAIN rows' = DOMAIN rows \cup {NextId}
        /\ \A i \in DOMAIN rows : rows'[i] = rows[i]
        /\ rows'[NextId] = v
    BY <1>2, <2>2
  <2>4. IsTable(rows', changes)
    <3>1. PICK k \in Nat : \A i \in DOMAIN rows : i <= k
      BY <2>1 DEF IsTable
    <3>2. k + NextId \in Nat /\ \A i \in DOMAIN rows' : i <= k + NextId
      BY <2>1, <2>2, <2>3, <3>1 DEF IsTable
    <3> QED  BY <2>1, <2>2, <2>3, <3>2 DEF IsTable
  <2>5. Range(rows) \subseteq Range(rows')
    BY <2>3 DEF Range
  <2>6. UNCHANGED <<cloud, job, backed, orphaned>> /\ unlogged' \subseteq unlogged
    BY DEF Log
  <2>7. TablesShape'
    BY <1>2, <2>4, <2>6 DEF BackupInv, TablesShape
  <2>8. BackupAlone'
    BY <2>6 DEF BackupInv, BackupAlone
  <2>9. BackedIsKept' /\ ChunksAreThere'
    BY <2>5, <2>6 DEF BackupInv, BackedIsKept, ChunksAreThere, Payload
  <2> QED  BY <2>7, <2>8, <2>9 DEF BackupInv
<1> QED  BY <1>1, <1>2 DEF Log

LEMMA StartBackupKeeps ==
  ASSUME BackupInv, changes \in Nat, changes' = changes, phase = "up", phase' = "up",
         NEW b \in Backup, StartBackup(b)
  PROVE  BackupInv'
<1> DEFINE others == {o \in Backup \ {b} : job[o].pc # "idle"}
           mine == [pc |-> IF Chunks(rows) = 1 THEN "manifest" ELSE "chunk1",
                    rows |-> rows, clean |-> others = {}]
<1>1. /\ UNCHANGED <<unlogged, rows, lost, cloud, backed, orphaned>>
      /\ job[b].pc = "idle"
      /\ job' = [o \in Backup |-> IF o = b THEN mine
                                  ELSE [job[o] EXCEPT !.clean = @ /\ o \notin others]]
  BY DEF StartBackup
<1>2. IsTable(rows, changes) /\ \A o \in Backup : JobOK(job[o], changes)
  BY DEF BackupInv, TablesShape
<1>3. JobOK(mine, changes)
  BY <1>2 DEF JobOK
<1>4. ASSUME NEW o \in Backup \ {b}
      PROVE  /\ JobOK(job'[o], changes)
             /\ job'[o].pc = job[o].pc /\ job'[o].rows = job[o].rows
             /\ job'[o].clean => o \notin others
  <2>1. job'[o] = [job[o] EXCEPT !.clean = @ /\ o \notin others]
    BY <1>1
  <2>2. job[o] = [pc |-> job[o].pc, rows |-> job[o].rows, clean |-> job[o].clean]
    BY <1>2 DEF JobOK
  <2> DEFINE still == job[o].clean /\ o \notin others
  <2>3. job'[o] = [pc |-> job[o].pc, rows |-> job[o].rows, clean |-> still]
    BY <2>1, <2>2
  <2>4. still \in BOOLEAN /\ (still => o \notin others)
    BY Zenon
  <2> HIDE DEF others, still
  <2>5. job'[o].pc = job[o].pc /\ job'[o].rows = job[o].rows /\ job'[o].clean = still
    BY <2>3
  <2>6. /\ job[o].pc \in {"idle", "chunk1", "chunk2", "manifest"}
        /\ IsTable(job[o].rows, changes) /\ (job[o].pc = "idle" => job[o].rows = Empty)
    BY <1>2 DEF JobOK
  <2>7. JobOK(job'[o], changes)
    BY <2>3, <2>4, <2>5, <2>6 DEF JobOK
  <2> QED  BY <2>4, <2>5, <2>7
<1>5. job'[b] = mine
  BY <1>1
<1>6. mine.rows = rows /\ mine.pc # "chunk2" /\ (mine.clean => others = {})
      /\ (mine.pc = "manifest" => Chunks(rows) = 1)
  OBVIOUS
<1> HIDE DEF mine
<1>7. TablesShape'
  BY <1>1, <1>3, <1>4, <1>5 DEF BackupInv, TablesShape
<1>8. BackupAlone'
  <2>1. ASSUME job'[b].clean PROVE \A o \in Backup \ {b} : job'[o].pc = "idle"
    BY <1>4, <1>5, <1>6, <2>1
  <2>2. ASSUME NEW o \in Backup \ {b}, job'[o].clean PROVE job'[o].pc = "idle"
    BY <1>4, <2>2
  <2>3. Chunks(rows) = 2 => job'[b].pc \notin {"chunk2", "manifest"}
    BY <1>5, <1>6
  <2> HIDE DEF others
  <2> QED  BY <1>1, <1>5, <1>6, <2>1, <2>2, <2>3 DEF BackupAlone
<1>9. BackedIsKept'
  BY <1>1, <1>4, <1>5, <1>6 DEF BackupInv, BackedIsKept, Payload
<1>10. ChunksAreThere'
  <2>1. ASSUME NEW i \in {1, 2}, Chunks(rows) = 2 PROVE ~Written(mine.pc, i)
    BY <1>6, <2>1 DEF Written
  <2> QED  BY <1>1, <1>4, <1>5, <1>6, <2>1 DEF BackupInv, ChunksAreThere
<1> QED  BY <1>7, <1>8, <1>9, <1>10 DEF BackupInv

LEMMA WriteChunkKeeps ==
  ASSUME BackupInv, changes \in Nat, changes' = changes, phase = "up", phase' = "up",
         NEW b \in Backup, NEW i \in {1, 2}, WriteChunk(b, i)
  PROVE  BackupInv'
<1>1. /\ UNCHANGED <<unlogged, rows, lost, orphaned>>
      /\ job[b].pc = (IF i = 1 THEN "chunk1" ELSE "chunk2")
      /\ backed' = IF cloud.n = 2 /\ orphaned THEN {} ELSE backed
  BY DEF WriteChunk
<1>2. /\ \A o \in Backup : JobOK(job[o], changes)
      /\ cloud = [n |-> cloud.n, data |-> cloud.data, chunk |-> <<cloud.chunk[1], cloud.chunk[2]>>]
      /\ job = [o \in Backup |-> job[o]]
  BY DEF BackupInv, TablesShape
<1>3. /\ job'[b] = [pc |-> IF i = 1 THEN "chunk2" ELSE "manifest",
                    rows |-> job[b].rows, clean |-> job[b].clean]
      /\ \A o \in Backup \ {b} : job'[o] = job[o]
      /\ job' = [o \in Backup |-> job'[o]]
  BY <1>2 DEF WriteChunk, JobOK
<1>4. /\ cloud'.n = cloud.n /\ cloud'.data = cloud.data
      /\ cloud'.chunk[i] = job[b].rows
      /\ \A k \in {1, 2} \ {i} : cloud'.chunk[k] = cloud.chunk[k]
      /\ cloud' = [n |-> cloud'.n, data |-> cloud'.data, chunk |-> <<cloud'.chunk[1], cloud'.chunk[2]>>]
  BY <1>2 DEF WriteChunk
<1>5. JobOK(job'[b], changes)
  BY <1>2, <1>3 DEF JobOK
<1>6. TablesShape'
  BY <1>1, <1>2, <1>3, <1>4, <1>5 DEF BackupInv, TablesShape, JobOK
<1>7. BackupAlone'
  BY <1>1, <1>3, <1>4 DEF BackupInv, BackupAlone
<1>8. BackedIsKept'
  <2>1. \A g \in Payload' : backed' \subseteq Range(g)
    <3>1. CASE cloud.n = 2
      BY <1>1, <1>4, <3>1 DEF BackupInv, BackedIsKept, ChunksAreThere, Payload
    <3>2. CASE cloud.n # 2
      BY <1>1, <1>4, <3>2 DEF BackupInv, BackedIsKept, Payload
    <3> QED  BY <3>1, <3>2
  <2> QED  BY <1>1, <1>3, <2>1 DEF BackupInv, BackedIsKept
<1>9. ChunksAreThere'
  <2>1. job[b].rows # NoRows
    <3>1. IsTable(job[b].rows, changes)
      BY <1>2 DEF JobOK
    <3> QED  BY <3>1, TablesBasic
  <2>2. ASSUME NEW o \in Backup, NEW k \in {1, 2},
               Chunks(job'[o].rows) = 2, Written(job'[o].pc, k)
        PROVE  /\ cloud'.chunk[k] # NoRows
               /\ ~orphaned' => backed' \subseteq Range(cloud'.chunk[k])
    <3>1. job'[o].rows = job[o].rows
      BY <1>3
    <3>2. ~orphaned' => backed' = backed
      BY <1>1
    <3>3. CASE k = i
      <4>1. ~orphaned => backed \subseteq Range(job[b].rows)
        BY <1>1 DEF BackupInv, BackedIsKept
      <4> QED  BY <1>1, <1>4, <2>1, <3>2, <3>3, <4>1
    <3>4. CASE k # i
      <4>1. Written(job[o].pc, k)
        BY <1>1, <1>3, <2>2, <3>4 DEF Written
      <4> QED  BY <1>1, <1>4, <2>2, <3>1, <3>2, <3>4, <4>1 DEF BackupInv, ChunksAreThere
    <3> QED  BY <3>3, <3>4
  <2>3. /\ cloud'.n = 0 => backed' = {}
        /\ cloud'.n = 2 => cloud'.chunk[1] # NoRows /\ cloud'.chunk[2] # NoRows
    BY <1>1, <1>4, <2>1 DEF BackupInv, ChunksAreThere
  <2> QED  BY <2>2, <2>3 DEF ChunksAreThere
<1> QED  BY <1>6, <1>7, <1>8, <1>9 DEF BackupInv

LEMMA WriteManifestKeeps ==
  ASSUME BackupInv, changes \in Nat, changes' = changes, phase = "up", phase' = "up",
         NEW b \in Backup, WriteManifest(b)
  PROVE  BackupInv'
<1> DEFINE mine == job[b].rows
<1>1. /\ UNCHANGED <<unlogged, rows, lost>> /\ job[b].pc = "manifest"
      /\ backed' = IF job[b].clean THEN Range(mine) ELSE IF orphaned THEN {} ELSE backed
      /\ orphaned' = IF job[b].clean THEN FALSE ELSE orphaned
      /\ job' = [job EXCEPT ![b] = NoJob]
  BY DEF WriteManifest
<1>2. /\ \A o \in Backup : JobOK(job[o], changes)
      /\ cloud = [n |-> cloud.n, data |-> cloud.data, chunk |-> <<cloud.chunk[1], cloud.chunk[2]>>]
      /\ job = [o \in Backup |-> job[o]] /\ orphaned \in BOOLEAN
  BY DEF BackupInv, TablesShape
<1>3. job'[b] = NoJob /\ \A o \in Backup \ {b} : job'[o] = job[o]
  BY <1>1, <1>2
<1>4. /\ cloud'.n = Chunks(mine) /\ cloud'.chunk = cloud.chunk
      /\ cloud'.data = IF Chunks(mine) = 1 THEN mine ELSE Empty
      /\ cloud' = [n |-> cloud'.n, data |-> cloud'.data, chunk |-> <<cloud'.chunk[1], cloud'.chunk[2]>>]
  <2> DEFINE fresh == IF Chunks(mine) = 1 THEN mine ELSE Empty
             both == <<cloud.chunk[1], cloud.chunk[2]>>
  <2>1. cloud' = [cloud EXCEPT !.n = Chunks(mine), !.data = fresh]
    BY DEF WriteManifest
  <2>2. PICK n, data : cloud = [n |-> n, data |-> data, chunk |-> both]
    BY <1>2
  <2> HIDE DEF mine, fresh, both
  <2>3. cloud.chunk = both
    BY <2>2
  <2>4. cloud' = [n |-> Chunks(mine), data |-> fresh, chunk |-> both]
    BY <2>1, <2>2
  <2>5. cloud'.n = Chunks(mine) /\ cloud'.data = fresh /\ cloud'.chunk = both
    BY <2>4
  <2>6. both = <<cloud'.chunk[1], cloud'.chunk[2]>>
    BY <2>3, <2>5 DEF both
  <2> QED  BY <2>3, <2>4, <2>5, <2>6 DEF fresh
<1>5. JobOK(NoJob, changes) /\ IsTable(mine, changes)
  BY <1>2, TablesBasic DEF JobOK, NoJob
<1>6. Chunks(mine) \in {1, 2}
  BY DEF Chunks
<1>7. Range(mine) \subseteq 0..changes /\ Range(mine) \subseteq Range(rows)
  BY <1>5 DEF BackupInv, BackedIsKept, IsTable, Range
<1> HIDE DEF mine
<1>8. TablesShape'
  BY <1>1, <1>2, <1>3, <1>4, <1>5, <1>6, <1>7 DEF BackupInv, TablesShape
<1>9. BackupAlone'
  BY <1>1, <1>3, <1>4 DEF BackupInv, BackupAlone, NoJob
<1>10. /\ NoJob.rows = Empty /\ NoJob.pc = "idle" /\ Range(Empty) = {}
       /\ \A i \in {1, 2} : ~Written("idle", i)
  BY TablesBasic DEF NoJob, Written
<1>11. job[b].clean => \A o \in Backup \ {b} : job[o].pc = "idle"
  BY <1>1 DEF BackupInv, BackupAlone
<1>12. ~job[b].clean => orphaned' = orphaned /\ (backed' = {} \/ (backed' = backed /\ ~orphaned))
  BY <1>1
<1>13. BackedIsKept'
  <2>1. /\ ~orphaned' => backed' \subseteq Range(rows')
        /\ \A o \in Backup : Range(job'[o].rows) \subseteq Range(rows')
    BY <1>1, <1>3, <1>7, <1>10 DEF BackupInv, BackedIsKept
  <2>2. \A o \in Backup : job'[o].pc # "idle" /\ ~orphaned' => backed' \subseteq Range(job'[o].rows)
    BY <1>3, <1>10, <1>11, <1>12 DEF BackupInv, BackedIsKept
  <2>3. CASE Chunks(mine) = 1
    <3>1. Payload' = {mine}
      BY <1>4, <2>3 DEF Payload
    <3>2. backed' \subseteq Range(mine)
      BY <1>1, <1>12 DEF BackupInv, BackedIsKept, mine
    <3> QED  BY <2>1, <2>2, <3>1, <3>2 DEF BackedIsKept
  <2>4. CASE Chunks(mine) = 2
    <3>1. \A g \in Payload' : g = cloud.chunk[1]
      BY <1>4, <2>4 DEF Payload
    <3>2. job[b].clean => cloud.chunk[1] = mine
      BY <1>1, <2>4 DEF BackupInv, BackupAlone, mine
    <3>3. ~job[b].clean => backed' \subseteq Range(cloud.chunk[1])
      BY <1>1, <1>12, <2>4 DEF BackupInv, ChunksAreThere, Written, mine
    <3> QED  BY <1>1, <2>1, <2>2, <3>1, <3>2, <3>3 DEF BackedIsKept
  <2> QED  BY <1>6, <2>3, <2>4
<1>14. ChunksAreThere'
  <2>1. Chunks(mine) = 2 => cloud.chunk[1] # NoRows /\ cloud.chunk[2] # NoRows
    BY <1>1 DEF BackupInv, ChunksAreThere, Written, mine
  <2>2. cloud'.n # 0 /\ (cloud'.n = 2 => cloud'.chunk[1] # NoRows /\ cloud'.chunk[2] # NoRows)
    BY <1>4, <1>6, <2>1
  <2>3. ASSUME NEW o \in Backup, NEW i \in {1, 2},
               Chunks(job'[o].rows) = 2, Written(job'[o].pc, i)
        PROVE  /\ cloud'.chunk[i] # NoRows
               /\ ~orphaned' => backed' \subseteq Range(cloud'.chunk[i])
    <3>1. o # b /\ job'[o] = job[o] /\ job[o].pc # "idle"
      BY <1>3, <1>10, <2>3
    <3>2. ~job[b].clean
      BY <1>11, <3>1
    <3> QED  BY <1>4, <1>12, <2>3, <3>1, <3>2 DEF BackupInv, ChunksAreThere
  <2> QED  BY <2>2, <2>3 DEF ChunksAreThere
<1> QED  BY <1>8, <1>9, <1>13, <1>14 DEF BackupInv

LEMMA BackupFailsKeeps ==
  ASSUME BackupInv, changes \in Nat, changes' = changes, phase = "up", phase' = "up",
         NEW b \in Backup, BackupFails(b)
  PROVE  BackupInv'
<1>1. /\ UNCHANGED <<unlogged, rows, lost, cloud, backed, orphaned>>
      /\ job' = [job EXCEPT ![b] = NoJob]
  BY DEF BackupFails
<1>2. job = [o \in Backup |-> job[o]]
  BY DEF BackupInv, TablesShape
<1>3. job'[b] = NoJob /\ \A o \in Backup \ {b} : job'[o] = job[o]
  BY <1>1, <1>2
<1>4. JobOK(NoJob, changes) /\ NoJob.pc = "idle" /\ Range(NoJob.rows) = {}
  BY TablesBasic DEF JobOK, NoJob
<1>5. TablesShape'
  BY <1>1, <1>2, <1>3, <1>4 DEF BackupInv, TablesShape
<1>6. BackupAlone'
  BY <1>1, <1>3, <1>4 DEF BackupInv, BackupAlone
<1>7. BackedIsKept' /\ ChunksAreThere'
  BY <1>1, <1>3, <1>4 DEF BackupInv, BackedIsKept, ChunksAreThere, Written, Payload
<1> QED  BY <1>5, <1>6, <1>7 DEF BackupInv

(* What of a crash the backups see.                                        *)
LEMMA CrashEndsBackups ==
  ASSUME BackupInv, changes \in Nat, Crash
  PROVE  BackupInv'
<1>1. /\ UNCHANGED <<changes, cloud, backed>> /\ phase' = "down"
      /\ job' = [b \in Backup |-> NoJob] /\ unlogged' = {} /\ lost' = lost \cup unlogged
      /\ \/ UNCHANGED <<rows, orphaned>>
         \/ rows' = Empty /\ orphaned' = TRUE
  BY DEF Crash
<1>2. IsTable(Empty, changes) /\ Range(Empty) = {}
  BY TablesBasic
<1>3. JobOK(NoJob, changes) /\ NoJob.pc = "idle" /\ NoJob.rows = Empty
  BY <1>2 DEF JobOK, NoJob
<1>4. TablesShape'
  BY <1>1, <1>2, <1>3 DEF BackupInv, TablesShape
<1>5. BackupAlone'
  BY <1>1, <1>3 DEF BackupAlone
<1>6. BackedIsKept' /\ ChunksAreThere'
  BY <1>1, <1>2, <1>3 DEF BackupInv, BackedIsKept, ChunksAreThere, Written, Payload
<1> QED  BY <1>4, <1>5, <1>6 DEF BackupInv

(* What the documents decode to is a table.                                *)
LEMMA PayloadIsTables ==
  ASSUME BackupInv
  PROVE  \A g \in Payload : IsTable(g, changes)
  BY DEF BackupInv, TablesShape, Payload

(* Where the rows come from that a start leaves.                           *)
LEMMA RestoredFrom ==
  ASSUME NEW client \in BOOLEAN, NEW answers \in BOOLEAN, NEW r \in Outcomes(client, answers)
  PROVE  \/ r = rows /\ ((client /\ Size(rows) > Few) \/ Payload = {})
         \/ /\ client /\ answers /\ ~(Size(rows) > Few)
            /\ \E g \in Payload : r = Restored(g)
         \/ r = Restored(Baseline) /\ (Payload = {} \/ ~(client /\ answers))
  BY DEF Outcomes

LEMMA RestoreDbKeeps ==
  ASSUME BackupInv, changes \in Nat, RestoreDb
  PROVE  BackupInv'
<1>1. /\ phase' # "up" /\ phase # "up"
      /\ UNCHANGED <<changes, unlogged, lost, cloud, job, backed>>
      /\ orphaned' = /\ orphaned \/ ~(Range(rows) \subseteq Range(rows'))
                     /\ ~(reached' /\ Size(rows) <= Few /\ Payload # {})
  BY DEF RestoreDb, stateVars
<1>2. PICK client \in BOOLEAN, answers \in BOOLEAN :
         reached' = (client /\ answers) /\ rows' \in Outcomes(client, answers)
  BY DEF RestoreDb
<1>3. IsTable(rows, changes) /\ IsTable(Baseline, changes) /\ \A g \in Payload : IsTable(g, changes)
  BY TablesBasic, PayloadIsTables DEF BackupInv, TablesShape
<1>4. IsTable(rows', changes)
  BY <1>2, <1>3, RestoredFrom, LaidOver
<1>5. TablesShape'
  BY <1>1, <1>4 DEF BackupInv, TablesShape
<1>6. BackupAlone'
  BY <1>1 DEF BackupInv, BackupAlone
<1>7. ~orphaned' => backed \subseteq Range(rows')
  <2>1. Size(rows) \in Nat
    BY <1>3, TablesAreFinite
  <2>2. CASE rows' = rows /\ ((client /\ Size(rows) > Few) \/ Payload = {})
    BY <1>1, <2>1, <2>2, FewAssumption DEF BackupInv, BackedIsKept
  <2>3. CASE \E g \in Payload : rows' = Restored(g)
    BY <1>3, <2>3, LaidOver DEF BackupInv, BackedIsKept
  <2>4. CASE rows' = Restored(Baseline) /\ (Payload = {} \/ ~(client /\ answers))
    BY <1>1, <1>2, <2>4 DEF BackupInv, BackedIsKept
  <2> QED  BY <1>2, <2>2, <2>3, <2>4, RestoredFrom
<1>8. \A b \in Backup : Range(job[b].rows) = {}
  BY <1>1, <1>3, TablesBasic DEF BackupInv, TablesShape, JobOK
<1>9. BackedIsKept' /\ ChunksAreThere'
  <2>1. \A b \in Backup : job[b].pc = "idle"
    BY <1>1 DEF BackupInv, TablesShape
  <2> QED  BY <1>1, <1>7, <1>8, <2>1 DEF BackupInv, BackedIsKept, ChunksAreThere, Written, Payload
<1> QED  BY <1>5, <1>6, <1>9 DEF BackupInv

-----------------------------------------------------------------------------
(* The invariant is inductive.                                             *)

LEMMA InitInv ==
  ASSUME PersistenceAssumption, Init
  PROVE  IInv
<1> USE DEF Init, StateInit, BackupInit
<1>1. 0 \in State /\ 0 \in 0..MaxJob /\ 0 \in 0..MaxFault
  BY DEF State, PersistenceAssumption
<1>2. NoSave \in [pc : {"idle", "doc", "snap", "replace"},
                  forDoc : State, forFile : State, clean : BOOLEAN]
  BY <1>1 DEF NoSave
<1>3. \A s \in Saver : saver[s].pc = "idle"
  BY DEF NoSave
<1>4. SavesShape
  <2>1. saver \in [Saver -> [pc : {"idle", "doc", "snap", "replace"},
                            forDoc : State, forFile : State, clean : BOOLEAN]]
    BY <1>2
  <2>2. 0 \in 0..0
    OBVIOUS
  <2> QED  BY <1>1, <1>3, <2>1, <2>2 DEF SavesShape, StateTypeOK, Busy
<1>5. SaveAlone /\ NothingOlder /\ OneSave /\ UnsavedHasCarrier
  BY <1>3 DEF SaveAlone, NothingOlder, OneSave, UnsavedHasCarrier, Busy
<1>6. IsTable(Empty, 0) /\ Range(Empty) = {}
  BY TablesBasic
<1>7. JobOK(NoJob, 0) /\ NoJob.pc = "idle" /\ NoJob.rows = Empty
  BY <1>6 DEF JobOK, NoJob
<1>8. TablesShape
  <2>1. cloud.n = 0 /\ cloud.data = Empty /\ cloud.chunk = <<NoRows, NoRows>>
    OBVIOUS
  <2>2. cloud = [n |-> cloud.n, data |-> cloud.data, chunk |-> <<cloud.chunk[1], cloud.chunk[2]>>]
    BY <2>1
  <2>3. job = [b \in Backup |-> job[b]] /\ \A b \in Backup : job[b] = NoJob
    OBVIOUS
  <2> QED  BY <1>6, <1>7, <2>1, <2>2, <2>3 DEF TablesShape
<1>9. BackupAlone /\ BackedIsKept /\ ChunksAreThere
  BY <1>6, <1>7 DEF BackupAlone, BackedIsKept, ChunksAreThere, Written, Payload
<1> QED  BY <1>4, <1>5, <1>8, <1>9 DEF IInv, SavesInv, BackupInv

LEMMA NextInv ==
  ASSUME PersistenceAssumption, IInv, [Next]_vars
  PROVE  IInv'
<1>1. /\ SavesInv /\ BackupInv /\ changes \in Nat /\ jobs \in 0..MaxJob /\ faults \in 0..MaxFault
      /\ IsTable(rows, changes) /\ unlogged \subseteq 1..changes /\ lost \subseteq 1..changes
      /\ phase \in {"down", "restored", "up"} /\ reached \in BOOLEAN
  BY DEF IInv, SavesInv, SavesShape, StateTypeOK, State, BackupInv, TablesShape,
         PersistenceAssumption
<1>2. CASE Report
  <2>1. /\ phase = "up" /\ phase' = "up" /\ reached' = reached /\ Change
        /\ UNCHANGED <<rows, cloud, job, backed, orphaned>>
        /\ changes' = changes + 1 /\ unlogged' = unlogged \cup {changes'} /\ lost' = lost
    BY <1>2 DEF Report, Change
  <2>2. SavesInv'
    BY <1>1, <2>1, ChangeKeeps
  <2>3. unlogged' \subseteq 1..changes' /\ lost' \subseteq 1..changes'
    BY <1>1, <2>1
  <2>4. BackupInv'
    BY <1>1, <2>1, <2>3, BackupUnchanged
  <2> QED  BY <1>1, <2>1, <2>2, <2>4 DEF IInv
<1>3. CASE PersistState
  <2>1. PICK s \in Saver : Fire(s) \/ SaveNow(s) \/ Save(s)
    BY <1>3 DEF PersistState
  <2>2. phase = "up" /\ phase' = "up" /\ reached' = reached /\ UNCHANGED backupVars
    BY <1>3 DEF PersistState
  <2>3. changes' = changes
    BY <2>1 DEF Fire, SaveNow, Save, WriteDoc, DocFails, TakeState, Replace
  <2>4. BackupInv'
    BY <1>1, <2>2, <2>3, BackupUnchanged DEF backupVars
  <2>5. ASSUME Fire(s) PROVE SavesInv'
    <3>1. ram # 0
      BY <1>1, <2>5 DEF Fire, SavesInv, SavesShape
    <3>2. /\ ~Busy(s) /\ Begin(s) /\ timer' \in {timer, FALSE}
          /\ UNCHANGED <<changes, quiet, ram, doc, file, saved, faults>>
      BY <2>5 DEF Fire
    <3> QED  BY <1>1, <2>1, <2>2, <3>1, <3>2, BeginKeeps
  <2>6. ASSUME SaveNow(s) PROVE SavesInv'
    <3>1. /\ ~Busy(s) /\ Begin(s) /\ ram # 0 /\ timer' \in {timer, FALSE}
          /\ UNCHANGED <<changes, quiet, ram, doc, file, saved, faults>>
      BY <2>6 DEF SaveNow
    <3> QED  BY <1>1, <2>1, <2>2, <3>1, BeginKeeps
  <2>7. ASSUME Save(s) PROVE SavesInv'
    <3>1. CASE WriteDoc(s)
      BY <1>1, <2>1, <2>2, <3>1, WriteDocKeeps
    <3>2. CASE DocFails(s)
      BY <1>1, <2>1, <2>2, <3>2, DocFailsKeeps
    <3>3. CASE TakeState(s)
      BY <1>1, <2>1, <2>2, <3>3, TakeStateKeeps
    <3>4. CASE Replace(s)
      BY <1>1, <2>1, <2>2, <3>4, ReplaceKeeps
    <3> QED  BY <2>7, <3>1, <3>2, <3>3, <3>4 DEF Save
  <2> QED  BY <1>1, <2>1, <2>2, <2>4, <2>5, <2>6, <2>7 DEF IInv
<1>4. CASE WriteRow
  <2>1. PICK v \in unlogged : Log(v)
    BY <1>4 DEF WriteRow
  <2>2. UNCHANGED <<stateVars, phase, reached>>
    BY <1>4 DEF WriteRow
  <2>3. BackupInv'
    BY <1>1, <2>1, <2>2, LogKeeps DEF stateVars
  <2>4. jobs' \in 0..MaxJob /\ faults' \in 0..MaxFault
    BY <1>1, <2>1 DEF Log, PersistenceAssumption
  <2>5. SavesInv'
    BY <1>1, <2>2, <2>4, SavesUnchanged
  <2> QED  BY <1>1, <2>2, <2>3, <2>5 DEF IInv
<1>5. CASE BackUpRows
  <2>1. PICK b \in Backup : BackUp(b)
    BY <1>5 DEF BackUpRows
  <2>2. phase = "up" /\ UNCHANGED <<stateVars, phase, reached>>
    BY <1>5 DEF BackUpRows
  <2>3. jobs' \in 0..MaxJob /\ faults' \in 0..MaxFault
    <3>1. \/ jobs < MaxJob /\ jobs' = jobs + 1 /\ faults' = faults
          \/ faults < MaxFault /\ faults' = faults + 1 /\ jobs' = jobs
          \/ jobs' = jobs /\ faults' = faults
      BY <2>1 DEF BackUp, StartBackup, WriteChunk, WriteManifest, BackupFails, counters
    <3> QED  BY <1>1, <3>1 DEF PersistenceAssumption
  <2>4. SavesInv'
    BY <1>1, <2>2, <2>3, SavesUnchanged
  <2>5. BackupInv'
    BY <1>1, <2>1, <2>2, StartBackupKeeps, WriteChunkKeeps, WriteManifestKeeps, BackupFailsKeeps
       DEF BackUp, stateVars
  <2> QED  BY <1>1, <2>2, <2>4, <2>5 DEF IInv
<1>6. CASE Crash
  <2>1. phase' = "down" /\ reached' = reached
    BY <1>6 DEF Crash
  <2> QED  BY <1>1, <1>6, <2>1, CrashEndsSaves, CrashEndsBackups DEF IInv
<1>7. CASE RestoreDb
  <2>1. /\ phase = "down" /\ phase' = "restored" /\ reached' \in BOOLEAN
        /\ UNCHANGED <<stateVars, counters>>
    BY <1>7 DEF RestoreDb
  <2>2. SavesInv'
    BY <1>1, <2>1, SavesUnchanged DEF counters
  <2> QED  BY <1>1, <1>7, <2>1, <2>2, RestoreDbKeeps DEF IInv
<1>8. CASE LoadState
  <2>1. /\ phase' = "up" /\ reached' \in BOOLEAN /\ changes' = changes /\ UNCHANGED backupVars
    BY <1>8 DEF LoadState
  <2>2. BackupInv'
    BY <1>1, <2>1, BackupUnchanged DEF backupVars
  <2> QED  BY <1>1, <1>8, <2>1, <2>2, LoadStateKeeps DEF IInv
<1>9. CASE UNCHANGED vars
  <2>1. UNCHANGED <<stateVars, backupVars, counters, phase, reached>>
    BY <1>9 DEF vars
  <2>2. SavesInv'
    BY <1>1, <2>1, SavesUnchanged DEF counters
  <2>3. BackupInv'
    BY <1>1, <2>1, BackupUnchanged DEF stateVars, backupVars
  <2> QED  BY <1>1, <2>1, <2>2, <2>3 DEF IInv
<1> QED  BY <1>2, <1>3, <1>4, <1>5, <1>6, <1>7, <1>8, <1>9 DEF Next

LEMMA Invariance == Spec => []IInv
<1>1. Init => IInv
  BY InitInv, PersistenceAssumption
<1>2. IInv /\ [Next]_vars => IInv'
  BY NextInv, PersistenceAssumption
<1> QED  BY <1>1, <1>2, PTL DEF Spec

-----------------------------------------------------------------------------
(* The theorems.                                                           *)

(* The copies of the state, the tables and the backups are well formed     *)
(* after any number of crashes and of saves and backups that overlap       *)
(* (_execute_save_to_db, backup_sqlite_to_firestore).                      *)
THEOREM TypeCorrect == Spec => []TypeOK
<1>1. IInv => TypeOK
  <2> SUFFICES ASSUME IInv PROVE TypeOK
    OBVIOUS
  <2>1. StateTypeOK /\ TablesShape
    BY DEF IInv, SavesInv, SavesShape, BackupInv
  <2>2. 0..changes \subseteq State
    BY <2>1, PersistenceAssumption DEF StateTypeOK, State
  <2>3. \A g : IsTable(g, changes) => IsRows(g)
    BY <2>2 DEF IsTable, IsRows, Range
  <2>4. BackupTypeOK
    BY <2>1, <2>2, <2>3 DEF TablesShape, JobOK, BackupTypeOK
  <2> QED  BY <2>1, <2>4 DEF IInv, TypeOK
<1> QED  BY <1>1, Invariance, PTL

(* A change that neither Firestore nor the file has is waited for by the   *)
(* timer or carried by a thread, as long as no two saves have run at the   *)
(* same time (save_to_db, _execute_save_to_db).                            *)
THEOREM CarrierCorrect == Spec => []UnsavedHasCarrier
<1>1. IInv => UnsavedHasCarrier
  BY DEF IInv, SavesInv
<1> QED  BY <1>1, Invariance, PTL

(* A start does not bring back an older state than the last complete save  *)
(* (load_from_db), with the exceptions the property names.                 *)
THEOREM StartKeepsSavedCorrect == Spec => StartKeepsSaved
<1>1. ASSUME IInv, phase = "restored", phase' = "up", [Next]_vars
      PROVE  \/ ram' >= saved
             \/ file = Missing /\ ~reached'
             \/ saved \notin Range(rows) /\ ram' \in InDatabase
  <2>1. LoadState
    BY <1>1 DEF Next, vars, Report, PersistState, WriteRow, BackUpRows, Crash, RestoreDb
  <2> DEFINE found == IF Loaded(reached') = Missing THEN 0 ELSE Loaded(reached')
  <2>2. ram' \in InDatabase \/ ram' = found
    BY <2>1 DEF LoadState
  <2>3. /\ doc # Missing => doc \in saved..changes
        /\ file # Missing => file \in saved..changes
        /\ saved # 0 => doc # Missing
        /\ saved \in 0..changes /\ reached' \in BOOLEAN
    BY <1>1, <2>1 DEF IInv, SavesInv, SavesShape, StateTypeOK, NothingOlder, LoadState
  <2>4. CASE ram' \in InDatabase /\ saved \in Range(rows)
    <3>1. IsTable(rows, changes)
      BY <1>1 DEF IInv, BackupInv, TablesShape
    <3>2. ram' \in 0..changes /\ saved <= ram'
      BY <2>4, <3>1 DEF InDatabase, IsTable, Range
    <3> QED  BY <2>3, <3>2
  <2>5. CASE ram' = found
    BY <2>3, <2>5 DEF Loaded, FromFile, Missing
  <2> QED  BY <2>2, <2>4, <2>5
<1>2. IInv /\ [Next]_vars =>
        [phase = "restored" /\ phase' = "up" =>
           \/ ram' >= saved
           \/ file = Missing /\ ~reached'
           \/ saved \notin Range(rows) /\ ram' \in InDatabase]_vars
  BY <1>1
<1> QED  BY <1>2, Invariance, PTL DEF Spec, StartKeepsSaved

(* A start brings back the rows of the last complete backup                *)
(* (restore_sqlite_from_firestore): whatever backups, begun since, have    *)
(* failed, overlapped or been cut short by a crash, the tables or the      *)
(* documents still hold them.  The exceptions are those the property names:*)
(* the disk lost while Firestore does not answer or has chunks of two      *)
(* backups, and rows the baseline has replaced.                            *)
THEOREM StartKeepsBackedCorrect == Spec => StartKeepsBacked
<1>1. ASSUME IInv, phase = "down", phase' = "restored", [Next]_vars
      PROVE  \/ backed \subseteq Range(rows')
             \/ orphaned /\ (~reached' \/ Torn \/ Size(rows) > Few)
             \/ (~reached' \/ Torn) /\ \E i \in DOMAIN Baseline \cap DOMAIN rows : rows[i] # 0
  <2>1. RestoreDb
    BY <1>1 DEF Next, vars, Report, PersistState, WriteRow, BackUpRows, Crash, LoadState
  <2>2. PICK client \in BOOLEAN, answers \in BOOLEAN :
           reached' = (client /\ answers) /\ rows' \in Outcomes(client, answers)
    BY <2>1 DEF RestoreDb
  <2>3. /\ changes \in Nat
        /\ IsTable(rows, changes) /\ IsTable(Baseline, changes) /\ Range(Baseline) = {0}
        /\ \A g \in Payload : IsTable(g, changes) /\ backed \subseteq Range(g)
        /\ Payload = {} => backed = {} \/ Torn
        /\ ~orphaned => backed \subseteq Range(rows)
    <3>1. changes \in Nat /\ BackupInv
      BY <1>1, PersistenceAssumption DEF IInv, SavesInv, SavesShape, StateTypeOK, State
    <3>2. Payload = {} => backed = {} \/ Torn
      BY <3>1 DEF BackupInv, TablesShape, ChunksAreThere, Payload, Torn
    <3> QED  BY <3>1, <3>2, TablesBasic, PayloadIsTables DEF BackupInv, TablesShape, BackedIsKept
  <2>4. CASE rows' = rows /\ ((client /\ Size(rows) > Few) \/ Payload = {})
    <3>1. CASE orphaned
      BY <2>3, <2>4, <3>1
    <3>2. CASE ~orphaned
      BY <2>3, <2>4, <3>2
    <3> QED  BY <3>1, <3>2
  <2>5. CASE \E g \in Payload : rows' = Restored(g)
    BY <2>3, <2>5, LaidOver
  <2>6. CASE rows' = Restored(Baseline) /\ (Payload = {} \/ ~(client /\ answers))
    <3>1. CASE orphaned \/ backed = {}
      BY <2>2, <2>3, <2>6, <3>1
    <3>2. CASE (~(client /\ answers) \/ Torn) /\ ~orphaned /\ ~(backed \subseteq Range(rows'))
      <4>1. PICK v \in backed : v \notin Range(rows')
        BY <3>2
      <4>2. PICK i \in DOMAIN rows : rows[i] = v
        BY <2>3, <3>2, <4>1 DEF Range
      <4>3. /\ Range(Baseline) \subseteq Range(rows')
            /\ \A j \in DOMAIN rows \ DOMAIN Baseline : rows[j] \in Range(rows')
        BY <2>3, <2>6, LaidOver
      <4>4. i \in DOMAIN Baseline /\ rows[i] # 0
        BY <2>3, <4>1, <4>2, <4>3
      <4> QED  BY <2>2, <3>2, <4>4
    <3> QED  BY <2>2, <2>3, <2>6, <3>1, <3>2
  <2> QED  BY <2>2, <2>4, <2>5, <2>6, RestoredFrom
<1>2. IInv /\ [Next]_vars =>
        [phase = "down" /\ phase' = "restored" =>
           \/ backed \subseteq Range(rows')
           \/ orphaned /\ (~reached' \/ Torn \/ Size(rows) > Few)
           \/ (~reached' \/ Torn) /\ \E i \in DOMAIN Baseline \cap DOMAIN rows : rows[i] # 0]_vars
  BY <1>1
<1> QED  BY <1>2, Invariance, PTL DEF Spec, StartKeepsBacked
=============================================================================
