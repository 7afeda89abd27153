---------------------------- MODULE MessageBatches ----------------------------
(***************************************************************************)
(* What the batch processor promises of the messages it is given: they are *)
(* worked on batch by batch, one batch at a time, a message is never       *)
(* worked on twice, and each one is done with or lost in the end.          *)
(***************************************************************************)
EXTENDS Naturals

CONSTANT Message

VARIABLES waiting, working, done, lost

vars == <<waiting, working, done, lost>>

Known == waiting \cup working \cup done \cup lost

Init == waiting = {} /\ working = {} /\ done = {} /\ lost = {}

Arrive ==
  \E m \in Message \ Known :
    waiting' = waiting \cup {m} /\ UNCHANGED <<working, done, lost>>

(* What is taken is worked on, or found to be of no interest and done with. *)
Take ==
  /\ working = {} /\ waiting # {}
  /\ waiting' = {}
  /\ \E S \in SUBSET waiting : working' = S /\ done' = done \cup (waiting \ S)
  /\ UNCHANGED lost

Finish ==
  /\ working # {}
  /\ working' = {}
  /\ \E S \in SUBSET working : done' = done \cup S /\ lost' = lost \cup (working \ S)
  /\ UNCHANGED waiting

Next == Arrive \/ Take \/ Finish

Spec == Init /\ [][Next]_vars /\ WF_vars(Take) /\ WF_vars(Finish)
=============================================================================
