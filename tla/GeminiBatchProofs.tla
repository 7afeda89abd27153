--------------------------- MODULE GeminiBatchProofs ---------------------------
(***************************************************************************)
(* Proofs about GeminiBatch, for every set of messages, regions and every  *)
(* number of keys.                                                         *)
(***************************************************************************)
EXTENDS GeminiBatch, FiniteSetTheorems, TLAPS

(* A batch is there exactly as long as the analyzer is called for it.      *)
CallHasBatch == call.n > 0 <=> batch # {}

IInv == TypeOK /\ CallHasBatch

KeyRange == 0..(keys - 1)

LEMMA KeyFacts ==
  ASSUME TypeOK
  PROVE  /\ keys \in Nat \ {0}
         /\ NextKey \in KeyRange /\ keyIdx \in KeyRange /\ 0 \in KeyRange
         /\ call.n \in 0..keys /\ recall.n \in 0..keys
         /\ call.key \in KeyRange /\ recall.key \in KeyRange
         /\ NoCall \in [n : 0..keys, key : KeyRange]
<1>1. keys \in Nat \ {0}
  BY BatchAssumption DEF TypeOK
<1>2. NextKey \in KeyRange
  BY <1>1 DEF TypeOK, NextKey, KeyRange
<1> QED BY <1>1, <1>2 DEF TypeOK, NoCall, KeyRange

LEMMA InitHolds == Init => IInv
<1> SUFFICES ASSUME Init PROVE IInv
  OBVIOUS
<1>1. keys \in Nat \ {0}
  BY BatchAssumption DEF Init
<1>2. NoCall \in [n : 0..keys, key : 0..(keys - 1)] /\ NoCall.n = 0
  BY <1>1 DEF NoCall
<1>5. 0 \in 0..(keys - 1)
  BY <1>1
<1>6. /\ call \in [n : 0..keys, key : 0..(keys - 1)]
      /\ recall \in [n : 0..keys, key : 0..(keys - 1)]
  BY <1>2 DEF Init
<1>7. /\ queue \subseteq Message /\ batch \subseteq Message
      /\ done \subseteq Message /\ lost \subseteq Message
      /\ buffer \subseteq Region /\ threat \subseteq Region /\ told \subseteq Region
      /\ failed \subseteq 0..(keys - 1)
      /\ raised \in BOOLEAN /\ turned \in BOOLEAN
      /\ keys \in KeyCounts /\ keyIdx = 0
  BY DEF Init
<1>3. TypeOK
  BY <1>5, <1>6, <1>7 DEF TypeOK
<1>4. CallHasBatch
  BY <1>2 DEF Init, CallHasBatch
<1> QED BY <1>3, <1>4 DEF IInv

LEMMA QueueStep == ASSUME IInv, Queue PROVE IInv'
BY DEF IInv, TypeOK, CallHasBatch, Queue, manager

LEMMA DrainStep == ASSUME IInv, Drain PROVE IInv'
<1>1. keys \in Nat \ {0} /\ keyIdx \in KeyRange
  BY KeyFacts DEF IInv
<1>2. [n |-> 1, key |-> keyIdx] \in [n : 0..keys, key : KeyRange]
  BY <1>1
<1>3. call' \in [n : 0..keys, key : KeyRange]
  BY <1>2, KeyFacts DEF Drain, CanDrain, IInv
<1>4. TypeOK'
  BY <1>3, BatchAssumption DEF IInv, TypeOK, Drain, manager, KeyRange
<1>5. CallHasBatch'
  BY DEF Drain, CanDrain, CallHasBatch, NoCall
<1> QED BY <1>4, <1>5 DEF IInv

LEMMA KeyFailsStep == ASSUME IInv, KeyFails PROVE IInv'
<1>1. /\ NextKey \in KeyRange /\ call.key \in KeyRange
      /\ call.n + 1 \in 1..keys
  BY KeyFacts DEF IInv, KeyFails
<1>2. call' \in [n : 0..keys, key : KeyRange] /\ call'.n > 0 /\ call.n > 0
  BY <1>1, KeyFacts DEF KeyFails, IInv
<1>3. TypeOK'
  BY <1>1, <1>2 DEF IInv, TypeOK, KeyFails, manager, KeyRange
<1>4. CallHasBatch'
  BY <1>2 DEF KeyFails, CallHasBatch, IInv
<1> QED BY <1>3, <1>4 DEF IInv

LEMMA NoBatchLeft ==
  ASSUME IInv, call' = NoCall, batch' = {}, keys' = keys
  PROVE  CallHasBatch' /\ call' \in [n : 0..keys, key : KeyRange]
BY KeyFacts DEF IInv, CallHasBatch, NoCall

LEMMA GiveUpStep == ASSUME IInv, GiveUp PROVE IInv'
<1>1. CallHasBatch' /\ call' \in [n : 0..keys, key : KeyRange] /\ call.key \in KeyRange
  BY NoBatchLeft, KeyFacts DEF GiveUp, IInv
<1>2. TypeOK'
  BY <1>1 DEF IInv, TypeOK, GiveUp, manager, KeyRange
<1> QED BY <1>1, <1>2 DEF IInv

LEMMA ReevaluateStep ==
  ASSUME IInv, Reevaluate \/ ReevaluateTurns \/ ReevaluateEnds
  PROVE  IInv'
<1>1. NextKey \in KeyRange /\ keyIdx \in KeyRange /\ keys \in Nat \ {0}
  BY KeyFacts DEF IInv
<1>2. CASE Reevaluate
  <2>1. recall' \in [n : 0..keys, key : KeyRange]
    BY <1>1, <1>2 DEF Reevaluate
  <2> QED BY <1>2, <2>1 DEF IInv, TypeOK, CallHasBatch, Reevaluate, manager, KeyRange
<1>3. CASE ReevaluateTurns
  <2>1. recall.n + 1 \in 0..keys
    BY <1>3, KeyFacts DEF ReevaluateTurns, IInv
  <2>2. recall' \in [n : 0..keys, key : KeyRange]
    BY <1>1, <1>3, <2>1 DEF ReevaluateTurns
  <2>3. turned' \in BOOLEAN
    BY <1>3 DEF ReevaluateTurns, IInv, TypeOK
  <2> QED BY <1>1, <1>3, <2>2, <2>3
          DEF IInv, TypeOK, CallHasBatch, ReevaluateTurns, manager, KeyRange
<1>4. CASE ReevaluateEnds
  <2>1. recall' \in [n : 0..keys, key : KeyRange]
    BY <1>4, KeyFacts DEF ReevaluateEnds, IInv
  <2> QED BY <1>4, <2>1 DEF IInv, TypeOK, CallHasBatch, ReevaluateEnds, manager, KeyRange
<1> QED BY <1>2, <1>3, <1>4

LEMMA AnswerStep == ASSUME IInv, Answer PROVE IInv'
<1>1. CallHasBatch' /\ call' \in [n : 0..keys, key : KeyRange]
  BY NoBatchLeft DEF Answer
<1>2. threat' \subseteq Region /\ told' \subseteq Region /\ buffer' \subseteq Region
      /\ raised' \in BOOLEAN
  BY DEF Answer, IInv, TypeOK, manager, Flush
<1>3. TypeOK'
  BY <1>1, <1>2 DEF IInv, TypeOK, Answer, KeyRange
<1> QED BY <1>1, <1>3 DEF IInv

LEMMA AnswerRaisesStep == ASSUME IInv, AnswerRaises PROVE IInv'
<1>1. CallHasBatch' /\ call' \in [n : 0..keys, key : KeyRange]
  BY NoBatchLeft DEF AnswerRaises
<1>2. threat' \subseteq Region /\ told' \subseteq Region /\ buffer' \subseteq Region
      /\ raised' \in BOOLEAN /\ done' \subseteq Message /\ lost' \subseteq Message
  BY DEF AnswerRaises, IInv, TypeOK
<1>3. TypeOK'
  BY <1>1, <1>2 DEF IInv, TypeOK, AnswerRaises, KeyRange
<1> QED BY <1>1, <1>3 DEF IInv

LEMMA OtherStep == ASSUME IInv, Other PROVE IInv'
BY DEF IInv, TypeOK, CallHasBatch, Other

LEMMA StepHolds == IInv /\ [Next]_vars => IInv'
<1> SUFFICES ASSUME IInv, [Next]_vars PROVE IInv'
  OBVIOUS
<1>1. CASE UNCHANGED vars
  BY <1>1 DEF vars, IInv, TypeOK, CallHasBatch
<1>2. CASE Next
  BY <1>2, QueueStep, DrainStep, KeyFailsStep, GiveUpStep, AnswerStep, AnswerRaisesStep,
     ReevaluateStep, OtherStep DEF Next, Analysis
<1> QED BY <1>1, <1>2

LEMMA Invariance == Spec => []IInv
BY InitHolds, StepHolds, PTL DEF Spec

(* The variables of the batch processor keep their types: an attempt never *)
(* exceeds the keys, and the key index never leaves them.                  *)
THEOREM TypeCorrect == Spec => []TypeOK
<1>1. IInv => TypeOK
  BY DEF IInv
<1> QED BY <1>1, Invariance, PTL

-----------------------------------------------------------------------------
LEMMA ToldInit == Init => ThreatsTold
BY DEF Init, ThreatsTold

LEMMA ToldStep == ThreatsTold /\ [Next]_vars => ThreatsTold'
<1> SUFFICES ASSUME ThreatsTold, [Next]_vars PROVE ThreatsTold'
  OBVIOUS
<1> USE DEF ThreatsTold
<1>1. CASE UNCHANGED vars
  BY <1>1 DEF vars
<1>2. CASE Queue \/ Drain \/ KeyFails \/ GiveUp \/ Reevaluate \/ ReevaluateTurns \/ ReevaluateEnds
  BY <1>2 DEF Queue, Drain, KeyFails, GiveUp, Reevaluate, ReevaluateTurns, ReevaluateEnds, manager
<1>3. CASE Answer
  BY <1>3 DEF Answer, manager, Changes, Flush
<1>4. CASE AnswerRaises
  BY <1>4 DEF AnswerRaises, Changes
<1>5. CASE Other
  BY <1>5 DEF Other
<1> QED BY <1>1, <1>2, <1>3, <1>4, <1>5 DEF Next, Analysis

(* No threat that stands is kept from the users: it is pushed, or its push *)
(* waits in the buffer of a batch that raised (flush_fcm_batch).           *)
THEOREM ToldCorrect == Spec => []ThreatsTold
BY ToldInit, ToldStep, PTL DEF Spec

-----------------------------------------------------------------------------
LEMMA BatchesInit == Init => Batches!Init
BY DEF Init, Batches!Init

LEMMA BatchesStep == IInv /\ [Next]_vars => [Batches!Next]_Batches!vars
<1> SUFFICES ASSUME IInv, [Next]_vars PROVE [Batches!Next]_Batches!vars
  OBVIOUS
<1> USE DEF Batches!vars
<1>1. CASE UNCHANGED vars
  BY <1>1 DEF vars
<1>2. CASE Queue
  <2>1. Batches!Arrive
    BY <1>2 DEF Queue, manager, Batches!Arrive, Batches!Known
  <2> QED BY <2>1 DEF Batches!Next
<1>3. CASE Drain
  <2>1. queue \cap Relevant \in SUBSET queue
    OBVIOUS
  <2>2. queue \ Relevant = queue \ (queue \cap Relevant)
    OBVIOUS
  <2>3. Batches!Take
    BY <1>3, <2>1, <2>2 DEF Drain, CanDrain, manager, Batches!Take
  <2> QED BY <2>3 DEF Batches!Next
<1>4. CASE GiveUp
  <2>1. batch # {}
    BY <1>4, BatchAssumption DEF GiveUp, IInv, TypeOK, CallHasBatch
  <2>2. done' = done \cup {} /\ lost' = lost \cup (batch \ {})
    BY <1>4 DEF GiveUp
  <2>3. Batches!Finish
    BY <1>4, <2>1, <2>2 DEF GiveUp, Batches!Finish
  <2> QED BY <2>3 DEF Batches!Next
<1>5. CASE Answer
  <2>1. batch # {}
    BY <1>5 DEF Answer, IInv, CallHasBatch
  <2>2. lost' = lost \cup (batch \ batch)
    BY <1>5 DEF Answer
  <2>3. Batches!Finish
    BY <1>5, <2>1, <2>2 DEF Answer, Batches!Finish
  <2> QED BY <2>3 DEF Batches!Next
<1>6. CASE AnswerRaises
  <2>1. Batches!Finish
    BY <1>6 DEF AnswerRaises, Batches!Finish, IInv, CallHasBatch
  <2> QED BY <2>1 DEF Batches!Next
<1>7. CASE KeyFails \/ Reevaluate \/ ReevaluateTurns \/ ReevaluateEnds \/ Other
  BY <1>7 DEF KeyFails, Reevaluate, ReevaluateTurns, ReevaluateEnds, Other
<1> QED BY <1>1, <1>2, <1>3, <1>4, <1>5, <1>6, <1>7 DEF Next, Analysis

(* The batch processor implements the safety part of MessageBatches: no    *)
(* message is worked on twice, whatever keys fail and results raise.       *)
THEOREM BatchesSafe == Spec => Batches!Init /\ [][Batches!Next]_Batches!vars
BY BatchesInit, BatchesStep, Invariance, PTL DEF Spec
-----------------------------------------------------------------------------
(* The keys that have failed for a batch are those from the first one, s,  *)
(* to the one before the key in use, past the last key or not.             *)
Straight(s) ==
  /\ s <= keyIdx /\ call.n = keyIdx - s + 1
  /\ failed = s..(keyIdx - 1)

Wrapped(s) ==
  /\ keyIdx < s /\ call.n = keys - s + keyIdx + 1
  /\ failed = (s..(keys - 1)) \cup (0..(keyIdx - 1))

(* As long as no re-evaluation turns the key.                              *)
FailedInTurn ==
  call.n > 0 /\ ~turned =>
    /\ call.key = keyIdx
    /\ \E s \in KeyRange : Straight(s) \/ Wrapped(s)

LEMMA NextKeyIs ==
  ASSUME TypeOK
  PROVE  NextKey = IF keyIdx = keys - 1 THEN 0 ELSE keyIdx + 1
<1>1. keys \in Nat \ {0} /\ keyIdx \in 0..(keys - 1)
  BY KeyFacts DEF KeyRange
<1>2. CASE keyIdx = keys - 1
  BY <1>1, <1>2 DEF NextKey
<1>3. CASE keyIdx # keys - 1
  <2>1. keyIdx + 1 \in 0..(keys - 1)
    BY <1>1, <1>3
  <2> QED BY <1>1, <1>3, <2>1 DEF NextKey
<1> QED BY <1>2, <1>3

LEMMA DrainInTurn == ASSUME IInv, Drain PROVE FailedInTurn'
<1> SUFFICES ASSUME call'.n > 0
             PROVE  /\ call'.key = keyIdx'
                    /\ \E s \in KeyRange' : Straight(s)' \/ Wrapped(s)'
  BY DEF FailedInTurn
<1>1. /\ keys \in Nat \ {0} /\ keyIdx \in 0..(keys - 1)
      /\ keys' = keys /\ keyIdx' = keyIdx /\ failed' = {}
  BY KeyFacts DEF IInv, Drain, KeyRange
<1>2. call' = [n |-> 1, key |-> keyIdx]
  BY DEF Drain, NoCall
<1>3. keyIdx..(keyIdx - 1) = {}
  BY <1>1
<1>4. Straight(keyIdx)'
  <2>1. keyIdx' <= keyIdx' /\ call'.n = keyIdx' - keyIdx' + 1
    BY <1>1, <1>2
  <2>2. failed' = keyIdx'..(keyIdx' - 1)
    BY <1>1, <1>3
  <2> QED BY <1>1, <2>1, <2>2 DEF Straight
<1>5. PICK s \in KeyRange' : Straight(s)'
  BY <1>1, <1>4 DEF KeyRange
<1> QED BY <1>1, <1>2, <1>5

(* The key that fails is the one after those that failed before.           *)
LEMMA KeyFailsInTurn == ASSUME IInv, FailedInTurn, KeyFails PROVE FailedInTurn'
<1> SUFFICES ASSUME ~turned
             PROVE  /\ call'.key = keyIdx'
                    /\ \E s \in KeyRange' : Straight(s)' \/ Wrapped(s)'
  BY DEF FailedInTurn, KeyFails
<1>1. /\ keys \in Nat \ {0} /\ keyIdx \in 0..(keys - 1) /\ keys' = keys
      /\ call.n \in 1..(keys - 1) /\ call'.n = call.n + 1
      /\ call'.key = NextKey /\ keyIdx' = NextKey
  BY KeyFacts DEF IInv, KeyFails, KeyRange
<1>2. call.key = keyIdx /\ failed' = failed \cup {keyIdx}
  BY <1>1 DEF FailedInTurn, KeyFails
<1>3. PICK s \in 0..(keys - 1) : Straight(s) \/ Wrapped(s)
  BY <1>1 DEF FailedInTurn, KeyRange
<1>4. NextKey = IF keyIdx = keys - 1 THEN 0 ELSE keyIdx + 1
  BY NextKeyIs DEF IInv
<1>5. CASE Straight(s) /\ keyIdx # keys - 1
  <2>1. failed' = s..keyIdx
    BY <1>1, <1>2, <1>3, <1>5 DEF Straight
  <2>2. Straight(s)'
    BY <1>1, <1>3, <1>4, <1>5, <2>1 DEF Straight
  <2> QED BY <1>1, <1>3, <2>2 DEF KeyRange
<1>6. CASE Straight(s) /\ keyIdx = keys - 1
  <2>1. failed' = (s..(keys - 1)) \cup (0..(0 - 1))
    BY <1>1, <1>2, <1>3, <1>6 DEF Straight
  <2>2. s # 0
    BY <1>1, <1>3, <1>6 DEF Straight
  <2>3. Wrapped(s)'
    BY <1>1, <1>3, <1>4, <1>6, <2>1, <2>2 DEF Straight, Wrapped
  <2> QED BY <1>1, <1>3, <2>3 DEF KeyRange
<1>7. CASE Wrapped(s)
  <2>1. keyIdx # keys - 1
    BY <1>1, <1>3, <1>7 DEF Wrapped
  <2>2. failed' = (s..(keys - 1)) \cup (0..keyIdx)
    BY <1>1, <1>2, <1>3, <1>7 DEF Wrapped
  <2>3. keyIdx + 1 < s
    BY <1>1, <1>3, <1>7 DEF Wrapped
  <2>4. Wrapped(s)'
    BY <1>1, <1>3, <1>4, <1>7, <2>1, <2>2, <2>3 DEF Wrapped
  <2> QED BY <1>1, <1>3, <2>4 DEF KeyRange
<1> QED BY <1>1, <1>3, <1>5, <1>6, <1>7

LEMMA InTurnStep == IInv /\ FailedInTurn /\ [Next]_vars => FailedInTurn'
<1> SUFFICES ASSUME IInv, FailedInTurn, [Next]_vars PROVE FailedInTurn'
  OBVIOUS
<1>1. CASE \/ UNCHANGED vars
           \/ Queue \/ Reevaluate \/ ReevaluateEnds \/ Other
  <2>1. UNCHANGED <<keys, keyIdx, call, failed, turned>>
    BY <1>1 DEF vars, Queue, Reevaluate, ReevaluateEnds, Other
  <2> QED BY <2>1 DEF FailedInTurn, Straight, Wrapped, KeyRange
<1>2. CASE GiveUp \/ Answer \/ AnswerRaises
  BY <1>2 DEF GiveUp, Answer, AnswerRaises, FailedInTurn, NoCall
<1>3. CASE ReevaluateTurns
  BY <1>3 DEF ReevaluateTurns, FailedInTurn
<1> QED BY <1>1, <1>2, <1>3, DrainInTurn, KeyFailsInTurn DEF Next, Analysis

LEMMA InTurnInvariance == Spec => [](IInv /\ FailedInTurn)
<1>1. Init => FailedInTurn
  BY DEF Init, FailedInTurn, NoCall
<1> QED BY <1>1, InitHolds, StepHolds, InTurnStep, PTL DEF Spec

LEMMA LastKeyFails ==
  IInv /\ FailedInTurn => (GiveUp /\ ~turned => Cardinality(failed') = keys)
<1> SUFFICES ASSUME IInv, FailedInTurn, GiveUp, ~turned
             PROVE  Cardinality(failed') = keys
  OBVIOUS
<1>1. /\ keys \in Nat \ {0} /\ keyIdx \in 0..(keys - 1)
      /\ call.n = keys /\ call.n > 0
  BY KeyFacts DEF IInv, GiveUp, KeyRange
<1>2. call.key = keyIdx /\ failed' = failed \cup {keyIdx}
  BY <1>1 DEF FailedInTurn, GiveUp
<1>3. PICK s \in 0..(keys - 1) : Straight(s) \/ Wrapped(s)
  BY <1>1 DEF FailedInTurn, KeyRange
<1>4. failed' = 0..(keys - 1)
  <2>1. CASE Straight(s)
    <3>1. s = 0 /\ keyIdx = keys - 1
      BY <1>1, <1>3, <2>1 DEF Straight
    <3> QED BY <1>1, <1>2, <2>1, <3>1 DEF Straight
  <2>2. CASE Wrapped(s)
    <3>1. keyIdx = s - 1
      BY <1>1, <1>3, <2>2 DEF Wrapped
    <3> QED BY <1>1, <1>2, <1>3, <2>2, <3>1 DEF Wrapped
  <2> QED BY <1>3, <2>1, <2>2
<1> QED BY <1>1, <1>4, FS_Interval

(* The analyzer gives a batch up only after every key failed for it,       *)
(* whatever the number of keys and the key it began with, unless a         *)
(* re-evaluation turned the index that both share (current_key_idx).       *)
THEOREM EveryKeyCorrect == Spec => EveryKeyTried
<1>1. IInv /\ FailedInTurn /\ [Next]_vars
        => [GiveUp /\ ~turned => Cardinality(failed') = keys]_vars
  BY LastKeyFails
<1> QED BY <1>1, InTurnInvariance, PTL DEF Spec, EveryKeyTried
=============================================================================
