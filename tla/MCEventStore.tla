----------------------------- MODULE MCEventStore -----------------------------
(* EventStore with a card that has a group and one of the same type that   *)
(* has none.  A siren that sounds from the start adds to everything a row  *)
(* that a clearing can take for its original: to keep the instance small,  *)
(* there is then either a fault or one of the extra changes.               *)
EXTENDS EventStore, TLC

CONSTANTS t1, t2, g1, shahed

MCTid == {t1, t2}
MCTypeOf == [t \in MCTid |-> shahed]
MCWriters == Permutations(Writer)
MCGidOf == t1 :> g1 @@ t2 :> NoGid

VARIABLE sounded   \* whether the siren sounds from the start

MCInit == Init /\ sounded = siren

MCNext ==
  /\ Next
  /\ sounded => faults' + extras' <= 1
  /\ UNCHANGED sounded

MCSpec == MCInit /\ [][MCNext]_<<vars, sounded>>
=============================================================================
