--------------------------- MODULE MCFCMScheduler ---------------------------
(* FCMScheduler with TLC's small instances; the constants are model values *)
(* given by each cfg.                                                      *)
EXTENDS FCMScheduler, TLC

(* Regions are never compared but for equality, and so are timers.         *)
Symmetry == Permutations(Region) \cup Permutations(Timer)
=============================================================================
