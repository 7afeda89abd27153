------------------------------ MODULE MCRecovery ------------------------------
(* Recovery on small sets of threads.                                      *)
EXTENDS Recovery, TLC

MCThreads == Permutations(Saver) \cup Permutations(Backup)
=============================================================================
