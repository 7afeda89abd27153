-------------------------- MODULE MCTelegramIngest --------------------------
(* Values of the constants of TelegramIngest for TLC.                      *)
EXTENDS TelegramIngest

MCRelevant == {1}
=============================================================================
