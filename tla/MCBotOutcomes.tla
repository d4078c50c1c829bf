---------------------------- MODULE MCBotOutcomes ----------------------------
(* Small instances of BotOutcomes.                                           *)
EXTENDS BotOutcomes, TLC

CONSTANTS lead, helper

Pair == {lead, helper}
=============================================================================
