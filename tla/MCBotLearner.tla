---------------------------- MODULE MCBotLearner ----------------------------
(***************************************************************************)
(* A snapshot every two rounds, two kept, two faults, one reset.           *)
(***************************************************************************)
EXTENDS BotLearnerProps
=============================================================================
