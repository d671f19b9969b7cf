----------------------------- MODULE MCGiveaway -----------------------------
(* TLC instances of Giveaway. *)
EXTENDS GiveawayProps
=============================================================================
