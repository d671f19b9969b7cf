--------------------------- MODULE MCBiddingRound ---------------------------
(* TLC instances of BiddingRound. *)
EXTENDS BiddingRound, TLC

\* Bidders other than the host are interchangeable.
Seats == Permutations(Humans \ {Host}) \cup Permutations(Bots)
=============================================================================
