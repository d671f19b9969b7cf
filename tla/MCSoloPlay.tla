----------------------------- MODULE MCSoloPlay -----------------------------
(* TLC instances of SoloPlay. *)
EXTENDS SoloPlayProps, TLC

\* Accounts, browsers and session ids are interchangeable.
Names == Permutations(Users) \cup Permutations(Visitors) \cup Permutations(Sessions)
=============================================================================
