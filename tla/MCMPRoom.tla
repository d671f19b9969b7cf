------------------------------ MODULE MCMPRoom ------------------------------
(* TLC instances of MPRoom. *)
EXTENDS MPRoomProps, TLC

\* Seats other than the creator's are interchangeable, and so are bots.
Seats == Permutations(Humans \ {Creator}) \cup Permutations(Bots)

\* Every way into the lobby wipes `ready`, every round start clears `cont`: out
\* of their phase the two sets are dead and states that differ in them alike.
View == <<roomRow, players, rows, timer, ended, botGuess, botCont, sockets, history,
          IF status = "lobby" THEN ready ELSE {},
          IF status \in {"playing", "between_rounds"} THEN cont ELSE {}>>
=============================================================================
