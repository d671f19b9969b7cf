---------------------------- MODULE RoomContract ----------------------------
(***************************************************************************)
(* What a multiplayer room promises its players, whoever joins, leaves, is *)
(* kicked or reconnects and whatever fails: rounds are played and settled  *)
(* one by one, a game ends only after its last round, and the record of a  *)
(* finished game is never thrown away.  MPRoom implements it.              *)
(***************************************************************************)
EXTENDS Integers

CONSTANTS MinRounds, MaxRounds

VARIABLES phase,    \* lobby, playing, between_rounds, finished or gone
          round,    \* the round being played or played last, 0 in the lobby
          total,    \* the rounds a game has
          done,     \* the rounds of this game that were settled
          game      \* the games started in this room

contractVars == <<phase, round, total, done, game>>

Init ==
  /\ phase = "lobby" /\ round = 0 /\ done = 0 /\ game = 0
  /\ total \in MinRounds .. MaxRounds

Start ==
  /\ phase \in {"lobby", "between_rounds"} /\ round < total
  /\ phase' = "playing" /\ round' = round + 1
  /\ game' = IF phase = "lobby" THEN game + 1 ELSE game
  /\ UNCHANGED <<total, done>>

Settle ==
  /\ phase = "playing"
  /\ phase' = IF round >= total THEN "finished" ELSE "between_rounds"
  /\ done' = done + 1
  /\ UNCHANGED <<round, total, game>>

Tune ==
  /\ phase \in {"lobby", "between_rounds"}
  /\ total' \in MinRounds .. MaxRounds
  /\ UNCHANGED <<phase, round, done, game>>

\* Play Again, from any phase: back to an empty scoreboard.
Replay ==
  /\ phase # "gone"
  /\ phase' = "lobby" /\ round' = 0 /\ done' = 0
  /\ UNCHANGED <<total, game>>

Discard ==
  /\ phase \notin {"finished", "gone"}
  /\ phase' = "gone"
  /\ UNCHANGED <<round, total, done, game>>

Next == Start \/ Settle \/ Tune \/ Replay \/ Discard

Contract == Init /\ [][Next]_contractVars
=============================================================================
