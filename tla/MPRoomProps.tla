---------------------------- MODULE MPRoomProps -----------------------------
(* What MPRoom must satisfy, and what the documentation says it satisfies. *)
EXTENDS MPRoom

(***************************************************************************)
(* Invariants.                                                             *)
(***************************************************************************)

\* As long as the room exists, mp_rooms.host_player_id and the is_host flag
\* name the same single player, a human who was not kicked: disconnect
\* handover, creator reclaim and promotion on join never part the two.
HostRoleConsistent ==
  status # "gone" =>
    /\ hostRows = {host}
    /\ host \in seated \cap Humans
    /\ host \notin kicked

\* Rounds settle once each and in order: while round k is played (or its end
\* crashed half-way) exactly k - 1 rounds of the game were settled, afterwards
\* k, though a timer, a last guess and a departure race to end the round.
SettledInOrder ==
  /\ status = "lobby" => round = 0 /\ settled = 0
  /\ status \in {"playing", "ending"} => settled = round - 1
  /\ status \in {"between_rounds", "finished"} => settled = round

\* A player's total is the sum of the answers on record: resets, rejoins and
\* timed-out rows never leave points behind or count an answer twice.
ScoresMatchAnswers ==
  \A p \in seated : score[p] = Cardinality({g \in answered : g[1] = p})

\* The room never holds more players than MAX_PLAYERS, although a join checks
\* before an await, bots are re-added on Play Again and people come back.
CapacityRespected == Cardinality(Active) <= MaxPlayers

\* An armed round timer means a round is being played and not yet ended, and a
\* round being played has its timer unless a restart or a Play Again from
\* somebody other than the host took it away.
PlayingHasDriver ==
  /\ timer => status = "playing" /\ ~ended
  /\ status = "playing" => ~ended
  /\ status = "playing" /\ ~timer => wiped

\* A player with a socket is seated, not kicked, connected in the database and
\* not about to be declared gone by an old grace timer.
LivePlayersAreConnected == live \subseteq Connected \ grace

(***************************************************************************)
(* Action properties.                                                      *)
(***************************************************************************)

\* When a round settles, every player still in the room has a row for it:
\* also the ones offline, joined late, or left before it ended.
EverybodyHasARow ==
  status = "playing" /\ status' \in {"between_rounds", "finished"} =>
    \A p \in Active : RowOf(p) \in answered' \cup missed'
SettledRoundIsComplete == [][EverybodyHasARow]_vars

\* Answers are final: until Play Again or the room's deletion no answer
\* disappears or turns into a timeout, and no answer is added to a round that
\* has been settled.
AnswersKept ==
  status' \notin {"lobby", "gone"} =>
    /\ answered \subseteq answered' /\ missed \subseteq missed'
    /\ answered' # answered => status = "playing"
AnswersAreFinal == [][AnswersKept]_vars

\* The room keeps the promise of RoomContract; a round whose end crashed
\* half-way counts as still being played.
Promise == INSTANCE RoomContract
             WITH phase <- IF status = "ending" THEN "playing" ELSE status,
                  done  <- settled
KeepsPromise == Promise!Contract

(***************************************************************************)
(* Liveness, under Fairness.                                               *)
(***************************************************************************)

\* A round whose timer is armed ends, or the timer was wiped meanwhile.
TimedRoundEnds ==
  (status = "playing" /\ timer) ~> (status # "playing" \/ wiped)

\* A room everybody left for good ends up archived or deleted.
AbandonedRoomSettles ==
  <>[](live = {} /\ joining = {}) => <>(status \in {"finished", "gone"})

\* Somebody who stays in the room is never left without a host for good: time
\* and again the host is a player with a socket.  Only as long as no socket is
\* evicted and nothing crashes: the reaper that notices those departures marks
\* players offline without handing the host role on (roomManager.ts:875).
HostRoleRecovers ==
  \A p \in Humans :
    <>[](p \in live) /\ [](faults = 0) => []<>(host \in live)

(***************************************************************************)
(* What the documentation says and the code does not do.                   *)
(***************************************************************************)

\* docs/WEBSOCKET_EVENTS.md:221: a round ends when the "timer expires OR all
\* players guessed", so without faults a round being played has its timer.
PlayingRoundHasTimer == status = "playing" => timer
=============================================================================
