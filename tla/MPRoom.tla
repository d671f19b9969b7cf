------------------------------- MODULE MPRoom -------------------------------
(***************************************************************************)
(* The life of one multiplayer room: the rows of mp_rooms, mp_players and  *)
(* mp_guesses, the in-memory maps of mpTimerState and botScheduler, the    *)
(* sockets and their disconnect-grace timers, and every handler, timer and *)
(* periodic job of the server that writes them.                            *)
(*                                                                         *)
(* One action is one uninterrupted turn of the Node event loop: handlers   *)
(* and the SQLite driver are synchronous, so a handler is atomic unless it *)
(* awaits.  joinRoom awaits bcrypt between its status check and its        *)
(* transaction and is therefore two actions.  Game modes with a global     *)
(* round timer are modelled here; BiddingRound models the turn-based one.  *)
(***************************************************************************)
EXTENDS Integers, FiniteSets

CONSTANTS
  Humans,       \* human seats: one mp_players id each (is_bot = 0)
  Bots,         \* bot seats, reused once neither a row nor a timer names one
  Creator,      \* mp_rooms.creator_player_id
  MaxPlayers,   \* MAX_PLAYERS
  MinRounds,    \* MIN_ROUNDS
  MaxRounds,    \* MAX_ROUNDS
  MaxGames,     \* bound: Play Again is pressed in fewer games than this
  MaxFaults     \* bound: restarts, crashes and socket evictions together

ASSUME ConstantsOK ==
  /\ Humans \cap Bots = {} /\ Creator \in Humans
  /\ IsFiniteSet(Humans) /\ IsFiniteSet(Bots)
  /\ MaxPlayers \in Nat \ {0} /\ MaxGames \in Nat \ {0} /\ MaxFaults \in Nat
  /\ MinRounds \in Nat \ {0} /\ MaxRounds \in Nat /\ MinRounds <= MaxRounds

VARIABLES
  status, round, total, host, botCount, countdown,         \* mp_rooms
  seated, kicked, online, hostRows, score,                 \* mp_players
  answered, missed,                                        \* mp_guesses
  timer, ended, cont, ready, botGuess, botCont,            \* in-memory maps
  live, grace, joining,                                    \* sockets, awaits
  game, settled, wiped, faults                             \* history, bounds

roomRow  == <<status, round, total, host, botCount, countdown>>
players  == <<seated, kicked, online, hostRows, score>>
rows     == <<answered, missed>>
memory   == <<timer, ended, cont, ready, botGuess, botCont>>
sockets  == <<live, grace, joining>>
history  == <<game, settled, wiped, faults>>
vars     == <<roomRow, players, rows, memory, sockets, history>>

Players     == Humans \cup Bots
RoundLimits == MinRounds .. MaxRounds
Statuses    == {"lobby", "playing", "ending", "between_rounds", "finished", "gone"}
Unset       == -1       \* countdown_target_at IS NULL
Paused      == {"lobby", "between_rounds"}

(***************************************************************************)
(* Queries.                                                                *)
(***************************************************************************)
Active == seated \ kicked                 \* getActivePlayers
Connected == Active \cap online           \* connected = 1 AND is_kicked = 0
ConnectedHumans == Connected \cap Humans
RowOf(p) == <<p, round>>

\* submitGuess counts the round's rows, whoever they belong to.
AllGuessed(ans) ==
  Cardinality({g \in ans \cup missed : g[2] = round}) >= Cardinality(Active)

\* checkAllConnectedPlayersGuessed looks for the row of each connected player.
AllConnectedGuessed(here) ==
  \A p \in Active \cap here : RowOf(p) \in answered \cup missed

AllContinued(votes) == Cardinality(votes) >= Cardinality(Connected)
AllReady(votes)     == Cardinality(votes) >= Cardinality(ConnectedHumans)

\* Nothing outside the database still names the bot.
Unreferenced(b) == b \notin cont \cup botCont /\ \A g \in botGuess : g[1] # b

\* mp_guesses.player_id is a foreign key: a bot with a row cannot be deleted.
BotRowsDeletable == \A g \in answered \cup missed : g[1] \notin seated \cap Bots

\* disconnectPlayer's candidates: connected humans, never a bot.
HeirsWithBots(p) == Connected \ {p}                                 \* mutant
NoHeirs(p)       == {}                                              \* mutant
Heirs(p) == ConnectedHumans \ {p}

\* joinRoom's capacity check, inside the transaction.
HasRoom == Cardinality(Active) < MaxPlayers

\* The WHERE clause of startRound's claim, and its bound on the round.
ClaimInAnyStatus(caller)  == caller = host /\ round < total         \* mutant
MayStart(caller) == caller = host /\ status \in Paused /\ round < total

\* endRound inserts a zero row for every active player without one.
ZeroForConnected(ans) ==                                            \* mutant
  {RowOf(p) : p \in {q \in Connected : RowOf(q) \notin ans \cup missed}}
MissedRows(ans) ==
  {RowOf(p) : p \in {q \in Active : RowOf(q) \notin ans \cup missed}}

\* resetRoom re-adds the saved bots as far as the humans leave room.
AllSavedBots == botCount                                            \* mutant
SavedBotsThatFit ==
  LET room == MaxPlayers - Cardinality(Active \cap Humans)
  IN  IF room < botCount THEN room ELSE botCount

\* Rooms cleanupStaleRooms purges once they are idle: every unfinished one.
StaleUnlessEnding == status \notin {"finished", "gone", "ending"}    \* mutant
Purgeable == status \notin {"finished", "gone"}

(***************************************************************************)
(* Steps shared by several handlers.                                       *)
(***************************************************************************)

\* startRound clears the old timer, resets the flag and arms the new timer.
RoundArmedFlagKept == timer' = TRUE /\ wiped' = FALSE /\ UNCHANGED ended  \* mutant
RoundArmed == timer' = TRUE /\ ended' = FALSE /\ wiped' = FALSE

\* startRound: forget the votes, then claim the room for its next round.
StartRound(caller) ==
  /\ cont' = {}
  /\ IF MayStart(caller)
     THEN /\ status' = "playing"
          /\ round' = round + 1
          /\ game' = IF status = "lobby" THEN game + 1 ELSE game
          /\ RoundArmed
          /\ botGuess' = botGuess \cup {<<b, round + 1>> : b \in Active \cap Bots}
     ELSE UNCHANGED <<status, round, game, timer, ended, wiped, botGuess>>

\* endRound: the first caller of a round settles it, a later one finds the
\* flag set; players without a row get a zero one.
EndRound(ans) ==
  IF ended THEN UNCHANGED <<status, missed, timer, ended, settled>>
  ELSE /\ ended' = TRUE
       /\ timer' = FALSE
       /\ IF status = "playing"
          THEN /\ status' = IF round >= total THEN "finished" ELSE "between_rounds"
               /\ missed' = missed \cup MissedRows(ans)
               /\ settled' = settled + 1
          ELSE UNCHANGED <<status, missed, settled>>

\* Every handler but the disconnect path cancels the room's bot timers before
\* endRound and lets the bots vote once the room is between rounds.
EndRoundAndLetBotsVote(ans) ==
  /\ EndRound(ans)
  /\ botGuess' = {}
  /\ botCont' = IF status = "playing" /\ ~ended /\ status' = "between_rounds"
                THEN Active \cap Bots ELSE {}

\* cleanupRoomMemory: timer, flag, both trackers and the bot timers go.
MemoryWiped ==
  /\ timer' = FALSE /\ ended' = FALSE /\ cont' = {} /\ ready' = {}
  /\ botGuess' = {} /\ botCont' = {}

\* deleteRoom, with the memory and the sockets' use for it.
RoomDeleted ==
  /\ status' = "gone"
  /\ seated' = {} /\ kicked' = {} /\ online' = {} /\ hostRows' = {}
  /\ score' = [p \in Players |-> 0] /\ answered' = {} /\ missed' = {}
  /\ live' = {} /\ grace' = {}
  /\ MemoryWiped
  /\ UNCHANGED <<round, total, host, botCount, countdown, joining, history>>

\* Replace the bot rows by n new ones (updateBotConfig, addBots).
BotsReplaced(n, usable) ==
  \E new \in SUBSET usable :
    /\ Cardinality(new) = n
    /\ seated' = (seated \cap Humans) \cup new
    /\ online' = (online \cap Humans) \cup new
    /\ kicked' = kicked \cap Humans

(***************************************************************************)
(* Joining, leaving and coming back.                                       *)
(***************************************************************************)
Init ==
  /\ status = "lobby" /\ round = 0 /\ total \in RoundLimits
  /\ host = Creator /\ botCount = 0 /\ countdown = Unset
  /\ seated = {Creator} /\ kicked = {} /\ online = {Creator}
  /\ hostRows = {Creator} /\ score = [p \in Players |-> 0]
  /\ answered = {} /\ missed = {}
  /\ timer = FALSE /\ ended = FALSE /\ cont = {} /\ ready = {}
  /\ botGuess = {} /\ botCont = {}
  /\ live = {Creator} /\ grace = {} /\ joining = {}
  /\ game = 0 /\ settled = 0 /\ wiped = FALSE /\ faults = 0

\* joinRoom up to `await compare`: the status is checked here and not again.
JoinChecked(p) ==
  /\ p \notin seated \cup joining
  /\ status \in Paused
  /\ joining' = joining \cup {p}
  /\ UNCHANGED <<roomRow, players, rows, memory, live, grace, history>>

\* joinRoom's transaction: capacity, insert, and the host role if its holder
\* is offline.
JoinSeats(p) ==
  /\ p \in joining /\ status # "gone"
  /\ HasRoom
  /\ joining' = joining \ {p}
  /\ seated' = seated \cup {p} /\ online' = online \cup {p}
  /\ live' = live \cup {p}
  /\ IF \E h \in hostRows : h \in Active \ online
     THEN hostRows' = {p} /\ host' = p
     ELSE UNCHANGED <<hostRows, host>>
  /\ UNCHANGED <<status, round, total, botCount, countdown, kicked, score,
                 rows, memory, grace, history>>

\* The room filled up, or was deleted (the insert breaks its foreign key).
JoinRejected(p) ==
  /\ p \in joining
  /\ status = "gone" \/ ~HasRoom
  /\ joining' = joining \ {p}
  /\ UNCHANGED <<roomRow, players, rows, memory, live, grace, history>>

\* handleDisconnect: arm the grace timer, tell nobody.
Disconnect(p) ==
  /\ p \in live
  /\ live' = live \ {p} /\ grace' = grace \cup {p}
  /\ UNCHANGED <<roomRow, players, rows, memory, joining, history>>

\* The TTL sweep forgets a silent socket without touching the database.
EvictSocket(p) ==
  /\ p \in live /\ faults < MaxFaults
  /\ live' = live \ {p} /\ faults' = faults + 1
  /\ UNCHANGED <<roomRow, players, rows, memory, grace, joining, game, settled,
                 wiped>>

\* finalizeDisconnect when no connected human is left in the room.
LeaveEmptyRoom(p) ==
  /\ p \in grace
  /\ ConnectedHumans \subseteq {p}
  /\ IF status = "finished"
     THEN /\ online' = online \ {p} /\ grace' = grace \ {p}
          /\ MemoryWiped
          /\ UNCHANGED <<roomRow, seated, kicked, hostRows, score, rows, live,
                         joining, history>>
     ELSE RoomDeleted

\* disconnectPlayer: offline, and the host role to a connected human.
PlayerOffline(p) ==
  /\ grace' = grace \ {p} /\ online' = online \ {p}
  /\ IF p \in hostRows /\ Heirs(p) # {}
     THEN \E h \in Heirs(p) : host' = h /\ hostRows' = (hostRows \ {p}) \cup {h}
     ELSE UNCHANGED <<host, hostRows>>

LeaveEndsRound(p) ==
  /\ p \in grace /\ Heirs(p) # {}
  /\ status = "playing" /\ ~ended /\ AllConnectedGuessed(online \ {p})
  /\ PlayerOffline(p)
  /\ EndRound(answered)
  /\ UNCHANGED <<round, total, botCount, countdown, seated, kicked, score, answered,
                 cont, ready, botGuess, botCont, live, joining, game, wiped, faults>>

LeaveQuietly(p) ==
  /\ p \in grace /\ Heirs(p) # {}
  /\ ~(status = "playing" /\ ~ended /\ AllConnectedGuessed(online \ {p}))
  /\ PlayerOffline(p)
  /\ UNCHANGED <<status, round, total, botCount, countdown, seated, kicked, score,
                 rows, memory, live, joining, history>>

\* cancelPendingDisconnect.
GraceRunsOn(p) == UNCHANGED grace                                   \* mutant
GraceCancelled(p) == grace' = grace \ {p}

\* The flag moves from whoever has it to the creator.
FlagMoved(p) == {p}

\* rejoinRoom and handleRoomRejoin; the creator takes the host role back.
Rejoin(p) ==
  /\ p \in seated \ kicked /\ p \in Humans
  /\ status \notin {"finished", "gone"}
  /\ online' = online \cup {p}
  /\ live' = live \cup {p} /\ GraceCancelled(p)
  /\ IF p = Creator THEN host' = p /\ hostRows' = FlagMoved(p)
                    ELSE UNCHANGED <<host, hostRows>>
  /\ UNCHANGED <<status, round, total, botCount, countdown, seated, kicked, score,
                 rows, memory, joining, history>>

\* kickPlayer: any status; a kicked player's guess rows and votes stay.
Kick(p, t) ==
  /\ p \in live /\ p = host
  /\ t \in Active \ {p}
  /\ kicked' = kicked \cup {t} /\ online' = online \ {t}
  /\ live' = live \ {t}
  /\ UNCHANGED <<roomRow, seated, hostRows, score, rows, memory, grace, joining,
                 history>>

(***************************************************************************)
(* The lobby.                                                              *)
(***************************************************************************)
Settings(p, n) ==
  /\ p \in live /\ p = host /\ status \in Paused
  /\ total' = n
  /\ UNCHANGED <<status, round, host, botCount, countdown, players, rows, memory,
                 sockets, history>>

\* updateBotConfig with n > 0.
AddBots(p, n) ==
  /\ p \in live /\ p = host /\ status \in Paused
  /\ BotRowsDeletable
  /\ Cardinality(Active \cap Humans) + n <= MaxPlayers
  /\ BotsReplaced(n, {b \in Bots : Unreferenced(b)})
  /\ botCount' = n
  /\ UNCHANGED <<status, round, total, host, countdown, hostRows, score, rows,
                 memory, sockets, history>>

\* removeBots: no look at the status.
RemoveBots(p) ==
  /\ p \in live /\ p = host
  /\ BotRowsDeletable
  /\ BotsReplaced(0, {}) /\ botCount' = 0
  /\ UNCHANGED <<status, round, total, host, countdown, hostRows, score, rows,
                 memory, sockets, history>>

\* handleReady: the set is never pruned; the count is of connected humans.
Ready(p) ==
  /\ p \in live
  /\ LET votes == ready \cup {p} IN
     IF AllReady(votes) /\ status = "lobby"
     THEN /\ ready' = {}
          /\ StartRound(host)
     ELSE /\ ready' = votes
          /\ UNCHANGED <<status, round, game, timer, ended, wiped, cont, botGuess>>
  /\ UNCHANGED <<total, host, botCount, countdown, players, rows, botCont, sockets,
                 settled, faults>>

\* handleStartRound: anyone may ask, the claim decides.
StartRequest(p) ==
  /\ p \in live
  /\ StartRound(p)
  /\ UNCHANGED <<total, host, botCount, countdown, players, rows, ready, botCont,
                 sockets, settled, faults>>

\* handleHostStartCountdown; the value remembers which game it was meant for.
HostStartCountdown(p) ==
  /\ p \in live /\ p = host /\ status = "lobby" /\ countdown = Unset
  /\ countdown' = game
  /\ UNCHANGED <<status, round, total, host, botCount, players, rows, memory,
                 sockets, history>>

\* findElapsedCountdowns, and the 2 s driver that acts on it.
CountdownDue == status = "lobby" /\ countdown # Unset /\ ConnectedHumans # {}

CountdownElapses ==
  /\ CountdownDue
  /\ countdown' = Unset
  /\ StartRound(host)
  /\ UNCHANGED <<total, host, botCount, players, rows, ready, botCont, sockets,
                 settled, faults>>

(***************************************************************************)
(* The round.                                                              *)
(***************************************************************************)

\* submitGuess's early returns.
AcceptedAnytime(p) == p \in Active /\ RowOf(p) \notin answered \cup missed  \* mutant
GuessAccepted(p) ==
  status = "playing" /\ p \in Active /\ RowOf(p) \notin answered \cup missed

\* submitGuess and what its two callers do with the answer; `pending` are the
\* bot guess timers left if the round goes on.
GuessRecorded(p, pending) ==
  LET ans == answered \cup {RowOf(p)} IN
  /\ answered' = ans
  /\ score' = [score EXCEPT ![p] = @ + 1]
  /\ IF AllGuessed(ans) /\ ~ended
     THEN EndRoundAndLetBotsVote(ans)
     ELSE /\ botGuess' = pending
          /\ UNCHANGED <<status, missed, timer, ended, settled, botCont>>

SubmitGuess(p) ==
  /\ p \in live /\ GuessAccepted(p)
  /\ GuessRecorded(p, botGuess)
  /\ UNCHANGED <<round, total, host, botCount, countdown, seated, kicked, online,
                 hostRows, cont, ready, sockets, game, wiped, faults>>

\* A bot's guess timer fires; it carries the round it was scheduled in.
BotGuesses(g) ==
  LET bot == g[1] IN
  /\ g \in botGuess
  /\ IF GuessAccepted(bot) THEN GuessRecorded(bot, botGuess \ {g})
     ELSE /\ botGuess' = botGuess \ {g}
          /\ UNCHANGED <<status, rows, score, timer, ended, settled, botCont>>
  /\ UNCHANGED <<round, total, host, botCount, countdown, seated, kicked, online,
                 hostRows, cont, ready, sockets, game, wiped, faults>>

\* handleTimerExpire.
TimerExpires ==
  /\ timer
  /\ EndRoundAndLetBotsVote(answered)
  /\ UNCHANGED <<round, total, host, botCount, countdown, players, answered, cont,
                 ready, sockets, game, wiped, faults>>

(***************************************************************************)
(* Between rounds and after the game.                                      *)
(***************************************************************************)

\* playerContinue and its callers: votes are taken in any status.
VoteCounted(p) ==
  LET votes == cont \cup {p} IN
  IF AllContinued(votes) /\ status = "between_rounds"
  THEN StartRound(host)
  ELSE /\ cont' = votes
       /\ UNCHANGED <<status, round, game, timer, ended, wiped, botGuess>>

Continue(p) ==
  /\ p \in live
  /\ VoteCounted(p)
  /\ UNCHANGED <<total, host, botCount, countdown, players, rows, ready, botCont,
                 sockets, settled, faults>>

BotContinues(b) ==
  /\ b \in botCont
  /\ botCont' = botCont \ {b}
  /\ VoteCounted(b)
  /\ UNCHANGED <<total, host, botCount, countdown, players, rows, ready, sockets,
                 settled, faults>>

ScoresKept == UNCHANGED score                                       \* mutant
ScoresCleared == score' = [q \in Players |-> 0]

\* handlePlayAgain: the memory is wiped before anyone asks who is calling.
PlayAgainRefused(p) ==
  /\ p \in live /\ p # host
  /\ MemoryWiped
  /\ wiped' = (wiped \/ status = "playing")
  /\ UNCHANGED <<roomRow, players, rows, sockets, game, settled, faults>>

\* resetRoom: any status; the saved bots come back as far as they fit.  The
\* countdown columns are left alone.
PlayAgain(p) ==
  /\ p \in live /\ p = host
  /\ game < MaxGames
  /\ MemoryWiped
  /\ status' = "lobby" /\ round' = 0 /\ settled' = 0 /\ wiped' = FALSE
  /\ answered' = {} /\ missed' = {}
  /\ ScoresCleared
  /\ BotsReplaced(SavedBotsThatFit, Bots)
  /\ botCount' = IF SavedBotsThatFit > 0 THEN SavedBotsThatFit ELSE botCount
  /\ UNCHANGED <<total, host, countdown, hostRows, sockets, game, faults>>

(***************************************************************************)
(* Periodic jobs and failures.                                             *)
(***************************************************************************)

\* reapDisconnectedPlayers: no socket, so offline; bots have none.
StillConnected == online \cap live

Reap ==
  /\ online # StillConnected
  /\ online' = StillConnected
  /\ UNCHANGED <<roomRow, seated, kicked, hostRows, score, rows, memory, sockets,
                 history>>

\* No timer of the room can still fire: what the idle times of
\* cleanupStaleRooms (5 min to 2 h) stand for.
Quiet ==
  /\ ~timer /\ grace = {} /\ botGuess = {} /\ botCont = {} /\ joining = {}
  /\ ~CountdownDue

\* cleanupStaleRooms, then cleanupRoomMemory.
EvictStale ==
  /\ Quiet
  /\ \/ Purgeable /\ RoomDeleted
     \/ /\ status = "finished" /\ MemoryWiped
        /\ UNCHANGED <<roomRow, players, rows, sockets, history>>

MemoryLost ==
  /\ faults < MaxFaults /\ faults' = faults + 1
  /\ MemoryWiped
  /\ live' = {} /\ grace' = {} /\ joining' = {}

\* The process stops and starts again: only the database is left.
Restart ==
  /\ status # "gone"
  /\ MemoryLost
  /\ wiped' = (wiped \/ status = "playing")
  /\ UNCHANGED <<roomRow, players, rows, game, settled>>

\* It stops between endRound's claim and endRound's transaction.
CrashInRoundEnd ==
  /\ status = "playing" /\ ~ended
  /\ MemoryLost
  /\ status' = "ending"
  /\ UNCHANGED <<round, total, host, botCount, countdown, players, rows, game,
                 settled, wiped>>

(***************************************************************************)
(* The specification.                                                      *)
(***************************************************************************)
PlayerStep(p) ==
  \/ JoinChecked(p) \/ JoinSeats(p) \/ JoinRejected(p)
  \/ Disconnect(p) \/ EvictSocket(p)
  \/ LeaveEmptyRoom(p) \/ LeaveEndsRound(p) \/ LeaveQuietly(p)
  \/ Rejoin(p)
  \/ \E t \in Players : Kick(p, t)
  \/ \E n \in RoundLimits : Settings(p, n)
  \/ \E n \in 1 .. Cardinality(Bots) : AddBots(p, n)
  \/ RemoveBots(p)
  \/ Ready(p) \/ StartRequest(p) \/ HostStartCountdown(p)
  \/ SubmitGuess(p) \/ Continue(p)
  \/ PlayAgainRefused(p) \/ PlayAgain(p)

ServerStep ==
  \/ CountdownElapses
  \/ \E g \in botGuess : BotGuesses(g)
  \/ TimerExpires
  \/ \E b \in Bots : BotContinues(b)
  \/ Reap \/ EvictStale \/ Restart \/ CrashInRoundEnd

Next == (\E p \in Humans : PlayerStep(p)) \/ ServerStep

Spec == Init /\ [][Next]_vars

\* The server's own timers and jobs run; users owe nothing.
Fairness ==
  /\ WF_vars(CountdownElapses) /\ WF_vars(TimerExpires)
  /\ WF_vars(Reap) /\ WF_vars(EvictStale)
  /\ WF_vars(\E g \in botGuess : BotGuesses(g))
  /\ \A b \in Bots : WF_vars(BotContinues(b))
  /\ \A p \in Humans :
       /\ WF_vars(JoinSeats(p) \/ JoinRejected(p))
       /\ WF_vars(LeaveEmptyRoom(p) \/ LeaveEndsRound(p) \/ LeaveQuietly(p))

FairSpec == Spec /\ Fairness

\* Every variable keeps its type; kicked and online players are seated.
TypeOK ==
  /\ status \in Statuses /\ round \in 0 .. MaxRounds /\ total \in RoundLimits
  /\ host \in Humans /\ botCount \in Nat /\ countdown \in {Unset} \cup Nat
  /\ seated \subseteq Players /\ kicked \subseteq seated /\ online \subseteq seated
  /\ hostRows \subseteq Humans /\ score \in [Players -> Nat]
  /\ answered \subseteq Players \X Nat /\ missed \subseteq Players \X Nat
  /\ timer \in BOOLEAN /\ ended \in BOOLEAN /\ wiped \in BOOLEAN
  /\ cont \subseteq Players /\ ready \subseteq Humans
  /\ botGuess \subseteq Bots \X Nat /\ botCont \subseteq Bots
  /\ live \subseteq Humans /\ grace \subseteq Humans /\ joining \subseteq Humans
  /\ game \in Nat /\ settled \in Nat /\ faults \in 0 .. MaxFaults
=============================================================================
