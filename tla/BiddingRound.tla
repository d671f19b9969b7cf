---------------------------- MODULE BiddingRound ----------------------------
(***************************************************************************)
(* Rounds of the turn-based mode (mpBidding, mpBiddingState and the bidding *)
(* half of gameHandlers).  There is no round timer: players bid one after  *)
(* the other in a shuffled order, each turn has a timer of its own, and    *)
(* two timers nobody keeps a handle of open a round (3 s after its start)  *)
(* and close it (1.5 s after its last bid).  A join reads the status before *)
(* it awaits bcrypt and not again after, so it may end in a later one.  Who *)
(* may start, kick or press Play Again is MPRoom's business; here those are *)
(* the room's environment.                                                 *)
(***************************************************************************)
EXTENDS Integers, Sequences, FiniteSets

CONSTANTS
  Humans, Bots,
  Host,         \* the host, who is not kicked
  TotalRounds,  \* mp_rooms.total_rounds
  MaxGames,     \* bound: Play Again is pressed in fewer games than this
  MaxFaults,    \* bound: restarts
  NoTurn        \* no turn timer is armed

ASSUME BiddingConstantsOK ==
  /\ Humans \cap Bots = {} /\ Host \in Humans /\ NoTurn \notin Humans \cup Bots
  /\ IsFiniteSet(Humans) /\ IsFiniteSet(Bots)
  /\ TotalRounds \in Nat \ {0} /\ MaxGames \in Nat \ {0} /\ MaxFaults \in Nat

VARIABLES
  status, round,              \* mp_rooms
  seated, kicked,             \* mp_players
  joining,                    \* joins that await the password's comparison
  bidRows, missed,            \* mp_guesses
  ended,                      \* roundEndedFlags
  open, order, turn, turnTimer, \* BiddingRoundState: exists, its fields
  opening, closing,           \* pending 3 s and 1.5 s timers, by their round
  late,                       \* history: seated since the current round started
  game, settled, spoiled, faults  \* history, bounds

roomVars  == <<status, round, seated, kicked, joining>>
rowVars   == <<bidRows, missed>>
stateVars == <<open, order, turn, turnTimer>>
pending   == <<opening, closing>>
history   == <<late, game, settled, spoiled, faults>>
vars      == <<roomVars, rowVars, ended, stateVars, pending, history>>

Players == Humans \cup Bots
Paused  == {"lobby", "between_rounds"}
Active  == seated \ kicked
ThisRound == <<game, round>>

Shuffles(S) ==
  {s \in [1 .. Cardinality(S) -> S] :
     /\ \A i, j \in DOMAIN s : s[i] = s[j] => i = j
     /\ \A p \in S : \E i \in DOMAIN s : s[i] = p}

Bidders == {order[i] : i \in DOMAIN order}
Placed  == {order[i] : i \in 1 .. turn}       \* state.bids
IsTurnOf(p) == open /\ turn < Len(order) /\ order[turn + 1] = p

(***************************************************************************)
(* Steps shared by several handlers.                                       *)
(***************************************************************************)

\* advanceBiddingTurn: drop the old turn timer, arm the next bidder's.
TurnAfter(n) == IF n < Len(order) THEN order[n + 1] ELSE NoTurn

\* The last bid closes the round later; any other passes the turn on.
ClosesOneBidEarly(n) == n >= Len(order) - 1                         \* mutant
AllBidsIn(n) == n >= Len(order)

\* recordBid, and what its three callers do next.
TurnPassedSilently ==                                               \* mutant
  /\ turn' = turn + 1
  /\ turnTimer' = NoTurn
  /\ closing' = IF AllBidsIn(turn + 1) THEN closing \cup {ThisRound} ELSE closing
BidRecorded ==
  /\ turn' = turn + 1
  /\ turnTimer' = IF AllBidsIn(turn + 1) THEN NoTurn ELSE TurnAfter(turn + 1)
  /\ closing' = IF AllBidsIn(turn + 1) THEN closing \cup {ThisRound} ELSE closing

\* submitBid's early returns: the room is playing, it is the caller's turn.
BidAccepted(p) == status = "playing" /\ IsTurnOf(p)

\* cleanupRoomMemory; the opening and closing timers are not in its reach.
MemoryWiped ==
  /\ ended' = FALSE
  /\ open' = FALSE /\ order' = <<>> /\ turn' = 0 /\ turnTimer' = NoTurn

\* finalizeBiddingScores inserts one row per bid; UNIQUE(room, player, round)
\* and the foreign key on the player can refuse it.
FinalizeFails ==
  open /\ status # "gone" /\ \E p \in Placed : p \notin seated \/ <<p, round>> \in bidRows \cup missed

NewBidRows ==
  IF open /\ status # "gone" THEN {<<p, round>> : p \in Placed} ELSE {}

\* endRound's claim: the in-memory flag, then the status.
FlagOnly     == ~ended                                              \* mutant
EndIsClaimed == ~ended /\ status = "playing"

(***************************************************************************)
(* Rounds.                                                                 *)
(***************************************************************************)
Init ==
  /\ status = "lobby" /\ round = 0 /\ seated = {Host} \cup Bots /\ kicked = {}
  /\ joining = {} /\ late = {}
  /\ bidRows = {} /\ missed = {} /\ ended = FALSE
  /\ open = FALSE /\ order = <<>> /\ turn = 0 /\ turnTimer = NoTurn
  /\ opening = {} /\ closing = {}
  /\ game = 0 /\ settled = 0 /\ spoiled = FALSE /\ faults = 0

\* startRound with initBiddingRound, then triggerPostRoundStart.
StartRound ==
  /\ status \in Paused /\ round < TotalRounds
  /\ status' = "playing" /\ round' = round + 1
  /\ game' = IF status = "lobby" THEN game + 1 ELSE game
  /\ ended' = FALSE
  /\ open' = TRUE /\ turn' = 0 /\ turnTimer' = NoTurn
  /\ order' \in Shuffles(Active)
  /\ opening' = opening \cup {<<game', round'>>}
  /\ spoiled' = FALSE /\ late' = {}
  /\ UNCHANGED <<seated, kicked, joining, rowVars, closing, settled, faults>>

\* The 3 s timer: advanceBiddingTurn for whatever state there is by now.
TurnsOpen(r) ==
  /\ r \in opening
  /\ opening' = opening \ {r}
  /\ turnTimer' = IF open THEN TurnAfter(turn) ELSE turnTimer
  /\ UNCHANGED <<roomVars, rowVars, ended, open, order, turn, closing, history>>

\* handleSubmitBid.
SubmitBid(p) ==
  /\ p \in Humans \ kicked
  /\ BidAccepted(p)
  /\ BidRecorded
  /\ UNCHANGED <<roomVars, rowVars, ended, open, order, opening, history>>

\* A turn's timer fires: a bot's bids for the bot it was armed for, a human's
\* bids one cent for whoever's turn it is (handleBiddingTurnTimeout).
TurnTimerFires ==
  /\ turnTimer # NoTurn
  /\ LET p == IF turnTimer \in Bots THEN turnTimer ELSE TurnAfter(turn) IN
     IF BidAccepted(p)
     THEN BidRecorded
     ELSE turnTimer' = NoTurn /\ UNCHANGED <<turn, closing>>
  /\ UNCHANGED <<roomVars, rowVars, ended, open, order, opening, history>>

\* The 1.5 s timer of scheduleBiddingRoundEnd: finalize, endRound, clean up;
\* a refused insert throws before endRound.
RoundCloses(r) ==
  /\ r \in closing
  /\ closing' = closing \ {r}
  /\ IF FinalizeFails
     THEN UNCHANGED <<roomVars, rowVars, ended, stateVars, history>>
     ELSE /\ bidRows' = bidRows \cup NewBidRows
          /\ open' = FALSE /\ order' = <<>> /\ turn' = 0 /\ turnTimer' = NoTurn
          /\ ended' = TRUE
          /\ IF EndIsClaimed
             THEN /\ status' = IF round >= TotalRounds THEN "finished"
                                                       ELSE "between_rounds"
                  /\ missed' = missed \cup
                       {<<p, round>> : p \in {q \in Active : <<q, round>> \notin bidRows'}}
                  /\ settled' = settled + 1
             ELSE UNCHANGED <<status, missed, settled>>
          /\ UNCHANGED <<round, seated, kicked, joining, late, game, spoiled, faults>>
  /\ UNCHANGED opening

(***************************************************************************)
(* The room around the rounds.                                             *)
(***************************************************************************)

\* joinRoom: the status is read before the password is compared, the player
\* is inserted after it whatever the status is by then, or refused: a wrong
\* password, a full room, a room that is gone.
JoinChecked(p) ==
  /\ status \in Paused /\ p \in Humans \ (seated \cup joining)
  /\ joining' = joining \cup {p}
  /\ UNCHANGED <<status, round, seated, kicked, rowVars, ended, stateVars, pending,
                 history>>

JoinSeats(p) ==
  /\ p \in joining /\ status # "gone"
  /\ joining' = joining \ {p} /\ seated' = seated \cup {p}
  /\ late' = late \cup {p}
  /\ UNCHANGED <<status, round, kicked, rowVars, ended, stateVars, pending, game,
                 settled, spoiled, faults>>

JoinRefused(p) ==
  /\ p \in joining
  /\ joining' = joining \ {p}
  /\ UNCHANGED <<status, round, seated, kicked, rowVars, ended, stateVars, pending,
                 history>>

\* kickPlayer; the player keeps the place in the order.
Kick(t) ==
  /\ status # "gone" /\ t \in Active \ {Host}
  /\ kicked' = kicked \cup {t}
  /\ UNCHANGED <<status, round, seated, joining, rowVars, ended, stateVars, pending,
                 history>>

\* removeBots: any status, as long as no bot has a row.
RemoveBots ==
  /\ status # "gone" /\ seated \cap Bots # {}
  /\ \A g \in bidRows \cup missed : g[1] \notin Bots
  /\ seated' = seated \ Bots /\ kicked' = kicked \ Bots
  /\ spoiled' = (spoiled \/ status = "playing")
  /\ UNCHANGED <<status, round, joining, rowVars, ended, stateVars, pending, late,
                 game, settled, faults>>

\* handlePlayAgain by the host (resetRoom), by anybody else, and deleteRoom.
PlayAgain ==
  /\ status # "gone" /\ game < MaxGames
  /\ MemoryWiped
  /\ status' = "lobby" /\ round' = 0 /\ settled' = 0 /\ spoiled' = FALSE
  /\ bidRows' = {} /\ missed' = {} /\ kicked' = kicked \cap Humans
  /\ UNCHANGED <<seated, joining, pending, late, game, faults>>

PlayAgainRefused ==
  /\ status # "gone"
  /\ MemoryWiped
  /\ spoiled' = (spoiled \/ status = "playing")
  /\ UNCHANGED <<roomVars, rowVars, pending, late, game, settled, faults>>

RoomDeleted ==
  /\ status \notin {"finished", "gone"}
  /\ MemoryWiped
  /\ status' = "gone" /\ bidRows' = {} /\ missed' = {}
  /\ UNCHANGED <<round, seated, kicked, joining, pending, history>>

Restart ==
  /\ faults < MaxFaults /\ faults' = faults + 1
  /\ MemoryWiped
  /\ opening' = {} /\ closing' = {} /\ joining' = {}
  /\ spoiled' = (spoiled \/ status = "playing")
  /\ UNCHANGED <<status, round, seated, kicked, rowVars, late, game, settled>>

(***************************************************************************)
(* The specification.                                                      *)
(***************************************************************************)
Next ==
  \/ StartRound \/ TurnTimerFires
  \/ \E r \in opening : TurnsOpen(r)
  \/ \E r \in closing : RoundCloses(r)
  \/ \E p \in Humans : JoinChecked(p) \/ JoinSeats(p) \/ JoinRefused(p)
  \/ \E p \in Players : SubmitBid(p) \/ Kick(p)
  \/ RemoveBots \/ PlayAgain \/ PlayAgainRefused \/ RoomDeleted \/ Restart

Spec == Init /\ [][Next]_vars

\* The server's timers fire; nobody has to bid, start or leave.
Fairness ==
  /\ WF_vars(TurnTimerFires)
  /\ WF_vars(\E r \in opening : TurnsOpen(r))
  /\ WF_vars(\E r \in closing : RoundCloses(r))

FairSpec == Spec /\ Fairness

\* Every variable keeps its type.
TypeOK ==
  /\ status \in {"lobby", "playing", "between_rounds", "finished", "gone"}
  /\ round \in 0 .. TotalRounds
  /\ seated \subseteq Players /\ kicked \subseteq seated
  /\ joining \subseteq Humans \ seated /\ late \subseteq Humans \ {Host}
  /\ bidRows \subseteq Players \X Nat /\ missed \subseteq Players \X Nat
  /\ ended \in BOOLEAN /\ open \in BOOLEAN /\ spoiled \in BOOLEAN
  /\ order \in Seq(Players) /\ turn \in 0 .. Len(order)
  /\ turnTimer \in Players \cup {NoTurn}
  /\ opening \subseteq Nat \X Nat /\ closing \subseteq Nat \X Nat
  /\ game \in Nat /\ settled \in Nat /\ faults \in 0 .. MaxFaults

(***************************************************************************)
(* What it must satisfy.                                                   *)
(***************************************************************************)

\* An armed turn timer belongs to the player whose turn it is: no timer of an
\* earlier turn, round or game is left to bid for somebody else.
TurnTimerIsBidders == turnTimer # NoTurn => IsTurnOf(turnTimer)

\* A round being played always has something scheduled that moves it on (the
\* opening, a turn's timer or the closing), although none of the three is
\* tracked with the round; except after a refused Play Again, the removal of
\* the bots, or a restart in the middle of it.
RoundIsDriven ==
  status = "playing" /\ ~spoiled =>
    \/ turnTimer # NoTurn
    \/ open /\ (ThisRound \in opening \/ ThisRound \in closing)

\* Unless the closing timer of an abandoned game is still pending, a round
\* closes with the bid of everybody on record who was in the room when it
\* started: the only players it times out are those whose join passed the
\* status check before that start and inserted them after it.
OnlyLatecomersMissTheirTurn ==
  [][RoundCloses(ThisRound) /\ settled' # settled /\ ~spoiled =>
       /\ \A p \in Active \ late : <<p, round>> \in bidRows'
       /\ missed' \ missed \subseteq late \X {round}]_vars

\* A bidding room keeps the promise every room makes (RoomContract).
Promise == INSTANCE RoomContract
             WITH phase <- status, total <- TotalRounds, done <- settled,
                  MinRounds <- TotalRounds, MaxRounds <- TotalRounds
KeepsPromise == Promise!Contract

\* Without anybody bidding, a round still ends by its turn timers.
BiddingRoundEnds == status = "playing" ~> (status # "playing" \/ spoiled)
=============================================================================
