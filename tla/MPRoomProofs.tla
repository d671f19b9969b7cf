---------------------------- MODULE MPRoomProofs ----------------------------
(* Theorems about MPRoom, for any seats, capacity, round limits and bounds. *)
EXTENDS MPRoomProps, FiniteSetTheorems, TLAPS

(***************************************************************************)
(* Types.                                                                  *)
(***************************************************************************)

\* The initial room is well typed.
LEMMA InitTyped == Init => TypeOK
<1> SUFFICES ASSUME Init PROVE TypeOK
  OBVIOUS
<1>1. Creator \in Humans /\ 0 \in 0 .. MaxRounds /\ 0 \in 0 .. MaxFaults
  BY ConstantsOK DEF ConstantsOK
<1>2. score \in [Players -> Nat]
  BY DEF Init
<1> QED BY <1>1, <1>2 DEF Init, TypeOK, Players, Statuses, Unset

\* A handler that starts a round, whoever calls it, leaves the variables it
\* writes well typed.
LEMMA StartRoundTyped ==
  ASSUME TypeOK, NEW caller, StartRound(caller)
  PROVE  /\ status' \in Statuses /\ round' \in 0 .. MaxRounds
         /\ timer' \in BOOLEAN /\ ended' \in BOOLEAN /\ wiped' \in BOOLEAN
         /\ cont' = {} /\ game' \in Nat /\ botGuess' \subseteq Bots \X Nat
<1>1. CASE ~MayStart(caller)
  BY <1>1 DEF TypeOK, StartRound
<1>2. CASE MayStart(caller)
  <2>1. round \in Nat /\ total \in Nat /\ total <= MaxRounds /\ round < total
    BY <1>2, ConstantsOK DEF ConstantsOK, TypeOK, MayStart, RoundLimits
  <2>2. round' = round + 1 /\ round' \in 0 .. MaxRounds
    BY <1>2, <2>1, ConstantsOK DEF ConstantsOK, StartRound
  <2>3. {<<b, round + 1>> : b \in Active \cap Bots} \subseteq Bots \X Nat
    BY <2>1
  <2>4. botGuess' \subseteq Bots \X Nat
    BY <1>2, <2>3 DEF TypeOK, StartRound
  <2>5. game' \in Nat
    BY <1>2 DEF TypeOK, StartRound
  <2> QED BY <1>2, <2>2, <2>4, <2>5 DEF StartRound, RoundArmed, Statuses
<1> QED BY <1>1, <1>2

\* So does a caller of endRound.
LEMMA EndRoundTyped ==
  ASSUME TypeOK, NEW ans, EndRound(ans)
  PROVE  /\ status' \in Statuses /\ missed' \subseteq Players \X Nat
         /\ timer' \in BOOLEAN /\ ended' \in BOOLEAN /\ settled' \in Nat
<1>1. status' \in Statuses
  BY DEF TypeOK, EndRound, Statuses
<1>2. timer' \in BOOLEAN /\ ended' \in BOOLEAN
  BY DEF TypeOK, EndRound
<1>3. settled' \in Nat
  BY DEF TypeOK, EndRound
<1>4. missed' \subseteq Players \X Nat
  <2>1. MissedRows(ans) \subseteq Players \X Nat
    <3>1. round \in Nat /\ Active \subseteq Players
      BY ConstantsOK DEF ConstantsOK, TypeOK, Active
    <3>2. \A p \in Active : RowOf(p) \in Players \X Nat
      BY <3>1 DEF RowOf
    <3> QED BY <3>2 DEF MissedRows
  <2> QED BY <2>1 DEF TypeOK, EndRound
<1> QED BY <1>1, <1>2, <1>3, <1>4
\* So does a recorded guess, whether or not it ends the round.
LEMMA GuessRecordedTyped ==
  ASSUME TypeOK, NEW p \in Players, NEW pending \in SUBSET (Bots \X Nat),
         GuessRecorded(p, pending)
  PROVE  /\ answered' \subseteq Players \X Nat /\ score' \in [Players -> Nat]
         /\ status' \in Statuses /\ missed' \subseteq Players \X Nat
         /\ timer' \in BOOLEAN /\ ended' \in BOOLEAN /\ settled' \in Nat
         /\ botGuess' \subseteq Bots \X Nat /\ botCont' \subseteq Bots
<1> DEFINE ans == answered \cup {RowOf(p)}
<1>1. answered' \subseteq Players \X Nat
  <2>1. RowOf(p) \in Players \X Nat
    BY ConstantsOK DEF ConstantsOK, TypeOK, RowOf
  <2> QED BY <2>1 DEF TypeOK, GuessRecorded
<1>2. score' \in [Players -> Nat]
  BY DEF TypeOK, GuessRecorded
<1>3. CASE AllGuessed(ans) /\ ~ended
  <2>1. EndRound(ans) /\ botGuess' = {} /\ botCont' \subseteq Bots
    BY <1>3 DEF GuessRecorded, EndRoundAndLetBotsVote
  <2> QED BY <1>1, <1>2, <2>1, EndRoundTyped
<1>4. CASE ~(AllGuessed(ans) /\ ~ended)
  BY <1>1, <1>2, <1>4 DEF TypeOK, GuessRecorded
<1> QED BY <1>3, <1>4

\* A deleted room is well typed.
LEMMA RoomDeletedTyped == ASSUME TypeOK, RoomDeleted PROVE TypeOK'
<1>1. score' \in [Players -> Nat]
  BY DEF RoomDeleted
<1> QED BY <1>1 DEF TypeOK, RoomDeleted, MemoryWiped, Statuses, roomRow, history

\* The humans of a room are finitely many.
LEMMA RoomIsInt == ASSUME TypeOK PROVE Cardinality(Active \cap Humans) \in Nat
<1>1. IsFiniteSet(Active \cap Humans)
  BY ConstantsOK, FS_Subset DEF ConstantsOK
<1> QED BY <1>1, FS_CardinalityType

\* Every step keeps the types.
LEMMA StepTyped == TypeOK /\ [Next]_vars => TypeOK'
<1> SUFFICES ASSUME TypeOK, [Next]_vars PROVE TypeOK'
  OBVIOUS
<1> USE DEF roomRow, players, rows, memory, sockets, history
<1>1. ASSUME NEW p \in Humans, PlayerStep(p) PROVE TypeOK'
  <2>1. CASE JoinChecked(p)
    BY <2>1, <1>1 DEF TypeOK, JoinChecked
  <2>2. CASE JoinSeats(p)
    BY <2>2, <1>1 DEF TypeOK, JoinSeats, Players
  <2>3. CASE JoinRejected(p)
    BY <2>3, <1>1 DEF TypeOK, JoinRejected
  <2>4. CASE Disconnect(p)
    BY <2>4, <1>1 DEF TypeOK, Disconnect
  <2>5. CASE EvictSocket(p)
    BY <2>5, <1>1, ConstantsOK DEF ConstantsOK, TypeOK, EvictSocket
  <2>6. CASE LeaveEmptyRoom(p)
    <3>1. CASE status = "finished"
      BY <3>1, <2>6 DEF TypeOK, LeaveEmptyRoom, MemoryWiped
    <3>2. CASE status # "finished"
      BY <3>2, <2>6, RoomDeletedTyped DEF LeaveEmptyRoom
    <3> QED BY <3>1, <3>2
  <2>7. CASE LeaveEndsRound(p)
    BY <2>7, <1>1, EndRoundTyped DEF TypeOK, LeaveEndsRound, PlayerOffline, Heirs, ConnectedHumans, Connected, Active
  <2>8. CASE LeaveQuietly(p)
    BY <2>8, <1>1 DEF TypeOK, LeaveQuietly, PlayerOffline, Heirs, ConnectedHumans, Connected, Active
  <2>9. CASE Rejoin(p)
    BY <2>9, <1>1 DEF TypeOK, Rejoin, GraceCancelled, FlagMoved
  <2>10. CASE \E t \in Players : Kick(p, t)
    BY <2>10, <1>1 DEF TypeOK, Kick, Active
  <2>11. CASE \E k \in RoundLimits : Settings(p, k)
    BY <2>11, <1>1 DEF TypeOK, Settings
  <2>12. CASE \E k \in 1 .. Cardinality(Bots) : AddBots(p, k)
    BY <2>12, <1>1 DEF TypeOK, AddBots, BotsReplaced, Players
  <2>13. CASE RemoveBots(p)
    BY <2>13, <1>1 DEF TypeOK, RemoveBots, BotsReplaced, Players
  <2>14. CASE Ready(p)
    BY <2>14, <1>1, StartRoundTyped DEF TypeOK, Ready
  <2>15. CASE StartRequest(p)
    BY <2>15, <1>1, StartRoundTyped DEF TypeOK, StartRequest
  <2>16. CASE HostStartCountdown(p)
    BY <2>16, <1>1 DEF TypeOK, HostStartCountdown
  <2>17. CASE SubmitGuess(p)
    <3>1. p \in Players /\ GuessRecorded(p, botGuess) /\ botGuess \in SUBSET (Bots \X Nat)
      BY <1>1, <2>17 DEF SubmitGuess, Players, TypeOK
    <3> QED BY <2>17, <3>1, GuessRecordedTyped DEF TypeOK, SubmitGuess
  <2>18. CASE Continue(p)
    BY <2>18, <1>1, StartRoundTyped DEF TypeOK, Continue, VoteCounted, Players
  <2>19. CASE PlayAgainRefused(p)
    BY <2>19, <1>1 DEF TypeOK, PlayAgainRefused, MemoryWiped
  <2>20. CASE PlayAgain(p)
    <3>1. score' \in [Players -> Nat] /\ 0 \in 0 .. MaxRounds
      BY <2>20, ConstantsOK DEF ConstantsOK, PlayAgain, ScoresCleared
    <3>2. botCount' \in Nat
      <4>1. SavedBotsThatFit \in Int
        BY ConstantsOK, RoomIsInt DEF ConstantsOK, TypeOK, SavedBotsThatFit
      <4> QED BY <2>20, <4>1 DEF TypeOK, PlayAgain
    <3>3. /\ seated' \subseteq Players /\ kicked' \subseteq seated'
          /\ online' \subseteq seated'
      BY <2>20 DEF TypeOK, PlayAgain, BotsReplaced, Players
    <3> QED BY <2>20, <3>1, <3>2, <3>3 DEF TypeOK, PlayAgain, MemoryWiped, Statuses
  <2> QED BY <1>1, <2>1, <2>2, <2>3, <2>4, <2>5, <2>6, <2>7, <2>8, <2>9, <2>10, <2>11, <2>12, <2>13, <2>14, <2>15, <2>16, <2>17, <2>18, <2>19, <2>20 DEF PlayerStep
<1>2. CASE ServerStep
  <2>1. CASE CountdownElapses
    BY <2>1, StartRoundTyped DEF TypeOK, CountdownElapses
  <2>2. ASSUME NEW g \in botGuess, BotGuesses(g) PROVE TypeOK'
    <3>1. g[1] \in Players /\ botGuess \ {g} \in SUBSET (Bots \X Nat)
      BY <2>2 DEF TypeOK, Players
    <3>2. CASE GuessAccepted(g[1])
      <4>1. GuessRecorded(g[1], botGuess \ {g})
        BY <2>2, <3>2 DEF BotGuesses
      <4> QED BY <2>2, <3>1, <4>1, GuessRecordedTyped DEF TypeOK, BotGuesses
    <3>3. CASE ~GuessAccepted(g[1])
      BY <2>2, <3>1, <3>3 DEF TypeOK, BotGuesses
    <3> QED BY <3>2, <3>3
  <2>3. CASE TimerExpires
    <3>1. EndRound(answered) /\ botGuess' = {} /\ botCont' \subseteq Bots
      BY <2>3 DEF TimerExpires, EndRoundAndLetBotsVote
    <3> QED BY <2>3, <3>1, EndRoundTyped DEF TypeOK, TimerExpires
  <2>4. ASSUME NEW b \in Bots, BotContinues(b) PROVE TypeOK'
    BY <2>4, StartRoundTyped DEF TypeOK, BotContinues, VoteCounted, Players
  <2>5. CASE Reap
    BY <2>5 DEF TypeOK, Reap, StillConnected
  <2>6. CASE EvictStale
    <3>1. CASE RoomDeleted
      BY <3>1, RoomDeletedTyped
    <3>2. CASE ~RoomDeleted
      BY <3>2, <2>6 DEF TypeOK, EvictStale, MemoryWiped
    <3> QED BY <3>1, <3>2
  <2>7. CASE Restart
    <3>1. faults' \in 0 .. MaxFaults
      BY <2>7, ConstantsOK DEF ConstantsOK, TypeOK, Restart, MemoryLost
    <3> QED BY <2>7, <3>1 DEF TypeOK, Restart, MemoryLost, MemoryWiped
  <2>8. CASE CrashInRoundEnd
    <3>1. faults' \in 0 .. MaxFaults
      BY <2>8, ConstantsOK DEF ConstantsOK, TypeOK, CrashInRoundEnd, MemoryLost
    <3> QED
      BY <2>8, <3>1 DEF TypeOK, CrashInRoundEnd, MemoryLost, MemoryWiped, Statuses
  <2> QED BY <1>2, <2>1, <2>2, <2>3, <2>4, <2>5, <2>6, <2>7, <2>8 DEF ServerStep
<1>3. CASE UNCHANGED vars
  BY <1>3 DEF TypeOK, vars
<1> QED BY <1>1, <1>2, <1>3 DEF Next

\* The type invariant of MPRoom: no handler, timer, job or failure ever writes
\* a row, a map or a flag outside its domain.
THEOREM TypeCorrect == Spec => []TypeOK
BY InitTyped, StepTyped, PTL DEF Spec

(***************************************************************************)
(* The life cycle: rounds settle in order and a played round has a driver. *)
(***************************************************************************)
Lifecycle == SettledInOrder /\ PlayingHasDriver
lifeVars  == <<status, round, settled, timer, ended, wiped>>

\* Starting a round, and failing to, keeps the life cycle.
LEMMA StartRoundLifecycle ==
  ASSUME TypeOK, Lifecycle, NEW caller, StartRound(caller), settled' = settled
  PROVE  Lifecycle'
<1>1. CASE MayStart(caller)
  <2>1. status' = "playing" /\ round' = round + 1 /\ timer' = TRUE /\ ended' = FALSE
    BY <1>1 DEF StartRound, RoundArmed
  <2>2. settled = round
    BY <1>1 DEF MayStart, Paused, Lifecycle, SettledInOrder
  <2>3. settled' = round' - 1
    BY <2>1, <2>2 DEF TypeOK
  <2> QED BY <2>1, <2>3 DEF Lifecycle, SettledInOrder, PlayingHasDriver
<1>2. CASE ~MayStart(caller)
  BY <1>2 DEF StartRound, Lifecycle, SettledInOrder, PlayingHasDriver
<1> QED BY <1>1, <1>2

\* Ending a round does, whichever of its callers comes first.
LEMMA EndRoundLifecycle ==
  ASSUME TypeOK, Lifecycle, NEW ans, EndRound(ans), round' = round, wiped' = wiped
  PROVE  Lifecycle'
<1>1. CASE ended
  BY <1>1 DEF EndRound, Lifecycle, SettledInOrder, PlayingHasDriver
<1>2. CASE ~ended /\ status = "playing"
  <2>1. settled = round - 1 /\ round \in Int
    BY <1>2, ConstantsOK DEF ConstantsOK, TypeOK, Lifecycle, SettledInOrder
  <2>2. settled' = round'
    BY <1>2, <2>1 DEF EndRound
  <2>3. status' \in {"between_rounds", "finished"} /\ timer' = FALSE
    BY <1>2 DEF EndRound
  <2> QED BY <2>2, <2>3 DEF Lifecycle, SettledInOrder, PlayingHasDriver
<1>3. CASE ~ended /\ status # "playing"
  BY <1>3 DEF EndRound, Lifecycle, SettledInOrder, PlayingHasDriver
<1> QED BY <1>1, <1>2, <1>3

\* So do a wiped memory, a deleted room and an untouched one.
LEMMA WipedLifecycle ==
  ASSUME Lifecycle, MemoryWiped, UNCHANGED <<status, round, settled>>,
         wiped' = (wiped \/ status = "playing")
  PROVE  Lifecycle'
BY DEF Lifecycle, SettledInOrder, PlayingHasDriver, MemoryWiped

LEMMA DeletedLifecycle == ASSUME RoomDeleted PROVE Lifecycle'
BY DEF RoomDeleted, MemoryWiped, Lifecycle, SettledInOrder, PlayingHasDriver

LEMMA SameLifecycle == ASSUME Lifecycle, UNCHANGED lifeVars PROVE Lifecycle'
BY DEF lifeVars, Lifecycle, SettledInOrder, PlayingHasDriver

LEMMA StepLifecycle == TypeOK /\ Lifecycle /\ [Next]_vars => Lifecycle'
<1> SUFFICES ASSUME TypeOK, Lifecycle, [Next]_vars PROVE Lifecycle'
  OBVIOUS
<1> USE DEF roomRow, players, rows, memory, sockets, history
<1>1. ASSUME NEW p \in Humans, PlayerStep(p) PROVE Lifecycle'
  <2>1. CASE \/ JoinChecked(p) \/ JoinSeats(p) \/ JoinRejected(p) \/ Disconnect(p)
             \/ EvictSocket(p) \/ LeaveQuietly(p) \/ Rejoin(p)
    BY <2>1, SameLifecycle
    DEF JoinChecked, JoinSeats, JoinRejected, Disconnect, EvictSocket, LeaveQuietly,
        Rejoin, lifeVars
  <2>2. CASE \/ \E t \in Players : Kick(p, t)
             \/ \E n \in RoundLimits : Settings(p, n)
             \/ \E n \in 1 .. Cardinality(Bots) : AddBots(p, n)
             \/ RemoveBots(p) \/ HostStartCountdown(p)
    BY <2>2, SameLifecycle
    DEF Kick, Settings, AddBots, RemoveBots, HostStartCountdown, lifeVars
  <2>3. CASE LeaveEmptyRoom(p)
    <3>1. CASE RoomDeleted
      BY <3>1, DeletedLifecycle
    <3>2. CASE ~RoomDeleted
      BY <2>3, <3>2, WipedLifecycle DEF LeaveEmptyRoom, TypeOK
    <3> QED BY <3>1, <3>2
  <2>4. CASE LeaveEndsRound(p)
    BY <2>4, EndRoundLifecycle DEF LeaveEndsRound
  <2>5. CASE Ready(p)
    <3>1. CASE StartRound(host)
      BY <2>5, <3>1, StartRoundLifecycle DEF Ready
    <3>2. CASE ~StartRound(host)
      BY <2>5, <3>2, SameLifecycle DEF Ready, lifeVars
    <3> QED BY <3>1, <3>2
  <2>6. CASE StartRequest(p)
    BY <2>6, StartRoundLifecycle DEF StartRequest
  <2>7. CASE SubmitGuess(p)
    <3>1. CASE EndRound(answered \cup {RowOf(p)})
      BY <2>7, <3>1, EndRoundLifecycle DEF SubmitGuess
    <3>2. CASE ~EndRound(answered \cup {RowOf(p)})
      BY <2>7, <3>2, SameLifecycle
      DEF SubmitGuess, GuessRecorded, EndRoundAndLetBotsVote, lifeVars
    <3> QED BY <3>1, <3>2
  <2>8. CASE Continue(p)
    <3>1. CASE StartRound(host)
      BY <2>8, <3>1, StartRoundLifecycle DEF Continue
    <3>2. CASE ~StartRound(host)
      BY <2>8, <3>2, SameLifecycle DEF Continue, VoteCounted, lifeVars
    <3> QED BY <3>1, <3>2
  <2>9. CASE PlayAgainRefused(p)
    BY <2>9, WipedLifecycle DEF PlayAgainRefused
  <2>10. CASE PlayAgain(p)
    BY <2>10 DEF PlayAgain, MemoryWiped, Lifecycle, SettledInOrder, PlayingHasDriver
  <2> QED BY <1>1, <2>1, <2>2, <2>3, <2>4, <2>5, <2>6, <2>7, <2>8, <2>9, <2>10
          DEF PlayerStep
<1>2. CASE ServerStep
  <2>1. CASE CountdownElapses
    BY <2>1, StartRoundLifecycle DEF CountdownElapses
  <2>2. ASSUME NEW g \in botGuess, BotGuesses(g) PROVE Lifecycle'
    <3>1. CASE EndRound(answered \cup {RowOf(g[1])})
      BY <2>2, <3>1, EndRoundLifecycle DEF BotGuesses
    <3>2. CASE ~EndRound(answered \cup {RowOf(g[1])})
      BY <2>2, <3>2, SameLifecycle
      DEF BotGuesses, GuessRecorded, EndRoundAndLetBotsVote, lifeVars
    <3> QED BY <3>1, <3>2
  <2>3. CASE TimerExpires
    BY <2>3, EndRoundLifecycle DEF TimerExpires, EndRoundAndLetBotsVote
  <2>4. ASSUME NEW b \in Bots, BotContinues(b) PROVE Lifecycle'
    <3>1. CASE StartRound(host)
      BY <2>4, <3>1, StartRoundLifecycle DEF BotContinues
    <3>2. CASE ~StartRound(host)
      BY <2>4, <3>2, SameLifecycle DEF BotContinues, VoteCounted, lifeVars
    <3> QED BY <3>1, <3>2
  <2>5. CASE Reap
    BY <2>5, SameLifecycle DEF Reap, lifeVars
  <2>6. CASE EvictStale
    <3>1. CASE RoomDeleted
      BY <3>1, DeletedLifecycle
    <3>2. CASE ~RoomDeleted
      BY <2>6, <3>2, WipedLifecycle DEF EvictStale, TypeOK
    <3> QED BY <3>1, <3>2
  <2>7. CASE Restart
    BY <2>7, WipedLifecycle DEF Restart, MemoryLost
  <2>8. CASE CrashInRoundEnd
    BY <2>8 DEF CrashInRoundEnd, MemoryLost, MemoryWiped, Lifecycle, SettledInOrder,
                PlayingHasDriver
  <2> QED BY <1>2, <2>1, <2>2, <2>3, <2>4, <2>5, <2>6, <2>7, <2>8 DEF ServerStep
<1>3. CASE UNCHANGED vars
  BY <1>3, SameLifecycle DEF vars, lifeVars
<1> QED BY <1>1, <1>2, <1>3 DEF Next

LEMMA LifecycleCorrect == Spec => []Lifecycle
<1>1. Init => Lifecycle
  BY DEF Init, Lifecycle, SettledInOrder, PlayingHasDriver
<1> QED BY <1>1, StepLifecycle, TypeCorrect, PTL DEF Spec

\* Every round of every game is settled exactly once and in its turn, however
\* the timer, the last guess, a departure, Play Again and a crash interleave.
THEOREM RoundsSettleInOrder == Spec => []SettledInOrder
<1>1. Lifecycle => SettledInOrder
  BY DEF Lifecycle
<1> QED BY <1>1, LifecycleCorrect, PTL

\* A round being played has its timer armed unless a restart or a Play Again
\* from somebody else than the host took it, and a timer never outlives it.
THEOREM PlayedRoundsHaveADriver == Spec => []PlayingHasDriver
<1>1. Lifecycle => PlayingHasDriver
  BY DEF Lifecycle
<1> QED BY <1>1, LifecycleCorrect, PTL

(***************************************************************************)
(* The seats: one host, and sockets only for connected players.            *)
(***************************************************************************)
\* HostRoleConsistent is inductive only if nobody who was kicked can be seated
\* again by a join still awaiting its password check, and an old grace timer
\* never belongs to a stranger.
SeatsConsistent ==
  /\ HostRoleConsistent /\ LivePlayersAreConnected
  /\ joining \cap seated = {} /\ grace \subseteq seated
  /\ status = "gone" => seated = {}

seatVars == <<status, host, hostRows, seated, kicked, online, live, grace, joining>>

LEMMA DeletedSeats == ASSUME TypeOK, SeatsConsistent, RoomDeleted PROVE SeatsConsistent'
BY DEF RoomDeleted, SeatsConsistent, HostRoleConsistent, LivePlayersAreConnected,
       Connected, Active

SameGone == (status' = "gone") <=> (status = "gone")

\* A step that does no more than move the status of a room keeps the seats.
LEMMA SameSeats ==
  ASSUME SeatsConsistent, SameGone,
         UNCHANGED <<host, hostRows, seated, kicked, online, live, grace, joining>>
  PROVE  SeatsConsistent'
BY DEF SameGone, SeatsConsistent, HostRoleConsistent, LivePlayersAreConnected,
       Connected, Active

\* Starting and ending rounds are such moves.
LEMMA StartRoundSameGone == ASSUME NEW caller, StartRound(caller) PROVE SameGone
BY DEF StartRound, MayStart, Paused, SameGone

LEMMA EndRoundSameGone == ASSUME NEW ans, EndRound(ans) PROVE SameGone
BY DEF EndRound, SameGone

\* Deleting bot rows and adding new ones does, too.
LEMMA BotsReplacedSeats ==
  ASSUME TypeOK, SeatsConsistent, NEW n, NEW usable \in SUBSET Bots,
         BotsReplaced(n, usable), status # "gone", status' # "gone",
         UNCHANGED <<host, hostRows, live, grace, joining>>
  PROVE  SeatsConsistent'
BY ConstantsOK
DEF ConstantsOK, TypeOK, BotsReplaced, SeatsConsistent, HostRoleConsistent,
    LivePlayersAreConnected, Connected, Active

\* And so does a departure with its handover.
LEMMA OfflineSeats ==
  ASSUME TypeOK, SeatsConsistent, NEW p \in grace, PlayerOffline(p), SameGone,
         UNCHANGED <<seated, kicked, live, joining>>
  PROVE  SeatsConsistent'
<1>1. LivePlayersAreConnected' /\ joining' \cap seated' = {} /\ grace' \subseteq seated'
  BY DEF PlayerOffline, SeatsConsistent, LivePlayersAreConnected, Connected, Active
<1>0. status # "gone" /\ status' # "gone"
  BY DEF SameGone, SeatsConsistent
<1>2. HostRoleConsistent'
  <2>1. CASE p \in hostRows /\ Heirs(p) # {}
    <3>1. PICK h \in Heirs(p) : host' = h /\ hostRows' = (hostRows \ {p}) \cup {h}
      BY <2>1 DEF PlayerOffline
    <3>2. hostRows = {p}
      BY <1>0, <2>1 DEF SeatsConsistent, HostRoleConsistent
    <3>3. h \in seated \cap Humans /\ h \notin kicked
      BY DEF Heirs, ConnectedHumans, Connected, Active
    <3> QED BY <3>1, <3>2, <3>3 DEF HostRoleConsistent
  <2>2. CASE ~(p \in hostRows /\ Heirs(p) # {})
    BY <1>0, <2>2 DEF PlayerOffline, SeatsConsistent, HostRoleConsistent
  <2> QED BY <2>1, <2>2
<1> QED BY <1>0, <1>1, <1>2 DEF SeatsConsistent

\* A restart keeps the seats of the database.
LEMMA RestartSeats ==
  ASSUME TypeOK, SeatsConsistent, MemoryLost, SameGone, UNCHANGED players,
         UNCHANGED host
  PROVE  SeatsConsistent'
BY DEF MemoryLost, SameGone, players, SeatsConsistent, HostRoleConsistent,
       LivePlayersAreConnected, Connected, Active

LEMMA StepSeats == TypeOK /\ SeatsConsistent /\ [Next]_vars => SeatsConsistent'
<1> SUFFICES ASSUME TypeOK, SeatsConsistent, [Next]_vars PROVE SeatsConsistent'
  OBVIOUS
<1> USE DEF roomRow, players, rows, memory, sockets, history
<1>0. ASSUME UNCHANGED seatVars PROVE SeatsConsistent'
  BY <1>0 DEF seatVars, SeatsConsistent, HostRoleConsistent, LivePlayersAreConnected,
              Connected, Active
<1>1. ASSUME NEW p \in Humans, PlayerStep(p) PROVE SeatsConsistent'
  <2>0. p \in live => status # "gone"
    BY DEF SeatsConsistent, LivePlayersAreConnected, Connected, Active
  <2>1. CASE JoinChecked(p)
    BY <2>1 DEF JoinChecked, SeatsConsistent, HostRoleConsistent,
                LivePlayersAreConnected, Connected, Active
  <2>2. CASE JoinSeats(p)
    BY <2>2 DEF TypeOK, JoinSeats, SeatsConsistent, HostRoleConsistent,
                LivePlayersAreConnected, Connected, Active
  <2>3. CASE JoinRejected(p) \/ Disconnect(p) \/ EvictSocket(p)
    BY <2>3 DEF JoinRejected, Disconnect, EvictSocket, SeatsConsistent,
                HostRoleConsistent, LivePlayersAreConnected, Connected, Active
  <2>4. CASE LeaveEmptyRoom(p)
    <3>1. CASE RoomDeleted
      BY <3>1, DeletedSeats
    <3>2. CASE ~RoomDeleted
      BY <2>4, <3>2 DEF LeaveEmptyRoom, SeatsConsistent, HostRoleConsistent,
                        LivePlayersAreConnected, Connected, Active
    <3> QED BY <3>1, <3>2
  <2>5. CASE LeaveEndsRound(p)
    BY <2>5, OfflineSeats, EndRoundSameGone DEF LeaveEndsRound
  <2>6. CASE LeaveQuietly(p)
    BY <2>6, OfflineSeats DEF LeaveQuietly, SameGone
  <2>7. CASE Rejoin(p)
    BY <2>7 DEF Rejoin, GraceCancelled, FlagMoved, SeatsConsistent, HostRoleConsistent,
                LivePlayersAreConnected, Connected, Active
  <2>8. CASE \E t \in Players : Kick(p, t)
    BY <2>8 DEF TypeOK, Kick, SeatsConsistent, HostRoleConsistent,
                LivePlayersAreConnected, Connected, Active
  <2>9. CASE (\E n \in RoundLimits : Settings(p, n)) \/ HostStartCountdown(p)
    BY <2>9, <1>0 DEF Settings, HostStartCountdown, seatVars
  <2>10. ASSUME NEW n \in 1 .. Cardinality(Bots), AddBots(p, n) PROVE SeatsConsistent'
    <3>1. {b \in Bots : Unreferenced(b)} \in SUBSET Bots
      OBVIOUS
    <3> QED BY <2>0, <2>10, <3>1, BotsReplacedSeats DEF AddBots
  <2>11. CASE RemoveBots(p)
    BY <2>0, <2>11, BotsReplacedSeats DEF RemoveBots
  <2>12. CASE StartRequest(p)
    BY <2>12, SameSeats, StartRoundSameGone DEF StartRequest
  <2>13. CASE Ready(p) \/ Continue(p)
    <3>1. CASE StartRound(host)
      BY <2>13, <3>1, SameSeats, StartRoundSameGone DEF Ready, Continue
    <3>2. CASE ~StartRound(host)
      BY <2>13, <3>2, <1>0 DEF Ready, Continue, VoteCounted, seatVars
    <3> QED BY <3>1, <3>2
  <2>14. CASE SubmitGuess(p)
    <3>1. CASE EndRound(answered \cup {RowOf(p)})
      BY <2>14, <3>1, SameSeats, EndRoundSameGone DEF SubmitGuess
    <3>2. CASE ~EndRound(answered \cup {RowOf(p)})
      BY <2>14, <3>2, <1>0
      DEF SubmitGuess, GuessRecorded, EndRoundAndLetBotsVote, seatVars
    <3> QED BY <3>1, <3>2
  <2>15. CASE PlayAgainRefused(p)
    BY <2>15, <1>0 DEF PlayAgainRefused, seatVars
  <2>16. CASE PlayAgain(p)
    BY <2>0, <2>16, BotsReplacedSeats DEF PlayAgain
  <2> QED BY <1>1, <2>1, <2>2, <2>3, <2>4, <2>5, <2>6, <2>7, <2>8, <2>9, <2>10,
             <2>11, <2>12, <2>13, <2>14, <2>15, <2>16 DEF PlayerStep
<1>2. CASE ServerStep
  <2>1. CASE CountdownElapses
    BY <2>1, SameSeats, StartRoundSameGone DEF CountdownElapses
  <2>2. ASSUME NEW g \in botGuess, BotGuesses(g) PROVE SeatsConsistent'
    <3>1. CASE EndRound(answered \cup {RowOf(g[1])})
      BY <2>2, <3>1, SameSeats, EndRoundSameGone DEF BotGuesses
    <3>2. CASE ~EndRound(answered \cup {RowOf(g[1])})
      BY <2>2, <3>2, <1>0
      DEF BotGuesses, GuessRecorded, EndRoundAndLetBotsVote, seatVars
    <3> QED BY <3>1, <3>2
  <2>3. CASE TimerExpires
    BY <2>3, SameSeats, EndRoundSameGone DEF TimerExpires, EndRoundAndLetBotsVote
  <2>4. ASSUME NEW b \in Bots, BotContinues(b) PROVE SeatsConsistent'
    <3>1. CASE StartRound(host)
      BY <2>4, <3>1, SameSeats, StartRoundSameGone DEF BotContinues
    <3>2. CASE ~StartRound(host)
      BY <2>4, <3>2, <1>0 DEF BotContinues, VoteCounted, seatVars
    <3> QED BY <3>1, <3>2
  <2>5. CASE Reap
    BY <2>5 DEF Reap, StillConnected, SeatsConsistent, HostRoleConsistent,
                LivePlayersAreConnected, Connected, Active
  <2>6. CASE EvictStale
    <3>1. CASE RoomDeleted
      BY <3>1, DeletedSeats
    <3>2. CASE ~RoomDeleted
      BY <2>6, <3>2, <1>0 DEF EvictStale, seatVars
    <3> QED BY <3>1, <3>2
  <2>7. CASE Restart \/ CrashInRoundEnd
    BY <2>7, RestartSeats DEF Restart, CrashInRoundEnd, SameGone
  <2> QED BY <1>2, <2>1, <2>2, <2>3, <2>4, <2>5, <2>6, <2>7 DEF ServerStep
<1>3. CASE UNCHANGED vars
  BY <1>3, <1>0 DEF vars, seatVars
<1> QED BY <1>1, <1>2, <1>3 DEF Next

LEMMA SeatsCorrect == Spec => []SeatsConsistent
<1>1. Init => SeatsConsistent
  BY ConstantsOK DEF ConstantsOK, Init, SeatsConsistent, HostRoleConsistent,
                     LivePlayersAreConnected, Connected, Active
<1> QED BY <1>1, StepSeats, TypeCorrect, PTL DEF Spec

\* There is one host as long as there is a room, a human nobody kicked, and
\* both tables name the same one: disconnect handover, the creator coming back
\* and promotion on join never disagree.
THEOREM OneHost == Spec => []HostRoleConsistent
<1>1. SeatsConsistent => HostRoleConsistent
  BY DEF SeatsConsistent
<1> QED BY <1>1, SeatsCorrect, PTL

\* Who has a socket is a connected, unkicked player without a grace timer.
THEOREM SocketsBelongToConnectedPlayers == Spec => []LivePlayersAreConnected
<1>1. SeatsConsistent => LivePlayersAreConnected
  BY DEF SeatsConsistent
<1> QED BY <1>1, SeatsCorrect, PTL

(***************************************************************************)
(* The seats: never more players than the room holds.                      *)
(***************************************************************************)

\* Any set of players is finite.
LEMMA PlayersAreFinite ==
  ASSUME NEW S \in SUBSET Players
  PROVE  IsFiniteSet(S) /\ Cardinality(S) \in Nat
<1>1. IsFiniteSet(Players)
  BY ConstantsOK, FS_Union DEF ConstantsOK, Players
<1> QED BY <1>1, FS_Subset, FS_CardinalityType

\* A step that seats nobody keeps the room within its capacity.
LEMMA FewerFit ==
  ASSUME TypeOK, CapacityRespected, Active' \subseteq Active
  PROVE  CapacityRespected'
<1>1. IsFiniteSet(Active) /\ Cardinality(Active) \in Nat /\ Cardinality(Active') \in Nat
  BY PlayersAreFinite DEF TypeOK, Active
<1>2. Cardinality(Active') <= Cardinality(Active)
  BY <1>1, FS_Subset
<1> QED BY <1>1, <1>2, ConstantsOK DEF ConstantsOK, CapacityRespected

\* Replacing the bots does, if the humans leave room for the new ones.
LEMMA BotsReplacedFit ==
  ASSUME TypeOK, NEW n \in Int, NEW usable \in SUBSET Bots, BotsReplaced(n, usable),
         Cardinality(Active \cap Humans) + n <= MaxPlayers
  PROVE  CapacityRespected'
<1>1. PICK new \in SUBSET usable :
        /\ Cardinality(new) = n /\ seated' = (seated \cap Humans) \cup new
        /\ kicked' = kicked \cap Humans
  BY DEF BotsReplaced
<1>2. Active' = (Active \cap Humans) \cup new /\ (Active \cap Humans) \cap new = {}
  BY <1>1, ConstantsOK DEF ConstantsOK, TypeOK, Active
<1>3. /\ IsFiniteSet(Active \cap Humans) /\ IsFiniteSet(new)
      /\ Cardinality(Active \cap Humans) \in Nat
  BY PlayersAreFinite DEF Players
<1>4. Cardinality(Active') = Cardinality(Active \cap Humans) + n
  <2>1. Cardinality((Active \cap Humans) \cap new) = 0
    BY <1>2, FS_EmptySet
  <2> QED BY <1>1, <1>2, <1>3, <2>1, FS_Union
<1> QED BY <1>3, <1>4 DEF CapacityRespected

\* Joining is refused when the room is full, and Play Again brings back no
\* more of the saved bots than fit.
LEMMA StepCapacity == TypeOK /\ CapacityRespected /\ [Next]_vars => CapacityRespected'
<1> SUFFICES ASSUME TypeOK, CapacityRespected, [Next]_vars PROVE CapacityRespected'
  OBVIOUS
<1> USE DEF roomRow, players, rows, memory, sockets, history
<1>0. ASSUME seated' = seated, kicked \subseteq kicked' PROVE CapacityRespected'
  BY <1>0, FewerFit DEF Active
<1>00. ASSUME RoomDeleted PROVE CapacityRespected'
  BY <1>00, FewerFit DEF RoomDeleted, Active
<1>1. ASSUME NEW p \in Humans, PlayerStep(p) PROVE CapacityRespected'
  <2>1. CASE \/ JoinChecked(p) \/ JoinRejected(p) \/ Disconnect(p) \/ EvictSocket(p)
             \/ LeaveEndsRound(p) \/ LeaveQuietly(p) \/ Rejoin(p)
    BY <2>1, <1>0
    DEF JoinChecked, JoinRejected, Disconnect, EvictSocket, LeaveEndsRound, LeaveQuietly,
        PlayerOffline, Rejoin
  <2>2. CASE JoinSeats(p)
    <3>1. HasRoom /\ Active' \subseteq Active \cup {p}
      BY <2>2 DEF JoinSeats, Active
    <3>2. /\ IsFiniteSet(Active) /\ Cardinality(Active) \in Nat
          /\ IsFiniteSet(Active \cup {p}) /\ Cardinality(Active') \in Nat
      BY <3>1, PlayersAreFinite DEF TypeOK, Active, Players
    <3>3. Cardinality(Active \cup {p}) <= Cardinality(Active) + 1
      BY <3>2, FS_AddElement
    <3>4. Cardinality(Active') <= Cardinality(Active \cup {p})
      BY <3>1, <3>2, FS_Subset
    <3>5. Cardinality(Active \cup {p}) \in Nat
      BY <3>2, FS_CardinalityType
    <3> QED
      BY <3>1, <3>2, <3>3, <3>4, <3>5, ConstantsOK
      DEF ConstantsOK, HasRoom, CapacityRespected
  <2>3. CASE LeaveEmptyRoom(p)
    BY <2>3, <1>0, <1>00 DEF LeaveEmptyRoom
  <2>4. CASE \/ \E t \in Players : Kick(p, t)
             \/ \E n \in RoundLimits : Settings(p, n)
             \/ HostStartCountdown(p) \/ Ready(p) \/ StartRequest(p)
    BY <2>4, <1>0 DEF Kick, Settings, HostStartCountdown, Ready, StartRequest
  <2>5. CASE SubmitGuess(p) \/ Continue(p) \/ PlayAgainRefused(p)
    BY <2>5, <1>0 DEF SubmitGuess, Continue, PlayAgainRefused
  <2>6. ASSUME NEW n \in 1 .. Cardinality(Bots), AddBots(p, n) PROVE CapacityRespected'
    <3>1. {b \in Bots : Unreferenced(b)} \in SUBSET Bots
      OBVIOUS
    <3> QED BY <2>6, <3>1, BotsReplacedFit DEF AddBots
  <2>7. CASE RemoveBots(p)
    <3>1. Active' \subseteq Active
      BY <2>7 DEF RemoveBots, BotsReplaced, TypeOK, Active
    <3> QED BY <3>1, FewerFit
  <2>8. CASE PlayAgain(p)
    <3>1. Cardinality(Active \cap Humans) \in Nat /\ MaxPlayers \in Nat /\ botCount \in Nat
      BY PlayersAreFinite, ConstantsOK DEF ConstantsOK, Players, TypeOK
    <3>2. /\ SavedBotsThatFit \in Int
          /\ Cardinality(Active \cap Humans) + SavedBotsThatFit <= MaxPlayers
      BY <3>1 DEF SavedBotsThatFit
    <3> QED BY <2>8, <3>2, BotsReplacedFit DEF PlayAgain
  <2> QED BY <1>1, <2>1, <2>2, <2>3, <2>4, <2>5, <2>6, <2>7, <2>8 DEF PlayerStep
<1>2. CASE ServerStep
  BY <1>2, <1>0, <1>00
  DEF ServerStep, CountdownElapses, BotGuesses, TimerExpires, BotContinues, Reap,
      EvictStale, Restart, CrashInRoundEnd, GuessRecorded
<1>3. CASE UNCHANGED vars
  BY <1>3, <1>0 DEF vars
<1> QED BY <1>1, <1>2, <1>3 DEF Next

\* A room never holds more players than its capacity: a join that waited for
\* the password check, the bots of Play Again and people who come back all
\* find it checked where it is written.
THEOREM RoomIsNeverOverfull == Spec => []CapacityRespected
<1>1. Init => CapacityRespected
  <2>1. ASSUME Init PROVE Active = {Creator}
    BY <2>1 DEF Init, Active
  <2> QED BY <2>1, FS_Singleton, ConstantsOK DEF ConstantsOK, CapacityRespected
<1> QED BY <1>1, StepCapacity, TypeCorrect, PTL DEF Spec

(***************************************************************************)
(* The rows of mp_guesses: each is counted once, and none comes back.      *)
(***************************************************************************)

\* ScoresMatchAnswers is inductive only if nobody outside the room has rows:
\* a seat is taken with the score 0.
RowsHaveOwners == \A g \in answered : g[1] \in seated
ScoresAreSums  == \A p \in Players : score[p] = Cardinality({g \in answered : g[1] = p})

\* A player has one row per round at most, an answer or a time-out, and only
\* of rounds that were begun.
OneRowPerRound ==
  /\ answered \cap missed = {}
  /\ \A g \in answered \cup missed : g[2] \in 1 .. round

RowsConsistent ==
  IsFiniteSet(answered) /\ RowsHaveOwners /\ ScoresAreSums /\ OneRowPerRound

LEMMA NoRows ==
  ASSUME answered' = {}, missed' = {}, score' = [p \in Players |-> 0]
  PROVE  RowsConsistent'
BY FS_EmptySet DEF RowsConsistent, RowsHaveOwners, ScoresAreSums, OneRowPerRound

\* A step that writes no row, takes nobody's seat away but that of players
\* without rows, and does not turn the round back.
LEMMA SameRows ==
  ASSUME TypeOK, RowsConsistent, UNCHANGED <<score, rows>>,
         \A g \in answered : g[1] \in seated => g[1] \in seated',
         round' \in Nat, round <= round'
  PROVE  RowsConsistent'
<1>1. round \in Nat /\ \A g \in answered \cup missed : g[2] \in Nat
  BY ConstantsOK DEF ConstantsOK, TypeOK
<1>2. OneRowPerRound'
  BY <1>1 DEF rows, RowsConsistent, OneRowPerRound
<1> QED
  BY <1>2 DEF rows, RowsConsistent, RowsHaveOwners, ScoresAreSums

LEMMA StartRoundRows ==
  ASSUME TypeOK, RowsConsistent, NEW caller, StartRound(caller),
         UNCHANGED <<score, rows, seated>>
  PROVE  RowsConsistent'
<1>1. round \in Nat
  BY ConstantsOK DEF ConstantsOK, TypeOK
<1>2. round' = round \/ round' = round + 1
  BY DEF StartRound
<1> QED BY <1>1, <1>2, SameRows

\* The rows a round is settled with.
LEMMA EndRoundOneRow ==
  ASSUME TypeOK, Lifecycle, NEW ans, EndRound(ans), round' = round, answered' = ans,
         ans \cap missed = {}, \A g \in ans \cup missed : g[2] \in 1 .. round
  PROVE  OneRowPerRound'
<1>1. CASE missed' = missed
  BY <1>1 DEF OneRowPerRound
<1>2. CASE missed' # missed
  <2>1. status = "playing" /\ missed' = missed \cup MissedRows(ans)
    BY <1>2 DEF EndRound
  <2>2. round \in 1 .. round
    BY <2>1, ConstantsOK DEF ConstantsOK, TypeOK, Lifecycle, SettledInOrder
  <2>3. ASSUME NEW g \in MissedRows(ans) PROVE g \notin ans /\ g[2] = round
    <3>1. PICK q \in Active : g = RowOf(q) /\ RowOf(q) \notin ans \cup missed
      BY DEF MissedRows
    <3> QED BY <3>1 DEF RowOf
  <2> QED BY <2>1, <2>2, <2>3 DEF OneRowPerRound
<1> QED BY <1>1, <1>2

\* A timer or a departure adds those of the players without one.
LEMMA EndRoundRows ==
  ASSUME TypeOK, Lifecycle, RowsConsistent, EndRound(answered),
         UNCHANGED <<round, seated, score, answered>>
  PROVE  RowsConsistent'
<1>1. OneRowPerRound'
  BY EndRoundOneRow DEF RowsConsistent, OneRowPerRound
<1> QED BY <1>1 DEF RowsConsistent, RowsHaveOwners, ScoresAreSums

\* A guess is worth one point and one row.
LEMMA GuessRows ==
  ASSUME TypeOK, Lifecycle, RowsConsistent, NEW p \in Players, NEW pending,
         GuessAccepted(p), GuessRecorded(p, pending), UNCHANGED <<round, seated>>
  PROVE  RowsConsistent'
<1> DEFINE ans == answered \cup {RowOf(p)}
<1>1. /\ RowOf(p) \notin answered \cup missed /\ p \in seated /\ status = "playing"
      /\ answered' = ans
  BY DEF GuessAccepted, GuessRecorded, Active
<1>2. round \in 1 .. round
  BY <1>1, ConstantsOK DEF ConstantsOK, TypeOK, Lifecycle, SettledInOrder
<1>3. IsFiniteSet(ans)
  BY FS_AddElement DEF RowsConsistent
<1>4. RowsHaveOwners'
  BY <1>1 DEF RowsConsistent, RowsHaveOwners, RowOf
<1>5. ASSUME NEW q \in Players
      PROVE  score'[q] = Cardinality({g \in ans : g[1] = q})
  <2> DEFINE own == {g \in answered : g[1] = q}
  <2>1. IsFiniteSet(own) /\ score[q] = Cardinality(own)
    BY FS_Subset DEF RowsConsistent, ScoresAreSums
  <2>2. CASE q = p
    <3>1. {g \in ans : g[1] = q} = own \cup {RowOf(p)} /\ RowOf(p) \notin own
      BY <1>1, <2>2 DEF RowOf
    <3>2. Cardinality(own \cup {RowOf(p)}) = Cardinality(own) + 1
      BY <2>1, <3>1, FS_AddElement
    <3>3. score'[q] = score[q] + 1
      BY <2>2 DEF GuessRecorded, TypeOK
    <3> QED BY <2>1, <3>1, <3>2, <3>3
  <2>3. CASE q # p
    <3>1. {g \in ans : g[1] = q} = own
      BY <2>3 DEF RowOf
    <3>2. score'[q] = score[q]
      BY <2>3 DEF GuessRecorded, TypeOK
    <3> QED BY <2>1, <3>1, <3>2
  <2> QED BY <2>2, <2>3
<1>6. OneRowPerRound'
  <2>1. ans \cap missed = {} /\ \A g \in ans \cup missed : g[2] \in 1 .. round
    BY <1>1, <1>2 DEF RowsConsistent, OneRowPerRound, RowOf
  <2>2. CASE EndRound(ans)
    BY <1>1, <2>1, <2>2, EndRoundOneRow
  <2>3. CASE ~EndRound(ans)
    BY <1>1, <2>1, <2>3 DEF GuessRecorded, EndRoundAndLetBotsVote, OneRowPerRound
  <2> QED BY <2>2, <2>3
<1> QED BY <1>1, <1>3, <1>4, <1>5, <1>6 DEF RowsConsistent, ScoresAreSums

LEMMA StepRows == TypeOK /\ Lifecycle /\ RowsConsistent /\ [Next]_vars => RowsConsistent'
<1> SUFFICES ASSUME TypeOK, Lifecycle, RowsConsistent, [Next]_vars PROVE RowsConsistent'
  OBVIOUS
<1> USE DEF roomRow, players, memory, sockets, history
<1>0. round \in Nat /\ round <= round
  BY ConstantsOK DEF ConstantsOK, TypeOK
<1>00. ASSUME RoomDeleted PROVE RowsConsistent'
  BY <1>00, NoRows DEF RoomDeleted
<1>000. ASSUME UNCHANGED <<round, score, rows>>, seated \subseteq seated' PROVE RowsConsistent'
  BY <1>0, <1>000, SameRows
<1>1. ASSUME NEW p \in Humans, PlayerStep(p) PROVE RowsConsistent'
  <2>0. p \in Players
    BY DEF Players
  <2>1. CASE \/ JoinChecked(p) \/ JoinSeats(p) \/ JoinRejected(p) \/ Disconnect(p)
             \/ EvictSocket(p) \/ LeaveQuietly(p) \/ Rejoin(p)
    BY <2>1, <1>000
    DEF JoinChecked, JoinSeats, JoinRejected, Disconnect, EvictSocket, LeaveQuietly,
        PlayerOffline, Rejoin
  <2>2. CASE LeaveEmptyRoom(p)
    BY <2>2, <1>00, <1>000 DEF LeaveEmptyRoom
  <2>3. CASE LeaveEndsRound(p)
    BY <2>3, EndRoundRows DEF LeaveEndsRound
  <2>4. CASE \/ \E t \in Players : Kick(p, t)
             \/ \E n \in RoundLimits : Settings(p, n)
             \/ HostStartCountdown(p) \/ PlayAgainRefused(p)
    BY <2>4, <1>000 DEF Kick, Settings, HostStartCountdown, PlayAgainRefused
  <2>5. ASSUME NEW n, NEW usable, BotRowsDeletable, BotsReplaced(n, usable),
               UNCHANGED <<round, score, rows>>
        PROVE  RowsConsistent'
    <3>1. \A g \in answered : g[1] \in seated => g[1] \in seated'
      BY <2>5 DEF BotRowsDeletable, BotsReplaced, TypeOK, Players
    <3> QED BY <2>5, <3>1, <1>0, SameRows
  <2>6. CASE (\E n \in 1 .. Cardinality(Bots) : AddBots(p, n)) \/ RemoveBots(p)
    BY <2>6, <2>5 DEF AddBots, RemoveBots
  <2>7. CASE StartRequest(p)
    BY <2>7, StartRoundRows DEF StartRequest
  <2>8. CASE Ready(p) \/ Continue(p)
    <3>1. CASE StartRound(host)
      BY <2>8, <3>1, StartRoundRows DEF Ready, Continue
    <3>2. CASE ~StartRound(host)
      BY <2>8, <3>2, <1>000 DEF Ready, Continue, VoteCounted
    <3> QED BY <3>1, <3>2
  <2>9. CASE SubmitGuess(p)
    BY <2>0, <2>9, GuessRows DEF SubmitGuess
  <2>10. CASE PlayAgain(p)
    BY <2>10, NoRows DEF PlayAgain, ScoresCleared
  <2> QED BY <1>1, <2>1, <2>2, <2>3, <2>4, <2>6, <2>7, <2>8, <2>9, <2>10 DEF PlayerStep
<1>2. CASE ServerStep
  <2>1. CASE CountdownElapses
    BY <2>1, StartRoundRows DEF CountdownElapses
  <2>2. ASSUME NEW g \in botGuess, BotGuesses(g) PROVE RowsConsistent'
    <3>1. g[1] \in Players
      BY DEF TypeOK, Players
    <3>2. CASE GuessAccepted(g[1])
      BY <2>2, <3>1, <3>2, GuessRows DEF BotGuesses
    <3>3. CASE ~GuessAccepted(g[1])
      BY <2>2, <3>3, <1>000 DEF BotGuesses
    <3> QED BY <3>2, <3>3
  <2>3. CASE TimerExpires
    BY <2>3, EndRoundRows DEF TimerExpires, EndRoundAndLetBotsVote
  <2>4. ASSUME NEW b \in Bots, BotContinues(b) PROVE RowsConsistent'
    <3>1. CASE StartRound(host)
      BY <2>4, <3>1, StartRoundRows DEF BotContinues
    <3>2. CASE ~StartRound(host)
      BY <2>4, <3>2, <1>000 DEF BotContinues, VoteCounted
    <3> QED BY <3>1, <3>2
  <2>5. CASE Reap \/ EvictStale \/ Restart \/ CrashInRoundEnd
    BY <2>5, <1>00, <1>000 DEF Reap, EvictStale, Restart, CrashInRoundEnd
  <2> QED BY <1>2, <2>1, <2>2, <2>3, <2>4, <2>5 DEF ServerStep
<1>3. CASE UNCHANGED vars
  BY <1>3, <1>000 DEF vars
<1> QED BY <1>1, <1>2, <1>3 DEF Next

LEMMA RowsCorrect == Spec => []RowsConsistent
<1>1. Init => RowsConsistent
  BY FS_EmptySet
  DEF Init, RowsConsistent, RowsHaveOwners, ScoresAreSums, OneRowPerRound
<1> QED BY <1>1, StepRows, TypeCorrect, LifecycleCorrect, PTL DEF Spec

\* The score of everybody seated is the sum of the answers on record, through
\* kicks, rejoins, bots coming and going, Play Again and restarts.
THEOREM ScoresAreBacked == Spec => []ScoresMatchAnswers
<1>1. TypeOK /\ RowsConsistent => ScoresMatchAnswers
  BY DEF TypeOK, RowsConsistent, ScoresAreSums, ScoresMatchAnswers
<1> QED BY <1>1, RowsCorrect, TypeCorrect, PTL

\* However a last guess, the timer and a departure race to settle a round,
\* nobody gets a zero row on top of an answer, nor a row of a round to come.
THEOREM NobodyHasTwoRows == Spec => []OneRowPerRound
<1>1. RowsConsistent => OneRowPerRound
  BY DEF RowsConsistent
<1> QED BY <1>1, RowsCorrect, PTL

\* What a step does to the rows: it adds some of a round being played, and
\* the zero rows when that one is settled, or clears them all.
LEMMA SameRowsKept ==
  ASSUME UNCHANGED rows, status' = status \/ status' \notin {"between_rounds", "finished"}
  PROVE  AnswersKept /\ EverybodyHasARow
BY DEF rows, AnswersKept, EverybodyHasARow

LEMMA StartRoundKept ==
  ASSUME NEW caller, StartRound(caller), UNCHANGED rows
  PROVE  AnswersKept /\ EverybodyHasARow
BY SameRowsKept DEF StartRound

LEMMA EndRoundKept ==
  ASSUME NEW ans, EndRound(ans), answered' = ans,
         answered \subseteq ans, ans = answered \/ status = "playing"
  PROVE  AnswersKept /\ EverybodyHasARow
<1>1. missed \subseteq missed'
  BY DEF EndRound
<1>2. CASE ended \/ status # "playing"
  BY <1>1, <1>2 DEF EndRound, AnswersKept, EverybodyHasARow
<1>3. CASE ~ended /\ status = "playing"
  <2>1. ASSUME NEW p \in Active PROVE RowOf(p) \in ans \cup missed \cup MissedRows(ans)
    BY DEF MissedRows
  <2>2. missed' = missed \cup MissedRows(ans)
    BY <1>3 DEF EndRound
  <2> QED BY <1>1, <1>3, <2>1, <2>2 DEF AnswersKept, EverybodyHasARow
<1> QED BY <1>2, <1>3

LEMMA GuessKept ==
  ASSUME NEW p, NEW pending, GuessAccepted(p), GuessRecorded(p, pending)
  PROVE  AnswersKept /\ EverybodyHasARow
<1>1. answered' = answered \cup {RowOf(p)} /\ status = "playing"
  BY DEF GuessAccepted, GuessRecorded
<1>2. CASE EndRound(answered')
  BY <1>1, <1>2, EndRoundKept
<1>3. CASE ~EndRound(answered')
  BY <1>1, <1>3
  DEF GuessRecorded, EndRoundAndLetBotsVote, AnswersKept, EverybodyHasARow
<1> QED BY <1>2, <1>3

LEMMA StepKeepsRows == Next => AnswersKept /\ EverybodyHasARow
<1> SUFFICES ASSUME Next PROVE AnswersKept /\ EverybodyHasARow
  OBVIOUS
<1> USE DEF roomRow, players, memory, sockets, history
<1>0. ASSUME UNCHANGED <<status, rows>> PROVE AnswersKept /\ EverybodyHasARow
  BY <1>0, SameRowsKept
<1>00. ASSUME RoomDeleted PROVE AnswersKept /\ EverybodyHasARow
  BY <1>00 DEF RoomDeleted, AnswersKept, EverybodyHasARow
<1>1. ASSUME NEW p \in Humans, PlayerStep(p) PROVE AnswersKept /\ EverybodyHasARow
  <2>1. CASE \/ JoinChecked(p) \/ JoinSeats(p) \/ JoinRejected(p) \/ Disconnect(p)
             \/ EvictSocket(p) \/ LeaveQuietly(p) \/ Rejoin(p)
    BY <2>1, <1>0
    DEF JoinChecked, JoinSeats, JoinRejected, Disconnect, EvictSocket, LeaveQuietly, Rejoin
  <2>2. CASE LeaveEmptyRoom(p)
    BY <2>2, <1>0, <1>00 DEF LeaveEmptyRoom
  <2>3. CASE LeaveEndsRound(p)
    BY <2>3, EndRoundKept DEF LeaveEndsRound
  <2>4. CASE \/ \E t \in Players : Kick(p, t)
             \/ \E n \in RoundLimits : Settings(p, n)
             \/ \E n \in 1 .. Cardinality(Bots) : AddBots(p, n)
             \/ RemoveBots(p) \/ HostStartCountdown(p) \/ PlayAgainRefused(p)
    BY <2>4, <1>0
    DEF Kick, Settings, AddBots, RemoveBots, HostStartCountdown, PlayAgainRefused
  <2>5. CASE StartRequest(p)
    BY <2>5, StartRoundKept DEF StartRequest
  <2>6. CASE Ready(p) \/ Continue(p)
    <3>1. CASE StartRound(host)
      BY <2>6, <3>1, StartRoundKept DEF Ready, Continue
    <3>2. CASE ~StartRound(host)
      BY <2>6, <3>2, <1>0 DEF Ready, Continue, VoteCounted
    <3> QED BY <3>1, <3>2
  <2>7. CASE SubmitGuess(p)
    BY <2>7, GuessKept DEF SubmitGuess
  <2>8. CASE PlayAgain(p)
    BY <2>8 DEF PlayAgain, AnswersKept, EverybodyHasARow
  <2> QED BY <1>1, <2>1, <2>2, <2>3, <2>4, <2>5, <2>6, <2>7, <2>8 DEF PlayerStep
<1>2. CASE ServerStep
  <2>1. CASE CountdownElapses
    BY <2>1, StartRoundKept DEF CountdownElapses
  <2>2. ASSUME NEW g \in botGuess, BotGuesses(g) PROVE AnswersKept /\ EverybodyHasARow
    <3>1. CASE GuessAccepted(g[1])
      BY <2>2, <3>1, GuessKept DEF BotGuesses
    <3>2. CASE ~GuessAccepted(g[1])
      BY <2>2, <3>2, <1>0 DEF BotGuesses
    <3> QED BY <3>1, <3>2
  <2>3. CASE TimerExpires
    <3>1. EndRound(answered) /\ answered' = answered
      BY <2>3 DEF TimerExpires, EndRoundAndLetBotsVote
    <3> QED BY <3>1, EndRoundKept
  <2>4. ASSUME NEW b \in Bots, BotContinues(b) PROVE AnswersKept /\ EverybodyHasARow
    <3>1. CASE StartRound(host)
      BY <2>4, <3>1, StartRoundKept DEF BotContinues
    <3>2. CASE ~StartRound(host)
      BY <2>4, <3>2, <1>0 DEF BotContinues, VoteCounted
    <3> QED BY <3>1, <3>2
  <2>5. CASE Reap \/ EvictStale \/ Restart
    BY <2>5, <1>0, <1>00 DEF Reap, EvictStale, Restart
  <2>6. CASE CrashInRoundEnd
    BY <2>6, SameRowsKept DEF CrashInRoundEnd
  <2> QED BY <1>2, <2>1, <2>2, <2>3, <2>4, <2>5, <2>6 DEF ServerStep
<1> QED BY <1>1, <1>2 DEF Next

\* Until Play Again or the room's deletion no answer disappears, and none is
\* added to a round that was settled, whichever of the handlers, timers and
\* failures comes next.
THEOREM AnswersStayFinal == Spec => AnswersAreFinal
<1>1. [Next]_vars => [AnswersKept]_vars
  BY StepKeepsRows
<1> QED BY <1>1, PTL DEF Spec, AnswersAreFinal

\* Nobody in the room is without a row of a round that settled, whoever of the
\* timer, the last guess and a departure settled it.
THEOREM SettledRoundsAreComplete == Spec => SettledRoundIsComplete
<1>1. [Next]_vars => [EverybodyHasARow]_vars
  BY StepKeepsRows
<1> QED BY <1>1, PTL DEF Spec, SettledRoundIsComplete

(***************************************************************************)
(* The refinement: every handler, timer, job and failure is one step of    *)
(* RoomContract or none.                                                   *)
(***************************************************************************)
promiseVars  == <<status, round, total, settled, game>>
PromiseStep  == [Promise!Next]_(Promise!contractVars)

\* A step that leaves the row's life cycle alone is none of the contract's.
LEMMA QuietStep == ASSUME UNCHANGED promiseVars PROVE PromiseStep
BY DEF promiseVars, PromiseStep, Promise!contractVars

\* Starting a round is the contract's Start, if the claim succeeds.
LEMMA StartRoundKeeps ==
  ASSUME TypeOK, NEW caller, StartRound(caller), UNCHANGED <<total, settled>>
  PROVE  PromiseStep
<1>1. CASE MayStart(caller)
  <2>1. Promise!Start
    BY <1>1 DEF StartRound, RoundArmed, MayStart, Paused, Promise!Start
  <2> QED BY <2>1 DEF PromiseStep, Promise!Next
<1>2. CASE ~MayStart(caller)
  BY <1>2, QuietStep DEF StartRound, promiseVars
<1> QED BY <1>1, <1>2

\* Ending one is its Settle, for the first caller.
LEMMA EndRoundKeeps ==
  ASSUME TypeOK, NEW ans, EndRound(ans), UNCHANGED <<round, total, game>>
  PROVE  PromiseStep
<1>1. CASE ~ended /\ status = "playing"
  <2>1. Promise!Settle
    BY <1>1 DEF EndRound, Promise!Settle
  <2> QED BY <2>1 DEF PromiseStep, Promise!Next
<1>2. CASE ended \/ status # "playing"
  BY <1>2, QuietStep DEF EndRound, promiseVars
<1> QED BY <1>1, <1>2

\* Deleting an unfinished room is its Discard.
LEMMA DeletionKeeps ==
  ASSUME RoomDeleted, status \notin {"finished", "gone"}
  PROVE  PromiseStep
<1>1. Promise!Discard
  BY DEF RoomDeleted, history, Promise!Discard
<1> QED BY <1>1 DEF PromiseStep, Promise!Next

LEMMA StepKeepsPromise == TypeOK /\ SeatsConsistent /\ [Next]_vars => PromiseStep
<1> SUFFICES ASSUME TypeOK, SeatsConsistent, [Next]_vars PROVE PromiseStep
  OBVIOUS
<1> USE DEF roomRow, players, rows, memory, sockets, history
<1>1. ASSUME NEW p \in Humans, PlayerStep(p) PROVE PromiseStep
  <2>0. p \in live \cup grace => status # "gone"
    BY DEF SeatsConsistent, LivePlayersAreConnected, Connected, Active
  <2>1. CASE \/ JoinChecked(p) \/ JoinSeats(p) \/ JoinRejected(p) \/ Disconnect(p)
             \/ EvictSocket(p) \/ LeaveQuietly(p) \/ Rejoin(p)
    BY <2>1, QuietStep
    DEF JoinChecked, JoinSeats, JoinRejected, Disconnect, EvictSocket, LeaveQuietly,
        Rejoin, promiseVars
  <2>2. CASE \/ \E t \in Players : Kick(p, t)
             \/ \E n \in 1 .. Cardinality(Bots) : AddBots(p, n)
             \/ RemoveBots(p) \/ HostStartCountdown(p) \/ PlayAgainRefused(p)
    BY <2>2, QuietStep
    DEF Kick, AddBots, RemoveBots, HostStartCountdown, PlayAgainRefused, promiseVars
  <2>3. ASSUME NEW n \in RoundLimits, Settings(p, n) PROVE PromiseStep
    <3>1. Promise!Tune
      BY <2>3 DEF Settings, Paused, RoundLimits, Promise!Tune
    <3> QED BY <3>1 DEF PromiseStep, Promise!Next
  <2>4. CASE LeaveEmptyRoom(p)
    <3>1. CASE status = "finished"
      BY <2>4, <3>1, QuietStep DEF LeaveEmptyRoom, promiseVars
    <3>2. CASE status # "finished"
      BY <2>0, <2>4, <3>2, DeletionKeeps DEF LeaveEmptyRoom
    <3> QED BY <3>1, <3>2
  <2>5. CASE LeaveEndsRound(p)
    BY <2>5, EndRoundKeeps DEF LeaveEndsRound
  <2>6. CASE StartRequest(p)
    BY <2>6, StartRoundKeeps DEF StartRequest
  <2>7. CASE Ready(p) \/ Continue(p)
    <3>1. CASE StartRound(host)
      BY <2>7, <3>1, StartRoundKeeps DEF Ready, Continue
    <3>2. CASE ~StartRound(host)
      BY <2>7, <3>2, QuietStep DEF Ready, Continue, VoteCounted, promiseVars
    <3> QED BY <3>1, <3>2
  <2>8. CASE SubmitGuess(p)
    <3>1. CASE EndRound(answered \cup {RowOf(p)})
      BY <2>8, <3>1, EndRoundKeeps DEF SubmitGuess
    <3>2. CASE ~EndRound(answered \cup {RowOf(p)})
      BY <2>8, <3>2, QuietStep
      DEF SubmitGuess, GuessRecorded, EndRoundAndLetBotsVote, promiseVars
    <3> QED BY <3>1, <3>2
  <2>9. CASE PlayAgain(p)
    <3>1. Promise!Replay
      BY <2>0, <2>9 DEF PlayAgain, Promise!Replay
    <3> QED BY <3>1 DEF PromiseStep, Promise!Next
  <2> QED BY <1>1, <2>1, <2>2, <2>3, <2>4, <2>5, <2>6, <2>7, <2>8, <2>9 DEF PlayerStep
<1>2. CASE ServerStep
  <2>1. CASE CountdownElapses
    BY <2>1, StartRoundKeeps DEF CountdownElapses
  <2>2. ASSUME NEW g \in botGuess, BotGuesses(g) PROVE PromiseStep
    <3>1. CASE EndRound(answered \cup {RowOf(g[1])})
      BY <2>2, <3>1, EndRoundKeeps DEF BotGuesses
    <3>2. CASE ~EndRound(answered \cup {RowOf(g[1])})
      BY <2>2, <3>2, QuietStep
      DEF BotGuesses, GuessRecorded, EndRoundAndLetBotsVote, promiseVars
    <3> QED BY <3>1, <3>2
  <2>3. CASE TimerExpires
    BY <2>3, EndRoundKeeps DEF TimerExpires, EndRoundAndLetBotsVote
  <2>4. ASSUME NEW b \in Bots, BotContinues(b) PROVE PromiseStep
    <3>1. CASE StartRound(host)
      BY <2>4, <3>1, StartRoundKeeps DEF BotContinues
    <3>2. CASE ~StartRound(host)
      BY <2>4, <3>2, QuietStep DEF BotContinues, VoteCounted, promiseVars
    <3> QED BY <3>1, <3>2
  <2>5. CASE Reap \/ Restart
    BY <2>5, QuietStep DEF Reap, Restart, promiseVars
  <2>6. CASE EvictStale
    <3>1. CASE Purgeable /\ RoomDeleted
      BY <3>1, DeletionKeeps DEF Purgeable
    <3>2. CASE ~(Purgeable /\ RoomDeleted)
      BY <2>6, <3>2, QuietStep DEF EvictStale, promiseVars
    <3> QED BY <3>1, <3>2
  <2>7. CASE CrashInRoundEnd
    BY <2>7 DEF CrashInRoundEnd, PromiseStep, Promise!contractVars
  <2> QED BY <1>2, <2>1, <2>2, <2>3, <2>4, <2>5, <2>6, <2>7 DEF ServerStep
<1>3. CASE UNCHANGED vars
  BY <1>3, QuietStep DEF vars, promiseVars
<1> QED BY <1>1, <1>2, <1>3 DEF Next

\* MPRoom keeps the promise of RoomContract: rounds are played and settled one
\* by one, a game finishes only after its last round, and the record of a
\* finished game is never deleted.
THEOREM RoomKeepsPromise == Spec => KeepsPromise
<1>1. Init => Promise!Init
  BY DEF Init, Promise!Init, RoundLimits
<1>2. TypeOK /\ SeatsConsistent /\ [Next]_vars => [Promise!Next]_(Promise!contractVars)
  BY StepKeepsPromise DEF PromiseStep
<1> QED BY <1>1, <1>2, TypeCorrect, SeatsCorrect, PTL
        DEF Spec, KeepsPromise, Promise!Contract
=============================================================================
