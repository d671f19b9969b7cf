--------------------------- MODULE BiddingProofs ----------------------------
(* Theorems about BiddingRound, for any bidders, rounds and bounds. *)
EXTENDS BiddingRound, FiniteSetTheorems, TLAPS

(***************************************************************************)
(* The inductive invariant.                                                *)
(***************************************************************************)

\* Status, round, flag and the bidding state move together: the state exists
\* only while its round is played, and rows only for settled rounds.
Phases ==
  /\ status = "lobby" => round = 0 /\ settled = 0
  /\ status = "playing" => ~ended /\ settled = round - 1
  /\ status \in {"between_rounds", "finished"} => settled = round
  /\ open => status = "playing"
  /\ status # "gone" => \A g \in bidRows \cup missed : g[2] <= settled

\* The order holds everybody in the room but the latecomers, and nobody who
\* was not in the room.
OrderHoldsRoom ==
  /\ Host \in Active
  /\ open => \A p \in Active \ late : \E i \in 1 .. Len(order) : order[i] = p
  /\ open /\ ~spoiled => \A i \in 1 .. Len(order) : order[i] \in seated

\* No opening or closing timer belongs to a round still to come, and the
\* current round's closing timer means that its bids are in.
TimersBelongToRounds ==
  /\ \A r \in closing : r[1] <= game /\ (r[1] = game /\ status \notin {"lobby", "gone"} => r[2] <= round)
  /\ open /\ ThisRound \in closing => turn = Len(order)

\* What RoundIsDriven needs to know of the step before.
Driven ==
  status = "playing" /\ ~spoiled =>
    /\ open
    /\ turn < Len(order) => turnTimer # NoTurn \/ ThisRound \in opening
    /\ turn = Len(order) => ThisRound \in closing

IInv ==
  /\ TypeOK /\ Phases /\ OrderHoldsRoom /\ TimersBelongToRounds
  /\ TurnTimerIsBidders /\ Driven

(***************************************************************************)
(* Lemmas.                                                                 *)
(***************************************************************************)

\* A shuffled room is a sequence of exactly its players.
LEMMA ShuffleIsOrder ==
  ASSUME NEW S \in SUBSET Players, NEW s \in Shuffles(S)
  PROVE  /\ s \in Seq(Players)
         /\ \A i \in 1 .. Len(s) : s[i] \in S
         /\ \A p \in S : \E i \in 1 .. Len(s) : s[i] = p
<1>1. IsFiniteSet(S)
  BY BiddingConstantsOK, FS_Union, FS_Subset DEF BiddingConstantsOK, Players
<1>2. Cardinality(S) \in Nat
  BY <1>1, FS_CardinalityType
<1>3. s \in [1 .. Cardinality(S) -> S]
  BY DEF Shuffles
<1>4. s \in Seq(S) /\ Len(s) = Cardinality(S)
  BY <1>2, <1>3
<1> QED BY <1>2, <1>3, <1>4 DEF Shuffles

\* Whoever's turn it is has a place in the order, and is a player.
LEMMA TurnAfterTyped ==
  ASSUME TypeOK, NEW n \in Nat
  PROVE  /\ TurnAfter(n) \in Players \cup {NoTurn}
         /\ n < Len(order) => TurnAfter(n) = order[n + 1] /\ TurnAfter(n) \in Players
         /\ n >= Len(order) => TurnAfter(n) = NoTurn
<1>1. CASE n < Len(order)
  <2>1. n + 1 \in 1 .. Len(order)
    BY <1>1 DEF TypeOK
  <2>2. order[n + 1] \in Players
    BY <2>1 DEF TypeOK
  <2> QED BY <1>1, <2>2 DEF TurnAfter
<1>2. CASE ~(n < Len(order))
  BY <1>2 DEF TurnAfter, TypeOK
<1> QED BY <1>1, <1>2 DEF TypeOK

\* The order of no players is a sequence of players.
LEMMA EmptyOrder == <<>> \in Seq(Players) /\ 0 \in 0 .. Len(<<>>)
OBVIOUS

LEMMA InitHolds == Init => IInv
<1> SUFFICES ASSUME Init PROVE IInv
  OBVIOUS
<1>1. TypeOK
  <2>1. bidRows \subseteq Players \X Nat /\ missed \subseteq Players \X Nat
    BY DEF Init
  <2>2. opening \subseteq Nat \X Nat /\ closing \subseteq Nat \X Nat
    BY DEF Init
  <2>3. round \in 0 .. TotalRounds /\ faults \in 0 .. MaxFaults
    BY BiddingConstantsOK DEF BiddingConstantsOK, Init
  <2>4. game \in Nat /\ settled \in Nat /\ status = "lobby"
    BY DEF Init
  <2>5. order \in Seq(Players) /\ turn \in 0 .. Len(order)
    BY EmptyOrder DEF Init
  <2>6. /\ seated \subseteq Players /\ kicked \subseteq seated
        /\ joining \subseteq Humans \ seated /\ late \subseteq Humans \ {Host}
    BY BiddingConstantsOK DEF BiddingConstantsOK, Init, Players
  <2>7. turnTimer = NoTurn /\ ended = FALSE /\ open = FALSE /\ spoiled = FALSE
    BY DEF Init
  <2> QED
    BY <2>1, <2>2, <2>3, <2>4, <2>5, <2>6, <2>7 DEF TypeOK
<1>2. Host \in Active
  BY BiddingConstantsOK DEF BiddingConstantsOK, Init, Active, Players
<1> QED
  BY <1>1, <1>2
  DEF Init, IInv, Phases, OrderHoldsRoom, TimersBelongToRounds, TurnTimerIsBidders,
      Driven

\* A recorded bid passes the turn on or arms the closing.
LEMMA BidKeepsIInv ==
  ASSUME IInv, status = "playing", open, turn < Len(order), BidRecorded,
         UNCHANGED <<roomVars, rowVars, ended, open, order, opening, history>>
  PROVE  IInv'
<1> USE DEF IInv, roomVars, rowVars, history
<1>0. turn \in Nat /\ Len(order) \in Nat /\ turn' = turn + 1 /\ turn' \in 0 .. Len(order)
  BY DEF TypeOK, BidRecorded
<1>1. turnTimer' = TurnAfter(turn + 1)
  BY <1>0, TurnAfterTyped DEF BidRecorded, AllBidsIn
<1>2. game \in Nat /\ round \in Nat
  BY BiddingConstantsOK DEF BiddingConstantsOK, TypeOK
<1>3. TypeOK'
  <2>1. ThisRound \in Nat \X Nat
    BY <1>2 DEF ThisRound
  <2>2. closing' \subseteq Nat \X Nat
    BY <2>1 DEF BidRecorded, TypeOK
  <2>3. turnTimer' \in Players \cup {NoTurn}
    BY <1>0, <1>1, TurnAfterTyped
  <2>4. /\ UNCHANGED <<status, round, seated, kicked, joining, late, bidRows, missed,
                      ended, spoiled, open, order, opening, game, settled, faults>>
    OBVIOUS
  <2> QED BY <1>0, <2>2, <2>3, <2>4 DEF TypeOK
<1>4. Phases' /\ OrderHoldsRoom'
  BY DEF Phases, OrderHoldsRoom, Active
<1>5. TimersBelongToRounds'
  <2>1. \A r \in closing' :
          r[1] <= game /\ (r[1] = game /\ status \notin {"lobby", "gone"} => r[2] <= round)
    BY <1>2 DEF TimersBelongToRounds, BidRecorded, ThisRound
  <2>2. ThisRound \notin closing
    BY <1>0 DEF TimersBelongToRounds
  <2>3. ThisRound \in closing' => turn' = Len(order)
    BY <1>0, <2>2 DEF BidRecorded, AllBidsIn
  <2> QED BY <2>1, <2>3 DEF TimersBelongToRounds, ThisRound
<1>6. TurnTimerIsBidders'
  BY <1>0, <1>1, TurnAfterTyped DEF TurnTimerIsBidders, IsTurnOf
<1>7. Driven'
  <2>1. turn + 1 < Len(order) => turnTimer' # NoTurn
    BY <1>0, <1>1, TurnAfterTyped, BiddingConstantsOK DEF BiddingConstantsOK, Players
  <2>2. turn + 1 = Len(order) => ThisRound \in closing'
    BY <1>0 DEF BidRecorded, AllBidsIn
  <2> QED BY <1>0, <2>1, <2>2 DEF Driven, ThisRound
<1> QED BY <1>3, <1>4, <1>5, <1>6, <1>7

\* A round starts with everybody in the order and its opening timer armed.
LEMMA StartKeepsIInv == ASSUME IInv, StartRound PROVE IInv'
<1> USE DEF IInv
<1>0. /\ game \in Nat /\ game' \in Nat /\ round \in Nat /\ round' = round + 1
      /\ status' = "playing" /\ open' = TRUE /\ turn' = 0 /\ turnTimer' = NoTurn
      /\ closing' = closing /\ Active' = Active
  BY BiddingConstantsOK DEF BiddingConstantsOK, TypeOK, StartRound, Active
<1>1. /\ order' \in Seq(Players)
      /\ \A i \in 1 .. Len(order') : order'[i] \in Active
      /\ \A p \in Active : \E i \in 1 .. Len(order') : order'[i] = p
  <2>1. Active \in SUBSET Players /\ order' \in Shuffles(Active)
    BY DEF StartRound, Active, TypeOK
  <2> QED BY <2>1, ShuffleIsOrder
<1>2. TypeOK'
  <2>1. round' \in 0 .. TotalRounds
    BY <1>0, BiddingConstantsOK DEF BiddingConstantsOK, StartRound
  <2>2. <<game', round'>> \in Nat \X Nat
    BY <1>0
  <2>3. opening' \subseteq Nat \X Nat
    BY <2>2 DEF StartRound, TypeOK
  <2>4. 0 \in 0 .. Len(order')
    BY <1>1
  <2>5. /\ UNCHANGED <<seated, kicked, joining, bidRows, missed, settled, faults>>
        /\ ended' = FALSE /\ spoiled' = FALSE /\ late' = {}
    BY DEF StartRound, rowVars
  <2> QED BY <1>0, <1>1, <2>1, <2>3, <2>4, <2>5 DEF TypeOK
<1>3. Phases'
  BY <1>0 DEF Phases, StartRound, Paused, TypeOK, rowVars
<1>4. OrderHoldsRoom'
  BY <1>0, <1>1 DEF OrderHoldsRoom, StartRound, Active
<1>5. <<game', round'>> \notin closing
  BY <1>0 DEF TimersBelongToRounds, StartRound, Paused
<1>6. TimersBelongToRounds'
  <2>1. ASSUME NEW r \in closing
        PROVE r[1] <= game' /\ (r[1] = game' => r[2] <= round')
    <3>1. r[1] \in Nat /\ r[2] \in Nat
      BY DEF TypeOK
    <3>2. CASE status = "lobby"
      BY <1>0, <3>1, <3>2 DEF TimersBelongToRounds, StartRound
    <3>3. CASE status # "lobby"
      BY <1>0, <3>1, <3>3 DEF TimersBelongToRounds, StartRound, Paused
    <3> QED BY <3>2, <3>3
  <2> QED BY <1>0, <1>5, <2>1 DEF TimersBelongToRounds, ThisRound
<1>7. TurnTimerIsBidders'
  BY <1>0 DEF TurnTimerIsBidders
<1>8. Driven'
  <2>1. Len(order') \in Nat /\ Len(order') # 0
    BY <1>1 DEF OrderHoldsRoom
  <2>2. ThisRound' \in opening'
    BY DEF StartRound, ThisRound
  <2> QED BY <1>0, <2>1, <2>2 DEF Driven
<1> QED BY <1>2, <1>3, <1>4, <1>6, <1>7, <1>8

\* Closing a round settles it, unless it is spoiled and the insert fails.
LEMMA CloseKeepsIInv == ASSUME IInv, NEW r \in closing, RoundCloses(r) PROVE IInv'
<1> USE DEF IInv
<1>0. game \in Nat /\ round \in Nat /\ turn \in Nat /\ Len(order) \in Nat
  BY BiddingConstantsOK DEF BiddingConstantsOK, TypeOK
<1>1. CASE FinalizeFails
  <2> USE <1>1 DEF roomVars, rowVars, stateVars, history
  <2>1. spoiled
    <3> SUFFICES ASSUME ~spoiled PROVE FALSE
      OBVIOUS
    <3>1. open /\ status = "playing"
      BY DEF FinalizeFails, Phases
    <3>2. Placed \subseteq seated
      <4>1. \A i \in 1 .. turn : i \in 1 .. Len(order)
        BY DEF TypeOK
      <4> QED BY <3>1, <4>1 DEF Placed, OrderHoldsRoom
    <3>3. \A p \in Placed : <<p, round>> \notin bidRows \cup missed
      BY <1>0, <3>1 DEF Phases
    <3> QED BY <3>2, <3>3 DEF FinalizeFails
  <2> QED
    BY <2>1
    DEF RoundCloses, TypeOK, Phases, OrderHoldsRoom, Active, TimersBelongToRounds,
        ThisRound, TurnTimerIsBidders, IsTurnOf, Driven
<1>2. CASE ~FinalizeFails
  <2>0. /\ open' = FALSE /\ order' = <<>> /\ turn' = 0 /\ turnTimer' = NoTurn
        /\ ended' = TRUE
        /\ closing' = closing \ {r} /\ opening' = opening
        /\ UNCHANGED <<round, seated, kicked, joining, late, game, spoiled, faults>>
    BY <1>2 DEF RoundCloses
  <2>1. NewBidRows \subseteq Players \X Nat /\ (open \/ NewBidRows = {})
    <3>1. Placed \subseteq Players
      <4>1. \A i \in 1 .. turn : i \in 1 .. Len(order)
        BY DEF TypeOK
      <4> QED BY <4>1 DEF Placed, TypeOK
    <3>2. \A p \in Placed : <<p, round>> \in Players \X Nat
      BY <1>0, <3>1
    <3> QED BY <3>2 DEF NewBidRows
  <2>2. \A g \in NewBidRows : g[2] = round
    BY DEF NewBidRows
  <2>3. bidRows' = bidRows \cup NewBidRows
    BY <1>2 DEF RoundCloses
  <2>4. CASE EndIsClaimed
    <3>1. /\ status' \in {"finished", "between_rounds"} /\ settled' = settled + 1
          /\ missed' = missed \cup
               {<<p, round>> : p \in {q \in Active : <<q, round>> \notin bidRows'}}
      BY <1>2, <2>4 DEF RoundCloses
    <3>2. settled' = round
      BY <1>0, <2>4, <3>1 DEF EndIsClaimed, Phases
    <3>3. missed' \subseteq Players \X Nat /\ \A g \in missed' : g \in missed \/ g[2] = round
      <4>1. \A p \in Active : <<p, round>> \in Players \X Nat
        BY <1>0 DEF Active, TypeOK
      <4>2. missed \subseteq Players \X Nat
        BY DEF TypeOK
      <4>3. \A g \in missed' :
              \/ g \in missed
              \/ \E p \in Active : g = <<p, round>>
        BY <3>1
      <4> QED BY <4>1, <4>2, <4>3
    <3>4. TypeOK'
      BY <1>0, <2>0, <2>1, <2>3, <3>1, <3>2, <3>3, EmptyOrder DEF TypeOK
    <3>5. \A g \in bidRows' \cup missed' : g[2] <= round
      <4>1. \A g \in bidRows \cup missed : g[2] <= settled
        BY <2>4 DEF EndIsClaimed, Phases
      <4>2. settled \in Nat /\ settled <= round
        BY <1>0, <3>1, <3>2 DEF TypeOK
      <4>3. \A g \in bidRows \cup missed : g[2] \in Nat
        BY DEF TypeOK
      <4> QED BY <1>0, <2>2, <2>3, <3>3, <4>1, <4>2, <4>3
    <3>6. Phases'
      BY <2>0, <3>1, <3>2, <3>5 DEF Phases
    <3>7. OrderHoldsRoom' /\ TurnTimerIsBidders' /\ Driven'
      BY <2>0, <3>1 DEF OrderHoldsRoom, Active, TurnTimerIsBidders, Driven
    <3>8. TimersBelongToRounds'
      BY <2>0, <2>4, <3>1 DEF TimersBelongToRounds, EndIsClaimed
    <3> QED BY <3>4, <3>6, <3>7, <3>8
  <2>5. CASE ~EndIsClaimed
    <3>1. UNCHANGED <<status, missed, settled>>
      BY <1>2, <2>5 DEF RoundCloses
    <3>2. status # "playing" /\ ~open
      BY <2>5 DEF EndIsClaimed, Phases
    <3>3. bidRows' = bidRows
      BY <2>1, <2>3, <3>2
    <3>4. TypeOK'
      BY <2>0, <3>1, <3>3, EmptyOrder DEF TypeOK
    <3>5. Phases' /\ OrderHoldsRoom' /\ TurnTimerIsBidders' /\ Driven'
      BY <2>0, <3>1, <3>2, <3>3
      DEF Phases, OrderHoldsRoom, Active, TurnTimerIsBidders, Driven
    <3>6. TimersBelongToRounds'
      BY <2>0, <3>1 DEF TimersBelongToRounds
    <3> QED BY <3>4, <3>5, <3>6
  <2> QED BY <2>4, <2>5
<1> QED BY <1>1, <1>2

\* What wipes the room's memory leaves no bidding state and no round to drive.
LEMMA WipeKeepsIInv ==
  ASSUME IInv, MemoryWiped, TypeOK',
         UNCHANGED <<seated, late, game>>, kicked' \subseteq kicked,
         \/ UNCHANGED <<status, round, rowVars, settled>> /\ (spoiled' \/ status # "playing")
         \/ status' = "gone"
         \/ status' = "lobby" /\ round' = 0 /\ settled' = 0 /\ bidRows' = {} /\ missed' = {},
         closing' \subseteq closing
  PROVE  IInv'
<1> USE DEF IInv, MemoryWiped
<1>1. Phases'
  BY DEF Phases, roomVars, rowVars
<1>2. OrderHoldsRoom'
  BY DEF OrderHoldsRoom, Active
<1>3. TimersBelongToRounds'
  BY DEF TimersBelongToRounds, roomVars
<1>4. TurnTimerIsBidders' /\ Driven'
  BY DEF TurnTimerIsBidders, Driven, roomVars
<1> QED BY <1>1, <1>2, <1>3, <1>4

LEMMA StepKeepsIInv == IInv /\ [Next]_vars => IInv'
<1> SUFFICES ASSUME IInv, [Next]_vars PROVE IInv'
  OBVIOUS
<1> USE DEF roomVars, rowVars, stateVars, pending, history
<1>1. CASE StartRound
  BY <1>1, StartKeepsIInv
<1>2. CASE TurnTimerFires
  <2> DEFINE p == IF turnTimer \in Bots THEN turnTimer ELSE TurnAfter(turn)
  <2>1. CASE BidAccepted(p)
    <3>1. status = "playing" /\ open /\ turn < Len(order)
      BY <2>1 DEF BidAccepted, IsTurnOf
    <3> QED BY <1>2, <2>1, <3>1, BidKeepsIInv DEF TurnTimerFires
  <2>2. CASE ~BidAccepted(p)
    <3>1. IsTurnOf(turnTimer) /\ open /\ turn < Len(order) /\ status = "playing"
      BY <1>2 DEF IInv, TurnTimerFires, TurnTimerIsBidders, IsTurnOf, Phases
    <3>2. p = turnTimer
      BY <3>1 DEF IsTurnOf, TurnAfter
    <3> QED BY <2>2, <3>1, <3>2 DEF BidAccepted
  <2> QED BY <2>1, <2>2
<1>3. ASSUME NEW r \in opening, TurnsOpen(r) PROVE IInv'
  <2> USE <1>3 DEF IInv, TurnsOpen
  <2>1. turn \in Nat /\ Len(order) \in Nat /\ turn <= Len(order)
    BY DEF TypeOK
  <2>2. TypeOK'
    BY <2>1, TurnAfterTyped DEF TypeOK
  <2>3. TurnTimerIsBidders'
    BY <2>1, TurnAfterTyped DEF TurnTimerIsBidders, IsTurnOf
  <2>4. Driven'
    BY <2>1, TurnAfterTyped, BiddingConstantsOK
    DEF BiddingConstantsOK, Players, Driven, ThisRound
  <2>5. Phases' /\ OrderHoldsRoom' /\ TimersBelongToRounds'
    BY DEF Phases, OrderHoldsRoom, Active, TimersBelongToRounds, ThisRound
  <2> QED BY <2>2, <2>3, <2>4, <2>5
<1>4. ASSUME NEW r \in closing, RoundCloses(r) PROVE IInv'
  BY <1>4, CloseKeepsIInv
<1>5. ASSUME NEW p \in Players, SubmitBid(p) PROVE IInv'
  <2>1. status = "playing" /\ open /\ turn < Len(order)
    BY <1>5 DEF SubmitBid, BidAccepted, IsTurnOf
  <2> QED BY <1>5, <2>1, BidKeepsIInv DEF SubmitBid
<1>6. ASSUME NEW t \in Players, Kick(t) PROVE IInv'
  <2> USE <1>6 DEF IInv, Kick
  <2>1. TypeOK'
    BY DEF TypeOK, Active
  <2>2. OrderHoldsRoom'
    BY DEF OrderHoldsRoom, Active
  <2> QED BY <2>1, <2>2
      DEF Phases, TimersBelongToRounds, ThisRound, TurnTimerIsBidders, IsTurnOf, Driven
<1>7. CASE RemoveBots
  <2> USE <1>7 DEF IInv, RemoveBots
  <2>1. TypeOK'
    BY DEF TypeOK
  <2>2. OrderHoldsRoom'
    <3>1. Host \notin Bots
      BY BiddingConstantsOK DEF BiddingConstantsOK
    <3>2. open => spoiled'
      BY DEF Phases
    <3> QED BY <3>1, <3>2 DEF OrderHoldsRoom, Active
  <2>3. Driven'
    BY DEF Driven
  <2> QED BY <2>1, <2>2, <2>3
      DEF Phases, TimersBelongToRounds, ThisRound, TurnTimerIsBidders, IsTurnOf
<1>8. CASE PlayAgain
  <2>1. TypeOK'
    <3>1. bidRows' \subseteq Players \X Nat /\ missed' \subseteq Players \X Nat
      BY <1>8 DEF PlayAgain
    <3>2. 0 \in 0 .. TotalRounds
      BY BiddingConstantsOK DEF BiddingConstantsOK
    <3> QED
      BY <1>8, <3>1, <3>2, EmptyOrder DEF PlayAgain, MemoryWiped, IInv, TypeOK
  <2> QED BY <1>8, <2>1, WipeKeepsIInv DEF PlayAgain
<1>9. CASE PlayAgainRefused
  <2>1. TypeOK'
    BY <1>9, EmptyOrder DEF PlayAgainRefused, MemoryWiped, IInv, TypeOK
  <2> QED BY <1>9, <2>1, WipeKeepsIInv DEF PlayAgainRefused
<1>10. CASE RoomDeleted
  <2>1. TypeOK'
    <3>1. bidRows' \subseteq Players \X Nat /\ missed' \subseteq Players \X Nat
      BY <1>10 DEF RoomDeleted
    <3> QED
      BY <1>10, <3>1, EmptyOrder DEF RoomDeleted, MemoryWiped, IInv, TypeOK
  <2> QED BY <1>10, <2>1, WipeKeepsIInv DEF RoomDeleted
<1>11. CASE Restart
  <2>1. TypeOK'
    <3>1. faults' \in 0 .. MaxFaults
      BY <1>11, BiddingConstantsOK DEF BiddingConstantsOK, Restart, IInv, TypeOK
    <3> QED
      BY <1>11, <3>1, EmptyOrder DEF Restart, MemoryWiped, IInv, TypeOK
  <2> QED BY <1>11, <2>1, WipeKeepsIInv DEF Restart
<1>12. ASSUME NEW p \in Humans, JoinChecked(p) \/ JoinRefused(p) PROVE IInv'
  <2>1. TypeOK'
    BY <1>12 DEF JoinChecked, JoinRefused, IInv, TypeOK
  <2> QED
    BY <1>12, <2>1
    DEF JoinChecked, JoinRefused, IInv, Phases, OrderHoldsRoom, Active,
        TimersBelongToRounds, ThisRound, TurnTimerIsBidders, IsTurnOf, Driven
<1>13. ASSUME NEW p \in Humans, JoinSeats(p) PROVE IInv'
  <2> USE <1>13 DEF IInv, JoinSeats
  <2>1. Host \in seated
    BY DEF OrderHoldsRoom, Active
  <2>2. TypeOK'
    BY <2>1 DEF TypeOK, Players
  <2>3. OrderHoldsRoom'
    BY DEF OrderHoldsRoom, Active
  <2> QED BY <2>2, <2>3
      DEF Phases, TimersBelongToRounds, ThisRound, TurnTimerIsBidders, IsTurnOf, Driven
<1>14. CASE UNCHANGED vars
  BY <1>14
  DEF vars, IInv, TypeOK, Phases, OrderHoldsRoom, Active, TimersBelongToRounds,
      ThisRound, TurnTimerIsBidders, IsTurnOf, Driven
<1> QED
  BY <1>1, <1>2, <1>3, <1>4, <1>5, <1>6, <1>7, <1>8, <1>9, <1>10, <1>11, <1>12,
     <1>13, <1>14
  DEF Next

LEMMA IInvHolds == Spec => []IInv
<1>1. IInv /\ [Next]_vars => IInv'
  BY StepKeepsIInv
<1> QED BY <1>1, InitHolds, PTL DEF Spec

(***************************************************************************)
(* The theorems.                                                           *)
(***************************************************************************)

\* Every variable of BiddingRound always has its type.
THEOREM BiddingTypeCorrect == Spec => []TypeOK
BY IInvHolds, PTL DEF IInv

\* A turn timer never fires for anybody but the player whose turn it is.
THEOREM TurnTimersNeverCross == Spec => []TurnTimerIsBidders
BY IInvHolds, PTL DEF IInv

\* A bidding round that nobody spoiled never loses what moves it on.
THEOREM BiddingRoundsAreDriven == Spec => []RoundIsDriven
<1>1. IInv => RoundIsDriven
  <2>1. ASSUME TypeOK, Driven PROVE RoundIsDriven
    <3>1. turn \in Nat /\ Len(order) \in Nat /\ turn <= Len(order)
      BY <2>1 DEF TypeOK
    <3> QED BY <2>1, <3>1 DEF Driven, RoundIsDriven
  <2> QED BY <2>1 DEF IInv
<1> QED BY <1>1, IInvHolds, PTL

\* A round closed by its own timer, and not spoiled, has the bid of everybody
\* on record who was in the room at its start, and times out nobody else than
\* those whose join was checked before that start and inserted after it.
THEOREM OnlyLatecomersAreTimedOut == Spec => OnlyLatecomersMissTheirTurn
<1>1. ASSUME IInv, RoundCloses(ThisRound), settled' # settled, ~spoiled
      PROVE  /\ \A p \in Active \ late : <<p, round>> \in bidRows'
             /\ missed' \ missed \subseteq late \X {round}
  <2> USE <1>1
  <2>1. settled \in Nat /\ turn \in Nat /\ Len(order) \in Nat
    BY DEF IInv, TypeOK
  <2>2. ~FinalizeFails /\ EndIsClaimed /\ ThisRound \in closing
    BY <2>1 DEF RoundCloses, history
  <2>3. status = "playing" /\ open
    BY <2>2 DEF EndIsClaimed, IInv, Driven
  <2>4. turn = Len(order)
    BY <2>2, <2>3 DEF IInv, TimersBelongToRounds
  <2>5. Active \ late \subseteq Placed
    BY <2>3, <2>4 DEF IInv, OrderHoldsRoom, Placed
  <2>6. bidRows' = bidRows \cup {<<p, round>> : p \in Placed}
    BY <2>2, <2>3 DEF RoundCloses, NewBidRows
  <2>7. \A p \in Active \ late : <<p, round>> \in bidRows'
    BY <2>5, <2>6
  <2>8. missed' = missed \cup
          {<<p, round>> : p \in {q \in Active : <<q, round>> \notin bidRows'}}
    BY <2>2 DEF RoundCloses
  <2>9. \A g \in missed' \ missed : \E p \in late : g = <<p, round>>
    BY <2>7, <2>8
  <2> QED BY <2>7, <2>9
<1>2. IInv /\ [Next]_vars =>
        [RoundCloses(ThisRound) /\ settled' # settled /\ ~spoiled =>
           /\ \A p \in Active \ late : <<p, round>> \in bidRows'
           /\ missed' \ missed \subseteq late \X {round}]_vars
  BY <1>1
<1> QED BY <1>2, IInvHolds, PTL DEF Spec, OnlyLatecomersMissTheirTurn

(***************************************************************************)
(* The contract.                                                           *)
(***************************************************************************)
promiseVars == <<status, round, settled, game>>
PromiseStep == [Promise!Next]_(Promise!contractVars)

LEMMA QuietStep == ASSUME UNCHANGED promiseVars PROVE PromiseStep
BY DEF promiseVars, PromiseStep, Promise!contractVars

LEMMA StepKeepsPromise == IInv /\ [Next]_vars => PromiseStep
<1> SUFFICES ASSUME IInv, [Next]_vars PROVE PromiseStep
  OBVIOUS
<1> USE DEF roomVars, rowVars, stateVars, pending, history
<1>1. CASE StartRound
  <2>1. Promise!Start
    BY <1>1 DEF StartRound, Paused, Promise!Start
  <2> QED BY <2>1 DEF PromiseStep, Promise!Next
<1>2. ASSUME NEW r \in closing, RoundCloses(r) PROVE PromiseStep
  <2>1. CASE ~FinalizeFails /\ EndIsClaimed
    <3>1. Promise!Settle
      BY <1>2, <2>1 DEF RoundCloses, EndIsClaimed, Promise!Settle
    <3> QED BY <3>1 DEF PromiseStep, Promise!Next
  <2>2. CASE FinalizeFails \/ ~EndIsClaimed
    <3>1. UNCHANGED promiseVars
      BY <1>2, <2>2 DEF RoundCloses, promiseVars
    <3> QED BY <3>1, QuietStep
  <2> QED BY <2>1, <2>2
<1>3. CASE PlayAgain
  <2>1. Promise!Replay
    BY <1>3 DEF PlayAgain, Promise!Replay
  <2> QED BY <2>1 DEF PromiseStep, Promise!Next
<1>4. CASE RoomDeleted
  <2>1. Promise!Discard
    BY <1>4 DEF RoomDeleted, Promise!Discard
  <2> QED BY <2>1 DEF PromiseStep, Promise!Next
<1>5. CASE \/ TurnTimerFires \/ \E r \in opening : TurnsOpen(r)
           \/ \E p \in Humans : JoinChecked(p) \/ JoinSeats(p) \/ JoinRefused(p)
           \/ \E p \in Players : SubmitBid(p) \/ Kick(p)
           \/ RemoveBots \/ PlayAgainRefused \/ Restart \/ UNCHANGED vars
  <2>1. UNCHANGED promiseVars
    BY <1>5
    DEF TurnTimerFires, TurnsOpen, SubmitBid, JoinChecked, JoinSeats, JoinRefused, Kick, RemoveBots, PlayAgainRefused,
        Restart, vars, promiseVars
  <2> QED BY <2>1, QuietStep
<1> QED BY <1>1, <1>2, <1>3, <1>4, <1>5 DEF Next

\* A bidding room implements RoomContract.
THEOREM BiddingKeepsPromise == Spec => KeepsPromise
<1>1. Init => Promise!Init
  BY BiddingConstantsOK DEF BiddingConstantsOK, Init, Promise!Init
<1>2. IInv /\ [Next]_vars => [Promise!Next]_(Promise!contractVars)
  BY StepKeepsPromise DEF PromiseStep
<1> QED BY <1>1, <1>2, IInvHolds, PTL DEF Spec, KeepsPromise, Promise!Contract
=============================================================================
