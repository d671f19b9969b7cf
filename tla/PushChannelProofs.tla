-------------------------- MODULE PushChannelProofs --------------------------
(***************************************************************************)
(* Proofs about PushChannel, for any users, length of a day, quiet hours   *)
(* and number of attempts.                                                 *)
(***************************************************************************)
EXTENDS PushChannelProps, FiniteSetTheorems, TLAPS

Slots == [user : Users, rank : 1 .. TopN]

LEMMA DaysGrow ==
  ASSUME NEW a \in Nat, NEW b \in Nat, a <= b
  PROVE  Day(a) \in Nat /\ Day(b) \in Nat /\ Day(a) <= Day(b)
BY PushConstantsOK DEF Day

LEMMA TodayIsADay ==
  ASSUME now \in 0 .. MaxTime
  PROVE  Today \in Days /\ Today \in Nat /\ Day(MaxTime) \in Nat /\ Today <= Day(MaxTime)
<1>1. now \in Nat /\ MaxTime \in Nat /\ now <= MaxTime
  BY PushConstantsOK
<1> QED BY <1>1, DaysGrow DEF Today, Days

\* A game ends: what it may change.
GamePlayed(u) ==
  \/ \E day \in Days : PlayDaily(u, day) \/ PlayInRoom(u, day) \/ FinishClaimed(u, day)
  \/ \E days \in SUBSET Days : ClaimPlays(u, days)

Streak(u) == Uncounted \/ \E day \in 0 .. Today : Counted(u, day)

LEMMA GameFacts ==
  ASSUME NEW u \in Users, GamePlayed(u)
  PROVE  /\ GameEnds /\ queue' \in {queue, WithNewReminder(u)} /\ Streak(u)
         /\ \E days \in SUBSET (0 .. Today) : Completed(u, days)
<1>1. ASSUME NEW days \in SUBSET Days, ClaimPlays(u, days)
      PROVE  /\ GameEnds /\ queue' = queue /\ Streak(u)
             /\ \E ds \in SUBSET (0 .. Today) : Completed(u, ds)
  <2>1. days \in SUBSET (0 .. Today) /\ Completed(u, days) /\ GameEnds /\ queue' = queue
    BY <1>1 DEF ClaimPlays, Unfinished
  <2>2. \E latest \in days : Counted(u, latest) \/ Uncounted
    BY <1>1, Zenon DEF ClaimPlays
  <2> QED BY <2>1, <2>2, Zenon DEF Streak
<1>2. ASSUME NEW day \in Days, PlayDaily(u, day) \/ PlayInRoom(u, day) \/ FinishClaimed(u, day)
      PROVE  /\ GameEnds /\ queue' \in {queue, WithNewReminder(u)} /\ Streak(u)
             /\ \E ds \in SUBSET (0 .. Today) : Completed(u, ds)
  <2>1. day \in 0 .. Today /\ Completed(u, {day}) /\ GameEnds
    BY <1>2 DEF PlayDaily, PlayInRoom, FinishClaimed, Unfinished
  <2>2. queue' \in {queue, WithNewReminder(u)}
    BY <1>2 DEF PlayDaily, PlayInRoom, FinishClaimed
  <2>3. Counted(u, day) \/ Uncounted
    BY <1>2, Zenon DEF PlayDaily, PlayInRoom, FinishClaimed
  <2>4. {day} \in SUBSET (0 .. Today)
    BY <2>1
  <2> QED BY <2>1, <2>2, <2>3, <2>4, Zenon DEF Streak
<1> QED BY <1>1, <1>2, Zenon DEF GamePlayed

\* So may a game that a crash interrupts; one row of the queue at most changes.
LEMMA CrashFacts ==
  ASSUME NEW u \in Users, NEW day \in Days, CrashInGame(u, day)
  PROVE  /\ Restarts /\ queue' \in {queue, queue \ Pending(u), WithNewReminder(u)} /\ Streak(u)
         /\ queue' = queue \/ Counted(u, day)
         /\ \E days \in SUBSET (0 .. Today) : Completed(u, days) \/ UNCHANGED plays
<1>1. Restarts /\ day \in 0 .. Today /\ {day} \in SUBSET (0 .. Today)
  BY DEF CrashInGame, Unfinished
<1>2. queue' \in {queue, queue \ Pending(u), WithNewReminder(u)}
  BY DEF CrashInGame
<1>3. /\ Counted(u, day) \/ Uncounted
      /\ queue' = queue \/ Counted(u, day)
      /\ Completed(u, {day}) \/ UNCHANGED plays
  BY Zenon DEF CrashInGame
<1> QED BY <1>1, <1>2, <1>3, Zenon DEF Streak

\* The queue: one row a user.
OneRowEach == \A q, r \in queue : q.user = r.user => q = r

\* A drain works on due rows, one a user, whose attempts it knows.
DrainKnowsRows ==
  stage = "drain" =>
    /\ \A row \in todo : row.due <= now /\ row.attempts < MaxAttempts
    /\ \A row \in todo, q \in queue : IsRow(q, row) => q.attempts = row.attempts
    /\ \A row, other \in todo : row.user = other.user => row = other

LEMMA QueueInit == Init => OneRowEach /\ DrainKnowsRows
BY DEF Init, OneRowEach, DrainKnowsRows

LEMMA QueueStep ==
  ASSUME TypeOK, OneRowEach, DrainKnowsRows, [Next]_vars
  PROVE  OneRowEach' /\ DrainKnowsRows' /\ queue' \subseteq Rows
<1> USE PushConstantsOK DEF OneRowEach, DrainKnowsRows, IsRow
<1>1. ASSUME NEW u \in Users, queue' = WithNewReminder(u), UNCHANGED now,
             UNCHANGED <<stage, todo>> \/ stage' = "idle"
      PROVE  OneRowEach' /\ DrainKnowsRows' /\ queue' \subseteq Rows
  <2>1. queue' = {q \in queue : q.user # u} \cup {Reminder(u, now)}
    BY <1>1 DEF WithNewReminder, Pending
  <2>2. Reminder(u, now) \in Rows /\ Reminder(u, now).user = u /\ Reminder(u, now).due > now
    BY DEF Reminder, Rows, TypeOK
  <2>4. queue \subseteq Rows /\ (stage = "drain" => todo \subseteq Rows)
    BY DEF TypeOK
  <2>5. OneRowEach' /\ queue' \subseteq Rows
    BY <2>1, <2>2, <2>4
  <2>6. stage = "drain" => \A row \in todo : row.due < Reminder(u, now).due
    BY <2>2, <2>4 DEF Rows, TypeOK
  <2>7. \A q \in queue' : q \in queue \/ q = Reminder(u, now)
    BY <2>1
  <2>8. stage = "drain" => \A row \in todo : ~IsRow(Reminder(u, now), row)
    BY <2>2, <2>4, <2>6 DEF Rows
  <2>9. DrainKnowsRows'
    BY <1>1, <2>7, <2>8
  <2> QED BY <2>5, <2>9
<1>a. ASSUME queue' \subseteq queue, UNCHANGED now, UNCHANGED <<stage, todo>> \/ stage' = "idle"
      PROVE  OneRowEach' /\ DrainKnowsRows' /\ queue' \subseteq Rows
  BY <1>a DEF TypeOK
<1>b. ASSUME NEW u \in Users, GamePlayed(u)
      PROVE  OneRowEach' /\ DrainKnowsRows' /\ queue' \subseteq Rows
  <2>1. queue' \in {queue, WithNewReminder(u)} /\ UNCHANGED <<now, stage, todo>>
    BY <1>b, GameFacts DEF GameEnds
  <2> QED BY <1>1, <1>a, <2>1
<1>c. ASSUME NEW u \in Users, NEW day \in Days, CrashInGame(u, day)
      PROVE  OneRowEach' /\ DrainKnowsRows' /\ queue' \subseteq Rows
  <2>1. queue' \in {queue, queue \ Pending(u), WithNewReminder(u)} /\ UNCHANGED now /\ stage' = "idle"
    BY <1>c, CrashFacts DEF Restarts
  <2> QED BY <1>1, <1>a, <2>1
<1>2. CASE StartTick
  BY <1>2 DEF StartTick, DueRows, TypeOK, Rows
<1>3. ASSUME NEW row \in todo, DrainRow(row)
      PROVE  OneRowEach' /\ DrainKnowsRows' /\ queue' \subseteq Rows
  <2>1. row \in Rows /\ queue \subseteq Rows /\ todo \subseteq Rows /\ todo' = todo \ {row} /\ UNCHANGED <<stage, now>>
    BY <1>3 DEF DrainRow, TypeOK
  <2>2. CASE queue' = Settled(row)
    BY <2>1, <2>2 DEF Settled
  <2>3. CASE queue' = Attempted(row)
    <3>1. \A q \in queue : IsRow(q, row) => q.attempts + 1 \in 0 .. MaxAttempts /\ q.attempts = row.attempts
      BY <1>3, <2>1 DEF DrainRow, Rows
    <3>2. \A p \in queue' : \E q \in queue :
            /\ p = IF IsRow(q, row) THEN [q EXCEPT !.attempts = @ + 1] ELSE q
            /\ p.user = q.user /\ p.due = q.due /\ p \in Rows
            /\ q.user # row.user => p = q
      BY <2>1, <2>3, <3>1 DEF Attempted, Rows
    <3> QED BY <1>3, <2>1, <3>2 DEF DrainRow
  <2> QED BY <1>3, <2>2, <2>3 DEF DrainRow
<1>4. ASSUME NEW begun \in SUBSET Users, EvaluateReminders(begun)
      PROVE  OneRowEach' /\ DrainKnowsRows' /\ queue' \subseteq Rows
  <2>1. \A u \in Users : Reminder(u, now) \in Rows /\ Reminder(u, now).user = u
    BY DEF Reminder, Rows, TypeOK
  <2>2. queue' = queue \cup {Reminder(u, now) : u \in ToRemind} /\ stage' = "greet"
    BY <1>4 DEF EvaluateReminders
  <2>3. \A u \in ToRemind : u \in Users /\ \A q \in queue : q.user # u
    BY DEF ToRemind, Pending
  <2> QED BY <2>1, <2>2, <2>3 DEF TypeOK
<1>5. CASE Delivered
  <2>1. stage = "drain" => queue' \subseteq queue
    BY <1>5 DEF Delivered, Settled
  <2>2. stage # "drain" => queue' = queue
    BY <1>5 DEF Delivered
  <2>3. UNCHANGED <<stage, todo, now>>
    BY <1>5 DEF Delivered
  <2> QED BY <2>1, <2>2, <2>3 DEF TypeOK
<1>6. ASSUME NEW gone \in BOOLEAN, NotDelivered(gone)
      PROVE  OneRowEach' /\ DrainKnowsRows' /\ queue' \subseteq Rows
  <2>1. queue' \subseteq queue
    BY <1>6 DEF NotDelivered, Settled
  <2>2. UNCHANGED <<stage, todo, now>>
    BY <1>6 DEF NotDelivered
  <2> QED BY <2>1, <2>2 DEF TypeOK
<1>7. CASE TimePasses \/ Stall \/ Crash \/ UNCHANGED vars
  BY <1>7 DEF TimePasses, Stall, SlotEnds, Crash, Restarts, vars, tick, TypeOK, Rows
<1>8. ASSUME NEW u \in Users,
             \/ SetPreferences(u) \/ SaveSubscription(u)
             \/ \E r \in 0 .. TopN : RankMoves(u, r)
      PROVE  UNCHANGED <<queue, stage, todo, now>>
  BY <1>8 DEF SetPreferences, SaveSubscription, RankMoves
<1>9. ASSUME \/ \E u \in todo : GreetNext(u)
             \/ GreetDone \/ EndTick \/ \E item \in todo : PlaceNext(item)
      PROVE  queue' = queue /\ stage' # "drain"
  BY <1>9 DEF GreetNext, GreetDone, EndTick, PlaceNext
<1> QED BY <1>a, <1>b, <1>c, <1>2, <1>3, <1>4, <1>5, <1>6, <1>7, <1>8, <1>9 DEF Next, GamePlayed, TypeOK

(***************************************************************************)
(* The day's puzzle.                                                       *)
(***************************************************************************)

\* Who was greeted today has a row in today's log, and is not on the list.
GreetingsAreLogged ==
  /\ logged <= Today /\ (greeted # {} => logged = Today)
  /\ stage = "greet" => todo \cap greeted = {}

LEMMA GreetInit == Init => GreetingsAreLogged
<1> SUFFICES ASSUME Init PROVE GreetingsAreLogged
  OBVIOUS
<1>1. now \in 0 .. MaxTime
  BY PushConstantsOK DEF Init
<1> QED BY <1>1, TodayIsADay DEF Init, GreetingsAreLogged

LEMMA GreetStep ==
  ASSUME TypeOK, now' \in 0 .. MaxTime, GreetingsAreLogged, [Next]_vars
  PROVE  GreetingsAreLogged' /\ logged' \in Days \cup {-1} /\ greeted' \subseteq Users
<1>0. /\ now \in 0 .. MaxTime /\ logged \in Days \cup {-1} /\ greeted \subseteq Users
      /\ Today \in Days /\ Today \in Nat /\ logged \in Int
      /\ stage = "greet" => todo \subseteq Users
  BY TodayIsADay DEF TypeOK, Days
<1>1. ASSUME NEW u \in todo, GreetNext(u)
      PROVE  GreetingsAreLogged' /\ logged' \in Days \cup {-1} /\ greeted' \subseteq Users
  <2>1. UNCHANGED <<now, stage>> /\ todo' = todo \ {u} /\ stage = "greet" /\ u \in Users /\ Today' = Today
    BY <1>0, <1>1 DEF GreetNext, Today
  <2>2. \/ logged' = Today /\ greeted' = greeted \cup {u}
        \/ UNCHANGED <<logged, greeted>>
    BY <1>1 DEF GreetNext, LogToday
  <2> QED BY <1>0, <2>1, <2>2 DEF GreetingsAreLogged
<1>2. ASSUME NEW begun \in SUBSET Users, EvaluateReminders(begun)
      PROVE  GreetingsAreLogged' /\ UNCHANGED <<logged, greeted>>
  <2>1. /\ UNCHANGED <<now, logged, greeted>> /\ Today' = Today
        /\ todo' = IF logged = Today THEN {} ELSE ToGreet(begun)
    BY <1>2 DEF EvaluateReminders, history, Today
  <2> QED BY <2>1 DEF GreetingsAreLogged
<1>3. CASE TimePasses \/ Stall
  <2>1. /\ now' = now + 1 /\ UNCHANGED <<stage, todo, logged>>
        /\ greeted' = greeted \cap (IF Today' = Today THEN Users ELSE {})
    BY <1>3 DEF TimePasses, Stall, SlotEnds, Today
  <2>2. Today <= Today' /\ Today' \in Nat
    BY <1>0, <2>1, DaysGrow DEF Today
  <2> QED BY <1>0, <2>1, <2>2 DEF GreetingsAreLogged
<1>4. ASSUME \/ \E u \in Users : GamePlayed(u)
             \/ \E u \in Users : SetPreferences(u) \/ SaveSubscription(u)
             \/ \E u \in Users, r \in 0 .. TopN : RankMoves(u, r)
             \/ Delivered \/ \E gone \in BOOLEAN : NotDelivered(gone)
             \/ UNCHANGED vars
      PROVE  UNCHANGED <<now, logged, greeted, stage, todo>>
  BY <1>4, GameFacts DEF GameEnds, SetPreferences, SaveSubscription, RankMoves,
              Delivered, NotDelivered, vars, history, tick
<1>5. ASSUME \/ StartTick \/ \E row \in todo : DrainRow(row)
             \/ GreetDone \/ \E item \in todo : PlaceNext(item)
             \/ EndTick \/ Crash \/ \E u \in Users, day \in Days : CrashInGame(u, day)
      PROVE  UNCHANGED <<now, logged, greeted>> /\ stage' # "greet"
  BY <1>5, CrashFacts DEF StartTick, DrainRow, GreetDone, PlaceNext, EndTick, Crash, Restarts, history
<1>6. UNCHANGED now => Today' = Today
  BY DEF Today
<1>7. ASSUME \/ UNCHANGED <<now, logged, greeted, stage, todo>>
             \/ UNCHANGED <<now, logged, greeted>> /\ stage' # "greet"
      PROVE  GreetingsAreLogged' /\ logged' \in Days \cup {-1} /\ greeted' \subseteq Users
  BY <1>0, <1>6, <1>7 DEF GreetingsAreLogged
<1>8. CASE TimePasses \/ Stall
  BY <1>0, <1>3, <1>8 DEF TimePasses, Stall, SlotEnds
<1> QED BY <1>0, <1>1, <1>2, <1>4, <1>5, <1>7, <1>8 DEF Next, GamePlayed

(***************************************************************************)
(* Announced places.                                                       *)
(***************************************************************************)
Announcing(u) == stage = "place" /\ flight # None /\ flight.user = u

\* The slot is taken for a push on its way, for one that arrived, or empty.
SlotsAreAnnounced ==
  faults = 0 => \A u \in Users : IF Announcing(u) THEN best[u] = flight.rank
                                ELSE best[u] \in {0, told[u]}

LEMMA SlotInit == Init => SlotsAreAnnounced
BY DEF Init, SlotsAreAnnounced, Announcing

LEMMA SlotStep ==
  ASSUME TypeOK, SlotsAreAnnounced, [Next]_vars
  PROVE  SlotsAreAnnounced' /\ best' \in [Users -> 0 .. TopN] /\ told' \in [Users -> 0 .. TopN]
<1>0. /\ best \in [Users -> 0 .. TopN] /\ told \in [Users -> 0 .. TopN]
      /\ faults \in Nat /\ TopN \in Nat \ {0}
      /\ stage = "place" => todo \subseteq Slots /\ flight \in Slots \cup {None}
      /\ stage \in {"idle", "drain", "greet", "place"} /\ (stage = "idle" => flight = None)
  BY PushConstantsOK DEF TypeOK, Slots
<1>1. ASSUME NEW item \in todo, PlaceNext(item)
      PROVE  SlotsAreAnnounced' /\ best' \in [Users -> 0 .. TopN] /\ told' \in [Users -> 0 .. TopN]
  <2>0. /\ stage = "place" /\ flight = None /\ UNCHANGED <<stage, told, faults>>
        /\ item \in Slots /\ item.user \in Users /\ item.rank \in 1 .. TopN
    BY <1>0, <1>1 DEF PlaceNext, history, Slots
  <2>1. CASE best' = [best EXCEPT ![item.user] = item.rank] /\ flight' = item
    <3>1. best' \in [Users -> 0 .. TopN] /\ told' \in [Users -> 0 .. TopN] /\ flight' # None
      BY <1>0, <2>0, <2>1, PushConstantsOK DEF Slots
    <3>2. \A u \in Users : best'[u] = IF u = item.user THEN item.rank ELSE best[u]
      BY <1>0, <2>1
    <3> QED BY <1>0, <2>0, <2>1, <3>1, <3>2 DEF SlotsAreAnnounced, Announcing
  <2>2. CASE best' = [best EXCEPT ![item.user] = 0] /\ UNCHANGED flight
    BY <1>0, <2>0, <2>2 DEF SlotsAreAnnounced, Announcing
  <2>3. CASE UNCHANGED <<best, flight>>
    BY <1>0, <2>0, <2>3 DEF SlotsAreAnnounced, Announcing
  <2> QED BY <1>1, <2>1, <2>2, <2>3 DEF PlaceNext
<1>2. CASE Delivered
  <2>1. CASE stage = "place"
    <3>1. /\ flight \in Slots /\ flight.user \in Users /\ flight.rank \in 0 .. TopN
          /\ told' = [told EXCEPT ![flight.user] = flight.rank]
          /\ flight' = None /\ UNCHANGED <<best, stage, faults>>
      BY <1>0, <1>2, <2>1 DEF Delivered, Slots
    <3>2. \A u \in Users : told'[u] = IF u = flight.user THEN flight.rank ELSE told[u]
      BY <1>0, <3>1
    <3>3. flight # None /\ told' \in [Users -> 0 .. TopN] /\ best' \in [Users -> 0 .. TopN]
      BY <1>0, <1>2, <3>1 DEF Delivered
    <3> QED BY <1>0, <2>1, <3>1, <3>2, <3>3 DEF SlotsAreAnnounced, Announcing
  <2>2. CASE stage # "place"
    <3>1. told' = told /\ UNCHANGED <<best, stage, faults>>
      BY <1>2, <2>2 DEF Delivered
    <3> QED BY <1>0, <2>2, <3>1 DEF SlotsAreAnnounced, Announcing
  <2> QED BY <2>1, <2>2
<1>3. ASSUME NEW gone \in BOOLEAN, NotDelivered(gone)
      PROVE  SlotsAreAnnounced' /\ best' \in [Users -> 0 .. TopN] /\ told' \in [Users -> 0 .. TopN]
  <2>1. CASE stage = "place"
    <3>1. /\ flight \in Slots /\ flight.user \in Users /\ flight.rank \in 1 .. TopN
          /\ best' = Released(flight)
          /\ flight # None /\ flight' = None /\ UNCHANGED <<told, stage, faults>>
      BY <1>0, <1>3, <2>1 DEF NotDelivered, Slots
    <3> QED BY <1>0, <2>1, <3>1 DEF SlotsAreAnnounced, Announcing, Released
  <2>2. CASE stage # "place"
    <3>1. UNCHANGED <<best, told, stage, faults>>
      BY <1>3, <2>2 DEF NotDelivered
    <3> QED BY <1>0, <2>2, <3>1 DEF SlotsAreAnnounced, Announcing
  <2> QED BY <2>1, <2>2
<1>4. ASSUME Stall \/ Crash \/ \E u \in Users, day \in Days : CrashInGame(u, day)
      PROVE  faults' # 0 /\ UNCHANGED <<best, told>>
  <2>1. Stall \/ Restarts
    BY <1>4, CrashFacts, Zenon DEF Crash
  <2> QED BY <1>0, <2>1 DEF Stall, SlotEnds, Restarts
<1>5. ASSUME \/ \E u \in Users : GamePlayed(u)
             \/ \E u \in Users : SetPreferences(u) \/ SaveSubscription(u)
             \/ \E u \in Users, r \in 0 .. TopN : RankMoves(u, r)
             \/ UNCHANGED vars
      PROVE  UNCHANGED <<best, told, stage, flight, faults>>
  BY <1>5, GameFacts DEF GameEnds, SetPreferences, SaveSubscription, RankMoves,
              vars, history, tick
<1>6. ASSUME \/ StartTick \/ \E row \in todo : DrainRow(row)
             \/ \E begun \in SUBSET Users : EvaluateReminders(begun)
             \/ \E u \in todo : GreetNext(u)
             \/ GreetDone \/ EndTick \/ TimePasses
      PROVE  /\ UNCHANGED <<best, told, faults>>
             /\ stage = "place" => flight = None
             /\ stage' = "place" => flight' = None
  BY <1>0, <1>6 DEF StartTick, DrainRow, EvaluateReminders, GreetNext, GreetDone, EndTick, TimePasses,
                    SlotEnds, history
<1> QED BY <1>0, <1>1, <1>2, <1>3, <1>4, <1>5, <1>6 DEF Next, GamePlayed, SlotsAreAnnounced, Announcing

(***************************************************************************)
(* Streaks.                                                                *)
(***************************************************************************)

\* No reminder is due later than one scheduled now.
DueSoon == \A row \in queue : row.due <= now + ReminderDelay

\* What a drain takes for yesterday is no later day.
DrainIsLate == yesterday <= Today - 1

\* Today's first tick has not yet scheduled its reminders.
Opening == now = Today * DayLength /\ (stage = "drain" \/ (stage = "idle" /\ ~ticked))

RemindedInTime(u) == \E row \in Pending(u) : row.due < (Today + 1) * DayLength

\* Whoever came into the day with a streak, has not played and was reachable
\* all day, has been warned or will be.
Awaits(u) ==
  /\ alive[u] /\ last[u] = Today - 1 /\ ~Played(u) /\ on[u] /\ sub[u]
  /\ u \notin belated /\ u \notin troubled
Covered(u) == u \in warned \/ Opening \/ RemindedInTime(u)
StreaksAreCovered == \A u \in Users : Awaits(u) => Covered(u)

LEMMA DayBounds ==
  ASSUME NEW t \in Nat
  PROVE  Day(t) \in Nat /\ Day(t) * DayLength <= t /\ t < (Day(t) + 1) * DayLength
BY PushConstantsOK DEF Day

LEMMA DayIs ==
  ASSUME NEW t \in Nat, NEW d \in Nat, d * DayLength <= t, t < (d + 1) * DayLength
  PROVE  Day(t) = d
<1>1. DayLength \in Nat \ {0} /\ Day(t) \in Nat
  BY PushConstantsOK, DayBounds
<1>2. ASSUME NEW a \in Nat, NEW b \in Nat, a < b PROVE (a + 1) * DayLength <= b * DayLength
  <2>1. PICK c \in Nat : b = a + 1 + c
    <3>1. b - a - 1 \in Nat /\ b = a + 1 + (b - a - 1)
      BY <1>2
    <3> QED BY <3>1
  <2>2. b * DayLength = (a + 1) * DayLength + c * DayLength /\ c * DayLength \in Nat
    BY <1>1, <2>1
  <2>3. (a + 1) * DayLength \in Nat
    BY <1>1
  <2> QED BY <2>2, <2>3
<1>3. /\ Day(t) * DayLength \in Nat /\ (Day(t) + 1) * DayLength \in Nat
      /\ d * DayLength \in Nat /\ (d + 1) * DayLength \in Nat
  BY <1>1
<1>4. Day(t) * DayLength <= t /\ t < (Day(t) + 1) * DayLength
  BY DayBounds
<1>5. ~(Day(t) < d) /\ ~(d < Day(t))
  BY <1>1, <1>2, <1>3, <1>4
<1> QED BY <1>1, <1>5

\* The slot after one of today's is of today, or the first of the next day.
LEMMA NextSlot ==
  ASSUME NEW t \in Nat
  PROVE  \/ Day(t + 1) = Day(t)
         \/ /\ Day(t + 1) = Day(t) + 1
            /\ t + 1 = (Day(t) + 1) * DayLength /\ t + 1 = Day(t + 1) * DayLength
<1> DEFINE d == Day(t)
<1>1. d \in Nat /\ DayLength \in Nat \ {0} /\ d * DayLength <= t /\ t < (d + 1) * DayLength
  BY DayBounds, PushConstantsOK
<1>2. /\ d * DayLength \in Nat /\ (d + 1) * DayLength \in Nat
      /\ ((d + 1) + 1) * DayLength = (d + 1) * DayLength + DayLength
  BY <1>1
<1>3. CASE t + 1 < (d + 1) * DayLength
  <2>1. d * DayLength <= t + 1
    BY <1>1, <1>2
  <2> QED BY <1>1, <1>3, <2>1, DayIs
<1>4. CASE t + 1 = (d + 1) * DayLength
  <2>1. (d + 1) * DayLength <= t + 1 /\ t + 1 < ((d + 1) + 1) * DayLength /\ d + 1 \in Nat
    BY <1>1, <1>2, <1>4
  <2>2. Day(t + 1) = d + 1
    <3> HIDE DEF d
    <3> QED BY <2>1, DayIs
  <2> QED BY <1>4, <2>2
<1> QED BY <1>1, <1>2, <1>3, <1>4

\* The numbers the steps below compare.
LEMMA StreakNumbers ==
  ASSUME TypeOK, NEW u \in Users
  PROVE  /\ now \in Nat /\ Today \in Nat /\ Today \in Days /\ yesterday \in Int
         /\ last[u] \in Int
         /\ ReminderDelay \in Nat /\ ReminderDelay < DayLength /\ DayLength \in Nat \ {0}
<1>1. now \in 0 .. MaxTime /\ now \in Nat
  BY PushConstantsOK DEF TypeOK
<1>2. Today \in Nat /\ Today \in Days /\ Day(MaxTime) \in Nat
  BY <1>1, TodayIsADay
<1>3. Days \cup {-1} \subseteq Int
  BY DEF Days
<1>4. last[u] \in Days \cup {-1} /\ yesterday \in -1 .. Day(MaxTime)
  BY DEF TypeOK
<1> QED BY <1>1, <1>2, <1>3, <1>4, PushConstantsOK

LEMMA StreakInit == Init => DueSoon /\ DrainIsLate /\ StreaksAreCovered
<1> SUFFICES ASSUME Init PROVE DueSoon /\ DrainIsLate /\ StreaksAreCovered
  OBVIOUS
<1>1. Today = 0 /\ 0 * DayLength = 0
  <2>1. 0 <= 0 /\ 0 * DayLength = 0 /\ (0 + 1) * DayLength = DayLength /\ 0 < DayLength
    BY PushConstantsOK
  <2> QED BY <2>1, DayIs DEF Init, Today
<1>2. queue = {} /\ yesterday = -1
  BY DEF Init
<1>3. Opening
  BY <1>1 DEF Init, Opening
<1> QED BY <1>1, <1>2, <1>3 DEF DueSoon, DrainIsLate, StreaksAreCovered, Covered

LEMMA DueSoonStep == ASSUME TypeOK, DueSoon, [Next]_vars PROVE DueSoon'
<1>0. now \in Nat /\ ReminderDelay \in Nat /\ queue \subseteq Rows
  BY PushConstantsOK DEF TypeOK
<1>1. \A u \in Users : Reminder(u, now).due = now + ReminderDelay
  BY DEF Reminder
<1>2. ASSUME NEW u \in Users, GamePlayed(u) \/ \E day \in Days : CrashInGame(u, day) PROVE DueSoon'
  <2>1. now' = now /\ \A p \in queue' : p \in queue \/ p = Reminder(u, now)
    <3>1. now' = now /\ queue' \in {queue, queue \ Pending(u), WithNewReminder(u)}
      BY <1>2, GameFacts, CrashFacts DEF GameEnds, Restarts
    <3> QED BY <3>1 DEF WithNewReminder
  <2>2. now + ReminderDelay <= now' + ReminderDelay
    BY <1>0, <2>1
  <2>3. \A p \in queue' : p.due <= now' + ReminderDelay
    BY <1>1, <2>1, <2>2 DEF DueSoon
  <2> QED BY <2>3 DEF DueSoon
<1>3. ASSUME NEW begun \in SUBSET Users, EvaluateReminders(begun) PROVE DueSoon'
  <2>1. now' = now /\ \A p \in queue' : p \in queue \/ \E u \in Users : p = Reminder(u, now)
    BY <1>3 DEF EvaluateReminders, ToRemind
  <2>2. now + ReminderDelay <= now' + ReminderDelay
    BY <1>0, <2>1
  <2>3. \A p \in queue' : p.due <= now' + ReminderDelay
    BY <1>1, <2>1, <2>2 DEF DueSoon
  <2> QED BY <2>3 DEF DueSoon
<1>4. ASSUME NEW row \in todo, DrainRow(row) PROVE DueSoon'
  <2>1. now' = now /\ (queue' \subseteq queue \/ queue' = Attempted(row))
    BY <1>4 DEF DrainRow, Settled
  <2>2. CASE queue' = Attempted(row)
    <3>1. \A p \in queue' : \E q \in queue : p.due = q.due
      BY <1>0, <2>2 DEF Attempted, Rows
    <3> QED BY <2>1, <3>1 DEF DueSoon
  <2> QED BY <2>1, <2>2 DEF DueSoon
<1>5. CASE TimePasses \/ Stall
  <2>1. queue' = queue /\ now' = now + 1
    BY <1>5 DEF TimePasses, Stall, SlotEnds
  <2> QED BY <1>0, <2>1 DEF DueSoon, Rows
<1>6. ASSUME Delivered \/ \E gone \in BOOLEAN : NotDelivered(gone)
      PROVE  now' = now /\ queue' \subseteq queue
  BY <1>6 DEF Delivered, NotDelivered, Settled
<1>7. ASSUME \/ \E u \in Users : SetPreferences(u) \/ SaveSubscription(u)
             \/ \E u \in Users, r \in 0 .. TopN : RankMoves(u, r)
             \/ StartTick \/ \E u \in todo : GreetNext(u)
             \/ GreetDone \/ \E item \in todo : PlaceNext(item)
             \/ EndTick \/ Crash \/ UNCHANGED vars
      PROVE  now' = now /\ queue' = queue
  BY <1>7 DEF SetPreferences, SaveSubscription, RankMoves, StartTick, GreetNext, GreetDone, PlaceNext,
              EndTick, Crash, Restarts, vars
<1>8. now' = now /\ queue' \subseteq queue => DueSoon'
  BY DEF DueSoon
<1> QED BY <1>2, <1>3, <1>4, <1>5, <1>6, <1>7, <1>8 DEF Next, GamePlayed

LEMMA DrainIsLateStep == ASSUME TypeOK, DrainIsLate, [Next]_vars PROVE DrainIsLate'
<1>0. now \in Nat /\ Today \in Nat /\ yesterday \in Int
  <2>1. now \in 0 .. MaxTime /\ yesterday \in -1 .. Day(MaxTime)
    BY DEF TypeOK
  <2> QED BY <2>1, TodayIsADay, PushConstantsOK
<1>1. CASE TimePasses \/ Stall
  <2>1. now' = now + 1 /\ yesterday' = yesterday
    BY <1>1 DEF TimePasses, Stall, SlotEnds
  <2>2. Today' = Today \/ Today' = Today + 1
    BY <1>0, <2>1, NextSlot DEF Today
  <2>3. yesterday <= Today - 1
    BY DEF DrainIsLate
  <2>4. yesterday' <= Today' - 1
    BY <1>0, <2>1, <2>2, <2>3
  <2> QED BY <2>4 DEF DrainIsLate
<1>2. ASSUME StartTick \/ \E begun \in SUBSET Users : EvaluateReminders(begun)
      PROVE  now' = now /\ yesterday' \in {-1, Today - 1}
  BY <1>2 DEF StartTick, EvaluateReminders
<1>3. ASSUME \/ \E u \in Users : GamePlayed(u)
             \/ \E u \in Users : SetPreferences(u) \/ SaveSubscription(u)
             \/ \E u \in Users, r \in 0 .. TopN : RankMoves(u, r)
             \/ \E row \in todo : DrainRow(row) \/ \E u \in todo : GreetNext(u)
             \/ GreetDone \/ \E item \in todo : PlaceNext(item)
             \/ EndTick \/ Delivered \/ \E gone \in BOOLEAN : NotDelivered(gone)
             \/ UNCHANGED vars
      PROVE  now' = now /\ yesterday' = yesterday
  BY <1>3, GameFacts DEF GameEnds, SetPreferences, SaveSubscription, RankMoves,
              DrainRow, GreetNext, GreetDone, PlaceNext, EndTick, Delivered, NotDelivered, vars, tick
<1>4. now' = now => Today' = Today
  BY DEF Today
<1>5. ASSUME Crash \/ \E u \in Users, day \in Days : CrashInGame(u, day)
      PROVE  now' = now /\ yesterday' = -1
  BY <1>5, CrashFacts DEF Crash, Restarts
<1>6. ASSUME now' = now, yesterday' \in {-1, Today - 1, yesterday} PROVE DrainIsLate'
  BY <1>0, <1>4, <1>6 DEF DrainIsLate
<1>7. \/ TimePasses \/ Stall
      \/ now' = now /\ yesterday' \in {-1, Today - 1, yesterday}
  BY <1>2, <1>3, <1>5, Zenon DEF Next, GamePlayed
<1> QED BY <1>1, <1>6, <1>7

LEMMA CoveredStep ==
  ASSUME TypeOK, DueSoon, DrainIsLate, StreaksAreCovered, [Next]_vars
  PROVE  StreaksAreCovered'
<1> SUFFICES ASSUME NEW u \in Users, Awaits(u)' PROVE Covered(u)'
  BY DEF StreaksAreCovered
<1>0. /\ now \in Nat /\ Today \in Nat /\ last[u] \in Int
      /\ ReminderDelay \in Nat /\ ReminderDelay < DayLength /\ DayLength \in Nat \ {0}
      /\ yesterday <= Today - 1 /\ yesterday \in Int
  BY StreakNumbers DEF DrainIsLate
<1>a. Awaits(u) => Covered(u)
  BY DEF StreaksAreCovered
<1>t. now' = now => Today' = Today
  BY DEF Today
<1>z. ASSUME NEW us, u \in us, TroubleFor(us) PROVE FALSE
  BY <1>z DEF TroubleFor, Awaits
\* Nothing that matters to u is touched.
<1>q. ASSUME now' = now, Awaits(u),
             u \in warned => u \in warned',
             Opening => Opening',
             \A row \in Pending(u) : row \in queue'
      PROVE  Covered(u)'
  <2>1. Today' = Today
    BY <1>t, <1>q
  <2>2. RemindedInTime(u) => RemindedInTime(u)'
    BY <1>q, <2>1 DEF RemindedInTime, Pending
  <2> QED BY <1>a, <1>q, <2>1, <2>2 DEF Covered
\* A play never makes a streak end today that did not before.
<1>p. ASSUME NEW v \in Users, Streak(v), now' = now, UNCHANGED <<on, sub, troubled>>,
             \E days \in SUBSET (0 .. Today) : Completed(v, days) \/ UNCHANGED plays
      PROVE  Awaits(u) /\ ~(u = v /\ \E day : Counted(v, day))
  <2>1. ~(u = v /\ \E day : Counted(v, day))
    <3> SUFFICES ASSUME NEW day, u = v, Counted(u, day) PROVE FALSE
      OBVIOUS
    <3>1. last'[u] = day /\ (day # Today => u \in belated')
      BY DEF Counted, TypeOK
    <3>2. last'[u] = Today - 1 /\ u \notin belated'
      BY <1>t, <1>p DEF Awaits
    <3> QED BY <1>0, <3>1, <3>2
  <2>2. last'[u] = last[u] /\ (alive'[u] <=> alive[u]) /\ belated \subseteq belated'
    <3>1. CASE Uncounted
      BY <3>1 DEF Uncounted
    <3>2. ASSUME NEW day \in 0 .. Today, Counted(v, day)
          PROVE  last'[u] = last[u] /\ (alive'[u] <=> alive[u]) /\ belated \subseteq belated'
      <4>1. u # v
        BY <2>1, <3>2
      <4>2. last'[u] = last[u] /\ alive'[u] = alive[u]
        BY <3>2, <4>1 DEF Counted, TypeOK
      <4>3. belated \subseteq belated'
        BY <3>2 DEF Counted
      <4> QED BY <4>2, <4>3
    <3> QED BY <1>p, <3>1, <3>2 DEF Streak
  <2>3. Today \notin plays'[u] => Today \notin plays[u]
    BY <1>p DEF Completed, TypeOK
  <2>4. ~Played(u)
    BY <1>t, <1>p, <2>3 DEF Awaits, Played
  <2>5. alive'[u] /\ last'[u] = Today - 1 /\ on[u] /\ sub[u] /\ u \notin belated' /\ u \notin troubled
    BY <1>t, <1>p DEF Awaits
  <2> QED BY <2>1, <2>2, <2>4, <2>5 DEF Awaits
<1>1. ASSUME NEW v \in Users, GamePlayed(v) PROVE Covered(u)'
  <2>1. /\ GameEnds /\ queue' \in {queue, WithNewReminder(v)} /\ Streak(v)
        /\ \E days \in SUBSET (0 .. Today) : Completed(v, days)
    BY <1>1, GameFacts
  <2>2. now' = now /\ stage' = stage /\ ticked' = FALSE /\ UNCHANGED <<on, sub, warned, troubled>>
    BY <2>1 DEF GameEnds
  <2>3. Awaits(u) /\ ~(u = v /\ \E day : Counted(v, day))
    BY <1>p, <2>1, <2>2
  <2>4. \A row \in Pending(u) : row \in queue'
    <3>1. CASE u # v
      BY <2>1, <3>1 DEF WithNewReminder, Pending
    <3>2. CASE u = v
      <4>1. ~PlayDaily(v, Today) /\ \A day \in Days : ~PlayDaily(v, day)
        BY <2>3, <3>2 DEF PlayDaily
      <4>2. queue' = queue
        BY <1>1, <4>1 DEF GamePlayed, PlayInRoom, FinishClaimed, ClaimPlays
      <4> QED BY <4>2 DEF Pending
    <3> QED BY <3>1, <3>2
  <2>5. Opening => Opening'
    BY <1>t, <2>2 DEF Opening
  <2> QED BY <1>q, <2>2, <2>3, <2>4, <2>5
<1>b. ASSUME NEW v \in Users, NEW day \in Days, CrashInGame(v, day) PROVE Covered(u)'
  <2>1. /\ Restarts /\ queue' \in {queue, queue \ Pending(v), WithNewReminder(v)} /\ Streak(v)
        /\ queue' = queue \/ Counted(v, day)
        /\ \E days \in SUBSET (0 .. Today) : Completed(v, days) \/ UNCHANGED plays
    BY <1>b, CrashFacts
  <2>2. now' = now /\ stage' = "idle" /\ ticked' = FALSE /\ UNCHANGED <<on, sub, warned, troubled>>
    BY <2>1 DEF Restarts
  <2>3. Awaits(u) /\ ~(u = v /\ \E d : Counted(v, d))
    BY <1>p, <2>1, <2>2
  <2>4. \A row \in Pending(u) : row \in queue'
    BY <2>1, <2>3 DEF WithNewReminder, Pending
  <2>5. Opening => Opening'
    BY <1>t, <2>2 DEF Opening
  <2> QED BY <1>q, <2>2, <2>3, <2>4, <2>5
<1>2. ASSUME NEW v \in Users, SetPreferences(v) \/ SaveSubscription(v) PROVE Covered(u)'
  <2>1. /\ now' = now /\ stage' = stage /\ ticked' = FALSE /\ UNCHANGED <<warned, last, alive, plays, belated, queue>>
        /\ TroubleFor({v})
    BY <1>2 DEF SetPreferences, SaveSubscription
  <2>2. u # v
    BY <1>z, <2>1
  <2>3. on'[u] = on[u] /\ sub'[u] = sub[u]
    BY <1>2, <2>2 DEF SetPreferences, SaveSubscription, TypeOK
  <2>4. u \notin troubled
    BY <2>1 DEF TroubleFor, Awaits
  <2>5. Awaits(u)
    BY <1>t, <2>1, <2>3, <2>4 DEF Awaits, Played
  <2>6. Opening => Opening'
    BY <1>t, <2>1 DEF Opening
  <2> QED BY <1>q, <2>1, <2>5, <2>6 DEF Pending
<1>3. ASSUME NEW v \in Users, NEW r \in 0 .. TopN, RankMoves(v, r) PROVE Covered(u)'
  <2>1. now' = now /\ stage' = stage /\ ticked' = FALSE
        /\ UNCHANGED <<warned, last, alive, plays, on, sub, queue, belated, troubled>>
    BY <1>3 DEF RankMoves, accounts, history
  <2>2. Awaits(u) /\ (Opening => Opening')
    BY <1>t, <2>1 DEF Awaits, Played, Opening
  <2> QED BY <1>q, <2>1, <2>2 DEF Pending
<1>4. CASE StartTick
  <2>1. now' = now /\ stage' = "drain" /\ UNCHANGED <<warned, last, plays, on, sub, queue, belated, troubled>>
    BY <1>4 DEF StartTick, history
  <2>2. alive'[u] => alive[u]
    BY <1>4, Zenon DEF StartTick
  <2>3. Awaits(u) /\ (Opening => Opening')
    BY <1>t, <2>1, <2>2 DEF Awaits, Played, Opening
  <2> QED BY <1>q, <2>1, <2>3 DEF Pending
<1>5. ASSUME NEW row \in todo, DrainRow(row) PROVE Covered(u)'
  <2>1. /\ now' = now /\ stage' = stage /\ ticked' = ticked /\ stage = "drain"
        /\ UNCHANGED <<warned, last, alive, plays, on, sub, belated>>
        /\ row \in Rows /\ queue \subseteq Rows
    BY <1>5 DEF DrainRow, accounts, TypeOK
  <2>2. troubled' = troubled \/ TroubleFor({row.user})
    BY <1>5, Zenon DEF DrainRow
  <2>3. u \notin troubled
    BY <2>2 DEF TroubleFor, Awaits
  <2>4. Awaits(u)
    BY <1>t, <2>1, <2>3 DEF Awaits, Played
  <2>5. Opening => Opening'
    BY <1>t, <2>1 DEF Opening
  <2>6. row.user = u => ~Suppressed(row.user)
    <3>1. last[u] = Today - 1 /\ alive[u] /\ ~Played(u)
      BY <2>4 DEF Awaits
    <3>2. ~(last[u] < yesterday)
      BY <1>0, <3>1
    <3> QED BY <3>1, <3>2 DEF Suppressed
  <2>7. CASE row.user = u
    <3>1. ~TroubleFor({row.user})
      BY <1>z, <2>1, <2>7
    <3>2. queue' = Attempted(row)
      BY <1>5, <2>6, <2>7, <3>1 DEF DrainRow
    <3>3. \A q \in Pending(u) : \E p \in Pending(u)' : p.due = q.due
      <4> SUFFICES ASSUME NEW q \in Pending(u) PROVE \E p \in Pending(u)' : p.due = q.due
        OBVIOUS
      <4> DEFINE p == IF IsRow(q, row) THEN [q EXCEPT !.attempts = @ + 1] ELSE q
      <4>1. p \in queue' /\ q \in Rows /\ q.user = u
        BY <2>1, <3>2 DEF Attempted, Pending
      <4>2. p.user = u /\ p.due = q.due
        BY <4>1 DEF Rows
      <4> QED BY <4>1, <4>2 DEF Pending
    <3>4. RemindedInTime(u) => RemindedInTime(u)'
      BY <1>t, <2>1, <3>3 DEF RemindedInTime
    <3> QED BY <1>a, <1>t, <2>1, <2>4, <2>5, <3>4 DEF Covered
  <2>8. CASE row.user # u
    <3>1. queue' = Settled(row) \/ queue' = Attempted(row)
      BY <1>5 DEF DrainRow
    <3>2. \A q \in Pending(u) : q \in Settled(row) /\ q \in Attempted(row)
      BY <2>8 DEF Pending, Settled, Attempted, IsRow
    <3> QED BY <1>q, <2>1, <2>4, <2>5, <3>1, <3>2
  <2> QED BY <2>7, <2>8
<1>6. ASSUME NEW begun \in SUBSET Users, EvaluateReminders(begun) PROVE Covered(u)'
  <2>1. /\ now' = now /\ queue' = queue \cup {Reminder(v, now) : v \in ToRemind}
        /\ UNCHANGED <<warned, last, alive, plays, on, sub, belated, troubled>>
    BY <1>6 DEF EvaluateReminders, accounts, history
  <2>2. Awaits(u)
    BY <1>t, <2>1 DEF Awaits, Played
  <2>3. CASE Opening
    <3>1. now = Today * DayLength /\ now + ReminderDelay < (Today + 1) * DayLength
      <4>1. Today * DayLength \in Nat /\ (Today + 1) * DayLength = Today * DayLength + DayLength
        BY <1>0
      <4> QED BY <1>0, <2>3, <4>1 DEF Opening
    <3>2. CASE Pending(u) = {}
      <4>1. u \in ToRemind
        BY <1>0, <2>2, <3>2 DEF ToRemind, Awaits
      <4>2. Reminder(u, now) \in Pending(u)'
        BY <2>1, <4>1 DEF Pending, Reminder
      <4> QED BY <1>t, <2>1, <3>1, <4>2 DEF Covered, RemindedInTime, Reminder
    <3>3. CASE Pending(u) # {}
      <4>1. PICK row \in Pending(u) : TRUE
        BY <3>3
      <4>2. row \in Pending(u)' /\ row.due <= now + ReminderDelay /\ row.due \in Int
        BY <2>1, <4>1 DEF Pending, DueSoon, TypeOK, Rows
      <4>3. (Today + 1) * DayLength \in Int
        BY <1>0
      <4>4. row.due < (Today + 1) * DayLength
        BY <1>0, <3>1, <4>2, <4>3
      <4> QED BY <1>t, <2>1, <4>2, <4>4 DEF Covered, RemindedInTime
    <3> QED BY <3>2, <3>3
  <2>4. CASE ~Opening
    BY <1>q, <2>1, <2>2, <2>4 DEF Pending
  <2> QED BY <2>3, <2>4
<1>7. CASE Delivered
  <2>1. /\ now' = now /\ UNCHANGED <<stage, ticked, last, alive, plays, on, sub, belated, troubled>>
        /\ queue' = IF stage = "drain" THEN Settled(flight) ELSE queue
        /\ warned' = IF stage = "drain" THEN warned \cup {flight.user} ELSE warned
    BY <1>7 DEF Delivered, accounts, tick
  <2>2. Awaits(u) /\ (Opening => Opening')
    BY <1>t, <2>1 DEF Awaits, Played, Opening
  <2>3. u \in warned => u \in warned'
    BY <2>1
  <2>4. CASE stage = "drain" /\ flight.user = u
    BY <2>1, <2>4 DEF Covered
  <2>5. CASE ~(stage = "drain" /\ flight.user = u)
    <3>1. \A row \in Pending(u) : row \in queue'
      BY <2>1, <2>5 DEF Pending, Settled, IsRow
    <3> QED BY <1>q, <2>1, <2>2, <2>3, <3>1
  <2> QED BY <2>4, <2>5
<1>8. ASSUME NEW gone \in BOOLEAN, NotDelivered(gone) PROVE Covered(u)'
  <2>1. /\ now' = now /\ UNCHANGED <<stage, ticked, last, alive, plays, on, belated, warned>>
        /\ queue' = IF stage = "drain" /\ GivenUp(flight) THEN Settled(flight) ELSE queue
        /\ TroubleFor({Recipient})
    BY <1>8 DEF NotDelivered, accounts, tick
  <2>2. u # Recipient
    BY <1>z, <2>1
  <2>3. sub'[u] = sub[u]
    <3>1. sub' = sub \/ sub' = [sub EXCEPT ![Recipient] = FALSE]
      BY <1>8, Zenon DEF NotDelivered
    <3> QED BY <2>2, <3>1 DEF TypeOK
  <2>4. u \notin troubled
    BY <2>1 DEF TroubleFor, Awaits
  <2>5. Awaits(u) /\ (Opening => Opening')
    BY <1>t, <2>1, <2>3, <2>4 DEF Awaits, Played, Opening
  <2>6. \A row \in Pending(u) : row \in queue'
    BY <2>1, <2>2 DEF Pending, Settled, IsRow, Recipient
  <2> QED BY <1>q, <2>1, <2>5, <2>6
<1>9. CASE TimePasses
  <2>1. /\ now' = now + 1 /\ stage = "idle" /\ stage' = "idle" /\ ticked = TRUE /\ ticked' = FALSE
        /\ UNCHANGED <<last, alive, plays, on, sub, queue>>
    BY <1>9 DEF TimePasses, SlotEnds, accounts, TypeOK
  <2>2. \/ Today' = Today
        \/ Today' = Today + 1 /\ now' = Today' * DayLength
    BY <1>0, <2>1, NextSlot DEF Today
  <2>3. CASE Today' = Today
    <3>1. Day(now + 1) = Today
      BY <2>1, <2>3 DEF Today
    <3>2. UNCHANGED <<warned, belated, troubled>>
      BY <1>9, <3>1 DEF TimePasses, SlotEnds, TypeOK
    <3>3. Awaits(u) /\ ~Opening
      BY <2>1, <2>3, <3>2 DEF Awaits, Played, Opening
    <3> QED BY <1>a, <2>1, <2>3, <3>2, <3>3 DEF Covered, RemindedInTime, Pending
  <2>4. CASE now' = Today' * DayLength
    BY <2>1, <2>4 DEF Covered, Opening
  <2> QED BY <2>2, <2>3, <2>4
<1>10. ASSUME Stall PROVE FALSE
  BY <1>10 DEF Stall, Awaits
<1>11. CASE Crash
  <2>1. now' = now /\ stage' = "idle" /\ ticked' = FALSE
        /\ UNCHANGED <<last, alive, plays, on, sub, queue, warned, belated, troubled>>
    BY <1>11 DEF Crash, Restarts, Uncounted
  <2>2. Awaits(u) /\ (Opening => Opening')
    BY <1>t, <2>1 DEF Awaits, Played, Opening
  <2> QED BY <1>q, <2>1, <2>2 DEF Pending
<1>12. ASSUME \/ \E v \in todo : GreetNext(v)
              \/ GreetDone \/ \E item \in todo : PlaceNext(item)
              \/ EndTick
       PROVE  Covered(u)'
  <2>1. /\ now' = now /\ UNCHANGED <<last, alive, plays, on, sub, warned, belated, troubled, queue>>
        /\ stage \in {"greet", "place"}
    BY <1>12 DEF GreetNext, GreetDone, PlaceNext, EndTick, accounts, history
  <2>2. Awaits(u) /\ ~Opening
    BY <1>t, <2>1 DEF Awaits, Played, Opening
  <2> QED BY <1>q, <2>1, <2>2 DEF Pending
<1>13. CASE UNCHANGED vars
  <2>1. UNCHANGED <<now, last, alive, plays, on, sub, warned, belated, troubled, queue, stage, ticked>>
    BY <1>13 DEF vars, accounts, history, tick
  <2>2. Awaits(u) /\ (Opening => Opening')
    BY <1>t, <2>1 DEF Awaits, Played, Opening
  <2> QED BY <1>q, <2>1, <2>2 DEF Pending
<1> QED BY <1>1, <1>2, <1>3, <1>4, <1>5, <1>6, <1>7, <1>8, <1>9, <1>10, <1>11, <1>12, <1>13, <1>b
        DEF Next, GamePlayed

(***************************************************************************)
(* Types.                                                                  *)
(***************************************************************************)
ClockOK ==
  /\ now \in 0 .. MaxTime /\ moves \in 0 .. MaxMoves /\ faults \in 0 .. MaxFaults
  /\ rank \in [Users -> 0 .. TopN]

LEMMA ClockStep ==
  ASSUME TypeOK, [Next]_vars
  PROVE  ClockOK'
<1> USE PushConstantsOK DEF TypeOK, ClockOK
<1>1. ASSUME NEW u \in Users, NEW r \in 0 .. TopN, RankMoves(u, r)
      PROVE  ClockOK'
  BY <1>1 DEF RankMoves
<1>2. ASSUME TimePasses PROVE ClockOK'
  BY <1>2 DEF TimePasses, SlotEnds
<1>3. ASSUME Stall PROVE ClockOK'
  BY <1>3 DEF Stall, SlotEnds
<1>4. ASSUME Crash \/ \E u \in Users, day \in Days : CrashInGame(u, day) PROVE ClockOK'
  <2>1. Restarts
    BY <1>4, CrashFacts, Zenon DEF Crash
  <2> QED BY <2>1 DEF Restarts
<1>5. ASSUME NEW u \in Users, SetPreferences(u) \/ SaveSubscription(u)
      PROVE  ClockOK'
  BY <1>5 DEF SetPreferences, SaveSubscription
<1>6. ASSUME \/ \E u \in Users : GamePlayed(u)
             \/ StartTick \/ \E row \in todo : DrainRow(row)
             \/ \E begun \in SUBSET Users : EvaluateReminders(begun)
             \/ \E u \in todo : GreetNext(u)
             \/ GreetDone \/ EndTick \/ \E item \in todo : PlaceNext(item)
             \/ Delivered \/ \E gone \in BOOLEAN : NotDelivered(gone)
             \/ UNCHANGED vars
      PROVE  UNCHANGED <<now, moves, faults, rank>>
  BY <1>6, GameFacts DEF GameEnds, StartTick, DrainRow, EvaluateReminders,
              GreetNext, GreetDone, PlaceNext, EndTick, Delivered, NotDelivered, vars
<1>7. UNCHANGED <<now, moves, faults, rank>> => ClockOK'
  OBVIOUS
<1> QED BY <1>1, <1>2, <1>3, <1>4, <1>5, <1>6, <1>7 DEF Next, GamePlayed

LEMMA TickedStep == ASSUME TypeOK, [Next]_vars PROVE ticked' \in BOOLEAN
<1>1. ticked' = ticked \/ ticked' = FALSE \/ ticked' = TRUE
  BY Zenon DEF Next, PlayDaily, PlayInRoom, FinishClaimed, ClaimPlays, GameEnds, CrashInGame, SetPreferences, SaveSubscription, RankMoves,
               StartTick, DrainRow, EvaluateReminders, GreetNext, GreetDone, PlaceNext, EndTick,
               Delivered, NotDelivered, TimePasses, Stall, Crash, Restarts, vars, tick
<1>2. ticked \in BOOLEAN
  BY Zenon DEF TypeOK
<1> QED BY <1>1, <1>2, Zenon

LEMMA PlayersStep ==
  ASSUME TypeOK, [Next]_vars
  PROVE  /\ last' \in [Users -> Days \cup {-1}] /\ alive' \in [Users -> BOOLEAN]
         /\ plays' \in [Users -> SUBSET Days]
         /\ on' \in [Users -> BOOLEAN] /\ sub' \in [Users -> BOOLEAN]
<1> USE DEF TypeOK
<1>0. 0 .. Today \subseteq Days
  BY TodayIsADay DEF Days
<1>1. ASSUME NEW u \in Users, Streak(u)
      PROVE  last' \in [Users -> Days \cup {-1}] /\ alive' \in [Users -> BOOLEAN]
  <2>1. CASE Uncounted
    <3>1. UNCHANGED <<last, alive>>
      BY <2>1 DEF Uncounted
    <3> QED BY <3>1, Zenon
  <2>2. ASSUME NEW day \in 0 .. Today, Counted(u, day)
        PROVE  last' \in [Users -> Days \cup {-1}] /\ alive' \in [Users -> BOOLEAN]
    <3>1. last' = [last EXCEPT ![u] = day] /\ alive' = [alive EXCEPT ![u] = TRUE]
      BY <2>2 DEF Counted
    <3>2. last' \in [Users -> Days \cup {-1}]
      BY <1>0, <3>1
    <3>3. alive' \in [Users -> BOOLEAN]
      BY <3>1, Zenon
    <3> QED BY <3>2, <3>3
  <2> QED BY <1>1, <2>1, <2>2, Zenon DEF Streak
<1>a. ASSUME NEW u \in Users, NEW days \in SUBSET (0 .. Today), Completed(u, days) \/ UNCHANGED plays
      PROVE  plays' \in [Users -> SUBSET Days]
  BY <1>0, <1>a DEF Completed
<1>b. ASSUME NEW u \in Users, GamePlayed(u) \/ \E day \in Days : CrashInGame(u, day)
      PROVE  /\ last' \in [Users -> Days \cup {-1}] /\ alive' \in [Users -> BOOLEAN]
             /\ plays' \in [Users -> SUBSET Days] /\ UNCHANGED <<on, sub>>
  <2>1. CASE GamePlayed(u)
    <3>1. /\ Streak(u) /\ \E days \in SUBSET (0 .. Today) : Completed(u, days)
          /\ UNCHANGED <<on, sub>>
      BY <2>1, GameFacts DEF GameEnds
    <3> QED BY <1>1, <1>a, <3>1, Zenon
  <2>2. CASE \E day \in Days : CrashInGame(u, day)
    <3>1. /\ Streak(u) /\ \E days \in SUBSET (0 .. Today) : Completed(u, days) \/ UNCHANGED plays
          /\ UNCHANGED <<on, sub>>
      BY <2>2, CrashFacts DEF Restarts
    <3> QED BY <1>1, <1>a, <3>1, Zenon
  <2> QED BY <1>b, <2>1, <2>2
<1>2. ASSUME NEW u \in Users, SetPreferences(u) \/ SaveSubscription(u)
      PROVE  on' \in [Users -> BOOLEAN] /\ sub' \in [Users -> BOOLEAN] /\ UNCHANGED <<last, alive, plays>>
  <2>1. \/ on' = [on EXCEPT ![u] = ~@] /\ sub' = sub
        \/ on' = on /\ sub' = [sub EXCEPT ![u] = TRUE]
    BY <1>2, Zenon DEF SetPreferences, SaveSubscription
  <2>2. UNCHANGED <<last, alive, plays>>
    BY <1>2 DEF SetPreferences, SaveSubscription
  <2> QED BY <2>1, <2>2, Zenon
<1>3. ASSUME NEW gone \in BOOLEAN, NotDelivered(gone)
      PROVE  sub' \in [Users -> BOOLEAN] /\ UNCHANGED <<last, alive, plays, on>>
  <2>1. sub' = sub \/ sub' = [sub EXCEPT ![Recipient] = FALSE]
    BY <1>3, Zenon DEF NotDelivered
  <2>2. UNCHANGED <<last, alive, plays, on>>
    BY <1>3 DEF NotDelivered
  <2> QED BY <2>1, <2>2, Zenon
<1>4. CASE StartTick
  <2>1. alive' = [u \in Users |-> alive[u] /\ last[u] >= Today - 1] /\ UNCHANGED <<last, plays, on, sub>>
    BY <1>4 DEF StartTick
  <2> QED BY <2>1, Zenon
<1>5. ASSUME \/ \E u \in Users, r \in 0 .. TopN : RankMoves(u, r)
             \/ \E row \in todo : DrainRow(row)
             \/ \E begun \in SUBSET Users : EvaluateReminders(begun)
             \/ \E u \in todo : GreetNext(u)
             \/ GreetDone \/ \E item \in todo : PlaceNext(item)
             \/ EndTick \/ Delivered \/ TimePasses \/ Stall \/ Crash
             \/ UNCHANGED vars
      PROVE  UNCHANGED <<last, alive, plays, on, sub>>
  BY <1>5 DEF RankMoves, DrainRow, EvaluateReminders, GreetNext, GreetDone, PlaceNext,
              EndTick, Delivered, TimePasses, Stall, SlotEnds, Crash, Restarts, Uncounted, vars, accounts
<1> QED BY <1>2, <1>3, <1>4, <1>5, <1>b, Zenon DEF Next, GamePlayed

\* What a tick works on fits its stage.
TickOK ==
  /\ stage \in {"idle", "drain", "greet", "place"}
  /\ stage = "idle" => todo = {} /\ flight = None
  /\ stage = "drain" => todo \subseteq Rows /\ flight \in Rows \cup {None}
  /\ stage = "greet" => todo \subseteq Users /\ flight \in Users \cup {None}
  /\ stage = "place" => todo \subseteq Slots /\ flight \in Slots \cup {None}
  /\ yesterday \in -1 .. Day(MaxTime)

LEMMA TickStep == ASSUME TypeOK, [Next]_vars PROVE TickOK'
<1>0. /\ TickOK /\ queue \subseteq Rows /\ Today \in Nat /\ Day(MaxTime) \in Nat /\ Today <= Day(MaxTime)
      /\ rank \in [Users -> 0 .. TopN] /\ TopN \in Nat
  BY TodayIsADay, PushConstantsOK DEF TypeOK, ClockOK, TickOK, Slots
<1> USE DEF TickOK
<1>1. CASE StartTick
  BY <1>0, <1>1 DEF StartTick, DueRows
<1>2. ASSUME NEW row \in todo, DrainRow(row) PROVE TickOK'
  <2>1. stage = "drain" /\ todo' \subseteq todo /\ flight' \in {flight, row} /\ UNCHANGED <<stage, yesterday>>
    BY <1>2 DEF DrainRow
  <2> QED BY <1>0, <2>1
<1>3. ASSUME NEW begun \in SUBSET Users, EvaluateReminders(begun) PROVE TickOK'
  <2>1. /\ stage' = "greet" /\ flight' = None /\ yesterday' = -1
        /\ todo' = IF logged = Today THEN {} ELSE ToGreet(begun)
    BY <1>3 DEF EvaluateReminders
  <2> QED BY <1>0, <2>1 DEF ToGreet
<1>4. ASSUME NEW u \in todo, GreetNext(u) PROVE TickOK'
  <2>1. stage = "greet" /\ todo' \subseteq todo /\ flight' \in {flight, u} /\ UNCHANGED <<stage, yesterday>>
    BY <1>4 DEF GreetNext
  <2> QED BY <1>0, <2>1
<1>5. CASE GreetDone
  <2>1. /\ stage' = "place" /\ flight' = None /\ yesterday' = yesterday
        /\ todo' = {[user |-> u, rank |-> rank[u]] : u \in {v \in Users : rank[v] # 0}}
    BY <1>5 DEF GreetDone
  <2>2. \A u \in Users : rank[u] # 0 => [user |-> u, rank |-> rank[u]] \in Slots
    BY <1>0 DEF Slots
  <2> QED BY <1>0, <2>1, <2>2
<1>6. ASSUME NEW item \in todo, PlaceNext(item) PROVE TickOK'
  <2>1. stage = "place" /\ todo' \subseteq todo /\ flight' \in {flight, item} /\ UNCHANGED <<stage, yesterday>>
    BY <1>6 DEF PlaceNext
  <2> QED BY <1>0, <2>1
<1>7. CASE EndTick \/ TimePasses \/ Crash \/ \E u \in Users, day \in Days : CrashInGame(u, day)
  <2>1. stage' = "idle" /\ todo' = {} /\ flight' = None /\ yesterday' \in {yesterday, -1}
    BY <1>0, <1>7, CrashFacts DEF EndTick, Crash, Restarts, TimePasses, SlotEnds
  <2> QED BY <1>0, <2>1
<1>8. CASE Delivered \/ \E gone \in BOOLEAN : NotDelivered(gone)
  <2>1. flight' = None /\ UNCHANGED <<stage, todo, yesterday>>
    BY <1>8 DEF Delivered, NotDelivered
  <2>2. stage = "idle" => flight = None
    BY <1>0
  <2> QED BY <1>0, <2>1
<1>9. ASSUME \/ \E u \in Users : GamePlayed(u)
             \/ \E u \in Users : SetPreferences(u) \/ SaveSubscription(u)
             \/ \E u \in Users, r \in 0 .. TopN : RankMoves(u, r)
             \/ Stall \/ UNCHANGED vars
      PROVE  UNCHANGED <<stage, todo, flight, yesterday>>
  BY <1>9, GameFacts DEF GameEnds, SetPreferences, SaveSubscription, RankMoves, Stall, SlotEnds,
              vars, tick
<1> QED BY <1>0, <1>1, <1>2, <1>3, <1>4, <1>5, <1>6, <1>7, <1>8, <1>9 DEF Next, GamePlayed

\* The histories of the day name users.
LEMMA HistoryStep ==
  ASSUME TypeOK, [Next]_vars
  PROVE  warned' \subseteq Users /\ troubled' \subseteq Users /\ belated' \subseteq Users
<1> DEFINE Histories == warned' \subseteq Users /\ troubled' \subseteq Users /\ belated' \subseteq Users
<1>0. /\ warned \subseteq Users /\ troubled \subseteq Users /\ belated \subseteq Users
      /\ Rows \subseteq [user : Users, due : 0 .. MaxTime + DayLength, attempts : 0 .. MaxAttempts]
  BY DEF TypeOK, Rows
<1>1. ASSUME NEW u \in Users, Streak(u) PROVE belated' \subseteq Users
  BY <1>0, <1>1 DEF Streak, Uncounted, Counted
<1>2. ASSUME NEW u \in Users, GamePlayed(u) \/ \E day \in Days : CrashInGame(u, day) PROVE Histories
  <2>1. UNCHANGED <<warned, troubled>> /\ Streak(u)
    BY <1>2, GameFacts, CrashFacts DEF GameEnds, Restarts
  <2> QED BY <1>0, <1>1, <2>1
<1>3. ASSUME NEW u \in Users, SetPreferences(u) \/ SaveSubscription(u) PROVE Histories
  BY <1>0, <1>3 DEF SetPreferences, SaveSubscription, TroubleFor
<1>4. ASSUME NEW row \in todo, DrainRow(row) PROVE Histories
  <2>1. row.user \in Users /\ UNCHANGED <<warned, belated>>
    BY <1>4 DEF DrainRow, TypeOK, Rows
  <2>2. troubled' = troubled \/ TroubleFor({row.user})
    BY <1>4, Zenon DEF DrainRow
  <2> QED BY <1>0, <2>1, <2>2 DEF TroubleFor
<1>5. ASSUME Delivered PROVE Histories
  <2>1. stage = "drain" => flight.user \in Users
    BY <1>5 DEF Delivered, TypeOK, Rows
  <2> QED BY <1>0, <1>5, <2>1 DEF Delivered
<1>6. ASSUME NEW gone \in BOOLEAN, NotDelivered(gone) PROVE Histories
  <2>1. Recipient \in Users
    BY <1>6 DEF NotDelivered, Recipient, TypeOK, Rows
  <2> QED BY <1>0, <1>6, <2>1 DEF NotDelivered, TroubleFor
<1>7. ASSUME TimePasses \/ Stall PROVE Histories
  BY <1>0, <1>7 DEF TimePasses, Stall, SlotEnds
<1>8. ASSUME \/ \E u \in Users, r \in 0 .. TopN : RankMoves(u, r)
             \/ StartTick
             \/ \E begun \in SUBSET Users : EvaluateReminders(begun)
             \/ \E u \in todo : GreetNext(u)
             \/ GreetDone \/ \E item \in todo : PlaceNext(item)
             \/ EndTick \/ Crash \/ UNCHANGED vars
      PROVE  UNCHANGED <<warned, troubled, belated>>
  BY <1>8 DEF RankMoves, StartTick, EvaluateReminders, GreetNext, GreetDone, PlaceNext,
              EndTick, Crash, Restarts, Uncounted, vars, history
<1>9. UNCHANGED <<warned, troubled, belated>> => Histories
  BY <1>0
<1> HIDE DEF Histories
<1>10. Histories
  BY <1>2, <1>3, <1>4, <1>5, <1>6, <1>7, <1>8, <1>9, Zenon DEF Next, GamePlayed
<1> QED BY <1>10 DEF Histories

LEMMA TypeStep ==
  ASSUME TypeOK, OneRowEach, DrainKnowsRows, GreetingsAreLogged, SlotsAreAnnounced, [Next]_vars
  PROVE  TypeOK'
<1>1. now' \in 0 .. MaxTime
  BY ClockStep DEF ClockOK
<1> QED BY <1>1, ClockStep, TickedStep, PlayersStep, TickStep, HistoryStep, QueueStep, GreetStep, SlotStep, Zenon
        DEF TypeOK, ClockOK, TickOK, Slots

LEMMA TypeInit == Init => TypeOK
<1> SUFFICES ASSUME Init PROVE TypeOK
  OBVIOUS
<1>1. now \in 0 .. MaxTime /\ moves \in 0 .. MaxMoves /\ faults \in 0 .. MaxFaults
  BY PushConstantsOK DEF Init
<1>2. Today \in Days /\ Day(MaxTime) \in Nat
  BY <1>1, TodayIsADay
<1>3. /\ last \in [Users -> Days \cup {-1}] /\ plays \in [Users -> SUBSET Days]
      /\ logged \in Days \cup {-1} /\ warned = {} /\ greeted = {} /\ troubled = {} /\ belated = {}
      /\ queue \subseteq Rows
  BY DEF Init
<1>4. /\ rank \in [Users -> 0 .. TopN] /\ best \in [Users -> 0 .. TopN] /\ told \in [Users -> 0 .. TopN]
      /\ yesterday \in -1 .. Day(MaxTime)
  BY <1>2, PushConstantsOK DEF Init
<1>5. /\ alive \in [Users -> BOOLEAN] /\ on \in [Users -> BOOLEAN] /\ sub \in [Users -> BOOLEAN]
      /\ ticked \in BOOLEAN /\ stage = "idle" /\ todo = {} /\ flight = None
  BY Zenon DEF Init
<1> QED BY <1>1, <1>3, <1>4, <1>5 DEF TypeOK

(***************************************************************************)
(* The theorems.                                                           *)
(***************************************************************************)
Streaks == DueSoon /\ DrainIsLate /\ StreaksAreCovered
IInv == TypeOK /\ OneRowEach /\ DrainKnowsRows /\ GreetingsAreLogged /\ SlotsAreAnnounced /\ Streaks

LEMMA Inductive == Spec => []IInv
<1>1. Init => IInv
  BY TypeInit, QueueInit, GreetInit, SlotInit, StreakInit DEF IInv, Streaks
<1>2. IInv /\ [Next]_vars => IInv'
  <2> SUFFICES ASSUME IInv, [Next]_vars PROVE IInv'
    OBVIOUS
  <2>1. TypeOK' /\ now' \in 0 .. MaxTime
    BY TypeStep, ClockStep DEF IInv, ClockOK
  <2>2. Streaks'
    BY <2>1, DueSoonStep, DrainIsLateStep, CoveredStep DEF IInv, Streaks
  <2> QED BY <2>1, <2>2, QueueStep, GreetStep, SlotStep DEF IInv
<1> QED BY <1>1, <1>2, PTL DEF Spec

\* TypeOK always: in particular no reminder is attempted more than
\* notifMaxAttempts times, and a tick works only on what fits its stage.
THEOREM PushTypeCorrect == Spec => []TypeOK
BY Inductive, PTL DEF IInv

\* A user has at most one reminder pending, for any number of users, ticks and
\* crashes.
THEOREM OneReminderEach == Spec => []OnePendingReminder
<1>1. IInv => OnePendingReminder
  <2> SUFFICES ASSUME IInv, NEW u \in Users PROVE Cardinality(Pending(u)) <= 1
    BY DEF OnePendingReminder
  <2>1. \A q, r \in Pending(u) : q = r
    BY DEF Pending, IInv, OneRowEach
  <2>2. CASE Pending(u) = {}
    BY <2>2, FS_EmptySet
  <2>3. CASE Pending(u) # {}
    <3>1. PICK q \in Pending(u) : TRUE
      BY <2>3
    <3>2. Pending(u) = {q}
      BY <2>1, <3>1
    <3> QED BY <3>2, FS_Singleton
  <2> QED BY <2>2, <2>3
<1> QED BY <1>1, Inductive, PTL

\* A day's puzzle is announced at most once to a user on that day.
THEOREM PuzzlesAnnouncedOnce == Spec => PuzzleAnnouncedOnce
<1>1. IInv /\ [Next]_vars =>
        [/\ TRUE
         /\ stage = "greet" /\ flight = None /\ flight' # None => flight' \notin greeted]_vars
  <2> SUFFICES ASSUME IInv, [Next]_vars, stage = "greet", flight = None, flight' # None
               PROVE  flight' \notin greeted
    BY DEF vars
  <2>1. \/ \E u \in todo : GreetNext(u)
        \/ UNCHANGED flight \/ flight' = None
    BY CrashFacts
       DEF Next, PlayDaily, PlayInRoom, FinishClaimed, ClaimPlays, GameEnds, SetPreferences,
           SaveSubscription, RankMoves, StartTick, DrainRow, EvaluateReminders, GreetDone, PlaceNext,
           EndTick, Delivered, NotDelivered, TimePasses, Stall, SlotEnds, Crash, Restarts, vars, tick
  <2>2. PICK u \in todo : GreetNext(u)
    BY <2>1
  <2> QED BY <2>2 DEF GreetNext, IInv, GreetingsAreLogged
<1> QED BY <1>1, Inductive, PTL DEF Spec, PuzzleAnnouncedOnce

\* A slot that counts as announced was announced at that rank, as long as the
\* server neither crashed nor stood still.
THEOREM SlotsWereAnnounced == Spec => []SlotWasAnnounced
<1>1. IInv => SlotWasAnnounced
  BY DEF IInv, SlotsAreAnnounced, SlotWasAnnounced, Announcing
<1> QED BY <1>1, Inductive, PTL

\* No streak breaks unwarned: whoever came into a day with a streak and ends it
\* without a play was reminded on that day, but for pushes that could not reach
\* them, a hanging server and a row stranded by a crash.
THEOREM StreaksBreakWarned == Spec => StreakHolderIsWarned
<1>1. IInv /\ [Next]_vars =>
        [/\ TRUE
         /\ \A u \in Users :
              /\ Day(now') > Today /\ alive[u] /\ last[u] = Today - 1 /\ ~Played(u)
              /\ on[u] /\ sub[u] /\ ~Stranded(u)
              /\ u \notin belated /\ u \notin troubled /\ u \notin troubled'
              => u \in warned]_vars
  <2> SUFFICES ASSUME IInv, [Next]_vars, NEW u \in Users,
                      Day(now') > Today, alive[u], last[u] = Today - 1, ~Played(u),
                      on[u], sub[u], ~Stranded(u),
                      u \notin belated, u \notin troubled, u \notin troubled'
               PROVE  u \in warned
    BY DEF vars
  <2>0. now \in Nat /\ Today \in Nat /\ DayLength \in Nat \ {0} /\ queue \subseteq Rows
    BY StreakNumbers DEF IInv, TypeOK
  <2>1. now' # now
    <3> SUFFICES ASSUME now' = now PROVE FALSE
      OBVIOUS
    <3>1. Day(now') = Today
      BY DEF Today
    <3> QED BY <2>0, <3>1
  <2>2. TimePasses \/ Stall
    BY <2>1, CrashFacts
       DEF Next, PlayDaily, PlayInRoom, FinishClaimed, ClaimPlays, GameEnds, SetPreferences,
           SaveSubscription, RankMoves, StartTick, DrainRow, EvaluateReminders, GreetNext, GreetDone,
           PlaceNext, EndTick, Delivered, NotDelivered, Crash, Restarts, vars
  <2>3. now' = now + 1 /\ now + 1 = (Today + 1) * DayLength
    <3>1. now' = now + 1
      BY <2>2 DEF TimePasses, Stall, SlotEnds
    <3>2. Day(now + 1) # Day(now)
      BY <2>0, <3>1 DEF Today
    <3> QED BY <2>0, <3>1, <3>2, NextSlot DEF Today
  <2>4. ~Stall
    BY DEF Stall
  <2>5. stage = "idle" /\ ticked = TRUE /\ DueRows = {}
    BY <2>2, <2>4 DEF TimePasses, IInv, TypeOK
  <2>6. u \in warned \/ RemindedInTime(u)
    BY <2>5 DEF IInv, Streaks, StreaksAreCovered, Awaits, Covered, Opening
  <2>7. ~RemindedInTime(u)
    <3> SUFFICES ASSUME NEW row \in Pending(u), row.due < (Today + 1) * DayLength PROVE FALSE
      BY DEF RemindedInTime
    <3>1. row \in queue /\ row.due \in Int /\ row.attempts \in 0 .. MaxAttempts /\ row.attempts # MaxAttempts
      BY <2>0 DEF Pending, Stranded, Rows
    <3>2. row.due <= now
      BY <2>0, <2>3, <3>1
    <3>3. row.attempts < MaxAttempts
      BY <3>1, PushConstantsOK
    <3> QED BY <2>5, <3>1, <3>2, <3>3 DEF DueRows
  <2> QED BY <2>6, <2>7
<1> QED BY <1>1, Inductive, PTL DEF Spec, StreakHolderIsWarned
=============================================================================
