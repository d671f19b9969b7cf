----------------------------- MODULE PushChannel ----------------------------
(***************************************************************************)
(* Web push: the queue of streak reminders, the daily "puzzle is live"     *)
(* batch and the announcements of leaderboard placements, all of them sent *)
(* by one scheduler (notificationScheduler.ts) that yields only while it   *)
(* waits for the push service.  A day has DayLength slots; the scheduler   *)
(* ticks many times in a slot.                                             *)
(***************************************************************************)
EXTENDS Integers, FiniteSets

CONSTANTS
  Users,
  DayLength, ReminderDelay,  \* slots of a day, of notifStreakReminderHours
  Quiet,                     \* the slots of a day in which nobody may be disturbed
  MaxAttempts,               \* notifMaxAttempts
  TopN,                      \* the places that are announced
  MaxTime, MaxFaults, MaxMoves,   \* bounds on the clock, crashes and stalls, and rank changes
  None

ASSUME PushConstantsOK ==
  /\ DayLength \in Nat \ {0} /\ ReminderDelay \in 1 .. DayLength - 1
  /\ Quiet \subseteq 0 .. DayLength - 1 /\ {MaxAttempts, TopN} \subseteq Nat \ {0}
  /\ {MaxTime, MaxFaults, MaxMoves} \subseteq Nat
  /\ None \notin Users \cup [user : Users, rank : 1 .. TopN]

VARIABLES
  now,
  last, alive,     \* users.daily_streak_last_date, daily_streak_current > 0
  plays,           \* daily_plays: the days whose row is completed
  on, sub,         \* notification_preferences, an active push_subscriptions row
  queue,           \* scheduled_notifications: the pending streak reminders
  logged,          \* the last day with a daily_puzzle row in notification_log
  rank, best,      \* rank on the leaderboard, best_rank of the period (0: none)
  stage, todo, flight,   \* the tick: its stage, what it has still to send, what it waits for
  yesterday,       \*   as computed when the queue was read
  ticked,          \* a tick has ended since something changed
  moves, faults,
  told,            \* history: the last rank announced; and, of today, who was
  warned, greeted, \*   sent a reminder, the puzzle's announcement,
  troubled,        \*   whom a push failed to reach or was refused to, who changed
                   \*   preferences or subscriptions, or all when the server hung,
  belated          \*   whose streak was set to an earlier day

accounts == <<last, alive, plays, on, sub>>
tick     == <<stage, todo, flight, yesterday, ticked>>
history  == <<told, warned, greeted, troubled, belated>>
vars == <<now, accounts, queue, logged, rank, best, tick, moves, faults, history>>

Day(t) == t \div DayLength
Today  == Day(now)
Days   == 0 .. Day(MaxTime)

Played(u) == Today \in plays[u]
Pending(u) == {row \in queue : row.user = u}
InADay(u, at)   == [user |-> u, due |-> at + DayLength, attempts |-> 0]    \* mutant
Reminder(u, at) == [user |-> u, due |-> at + ReminderDelay, attempts |-> 0]
IsRow(q, row) == q.user = row.user /\ q.due = row.due
Settled(row)  == {q \in queue : ~IsRow(q, row)}

Init ==
  /\ now = 0
  /\ last = [u \in Users |-> -1] /\ alive \in [Users -> BOOLEAN]
  /\ plays = [u \in Users |-> {}]
  /\ on = [u \in Users |-> TRUE] /\ sub \in [Users -> BOOLEAN]
  /\ queue = {} /\ logged = -1
  /\ rank = [u \in Users |-> 0] /\ best = [u \in Users |-> 0]
  /\ stage = "idle" /\ todo = {} /\ flight = None /\ yesterday = -1 /\ ticked = FALSE
  /\ moves = 0 /\ faults = 0
  /\ told = [u \in Users |-> 0]
  /\ warned = {} /\ greeted = {} /\ troubled = {} /\ belated = {}

\* The server turns to something else only while the scheduler waits.
Yielded == stage = "idle" \/ flight # None
TroubleFor(us) == troubled' = troubled \cup us

(***************************************************************************)
(* Players.  A session begun before midnight counts for its own day, also  *)
(* after a later one, and then takes the streak's date back with it.       *)
(***************************************************************************)
\* The days u can still finish; the streak's own day is one whose row a
\* crash left open for good.
Unfinished(u) == (0 .. Today) \ (plays[u] \cup {last[u]})

Completed(u, days) == plays' = [plays EXCEPT ![u] = @ \cup days]
Counted(u, day) ==
  /\ last' = [last EXCEPT ![u] = day] /\ alive' = [alive EXCEPT ![u] = TRUE]
  /\ belated' = IF day = Today THEN belated ELSE belated \cup {u}
Uncounted == UNCHANGED <<last, alive, belated>>

GameEnds ==
  /\ Yielded /\ ticked' = FALSE
  /\ UNCHANGED <<now, on, sub, logged, rank, best, stage, todo, flight, yesterday, moves, faults,
                 warned, greeted, told, troubled>>

\* A game of one's own replaces the reminder.
WithNewReminder(u) == (queue \ Pending(u)) \cup {Reminder(u, now)}
PlayDaily(u, day) ==
  /\ GameEnds /\ day \in Unfinished(u)
  /\ Completed(u, {day}) /\ Counted(u, day) /\ queue' = WithNewReminder(u)

\* A room's daily game does not, and a streak that fails to move is let pass.
PlayInRoom(u, day) ==
  /\ GameEnds /\ day \in Unfinished(u)
  /\ Completed(u, {day}) /\ (Counted(u, day) \/ Uncounted) /\ UNCHANGED queue

\* A guest's games claimed after login count unless the streak is of a later
\* day.  A game claimed while it is open is finished by a session without an
\* account: it does not count at all.
ClaimPlays(u, days) ==
  /\ GameEnds /\ days \subseteq Unfinished(u)
  /\ Completed(u, days) /\ UNCHANGED queue
  /\ \E latest \in days :
       /\ \A day \in days : day <= latest
       /\ IF latest > last[u] THEN Counted(u, latest) ELSE Uncounted
FinishClaimed(u, day) ==
  /\ GameEnds /\ day \in Unfinished(u)
  /\ Completed(u, {day}) /\ Uncounted /\ UNCHANGED queue

SetPreferences(u) ==
  /\ Yielded /\ moves < MaxMoves /\ moves' = moves + 1
  /\ on' = [on EXCEPT ![u] = ~@] /\ TroubleFor({u}) /\ ticked' = FALSE
  /\ UNCHANGED <<now, last, alive, plays, sub, queue, logged, rank, best, stage, todo, flight, yesterday,
                 faults, warned, greeted, told, belated>>

SaveSubscription(u) ==
  /\ Yielded /\ ~sub[u]
  /\ sub' = [sub EXCEPT ![u] = TRUE] /\ TroubleFor({u}) /\ ticked' = FALSE
  /\ UNCHANGED <<now, last, alive, plays, on, queue, logged, rank, best, stage, todo, flight, yesterday,
                 moves, faults, warned, greeted, told, belated>>

\* Games of anybody move the ranks, 1 to TopN or off the board.
RankMoves(u, r) ==
  /\ Yielded /\ r # rank[u] /\ moves < MaxMoves /\ moves' = moves + 1
  /\ rank' = [rank EXCEPT ![u] = r] /\ ticked' = FALSE
  /\ UNCHANGED <<now, accounts, queue, logged, best, stage, todo, flight, yesterday, faults, history>>

(***************************************************************************)
(* A tick: decay, drain the queue, schedule reminders, the daily batch,    *)
(* the placements.                                                         *)
(***************************************************************************)
DueRows == {row \in queue : row.due <= now /\ row.attempts < MaxAttempts}
Climbed(u) == rank[u] # 0 /\ (best[u] = 0 \/ rank[u] < best[u])

\* A tick that would find nothing to do is left out.
StartTick ==
  /\ stage = "idle"
  /\ ~ticked \/ DueRows # {} \/ \E u \in Users : Climbed(u)
  /\ alive' = [u \in Users |-> alive[u] /\ last[u] >= Today - 1]
  /\ stage' = "drain" /\ todo' = DueRows /\ yesterday' = Today - 1
  /\ UNCHANGED <<now, last, plays, on, sub, queue, logged, rank, best, flight, ticked, moves, faults,
                 history>>

\* sendPushToUser gives up without a word.
Refused(u) == ~on[u] \/ ~sub[u] \/ now % DayLength \in Quiet

\* The reminder is wrong by now.
Suppressed(u) == Played(u) \/ ~alive[u] \/ last[u] < yesterday

Attempted(row) ==
  {IF IsRow(q, row) THEN [q EXCEPT !.attempts = @ + 1] ELSE q : q \in queue}
GivenUp(row) == row.attempts + 1 >= MaxAttempts

\* A row deleted since the queue was read is worked on all the same.
DrainRow(row) ==
  /\ stage = "drain" /\ flight = None
  /\ row \in todo /\ \A other \in todo : row.due <= other.due
  /\ todo' = todo \ {row}
  /\ \/ /\ Suppressed(row.user)
        /\ queue' = Settled(row) /\ UNCHANGED <<flight, troubled>>
     \/ /\ ~Suppressed(row.user) /\ Refused(row.user)
        /\ queue' = IF GivenUp(row) THEN Settled(row) ELSE Attempted(row)
        /\ TroubleFor({row.user}) /\ UNCHANGED flight
     \/ /\ ~Suppressed(row.user) /\ ~Refused(row.user)
        /\ queue' = Attempted(row) /\ flight' = row /\ UNCHANGED troubled
  /\ UNCHANGED <<now, accounts, logged, rank, best, stage, yesterday, ticked, moves, faults, warned,
                 greeted, told, belated>>

\* Whoever has a streak, has not played today and has no reminder pending.
Anyway   == {u \in Users : alive[u] /\ last[u] < Today /\ on[u] /\ sub[u]}   \* mutant
ToRemind == {u \in Users : alive[u] /\ last[u] < Today /\ on[u] /\ sub[u] /\ Pending(u) = {}}

\* A puzzle begun and not finished counts as played here.
ToGreet(begun) == {u \in Users \ begun : on[u] /\ sub[u] /\ ~Played(u)}

EvaluateReminders(begun) ==
  /\ stage = "drain" /\ flight = None /\ todo = {}
  /\ queue' = queue \cup {Reminder(u, now) : u \in ToRemind}
  /\ stage' = "greet" /\ yesterday' = -1
  /\ todo' = IF logged = Today THEN {} ELSE ToGreet(begun)
  /\ UNCHANGED <<now, accounts, logged, rank, best, flight, ticked, moves, faults, history>>

\* The row in the log, written before the push, is what keeps the day.
NotKept  == logged                                                    \* mutant
LogToday == Today
GreetNext(u) ==
  /\ stage = "greet" /\ flight = None /\ u \in todo
  /\ todo' = todo \ {u}
  /\ IF Refused(u)
       THEN UNCHANGED <<logged, flight, greeted>>
       ELSE logged' = LogToday /\ flight' = u /\ greeted' = greeted \cup {u}
  /\ UNCHANGED <<now, accounts, queue, rank, best, stage, yesterday, ticked, moves, faults, warned,
                 told, troubled, belated>>

GreetDone ==
  /\ stage = "greet" /\ flight = None /\ todo = {}
  /\ stage' = "place"
  /\ todo' = {[user |-> u, rank |-> rank[u]] : u \in {v \in Users : rank[v] # 0}}
  /\ UNCHANGED <<now, accounts, queue, logged, rank, best, flight, yesterday, ticked, moves, faults,
                 history>>

\* Claim the slot, then send; a send that reached nobody releases the slot.
Claims(item) == best[item.user] = 0 \/ item.rank < best[item.user]
Kept(item)     == best                                                \* mutant
Released(item) == [best EXCEPT ![item.user] = IF @ = item.rank THEN 0 ELSE @]

PlaceNext(item) ==
  LET u == item.user IN
  /\ stage = "place" /\ flight = None /\ item \in todo
  /\ todo' = todo \ {item}
  /\ \/ /\ on[u] /\ sub[u] /\ Claims(item) /\ ~Refused(u)
        /\ best' = [best EXCEPT ![u] = item.rank] /\ flight' = item
     \/ /\ on[u] /\ sub[u] /\ Claims(item) /\ Refused(u)
        /\ best' = [best EXCEPT ![u] = 0] /\ UNCHANGED flight
     \/ /\ ~(on[u] /\ sub[u] /\ Claims(item)) /\ UNCHANGED <<best, flight>>
  /\ UNCHANGED <<now, accounts, queue, logged, rank, stage, yesterday, ticked, moves, faults, history>>

EndTick ==
  /\ stage = "place" /\ flight = None /\ todo = {}
  /\ stage' = "idle" /\ ticked' = TRUE
  /\ UNCHANGED <<now, accounts, queue, logged, rank, best, todo, flight, yesterday, moves, faults,
                 history>>

(***************************************************************************)
(* The push service answers: delivered, failed, or the subscription is     *)
(* gone.                                                                   *)
(***************************************************************************)
Recipient == IF stage = "greet" THEN flight ELSE flight.user

Delivered ==
  /\ flight # None /\ flight' = None
  /\ queue' = IF stage = "drain" THEN Settled(flight) ELSE queue
  /\ warned' = IF stage = "drain" THEN warned \cup {flight.user} ELSE warned
  /\ told' = IF stage = "place" THEN [told EXCEPT ![flight.user] = flight.rank] ELSE told
  /\ UNCHANGED <<now, accounts, logged, rank, best, stage, todo, yesterday, ticked, moves, faults,
                 greeted, troubled, belated>>

NotDelivered(gone) ==
  /\ flight # None /\ flight' = None
  /\ sub' = IF gone THEN [sub EXCEPT ![Recipient] = FALSE] ELSE sub
  /\ queue' = IF stage = "drain" /\ GivenUp(flight) THEN Settled(flight) ELSE queue
  /\ best' = IF stage = "place" THEN Released(flight) ELSE best
  /\ TroubleFor({Recipient})
  /\ UNCHANGED <<now, last, alive, plays, on, logged, rank, stage, todo, yesterday, ticked, moves, faults,
                 warned, greeted, told, belated>>

(***************************************************************************)
(* Time, crashes.  The scheduler ticks every minute: a slot ends with the  *)
(* queue dealt with, unless the push service hangs.                        *)
(***************************************************************************)
SlotEnds ==
  /\ now < MaxTime /\ now' = now + 1
  /\ LET today == IF Day(now + 1) = Today THEN Users ELSE {} IN
       /\ warned' = warned \cap today /\ greeted' = greeted \cap today
       /\ belated' = belated \cap today
  /\ UNCHANGED <<accounts, queue, logged, rank, best, stage, todo, flight, yesterday, moves, told>>

TimePasses ==
  /\ stage = "idle" /\ ticked /\ DueRows = {}
  /\ SlotEnds /\ ticked' = FALSE
  /\ troubled' = IF Day(now + 1) = Today THEN troubled ELSE {}
  /\ UNCHANGED faults

Stall ==
  /\ flight # None /\ faults < MaxFaults /\ faults' = faults + 1
  /\ SlotEnds /\ troubled' = Users
  /\ UNCHANGED ticked

\* What was sent may have arrived; what the scheduler knew of it is lost.
Restarts ==
  /\ faults < MaxFaults /\ faults' = faults + 1
  /\ stage' = "idle" /\ todo' = {} /\ flight' = None /\ yesterday' = -1 /\ ticked' = FALSE
  /\ UNCHANGED <<now, on, sub, logged, rank, best, moves, warned, greeted, told, troubled>>

Crash == stage # "idle" /\ Restarts /\ Uncounted /\ UNCHANGED <<plays, queue>>

\* One's own game moves the streak, then the reminder, then completes the
\* play; a room's completes the play first.
CrashInGame(u, day) ==
  /\ Yielded /\ Restarts /\ day \in Unfinished(u)
  /\ \/ /\ Counted(u, day) /\ UNCHANGED plays
        /\ queue' \in {queue, queue \ Pending(u), WithNewReminder(u)}
     \/ Completed(u, {day}) /\ Uncounted /\ UNCHANGED queue

Next ==
  \/ \E u \in Users, day \in Days :
       PlayDaily(u, day) \/ PlayInRoom(u, day) \/ FinishClaimed(u, day) \/ CrashInGame(u, day)
  \/ \E u \in Users : \E days \in SUBSET Days : ClaimPlays(u, days)
  \/ \E u \in Users : SetPreferences(u) \/ SaveSubscription(u) \/ \E r \in 0 .. TopN : RankMoves(u, r)
  \/ StartTick \/ \E row \in todo : DrainRow(row)
  \/ \E begun \in SUBSET Users : EvaluateReminders(begun)
  \/ \E u \in todo : GreetNext(u)
  \/ GreetDone \/ \E item \in todo : PlaceNext(item)
  \/ EndTick
  \/ Delivered \/ \E gone \in BOOLEAN : NotDelivered(gone)
  \/ TimePasses \/ Stall \/ Crash

Spec == Init /\ [][Next]_vars

Rows == [user : Users, due : 0 .. MaxTime + DayLength, attempts : 0 .. MaxAttempts]
TypeOK ==
  /\ now \in 0 .. MaxTime /\ last \in [Users -> Days \cup {-1}] /\ alive \in [Users -> BOOLEAN]
  /\ plays \in [Users -> SUBSET Days]
  /\ on \in [Users -> BOOLEAN] /\ sub \in [Users -> BOOLEAN]
  /\ queue \subseteq Rows /\ logged \in Days \cup {-1}
  /\ rank \in [Users -> 0 .. TopN] /\ best \in [Users -> 0 .. TopN]
  /\ stage \in {"idle", "drain", "greet", "place"}
  /\ stage = "idle" => todo = {} /\ flight = None
  /\ stage = "drain" => todo \subseteq Rows /\ flight \in Rows \cup {None}
  /\ stage = "greet" => todo \subseteq Users /\ flight \in Users \cup {None}
  /\ stage = "place" =>
       /\ todo \subseteq [user : Users, rank : 1 .. TopN]
       /\ flight \in [user : Users, rank : 1 .. TopN] \cup {None}
  /\ yesterday \in -1 .. Day(MaxTime) /\ ticked \in BOOLEAN
  /\ moves \in 0 .. MaxMoves /\ faults \in 0 .. MaxFaults
  /\ told \in [Users -> 0 .. TopN]
  /\ warned \subseteq Users /\ greeted \subseteq Users
  /\ troubled \subseteq Users /\ belated \subseteq Users
=============================================================================
