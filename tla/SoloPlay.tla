------------------------------ MODULE SoloPlay ------------------------------
(***************************************************************************)
(* Single-player games, the daily challenge, and whose account they count  *)
(* for: gameSession.ts, gameGuess.ts, dailyStreak.ts, dailyClaim.ts,       *)
(* userGameHistory.ts and gameHistoryClaim.ts with the routes that call    *)
(* them.  Every statement commits on its own: a crash may stop a guess     *)
(* after any of its writes.                                                *)
(***************************************************************************)
EXTENDS Integers, FiniteSets, FiniteSetsExt

CONSTANTS
  Users, Visitors,    \* accounts; browsers, by their visitor_id cookie
  Sessions,           \* ids of game_sessions, and of seats in daily rooms
  LastDay,            \* bound: the UTC days are 1 .. LastDay
  DailyRounds,        \* DAILY_TOTAL_ROUNDS
  FreeRounds,         \* total_rounds of the other games
  MaxFaults,          \* bound on crashes
  Nobody, NotDaily

ASSUME SoloConstantsOK ==
  /\ LastDay \in Nat \ {0} /\ MaxFaults \in Nat
  /\ DailyRounds \in Nat \ {0} /\ FreeRounds \in Nat \ {0}
  /\ Nobody \notin Users \cup Visitors /\ NotDaily \notin Int

VARIABLES
  today, login,                            \* the date; req.user of each browser
  owner, device, day, round, total, done,  \* game_sessions
  guessed,                                 \* game_rounds
  plays, playUser, finished,               \* daily_plays
  streak,                                  \* users.daily_streak_*
  history, lifetime,                       \* user_game_history, users.lifetime_score
  faults

clock    == <<today, login>>
sessions == <<owner, device, day, round, total, done>>
daily    == <<plays, playUser, finished, streak>>
credit   == <<history, lifetime>>
vars     == <<clock, sessions, guessed, daily, credit, faults>>

Days  == 1 .. LastDay
Never == -1             \* daily_streak_last_date IS NULL

(***************************************************************************)
(* Queries.                                                                *)
(***************************************************************************)
Unused(s)      == device[s] = Nobody
InDailyRoom(s) == device[s] # Nobody /\ round[s] = 0
RoundsOf(s)    == IF day[s] = NotDaily THEN FreeRounds ELSE DailyRounds
PlaysOn(d)     == {p \in plays : day[p] = d}
DaysPlayed(u)  == {day[p] : p \in {q \in plays : playUser[q] = u}}

\* The two partial unique indexes of daily_plays.
FitsIndexes(u, v, d) ==
  \A p \in PlaysOn(d) : (u = Nobody \/ playUser[p] # u) /\ device[p] # v

\* submitGuess inserts the play of a daily session with its first guess; the
\* session id is unique too.
FirstOfDaily(s) == day[s] # NotDaily /\ round[s] = 1
MayCommit(s)    == s \notin plays /\ FitsIndexes(owner[s], device[s], day[s])

\* The route's check of the owner: none for requests without a login.
OwnerAgrees(v, s) == login[v] = Nobody \/ owner[s] \in {Nobody, login[v]}

(***************************************************************************)
(* Streaks.                                                                *)
(***************************************************************************)

\* updateStreakOnCompletion.
AnyEarlierDay(st, d) == st.last # Never                              \* mutant
DayBefore(st, d)     == st.last # Never /\ st.last = d - 1
Extended(st, d) ==
  LET cur == IF DayBefore(st, d) THEN st.cur + 1 ELSE 1 IN
  [cur |-> cur, best |-> IF cur > st.best THEN cur ELSE st.best, last |-> d]

\* The claim replays the claimed days in order.
Replayed(st, days) ==
  LET after[d \in 0 .. LastDay] ==
        IF d = 0 THEN st
        ELSE IF d \in days THEN Extended(after[d - 1], d) ELSE after[d - 1]
  IN  after[LastDay]

Stale(u) == streak[u].cur > 0 /\ streak[u].last < today - 1

(***************************************************************************)
(* Credits.                                                                *)
(***************************************************************************)

\* recordSinglePlayerGame for the sessions `new` of u; a row is inserted, and
\* the score added, once per user and session.
EveryTime(u, new) == new                                             \* mutant
NotYetRecorded(u, new) == {s \in new : <<u, s>> \notin history}
PointsOf(new, tot) == MapThenSumSet(LAMBDA s : tot[s], new)

Recorded(u, new, tot) ==
  /\ history' = history \cup {<<u, s>> : s \in new}
  /\ lifetime' = [lifetime EXCEPT ![u] = @ + PointsOf(NotYetRecorded(u, new), tot)]

(***************************************************************************)
(* Starting a game.                                                        *)
(***************************************************************************)
Init ==
  /\ today = 1 /\ login = [v \in Visitors |-> Nobody]
  /\ owner = [s \in Sessions |-> Nobody] /\ device = [s \in Sessions |-> Nobody]
  /\ day = [s \in Sessions |-> NotDaily] /\ round = [s \in Sessions |-> 0]
  /\ total = [s \in Sessions |-> 0] /\ done = {}
  /\ guessed = {}
  /\ plays = {} /\ playUser = [s \in Sessions |-> Nobody] /\ finished = {}
  /\ streak = [u \in Users |-> [cur |-> 0, best |-> 0, last |-> Never]]
  /\ history = {} /\ lifetime = [u \in Users |-> 0]
  /\ faults = 0

Started(v, s, d) ==
  /\ Unused(s)
  /\ device' = [device EXCEPT ![s] = v]
  /\ owner' = [owner EXCEPT ![s] = login[v]]
  /\ day' = [day EXCEPT ![s] = d]
  /\ round' = [round EXCEPT ![s] = 1]
  /\ UNCHANGED <<clock, total, done, guessed, daily, credit, faults>>

StartGame(v, s) == Started(v, s, NotDaily)

\* POST /daily/start refuses who has a play of today; the play itself is only
\* inserted with the first guess.
StartDailyGame(v, s) ==
  /\ FitsIndexes(login[v], v, today)
  /\ Started(v, s, today)

(***************************************************************************)
(* Guessing.                                                               *)
(***************************************************************************)
IsLastRound(s)   == round[s] >= RoundsOf(s)

\* submitGuess and the route's recording of a finished game, stopped after the
\* first n of their six writes.
GuessWrites(v, s, n) ==
  LET last  == IsLastRound(s)
      ends  == last /\ day[s] # NotDaily
      u     == owner[s]
      total2 == [total EXCEPT ![s] = @ + 1]
  IN
  /\ plays' = IF n >= 1 /\ FirstOfDaily(s) THEN plays \cup {s} ELSE plays
  /\ playUser' = IF n >= 1 /\ FirstOfDaily(s) THEN [playUser EXCEPT ![s] = u] ELSE playUser
  /\ guessed' = IF n >= 2 THEN guessed \cup {<<s, round[s]>>} ELSE guessed
  /\ total' = IF n >= 3 THEN total2 ELSE total
  /\ done' = IF n >= 3 /\ last THEN done \cup {s} ELSE done
  /\ round' = IF n >= 3 /\ ~last THEN [round EXCEPT ![s] = @ + 1] ELSE round
  /\ streak' = IF n >= 4 /\ ends /\ u # Nobody
               THEN [streak EXCEPT ![u] = Extended(@, day[s])] ELSE streak
  /\ finished' = IF n >= 5 /\ ends THEN finished \cup {s} ELSE finished
  /\ IF n >= 6 /\ last /\ login[v] # Nobody
     THEN Recorded(login[v], {s}, total2)
     ELSE UNCHANGED credit

Guessable(v, s) ==
  /\ device[s] = v /\ round[s] > 0 /\ OwnerAgrees(v, s)
  /\ s \notin done /\ <<s, round[s]>> \notin guessed
  /\ FirstOfDaily(s) => MayCommit(s)

\* A guess earns one point, so that a sum of scores counts guesses.
Guess(v, s) ==
  /\ Guessable(v, s)
  /\ GuessWrites(v, s, 6)
  /\ UNCHANGED <<clock, owner, device, day, faults>>

\* A malformed guess is rejected after the play was inserted.
GuessRejected(v, s) ==
  /\ Guessable(v, s) /\ FirstOfDaily(s)
  /\ GuessWrites(v, s, 1)
  /\ UNCHANGED <<clock, owner, device, day, faults>>

CrashInGuess(v, s, n) ==
  /\ Guessable(v, s)
  /\ faults < MaxFaults /\ faults' = faults + 1
  /\ GuessWrites(v, s, n)
  /\ UNCHANGED <<clock, owner, device, day>>

\* A seat in a daily room keeps the login with which it was taken; a room that
\* was opened before midnight may be joined after it.
EnterDailyRoom(v, s, d) ==
  /\ Unused(s) /\ FitsIndexes(login[v], v, d)
  /\ device' = [device EXCEPT ![s] = v]
  /\ owner' = [owner EXCEPT ![s] = login[v]]
  /\ day' = [day EXCEPT ![s] = d]
  /\ UNCHANGED <<clock, round, total, done, guessed, daily, credit, faults>>

\* recordDailyPlaysForRoom inserts a finished play, if the indexes let it, and
\* then moves the streak.
DailyRoomEnds(s, withStreak) ==
  /\ InDailyRoom(s) /\ MayCommit(s)
  /\ plays' = plays \cup {s} /\ finished' = finished \cup {s}
  /\ playUser' = [playUser EXCEPT ![s] = owner[s]]
  /\ total' = [total EXCEPT ![s] = 1]
  /\ streak' = IF withStreak /\ owner[s] # Nobody
               THEN [streak EXCEPT ![owner[s]] = Extended(@, day[s])] ELSE streak
  /\ faults' = IF withStreak THEN faults ELSE faults + 1
  /\ faults' <= MaxFaults
  /\ UNCHANGED <<clock, owner, device, day, round, done, guessed, credit>>

(***************************************************************************)
(* Logging in: what was played on this browser without a login is claimed. *)
(***************************************************************************)
AnonPlays(v) == {p \in plays : device[p] = v /\ playUser[p] = Nobody}
AllPlaysOf(v, u)         == {p \in plays : device[p] = v}             \* mutant
AnonPlaysWithClash(v, u) == AnonPlays(v)                             \* mutant
PlaysToClaim(v, u)       == {p \in AnonPlays(v) : day[p] \notin DaysPlayed(u)}

\* claimAnonymousDailyPlays.
ClaimDailyPlays(v, u) ==
  LET mine    == PlaysToClaim(v, u)
      newDays == {d \in {day[p] : p \in mine \cap finished} : d > streak[u].last}
  IN
  /\ playUser' = [p \in Sessions |-> IF p \in mine THEN u ELSE playUser[p]]
  /\ streak' = [streak EXCEPT ![u] = Replayed(@, newDays)]

\* claimAnonymousGameHistory.
SessionsToClaim(v) ==
  {s \in done : device[s] = v /\ owner[s] = Nobody /\ day[s] = NotDaily}

ClaimGameHistory(v, u) ==
  /\ Recorded(u, SessionsToClaim(v), total)
  /\ owner' = [s \in Sessions |-> IF s \in SessionsToClaim(v) THEN u ELSE owner[s]]

Login(v, u) ==
  /\ login' = [login EXCEPT ![v] = u]
  /\ ClaimDailyPlays(v, u)
  /\ ClaimGameHistory(v, u)
  /\ UNCHANGED <<today, device, day, round, total, done, guessed, plays, finished, faults>>

CrashInLogin(v, u) ==
  /\ faults < MaxFaults /\ faults' = faults + 1
  /\ ClaimDailyPlays(v, u)
  /\ UNCHANGED <<clock, sessions, guessed, plays, finished, credit>>

Logout(v) ==
  /\ login[v] # Nobody
  /\ login' = [login EXCEPT ![v] = Nobody]
  /\ UNCHANGED <<today, sessions, guessed, daily, credit, faults>>

(***************************************************************************)
(* Time.                                                                   *)
(***************************************************************************)
Midnight ==
  /\ today < LastDay /\ today' = today + 1
  /\ UNCHANGED <<login, sessions, guessed, daily, credit, faults>>

\* decayStaleStreaks, in every tick of the notification scheduler.
DecayStaleStreaks ==
  /\ \E u \in Users : Stale(u)
  /\ streak' = [u \in Users |-> IF Stale(u) THEN [streak[u] EXCEPT !.cur = 0] ELSE streak[u]]
  /\ UNCHANGED <<clock, sessions, guessed, plays, playUser, finished, credit, faults>>

(***************************************************************************)
(* The specification.                                                      *)
(***************************************************************************)
Play(v, s) ==
  \/ StartGame(v, s) \/ StartDailyGame(v, s) \/ GuessRejected(v, s)
  \/ Guess(v, s) \/ \E n \in 1 .. 5 : CrashInGuess(v, s, n)
  \/ \E d \in {today - 1, today} \cap Days : EnterDailyRoom(v, s, d)

Next ==
  \/ \E v \in Visitors, s \in Sessions : Play(v, s)
  \/ \E s \in Sessions, withStreak \in BOOLEAN : DailyRoomEnds(s, withStreak)
  \/ \E v \in Visitors, u \in Users : Login(v, u) \/ CrashInLogin(v, u)
  \/ \E v \in Visitors : Logout(v)
  \/ Midnight \/ DecayStaleStreaks

Spec == Init /\ [][Next]_vars

GamesTyped ==
  /\ today \in Days /\ login \in [Visitors -> Users \cup {Nobody}]
  /\ owner \in [Sessions -> Users \cup {Nobody}] /\ device \in [Sessions -> Visitors \cup {Nobody}]
  /\ day \in [Sessions -> Days \cup {NotDaily}]
  /\ round \in [Sessions -> Nat] /\ \A s \in Sessions : round[s] <= RoundsOf(s)
  /\ total \in [Sessions -> Nat]
  /\ done \subseteq Sessions /\ guessed \subseteq Sessions \X Nat
  /\ plays \subseteq Sessions /\ finished \subseteq plays
  /\ playUser \in [Sessions -> Users \cup {Nobody}]
  /\ history \subseteq Users \X Sessions /\ faults \in 0 .. MaxFaults

TypeOK ==
  /\ GamesTyped /\ lifetime \in [Users -> Nat]
  /\ streak \in [Users -> [cur : Nat, best : Nat, last : Days \cup {Never}]]
=============================================================================
