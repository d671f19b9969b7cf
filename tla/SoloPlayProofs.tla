--------------------------- MODULE SoloPlayProofs ---------------------------
(* Theorems about SoloPlay, for any accounts, browsers, sessions and days. *)
EXTENDS SoloPlayProps, FiniteSetTheorems, TLAPS

(***************************************************************************)
(* The inductive invariant.                                                *)
(***************************************************************************)

\* An id nobody has taken is in no table.
Untouched ==
  \A s \in Sessions : Unused(s) => round[s] = 0 /\ s \notin plays /\ s \notin done

\* A finished play was played in a room, or its session is complete: no guess
\* can reach it any more.
FinishedIsDone == \A p \in finished : round[p] > 0 => p \in done

\* Every round before the current one has its guess, and that of a complete
\* session too.
RoundsRecorded ==
  /\ \A s \in Sessions : \A r \in 1 .. (round[s] - 1) : <<s, r>> \in guessed
  /\ \A s \in done : round[s] = RoundsOf(s) /\ <<s, round[s]>> \in guessed

\* A daily session past its first round has its play.
PlayIsCommitted ==
  \A s \in Sessions : round[s] > 1 /\ day[s] # NotDaily => s \in plays

OnlyDoneCredited == \A h \in history : h[2] \in done

IInv ==
  /\ GamesTyped /\ Untouched /\ FinishedIsDone /\ RoundsRecorded
  /\ PlayIsCommitted /\ OncePerDay /\ OnlyDoneCredited

(***************************************************************************)
(* Steps.                                                                  *)
(***************************************************************************)

\* The writes of a guess, however many of them were done.
LEMMA GuessStep ==
  ASSUME IInv, NEW v \in Visitors, NEW s \in Sessions, NEW n \in 1 .. 6,
         Guessable(v, s), GuessWrites(v, s, n),
         UNCHANGED <<clock, owner, device, day>>, faults' \in 0 .. MaxFaults
  PROVE  IInv' /\ PlaysKept
<1>1. /\ GamesTyped /\ Untouched /\ FinishedIsDone /\ RoundsRecorded
      /\ PlayIsCommitted /\ OncePerDay /\ OnlyDoneCredited
  BY DEF IInv
<1>2. today' = today /\ login' = login /\ owner' = owner /\ device' = device /\ day' = day
  BY DEF clock
<1>3. RoundsOf(s) \in Nat \ {0} /\ \A t \in Sessions : RoundsOf(t)' = RoundsOf(t)
  BY <1>2, SoloConstantsOK DEF SoloConstantsOK, RoundsOf
<1>4. /\ round[s] \in Nat \ {0} /\ s \notin done /\ round[s] <= RoundsOf(s)
      /\ device[s] # Nobody
  BY <1>1, SoloConstantsOK DEF Guessable, GamesTyped, SoloConstantsOK
<1>5. IsLastRound(s) <=> round[s] = RoundsOf(s)
  BY <1>3, <1>4 DEF IsLastRound
<1>6. \/ plays' = plays /\ playUser' = playUser
      \/ /\ s \notin plays /\ FitsIndexes(owner[s], device[s], day[s]) /\ day[s] # NotDaily
         /\ plays' = plays \cup {s} /\ playUser' = [playUser EXCEPT ![s] = owner[s]]
  BY DEF GuessWrites, Guessable, FirstOfDaily, MayCommit
<1>7. guessed' = guessed \/ guessed' = guessed \cup {<<s, round[s]>>}
  BY DEF GuessWrites
<1>8. day[s] # NotDaily => s \in plays'
  <2>1. CASE round[s] = 1
    BY <2>1 DEF GuessWrites, FirstOfDaily
  <2>2. CASE round[s] > 1
    BY <2>2, <1>1, <1>6 DEF PlayIsCommitted
  <2> QED BY <2>1, <2>2, <1>4
<1>9. \/ round' = round /\ done' = done /\ total' = total
      \/ /\ round[s] < RoundsOf(s) /\ <<s, round[s]>> \in guessed'
         /\ round' = [round EXCEPT ![s] = @ + 1] /\ done' = done
         /\ total' = [total EXCEPT ![s] = @ + 1]
      \/ /\ round[s] = RoundsOf(s) /\ <<s, round[s]>> \in guessed'
         /\ round' = round /\ done' = done \cup {s}
         /\ total' = [total EXCEPT ![s] = @ + 1]
  <2>1. CASE n >= 3 /\ IsLastRound(s)
    BY <2>1, <1>5 DEF GuessWrites
  <2>2. CASE n >= 3 /\ ~IsLastRound(s)
    BY <2>2, <1>3, <1>4, <1>5 DEF GuessWrites
  <2>3. CASE ~(n >= 3)
    BY <2>3 DEF GuessWrites
  <2> QED BY <2>1, <2>2, <2>3
<1>10. \/ finished' = finished
       \/ finished' = finished \cup {s} /\ s \in plays' /\ s \in done'
  BY <1>8 DEF GuessWrites
<1>11. \/ history' = history
       \/ \E u \in Users : history' = history \cup {<<u, s>>} /\ s \in done'
  <2>1. CASE n >= 6 /\ IsLastRound(s) /\ login[v] # Nobody
    <3>1. login[v] \in Users
      BY <2>1, <1>1 DEF GamesTyped
    <3>2. s \in done'
      BY <2>1 DEF GuessWrites
    <3>3. history' = history \cup {<<login[v], s>>}
      BY <2>1 DEF GuessWrites, Recorded
    <3> QED BY <3>1, <3>2, <3>3
  <2>2. CASE ~(n >= 6 /\ IsLastRound(s) /\ login[v] # Nobody)
    BY <2>2 DEF GuessWrites, credit
  <2> QED BY <2>1, <2>2
<1>12. GamesTyped'
  <2>1. plays' \subseteq Sessions /\ playUser' \in [Sessions -> Users \cup {Nobody}]
    BY <1>1, <1>6 DEF GamesTyped
  <2>2. finished' \subseteq plays'
    BY <1>1, <1>6, <1>10 DEF GamesTyped
  <2>3. done' \subseteq Sessions /\ guessed' \subseteq Sessions \X Nat
    BY <1>1, <1>4, <1>7, <1>9 DEF GamesTyped
  <2>4. /\ round' \in [Sessions -> Nat] /\ total' \in [Sessions -> Nat]
        /\ \A t \in Sessions : round'[t] <= RoundsOf(t)
    BY <1>1, <1>3, <1>4, <1>9 DEF GamesTyped
  <2>5. history' \subseteq Users \X Sessions
    BY <1>1, <1>11 DEF GamesTyped
  <2> QED BY <1>1, <1>2, <1>3, <2>1, <2>2, <2>3, <2>4, <2>5 DEF GamesTyped, Days
<1>13. Untouched'
  BY <1>1, <1>2, <1>4, <1>6, <1>9 DEF Untouched, Unused, GamesTyped
<1>14. FinishedIsDone'
  BY <1>1, <1>4, <1>9, <1>10 DEF FinishedIsDone, GamesTyped
<1>15. RoundsRecorded'
  BY <1>1, <1>3, <1>4, <1>7, <1>9 DEF RoundsRecorded, GamesTyped
<1>16. PlayIsCommitted'
  BY <1>1, <1>2, <1>6, <1>8, <1>9 DEF PlayIsCommitted, GamesTyped
<1>17. OncePerDay'
  BY <1>1, <1>2, <1>6 DEF OncePerDay, FitsIndexes, PlaysOn, GamesTyped
<1>18. OnlyDoneCredited'
  BY <1>1, <1>9, <1>11 DEF OnlyDoneCredited
<1>19. PlaysKept
  BY <1>1, <1>4, <1>6, <1>9, <1>10 DEF PlaysKept, FinishedIsDone, GamesTyped
<1> QED BY <1>12, <1>13, <1>14, <1>15, <1>16, <1>17, <1>18, <1>19 DEF IInv

\* A session is started, or a seat in a daily room taken: only an unused id
\* changes its row.
LEMMA TakeStep ==
  ASSUME IInv, NEW v \in Visitors, NEW s \in Sessions, NEW d \in Days \cup {NotDaily},
         NEW r \in {0, 1}, Unused(s), device' = [device EXCEPT ![s] = v],
         owner' = [owner EXCEPT ![s] = login[v]], day' = [day EXCEPT ![s] = d],
         round' = [round EXCEPT ![s] = r],
         UNCHANGED <<clock, total, done, guessed, daily, credit, faults>>
  PROVE  IInv' /\ PlaysKept
<1>1. /\ GamesTyped /\ Untouched /\ FinishedIsDone /\ RoundsRecorded
      /\ PlayIsCommitted /\ OncePerDay /\ OnlyDoneCredited
  BY DEF IInv
<1>2. round[s] = 0 /\ s \notin plays /\ s \notin done /\ s \notin finished
  BY <1>1 DEF Untouched, GamesTyped
<1>3. \A t \in Sessions : t # s =>
        day'[t] = day[t] /\ device'[t] = device[t] /\ round'[t] = round[t] /\ RoundsOf(t)' = RoundsOf(t)
  BY <1>1 DEF GamesTyped, RoundsOf
<1>4. RoundsOf(s)' \in Nat \ {0}
  BY SoloConstantsOK DEF SoloConstantsOK, RoundsOf
<1>5. GamesTyped'
  <2>1. /\ owner' \in [Sessions -> Users \cup {Nobody}] /\ device' \in [Sessions -> Visitors \cup {Nobody}]
        /\ day' \in [Sessions -> Days \cup {NotDaily}] /\ round' \in [Sessions -> Nat]
    BY <1>1 DEF GamesTyped
  <2>2. \A t \in Sessions : round'[t] <= RoundsOf(t)'
    BY <1>1, <1>3, <1>4 DEF GamesTyped
  <2> QED BY <1>1, <2>1, <2>2 DEF GamesTyped, clock, daily, credit, Days
<1>6. Untouched'
  BY <1>1, <1>3, SoloConstantsOK DEF Untouched, Unused, GamesTyped, daily, SoloConstantsOK
<1>7. FinishedIsDone' /\ OnlyDoneCredited'
  BY <1>1, <1>2, <1>3 DEF FinishedIsDone, OnlyDoneCredited, GamesTyped, daily, credit
<1>8. RoundsRecorded'
  BY <1>1, <1>2, <1>3 DEF RoundsRecorded, GamesTyped
<1>9. PlayIsCommitted' /\ OncePerDay'
  BY <1>1, <1>2, <1>3 DEF PlayIsCommitted, OncePerDay, GamesTyped, daily
<1>10. PlaysKept
  BY <1>1 DEF PlaysKept, daily
<1> QED BY <1>5, <1>6, <1>7, <1>8, <1>9, <1>10 DEF IInv

\* The end of a daily room inserts one play, for a seat that had none.
LEMMA RoomStep ==
  ASSUME IInv, NEW s \in Sessions, NEW withStreak \in BOOLEAN, DailyRoomEnds(s, withStreak)
  PROVE  IInv' /\ PlaysKept
<1>1. /\ GamesTyped /\ Untouched /\ FinishedIsDone /\ RoundsRecorded
      /\ PlayIsCommitted /\ OncePerDay /\ OnlyDoneCredited
  BY DEF IInv
<1>2. /\ device[s] # Nobody /\ round[s] = 0 /\ s \notin plays
      /\ FitsIndexes(owner[s], device[s], day[s])
      /\ plays' = plays \cup {s} /\ finished' = finished \cup {s}
      /\ playUser' = [playUser EXCEPT ![s] = owner[s]]
      /\ total' = [total EXCEPT ![s] = 1]
      /\ today' = today /\ login' = login /\ owner' = owner /\ device' = device /\ day' = day
      /\ round' = round /\ done' = done /\ guessed' = guessed /\ history' = history
  BY DEF DailyRoomEnds, InDailyRoom, MayCommit, clock, credit
<1>3. faults' \in 0 .. MaxFaults
  BY <1>1, SoloConstantsOK DEF DailyRoomEnds, GamesTyped, SoloConstantsOK
<1>4. \A t \in Sessions : RoundsOf(t)' = RoundsOf(t)
  BY <1>2 DEF RoundsOf
<1>5. GamesTyped'
  BY <1>1, <1>2, <1>3, <1>4 DEF GamesTyped, Days
<1>6. Untouched' /\ FinishedIsDone' /\ PlayIsCommitted' /\ OnlyDoneCredited'
  BY <1>1, <1>2 DEF Untouched, Unused, FinishedIsDone, PlayIsCommitted, OnlyDoneCredited
<1>7. RoundsRecorded'
  BY <1>1, <1>2, <1>4 DEF RoundsRecorded, GamesTyped
<1>8. OncePerDay'
  BY <1>1, <1>2 DEF OncePerDay, FitsIndexes, PlaysOn, GamesTyped
<1>9. PlaysKept
  BY <1>1, <1>2 DEF PlaysKept, GamesTyped
<1> QED BY <1>5, <1>6, <1>7, <1>8, <1>9 DEF IInv

\* A login claims plays, and sessions unless it is stopped in between.
LEMMA ClaimStep ==
  ASSUME IInv, NEW v \in Visitors, NEW u \in Users, Login(v, u) \/ CrashInLogin(v, u)
  PROVE  IInv' /\ PlaysKept
<1>1. /\ GamesTyped /\ Untouched /\ FinishedIsDone /\ RoundsRecorded
      /\ PlayIsCommitted /\ OncePerDay /\ OnlyDoneCredited
  BY DEF IInv
<1>2. /\ today' = today /\ device' = device /\ day' = day /\ round' = round
      /\ total' = total /\ done' = done /\ guessed' = guessed
      /\ plays' = plays /\ finished' = finished
  BY DEF Login, CrashInLogin, clock, sessions
<1>3. playUser' = [p \in Sessions |-> IF p \in PlaysToClaim(v, u) THEN u ELSE playUser[p]]
  BY DEF Login, CrashInLogin, ClaimDailyPlays
<1>4. \A p \in PlaysToClaim(v, u) :
        /\ p \in plays /\ device[p] = v /\ playUser[p] = Nobody
        /\ \A q \in plays : day[q] = day[p] => playUser[q] # u
  BY DEF PlaysToClaim, AnonPlays, DaysPlayed
<1>5. /\ login' \in [Visitors -> Users \cup {Nobody}] /\ owner' \in [Sessions -> Users \cup {Nobody}]
      /\ faults' \in 0 .. MaxFaults
  <2>1. CASE Login(v, u)
    BY <2>1, <1>1 DEF Login, ClaimGameHistory, GamesTyped
  <2>2. CASE CrashInLogin(v, u)
    BY <2>2, <1>1, SoloConstantsOK DEF CrashInLogin, GamesTyped, clock, sessions, SoloConstantsOK
  <2> QED BY <2>1, <2>2
<1>6. history' \subseteq Users \X Sessions /\ \A h \in history' : h \in history \/ h[2] \in done
  <2>1. CASE Login(v, u)
    <3>1. history' = history \cup {<<u, s>> : s \in SessionsToClaim(v)}
      BY <2>1 DEF Login, ClaimGameHistory, Recorded
    <3>2. SessionsToClaim(v) \subseteq done /\ done \subseteq Sessions
      BY <1>1 DEF SessionsToClaim, GamesTyped
    <3> QED BY <1>1, <3>1, <3>2 DEF GamesTyped
  <2>2. CASE CrashInLogin(v, u)
    BY <2>2, <1>1 DEF CrashInLogin, GamesTyped, credit
  <2> QED BY <2>1, <2>2
<1>7. \A t \in Sessions : RoundsOf(t)' = RoundsOf(t)
  BY <1>2 DEF RoundsOf
<1>8. GamesTyped'
  BY <1>1, <1>2, <1>3, <1>5, <1>6, <1>7 DEF GamesTyped, Days
<1>9. Untouched' /\ FinishedIsDone' /\ PlayIsCommitted'
  BY <1>1, <1>2 DEF Untouched, Unused, FinishedIsDone, PlayIsCommitted
<1>10. RoundsRecorded'
  BY <1>1, <1>2, <1>7 DEF RoundsRecorded, GamesTyped
<1>11. OnlyDoneCredited'
  BY <1>1, <1>2, <1>6 DEF OnlyDoneCredited
<1>12. OncePerDay'
  <2> SUFFICES ASSUME NEW p \in plays, NEW q \in plays, p # q, day[p] = day[q]
               PROVE  device[p] # device[q] /\ (playUser'[p] = Nobody \/ playUser'[p] # playUser'[q])
    BY <1>2 DEF OncePerDay
  <2>1. device[p] # device[q] /\ (playUser[p] = Nobody \/ playUser[p] # playUser[q])
    BY <1>1 DEF OncePerDay
  <2>2. p \in Sessions /\ q \in Sessions /\ u # Nobody
    BY <1>1, SoloConstantsOK DEF GamesTyped, SoloConstantsOK
  <2>3. CASE p \in PlaysToClaim(v, u)
    BY <2>1, <2>2, <2>3, <1>3, <1>4
  <2>4. CASE p \notin PlaysToClaim(v, u)
    BY <2>1, <2>2, <2>4, <1>3, <1>4
  <2> QED BY <2>3, <2>4
<1>13. PlaysKept
  BY <1>1, <1>2, <1>3, <1>4 DEF PlaysKept, GamesTyped
<1> QED BY <1>8, <1>9, <1>10, <1>11, <1>12, <1>13 DEF IInv

\* Nothing else touches a session or a play.
LEMMA QuietStep ==
  ASSUME IInv, today' \in Days, login' \in [Visitors -> Users \cup {Nobody}],
         UNCHANGED <<sessions, guessed, plays, playUser, finished, history, faults>>
  PROVE  IInv' /\ PlaysKept
<1>1. /\ GamesTyped /\ Untouched /\ FinishedIsDone /\ RoundsRecorded
      /\ PlayIsCommitted /\ OncePerDay /\ OnlyDoneCredited
  BY DEF IInv
<1>2. \A t \in Sessions : RoundsOf(t)' = RoundsOf(t)
  BY DEF RoundsOf, sessions
<1>3. GamesTyped'
  BY <1>1, <1>2 DEF GamesTyped, sessions, Days
<1>4. Untouched' /\ FinishedIsDone' /\ PlayIsCommitted' /\ OncePerDay' /\ OnlyDoneCredited'
  BY <1>1 DEF Untouched, Unused, FinishedIsDone, PlayIsCommitted, OncePerDay, OnlyDoneCredited, sessions
<1>5. RoundsRecorded'
  BY <1>1, <1>2 DEF RoundsRecorded, GamesTyped, sessions
<1>6. PlaysKept
  BY <1>1 DEF PlaysKept, sessions
<1> QED BY <1>3, <1>4, <1>5, <1>6 DEF IInv

(***************************************************************************)
(* The invariant holds.                                                    *)
(***************************************************************************)

LEMMA InitInvariant ==
  ASSUME Init PROVE IInv
<1>1. GamesTyped
  BY SoloConstantsOK DEF Init, GamesTyped, SoloConstantsOK, Days, RoundsOf
<1> QED BY <1>1 DEF Init, IInv, Untouched, FinishedIsDone, RoundsRecorded, PlayIsCommitted,
                    OncePerDay, OnlyDoneCredited

LEMMA NextInvariant ==
  ASSUME IInv, [Next]_vars PROVE IInv' /\ (PlaysKept \/ UNCHANGED vars)
<1>1. GamesTyped
  BY DEF IInv
<1>2. ASSUME NEW v \in Visitors, NEW s \in Sessions, Play(v, s) PROVE IInv' /\ PlaysKept
  <2>1. CASE StartGame(v, s)
    BY <2>1, TakeStep DEF StartGame, Started
  <2>2. CASE StartDailyGame(v, s)
    BY <2>2, <1>1, TakeStep DEF StartDailyGame, Started, GamesTyped
  <2>3. CASE \E d \in {today - 1, today} \cap Days : EnterDailyRoom(v, s, d)
    <3>1. PICK d \in Days : EnterDailyRoom(v, s, d)
      BY <2>3
    <3>2. round' = [round EXCEPT ![s] = 0]
      BY <3>1, <1>1 DEF EnterDailyRoom, IInv, Untouched, GamesTyped
    <3> QED BY <3>1, <3>2, TakeStep DEF EnterDailyRoom
  <2>4. CASE Guess(v, s) \/ GuessRejected(v, s)
    BY <2>4, <1>1, GuessStep DEF Guess, GuessRejected, GamesTyped
  <2>5. CASE \E n \in 1 .. 5 : CrashInGuess(v, s, n)
    <3>1. PICK n \in 1 .. 6 : CrashInGuess(v, s, n)
      BY <2>5
    <3>2. faults' \in 0 .. MaxFaults
      BY <3>1, <1>1, SoloConstantsOK DEF CrashInGuess, GamesTyped, SoloConstantsOK
    <3> QED BY <3>1, <3>2, GuessStep DEF CrashInGuess
  <2> QED BY <1>2, <2>1, <2>2, <2>3, <2>4, <2>5 DEF Play
<1>3. ASSUME NEW v \in Visitors, Logout(v) PROVE IInv' /\ PlaysKept
  BY <1>1, <1>3, QuietStep DEF Logout, GamesTyped, daily, credit
<1>4. CASE Midnight
  BY <1>1, <1>4, QuietStep, SoloConstantsOK DEF Midnight, GamesTyped, Days, SoloConstantsOK, daily, credit
<1>5. CASE DecayStaleStreaks
  BY <1>1, <1>5, QuietStep DEF DecayStaleStreaks, GamesTyped, clock, credit
<1>6. CASE UNCHANGED vars
  BY <1>1, <1>6, QuietStep DEF vars, clock, daily, credit, GamesTyped
<1> QED BY <1>2, <1>3, <1>4, <1>5, <1>6, RoomStep, ClaimStep DEF Next

LEMMA Invariance == Spec => []IInv
<1>1. Init => IInv
  BY InitInvariant
<1>2. IInv /\ [Next]_vars => IInv'
  BY NextInvariant
<1> QED BY <1>1, <1>2, PTL DEF Spec

(***************************************************************************)
(* Sums of scores.  PointsOf is a fold over a set whose elements are taken *)
(* in any order; these lemmas say that it is the sum.  The induction is    *)
(* over a set of numbers: it has a least element.                          *)
(***************************************************************************)

LEMMA LeastNumber ==
  ASSUME NEW T \in SUBSET Nat, T # {}
  PROVE  \E m \in T : \A n \in T : m <= n
<1> DEFINE R == StrictSubsetOrdering(Nat)
           F == {0 .. n : n \in T}
<1>1. IsWellFoundedOn(R, FiniteSubsetsOf(Nat))
  BY FS_StrictSubsetOrderingWellFounded
<1>2. F \subseteq FiniteSubsetsOf(Nat) /\ F # {}
  <2>1. \A n \in T : 0 .. n \in FiniteSubsetsOf(Nat)
    BY FS_Interval DEF FiniteSubsetsOf
  <2> QED BY <2>1
<1>3. PICK I \in F : \A J \in F : <<J, I>> \notin R
  <2> HIDE DEF R, F
  <2> QED BY <1>1, <1>2, WFMin
<1>4. PICK m \in T : I = 0 .. m
  OBVIOUS
<1>5. ASSUME NEW n \in T, n < m PROVE FALSE
  <2>1. 0 .. n \subseteq 0 .. m /\ m \in 0 .. m /\ m \notin 0 .. n
    BY <1>5
  <2>2. <<0 .. n, 0 .. m>> \in R
    BY <2>1 DEF StrictSubsetOrdering
  <2> QED BY <1>3, <1>4, <2>2
<1> QED BY <1>5

LEMMA Induction ==
  ASSUME NEW G, 0 \in G, \A n \in Nat : n \in G => n + 1 \in G
  PROVE  Nat \subseteq G
<1> SUFFICES ASSUME ~(Nat \subseteq G) PROVE FALSE
  OBVIOUS
<1>1. PICK m \in Nat \ G : \A n \in Nat \ G : m <= n
  BY LeastNumber
<1>2. m # 0 /\ m - 1 \in Nat
  BY <1>1
<1>3. m - 1 \in G
  BY <1>1, <1>2
<1> QED BY <1>1, <1>2, <1>3

First(T) == CHOOSE x \in T : TRUE

\* g is the recursive function that the fold of t over S evaluates.
Solves(g, S, t) ==
  \A T \in SUBSET S : g[T] = IF T = {} THEN 0 ELSE t[First(T)] + g[T \ {First(T)}]
SumsUp(g, S, t) == g \in [SUBSET S -> Nat] /\ Solves(g, S, t)

\* Finite sets lose a number of elements with each one taken.
LEMMA OneLess ==
  ASSUME NEW T, IsFiniteSet(T), T # {}
  PROVE  /\ First(T) \in T
         /\ \A x \in T : /\ IsFiniteSet(T \ {x}) /\ Cardinality(T \ {x}) \in Nat
                         /\ Cardinality(T) = Cardinality(T \ {x}) + 1
<1>1. First(T) \in T
  BY DEF First
<1>2. Cardinality(T) \in Nat
  BY FS_CardinalityType
<1>3. ASSUME NEW x \in T
      PROVE  /\ IsFiniteSet(T \ {x}) /\ Cardinality(T \ {x}) \in Nat
             /\ Cardinality(T) = Cardinality(T \ {x}) + 1
  <2>1. IsFiniteSet(T \ {x}) /\ Cardinality(T \ {x}) = Cardinality(T) - 1
    BY FS_RemoveElement
  <2>2. Cardinality(T \ {x}) \in Nat
    BY <2>1, FS_CardinalityType
  <2> QED BY <1>2, <2>1, <2>2
<1> QED BY <1>1, <1>3

\* The recursion has a solution, built up by the size of the sets.
LEMMA SumExists ==
  ASSUME NEW S, IsFiniteSet(S), NEW t, \A s \in S : t[s] \in Nat
  PROVE  \E g : SumsUp(g, S, t)
<1> DEFINE Body(g, T) == IF T = {} THEN 0 ELSE t[First(T)] + g[T \ {First(T)}]
           Upto(g, n) == \A T \in SUBSET S : Cardinality(T) <= n => g[T] = Body(g, T)
           G == {n \in Nat : \E g \in [SUBSET S -> Nat] : Upto(g, n)}
<1>1. \A T \in SUBSET S : IsFiniteSet(T) /\ Cardinality(T) \in Nat
  BY FS_Subset, FS_CardinalityType
<1>2. 0 \in G
  <2> DEFINE g0 == [T \in SUBSET S |-> 0]
  <2>1. \A T \in SUBSET S : Cardinality(T) <= 0 => T = {}
    BY <1>1, FS_EmptySet
  <2>2. Upto(g0, 0) /\ g0 \in [SUBSET S -> Nat]
    BY <2>1
  <2> QED BY <2>2
<1>3. ASSUME NEW n \in Nat, n \in G PROVE n + 1 \in G
  <2>1. PICK g \in [SUBSET S -> Nat] : Upto(g, n)
    BY <1>3
  <2> DEFINE h == [T \in SUBSET S |-> IF Cardinality(T) = n + 1 THEN Body(g, T) ELSE g[T]]
  <2>2. h \in [SUBSET S -> Nat]
    <3>1. \A T \in SUBSET S : Body(g, T) \in Nat
      BY <1>1, OneLess
    <3> QED BY <3>1
  <2>3. ASSUME NEW T \in SUBSET S, Cardinality(T) <= n + 1
        PROVE  h[T] = Body(h, T)
    <3>1. CASE T = {}
      <4>1. Cardinality(T) = 0
        BY <3>1, FS_EmptySet
      <4> QED BY <2>1, <3>1, <4>1
    <3>2. CASE T # {}
      <4>1. /\ First(T) \in T /\ Cardinality(T) = Cardinality(T \ {First(T)}) + 1
            /\ Cardinality(T \ {First(T)}) \in Nat
        BY <1>1, <3>2, OneLess
      <4>2. T \ {First(T)} \in SUBSET S /\ h[T \ {First(T)}] = g[T \ {First(T)}]
        BY <2>3, <4>1
      <4>3. CASE Cardinality(T) = n + 1
        BY <3>2, <4>2, <4>3
      <4>4. CASE Cardinality(T) # n + 1
        <5>1. Cardinality(T) <= n
          BY <2>3, <1>1, <4>4
        <5> QED BY <2>1, <3>2, <4>2, <4>4, <5>1
      <4> QED BY <4>3, <4>4
    <3> QED BY <3>1, <3>2
  <2>4. Upto(h, n + 1)
    BY <2>3
  <2> HIDE DEF h, Upto
  <2> QED BY <2>2, <2>4
<1>4. Cardinality(S) \in G
  <2> HIDE DEF G
  <2> QED BY <1>1, <1>2, <1>3, Induction
<1>5. PICK g \in [SUBSET S -> Nat] : Upto(g, Cardinality(S))
  BY <1>4
<1>6. \A T \in SUBSET S : Cardinality(T) <= Cardinality(S)
  BY FS_Subset
<1> QED BY <1>5, <1>6 DEF SumsUp, Solves

\* Two solutions agree where they are defined, for scores that agree: the
\* elements are taken in the same order.
LEMMA SumUnique ==
  ASSUME NEW S, NEW R, NEW t, NEW q, NEW g, NEW h, IsFiniteSet(S),
         Solves(g, S, t), Solves(h, R, q)
  PROVE  \A T \in SUBSET (S \cap R) : (\A s \in T : t[s] = q[s]) => g[T] = h[T]
<1> DEFINE Agree(n) == \A T \in SUBSET (S \cap R) :
             Cardinality(T) = n /\ (\A s \in T : t[s] = q[s]) => g[T] = h[T]
           G == {n \in Nat : Agree(n)}
<1>1. \A T \in SUBSET (S \cap R) : IsFiniteSet(T) /\ Cardinality(T) \in Nat
  BY FS_Subset, FS_CardinalityType
<1>2. 0 \in G
  <2>1. ASSUME NEW T \in SUBSET (S \cap R), Cardinality(T) = 0 PROVE g[T] = h[T]
    <3>1. T = {}
      BY <1>1, <2>1, FS_EmptySet
    <3> QED BY <3>1 DEF Solves
  <2> QED BY <2>1
<1>3. ASSUME NEW n \in Nat, n \in G PROVE n + 1 \in G
  <2>1. ASSUME NEW T \in SUBSET (S \cap R), Cardinality(T) = n + 1, \A s \in T : t[s] = q[s]
        PROVE  g[T] = h[T]
    <3>1. T # {}
      <4>1. Cardinality({}) = 0
        BY FS_EmptySet
      <4> QED BY <2>1, <4>1
    <3>2. First(T) \in T /\ Cardinality(T \ {First(T)}) = n
      BY <1>1, <2>1, <3>1, OneLess
    <3>3. g[T \ {First(T)}] = h[T \ {First(T)}]
      BY <1>3, <2>1, <3>2
    <3>4. t[First(T)] = q[First(T)]
      BY <2>1, <3>2
    <3>5. g[T] = t[First(T)] + g[T \ {First(T)}] /\ h[T] = q[First(T)] + h[T \ {First(T)}]
      BY <3>1 DEF Solves
    <3> QED BY <3>3, <3>4, <3>5
  <2>2. Agree(n + 1)
    BY <2>1
  <2> HIDE DEF Agree
  <2> QED BY <2>2
<1> QED
  <2> HIDE DEF G
  <2>1. Nat \subseteq G
    BY <1>2, <1>3, Induction
  <2> USE DEF G
  <2> QED BY <1>1, <2>1

\* PointsOf evaluates the solution.
LEMMA PointsAreSummed ==
  ASSUME NEW S, IsFiniteSet(S), NEW t, \A s \in S : t[s] \in Nat
  PROVE  \E g : SumsUp(g, S, t) /\ PointsOf(S, t) = g[S]
<1> DEFINE F(g) == [T \in SUBSET S |-> IF T = {} THEN 0 ELSE t[First(T)] + g[T \ {First(T)}]]
           iter == CHOOSE g : g = F(g)
<1>1. PICK g : SumsUp(g, S, t)
  BY SumExists
<1>2. g = F(g)
  BY <1>1 DEF SumsUp, Solves
<1>3. iter = F(iter)
  BY <1>2
<1>4. PointsOf(S, t) = iter[S]
  BY DEF PointsOf, MapThenSumSet, MapThenFoldSet, First
<1>5. g[S] = iter[S]
  <2>1. Solves(iter, S, t)
    BY <1>3 DEF Solves
  <2> HIDE DEF iter
  <2> QED BY <1>1, <2>1, SumUnique DEF SumsUp
<1> QED BY <1>1, <1>4, <1>5

\* An element may be taken out first.
LEMMA SumExchange ==
  ASSUME NEW S, IsFiniteSet(S), NEW t, \A s \in S : t[s] \in Nat, NEW g, SumsUp(g, S, t)
  PROVE  \A T \in SUBSET S : \A x \in T : g[T] = t[x] + g[T \ {x}]
<1> DEFINE Holds(n) == \A T \in SUBSET S : Cardinality(T) = n => \A x \in T : g[T] = t[x] + g[T \ {x}]
           G == {n \in Nat : Holds(n)}
<1>1. \A T \in SUBSET S : IsFiniteSet(T) /\ Cardinality(T) \in Nat
  BY FS_Subset, FS_CardinalityType
<1>2. 0 \in G
  BY <1>1, FS_EmptySet
<1>3. ASSUME NEW n \in Nat, n \in G PROVE n + 1 \in G
  <2>1. ASSUME NEW T \in SUBSET S, Cardinality(T) = n + 1, NEW x \in T
        PROVE  g[T] = t[x] + g[T \ {x}]
    <3> DEFINE c == First(T)
    <3>1. c \in T /\ Cardinality(T \ {c}) = n /\ Cardinality(T \ {x}) = n
      BY <1>1, <2>1, OneLess
    <3>2. g[T] = t[c] + g[T \ {c}]
      BY <2>1 DEF SumsUp, Solves
    <3>3. CASE x = c
      BY <3>2, <3>3
    <3>4. CASE x # c
      <4>1. g[T \ {c}] = t[x] + g[(T \ {c}) \ {x}]
        BY <1>3, <2>1, <3>1, <3>4
      <4>2. g[T \ {x}] = t[c] + g[(T \ {x}) \ {c}]
        BY <1>3, <2>1, <3>1, <3>4
      <4>3. (T \ {c}) \ {x} = (T \ {x}) \ {c}
        OBVIOUS
      <4>4. /\ t[x] \in Nat /\ t[c] \in Nat /\ g[(T \ {c}) \ {x}] \in Nat
            /\ g[T \ {c}] \in Nat /\ g[T \ {x}] \in Nat
        BY <3>1 DEF SumsUp, Solves
      <4> HIDE DEF c
      <4> QED BY <3>2, <4>1, <4>2, <4>3, <4>4
    <3> QED BY <3>3, <3>4
  <2> QED BY <2>1
<1> QED
  <2> HIDE DEF G
  <2>1. Nat \subseteq G
    BY <1>2, <1>3, Induction
  <2> USE DEF G
  <2> QED BY <1>1, <2>1

LEMMA SumOfNone == ASSUME NEW t PROVE PointsOf({}, t) = 0
<1>1. PICK g : SumsUp(g, {}, t) /\ PointsOf({}, t) = g[{}]
  BY PointsAreSummed, FS_EmptySet
<1> QED BY <1>1 DEF SumsUp, Solves

\* The sum of one more, and of scores that changed elsewhere.
LEMMA SumOfOneMore ==
  ASSUME NEW S, IsFiniteSet(S), NEW x, x \notin S, NEW t, \A s \in S \cup {x} : t[s] \in Nat
  PROVE  PointsOf(S \cup {x}, t) = PointsOf(S, t) + t[x] /\ PointsOf(S, t) \in Nat
<1> DEFINE U == S \cup {x}
<1>1. IsFiniteSet(U) /\ S \in SUBSET U
  BY FS_AddElement
<1>2. PICK g : SumsUp(g, U, t) /\ PointsOf(U, t) = g[U]
  BY <1>1, PointsAreSummed
<1>3. PICK h : SumsUp(h, S, t) /\ PointsOf(S, t) = h[S]
  BY PointsAreSummed
<1>4. g[U] = t[x] + g[U \ {x}]
  BY <1>1, <1>2, SumExchange
<1>5. U \ {x} = S
  OBVIOUS
<1>6. g[S] = h[S]
  BY <1>1, <1>2, <1>3, SumUnique DEF SumsUp
<1>7. h[S] \in Nat /\ t[x] \in Nat
  BY <1>3 DEF SumsUp, Solves
<1>8. g[U \ {x}] = h[S]
  BY <1>5, <1>6
<1> HIDE DEF U
<1>9. PointsOf(U, t) = PointsOf(S, t) + t[x]
  BY <1>2, <1>3, <1>4, <1>7, <1>8
<1> QED BY <1>3, <1>7, <1>9 DEF U

LEMMA SumOfSame ==
  ASSUME NEW S, IsFiniteSet(S), NEW t, NEW q, \A s \in S : t[s] \in Nat /\ t[s] = q[s]
  PROVE  PointsOf(S, t) = PointsOf(S, q)
<1>1. PICK g : SumsUp(g, S, t) /\ PointsOf(S, t) = g[S]
  BY PointsAreSummed
<1>2. PICK h : SumsUp(h, S, q) /\ PointsOf(S, q) = h[S]
  BY PointsAreSummed
<1>3. g[S] = h[S]
  BY <1>1, <1>2, SumUnique DEF SumsUp
<1> QED BY <1>1, <1>2, <1>3

\* The sum of two disjoint sets.
LEMMA SumOfBoth ==
  ASSUME NEW S, IsFiniteSet(S), NEW R, IsFiniteSet(R), S \cap R = {},
         NEW t, \A s \in S \cup R : t[s] \in Nat
  PROVE  /\ PointsOf(S \cup R, t) = PointsOf(S, t) + PointsOf(R, t)
         /\ PointsOf(S, t) \in Nat /\ PointsOf(R, t) \in Nat
<1> DEFINE Holds(n) == \A T \in SUBSET R : Cardinality(T) = n =>
             PointsOf(S \cup T, t) = PointsOf(S, t) + PointsOf(T, t)
           G == {n \in Nat : Holds(n)}
<1>1. \A T \in SUBSET R : IsFiniteSet(T) /\ Cardinality(T) \in Nat
  BY FS_Subset, FS_CardinalityType
<1>2. \A T : IsFiniteSet(T) /\ T \subseteq S \cup R => PointsOf(T, t) \in Nat
  <2> TAKE T
  <2> HAVE IsFiniteSet(T) /\ T \subseteq S \cup R
  <2>1. PICK g : SumsUp(g, T, t) /\ PointsOf(T, t) = g[T]
    BY PointsAreSummed
  <2> QED BY <2>1 DEF SumsUp, Solves
<1>3. 0 \in G
  <2>1. ASSUME NEW T \in SUBSET R, Cardinality(T) = 0
        PROVE  PointsOf(S \cup T, t) = PointsOf(S, t) + PointsOf(T, t)
    <3>1. T = {} /\ S \cup T = S
      BY <1>1, <2>1, FS_EmptySet
    <3>2. PointsOf(S, t) \in Nat
      BY <1>2
    <3> QED BY <3>1, <3>2, SumOfNone
  <2> QED BY <2>1
<1>4. ASSUME NEW n \in Nat, n \in G PROVE n + 1 \in G
  <2>1. ASSUME NEW T \in SUBSET R, Cardinality(T) = n + 1
        PROVE  PointsOf(S \cup T, t) = PointsOf(S, t) + PointsOf(T, t)
    <3> DEFINE x == First(T)
               U == T \ {x}
    <3>1. T # {}
      <4>1. Cardinality({}) = 0
        BY FS_EmptySet
      <4> QED BY <2>1, <4>1
    <3>2. x \in T /\ IsFiniteSet(U) /\ Cardinality(U) = n
      BY <1>1, <2>1, <3>1, OneLess
    <3>3. PointsOf(S \cup U, t) = PointsOf(S, t) + PointsOf(U, t)
      BY <1>4, <3>2
    <3>4. /\ T = U \cup {x} /\ S \cup T = (S \cup U) \cup {x}
          /\ x \notin S \cup U /\ IsFiniteSet(S \cup U)
      BY <3>2, FS_Union
    <3> HIDE DEF x, U
    <3>5. PointsOf(S \cup T, t) = PointsOf(S \cup U, t) + t[x]
      BY <3>2, <3>4, SumOfOneMore
    <3>6. PointsOf(T, t) = PointsOf(U, t) + t[x]
      BY <3>2, <3>4, SumOfOneMore
    <3>7. PointsOf(S, t) \in Nat /\ PointsOf(U, t) \in Nat /\ t[x] \in Nat
      BY <1>2, <3>2, <3>4
    <3> QED BY <3>3, <3>5, <3>6, <3>7
  <2> QED BY <2>1
<1>5. Nat \subseteq G
  <2> HIDE DEF G
  <2> QED BY <1>3, <1>4, Induction
<1>6. Holds(Cardinality(R))
  BY <1>1, <1>5
<1> QED BY <1>2, <1>6

(***************************************************************************)
(* The lifetime score.                                                     *)
(***************************************************************************)

\* LifetimeMatchesHistory is inductive with finitely many complete sessions,
\* among them the ones in the history: the scores of the others may change.
Credited(u) == {s \in Sessions : <<u, s>> \in history}
CreditsAddUp ==
  /\ IsFiniteSet(done) /\ lifetime \in [Users -> Nat]
  /\ \A u \in Users : lifetime[u] = PointsOf(Credited(u), total)

\* Recording sessions of a user, new ones or not, keeps the sum.
LEMMA RecordedAddsUp ==
  ASSUME IInv, CreditsAddUp, IsFiniteSet(done'), total' \in [Sessions -> Nat],
         \A s \in done : total'[s] = total[s],
         NEW u \in Users, NEW new \in SUBSET Sessions, IsFiniteSet(new),
         Recorded(u, new, total')
  PROVE  CreditsAddUp'
<1> DEFINE fresh == NotYetRecorded(u, new)
<1>1. \A w \in Users : /\ Credited(w) \subseteq done /\ IsFiniteSet(Credited(w))
                       /\ PointsOf(Credited(w), total') = lifetime[w]
  <2> TAKE w \in Users
  <2>1. Credited(w) \subseteq done
    BY DEF IInv, OnlyDoneCredited, Credited
  <2>2. IsFiniteSet(Credited(w)) /\ \A s \in Credited(w) : total[s] \in Nat /\ total'[s] = total[s]
    BY <2>1, FS_Subset DEF IInv, GamesTyped, CreditsAddUp, Credited
  <2>3. PointsOf(Credited(w), total) = PointsOf(Credited(w), total')
    BY <2>2, SumOfSame
  <2> QED BY <2>1, <2>2, <2>3 DEF CreditsAddUp
<1>2. fresh \subseteq new /\ IsFiniteSet(fresh) /\ Credited(u) \cap fresh = {}
  BY FS_Subset DEF NotYetRecorded, Credited
<1>3. /\ PointsOf(Credited(u) \cup fresh, total') = PointsOf(Credited(u), total') + PointsOf(fresh, total')
      /\ PointsOf(fresh, total') \in Nat
  <2>1. \A s \in Credited(u) \cup fresh : total'[s] \in Nat
    BY <1>2 DEF Credited
  <2>2. IsFiniteSet(Credited(u))
    BY <1>1
  <2> HIDE DEF fresh
  <2> QED BY <1>2, <2>1, <2>2, SumOfBoth
<1>4. Credited(u)' = Credited(u) \cup fresh /\ \A w \in Users \ {u} : Credited(w)' = Credited(w)
  BY DEF Recorded, NotYetRecorded, Credited
<1>5. lifetime' = [lifetime EXCEPT ![u] = @ + PointsOf(fresh, total')]
  BY DEF Recorded
<1> HIDE DEF fresh
<1>6. lifetime' \in [Users -> Nat]
  BY <1>3, <1>5 DEF CreditsAddUp
<1>7. ASSUME NEW w \in Users PROVE lifetime'[w] = PointsOf(Credited(w)', total')
  BY <1>1, <1>3, <1>4, <1>5 DEF CreditsAddUp
<1> QED BY <1>6, <1>7 DEF CreditsAddUp

\* So does a step that records nothing and leaves complete sessions alone.
LEMMA NothingRecorded ==
  ASSUME IInv, CreditsAddUp, UNCHANGED credit, IsFiniteSet(done'),
         \A s \in done : total'[s] = total[s]
  PROVE  CreditsAddUp'
<1>1. ASSUME NEW w \in Users
      PROVE  Credited(w)' = Credited(w) /\ PointsOf(Credited(w), total) = PointsOf(Credited(w), total')
  <2>1. Credited(w) \subseteq done
    BY DEF IInv, OnlyDoneCredited, Credited
  <2>2. IsFiniteSet(Credited(w)) /\ \A s \in Credited(w) : total[s] \in Nat /\ total'[s] = total[s]
    BY <2>1, FS_Subset DEF IInv, GamesTyped, CreditsAddUp, Credited
  <2>3. PointsOf(Credited(w), total) = PointsOf(Credited(w), total')
    BY <2>2, SumOfSame
  <2> QED BY <2>3 DEF credit, Credited
<1> QED BY <1>1 DEF CreditsAddUp, credit

LEMMA GuessAddsUp ==
  ASSUME IInv, CreditsAddUp, NEW v \in Visitors, NEW s \in Sessions, NEW n \in 1 .. 6,
         Guessable(v, s), GuessWrites(v, s, n)
  PROVE  CreditsAddUp'
<1>1. s \in Sessions \ done /\ done \subseteq Sessions /\ total \in [Sessions -> Nat] /\ IsFiniteSet(done)
  BY DEF Guessable, IInv, GamesTyped, CreditsAddUp
<1>2. /\ total' \in [Sessions -> Nat] /\ \A p \in done : total'[p] = total[p]
      /\ IsFiniteSet(done')
  <2>1. total' = total \/ total' = [total EXCEPT ![s] = @ + 1]
    BY DEF GuessWrites
  <2>2. done' = done \/ done' = done \cup {s}
    BY DEF GuessWrites
  <2>3. IsFiniteSet(done \cup {s})
    BY <1>1, FS_AddElement
  <2>4. total' \in [Sessions -> Nat] /\ \A p \in done : total'[p] = total[p]
    BY <1>1, <2>1
  <2> QED BY <1>1, <2>2, <2>3, <2>4
<1>3. CASE n >= 6 /\ IsLastRound(s) /\ login[v] # Nobody
  <2>1. login[v] \in Users
    BY <1>3 DEF IInv, GamesTyped
  <2>2. Recorded(login[v], {s}, total')
    BY <1>3 DEF GuessWrites
  <2>3. IsFiniteSet({s})
    BY FS_Singleton
  <2> QED BY <1>2, <2>1, <2>2, <2>3, RecordedAddsUp
<1>4. CASE ~(n >= 6 /\ IsLastRound(s) /\ login[v] # Nobody)
  <2>1. UNCHANGED credit
    BY <1>4 DEF GuessWrites
  <2> QED BY <1>2, <2>1, NothingRecorded
<1> QED BY <1>3, <1>4

LEMMA StepAddsUp == IInv /\ CreditsAddUp /\ [Next]_vars => CreditsAddUp'
<1> SUFFICES ASSUME IInv, CreditsAddUp, [Next]_vars PROVE CreditsAddUp'
  OBVIOUS
<1>1. ASSUME UNCHANGED <<total, done, credit>> PROVE CreditsAddUp'
  BY <1>1, NothingRecorded DEF CreditsAddUp
<1>2. ASSUME NEW v \in Visitors, NEW s \in Sessions, Play(v, s) PROVE CreditsAddUp'
  <2>1. CASE \/ StartGame(v, s) \/ StartDailyGame(v, s)
             \/ \E d \in {today - 1, today} \cap Days : EnterDailyRoom(v, s, d)
    BY <2>1, <1>1 DEF StartGame, StartDailyGame, Started, EnterDailyRoom
  <2>2. CASE Guess(v, s) \/ GuessRejected(v, s)
    BY <2>2, GuessAddsUp DEF Guess, GuessRejected
  <2>3. ASSUME NEW n \in 1 .. 5, CrashInGuess(v, s, n) PROVE CreditsAddUp'
    <3>1. n \in 1 .. 6
      OBVIOUS
    <3> QED BY <2>3, <3>1, GuessAddsUp DEF CrashInGuess
  <2> QED BY <1>2, <2>1, <2>2, <2>3 DEF Play
<1>3. ASSUME NEW s \in Sessions, NEW withStreak \in BOOLEAN, DailyRoomEnds(s, withStreak)
      PROVE  CreditsAddUp'
  <2>1. round[s] = 0 /\ total' = [total EXCEPT ![s] = 1] /\ done' = done /\ UNCHANGED credit
    BY <1>3 DEF DailyRoomEnds, InDailyRoom
  <2>2. s \notin done
    BY <2>1, SoloConstantsOK DEF IInv, RoundsRecorded, RoundsOf, SoloConstantsOK
  <2>3. \A p \in done : total'[p] = total[p]
    BY <2>1, <2>2 DEF IInv, GamesTyped
  <2> QED BY <2>1, <2>3, NothingRecorded DEF CreditsAddUp
<1>4. ASSUME NEW v \in Visitors, NEW u \in Users, Login(v, u) PROVE CreditsAddUp'
  <2>1. Recorded(u, SessionsToClaim(v), total') /\ UNCHANGED <<total, done>>
    BY <1>4 DEF Login, ClaimGameHistory
  <2>2. /\ SessionsToClaim(v) \in SUBSET Sessions /\ IsFiniteSet(SessionsToClaim(v))
        /\ IsFiniteSet(done') /\ total' \in [Sessions -> Nat]
    BY <2>1, FS_Subset DEF SessionsToClaim, IInv, GamesTyped, CreditsAddUp
  <2> QED BY <2>1, <2>2, RecordedAddsUp
<1>5. ASSUME NEW v \in Visitors, NEW u \in Users, CrashInLogin(v, u) PROVE CreditsAddUp'
  BY <1>5, <1>1 DEF CrashInLogin, sessions
<1>6. CASE (\E v \in Visitors : Logout(v)) \/ Midnight \/ DecayStaleStreaks
  BY <1>6, <1>1 DEF Logout, Midnight, DecayStaleStreaks, sessions
<1>7. CASE UNCHANGED vars
  BY <1>7, <1>1 DEF vars, sessions
<1> QED BY <1>2, <1>3, <1>4, <1>5, <1>6, <1>7 DEF Next

(***************************************************************************)
(* Streaks.                                                                *)
(***************************************************************************)
StreakType == [cur : Nat, best : Nat, last : Days \cup {Never}]

\* Every day a streak counts is in D.
BackedBy(st, D) == \A d \in (st.last - st.cur + 1) .. st.last : d \in D

\* A user's days with a completed play.
DaysDone(u) == {day[p] : p \in {q \in Completed : playUser[q] = u}}

\* A day that was played extends a backed streak to a backed one.
LEMMA ExtendedBacked ==
  ASSUME NEW st \in StreakType, NEW D, BackedBy(st, D), NEW d \in Days, d \in D
  PROVE  Extended(st, d) \in StreakType /\ BackedBy(Extended(st, d), D)
<1> DEFINE cur == IF DayBefore(st, d) THEN st.cur + 1 ELSE 1
<1>1. /\ st.cur \in Nat /\ st.best \in Nat /\ st.last \in Int /\ d \in Int
      /\ DayBefore(st, d) => st.last = d - 1
  BY SoloConstantsOK DEF StreakType, Days, Never, DayBefore, SoloConstantsOK
<1>2. cur \in Nat
  BY <1>1
<1>3. /\ Extended(st, d).cur = cur /\ Extended(st, d).last = d
      /\ Extended(st, d) \in StreakType
  BY <1>1, <1>2 DEF Extended, StreakType
<1>4. ASSUME NEW e \in (d - cur + 1) .. d PROVE e \in D
  <2>1. CASE e = d
    BY <2>1
  <2>2. CASE e # d /\ DayBefore(st, d)
    <3>1. e \in (st.last - st.cur + 1) .. st.last
      BY <1>1, <2>2
    <3> QED BY <3>1 DEF BackedBy
  <2>3. CASE e # d /\ ~DayBefore(st, d)
    BY <1>1, <2>3
  <2> QED BY <2>1, <2>2, <2>3
<1> HIDE DEF cur
<1> QED BY <1>3, <1>4 DEF BackedBy

\* The claim's replay is a recursion over the days, and it has a solution.
ReplayBody(after, st, days, d) ==
  IF d = 0 THEN st ELSE IF d \in days THEN Extended(after[d - 1], d) ELSE after[d - 1]

LEMMA ReplayExists ==
  ASSUME NEW st, NEW days
  PROVE  \E after : /\ after = [d \in 0 .. LastDay |-> ReplayBody(after, st, days, d)]
                    /\ Replayed(st, days) = after[LastDay]
<1> DEFINE Upto(f, n) == \A d \in 0 .. LastDay : d <= n => f[d] = ReplayBody(f, st, days, d)
           G == {n \in Nat : \E f : Upto(f, n)}
           F(f) == [d \in 0 .. LastDay |-> ReplayBody(f, st, days, d)]
<1>1. LastDay \in Nat
  BY SoloConstantsOK DEF SoloConstantsOK
<1>2. 0 \in G
  <2>1. Upto([d \in 0 .. LastDay |-> st], 0)
    BY <1>1 DEF ReplayBody
  <2> HIDE DEF Upto
  <2> QED BY <2>1
<1>3. ASSUME NEW n \in Nat, n \in G PROVE n + 1 \in G
  <2>1. PICK f : Upto(f, n)
    BY <1>3
  <2> DEFINE h == [d \in 0 .. LastDay |-> IF d = n + 1 THEN ReplayBody(f, st, days, d) ELSE f[d]]
  <2>2. ASSUME NEW d \in 0 .. LastDay, d <= n + 1
        PROVE  h[d] = ReplayBody(h, st, days, d)
    <3>1. d # 0 => h[d - 1] = f[d - 1]
      BY <1>1, <2>2
    <3>2. ReplayBody(h, st, days, d) = ReplayBody(f, st, days, d)
      BY <3>1 DEF ReplayBody
    <3>3. d # n + 1 => f[d] = ReplayBody(f, st, days, d)
      BY <1>1, <2>1, <2>2
    <3> QED BY <3>2, <3>3
  <2>3. Upto(h, n + 1)
    BY <2>2
  <2> HIDE DEF h, Upto
  <2> QED BY <2>3
<1>4. LastDay \in G
  <2> HIDE DEF G
  <2> QED BY <1>1, <1>2, <1>3, Induction
<1>5. PICK f : Upto(f, LastDay)
  BY <1>4
<1> DEFINE g == [d \in 0 .. LastDay |-> f[d]]
           after == CHOOSE a : a = F(a)
<1>6. g = F(g)
  BY <1>1, <1>5 DEF ReplayBody
<1>7. after = F(after)
  BY <1>6
<1>8. Replayed(st, days) = after[LastDay]
  BY DEF Replayed, ReplayBody
<1> HIDE DEF after
<1> QED BY <1>7, <1>8

\* It extends the streak by one claimed day after the other.
LEMMA ReplayedBacked ==
  ASSUME NEW st \in StreakType, NEW D, BackedBy(st, D), NEW days \in SUBSET D
  PROVE  Replayed(st, days) \in StreakType /\ BackedBy(Replayed(st, days), D)
<1> DEFINE Good(x) == x \in StreakType /\ BackedBy(x, D)
<1>1. PICK after : /\ after = [d \in 0 .. LastDay |-> ReplayBody(after, st, days, d)]
                   /\ Replayed(st, days) = after[LastDay]
  BY ReplayExists
<1> DEFINE G == {n \in Nat : n <= LastDay => Good(after[n])}
<1>2. LastDay \in Nat
  BY SoloConstantsOK DEF SoloConstantsOK
<1>3. 0 \in G
  BY <1>1, <1>2 DEF ReplayBody
<1>4. ASSUME NEW n \in Nat, n \in G PROVE n + 1 \in G
  <2> SUFFICES ASSUME n + 1 <= LastDay PROVE Good(after[n + 1])
    OBVIOUS
  <2>1. Good(after[n]) /\ n + 1 \in Days /\ n + 1 \in 0 .. LastDay
    BY <1>2, <1>4 DEF Days
  <2>2. after[n + 1] = IF n + 1 \in days THEN Extended(after[n], n + 1) ELSE after[n]
    <3>1. (n + 1) - 1 = n /\ n + 1 # 0
      OBVIOUS
    <3>2. after[n + 1] = ReplayBody(after, st, days, n + 1)
      BY <1>1, <2>1
    <3> QED BY <3>1, <3>2 DEF ReplayBody
  <2>3. CASE n + 1 \in days
    BY <2>1, <2>2, <2>3, ExtendedBacked
  <2>4. CASE n + 1 \notin days
    BY <2>1, <2>2, <2>4
  <2> QED BY <2>3, <2>4
<1>5. LastDay \in G
  <2> HIDE DEF G
  <2> QED BY <1>2, <1>3, <1>4, Induction
<1> QED BY <1>1, <1>2, <1>5

\* StreakIsBacked is inductive with what ties a play to the session it came
\* from: the owner of a daily session, who is known before the play, keeps it.
StreaksBacked ==
  /\ streak \in [Users -> StreakType]
  /\ \A u \in Users : BackedBy(streak[u], DaysDone(u))
  /\ \A p \in plays : /\ day[p] \in Days
                      /\ owner[p] # Nobody => playUser[p] = owner[p]
  /\ \A s \in Sessions : InDailyRoom(s) => day[s] \in Days

\* More completed plays, and plays that find their user, break no streak.
LEMMA DaysDoneGrow ==
  ASSUME IInv, PlaysKept, day' = day, NEW u \in Users, Completed \subseteq Completed'
  PROVE  DaysDone(u) \subseteq DaysDone(u)'
<1>1. u # Nobody /\ Completed \subseteq plays
  BY SoloConstantsOK DEF SoloConstantsOK, Completed, IInv, GamesTyped
<1> QED BY <1>1 DEF PlaysKept, DaysDone

LEMMA BackedByMore ==
  ASSUME NEW st, NEW D, NEW E, D \subseteq E, BackedBy(st, D) PROVE BackedBy(st, E)
BY DEF BackedBy

\* A step that extends no streak.
LEMMA SameStreaks ==
  ASSUME IInv, StreaksBacked, PlaysKept, UNCHANGED <<day, streak>>,
         Completed \subseteq Completed',
         \A p \in plays' : day[p] \in Days /\ (owner'[p] # Nobody => playUser'[p] = owner'[p]),
         \A s \in Sessions : InDailyRoom(s)' => day[s] \in Days
  PROVE  StreaksBacked'
BY DaysDoneGrow, BackedByMore DEF StreaksBacked

LEMMA GuessBacked ==
  ASSUME IInv, StreaksBacked, NEW v \in Visitors, NEW s \in Sessions, NEW n \in 1 .. 6,
         Guessable(v, s), GuessWrites(v, s, n), UNCHANGED <<clock, owner, device, day>>,
         faults' \in 0 .. MaxFaults
  PROVE  StreaksBacked'
<1>1. PlaysKept
  BY GuessStep
<1>2. /\ round[s] > 0 /\ day \in [Sessions -> Days \cup {NotDaily}] /\ plays \subseteq Sessions
      /\ finished \subseteq plays /\ playUser \in [Sessions -> Users \cup {Nobody}]
      /\ owner \in [Sessions -> Users \cup {Nobody}] /\ round \in [Sessions -> Nat]
  BY DEF Guessable, IInv, GamesTyped
<1>3. \/ plays' = plays /\ playUser' = playUser
      \/ /\ day[s] # NotDaily /\ plays' = plays \cup {s}
         /\ playUser' = [playUser EXCEPT ![s] = owner[s]]
  BY DEF GuessWrites, FirstOfDaily
<1>4. /\ done \subseteq done' /\ finished \subseteq finished'
      /\ \A p \in Sessions : round[p] = 0 => round'[p] = 0
  BY <1>2 DEF GuessWrites
<1>5. Completed \subseteq Completed'
  <2>1. plays \subseteq plays'
    BY <1>3
  <2> QED BY <1>2, <1>4, <2>1 DEF Completed
<1>6. \A p \in plays' : day[p] \in Days /\ (owner'[p] # Nobody => playUser'[p] = owner'[p])
  <2>1. ASSUME NEW p \in plays, p # s PROVE day[p] \in Days /\ (owner[p] # Nobody => playUser'[p] = owner[p])
    BY <1>2, <1>3, <2>1 DEF StreaksBacked
  <2>2. ASSUME s \in plays' PROVE day[s] \in Days /\ (owner[s] # Nobody => playUser'[s] = owner[s])
    BY <1>2, <1>3, <2>2 DEF StreaksBacked
  <2> QED BY <1>3, <2>1, <2>2
<1>7. \A p \in Sessions : InDailyRoom(p)' => day[p] \in Days
  <2>1. \A p \in Sessions : InDailyRoom(p)' => InDailyRoom(p)
    BY <1>2 DEF GuessWrites, InDailyRoom
  <2> QED BY <2>1 DEF StreaksBacked
<1>8. CASE n >= 4 /\ IsLastRound(s) /\ day[s] # NotDaily /\ owner[s] # Nobody
  <2> DEFINE u == owner[s]
  <2>1. u \in Users /\ streak' = [streak EXCEPT ![u] = Extended(@, day[s])] /\ s \in done'
    BY <1>2, <1>8 DEF GuessWrites
  <2>2. s \in plays'
    <3>1. CASE round[s] = 1
      BY <1>8, <3>1 DEF GuessWrites, FirstOfDaily
    <3>2. CASE round[s] # 1
      BY <1>2, <1>3, <1>8, <3>2 DEF IInv, PlayIsCommitted
    <3> QED BY <3>1, <3>2
  <2>3. day[s] \in DaysDone(u)' /\ day[s] \in Days
    BY <1>2, <1>6, <1>8, <2>1, <2>2 DEF DaysDone, Completed
  <2>4. ASSUME NEW w \in Users
        PROVE  streak'[w] \in StreakType /\ BackedBy(streak'[w], DaysDone(w)')
    <3>1. streak[w] \in StreakType /\ BackedBy(streak[w], DaysDone(w)')
      BY <1>1, <1>5, DaysDoneGrow, BackedByMore DEF StreaksBacked
    <3>2. CASE w = u
      <4>1. streak'[w] = Extended(streak[w], day[s])
        BY <2>1, <3>2 DEF StreaksBacked
      <4> QED BY <2>3, <3>1, <3>2, <4>1, ExtendedBacked
    <3>3. CASE w # u
      BY <2>1, <3>1, <3>3 DEF StreaksBacked
    <3> QED BY <3>2, <3>3
  <2>5. streak' \in [Users -> StreakType]
    <3>1. streak' = [w \in Users |-> streak'[w]]
      BY <2>1 DEF StreaksBacked
    <3> QED BY <2>4, <3>1
  <2> QED BY <1>6, <1>7, <2>4, <2>5 DEF StreaksBacked
<1>9. CASE ~(n >= 4 /\ IsLastRound(s) /\ day[s] # NotDaily /\ owner[s] # Nobody)
  <2>1. streak' = streak
    BY <1>9 DEF GuessWrites
  <2> QED BY <1>1, <1>5, <1>6, <1>7, <2>1, SameStreaks
<1> QED BY <1>8, <1>9

LEMMA RoomBacked ==
  ASSUME IInv, StreaksBacked, NEW s \in Sessions, NEW withStreak \in BOOLEAN,
         DailyRoomEnds(s, withStreak)
  PROVE  StreaksBacked'
<1>1. PlaysKept
  BY RoomStep
<1>2. /\ day[s] \in Days /\ round[s] = 0 /\ s \notin plays
      /\ plays' = plays \cup {s} /\ finished' = finished \cup {s}
      /\ playUser' = [playUser EXCEPT ![s] = owner[s]]
      /\ day' = day /\ owner' = owner /\ device' = device /\ round' = round /\ done' = done
  BY DEF StreaksBacked, DailyRoomEnds, InDailyRoom, MayCommit
<1>3. /\ plays \subseteq Sessions /\ playUser \in [Sessions -> Users \cup {Nobody}]
      /\ owner \in [Sessions -> Users \cup {Nobody}]
  BY DEF IInv, GamesTyped
<1>4. Completed \subseteq Completed' /\ s \in Completed'
  BY <1>2 DEF Completed
<1>5. \A p \in plays' : day[p] \in Days /\ (owner'[p] # Nobody => playUser'[p] = owner'[p])
  <2>1. \A p \in plays : p # s /\ playUser'[p] = playUser[p]
    BY <1>2, <1>3
  <2>2. playUser'[s] = owner[s]
    BY <1>2, <1>3
  <2> QED BY <1>2, <2>1, <2>2 DEF StreaksBacked
<1>6. \A p \in Sessions : InDailyRoom(p)' => day[p] \in Days
  BY <1>2 DEF StreaksBacked, InDailyRoom
<1>7. CASE withStreak /\ owner[s] # Nobody
  <2> DEFINE u == owner[s]
  <2>1. u \in Users /\ streak' = [streak EXCEPT ![u] = Extended(@, day[s])]
    BY <1>3, <1>7 DEF DailyRoomEnds
  <2>2. day[s] \in DaysDone(u)'
    BY <1>2, <1>3, <1>4 DEF DaysDone
  <2>3. ASSUME NEW w \in Users
        PROVE  streak'[w] \in StreakType /\ BackedBy(streak'[w], DaysDone(w)')
    <3>1. streak[w] \in StreakType /\ BackedBy(streak[w], DaysDone(w)')
      BY <1>1, <1>2, <1>4, DaysDoneGrow, BackedByMore DEF StreaksBacked
    <3>2. CASE w = u
      <4>1. streak'[w] = Extended(streak[w], day[s])
        BY <2>1, <3>2 DEF StreaksBacked
      <4> QED BY <1>2, <2>2, <3>1, <3>2, <4>1, ExtendedBacked
    <3>3. CASE w # u
      BY <2>1, <3>1, <3>3 DEF StreaksBacked
    <3> QED BY <3>2, <3>3
  <2>4. streak' \in [Users -> StreakType]
    <3>1. streak' = [w \in Users |-> streak'[w]]
      BY <2>1 DEF StreaksBacked
    <3> QED BY <2>3, <3>1
  <2> QED BY <1>2, <1>5, <1>6, <2>3, <2>4 DEF StreaksBacked
<1>8. CASE ~(withStreak /\ owner[s] # Nobody)
  <2>1. streak' = streak
    BY <1>8 DEF DailyRoomEnds
  <2> QED BY <1>1, <1>2, <1>4, <1>5, <1>6, <2>1, SameStreaks
<1> QED BY <1>7, <1>8

LEMMA ClaimBacked ==
  ASSUME IInv, StreaksBacked, NEW v \in Visitors, NEW u \in Users,
         Login(v, u) \/ CrashInLogin(v, u)
  PROVE  StreaksBacked'
<1> DEFINE mine == PlaysToClaim(v, u)
           newDays == {d \in {day[p] : p \in mine \cap finished} : d > streak[u].last}
<1>1. PlaysKept
  BY ClaimStep
<1>2. /\ day' = day /\ device' = device /\ round' = round /\ done' = done
      /\ plays' = plays /\ finished' = finished
      /\ playUser' = [p \in Sessions |-> IF p \in mine THEN u ELSE playUser[p]]
      /\ streak' = [streak EXCEPT ![u] = Replayed(@, newDays)]
  BY DEF Login, CrashInLogin, ClaimDailyPlays, sessions
<1>3. /\ plays \subseteq Sessions /\ finished \subseteq plays /\ mine \subseteq plays
      /\ owner \in [Sessions -> Users \cup {Nobody}]
  BY DEF IInv, GamesTyped, PlaysToClaim, AnonPlays
<1>4. \A p \in Sessions : day[p] # NotDaily => owner'[p] = owner[p]
  BY <1>3 DEF Login, CrashInLogin, ClaimGameHistory, SessionsToClaim, sessions
<1>5. Completed' = Completed
  BY <1>2 DEF Completed
<1>6. \A p \in plays' : day[p] \in Days /\ (owner'[p] # Nobody => playUser'[p] = owner'[p])
  <2> TAKE p \in plays'
  <2>1. p \in plays /\ p \in Sessions /\ day[p] \in Days /\ (owner[p] # Nobody => playUser[p] = owner[p])
    BY <1>2, <1>3 DEF StreaksBacked
  <2>2. day[p] # NotDaily
    BY <2>1, SoloConstantsOK DEF Days, SoloConstantsOK
  <2>3. p \in mine => playUser[p] = Nobody
    BY DEF PlaysToClaim, AnonPlays
  <2> QED BY <1>2, <1>4, <2>1, <2>2, <2>3
<1>7. \A p \in Sessions : InDailyRoom(p)' => day[p] \in Days
  BY <1>2 DEF StreaksBacked, InDailyRoom
<1>8. newDays \subseteq DaysDone(u)'
  <2> SUFFICES ASSUME NEW p \in mine \cap finished PROVE day[p] \in DaysDone(u)'
    OBVIOUS
  <2>1. p \in Completed
    <3>1. round[p] \in Nat
      BY <1>3 DEF IInv, GamesTyped
    <3> QED BY <1>3, <3>1 DEF IInv, FinishedIsDone, Completed
  <2> QED BY <1>2, <1>3, <1>5, <2>1 DEF DaysDone
<1>9. ASSUME NEW w \in Users
      PROVE  streak'[w] \in StreakType /\ BackedBy(streak'[w], DaysDone(w)')
  <2>1. streak[w] \in StreakType /\ BackedBy(streak[w], DaysDone(w)')
    BY <1>1, <1>2, <1>5, DaysDoneGrow, BackedByMore DEF StreaksBacked
  <2>2. CASE w = u
    <3>1. streak'[w] = Replayed(streak[w], newDays)
      BY <1>2, <2>2 DEF StreaksBacked
    <3> HIDE DEF newDays
    <3> QED BY <1>8, <2>1, <2>2, <3>1, ReplayedBacked
  <2>3. CASE w # u
    BY <1>2, <2>1, <2>3 DEF StreaksBacked
  <2> QED BY <2>2, <2>3
<1>10. streak' \in [Users -> StreakType]
  <2>1. streak' = [w \in Users |-> streak'[w]]
    BY <1>2 DEF StreaksBacked
  <2> QED BY <1>9, <2>1
<1> QED BY <1>2, <1>6, <1>7, <1>9, <1>10 DEF StreaksBacked

\* An unused id has no play: taking it breaks none.
LEMMA TakeBacked ==
  ASSUME IInv, StreaksBacked, NEW v \in Visitors, NEW s \in Sessions, NEW d \in Days \cup {NotDaily},
         NEW r \in {0, 1}, r = 0 => d \in Days, Unused(s), device' = [device EXCEPT ![s] = v],
         owner' = [owner EXCEPT ![s] = login[v]], day' = [day EXCEPT ![s] = d],
         round' = [round EXCEPT ![s] = r],
         UNCHANGED <<clock, total, done, guessed, daily, credit, faults>>
  PROVE  StreaksBacked'
<1>1. /\ plays' = plays /\ playUser' = playUser /\ finished' = finished /\ done' = done
      /\ streak' = streak
  BY DEF daily
<1>2. /\ s \notin plays /\ round[s] = 0 /\ plays \subseteq Sessions /\ finished \subseteq plays
      /\ \A p \in Sessions : p # s => /\ day'[p] = day[p] /\ owner'[p] = owner[p]
                                      /\ round'[p] = round[p] /\ device'[p] = device[p]
      /\ day'[s] = d /\ round'[s] = r
  BY DEF IInv, GamesTyped, Untouched
<1>3. Completed' = Completed /\ Completed \subseteq plays
  BY <1>1, <1>2 DEF Completed
<1>4. \A u \in Users : DaysDone(u)' = DaysDone(u)
  <2> TAKE u \in Users
  <2>1. \A p \in Completed : day'[p] = day[p] /\ playUser'[p] = playUser[p]
    BY <1>1, <1>2, <1>3
  <2> QED BY <1>3, <2>1 DEF DaysDone
<1>5. \A p \in plays' : day'[p] \in Days /\ (owner'[p] # Nobody => playUser'[p] = owner'[p])
  BY <1>1, <1>2 DEF StreaksBacked
<1>6. \A p \in Sessions : InDailyRoom(p)' => day'[p] \in Days
  BY <1>2 DEF StreaksBacked, InDailyRoom
<1> QED BY <1>1, <1>4, <1>5, <1>6 DEF StreaksBacked

LEMMA DecayBacked == ASSUME IInv, StreaksBacked, DecayStaleStreaks PROVE StreaksBacked'
<1>1. /\ streak' = [u \in Users |-> IF Stale(u) THEN [streak[u] EXCEPT !.cur = 0] ELSE streak[u]]
      /\ UNCHANGED sessions /\ UNCHANGED <<plays, playUser, finished>>
  BY DEF DecayStaleStreaks
<1>2. \A u \in Users : DaysDone(u)' = DaysDone(u)
  BY <1>1 DEF DaysDone, Completed, sessions
<1>3. ASSUME NEW u \in Users
      PROVE  streak'[u] \in StreakType /\ BackedBy(streak'[u], DaysDone(u))
  <2>1. streak[u] \in StreakType /\ BackedBy(streak[u], DaysDone(u))
    BY DEF StreaksBacked
  <2>2. [streak[u] EXCEPT !.cur = 0] \in StreakType
    BY <2>1 DEF StreakType
  <2>3. BackedBy([streak[u] EXCEPT !.cur = 0], DaysDone(u))
    <3>1. streak[u].last \in Int
      BY <2>1, SoloConstantsOK DEF StreakType, Days, Never, SoloConstantsOK
    <3>2. /\ [streak[u] EXCEPT !.cur = 0].cur = 0
          /\ [streak[u] EXCEPT !.cur = 0].last = streak[u].last
      BY <2>1 DEF StreakType
    <3> QED BY <3>1, <3>2 DEF BackedBy
  <2> QED BY <1>1, <2>1, <2>2, <2>3
<1>4. streak' \in [Users -> StreakType]
  BY <1>1, <1>3
<1> QED BY <1>1, <1>2, <1>3, <1>4 DEF StreaksBacked, InDailyRoom, sessions

LEMMA StepBacked == IInv /\ StreaksBacked /\ [Next]_vars => StreaksBacked'
<1> SUFFICES ASSUME IInv, StreaksBacked, [Next]_vars PROVE StreaksBacked'
  OBVIOUS
<1>1. GamesTyped
  BY DEF IInv
<1>2. ASSUME UNCHANGED <<sessions, daily>> PROVE StreaksBacked'
  BY <1>2 DEF sessions, daily, StreaksBacked, DaysDone, Completed, InDailyRoom
<1>3. ASSUME NEW v \in Visitors, NEW s \in Sessions, Play(v, s) PROVE StreaksBacked'
  <2>1. CASE StartGame(v, s)
    <3>1. 1 \in {0, 1} /\ (1 = 0 => NotDaily \in Days) /\ NotDaily \in Days \cup {NotDaily}
      OBVIOUS
    <3>2. Started(v, s, NotDaily)
      BY <2>1 DEF StartGame
    <3> QED BY <3>1, <3>2, TakeBacked DEF Started
  <2>2. CASE StartDailyGame(v, s)
    BY <2>2, <1>1, TakeBacked DEF StartDailyGame, Started, GamesTyped
  <2>3. CASE \E d \in {today - 1, today} \cap Days : EnterDailyRoom(v, s, d)
    <3>1. PICK d \in Days : EnterDailyRoom(v, s, d)
      BY <2>3
    <3>2. round' = [round EXCEPT ![s] = 0]
      BY <3>1, <1>1 DEF EnterDailyRoom, IInv, Untouched, GamesTyped
    <3> QED BY <3>1, <3>2, TakeBacked DEF EnterDailyRoom
  <2>4. CASE Guess(v, s) \/ GuessRejected(v, s)
    BY <2>4, <1>1, GuessBacked DEF Guess, GuessRejected, GamesTyped
  <2>5. CASE \E n \in 1 .. 5 : CrashInGuess(v, s, n)
    <3>1. PICK n \in 1 .. 6 : CrashInGuess(v, s, n)
      BY <2>5
    <3>2. faults' \in 0 .. MaxFaults
      BY <3>1, <1>1, SoloConstantsOK DEF CrashInGuess, GamesTyped, SoloConstantsOK
    <3> QED BY <3>1, <3>2, GuessBacked DEF CrashInGuess
  <2> QED BY <1>3, <2>1, <2>2, <2>3, <2>4, <2>5 DEF Play
<1>4. CASE (\E v \in Visitors : Logout(v)) \/ Midnight \/ UNCHANGED vars
  BY <1>2, <1>4 DEF Logout, Midnight, vars
<1> QED BY <1>3, <1>4, RoomBacked, ClaimBacked, DecayBacked DEF Next

\* They hold at first, and with IInv on every step.
LEMMA CreditsInvariance == Spec => []CreditsAddUp
<1>1. Init => CreditsAddUp
  <2> SUFFICES ASSUME Init PROVE CreditsAddUp
    OBVIOUS
  <2>1. \A u \in Users : Credited(u) = {}
    BY DEF Init, Credited
  <2> QED BY <2>1, SumOfNone, FS_EmptySet DEF Init, CreditsAddUp
<1>2. IInv /\ CreditsAddUp /\ [Next]_vars => CreditsAddUp'
  BY StepAddsUp
<1> QED BY <1>1, <1>2, Invariance, PTL DEF Spec

LEMMA StreaksInvariance == Spec => []StreaksBacked
<1>1. Init => StreaksBacked
  BY SoloConstantsOK DEF Init, StreaksBacked, StreakType, BackedBy, Never, InDailyRoom, SoloConstantsOK
<1>2. IInv /\ StreaksBacked /\ [Next]_vars => StreaksBacked'
  BY StepBacked
<1> QED BY <1>1, <1>2, Invariance, PTL DEF Spec

(***************************************************************************)
(* Theorems.                                                               *)
(***************************************************************************)

\* No guess, claim or decay takes a streak or a lifetime score, nor anything
\* else the tables hold, out of its domain.
THEOREM SoloTypeCorrect == Spec => []TypeOK
<1>1. IInv /\ CreditsAddUp /\ StreaksBacked => TypeOK
  BY DEF IInv, CreditsAddUp, StreaksBacked, StreakType, TypeOK
<1> QED BY <1>1, Invariance, CreditsInvariance, StreaksInvariance, PTL

\* One attempt per day holds for accounts and browsers alike (the unique
\* indexes of daily_plays, and the claim that goes around the insert).
THEOREM PlayedOncePerDay == Spec => []OncePerDay
<1>1. IInv => OncePerDay
  BY DEF IInv
<1> QED BY <1>1, Invariance, PTL

\* What submitGuess completes, and the history credits, was played in full.
THEOREM CompletedGamesAreFull == Spec => []CompletedInFull
<1>1. IInv => CompletedInFull
  <2> SUFFICES ASSUME IInv, NEW s \in done, NEW r \in 1 .. RoundsOf(s)
               PROVE  <<s, r>> \in guessed
    BY DEF CompletedInFull, IInv, OnlyDoneCredited
  <2>1. RoundsOf(s) \in Nat /\ s \in Sessions
    BY SoloConstantsOK DEF SoloConstantsOK, RoundsOf, IInv, GamesTyped
  <2>2. r = RoundsOf(s) \/ r \in 1 .. (RoundsOf(s) - 1)
    BY <2>1
  <2> QED BY <2>1, <2>2 DEF IInv, RoundsRecorded
<1> QED BY <1>1, Invariance, PTL

\* submitGuess, room ends and claims leave other people's plays, and the score
\* of finished ones, alone.
THEOREM PlaysStayFinal == Spec => PlaysAreFinal
<1>1. IInv /\ [Next]_vars => [PlaysKept]_vars
  BY NextInvariant
<1> QED BY <1>1, Invariance, PTL DEF Spec, PlaysAreFinal

\* recordSinglePlayerGame: whatever was retried, claimed or interrupted, a
\* user's lifetime score is the sum of the games of the history.
THEOREM LifetimeIsTheHistory == Spec => []LifetimeMatchesHistory
<1>1. CreditsAddUp => LifetimeMatchesHistory
  BY DEF CreditsAddUp, Credited, LifetimeMatchesHistory
<1> QED BY <1>1, CreditsInvariance, PTL

\* updateStreakOnCompletion and the claim's replay: every day of a streak has a
\* completed play of its user.
THEOREM StreaksAreBacked == Spec => []StreakIsBacked
<1>1. StreaksBacked => StreakIsBacked
  <2> SUFFICES ASSUME StreaksBacked, NEW u \in Users,
                      NEW d \in (streak[u].last - streak[u].cur + 1) .. streak[u].last
               PROVE  \E p \in Completed : playUser[p] = u /\ day[p] = d
    BY DEF StreakIsBacked
  <2>1. d \in DaysDone(u)
    BY DEF StreaksBacked, BackedBy
  <2> QED BY <2>1 DEF DaysDone
<1> QED BY <1>1, StreaksInvariance, PTL
=============================================================================
