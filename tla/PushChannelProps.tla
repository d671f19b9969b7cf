-------------------------- MODULE PushChannelProps --------------------------
(***************************************************************************)
(* What web push promises.                                                 *)
(***************************************************************************)
EXTENDS PushChannel

\* Whoever wants reminders has one pending, never two: a game played, the
\* scheduler and a drain that is under way all write to the queue.
OnePendingReminder == \A u \in Users : Cardinality(Pending(u)) <= 1

\* A crash between an attempt and its outcome leaves a row that is pending
\* and never due again; as long as it is there no reminder is scheduled.
Stranded(u) == \E row \in Pending(u) : row.attempts = MaxAttempts

\* No streak breaks unwarned: when a day ends on which a user whose streak is
\* of yesterday has finished no play of today, a reminder was delivered on
\* that day, also when the server crashed on it.  Excepted are days on which
\*   - the streak got yesterday's date only then: a game of yesterday finished
\*     or claimed after midnight has its reminder 20 hours later, too late;
\*   - an attempt failed or was refused (quiet hours too), preferences or
\*     subscriptions changed, or the server hung (troubled);
\*   - a crash stranded the user's row.
\* Who finished today's play without its counting is not reminded either, and
\* loses the streak: the scheduler looks at plays, not at the streak's date.
StreakHolderIsWarned ==
  [][/\ TRUE
     /\ \A u \in Users :
          /\ Day(now') > Today /\ alive[u] /\ last[u] = Today - 1 /\ ~Played(u)
          /\ on[u] /\ sub[u] /\ ~Stranded(u)
          /\ u \notin belated /\ u \notin troubled /\ u \notin troubled'
          => u \in warned]_vars

\* The puzzle of a day is announced at most once to a user on that day,
\* whatever crashes, restarts or hangs in the middle of the batch.
PuzzleAnnouncedOnce ==
  [][/\ TRUE
     /\ stage = "greet" /\ flight = None /\ flight' # None => flight' \notin greeted]_vars

\* A placement that counts as announced was announced at that rank: a slot
\* whose push reached nobody does not silence the next attempt.
SlotWasAnnounced ==
  \A u \in Users :
    /\ best[u] # 0 /\ faults = 0
    /\ ~(stage = "place" /\ flight # None /\ flight.user = u)
    => best[u] = told[u]
=============================================================================
