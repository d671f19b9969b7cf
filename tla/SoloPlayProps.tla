---------------------------- MODULE SoloPlayProps ---------------------------
(***************************************************************************)
(* What SoloPlay must satisfy.                                             *)
(***************************************************************************)
EXTENDS SoloPlay

\* One attempt per day: of two plays of the same date neither the user nor the
\* browser is the same, although plays come from sessions started before
\* somebody logged in, from daily rooms, and from claims that write user_id
\* without going through the insert.
OncePerDay ==
  \A p, q \in plays :
    p # q /\ day[p] = day[q] =>
      /\ device[p] # device[q]
      /\ playUser[p] = Nobody \/ playUser[p] # playUser[q]

\* Every day a streak counts has a play of that user behind it that was played
\* to its end (in a session or in a room), whatever was claimed or decayed.
Completed == (done \cap plays) \cup {p \in finished : round[p] = 0}
StreakIsBacked ==
  \A u \in Users : \A d \in (streak[u].last - streak[u].cur + 1) .. streak[u].last :
    \E p \in Completed : playUser[p] = u /\ day[p] = d

\* The lifetime score of a user is the sum of the games in the history: no
\* retry, second login or claim adds a game twice, none is left out.
LifetimeMatchesHistory ==
  \A u \in Users :
    lifetime[u] = PointsOf({s \in Sessions : <<u, s>> \in history}, total)

\* A completed session has a recorded guess for every round, so no crash or
\* retry lets it skip one, and everything credited is complete.
CompletedInFull ==
  /\ \A s \in done : \A r \in 1 .. RoundsOf(s) : <<s, r>> \in guessed
  /\ \A h \in history : h[2] \in done

\* What a step does to the plays there were before it.
PlaysKept ==
  \A p \in plays :
    /\ p \in plays'
    /\ playUser[p] # Nobody => playUser'[p] = playUser[p]
    /\ p \in finished => p \in finished' /\ total'[p] = total[p]

\* A play that belongs to a user is never given to another one, and a finished
\* play keeps its score.
PlaysAreFinal == [][PlaysKept]_vars
=============================================================================
