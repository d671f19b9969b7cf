---------------------------- MODULE GiveawayProps ---------------------------
(***************************************************************************)
(* What Giveaway must satisfy.                                             *)
(***************************************************************************)
EXTENDS Giveaway

\* The status of a reward agrees with its awards: at most one of them is live,
\* nothing is offered that somebody may still claim, and nothing is withheld
\* that nobody may.  (An erased account takes its awards along and leaves the
\* status behind.)
PoolMatchesAwards ==
  /\ \A a, b \in Live : of[a] = of[b] => a = b
  /\ \A a \in Live : pool[of[a]] = IF a \in claimed THEN "claimed" ELSE "awarded"
  /\ \A r \in Rewards : pool[r] = "awarded" =>
       \E a \in Awards : of[a] = r /\ (a \in Live \/ to[a] \notin users)

\* A gift code is shown to one account at most, and is never given away again,
\* whoever was awarded it before or was erased since.
CodeRevealedOnce ==
  \A h \in revealed :
    /\ pool[h[1]] = "claimed"
    /\ \A g \in revealed : g[1] = h[1] => g = h

\* Winner and losers of a draw are told different things, and only of draws
\* that were announced.
LosersAreLosers ==
  \A h \in consoled \cup consoling :
    /\ h[2] # to[h[1]]
    /\ Sent(h[1], "won")
    /\ h[2] \in entrants[h[1]]

\* Without a crash, who reads that a reward expires or has expired knows of
\* having won it.
WinnerKnows ==
  faults = 0 => \A a \in Awards : mails[a] # <<>> => mails[a][1] = "won"

\* No e-mail is repeated, whatever crashes between the writes and the sends;
\* after "expired" none follows; a roll under review tells nobody; and winners
\* and losers hear what is true of them, in an order they can follow.
MailsAreTrue ==
  /\ \A a \in Awards :
       /\ \A i, j \in DOMAIN mails[a] : mails[a][i] = mails[a][j] => i = j
       /\ Sent(a, "expired") => mails[a][Len(mails[a])] = "expired"
       /\ a \in pending => mails[a] = <<>>
  /\ LosersAreLosers
  /\ WinnerKnows

\* What a step may take back.
TakenBackFairly ==
  \A a \in voided' \ voided : a \notin claimed \cup pending /\ age[a] = Window

\* An award is only taken back from a winner who did not claim it and had the
\* whole window for it.
FullWindow == [][TakenBackFairly]_vars

\* The winner's account was deleted, with its awards; the status stays behind.
Erased(a) == to[a] \notin users

\* An announced award does not stay open: it is claimed, or it is taken back and
\* the reward returns to the pool.  Only the deletion of the winner's
\* account ends it otherwise, and leaves the reward "awarded" for good.
OpenAwardSettles ==
  \A a \in Awards :
    a \in Open ~>
      (a \in claimed \/ (a \in voided /\ pool[of[a]] = "available") \/ Erased(a))
=============================================================================
