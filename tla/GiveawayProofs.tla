--------------------------- MODULE GiveawayProofs ---------------------------
(***************************************************************************)
(* Proofs about Giveaway, for any accounts, rewards, awards and crashes.   *)
(***************************************************************************)
EXTENDS GiveawayProps, SequenceTheorems, TLAPS

\* An award that has not been made has neither reward nor winner; one that has
\* a row names a reward and an account there is.
RowsName ==
  /\ \A a \in Awards : to[a] = None => of[a] = None
  /\ \A a \in rows : of[a] \in Rewards /\ to[a] \in users /\ to[a] # None

\* An award is under review, claimed or taken back, or none of these.
OneFate ==
  /\ pending \cap claimed = {} /\ pending \cap voided = {} /\ claimed \cap voided = {}

\* The window is what is left of it and what is over.
WindowAddsUp == \A a \in Live : left[a] + age[a] = Window

\* Only the losers of a draw that was made are consoled.
DrawsAreMade == \A h \in consoled \cup consoling : to[h[1]] # None

IInv ==
  /\ TypeOK /\ RowsName /\ OneFate /\ PoolMatchesAwards /\ CodeRevealedOnce
  /\ WindowAddsUp /\ LosersAreLosers /\ DrawsAreMade

LEMMA InitHolds == Init => IInv
<1> SUFFICES ASSUME Init PROVE IInv
  OBVIOUS
<1> USE GiveawayConstantsOK DEF Init
<1>1. TypeOK
  <2>1. /\ mails \in [Awards -> Seq({"won", "15d", "7d", "1d", "expired"})]
        /\ left \in [Awards -> 0 .. Window] /\ age \in [Awards -> 0 .. Window]
    BY DEF Window
  <2>2. /\ of \in [Awards -> Rewards \cup {None}] /\ to \in [Awards -> Users \cup {None}]
        /\ entrants \in [Awards -> SUBSET Users]
        /\ reminded \in [Awards -> SUBSET {"1d", "7d", "15d"}]
        /\ pool \in [Rewards -> {None, "available", "awarded", "claimed"}]
    OBVIOUS
  <2>3. faults \in 0 .. MaxFaults
    OBVIOUS
  <2> QED BY <2>1, <2>2, <2>3 DEF TypeOK
<1>2. RowsName /\ OneFate
  BY DEF RowsName, OneFate
<1>3. PoolMatchesAwards
  BY DEF PoolMatchesAwards, Live
<1>4. CodeRevealedOnce
  BY DEF CodeRevealedOnce
<1>5. WindowAddsUp
  BY DEF WindowAddsUp, Live
<1>6. LosersAreLosers /\ DrawsAreMade
  BY DEF LosersAreLosers, DrawsAreMade
<1> QED BY <1>1, <1>2, <1>3, <1>4, <1>5, <1>6 DEF IInv

(***************************************************************************)
(* The actions differ in what they do to few of the variables: the lemmas  *)
(* below go by those.                                                      *)
(***************************************************************************)

\* A step makes one award, puts one under review through, discards one, lets
\* one be claimed, sweeps, erases an account, lets a period pass, or does not
\* touch the awards.
Effect ==
  \/ \E r \in Rewards, a \in Awards, u \in Users, Q \in SUBSET Users :
       /\ Inserted(r, a, u, Q) /\ pending' \in {pending, pending \cup {a}}
  \/ \E a \in Awards : Confirmed(a)
  \/ \E a \in Awards : DiscardPendingAward(a)
  \/ \E a \in Awards, u \in Users : Claimed(a, u)
  \/ \E stamped, told \in SUBSET Awards :
       SweepWrites(stamped, told) /\ stamped \subseteq DueReminders
  \/ \E u \in Users : DeleteUser(u)
  \/ PeriodEnds
  \/ \E r \in Rewards : AddReward(r) \/ DeleteReward(r)
  \/ UNCHANGED <<users, pool, table, age, revealed>>

LEMMA StepHasEffect == ASSUME TypeOK, [Next]_vars PROVE Effect
<1>1. ASSUME NEW r \in Rewards, NEW a \in Awards, NEW u \in Users, AwardRewardToUser(r, a, u)
      PROVE  Effect
  BY <1>1 DEF AwardRewardToUser, Effect
<1>2. ASSUME NEW r \in Rewards, NEW a \in Awards, NEW u \in Users, NEW Q \in SUBSET Users,
             PreviewRandomRoll(r, a, Q, u)
      PROVE  Effect
  BY <1>2 DEF PreviewRandomRoll, Effect
<1>3. ASSUME NEW a \in Awards, ConfirmPendingAward(a) \/ CrashInConfirm(a) PROVE Effect
  BY <1>3 DEF ConfirmPendingAward, CrashInConfirm, Effect
<1>4. ASSUME NEW a \in Awards, NEW u \in Users,
             NotifyNonWinner(a, u) \/ ClaimReward(a, u) \/ ClaimRewardByToken(a, u)
      PROVE  Effect
  BY <1>4 DEF NotifyNonWinner, ClaimReward, ClaimRewardByToken, Effect
<1>5. CASE RewardSweepTick
  <2>1. DueReminders \in SUBSET Awards /\ Overdue \in SUBSET Awards
    BY DEF TypeOK, DueReminders, Overdue, Open, Live
  <2>2. SweepWrites(DueReminders, Overdue \cup DueReminders)
    BY <1>5 DEF RewardSweepTick
  <2> QED BY <2>1, <2>2 DEF Effect
<1>6. ASSUME NEW stamped \in SUBSET Awards, NEW told \in SUBSET Awards,
             CrashInSweep(stamped, told)
      PROVE  Effect
  BY <1>6 DEF CrashInSweep, Effect
<1>7. CASE Restart \/ TimePasses \/ Outage \/ UNCHANGED vars
  BY <1>7 DEF Restart, TimePasses, Outage, vars, Effect
<1>8. ASSUME NEW a \in Awards, DiscardPendingAward(a) PROVE Effect
  BY <1>8 DEF Effect
<1>9. ASSUME NEW u \in Users, DeleteUser(u) PROVE Effect
  BY <1>9 DEF Effect
<1>10. ASSUME NEW r \in Rewards, AddReward(r) \/ DeleteReward(r) PROVE Effect
  BY <1>10 DEF Effect
<1> QED BY <1>1, <1>2, <1>3, <1>4, <1>5, <1>6, <1>7, <1>8, <1>9, <1>10 DEF Next

LEMMA RowsNameKept == ASSUME IInv, Effect PROVE RowsName'
<1> USE GiveawayConstantsOK DEF IInv, TypeOK, RowsName
<1>1. ASSUME NEW r \in Rewards, NEW a \in Awards, NEW u \in Users, NEW Q \in SUBSET Users,
             Inserted(r, a, u, Q)
      PROVE  RowsName'
  BY <1>1 DEF Inserted, Fresh
<1>2. ASSUME NEW a \in Awards, Confirmed(a) PROVE RowsName'
  BY <1>2 DEF Confirmed
<1>3. ASSUME NEW a \in Awards, DiscardPendingAward(a) PROVE RowsName'
  BY <1>3 DEF DiscardPendingAward
<1>4. ASSUME NEW a \in Awards, NEW u \in Users, Claimed(a, u) PROVE RowsName'
  BY <1>4 DEF Claimed
<1>5. ASSUME NEW stamped, NEW told, SweepWrites(stamped, told) PROVE RowsName'
  BY <1>5 DEF SweepWrites
<1>6. ASSUME NEW u \in Users, DeleteUser(u) PROVE RowsName'
  BY <1>6 DEF DeleteUser
<1>7. CASE PeriodEnds
  BY <1>7 DEF PeriodEnds
<1>8. ASSUME NEW r \in Rewards, AddReward(r) \/ DeleteReward(r) PROVE RowsName'
  BY <1>8 DEF AddReward, DeleteReward, table
<1>9. CASE UNCHANGED <<users, pool, table, age, revealed>>
  BY <1>9 DEF table
<1> QED BY <1>1, <1>2, <1>3, <1>4, <1>5, <1>6, <1>7, <1>8, <1>9 DEF Effect

LEMMA OneFateKept == ASSUME IInv, Effect PROVE OneFate'
<1> USE DEF IInv, TypeOK, OneFate
<1>1. ASSUME NEW r \in Rewards, NEW a \in Awards, NEW u \in Users, NEW Q \in SUBSET Users,
             Inserted(r, a, u, Q), pending' \in {pending, pending \cup {a}}
      PROVE  OneFate'
  BY <1>1 DEF Inserted, Fresh
<1>2. ASSUME NEW a \in Awards, Confirmed(a) PROVE OneFate'
  BY <1>2 DEF Confirmed
<1>3. ASSUME NEW a \in Awards, DiscardPendingAward(a) PROVE OneFate'
  BY <1>3 DEF DiscardPendingAward
<1>4. ASSUME NEW a \in Awards, NEW u \in Users, Claimed(a, u) PROVE OneFate'
  BY <1>4 DEF Claimed, Claimable, Open, Live
<1>5. ASSUME NEW stamped, NEW told, SweepWrites(stamped, told) PROVE OneFate'
  BY <1>5 DEF SweepWrites, Overdue, Open, Live
<1>6. ASSUME NEW u \in Users, DeleteUser(u) PROVE OneFate'
  BY <1>6 DEF DeleteUser
<1>7. CASE PeriodEnds
  BY <1>7 DEF PeriodEnds
<1>8. ASSUME NEW r \in Rewards, AddReward(r) \/ DeleteReward(r) PROVE OneFate'
  BY <1>8 DEF AddReward, DeleteReward, table
<1>9. CASE UNCHANGED <<users, pool, table, age, revealed>>
  BY <1>9 DEF table
<1> QED BY <1>1, <1>2, <1>3, <1>4, <1>5, <1>6, <1>7, <1>8, <1>9 DEF Effect

LEMMA WindowKept == ASSUME IInv, Effect PROVE WindowAddsUp'
<1> USE DEF IInv, TypeOK, WindowAddsUp, Live, Window
<1>1. ASSUME NEW r \in Rewards, NEW a \in Awards, NEW u \in Users, NEW Q \in SUBSET Users,
             Inserted(r, a, u, Q)
      PROVE  WindowAddsUp'
  BY <1>1 DEF Inserted, Fresh
<1>2. ASSUME NEW a \in Awards, Confirmed(a) PROVE WindowAddsUp'
  BY <1>2 DEF Confirmed, StartOfWindow
<1>3. ASSUME NEW a \in Awards, DiscardPendingAward(a) PROVE WindowAddsUp'
  BY <1>3 DEF DiscardPendingAward
<1>4. ASSUME NEW a \in Awards, NEW u \in Users, Claimed(a, u) PROVE WindowAddsUp'
  BY <1>4 DEF Claimed
<1>5. ASSUME NEW stamped, NEW told, SweepWrites(stamped, told) PROVE WindowAddsUp'
  BY <1>5 DEF SweepWrites
<1>6. ASSUME NEW u \in Users, DeleteUser(u) PROVE WindowAddsUp'
  BY <1>6 DEF DeleteUser
<1>7. CASE PeriodEnds
  <2> SUFFICES ASSUME NEW a \in Live PROVE left'[a] + age'[a] = Window
    BY <1>7 DEF PeriodEnds
  <2>1. a \in Awards /\ left[a] \in 0 .. 4 /\ age[a] \in 0 .. 4 /\ left[a] + age[a] = 4
    OBVIOUS
  <2>2. CASE left[a] > 0
    BY <1>7, <2>1, <2>2 DEF PeriodEnds, Running
  <2>3. CASE left[a] = 0
    BY <1>7, <2>1, <2>3 DEF PeriodEnds, Running
  <2> QED BY <2>1, <2>2, <2>3
<1>8. ASSUME NEW r \in Rewards, AddReward(r) \/ DeleteReward(r) PROVE WindowAddsUp'
  BY <1>8 DEF AddReward, DeleteReward, table
<1>9. CASE UNCHANGED <<users, pool, table, age, revealed>>
  BY <1>9 DEF table
<1> QED BY <1>1, <1>2, <1>3, <1>4, <1>5, <1>6, <1>7, <1>8, <1>9 DEF Effect

(***************************************************************************)
(* The pool.  At most one award of a reward is live, and its status says   *)
(* so; that is what keeps a code with the account it was shown to.         *)
(***************************************************************************)
OneLive    == \A a, b \in Live : of[a] = of[b] => a = b
LiveStatus == \A a \in Live : pool[of[a]] = IF a \in claimed THEN "claimed" ELSE "awarded"
Withheld   ==
  \A r \in Rewards : pool[r] = "awarded" =>
    \E a \in Awards : of[a] = r /\ (a \in Live \/ to[a] \notin users)

LEMMA PoolParts == PoolMatchesAwards <=> OneLive /\ LiveStatus /\ Withheld
BY DEF PoolMatchesAwards, OneLive, LiveStatus, Withheld

LEMMA OneLiveKept == ASSUME IInv, Effect PROVE OneLive'
<1>0. OneLive /\ LiveStatus
  BY PoolParts DEF IInv
<1> USE <1>0 DEF IInv, TypeOK, OneLive, Live
<1>1. ASSUME NEW r \in Rewards, NEW a \in Awards, NEW u \in Users, NEW Q \in SUBSET Users,
             Inserted(r, a, u, Q)
      PROVE  OneLive'
  <2>1. \A b \in Live : of[b] # r
    BY <1>1 DEF Inserted, LiveStatus
  <2> QED BY <1>1, <2>1 DEF Inserted, Fresh
<1>2. ASSUME NEW a \in Awards, Confirmed(a) PROVE OneLive'
  BY <1>2 DEF Confirmed
<1>3. ASSUME NEW a \in Awards, DiscardPendingAward(a) PROVE OneLive'
  BY <1>3 DEF DiscardPendingAward
<1>4. ASSUME NEW a \in Awards, NEW u \in Users, Claimed(a, u) PROVE OneLive'
  BY <1>4 DEF Claimed
<1>5. ASSUME NEW stamped, NEW told, SweepWrites(stamped, told) PROVE OneLive'
  BY <1>5 DEF SweepWrites
<1>6. ASSUME NEW u \in Users, DeleteUser(u) PROVE OneLive'
  BY <1>6 DEF DeleteUser
<1>7. CASE PeriodEnds
  BY <1>7 DEF PeriodEnds
<1>8. ASSUME NEW r \in Rewards, AddReward(r) \/ DeleteReward(r) PROVE OneLive'
  BY <1>8 DEF AddReward, DeleteReward, table
<1>9. CASE UNCHANGED <<users, pool, table, age, revealed>>
  BY <1>9 DEF table
<1> QED BY <1>1, <1>2, <1>3, <1>4, <1>5, <1>6, <1>7, <1>8, <1>9 DEF Effect

LEMMA LiveStatusKept == ASSUME IInv, Effect PROVE LiveStatus'
<1>0. OneLive /\ LiveStatus /\ RowsName /\ OneFate
  BY PoolParts DEF IInv
<1>a. TypeOK
  BY DEF IInv
<1> USE <1>0, <1>a DEF TypeOK, OneLive, LiveStatus, RowsName, OneFate, Live
<1>1. ASSUME NEW r \in Rewards, NEW a \in Awards, NEW u \in Users, NEW Q \in SUBSET Users,
             Inserted(r, a, u, Q)
      PROVE  LiveStatus'
  <2>1. \A b \in Live : of[b] # r
    BY <1>1 DEF Inserted
  <2> QED BY <1>1, <2>1 DEF Inserted, Fresh
<1>2. ASSUME NEW a \in Awards, Confirmed(a) PROVE LiveStatus'
  BY <1>2 DEF Confirmed
<1>3. ASSUME NEW a \in Awards, DiscardPendingAward(a) PROVE LiveStatus'
  BY <1>3 DEF DiscardPendingAward, UnderReview
<1>4. ASSUME NEW a \in Awards, NEW u \in Users, Claimed(a, u) PROVE LiveStatus'
  BY <1>4 DEF Claimed, Claimable, Open
<1>5. ASSUME NEW stamped, NEW told, SweepWrites(stamped, told) PROVE LiveStatus'
  <2> SUFFICES ASSUME NEW b \in Live, b \notin Overdue
               PROVE  pool'[of[b]] = IF b \in claimed THEN "claimed" ELSE "awarded"
    BY <1>5 DEF SweepWrites
  <2>1. \A c \in Overdue : of[c] # of[b]
    BY DEF Overdue, Open
  <2>2. of[b] \in Rewards
    OBVIOUS
  <2>3. pool'[of[b]] = pool[of[b]]
    BY <1>5, <2>1, <2>2 DEF SweepWrites, BackInPool
  <2> QED BY <2>3
<1>6. ASSUME NEW u \in Users, DeleteUser(u) PROVE LiveStatus'
  BY <1>6 DEF DeleteUser
<1>7. CASE PeriodEnds
  BY <1>7 DEF PeriodEnds
<1>8. ASSUME NEW r \in Rewards, AddReward(r) \/ DeleteReward(r) PROVE LiveStatus'
  <2>1. \A b \in Live : of[b] # r
    BY <1>8, GiveawayConstantsOK DEF AddReward, DeleteReward
  <2> QED BY <1>8, <2>1 DEF AddReward, DeleteReward, table
<1>9. CASE UNCHANGED <<users, pool, table, age, revealed>>
  BY <1>9 DEF table
<1> QED BY <1>1, <1>2, <1>3, <1>4, <1>5, <1>6, <1>7, <1>8, <1>9 DEF Effect

LEMMA WithheldKept == ASSUME IInv, Effect PROVE Withheld'
<1>0. OneLive /\ LiveStatus /\ Withheld /\ RowsName /\ OneFate /\ TypeOK
  BY PoolParts DEF IInv
<1> SUFFICES ASSUME NEW s \in Rewards, pool'[s] = "awarded"
             PROVE  \E b \in Awards : of'[b] = s /\ (b \in Live' \/ to'[b] \notin users')
  BY DEF Withheld
<1> USE <1>0, GiveawayConstantsOK DEF TypeOK, OneLive, LiveStatus, Withheld, RowsName, OneFate, Live
<1>1. ASSUME NEW r \in Rewards, NEW a \in Awards, NEW u \in Users, NEW Q \in SUBSET Users,
             Inserted(r, a, u, Q)
      PROVE  \E b \in Awards : of'[b] = s /\ (b \in Live' \/ to'[b] \notin users')
  <2>1. CASE s = r
    BY <1>1, <2>1 DEF Inserted, Fresh
  <2>2. CASE s # r
    <3>1. PICK b \in Awards : of[b] = s /\ (b \in Live \/ to[b] \notin users)
      BY <1>1, <2>2 DEF Inserted
    <3>2. b # a
      BY <1>1, <3>1 DEF Inserted, Fresh
    <3> QED BY <1>1, <3>1, <3>2 DEF Inserted
  <2> QED BY <2>1, <2>2
<1>2. ASSUME NEW a \in Awards, Confirmed(a)
      PROVE  \E b \in Awards : of'[b] = s /\ (b \in Live' \/ to'[b] \notin users')
  BY <1>2 DEF Confirmed
<1>3. ASSUME NEW a \in Awards, DiscardPendingAward(a)
      PROVE  \E b \in Awards : of'[b] = s /\ (b \in Live' \/ to'[b] \notin users')
  <2>1. s # of[a] /\ pool[s] = "awarded"
    BY <1>3 DEF DiscardPendingAward, UnderReview
  <2>2. PICK b \in Awards : of[b] = s /\ (b \in Live \/ to[b] \notin users)
    BY <2>1
  <2> QED BY <1>3, <2>1, <2>2 DEF DiscardPendingAward
<1>4. ASSUME NEW a \in Awards, NEW u \in Users, Claimed(a, u)
      PROVE  \E b \in Awards : of'[b] = s /\ (b \in Live' \/ to'[b] \notin users')
  BY <1>4 DEF Claimed
<1>5. ASSUME NEW stamped, NEW told, SweepWrites(stamped, told)
      PROVE  \E b \in Awards : of'[b] = s /\ (b \in Live' \/ to'[b] \notin users')
  <2>1. pool[s] = "awarded" /\ \A c \in Overdue : of[c] # s
    BY <1>5 DEF SweepWrites, BackInPool, Overdue, Open
  <2>2. PICK b \in Awards : of[b] = s /\ (b \in Live \/ to[b] \notin users)
    BY <2>1
  <2> QED BY <1>5, <2>1, <2>2 DEF SweepWrites
<1>6. ASSUME NEW u \in Users, DeleteUser(u)
      PROVE  \E b \in Awards : of'[b] = s /\ (b \in Live' \/ to'[b] \notin users')
  <2>1. PICK b \in Awards : of[b] = s /\ (b \in Live \/ to[b] \notin users)
    BY <1>6 DEF DeleteUser
  <2> QED BY <1>6, <2>1 DEF DeleteUser
<1>7. CASE PeriodEnds
  BY <1>7 DEF PeriodEnds
<1>8. ASSUME NEW r \in Rewards, AddReward(r) \/ DeleteReward(r)
      PROVE  \E b \in Awards : of'[b] = s /\ (b \in Live' \/ to'[b] \notin users')
  <2>1. pool[s] = "awarded"
    BY <1>8 DEF AddReward, DeleteReward
  <2> QED BY <1>8, <2>1 DEF AddReward, DeleteReward, table
<1>9. CASE UNCHANGED <<users, pool, table, age, revealed>>
  BY <1>9 DEF table
<1> QED BY <1>1, <1>2, <1>3, <1>4, <1>5, <1>6, <1>7, <1>8, <1>9 DEF Effect

\* What was claimed stays claimed.
LEMMA ClaimedStays ==
  ASSUME IInv, Effect, NEW r \in Rewards, pool[r] = "claimed" PROVE pool'[r] = "claimed"
<1>0. LiveStatus /\ RowsName /\ OneFate /\ TypeOK
  BY PoolParts DEF IInv
<1> USE <1>0 DEF TypeOK, LiveStatus, RowsName, OneFate, Live
<1>1. ASSUME NEW s \in Rewards, NEW a \in Awards, NEW u \in Users, NEW Q \in SUBSET Users,
             Inserted(s, a, u, Q)
      PROVE  pool'[r] = "claimed"
  BY <1>1 DEF Inserted
<1>2. ASSUME NEW a \in Awards, Confirmed(a) PROVE pool'[r] = "claimed"
  BY <1>2 DEF Confirmed
<1>3. ASSUME NEW a \in Awards, DiscardPendingAward(a) PROVE pool'[r] = "claimed"
  BY <1>3 DEF DiscardPendingAward, UnderReview
<1>4. ASSUME NEW a \in Awards, NEW u \in Users, Claimed(a, u) PROVE pool'[r] = "claimed"
  BY <1>4 DEF Claimed
<1>5. ASSUME NEW stamped, NEW told, SweepWrites(stamped, told) PROVE pool'[r] = "claimed"
  <2>1. \A c \in Overdue : of[c] # r
    BY DEF Overdue, Open
  <2> QED BY <1>5, <2>1 DEF SweepWrites, BackInPool
<1>6. ASSUME NEW u \in Users, DeleteUser(u) PROVE pool'[r] = "claimed"
  BY <1>6 DEF DeleteUser
<1>7. CASE PeriodEnds
  BY <1>7 DEF PeriodEnds
<1>8. ASSUME NEW s \in Rewards, AddReward(s) \/ DeleteReward(s) PROVE pool'[r] = "claimed"
  BY <1>8, GiveawayConstantsOK DEF AddReward, DeleteReward
<1>9. CASE UNCHANGED <<users, pool, table, age, revealed>>
  BY <1>9
<1> QED BY <1>1, <1>2, <1>3, <1>4, <1>5, <1>6, <1>7, <1>8, <1>9 DEF Effect

LEMMA RevealedKept == ASSUME IInv, Effect PROVE CodeRevealedOnce'
<1>0. LiveStatus /\ RowsName /\ TypeOK /\ CodeRevealedOnce
  BY PoolParts DEF IInv
<1>1. ASSUME NEW a \in Awards, NEW u \in Users, Claimed(a, u) PROVE CodeRevealedOnce'
  <2>1. pool[of[a]] = "awarded" /\ of[a] \in Rewards
    BY <1>0, <1>1 DEF Claimed, Claimable, Open, Live, LiveStatus, RowsName, TypeOK
  <2>2. \A h \in revealed : h[1] # of[a] /\ h[1] \in Rewards
    BY <1>0, <2>1 DEF CodeRevealedOnce, TypeOK
  <2>3. pool' = [pool EXCEPT ![of[a]] = "claimed"] /\ revealed' = revealed \cup {<<of[a], u>>}
    BY <1>1 DEF Claimed
  <2>4. pool'[of[a]] = "claimed" /\ \A r \in Rewards : r # of[a] => pool'[r] = pool[r]
    BY <1>0, <2>1, <2>3 DEF TypeOK
  <2>5. ASSUME NEW h \in revealed' PROVE pool'[h[1]] = "claimed"
    BY <1>0, <2>2, <2>3, <2>4 DEF CodeRevealedOnce
  <2>6. ASSUME NEW g \in revealed', NEW h \in revealed', g[1] = h[1] PROVE g = h
    BY <1>0, <2>2, <2>3, <2>6 DEF CodeRevealedOnce
  <2> QED BY <2>5, <2>6 DEF CodeRevealedOnce
<1>2. CASE UNCHANGED revealed
  <2>1. \A h \in revealed : h[1] \in Rewards
    BY <1>0 DEF TypeOK
  <2> QED BY <1>0, <1>2, <2>1, ClaimedStays DEF CodeRevealedOnce
<1>3. UNCHANGED revealed \/ \E a \in Awards, u \in Users : Claimed(a, u)
  BY DEF Effect, Inserted, Confirmed, DiscardPendingAward, SweepWrites, DeleteUser, PeriodEnds,
     AddReward, DeleteReward
<1> QED BY <1>1, <1>2, <1>3

\* Only the sweep takes awards back, and only overdue ones.
LEMMA SweepIsFair == ASSUME IInv, Effect PROVE TakenBackFairly
<1>1. ASSUME NEW stamped, NEW told, SweepWrites(stamped, told) PROVE TakenBackFairly
  <2> SUFFICES ASSUME NEW a \in Overdue
               PROVE  a \notin claimed \cup pending /\ age[a] = Window
    BY <1>1 DEF SweepWrites, TakenBackFairly
  <2>1. a \in Live /\ a \notin claimed \cup pending /\ left[a] = 0
    BY DEF Overdue, Open
  <2>2. age[a] \in 0 .. 4 /\ left[a] + age[a] = 4
    BY <2>1 DEF IInv, TypeOK, WindowAddsUp, Live, Window
  <2> QED BY <2>1, <2>2 DEF Window
<1>2. voided' \subseteq voided \/ \E stamped, told \in SUBSET Awards : SweepWrites(stamped, told)
  BY DEF Effect, Inserted, Confirmed, DiscardPendingAward, Claimed, DeleteUser, PeriodEnds,
     AddReward, DeleteReward, table
<1> QED BY <1>1, <1>2 DEF TakenBackFairly

(***************************************************************************)
(* Types: those of the tables by the effects, those of the e-mails by the  *)
(* actions that send them.                                                 *)
(***************************************************************************)
TableOK ==
  /\ users \subseteq Users
  /\ pool \in [Rewards -> {None, "available", "awarded", "claimed"}]
  /\ rows \subseteq Awards /\ of \in [Awards -> Rewards \cup {None}]
  /\ to \in [Awards -> Users \cup {None}] /\ entrants \in [Awards -> SUBSET Users]
  /\ pending \subseteq rows /\ claimed \subseteq rows /\ voided \subseteq rows
  /\ left \in [Awards -> 0 .. Window] /\ age \in [Awards -> 0 .. Window]
  /\ reminded \in [Awards -> SUBSET {"1d", "7d", "15d"}]
  /\ revealed \subseteq Rewards \X Users

Kinds  == {"won", "15d", "7d", "1d", "expired"}
MailOK ==
  /\ consoling \subseteq Awards \X Users /\ consoled \subseteq Awards \X Users
  /\ mails \in [Awards -> Seq(Kinds)] /\ faults \in 0 .. MaxFaults

LEMMA TypeParts == TypeOK <=> TableOK /\ MailOK
BY DEF TypeOK, TableOK, MailOK, Kinds

LEMMA TableKept == ASSUME IInv, Effect PROVE TableOK'
<1>0. TableOK /\ RowsName /\ WindowAddsUp
  BY TypeParts DEF IInv
<1> USE <1>0 DEF TableOK
<1>1. ASSUME NEW r \in Rewards, NEW a \in Awards, NEW u \in Users, NEW Q \in SUBSET Users,
             Inserted(r, a, u, Q), pending' \in {pending, pending \cup {a}}
      PROVE  TableOK'
  BY <1>1 DEF Inserted, Fresh, Window
<1>2. ASSUME NEW a \in Awards, Confirmed(a) PROVE TableOK'
  BY <1>2 DEF Confirmed, StartOfWindow, Window
<1>3. ASSUME NEW a \in Awards, DiscardPendingAward(a) PROVE TableOK'
  <2>1. a \notin claimed \cup voided
    BY <1>3 DEF DiscardPendingAward, UnderReview
  <2> QED BY <1>3, <2>1 DEF DiscardPendingAward
<1>4. ASSUME NEW a \in Awards, NEW u \in Users, Claimed(a, u) PROVE TableOK'
  <2>1. a \in rows /\ of[a] \in Rewards
    BY <1>4 DEF Claimed, Claimable, Open, Live, RowsName
  <2> QED BY <1>4, <2>1 DEF Claimed
<1>5. ASSUME NEW stamped \in SUBSET Awards, NEW told \in SUBSET Awards,
             SweepWrites(stamped, told), stamped \subseteq DueReminders
      PROVE  TableOK'
  <2>1. Overdue \subseteq rows
    BY DEF Overdue, Open, Live
  <2>2. pool' \in [Rewards -> {None, "available", "awarded", "claimed"}]
    BY <1>5 DEF SweepWrites, BackInPool
  <2>3. \A a \in stamped : Reminder[left[a]] \in {"1d", "7d", "15d"}
    BY <1>5 DEF DueReminders, Reminder
  <2>4. reminded' \in [Awards -> SUBSET {"1d", "7d", "15d"}]
    BY <1>5, <2>3 DEF SweepWrites
  <2> QED BY <1>5, <2>1, <2>2, <2>4 DEF SweepWrites
<1>6. ASSUME NEW u \in Users, DeleteUser(u) PROVE TableOK'
  BY <1>6 DEF DeleteUser
<1>7. CASE PeriodEnds
  <2>1. /\ left' \in [Awards -> 0 .. Window] /\ age' \in [Awards -> 0 .. Window]
    BY <1>7 DEF PeriodEnds, Running, Window
  <2> QED BY <1>7, <2>1 DEF PeriodEnds
<1>8. ASSUME NEW r \in Rewards, AddReward(r) \/ DeleteReward(r) PROVE TableOK'
  BY <1>8 DEF AddReward, DeleteReward, table
<1>9. CASE UNCHANGED <<users, pool, table, age, revealed>>
  BY <1>9 DEF table
<1> QED BY <1>1, <1>2, <1>3, <1>4, <1>5, <1>6, <1>7, <1>8, <1>9 DEF Effect

LEMMA MailKindsKept ==
  ASSUME MailOK, NEW as \in SUBSET Awards, NEW kind, \A a \in as : kind[a] \in Kinds,
         Mailed(as, kind)
  PROVE  mails' \in [Awards -> Seq(Kinds)]
<1>1. ASSUME NEW a \in Awards
      PROVE  (IF a \in as THEN Append(mails[a], kind[a]) ELSE mails[a]) \in Seq(Kinds)
  <2>1. mails[a] \in Seq(Kinds)
    BY DEF MailOK
  <2>2. CASE a \in as
    <3>1. kind[a] \in Kinds
      BY <2>2
    <3> QED BY <2>1, <2>2, <3>1, AppendProperties
  <2> QED BY <2>1, <2>2
<1> QED BY <1>1 DEF Mailed

LEMMA MailKept == ASSUME IInv, [Next]_vars PROVE MailOK'
<1>0. MailOK /\ TableOK
  BY TypeParts DEF IInv
<1>m. MaxFaults \in Nat
  BY GiveawayConstantsOK
<1>1. ASSUME NEW r \in Rewards, NEW a \in Awards, NEW u \in Users, AwardRewardToUser(r, a, u)
      PROVE  MailOK'
  <2>1. mails' \in [Awards -> Seq(Kinds)]
    BY <1>0, <1>1, MailKindsKept DEF AwardRewardToUser, Kinds
  <2> QED BY <1>0, <1>1, <2>1 DEF AwardRewardToUser, Inserted, MailOK
<1>2. ASSUME NEW r \in Rewards, NEW a \in Awards, NEW u \in Users, NEW Q \in SUBSET Users,
             PreviewRandomRoll(r, a, Q, u)
      PROVE  MailOK'
  BY <1>0, <1>2 DEF PreviewRandomRoll, Inserted, MailOK
<1>3. ASSUME NEW a \in Awards, ConfirmPendingAward(a) PROVE MailOK'
  <2>1. mails' \in [Awards -> Seq(Kinds)]
    BY <1>0, <1>3, MailKindsKept DEF ConfirmPendingAward, Kinds
  <2>2. consoling' \subseteq Awards \X Users
    BY <1>0, <1>3 DEF ConfirmPendingAward, MailOK, TableOK
  <2> QED BY <1>0, <1>3, <2>1, <2>2 DEF ConfirmPendingAward, MailOK
<1>4. ASSUME NEW a \in Awards, CrashInConfirm(a) PROVE MailOK'
  BY <1>0, <1>m, <1>4 DEF CrashInConfirm, MailOK
<1>5. ASSUME NEW a \in Awards, DiscardPendingAward(a) PROVE MailOK'
  BY <1>0, <1>5 DEF DiscardPendingAward, MailOK
<1>6. ASSUME NEW a \in Awards, NEW u \in Users, NotifyNonWinner(a, u) PROVE MailOK'
  BY <1>0, <1>6 DEF NotifyNonWinner, MailOK
<1>7. ASSUME NEW a \in Awards, NEW u \in Users, Claimed(a, u) PROVE MailOK'
  BY <1>0, <1>7 DEF Claimed, MailOK
<1>8. ASSUME NEW stamped \in SUBSET Awards, NEW told \in SUBSET Awards,
             SweepWrites(stamped, told), stamped \subseteq DueReminders,
             told \subseteq Overdue \cup stamped
      PROVE  mails' \in [Awards -> Seq(Kinds)] /\ consoled' = consoled
  <2>1. ASSUME NEW a \in told
        PROVE  [b \in told |-> IF b \in Overdue THEN "expired" ELSE Reminder[left[b]]][a] \in Kinds
    BY <1>8 DEF DueReminders, Reminder, Kinds
  <2> QED BY <1>0, <1>8, <2>1, MailKindsKept DEF SweepWrites
<1>9. CASE RewardSweepTick
  <2>1. DueReminders \in SUBSET Awards /\ Overdue \cup DueReminders \in SUBSET Awards
    BY <1>0 DEF TableOK, DueReminders, Overdue, Open, Live
  <2> QED BY <1>0, <1>8, <1>9, <2>1 DEF RewardSweepTick, MailOK
<1>10. ASSUME NEW stamped \in SUBSET Awards, NEW told \in SUBSET Awards,
              CrashInSweep(stamped, told)
       PROVE  MailOK'
  <2>1. /\ SweepWrites(stamped, told) /\ stamped \subseteq DueReminders
        /\ told \subseteq Overdue \cup stamped /\ consoling' = {}
        /\ faults < MaxFaults /\ faults' = faults + 1
    BY <1>10 DEF CrashInSweep
  <2>2. mails' \in [Awards -> Seq(Kinds)] /\ consoled' = consoled
    BY <2>1, <1>8
  <2> QED BY <1>0, <1>m, <2>1, <2>2 DEF MailOK
<1>11. CASE Restart \/ Outage
  BY <1>0, <1>m, <1>11 DEF Restart, Outage, PeriodEnds, MailOK
<1>12. CASE TimePasses \/ UNCHANGED vars
  BY <1>0, <1>12 DEF TimePasses, PeriodEnds, MailOK, vars
<1>13. ASSUME NEW u \in Users, DeleteUser(u) PROVE MailOK'
  BY <1>0, <1>13 DEF DeleteUser, MailOK
<1>14. ASSUME NEW r \in Rewards, AddReward(r) \/ DeleteReward(r) PROVE MailOK'
  BY <1>0, <1>14 DEF AddReward, DeleteReward, MailOK
<1> QED BY <1>1, <1>2, <1>3, <1>4, <1>5, <1>6, <1>7, <1>9, <1>10, <1>11, <1>12, <1>13, <1>14
        DEF Next, ClaimReward, ClaimRewardByToken

(***************************************************************************)
(* Winners and losers.                                                     *)
(***************************************************************************)

\* An e-mail that was sent stays sent.
LEMMA SentStays ==
  ASSUME MailOK, NEW as \in SUBSET Awards, NEW kind, \A a \in as : kind[a] \in Kinds,
         Mailed(as, kind), NEW a \in Awards, Sent(a, "won")
  PROVE  Sent(a, "won")'
<1>1. PICK i \in DOMAIN mails[a] : mails[a][i] = "won"
  BY DEF Sent
<1>2. mails[a] \in Seq(Kinds)
  BY DEF MailOK
<1>3. CASE a \in as
  <2>1. mails'[a] = Append(mails[a], kind[a]) /\ kind[a] \in Kinds
    BY <1>3 DEF Mailed
  <2>2. i \in 1 .. Len(mails[a])
    BY <1>1, <1>2
  <2>3. i \in DOMAIN mails'[a] /\ mails'[a][i] = "won"
    BY <1>1, <1>2, <2>1, <2>2, AppendProperties
  <2> QED BY <2>3 DEF Sent
<1>4. CASE a \notin as
  BY <1>1, <1>4 DEF Mailed, Sent
<1> QED BY <1>3, <1>4

\* Once made, a draw keeps its winner and its entrants.
DrawKept(a) ==
  /\ to[a] # None => to'[a] = to[a] /\ entrants'[a] = entrants[a]
  /\ Sent(a, "won") => Sent(a, "won")'

LEMMA LosersCarry ==
  ASSUME IInv, \A a \in Awards : DrawKept(a),
         consoled' \cup consoling' \subseteq consoled \cup consoling
  PROVE  LosersAreLosers' /\ DrawsAreMade'
<1> SUFFICES ASSUME NEW h \in consoled \cup consoling
             PROVE  /\ h[2] # to'[h[1]] /\ Sent(h[1], "won")' /\ h[2] \in entrants'[h[1]]
                    /\ to'[h[1]] # None
  BY DEF LosersAreLosers, DrawsAreMade, Sent
<1>1. h[1] \in Awards /\ to[h[1]] # None
  BY DEF IInv, TypeOK, DrawsAreMade
<1>2. h[2] # to[h[1]] /\ Sent(h[1], "won") /\ h[2] \in entrants[h[1]]
  BY DEF IInv, LosersAreLosers
<1> QED BY <1>1, <1>2 DEF DrawKept

LEMMA LosersKept == ASSUME IInv, [Next]_vars PROVE LosersAreLosers' /\ DrawsAreMade'
<1>0. MailOK /\ TableOK
  BY TypeParts DEF IInv
<1>a. ASSUME NEW a \in Awards, UNCHANGED <<to, entrants, mails>> PROVE DrawKept(a)
  BY <1>a DEF DrawKept, Sent
<1>1. ASSUME NEW r \in Rewards, NEW a \in Awards, NEW u \in Users, AwardRewardToUser(r, a, u)
      PROVE  LosersAreLosers' /\ DrawsAreMade'
  <2>1. ASSUME NEW b \in Awards PROVE DrawKept(b)
    <3>1. to[b] # None => to'[b] = to[b] /\ entrants'[b] = entrants[b]
      BY <1>0, <1>1 DEF AwardRewardToUser, Inserted, Fresh, TableOK
    <3>2. Sent(b, "won") => Sent(b, "won")'
      BY <1>0, <1>1, SentStays DEF AwardRewardToUser, Kinds
    <3> QED BY <3>1, <3>2 DEF DrawKept
  <2> QED BY <1>1, <2>1, LosersCarry DEF AwardRewardToUser, Inserted
<1>2. ASSUME NEW r \in Rewards, NEW a \in Awards, NEW u \in Users, NEW Q \in SUBSET Users,
             PreviewRandomRoll(r, a, Q, u)
      PROVE  LosersAreLosers' /\ DrawsAreMade'
  <2>1. ASSUME NEW b \in Awards PROVE DrawKept(b)
    <3>1. to[b] # None => to'[b] = to[b] /\ entrants'[b] = entrants[b]
      BY <1>0, <1>2 DEF PreviewRandomRoll, Inserted, Fresh, TableOK
    <3> QED BY <1>2, <3>1 DEF PreviewRandomRoll, DrawKept, Sent
  <2> QED BY <1>2, <2>1, LosersCarry DEF PreviewRandomRoll, Inserted
<1>3. ASSUME NEW a \in Awards, ConfirmPendingAward(a) PROVE LosersAreLosers' /\ DrawsAreMade'
  <2>0. /\ UNCHANGED <<to, entrants, consoled>> /\ a \in rows
        /\ Mailed({a}, [b \in {a} |-> "won"])
        /\ consoling' = consoling \cup {<<a, u>> : u \in LosersOf(a) \cap users}
    BY <1>0, <1>3 DEF ConfirmPendingAward, Confirmed, UnderReview, TableOK
  <2>1. ASSUME NEW b \in Awards PROVE DrawKept(b)
    <3>1. Sent(b, "won") => Sent(b, "won")'
      BY <1>0, <2>0, SentStays DEF Kinds
    <3> QED BY <2>0, <3>1 DEF DrawKept
  <2>2. Sent(a, "won")'
    <3>1. mails[a] \in Seq(Kinds) /\ mails'[a] = Append(mails[a], "won") /\ "won" \in Kinds
      BY <1>0, <2>0 DEF MailOK, Mailed, Kinds
    <3>2. Len(mails[a]) + 1 \in DOMAIN mails'[a] /\ mails'[a][Len(mails[a]) + 1] = "won"
      BY <3>1, AppendProperties
    <3> QED BY <3>2 DEF Sent
  <2>3. ASSUME NEW h \in consoled \cup consoling
        PROVE  /\ h[2] # to'[h[1]] /\ Sent(h[1], "won")' /\ h[2] \in entrants'[h[1]]
               /\ to'[h[1]] # None
    <3>1. h[1] \in Awards /\ to[h[1]] # None
      BY DEF IInv, TypeOK, DrawsAreMade
    <3>2. h[2] # to[h[1]] /\ Sent(h[1], "won") /\ h[2] \in entrants[h[1]]
      BY DEF IInv, LosersAreLosers
    <3> QED BY <2>1, <3>1, <3>2 DEF DrawKept
  <2>4. ASSUME NEW u \in LosersOf(a)
        PROVE  u # to'[a] /\ u \in entrants'[a] /\ to'[a] # None
    BY <2>0 DEF LosersOf, IInv, RowsName
  <2>5. \A h \in consoled' \cup consoling' :
          h \in consoled \cup consoling \/ \E u \in LosersOf(a) : h = <<a, u>>
    BY <2>0
  <2>6. \A h \in consoled' \cup consoling' :
          /\ h[2] # to'[h[1]] /\ Sent(h[1], "won")' /\ h[2] \in entrants'[h[1]]
          /\ to'[h[1]] # None
    BY <2>2, <2>3, <2>4, <2>5 DEF Sent
  <2> QED BY <2>6 DEF LosersAreLosers, DrawsAreMade, Sent
<1>4. ASSUME NEW a \in Awards, CrashInConfirm(a) PROVE LosersAreLosers' /\ DrawsAreMade'
  BY <1>a, <1>4, LosersCarry DEF CrashInConfirm, Confirmed
<1>5. ASSUME NEW a \in Awards, NEW u \in Users,
             DiscardPendingAward(a) \/ NotifyNonWinner(a, u) \/ Claimed(a, u)
      PROVE  LosersAreLosers' /\ DrawsAreMade'
  <2>1. UNCHANGED <<to, entrants, mails>>
    BY <1>5 DEF DiscardPendingAward, NotifyNonWinner, Claimed, table
  <2>2. consoled' \cup consoling' \subseteq consoled \cup consoling
    BY <1>5 DEF DiscardPendingAward, NotifyNonWinner, Claimed
  <2> QED BY <1>a, <2>1, <2>2, LosersCarry
<1>6. ASSUME NEW stamped \in SUBSET Awards, NEW told \in SUBSET Awards,
             SweepWrites(stamped, told), stamped \subseteq DueReminders,
             told \subseteq Overdue \cup stamped, consoling' \subseteq consoling
      PROVE  LosersAreLosers' /\ DrawsAreMade'
  <2>1. ASSUME NEW a \in told
        PROVE  [b \in told |-> IF b \in Overdue THEN "expired" ELSE Reminder[left[b]]][a] \in Kinds
    BY <1>6 DEF DueReminders, Reminder, Kinds
  <2>2. ASSUME NEW b \in Awards PROVE DrawKept(b)
    <3>1. Sent(b, "won") => Sent(b, "won")'
      BY <1>0, <1>6, <2>1, SentStays DEF SweepWrites
    <3> QED BY <1>6, <3>1 DEF SweepWrites, DrawKept
  <2> QED BY <1>6, <2>2, LosersCarry DEF SweepWrites
<1>7. CASE RewardSweepTick
  <2>1. DueReminders \in SUBSET Awards /\ Overdue \cup DueReminders \in SUBSET Awards
    BY <1>0 DEF TableOK, DueReminders, Overdue, Open, Live
  <2> QED BY <1>6, <1>7, <2>1 DEF RewardSweepTick
<1>8. ASSUME NEW stamped \in SUBSET Awards, NEW told \in SUBSET Awards,
             CrashInSweep(stamped, told)
      PROVE  LosersAreLosers' /\ DrawsAreMade'
  <2>1. /\ SweepWrites(stamped, told) /\ stamped \subseteq DueReminders
        /\ told \subseteq Overdue \cup stamped /\ consoling' = {}
    BY <1>8 DEF CrashInSweep
  <2> QED BY <1>6, <2>1
<1>9. CASE Restart \/ TimePasses \/ Outage \/ UNCHANGED vars
  <2>1. UNCHANGED <<to, entrants, mails>> /\ consoled' \cup consoling' \subseteq consoled \cup consoling
    BY <1>9 DEF Restart, TimePasses, Outage, PeriodEnds, vars, table
  <2> QED BY <1>a, <2>1, LosersCarry
<1>10. ASSUME NEW u \in Users, DeleteUser(u) PROVE LosersAreLosers' /\ DrawsAreMade'
  <2>1. UNCHANGED <<to, entrants, mails, consoled, consoling>>
    BY <1>10 DEF DeleteUser
  <2> QED BY <1>a, <2>1, LosersCarry
<1>11. ASSUME NEW r \in Rewards, AddReward(r) \/ DeleteReward(r)
       PROVE  LosersAreLosers' /\ DrawsAreMade'
  <2>1. UNCHANGED <<to, entrants, mails, consoled, consoling>>
    BY <1>11 DEF AddReward, DeleteReward, table
  <2> QED BY <1>a, <2>1, LosersCarry
<1>12. ASSUME NEW a \in Awards, DiscardPendingAward(a) PROVE LosersAreLosers' /\ DrawsAreMade'
  <2>1. UNCHANGED <<to, entrants, mails, consoled, consoling>>
    BY <1>12 DEF DiscardPendingAward
  <2> QED BY <1>a, <2>1, LosersCarry
<1> QED BY <1>1, <1>2, <1>3, <1>4, <1>5, <1>7, <1>8, <1>9, <1>10, <1>11, <1>12
        DEF Next, ClaimReward, ClaimRewardByToken

LEMMA StepHolds == IInv /\ [Next]_vars => IInv'
<1> SUFFICES ASSUME IInv, [Next]_vars PROVE IInv'
  OBVIOUS
<1>1. Effect
  BY StepHasEffect DEF IInv
<1>2. TypeOK'
  BY <1>1, TableKept, MailKept DEF TypeOK, TableOK, MailOK, Kinds
<1>3. PoolMatchesAwards'
  BY <1>1, OneLiveKept, LiveStatusKept, WithheldKept
  DEF PoolMatchesAwards, OneLive, LiveStatus, Withheld
<1> QED BY <1>1, <1>2, <1>3, RowsNameKept, OneFateKept, RevealedKept, WindowKept, LosersKept DEF IInv

LEMMA Inductive == Spec => []IInv
BY InitHolds, StepHolds, PTL DEF Spec

(***************************************************************************)
(* E-mails.  What a mailbox holds is true of its award: MailsAreTrue is    *)
(* inductive with what tells the next e-mail from those before.            *)
(***************************************************************************)
Reminders == {"15d", "7d", "1d"}

\* No e-mail is repeated, and none follows "expired".
NoRepeats(a) ==
  /\ \A i, j \in DOMAIN mails[a] : mails[a][i] = mails[a][j] => i = j
  /\ Sent(a, "expired") => mails[a][Len(mails[a])] = "expired"

\* Before the award is announced there are none, a reminder is sent once it is
\* stamped, and "expired" once the award is taken back.
MailsFit(a) ==
  /\ a \in pending \/ to[a] = None => mails[a] = <<>>
  /\ \A d \in Reminders : Sent(a, d) => d \in reminded[a]
  /\ Sent(a, "expired") => a \notin Live

\* Without a crash an announcement is e-mailed, and first.
Announced(a) ==
  faults = 0 =>
    /\ mails[a] # <<>> => mails[a][1] = "won"
    /\ a \in rows \ pending => mails[a] # <<>>

MailboxOK(a) == NoRepeats(a) /\ MailsFit(a) /\ Announced(a)
MailInv == \A a \in Awards : MailboxOK(a)

\* What has been sent, once one more e-mail is.
LEMMA SentOneMore ==
  ASSUME MailOK, NEW a \in Awards, NEW k \in Kinds, mails'[a] = Append(mails[a], k)
  PROVE  /\ \A x : Sent(a, x)' <=> Sent(a, x) \/ x = k
         /\ mails'[a] # <<>> /\ mails'[a][Len(mails'[a])] = k
         /\ mails[a] # <<>> => mails'[a][1] = mails[a][1]
         /\ mails[a] = <<>> => mails'[a][1] = k
<1> DEFINE m == mails[a]
<1>1. m \in Seq(Kinds) /\ Len(m) \in Nat /\ DOMAIN m = 1 .. Len(m)
  BY DEF MailOK
<1>2. /\ Append(m, k) \in Seq(Kinds) /\ Len(Append(m, k)) = Len(m) + 1
      /\ DOMAIN Append(m, k) = 1 .. (Len(m) + 1)
      /\ \A i \in 1 .. Len(m) : Append(m, k)[i] = m[i]
      /\ Append(m, k)[Len(m) + 1] = k
  BY <1>1, AppendProperties
<1>3. m # <<>> => 1 \in 1 .. Len(m)
  BY <1>1
<1>4. m = <<>> => Len(m) = 0
  BY <1>1
<1>5. Append(m, k) # <<>>
  <2>1. Len(<<>>) = 0 /\ Len(m) + 1 # 0
    BY <1>1
  <2> HIDE DEF m
  <2> QED BY <1>2, <2>1
<1>6. mails'[a] = Append(m, k)
  OBVIOUS
<1>7. \A x : Sent(a, x)' <=> Sent(a, x) \/ x = k
  <2> TAKE x
  <2>1. Sent(a, x)' <=> \E i \in 1 .. (Len(m) + 1) : Append(m, k)[i] = x
    BY <1>2, <1>6 DEF Sent
  <2>2. Sent(a, x) <=> \E i \in 1 .. Len(m) : m[i] = x
    BY <1>1 DEF Sent
  <2>3. Len(m) + 1 \in 1 .. (Len(m) + 1) /\ \A i \in 1 .. (Len(m) + 1) : i \in 1 .. Len(m) \/ i = Len(m) + 1
    BY <1>1
  <2>4. \A i \in 1 .. Len(m) : i \in 1 .. (Len(m) + 1)
    BY <1>1
  <2> HIDE DEF m
  <2> QED BY <1>2, <2>1, <2>2, <2>3, <2>4
<1> HIDE DEF m
<1>8. m # <<>> => mails'[a][1] = m[1]
  BY <1>2, <1>3, <1>6
<1>9. m = <<>> => mails'[a][1] = k
  BY <1>2, <1>4, <1>6
<1> QED BY <1>2, <1>5, <1>6, <1>7, <1>8, <1>9 DEF m

\* An e-mail of a kind not sent before, after none that says it is over.
LEMMA NewMailIsNoRepeat ==
  ASSUME MailOK, NEW a \in Awards, NEW k \in Kinds, mails'[a] = Append(mails[a], k),
         NoRepeats(a), ~Sent(a, k), ~Sent(a, "expired")
  PROVE  NoRepeats(a)'
<1> DEFINE m == mails[a]
<1>1. m \in Seq(Kinds) /\ Len(m) \in Nat /\ DOMAIN m = 1 .. Len(m)
  BY DEF MailOK
<1>2. /\ Len(Append(m, k)) = Len(m) + 1
      /\ DOMAIN Append(m, k) = 1 .. (Len(m) + 1)
      /\ \A i \in 1 .. Len(m) : Append(m, k)[i] = m[i]
      /\ Append(m, k)[Len(m) + 1] = k
  BY <1>1, AppendProperties
<1>3. \A i \in 1 .. Len(m) : m[i] # k
  BY <1>1 DEF Sent
<1>4. \A i, j \in 1 .. Len(m) : m[i] = m[j] => i = j
  BY <1>1 DEF NoRepeats
<1>5. \A i \in 1 .. (Len(m) + 1) : i \in 1 .. Len(m) \/ i = Len(m) + 1
  BY <1>1
<1>6. mails'[a] = Append(m, k)
  OBVIOUS
<1>7. Sent(a, "expired")' => mails'[a][Len(mails'[a])] = "expired"
  BY SentOneMore
<1> HIDE DEF m
<1>8. ASSUME NEW i \in 1 .. (Len(m) + 1), NEW j \in 1 .. (Len(m) + 1), Append(m, k)[i] = Append(m, k)[j]
      PROVE  i = j
  BY <1>2, <1>3, <1>4, <1>5, <1>8
<1> QED BY <1>2, <1>6, <1>7, <1>8 DEF NoRepeats

\* What a step does to a mailbox: nothing, or one of the three things there are
\* to tell.
Quiet(a) ==
  /\ mails'[a] = mails[a]
  /\ a \in Live' => a \in Live \/ to[a] = None
  /\ a \in pending' \/ to'[a] = None => a \in pending \/ to[a] = None
  /\ faults' = 0 /\ a \in rows' \ pending' => a \in rows \ pending

Told(a, k) ==
  /\ mails'[a] = Append(mails[a], k) /\ a \notin pending' /\ to'[a] # None
  /\ \/ k = "won" /\ (a \in pending \/ to[a] = None)
     \/ k \in Reminders /\ a \in Open /\ k \notin reminded[a] /\ k \in reminded'[a]
     \/ k = "expired" /\ a \in Open /\ a \notin Live'

MailboxStep(a) ==
  /\ faults' = 0 => faults = 0
  /\ reminded[a] \subseteq reminded'[a]
  /\ Quiet(a) \/ \E k \in Kinds : Told(a, k)

LEMMA MailboxKept ==
  ASSUME MailOK, NEW a \in Awards, MailboxOK(a), MailboxStep(a) PROVE MailboxOK(a)'
<1>1. CASE Quiet(a)
  <2>1. \A x : Sent(a, x)' <=> Sent(a, x)
    BY <1>1 DEF Quiet, Sent
  <2>2. mails[a] = <<>> => ~Sent(a, "expired")
    BY DEF Sent
  <2>3. NoRepeats(a)'
    BY <1>1 DEF Quiet, MailboxOK, NoRepeats, Sent
  <2>4. MailsFit(a)'
    BY <1>1, <2>1, <2>2 DEF Quiet, MailboxOK, MailsFit, MailboxStep
  <2>5. Announced(a)'
    BY <1>1 DEF Quiet, MailboxOK, Announced, MailboxStep
  <2> QED BY <2>3, <2>4, <2>5 DEF MailboxOK
<1>2. ASSUME NEW k \in Kinds, Told(a, k) PROVE MailboxOK(a)'
  <2>1. mails'[a] = Append(mails[a], k) /\ a \notin pending' /\ to'[a] # None
    BY <1>2 DEF Told
  <2>2. ~Sent(a, k) /\ ~Sent(a, "expired")
    <3>1. mails[a] = <<>> => \A x : ~Sent(a, x)
      BY DEF Sent
    <3>2. a \in Open => a \in Live
      BY DEF Open
    <3> QED BY <1>2, <3>1, <3>2 DEF Told, MailboxOK, MailsFit
  <2>3. NoRepeats(a)'
    BY <2>1, <2>2, NewMailIsNoRepeat DEF MailboxOK
  <2>4. MailsFit(a)'
    <3>1. \A d \in Reminders : Sent(a, d)' => d \in reminded'[a]
      BY <1>2, <2>1, SentOneMore DEF Told, Reminders, MailboxOK, MailsFit, MailboxStep
    <3>2. Sent(a, "expired")' => a \notin Live'
      BY <1>2, <2>1, <2>2, SentOneMore DEF Told, Reminders
    <3> QED BY <2>1, <3>1, <3>2 DEF MailsFit
  <2>5. Announced(a)'
    <3>1. a \in Open => a \in rows \ pending
      BY DEF Open, Live
    <3>2. k = "won" => mails[a] = <<>>
      BY <1>2 DEF Told, Reminders, MailboxOK, MailsFit
    <3>3. mails'[a] # <<>> /\ (mails[a] # <<>> => mails'[a][1] = mails[a][1]) /\ (mails[a] = <<>> => mails'[a][1] = k)
      BY <2>1, SentOneMore
    <3> QED BY <1>2, <3>1, <3>2, <3>3 DEF Told, MailboxOK, Announced, MailboxStep
  <2> QED BY <2>3, <2>4, <2>5 DEF MailboxOK
<1> QED BY <1>1, <1>2 DEF MailboxStep

LEMMA EveryMailboxSteps ==
  ASSUME IInv, [Next]_vars, NEW a \in Awards PROVE MailboxStep(a)
<1>0. MailOK /\ TableOK /\ RowsName /\ OneFate
  BY TypeParts DEF IInv
<1>1. faults \in Nat /\ None \notin Users
  BY <1>0, GiveawayConstantsOK DEF MailOK
<1>2. a \in rows => to[a] # None
  BY <1>0 DEF RowsName
<1>3. ASSUME mails'[a] = mails[a], UNCHANGED <<to, rows, pending, reminded>>, voided \subseteq voided',
             faults' = 0 => faults = 0
      PROVE  MailboxStep(a)
  BY <1>3 DEF MailboxStep, Quiet, Live
<1>4. ASSUME NEW r \in Rewards, NEW b \in Awards, NEW u \in Users, AwardRewardToUser(r, b, u)
      PROVE  MailboxStep(a)
  <2>1. /\ to[b] = None /\ b \notin rows /\ rows' = rows \cup {b} /\ to' = [to EXCEPT ![b] = u]
        /\ pending' = pending /\ voided' = voided /\ reminded' = reminded /\ faults' = faults
        /\ Mailed({b}, [c \in {b} |-> "won"])
    BY <1>4 DEF AwardRewardToUser, Inserted, Fresh
  <2>2. b \notin pending
    BY <1>0, <2>1 DEF TableOK
  <2>3. CASE a = b
    <3>1. mails'[a] = Append(mails[a], "won") /\ to'[a] # None /\ a \notin pending'
      BY <1>0, <1>1, <2>1, <2>2, <2>3 DEF Mailed, TableOK
    <3> QED BY <2>1, <2>3, <3>1 DEF MailboxStep, Told, Kinds
  <2>4. CASE a # b
    <3>1. mails'[a] = mails[a] /\ to'[a] = to[a]
      BY <1>0, <2>1, <2>4 DEF Mailed, TableOK
    <3> QED BY <2>1, <2>4, <3>1 DEF MailboxStep, Quiet, Live
  <2> QED BY <2>3, <2>4
<1>5. ASSUME NEW r \in Rewards, NEW b \in Awards, NEW u \in Users, NEW Q \in SUBSET Users,
             PreviewRandomRoll(r, b, Q, u)
      PROVE  MailboxStep(a)
  <2>1. /\ to[b] = None /\ b \notin rows /\ rows' = rows \cup {b} /\ to' = [to EXCEPT ![b] = u]
        /\ pending' = pending \cup {b} /\ voided' = voided /\ reminded' = reminded /\ faults' = faults
        /\ mails' = mails
    BY <1>5 DEF PreviewRandomRoll, Inserted, Fresh
  <2>2. to'[a] = None => to[a] = None
    BY <1>0, <1>1, <2>1 DEF TableOK
  <2> QED BY <2>1, <2>2 DEF MailboxStep, Quiet, Live
<1>6. ASSUME NEW b \in Awards, Confirmed(b)
      PROVE  /\ b \in pending /\ b \in rows /\ pending' = pending \ {b}
             /\ UNCHANGED <<rows, to, voided, reminded>>
  BY <1>0, <1>6 DEF Confirmed, UnderReview, TableOK
<1>7. ASSUME NEW b \in Awards, ConfirmPendingAward(b) PROVE MailboxStep(a)
  <2>1. /\ b \in pending /\ b \in rows /\ pending' = pending \ {b} /\ UNCHANGED <<rows, to, voided, reminded>>
        /\ Mailed({b}, [c \in {b} |-> "won"]) /\ faults' = faults
    BY <1>6, <1>7 DEF ConfirmPendingAward
  <2>2. CASE a = b
    <3>1. mails'[a] = Append(mails[a], "won") /\ to'[a] # None /\ a \notin pending'
      BY <1>2, <2>1, <2>2 DEF Mailed
    <3> QED BY <2>1, <2>2, <3>1 DEF MailboxStep, Told, Kinds
  <2>3. CASE a # b
    <3>1. mails'[a] = mails[a]
      BY <2>1, <2>3 DEF Mailed
    <3> QED BY <2>1, <2>3, <3>1 DEF MailboxStep, Quiet, Live
  <2> QED BY <2>2, <2>3
<1>8. ASSUME NEW b \in Awards, CrashInConfirm(b) PROVE MailboxStep(a)
  <2>1. /\ b \in pending /\ pending' = pending \ {b} /\ UNCHANGED <<rows, to, voided, reminded, mails>>
        /\ faults' = faults + 1
    BY <1>6, <1>8 DEF CrashInConfirm
  <2> QED BY <1>1, <2>1 DEF MailboxStep, Quiet, Live
<1>9. ASSUME NEW b \in Awards, DiscardPendingAward(b) PROVE MailboxStep(a)
  <2>1. rows' = rows \ {b} /\ pending' = pending \ {b} /\ UNCHANGED <<to, voided, reminded, mails, faults>>
    BY <1>9 DEF DiscardPendingAward
  <2> QED BY <2>1 DEF MailboxStep, Quiet, Live
<1>10. ASSUME NEW b \in Awards, NEW u \in Users, NotifyNonWinner(b, u) \/ Claimed(b, u)
       PROVE  MailboxStep(a)
  BY <1>3, <1>10 DEF NotifyNonWinner, Claimed, table
<1>11. ASSUME NEW stamped \in SUBSET Awards, NEW told \in SUBSET Awards,
              SweepWrites(stamped, told), stamped \subseteq DueReminders,
              told \subseteq Overdue \cup stamped, faults' = 0 => faults = 0
       PROVE  MailboxStep(a)
  <2>1. /\ UNCHANGED <<rows, to, pending>> /\ voided' = voided \cup Overdue
        /\ mails'[a] = IF a \in told THEN Append(mails[a], IF a \in Overdue THEN "expired" ELSE Reminder[left[a]])
                       ELSE mails[a]
        /\ reminded'[a] = IF a \in stamped THEN reminded[a] \cup {Reminder[left[a]]} ELSE reminded[a]
    BY <1>11 DEF SweepWrites, Mailed
  <2>2. reminded[a] \subseteq reminded'[a]
    BY <2>1
  <2>3. CASE a \notin told
    BY <1>11, <2>1, <2>2, <2>3 DEF MailboxStep, Quiet, Live
  <2>4. CASE a \in told /\ a \in Overdue
    <3>1. a \in Open /\ a \notin pending /\ a \notin Live' /\ to'[a] # None
      BY <1>2, <2>1, <2>4 DEF Overdue, Open, Live
    <3> QED BY <1>11, <2>1, <2>2, <2>4, <3>1 DEF MailboxStep, Told, Kinds
  <2>5. CASE a \in told /\ a \notin Overdue
    <3>1. a \in stamped /\ a \in DueReminders
      BY <1>11, <2>5
    <3>2. a \in Open /\ a \notin pending /\ to'[a] # None
      BY <1>2, <2>1, <3>1 DEF DueReminders, Open, Live
    <3>3. /\ Reminder[left[a]] \in Reminders /\ Reminder[left[a]] \in Kinds
          /\ Reminder[left[a]] \notin reminded[a] /\ Reminder[left[a]] \in reminded'[a]
      BY <2>1, <3>1 DEF DueReminders, Reminder, Reminders, Kinds
    <3> QED BY <1>11, <2>1, <2>2, <2>5, <3>2, <3>3 DEF MailboxStep, Told
  <2> QED BY <2>3, <2>4, <2>5
<1>12. CASE RewardSweepTick
  <2>1. DueReminders \in SUBSET Awards /\ Overdue \cup DueReminders \in SUBSET Awards
    BY <1>0 DEF TableOK, DueReminders, Overdue, Open, Live
  <2> QED BY <1>11, <1>12, <2>1 DEF RewardSweepTick
<1>13. ASSUME NEW stamped \in SUBSET Awards, NEW told \in SUBSET Awards, CrashInSweep(stamped, told)
       PROVE  MailboxStep(a)
  BY <1>1, <1>11, <1>13 DEF CrashInSweep
<1>14. ASSUME NEW u \in Users, DeleteUser(u) PROVE MailboxStep(a)
  <2>1. /\ rows' \subseteq rows /\ pending' \subseteq pending /\ UNCHANGED <<to, reminded, mails, faults>>
        /\ rows' \ pending' \subseteq rows \ pending /\ Live' \subseteq Live
    BY <1>14 DEF DeleteUser, Live
  <2> QED BY <2>1 DEF MailboxStep, Quiet
<1>15. CASE Restart \/ TimePasses \/ Outage \/ UNCHANGED vars
  BY <1>1, <1>3, <1>15 DEF Restart, TimePasses, Outage, PeriodEnds, vars, table
<1>16. ASSUME NEW r \in Rewards, AddReward(r) \/ DeleteReward(r) PROVE MailboxStep(a)
  BY <1>3, <1>16 DEF AddReward, DeleteReward, table
<1> QED BY <1>4, <1>5, <1>7, <1>8, <1>9, <1>10, <1>12, <1>13, <1>14, <1>15, <1>16
        DEF Next, ClaimReward, ClaimRewardByToken

LEMMA MailInvariance == Spec => []MailInv
<1>1. Init => MailInv
  BY DEF Init, MailInv, MailboxOK, NoRepeats, MailsFit, Announced, Sent
<1>2. IInv /\ MailInv /\ [Next]_vars => MailInv'
  BY EveryMailboxSteps, MailboxKept, TypeParts DEF MailInv, IInv
<1> QED BY <1>1, <1>2, Inductive, PTL DEF Spec

\* No award, sweep, claim, erased account or crash takes a table or a mailbox
\* out of its domain.
THEOREM GiveawayTypeCorrect == Spec => []TypeOK
BY Inductive, PTL DEF IInv

\* The status of a reward always agrees with its awards.
THEOREM StatusMatchesAwards == Spec => []PoolMatchesAwards
BY Inductive, PTL DEF IInv

\* A code is shown to one account at most, and never given away again.
THEOREM CodesGoToOneAccount == Spec => []CodeRevealedOnce
BY Inductive, PTL DEF IInv

\* Only those who entered a draw that was announced and lost it are consoled.
THEOREM OnlyLosersAreConsoled == Spec => []LosersAreLosers
BY Inductive, PTL DEF IInv

\* Nothing is taken back before its window is over.
THEOREM NothingTakenBackEarly == Spec => FullWindow
<1>1. IInv /\ [Next]_vars => TakenBackFairly
  BY StepHasEffect, SweepIsFair DEF IInv
<1> QED BY <1>1, Inductive, PTL DEF Spec, FullWindow

\* Whatever the administrators, the sweep, erased accounts and crashes do, no
\* e-mail of the giveaways is repeated, none contradicts another one.
THEOREM MailsStayTrue == Spec => []MailsAreTrue
<1>1. IInv /\ MailInv => MailsAreTrue
  BY DEF IInv, MailInv, MailboxOK, NoRepeats, MailsFit, Announced, MailsAreTrue, WinnerKnows
<1> QED BY <1>1, Inductive, MailInvariance, PTL
=============================================================================
