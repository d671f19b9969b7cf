------------------------------ MODULE Giveaway ------------------------------
(***************************************************************************)
(* The pool of gift codes and their awards: rewards.ts, with the deletion  *)
(* of accounts (adminUsers.ts) and the sweep that index.ts runs on boot    *)
(* and every hour.  The claim window of 30 days is cut where reminders are *)
(* due: periods of more than 15 days left, 15 to 7, 7 to 1, and the last.  *)
(***************************************************************************)
EXTENDS Integers, Sequences, FiniteSets

CONSTANTS
  Users,
  Rewards,            \* ids of reward_pool
  Awards,             \* ids of reward_awards
  MaxFaults,          \* bound on crashes and restarts
  None

ASSUME GiveawayConstantsOK ==
  /\ None \notin Users \cup Rewards \cup {"available", "awarded", "claimed"}
  /\ MaxFaults \in Nat

VARIABLES
  users,              \* the accounts there are
  pool,               \* reward_pool.status, None: no such row
  rows, of, to,       \* reward_awards: the rows, reward_id, user_id
  entrants,           \*   award_criteria.qualifyingUserIds
  pending, claimed, voided,    \* pending_review_at, claimed_at, voided_at
  left, reminded,     \*   claim_expires_at from now, reminder_*d_sent_at
  consoling,          \* e-mails the consolation batch still has to send
  age,                \* periods since the award was announced (awarded_at)
  mails, consoled, revealed, faults    \* history

table == <<rows, of, to, entrants, pending, claimed, voided, left, reminded>>
vars  == <<users, pool, table, consoling, age, mails, consoled, revealed, faults>>

Window   == 4
Reminder == [d \in 1 .. 3 |-> <<"1d", "7d", "15d">>[d]]   \* by periods left

Live       == rows \ voided
Open       == Live \ (claimed \cup pending)
Fresh(a)   == a \notin rows /\ to[a] = None
Mailed(as, kind) ==
  mails' = [a \in Awards |-> IF a \in as THEN Append(mails[a], kind[a]) ELSE mails[a]]
Sent(a, kind) == \E i \in DOMAIN mails[a] : mails[a][i] = kind

Init ==
  /\ users = Users /\ pool = [r \in Rewards |-> None]
  /\ rows = {} /\ of = [a \in Awards |-> None] /\ to = [a \in Awards |-> None]
  /\ entrants = [a \in Awards |-> {}]
  /\ pending = {} /\ claimed = {} /\ voided = {}
  /\ left = [a \in Awards |-> 0] /\ reminded = [a \in Awards |-> {}]
  /\ consoling = {} /\ age = [a \in Awards |-> 0]
  /\ mails = [a \in Awards |-> <<>>] /\ consoled = {} /\ revealed = {} /\ faults = 0

(***************************************************************************)
(* The pool.                                                               *)
(***************************************************************************)
AddReward(r) ==
  /\ pool[r] = None
  /\ pool' = [pool EXCEPT ![r] = "available"]
  /\ UNCHANGED <<users, table, consoling, age, mails, consoled, revealed, faults>>

\* A foreign key refuses the deletion while an award, even a voided one,
\* refers to the reward.
DeleteReward(r) ==
  /\ pool[r] = "available" /\ \A a \in rows : of[a] # r
  /\ pool' = [pool EXCEPT ![r] = None]
  /\ UNCHANGED <<users, table, consoling, age, mails, consoled, revealed, faults>>

(***************************************************************************)
(* Awarding.                                                               *)
(***************************************************************************)
Inserted(r, a, u, Q) ==
  /\ pool[r] = "available" /\ Fresh(a) /\ u \in users
  /\ rows' = rows \cup {a}
  /\ of' = [of EXCEPT ![a] = r] /\ to' = [to EXCEPT ![a] = u]
  /\ entrants' = [entrants EXCEPT ![a] = Q]
  /\ left' = [left EXCEPT ![a] = Window] /\ age' = [age EXCEPT ![a] = 0]
  /\ pool' = [pool EXCEPT ![r] = "awarded"]
  /\ UNCHANGED <<users, claimed, voided, reminded, consoling, consoled, revealed, faults>>

AwardRewardToUser(r, a, u) ==
  /\ Inserted(r, a, u, {})
  /\ Mailed({a}, [b \in {a} |-> "won"])
  /\ UNCHANGED pending

\* Points, streaks, exclusions and the period of the criteria single out any
\* set of accounts.
QualifyingPlayers == (SUBSET users) \ {{}}

\* Referrals only weigh the draw: any qualifying user may win it.
PreviewRandomRoll(r, a, Q, u) ==
  /\ Q \in QualifyingPlayers /\ u \in Q
  /\ Inserted(r, a, u, Q)
  /\ pending' = pending \cup {a}
  /\ UNCHANGED mails

KeepDeadline(a)  == left                                              \* mutant
StartOfWindow(a) == [left EXCEPT ![a] = Window]

EveryEntrant(a) == entrants[a]                                        \* mutant
LosersOf(a)     == entrants[a] \ {to[a]}

UnderReview(a) == a \in pending \ (voided \cup claimed)

Confirmed(a) ==
  /\ UnderReview(a)
  /\ pending' = pending \ {a}
  /\ left' = StartOfWindow(a) /\ age' = [age EXCEPT ![a] = 0]
  /\ UNCHANGED <<users, pool, rows, of, to, entrants, claimed, voided, reminded, revealed>>

ConfirmPendingAward(a) ==
  /\ Confirmed(a)
  /\ Mailed({a}, [b \in {a} |-> "won"])
  /\ consoling' = consoling \cup {<<a, u>> : u \in LosersOf(a) \cap users}
  /\ UNCHANGED <<consoled, faults>>

\* The e-mails go out after the transaction: a crash in between loses them.
CrashInConfirm(a) ==
  /\ Confirmed(a)
  /\ faults < MaxFaults /\ faults' = faults + 1
  /\ consoling' = {}
  /\ UNCHANGED <<mails, consoled>>

DiscardPendingAward(a) ==
  /\ UnderReview(a)
  /\ rows' = rows \ {a} /\ pending' = pending \ {a}
  /\ pool' = [pool EXCEPT ![of[a]] = "available"]
  /\ UNCHANGED <<users, of, to, entrants, claimed, voided, left, reminded, consoling, age, mails,
                 consoled, revealed, faults>>

\* notifyGiveawayNonWinners, one recipient: preferences may skip the e-mail.
NotifyNonWinner(a, u) ==
  /\ <<a, u>> \in consoling
  /\ consoling' = consoling \ {<<a, u>>}
  /\ consoled' \in {consoled, IF u \in users THEN consoled \cup {<<a, u>>} ELSE consoled}
  /\ UNCHANGED <<users, pool, table, age, mails, revealed, faults>>

(***************************************************************************)
(* Claiming, by the id of the reward or by the token in the e-mail.        *)
(***************************************************************************)
Claimable(a, u)   == a \in Open /\ to[a] = u /\ left[a] > 0

Claimed(a, u) ==
  /\ u \in users /\ Claimable(a, u)
  /\ claimed' = claimed \cup {a}
  /\ pool' = [pool EXCEPT ![of[a]] = "claimed"]
  /\ revealed' = revealed \cup {<<of[a], u>>}
  /\ UNCHANGED <<users, rows, of, to, entrants, pending, voided, left, reminded, consoling, age,
                 mails, consoled, faults>>

ClaimReward(a, u)        == Claimed(a, u) /\ pool[of[a]] = "awarded"
ClaimRewardByToken(a, u) == Claimed(a, u)

(***************************************************************************)
(* The sweep: expireOverdueRewards, then sendClaimReminders.               *)
(***************************************************************************)
WithClaimed   == {a \in Live \ pending : left[a] = 0}                 \* mutant
OnceWarned    == {a \in Open : left[a] = 0 /\ "1d" \in reminded[a]} \* mutant
Overdue       == {a \in Open : left[a] = 0}
DueReminders  == {a \in Open : left[a] \in DOMAIN Reminder /\ Reminder[left[a]] \notin reminded[a]}

SweepDue == Overdue \cup DueReminders # {}

StatusKept == pool                                                    \* mutant
BackInPool == [r \in Rewards |-> IF \E a \in Overdue : of[a] = r THEN "available" ELSE pool[r]]

\* The overdue awards are voided in a transaction; then, one after the other,
\* the e-mails in `told` are sent, each reminder after it was stamped.
SweepWrites(stamped, told) ==
  /\ voided' = voided \cup Overdue
  /\ pool' = BackInPool
  /\ reminded' = [a \in Awards |->
       IF a \in stamped THEN reminded[a] \cup {Reminder[left[a]]} ELSE reminded[a]]
  /\ Mailed(told, [a \in told |-> IF a \in Overdue THEN "expired" ELSE Reminder[left[a]]])
  /\ UNCHANGED <<users, rows, of, to, entrants, pending, claimed, left, age, consoled, revealed>>

RewardSweepTick ==
  /\ SweepDue
  /\ SweepWrites(DueReminders, Overdue \cup DueReminders)
  /\ UNCHANGED <<consoling, faults>>

CrashInSweep(stamped, told) ==
  /\ faults < MaxFaults /\ faults' = faults + 1
  /\ SweepDue
  /\ stamped \subseteq DueReminders /\ told \subseteq Overdue \cup stamped
  /\ Cardinality(stamped \ told) <= 1
  /\ stamped # {} => Overdue \subseteq told
  /\ SweepWrites(stamped, told)
  /\ consoling' = {}

(***************************************************************************)
(* The rest of the server.                                                 *)
(***************************************************************************)

\* deleteUser erases the user's awards and does not look at the pool.
DeleteUser(u) ==
  LET mine == {a \in rows : to[a] = u} IN
  /\ u \in users
  /\ users' = users \ {u} /\ rows' = rows \ mine
  /\ pending' = pending \ mine /\ claimed' = claimed \ mine /\ voided' = voided \ mine
  /\ UNCHANGED <<pool, of, to, entrants, left, reminded, consoling, age, mails, consoled,
                 revealed, faults>>

\* The batch of consolation e-mails is in memory.
Restart ==
  /\ faults < MaxFaults /\ faults' = faults + 1
  /\ consoling # {} /\ consoling' = {}
  /\ UNCHANGED <<users, pool, table, age, mails, consoled, revealed>>

Running(a) == a \in Live /\ left[a] > 0

PeriodEnds ==
  /\ \E a \in Awards : Running(a)
  /\ left' = [a \in Awards |-> IF Running(a) THEN left[a] - 1 ELSE left[a]]
  /\ age' = [a \in Awards |-> IF Running(a) /\ age[a] < Window THEN age[a] + 1 ELSE age[a]]
  /\ UNCHANGED <<users, pool, rows, of, to, entrants, pending, claimed, voided, reminded,
                 mails, consoled, revealed>>

\* Periods last days and the sweep comes every hour: only a server that is
\* down misses one.
TimePasses == ~SweepDue /\ PeriodEnds /\ UNCHANGED <<consoling, faults>>
Outage ==
  /\ faults < MaxFaults /\ faults' = faults + 1
  /\ SweepDue /\ PeriodEnds
  /\ consoling' = {}

Next ==
  \/ \E r \in Rewards : AddReward(r) \/ DeleteReward(r)
  \/ \E r \in Rewards, a \in Awards, u \in Users :
       AwardRewardToUser(r, a, u) \/ \E Q \in SUBSET Users : PreviewRandomRoll(r, a, Q, u)
  \/ \E a \in Awards : ConfirmPendingAward(a) \/ CrashInConfirm(a) \/ DiscardPendingAward(a)
  \/ \E a \in Awards, u \in Users :
       NotifyNonWinner(a, u) \/ ClaimReward(a, u) \/ ClaimRewardByToken(a, u)
  \/ RewardSweepTick \/ \E stamped, told \in SUBSET Awards : CrashInSweep(stamped, told)
  \/ \E u \in Users : DeleteUser(u)
  \/ Restart \/ TimePasses \/ Outage

\* The hourly sweep keeps running and time passes; the batch, once started,
\* goes through its recipients.  Administrators and winners owe nothing.
Fairness ==
  /\ WF_vars(TimePasses) /\ WF_vars(RewardSweepTick)
  /\ WF_vars(\E a \in Awards, u \in Users : NotifyNonWinner(a, u))

Spec == Init /\ [][Next]_vars /\ Fairness

TypeOK ==
  /\ users \subseteq Users
  /\ pool \in [Rewards -> {None, "available", "awarded", "claimed"}]
  /\ rows \subseteq Awards /\ of \in [Awards -> Rewards \cup {None}]
  /\ to \in [Awards -> Users \cup {None}] /\ entrants \in [Awards -> SUBSET Users]
  /\ pending \subseteq rows /\ claimed \subseteq rows /\ voided \subseteq rows
  /\ left \in [Awards -> 0 .. Window] /\ age \in [Awards -> 0 .. Window]
  /\ reminded \in [Awards -> SUBSET {"1d", "7d", "15d"}]
  /\ consoling \subseteq Awards \X Users /\ consoled \subseteq Awards \X Users
  /\ mails \in [Awards -> Seq({"won", "15d", "7d", "1d", "expired"})]
  /\ revealed \subseteq Rewards \X Users /\ faults \in 0 .. MaxFaults
=============================================================================
