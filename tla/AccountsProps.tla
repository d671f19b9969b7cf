--------------------------- MODULE AccountsProps ----------------------------
(* What the accounts must satisfy. *)
EXTENDS Accounts

\* Every variable keeps its type; among others, evicting the oldest before each
\* login keeps the session rows within the limit.
TypeOK ==
  /\ table \in {"users", "admin_users"}
  /\ account \in {"none", "active", "inactive", "deleted"}
  /\ fails \in 0 .. MaxFails /\ lock \in {"none", "running", "over"}
  /\ wrong \in Nat /\ sessions \in 0 .. MaxSessions
  /\ email \in Addresses \cup {NoAddress} /\ links \subseteq Addresses
  /\ verified \in BOOLEAN /\ hasPassword \in BOOLEAN /\ provider \in BOOLEAN
  /\ unnamed \in BOOLEAN /\ resetLink \in BOOLEAN
  /\ proved \in BOOLEAN /\ edited \in BOOLEAN
  /\ referral \in {"none", "pending", "same ip", "credited", "rejected"}
  /\ totp \in {"off", "pending", "on"} /\ lastUsed \in 0 .. MaxNow + 1
  /\ recovery \in 0 .. RecoveryCodes /\ pending \in 0 .. MaxPending
  /\ now \in 1 .. MaxNow
  /\ uses \in Seq([code : 1 .. MaxNow + 1, crossed : 0 .. MaxNow])

\* Nobody tries MaxFails wrong passwords without a lock or a correct login in
\* between, though the count is reset by logins of any kind and by locks that
\* ran out, and is taken from a row read before that reset.
LockComesInTime == wrong < MaxFails

\* An address counts as verified only if somebody followed a link sent to it
\* since it became the account's address: links to earlier addresses, resent
\* or still unopened, never verify the present one.  Except where the address
\* was edited by an administrator, or a crash kept the old links alive.
VerifiedAddressWasProved == verified /\ ~edited => proved

\* What a step may do to the referral.
ReferralStep ==
  /\ verified' => referral' \notin {"pending", "same ip"}
  /\ referral \in {"credited", "rejected"} /\ referral' # referral =>
       account' = "deleted"
  /\ referral' = "credited" /\ referral # "credited" =>
       email \notin Disposable /\ (proved' \/ edited)

\* A referral waits exactly until the first link is followed and is settled
\* then, once and for good (unless the account is deleted); it is credited only
\* for a link to the present address, which is no throw-away one.
ReferralSettles == [][ReferralStep]_vars

\* From enrolment until the second step is switched off, a one-time code is
\* accepted again, whichever of login, enrolment and pending tokens takes it,
\* only if more windows began while it was verified (between totp.validate and
\* the counter's own Date.now) than at the time before: never within one
\* window, and at most twice if no verification takes 30 seconds.
CodesWorkOnce ==
  \A i, j \in DOMAIN uses :
    i < j /\ uses[i].code = uses[j].code => uses[i].crossed < uses[j].crossed
=============================================================================
