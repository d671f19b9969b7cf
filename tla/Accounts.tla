------------------------------ MODULE Accounts ------------------------------
(* One account, of a player (table "users") or of an administrator (table      *)
(* "admin_users"): the login lockout both share, and then                     *)
(*  - of a player: registration with a referral code, sign-in with a provider,*)
(*    sessions, e-mail verification, change and reset of the password, and    *)
(*    what an administrator does to the account;                              *)
(*  - of an administrator: two-step login with one-time codes.                *)
(* Accounts meet only where names and addresses must be unique, so one account*)
(* is enough: a refusal for a name already taken leaves no trace.  Every      *)
(* handler is synchronous and thus one step; where it makes several commits,  *)
(* a crash may come between them.  Expiry is a step that may come at any time.*)
EXTENDS Integers, Sequences

CONSTANTS
  Addresses,    \* e-mail addresses
  NoAddress,    \* an account has no address before it exists
  Disposable,   \* those of throw-away providers
  MaxFails,     \* userMaxFailedLogins, adminMaxFailedLogins
  MaxSessions,  \* userMaxSessions; bounds an administrator's sessions too
  RecoveryCodes,\* admin2faRecoveryCodeCount
  MaxPending,   \* bound: pending second steps
  MaxNow        \* bound: 30-second windows of the one-time codes

ASSUME ConstantsOK ==
  /\ Disposable \subseteq Addresses /\ NoAddress \notin Addresses
  /\ MaxFails \in Nat \ {0} /\ MaxSessions \in Nat \ {0}
  /\ RecoveryCodes \in Nat /\ MaxPending \in Nat
  /\ MaxNow \in Nat \ {0, 1}

VARIABLES
  table,        \* "users" or "admin_users"
  account,      \* "none", "active", "inactive" or "deleted"
  fails, lock,  \* failed_login_count; locked_until: "none", "running", "over"
  wrong,        \* history: wrong passwords since the last lock or success
  sessions,     \* number of session rows
  email, verified, hasPassword, provider, unnamed,  \* columns of users
  links,        \* addresses holding a live, unused verification link
  resetLink,    \* a live, unused password reset link is out
  referral,     \* "none", "pending", "same ip" (pending too), "credited", "rejected"
  proved,       \* history: a link sent to the present address was followed
  edited,       \* history: the address changed without ending the links
  totp,         \* "off", "pending" (a secret without the flag) or "on"
  lastUsed,     \* totp_last_used_counter, 0 for NULL
  recovery,     \* unused recovery codes
  pending,      \* rows of admin_2fa_pending
  now,          \* the current window
  uses          \* history: the codes accepted since enrolment, each with the
                \* number of windows that began while it was verified

common == <<table, account, fails, lock, wrong, sessions>>
lockout == <<fails, lock, wrong>>
profile == <<email, verified, hasPassword, provider, unnamed, links, resetLink,
             referral, proved, edited>>
secondStep == <<totp, lastUsed, recovery, pending, now, uses>>
vars == <<common, profile, secondStep>>

Init ==
  /\ table \in {"users", "admin_users"}
  /\ account = IF table = "users" THEN "none" ELSE "active"
  /\ fails = 0 /\ lock = "none" /\ wrong = 0 /\ sessions = 0
  /\ email = NoAddress /\ links = {} /\ referral = "none"
  /\ verified = FALSE /\ hasPassword = (table = "admin_users")
  /\ provider = FALSE /\ unnamed = FALSE /\ resetLink = FALSE
  /\ proved = FALSE /\ edited = FALSE
  /\ totp = "off" /\ lastUsed = 0 /\ recovery = 0 /\ pending = 0
  /\ now = 2 /\ uses = <<>>

LoggedIn == account = "active" /\ sessions > 0
Player == table = "users"

(***************************************************************************)
(* The lockout and the sessions (authHelpers.ts).                          *)
(***************************************************************************)

\* mutant: the comparison is off by one.
LocksLate(count) == count > MaxFails

Locks(count) ==
  count >= MaxFails

\* recordFailedLogin adds to the count of the row read before an expired lock
\* was reset; above the limit all counts act alike.
RecordFailedLogin ==
  /\ fails' = IF fails < MaxFails THEN fails + 1 ELSE MaxFails
  /\ lock' = IF Locks(fails + 1) THEN "running" ELSE "none"
  /\ wrong' = IF Locks(fails + 1) THEN 0 ELSE wrong + 1

RecordSuccessfulLogin == fails' = 0 /\ lock' = "none" /\ wrong' = 0

\* isAccountLocked lets the login pass, and resets a lock that has run out.
LockOpen == account = "active" /\ lock # "running"

\* evictOldestSessions makes room for one more.
WithOneMore(rows) ==
  (IF rows < MaxSessions THEN rows ELSE MaxSessions - 1) + 1

WrongPassword ==
  /\ LockOpen /\ hasPassword
  /\ RecordFailedLogin
  /\ UNCHANGED <<table, account, sessions, profile, secondStep>>

UserLogin ==
  /\ Player /\ LockOpen /\ hasPassword
  /\ RecordSuccessfulLogin
  /\ sessions' = WithOneMore(sessions)
  /\ UNCHANGED <<table, account, profile, secondStep>>

LockRunsOut ==
  /\ lock = "running" /\ lock' = "over"
  /\ UNCHANGED <<table, account, fails, wrong, sessions, profile, secondStep>>

\* Logout, or the row expired and was cleaned up.
SessionEnds ==
  /\ sessions > 0 /\ sessions' = sessions - 1
  /\ UNCHANGED <<table, account, lockout, profile, secondStep>>

(***************************************************************************)
(* Registration and sign-in with a provider.                               *)
(***************************************************************************)

\* POST /register, which makes its commits in this order and may crash after
\* any of them; the referral code may be absent, or name somebody who last
\* signed in from the same address.
Stages == <<"user", "session", "referral", "done">>

Register(a, code, last) ==
  /\ Player /\ account = "none"
  /\ account' = "active" /\ email' = a /\ hasPassword' = TRUE
  /\ sessions' = IF last >= 2 THEN 1 ELSE 0
  /\ referral' = IF last >= 3 THEN code ELSE "none"
  /\ links' = IF last >= 4 THEN {a} ELSE {}
  /\ UNCHANGED <<table, lockout, verified, provider, unnamed, resetLink, proved,
                 edited, secondStep>>

\* findOrCreateOAuthUser creates the account, createOAuthSession signs it in.
OAuthSignup(a) ==
  /\ Player /\ account = "none"
  /\ account' = "active" /\ email' = a /\ provider' = TRUE /\ unnamed' = TRUE
  /\ sessions' = 1
  /\ UNCHANGED <<table, lockout, verified, hasPassword, links, resetLink,
                 referral, proved, edited, secondStep>>

\* A returning user, or one with the same address: linked only if verified and
\* not linked yet, but signed in (and the lockout reset) in any case.
OAuthLogin(a) ==
  /\ Player /\ account \in {"active", "inactive"} /\ (provider \/ email = a)
  /\ provider' = (provider \/ verified)
  /\ sessions' = WithOneMore(sessions)
  /\ RecordSuccessfulLogin
  /\ UNCHANGED <<table, account, email, verified, hasPassword, unnamed, links,
                 resetLink, referral, proved, edited, secondStep>>

(***************************************************************************)
(* E-mail verification.                                                    *)
(***************************************************************************)

\* mutant: links sent before stay valid.
LinkAdded(a) == links' = links \cup {a}

CreateEmailVerificationToken(a) ==
  links' = {a}

ChooseUsername ==
  /\ Player /\ LoggedIn /\ unnamed /\ unnamed' = FALSE
  /\ IF verified THEN UNCHANGED links ELSE CreateEmailVerificationToken(email)
  /\ UNCHANGED <<common, email, verified, hasPassword, provider, resetLink,
                 referral, proved, edited, secondStep>>

ResendVerification ==
  /\ Player /\ LoggedIn /\ ~verified
  /\ CreateEmailVerificationToken(email)
  /\ UNCHANGED <<common, email, verified, hasPassword, provider, unnamed,
                 resetLink, referral, proved, edited, secondStep>>

\* mutant: a referral that cannot be credited is left pending.
CreditOnly ==
  referral' = IF referral = "pending" /\ email \notin Disposable
              THEN "credited" ELSE referral

CreditReferralOnVerify ==
  referral' = IF referral \notin {"pending", "same ip"} THEN referral
              ELSE IF referral = "same ip" \/ email \in Disposable
              THEN "rejected" ELSE "credited"

VerifyEmail(a) ==
  /\ a \in links /\ links' = links \ {a}
  /\ verified' = TRUE /\ proved' = (proved \/ a = email)
  /\ CreditReferralOnVerify
  /\ UNCHANGED <<common, email, hasPassword, provider, unnamed, resetLink,
                 edited, secondStep>>

LinkLapses(a) ==
  /\ a \in links /\ links' = links \ {a}
  /\ UNCHANGED <<common, email, verified, hasPassword, provider, unnamed,
                 resetLink, referral, proved, edited, secondStep>>

\* changeEmail commits the address, then the new link; a crash in between
\* leaves the links of the old address alive.
ChangeEmail(a, crash) ==
  /\ Player /\ LoggedIn /\ hasPassword
  /\ email' = a /\ verified' = FALSE /\ proved' = FALSE /\ edited' = crash
  /\ IF crash THEN UNCHANGED links ELSE CreateEmailVerificationToken(a)
  /\ UNCHANGED <<common, hasPassword, provider, unnamed, resetLink, referral,
                 secondStep>>

(***************************************************************************)
(* Passwords.                                                              *)
(***************************************************************************)

\* PUT /password: all sessions end, then the new password logs in; if the
\* account is locked that login is refused after the change.
ChangePassword ==
  /\ Player /\ LoggedIn /\ hasPassword
  /\ IF LockOpen THEN RecordSuccessfulLogin /\ sessions' = 1
     ELSE UNCHANGED lockout /\ sessions' = 0
  /\ UNCHANGED <<table, account, profile, secondStep>>

ForgotPassword ==
  /\ Player /\ account = "active" /\ resetLink' = TRUE
  /\ UNCHANGED <<common, email, verified, hasPassword, provider, unnamed, links,
                 referral, proved, edited, secondStep>>

ResetPassword ==
  /\ resetLink /\ resetLink' = FALSE
  /\ hasPassword' = TRUE /\ sessions' = 0
  /\ UNCHANGED <<table, account, lockout, email, verified, provider, unnamed,
                 links, referral, proved, edited, secondStep>>

ResetLinkLapses ==
  /\ resetLink /\ resetLink' = FALSE
  /\ UNCHANGED <<common, email, verified, hasPassword, provider, unnamed, links,
                 referral, proved, edited, secondStep>>

(***************************************************************************)
(* What an administrator does to a player's account (adminUsers.ts).       *)
(***************************************************************************)

Exists == Player /\ account \in {"active", "inactive"}

\* updateUser: a new address neither resets email_verified nor ends the links,
\* is_active leaves the sessions alone.
UpdateUser(a, state) ==
  /\ Exists /\ a # NoAddress /\ <<a, state>> # <<email, account>>
  /\ email' = a /\ account' = state
  /\ proved' = (proved /\ a = email) /\ edited' = (edited \/ a # email)
  /\ UNCHANGED <<table, lockout, sessions, verified, hasPassword, provider,
                 unnamed, links, resetLink, referral, secondStep>>

DeactivateUser ==
  /\ Exists /\ account' = "inactive" /\ sessions' = 0
  /\ UNCHANGED <<table, lockout, profile, secondStep>>

ReactivateUser ==
  /\ Exists /\ account' = "active"
  /\ UNCHANGED <<table, lockout, sessions, profile, secondStep>>

ForceResetPassword ==
  /\ Exists /\ hasPassword' = TRUE /\ sessions' = 0
  /\ UNCHANGED <<table, account, lockout, email, verified, provider, unnamed,
                 links, resetLink, referral, proved, edited, secondStep>>

DeleteUser ==
  /\ Exists /\ account' = "deleted"
  /\ fails' = 0 /\ lock' = "none" /\ wrong' = 0 /\ sessions' = 0
  /\ email' = NoAddress /\ links' = {} /\ referral' = "none"
  /\ verified' = FALSE /\ hasPassword' = FALSE /\ provider' = FALSE
  /\ unnamed' = FALSE /\ resetLink' = FALSE /\ proved' = FALSE /\ edited' = FALSE
  /\ UNCHANGED <<table, secondStep>>

(***************************************************************************)
(* An administrator's two-step login (adminAuth.ts, adminTotp.ts).         *)
(***************************************************************************)

\* mutant: the last code used is accepted again.
FreshOrLast(c) == c >= lastUsed

FreshCode(c) ==
  c > lastUsed

\* A code of this window or of a neighbour (admin2faTotpWindow).
InWindow(c) == c \in now - 1 .. now + 1

\* The window is read once to validate the code, and again to compute the
\* counter that is compared and stored; k windows begin in between.
WindowsBegin(k) == now + k <= MaxNow /\ now' = now + k
Counter(c, k) == c + k

\* verifyTotpCode; all it asks for is a secret.
VerifyTotpCode(c, k) ==
  /\ totp # "off" /\ InWindow(c) /\ WindowsBegin(k) /\ FreshCode(Counter(c, k))

AdminLogin ==
  /\ ~Player /\ LockOpen
  /\ RecordSuccessfulLogin
  /\ IF totp = "on"
     THEN pending < MaxPending /\ pending' = pending + 1 /\ UNCHANGED sessions
     ELSE sessions < MaxSessions /\ sessions' = sessions + 1 /\ UNCHANGED pending
  /\ UNCHANGED <<table, account, profile, totp, lastUsed, recovery, now, uses>>

\* adminLoginVerify2fa consumes the pending token whatever the code is.
AdminLoginVerify2fa(c, k) ==
  /\ pending > 0 /\ sessions < MaxSessions /\ VerifyTotpCode(c, k)
  /\ pending' = pending - 1 /\ sessions' = sessions + 1
  /\ lastUsed' = Counter(c, k)
  /\ uses' = Append(uses, [code |-> c, crossed |-> k])
  /\ UNCHANGED <<table, account, lockout, profile, totp, recovery>>

AdminLoginRecovery ==
  /\ pending > 0 /\ sessions < MaxSessions /\ recovery > 0
  /\ pending' = pending - 1 /\ sessions' = sessions + 1
  /\ recovery' = recovery - 1
  /\ UNCHANGED <<table, account, lockout, profile, totp, lastUsed, now, uses>>

\* A wrong code, a token that ran out, or its clean-up.
PendingTokenEnds ==
  /\ pending > 0 /\ pending' = pending - 1
  /\ UNCHANGED <<common, profile, totp, lastUsed, recovery, now, uses>>

\* The route waits for the QR code after the write, which changes nothing.
BeginTotpSetup ==
  /\ ~Player /\ LoggedIn /\ totp = "off" /\ totp' = "pending"
  /\ UNCHANGED <<common, profile, lastUsed, recovery, pending, now, uses>>

\* The flag is committed before the recovery codes, one by one: a crash leaves
\* fewer codes (the old ones go first).  Codes count from here.
VerifyAndEnableTotp(c, k, written) ==
  /\ ~Player /\ LoggedIn /\ totp = "pending" /\ InWindow(c) /\ WindowsBegin(k)
  /\ totp' = "on" /\ lastUsed' = Counter(c, k)
  /\ uses' = <<[code |-> c, crossed |-> k]>>
  /\ recovery' = written
  /\ UNCHANGED <<common, profile, pending>>

\* Setups nobody finished within ten minutes lose their secret.
CleanupSetups ==
  /\ totp = "pending" /\ totp' = "off"
  /\ UNCHANGED <<common, profile, lastUsed, recovery, pending, now, uses>>

\* disableTotp, with a code (c > 0) or a recovery code; after the flag the
\* recovery codes and the sessions are deleted, unless it crashes before.
DisableTotp(c, k, commits) ==
  /\ ~Player /\ LoggedIn /\ totp = "on"
  /\ IF c = 0 THEN recovery > 0 /\ UNCHANGED now ELSE VerifyTotpCode(c, k)
  /\ totp' = "off" /\ lastUsed' = 0 /\ uses' = <<>>
  /\ recovery' = IF commits >= 2 THEN 0
                 ELSE IF c = 0 THEN recovery - 1 ELSE recovery
  /\ sessions' = IF commits >= 3 THEN 0 ELSE sessions
  /\ UNCHANGED <<table, account, lockout, profile, pending>>

RegenerateRecoveryCodes(written) ==
  /\ ~Player /\ LoggedIn /\ totp = "on" /\ recovery' = written
  /\ UNCHANGED <<common, profile, totp, lastUsed, pending, now, uses>>

ClockTicks ==
  /\ ~Player /\ now < MaxNow /\ now' = now + 1
  /\ UNCHANGED <<common, profile, totp, lastUsed, recovery, pending, uses>>

(***************************************************************************)
(* The specification.                                                      *)
(***************************************************************************)

LockSteps == WrongPassword \/ LockRunsOut \/ SessionEnds

PlayerSteps ==
  \/ UserLogin \/ ChooseUsername \/ ResendVerification
  \/ ChangePassword \/ ForgotPassword \/ ResetPassword \/ ResetLinkLapses
  \/ \E a \in Addresses :
       \/ OAuthSignup(a) \/ OAuthLogin(a) \/ VerifyEmail(a) \/ LinkLapses(a)
       \/ \E crash \in BOOLEAN : ChangeEmail(a, crash)
       \/ \E code \in {"none", "pending", "same ip"}, last \in DOMAIN Stages :
            Register(a, code, last)

AdminOnPlayer ==
  \/ DeactivateUser \/ ReactivateUser \/ ForceResetPassword \/ DeleteUser
  \/ \E a \in Addresses, s \in {"active", "inactive"} : UpdateUser(a, s)

AdminSteps ==
  \/ AdminLogin \/ AdminLoginRecovery \/ PendingTokenEnds
  \/ BeginTotpSetup \/ CleanupSetups \/ ClockTicks
  \/ \E c \in 1 .. MaxNow + 1, k \in 0 .. MaxNow :
       \/ AdminLoginVerify2fa(c, k)
       \/ \E w \in 0 .. RecoveryCodes : VerifyAndEnableTotp(c, k, w)
  \/ \E c \in 0 .. MaxNow + 1, k \in 0 .. MaxNow, commits \in 1 .. 3 :
       DisableTotp(c, k, commits)
  \/ \E w \in 0 .. RecoveryCodes : RegenerateRecoveryCodes(w)

Next == LockSteps \/ PlayerSteps \/ AdminOnPlayer \/ AdminSteps

Spec == Init /\ [][Next]_vars
=============================================================================
