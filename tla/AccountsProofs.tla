--------------------------- MODULE AccountsProofs ---------------------------
(***************************************************************************)
(* Proofs about Accounts, for any addresses, limits and numbers of codes.  *)
(***************************************************************************)
EXTENDS AccountsProps, TLAPS

\* The count of wrong passwords since the last lock is never ahead of the
\* count in the row, which takes the account over the limit in time.
CountInStep == wrong <= fails /\ wrong < MaxFails

\* Before an account exists nothing is known of its player.
BlankBefore ==
  account = "none" => /\ ~verified /\ ~proved /\ ~edited
                      /\ links = {} /\ referral = "none"

\* A player's account has an address.
AddressKnown ==
  table = "users" /\ account \in {"active", "inactive"} => email \in Addresses

\* A live link names the present address, unless that was edited past it.
LinksArePresent == ~edited => \A a \in links : a = email

\* No referral waits for a verified account.
NoneWaits == verified => referral \notin {"pending", "same ip"}

\* The counters stored for the codes accepted rise strictly, up to the last.
Stored(u) == Counter(u.code, u.crossed)
CodesRise ==
  /\ \A i \in DOMAIN uses : Stored(uses[i]) <= lastUsed
  /\ \A i, j \in DOMAIN uses : i < j => Stored(uses[i]) < Stored(uses[j])

Uses == [code : 1 .. MaxNow + 1, crossed : 0 .. MaxNow]

IInv ==
  /\ TypeOK /\ CountInStep /\ BlankBefore /\ AddressKnown /\ LinksArePresent
  /\ VerifiedAddressWasProved /\ NoneWaits /\ CodesRise

LEMMA InitHolds == Init => IInv
<1> SUFFICES ASSUME Init PROVE IInv
  OBVIOUS
<1>1. TypeOK
  <2>1. hasPassword \in BOOLEAN
    BY Zenon DEF Init
  <2>2. /\ fails \in 0 .. MaxFails /\ wrong \in Nat /\ sessions \in 0 .. MaxSessions
        /\ lastUsed \in 0 .. MaxNow + 1 /\ recovery \in 0 .. RecoveryCodes
        /\ pending \in 0 .. MaxPending /\ now \in 1 .. MaxNow
    BY ConstantsOK DEF Init
  <2>3. email \in Addresses \cup {NoAddress} /\ links \subseteq Addresses
    BY Zenon DEF Init
  <2>6. uses \in Seq([code : 1 .. MaxNow + 1, crossed : 0 .. MaxNow])
    BY DEF Init
  <2>4. /\ table \in {"users", "admin_users"}
        /\ account \in {"none", "active", "inactive", "deleted"}
        /\ lock \in {"none", "running", "over"}
        /\ referral \in {"none", "pending", "same ip", "credited", "rejected"}
        /\ totp \in {"off", "pending", "on"}
    BY Zenon DEF Init
  <2>5. /\ verified \in BOOLEAN /\ provider \in BOOLEAN /\ unnamed \in BOOLEAN
        /\ resetLink \in BOOLEAN /\ proved \in BOOLEAN /\ edited \in BOOLEAN
    BY Zenon DEF Init
  <2> QED BY <2>1, <2>2, <2>3, <2>4, <2>5, <2>6, Zenon DEF TypeOK
<1>2. CountInStep
  BY ConstantsOK DEF Init, CountInStep
<1>3. BlankBefore /\ LinksArePresent /\ VerifiedAddressWasProved /\ NoneWaits
  BY Zenon DEF Init, BlankBefore, LinksArePresent, VerifiedAddressWasProved, NoneWaits
<1>4. CodesRise
  BY DEF Init, CodesRise
<1>5. AddressKnown
  BY Zenon DEF Init, AddressKnown
<1> QED BY <1>1, <1>2, <1>3, <1>4, <1>5 DEF IInv

\* Making room before a login keeps the sessions within the limit.
LEMMA RoomForOne ==
  ASSUME NEW n \in 0 .. MaxSessions PROVE WithOneMore(n) \in 0 .. MaxSessions
BY ConstantsOK DEF WithOneMore

\* A wrong password never takes the counts out of step.
LEMMA FailureKeepsStep ==
  ASSUME TypeOK, CountInStep, RecordFailedLogin
  PROVE  /\ CountInStep'
         /\ fails' \in 0 .. MaxFails /\ wrong' \in Nat /\ lock' \in {"none", "running", "over"}
<1>1. MaxFails \in Nat \ {0} /\ fails \in 0 .. MaxFails /\ wrong \in Nat
  BY ConstantsOK DEF TypeOK
<1>2. CASE Locks(fails + 1)
  BY <1>1, <1>2 DEF CountInStep, RecordFailedLogin, Locks
<1>3. CASE ~Locks(fails + 1)
  <2>1. fails + 1 < MaxFails
    BY <1>1, <1>3 DEF Locks
  <2>2. fails' = fails + 1 /\ wrong' = wrong + 1 /\ lock' = "none"
    BY <1>1, <1>3, <2>1 DEF RecordFailedLogin
  <2> QED BY <1>1, <2>1, <2>2 DEF CountInStep
<1> QED BY <1>2, <1>3

LEMMA SuccessKeepsStep ==
  ASSUME RecordSuccessfulLogin
  PROVE  /\ CountInStep'
         /\ fails' \in 0 .. MaxFails /\ wrong' \in Nat /\ lock' \in {"none", "running", "over"}
BY ConstantsOK DEF CountInStep, RecordSuccessfulLogin

\* What a step does to the lockout: it is left alone, a password was wrong or
\* right, a lock ran out, or the account was deleted.
LEMMA LockoutStep ==
  ASSUME IInv, [Next]_vars
  PROVE  \/ UNCHANGED lockout
         \/ RecordFailedLogin
         \/ RecordSuccessfulLogin
         \/ UNCHANGED <<fails, wrong>> /\ lock' = "over"
<1> USE DEF lockout, common
<1>1. CASE LockSteps
  BY <1>1 DEF LockSteps, WrongPassword, LockRunsOut, SessionEnds
<1>2. CASE PlayerSteps
  <2>1. CASE \/ UserLogin \/ ChooseUsername \/ ResendVerification
             \/ ChangePassword \/ ForgotPassword \/ ResetPassword \/ ResetLinkLapses
    BY <2>1 DEF UserLogin, ChooseUsername, ResendVerification, ChangePassword,
                ForgotPassword, ResetPassword, ResetLinkLapses
  <2>2. ASSUME NEW a \in Addresses,
               \/ OAuthSignup(a) \/ OAuthLogin(a) \/ VerifyEmail(a) \/ LinkLapses(a)
               \/ \E crash \in BOOLEAN : ChangeEmail(a, crash)
               \/ \E code \in {"none", "pending", "same ip"}, last \in DOMAIN Stages :
                    Register(a, code, last)
        PROVE  UNCHANGED lockout \/ RecordSuccessfulLogin
    BY <2>2 DEF OAuthSignup, OAuthLogin, VerifyEmail, LinkLapses, ChangeEmail, Register
  <2> QED BY <1>2, <2>1, <2>2 DEF PlayerSteps
<1>3. CASE AdminOnPlayer
  BY <1>3 DEF AdminOnPlayer, DeactivateUser, ReactivateUser, ForceResetPassword,
              DeleteUser, UpdateUser, RecordSuccessfulLogin
<1>4. CASE AdminSteps
  BY <1>4 DEF AdminSteps, AdminLogin, AdminLoginRecovery, PendingTokenEnds,
              BeginTotpSetup, CleanupSetups, ClockTicks, AdminLoginVerify2fa,
              VerifyAndEnableTotp, DisableTotp, RegenerateRecoveryCodes
<1>5. CASE UNCHANGED vars
  BY <1>5 DEF vars
<1> QED BY <1>1, <1>2, <1>3, <1>4, <1>5 DEF Next

LEMMA LockoutKept ==
  ASSUME IInv, [Next]_vars
  PROVE  /\ CountInStep'
         /\ fails' \in 0 .. MaxFails /\ wrong' \in Nat /\ lock' \in {"none", "running", "over"}
<1>1. TypeOK /\ CountInStep
  BY DEF IInv
<1>2. CASE UNCHANGED lockout
  BY <1>1, <1>2 DEF lockout, TypeOK, CountInStep
<1>3. CASE UNCHANGED <<fails, wrong>> /\ lock' = "over"
  BY <1>1, <1>3 DEF TypeOK, CountInStep
<1> QED BY <1>1, <1>2, <1>3, LockoutStep, FailureKeepsStep, SuccessKeepsStep

\* What a step does to the sessions.
LEMMA SessionsKept ==
  ASSUME IInv, [Next]_vars PROVE sessions' \in 0 .. MaxSessions
<1>1. sessions \in 0 .. MaxSessions /\ MaxSessions \in Nat \ {0}
  BY ConstantsOK DEF IInv, TypeOK
<1>2. WithOneMore(sessions) \in 0 .. MaxSessions
  BY <1>1, RoomForOne
<1>3. \/ sessions' = sessions \/ sessions' = WithOneMore(sessions)
      \/ sessions' \in {0, 1}
      \/ sessions > 0 /\ sessions' = sessions - 1
      \/ sessions < MaxSessions /\ sessions' = sessions + 1
  <2> USE DEF common
  <2>1. CASE LockSteps
    BY <2>1 DEF LockSteps, WrongPassword, LockRunsOut, SessionEnds
  <2>2. CASE PlayerSteps
    <3>1. CASE \/ UserLogin \/ ChooseUsername \/ ResendVerification
               \/ ChangePassword \/ ForgotPassword \/ ResetPassword \/ ResetLinkLapses
      BY <3>1 DEF UserLogin, ChooseUsername, ResendVerification, ChangePassword,
                  ForgotPassword, ResetPassword, ResetLinkLapses
    <3>2. ASSUME NEW a \in Addresses,
                 \/ OAuthSignup(a) \/ OAuthLogin(a) \/ VerifyEmail(a) \/ LinkLapses(a)
                 \/ \E crash \in BOOLEAN : ChangeEmail(a, crash)
                 \/ \E code \in {"none", "pending", "same ip"}, last \in DOMAIN Stages :
                      Register(a, code, last)
          PROVE  \/ sessions' = sessions \/ sessions' = WithOneMore(sessions)
                 \/ sessions' \in {0, 1}
      BY <3>2 DEF OAuthSignup, OAuthLogin, VerifyEmail, LinkLapses, ChangeEmail, Register
    <3> QED BY <2>2, <3>1, <3>2 DEF PlayerSteps
  <2>3. CASE AdminOnPlayer
    BY <2>3 DEF AdminOnPlayer, DeactivateUser, ReactivateUser, ForceResetPassword,
                DeleteUser, UpdateUser
  <2>4. CASE AdminSteps
    BY <2>4 DEF AdminSteps, AdminLogin, AdminLoginRecovery, PendingTokenEnds,
                BeginTotpSetup, CleanupSetups, ClockTicks, AdminLoginVerify2fa,
                VerifyAndEnableTotp, DisableTotp, RegenerateRecoveryCodes
  <2>5. CASE UNCHANGED vars
    BY <2>5 DEF vars
  <2> QED BY <2>1, <2>2, <2>3, <2>4, <2>5 DEF Next
<1> QED BY <1>1, <1>2, <1>3

\* The address, its links, its verification and the referral.
ProfileHolds == BlankBefore /\ LinksArePresent /\ VerifiedAddressWasProved /\ NoneWaits

\* Most steps leave them alone, or take a link away.
LEMMA ProfileUntouched ==
  ASSUME ProfileHolds, account # "none", account' # "none",
         UNCHANGED <<email, verified, referral, proved, edited>>, links' \subseteq links
  PROVE  ProfileHolds'
BY DEF ProfileHolds, BlankBefore, LinksArePresent, VerifiedAddressWasProved, NoneWaits

LEMMA ProfileUnchanged ==
  ASSUME ProfileHolds, UNCHANGED <<account, email, verified, links, referral, proved, edited>>
  PROVE  ProfileHolds'
BY DEF ProfileHolds, BlankBefore, LinksArePresent, VerifiedAddressWasProved, NoneWaits

\* A link to the present address may be sent at any time.
LEMMA LinkSent ==
  ASSUME ProfileHolds, account # "none", UNCHANGED <<account, email, verified, referral, proved, edited>>,
         CreateEmailVerificationToken(email)
  PROVE  ProfileHolds'
BY DEF ProfileHolds, BlankBefore, LinksArePresent, VerifiedAddressWasProved, NoneWaits,
       CreateEmailVerificationToken

LEMMA ProfileKept == ASSUME IInv, [Next]_vars PROVE ProfileHolds'
<1>0. ProfileHolds /\ account \in {"none", "active", "inactive", "deleted"}
  BY DEF IInv, ProfileHolds, TypeOK
<1> USE DEF common, lockout, profile
<1>1. CASE LockSteps
  BY <1>0, <1>1, ProfileUnchanged DEF LockSteps, WrongPassword, LockRunsOut, SessionEnds
<1>2. CASE PlayerSteps
  <2>1. CASE UserLogin \/ ChangePassword
    BY <1>0, <2>1, ProfileUnchanged DEF UserLogin, ChangePassword
  <2>2. CASE ForgotPassword \/ ResetPassword \/ ResetLinkLapses
    BY <1>0, <2>2, ProfileUnchanged DEF ForgotPassword, ResetPassword, ResetLinkLapses
  <2>3. CASE ChooseUsername
    BY <1>0, <2>3, LinkSent, ProfileUntouched DEF ChooseUsername, LoggedIn
  <2>4. CASE ResendVerification
    BY <1>0, <2>4, LinkSent DEF ResendVerification, LoggedIn
  <2>5. ASSUME NEW a \in Addresses, OAuthSignup(a) \/ OAuthLogin(a) PROVE ProfileHolds'
    <3>1. CASE OAuthSignup(a)
      BY <1>0, <3>1 DEF OAuthSignup, ProfileHolds,
         BlankBefore, LinksArePresent, VerifiedAddressWasProved, NoneWaits
    <3>2. CASE OAuthLogin(a)
      BY <1>0, <3>2, ProfileUnchanged DEF OAuthLogin
    <3> QED BY <2>5, <3>1, <3>2
  <2>6. ASSUME NEW a \in Addresses, VerifyEmail(a) PROVE ProfileHolds'
    BY <1>0, <2>6 DEF VerifyEmail, CreditReferralOnVerify, ProfileHolds,
       BlankBefore, LinksArePresent, VerifiedAddressWasProved, NoneWaits
  <2>7. ASSUME NEW a \in Addresses, LinkLapses(a) PROVE ProfileHolds'
    BY <1>0, <2>7 DEF LinkLapses, ProfileHolds,
       BlankBefore, LinksArePresent, VerifiedAddressWasProved, NoneWaits
  <2>8. ASSUME NEW a \in Addresses, NEW crash \in BOOLEAN, ChangeEmail(a, crash)
        PROVE  ProfileHolds'
    BY <1>0, <2>8 DEF ChangeEmail, LoggedIn, CreateEmailVerificationToken, ProfileHolds,
       BlankBefore, LinksArePresent, VerifiedAddressWasProved, NoneWaits
  <2>9. ASSUME NEW a \in Addresses, NEW code \in {"none", "pending", "same ip"},
               NEW last \in DOMAIN Stages, Register(a, code, last)
        PROVE  ProfileHolds'
    BY <1>0, <2>9 DEF Register, ProfileHolds,
       BlankBefore, LinksArePresent, VerifiedAddressWasProved, NoneWaits
  <2> QED BY <1>2, <2>1, <2>2, <2>3, <2>4, <2>5, <2>6, <2>7, <2>8, <2>9 DEF PlayerSteps
<1>3. CASE AdminOnPlayer
  <2>1. CASE DeactivateUser \/ ReactivateUser \/ ForceResetPassword
    BY <1>0, <2>1, ProfileUntouched
    DEF DeactivateUser, ReactivateUser, ForceResetPassword, Exists
  <2>2. CASE DeleteUser
    BY <2>2 DEF DeleteUser, ProfileHolds,
       BlankBefore, LinksArePresent, VerifiedAddressWasProved, NoneWaits
  <2>3. ASSUME NEW a \in Addresses, NEW s \in {"active", "inactive"}, UpdateUser(a, s)
        PROVE  ProfileHolds'
    BY <1>0, <2>3 DEF UpdateUser, ProfileHolds,
       BlankBefore, LinksArePresent, VerifiedAddressWasProved, NoneWaits
  <2> QED BY <1>3, <2>1, <2>2, <2>3 DEF AdminOnPlayer
<1>4. CASE AdminSteps
  BY <1>0, <1>4, ProfileUnchanged
  DEF AdminSteps, AdminLogin, AdminLoginRecovery, PendingTokenEnds,
      BeginTotpSetup, CleanupSetups, ClockTicks, AdminLoginVerify2fa,
      VerifyAndEnableTotp, DisableTotp, RegenerateRecoveryCodes
<1>5. CASE UNCHANGED vars
  BY <1>0, <1>5, ProfileUnchanged DEF vars
<1> QED BY <1>1, <1>2, <1>3, <1>4, <1>5 DEF Next

\* An accepted code's counter is above all those stored before it.
LEMMA NewCodeCounts ==
  ASSUME CodesRise, uses \in Seq(Uses), lastUsed \in Nat,
         NEW u \in Uses, FreshCode(Stored(u)),
         lastUsed' = Stored(u), uses' = Append(uses, u)
  PROVE  CodesRise'
<1> DEFINE n == Len(uses)
<1>1. n \in Nat /\ DOMAIN uses = 1 .. n /\ DOMAIN uses' = 1 .. n + 1
  OBVIOUS
<1>2. uses'[n + 1] = u /\ \A i \in 1 .. n : uses'[i] = uses[i]
  OBVIOUS
<1>3. \A v \in Uses : Stored(v) \in Int
  BY ConstantsOK DEF Uses, Stored, Counter
<1>4. \A i \in 1 .. n : uses[i] \in Uses
  OBVIOUS
<1>5. \A i \in 1 .. n : Stored(uses[i]) < Stored(u)
  BY <1>1, <1>3, <1>4 DEF CodesRise, FreshCode
<1> HIDE DEF n
<1>6. ASSUME NEW i \in 1 .. n + 1 PROVE Stored(uses'[i]) <= lastUsed'
  <2>1. CASE i = n + 1
    <3>1. uses'[i] = u /\ Stored(u) \in Int
      BY <1>2, <1>3, <2>1
    <3> QED BY <3>1 DEF Stored
  <2>2. CASE i \in 1 .. n
    <3>1. uses'[i] = uses[i] /\ Stored(uses[i]) < Stored(u)
      BY <1>2, <1>5, <2>2
    <3>2. Stored(uses[i]) \in Int /\ Stored(u) \in Int
      BY <1>3, <1>4, <2>2
    <3> QED BY <3>1, <3>2 DEF Stored
  <2> QED BY <1>1, <2>1, <2>2
<1>7. ASSUME NEW i \in 1 .. n + 1, NEW j \in 1 .. n + 1, i < j
      PROVE  Stored(uses'[i]) < Stored(uses'[j])
  <2>1. i \in 1 .. n
    BY <1>1, <1>7
  <2>2. CASE j = n + 1
    BY <1>2, <1>5, <2>1, <2>2
  <2>3. CASE j \in 1 .. n
    BY <1>1, <1>2, <1>7, <2>1, <2>3 DEF CodesRise
  <2> QED BY <1>1, <2>2, <2>3
<1> QED BY <1>1, <1>6, <1>7 DEF CodesRise, Stored

\* What a step does to the second step of an administrator's login.
LEMMA SecondStepKept == ASSUME IInv, [Next]_vars PROVE CodesRise'
<1>0. CodesRise /\ uses \in Seq(Uses) /\ lastUsed \in Nat
  <2>1. CodesRise /\ uses \in Seq(Uses) /\ lastUsed \in 0 .. MaxNow + 1
    BY Zenon DEF IInv, TypeOK, Uses
  <2> QED BY <2>1, ConstantsOK
<1>1. CASE UNCHANGED <<uses, lastUsed>>
  <2>1. uses' = uses /\ lastUsed' = lastUsed
    BY <1>1
  <2> QED BY <1>0, <2>1, Zenon DEF CodesRise, Stored, Counter
<1>2. ASSUME NEW c \in 1 .. MaxNow + 1, NEW k \in 0 .. MaxNow, AdminLoginVerify2fa(c, k)
      PROVE  CodesRise'
  <2> DEFINE u == [code |-> c, crossed |-> k]
  <2>1. u \in Uses /\ Stored(u) = Counter(c, k)
    BY DEF Uses, Stored
  <2>2. FreshCode(Stored(u)) /\ lastUsed' = Stored(u) /\ uses' = Append(uses, u)
    BY <1>2, <2>1 DEF AdminLoginVerify2fa, VerifyTotpCode
  <2> HIDE DEF u
  <2> QED BY <1>0, <2>1, <2>2, NewCodeCounts
<1>3. ASSUME NEW c \in 1 .. MaxNow + 1, NEW k \in 0 .. MaxNow, NEW w,
             VerifyAndEnableTotp(c, k, w)
      PROVE  CodesRise'
  <2> DEFINE u == [code |-> c, crossed |-> k]
  <2>1. Stored(u) = Counter(c, k) /\ Counter(c, k) \in Int
    BY ConstantsOK DEF Stored, Counter
  <2>2. lastUsed' = Stored(u) /\ uses' = <<u>>
    BY <1>3, <2>1 DEF VerifyAndEnableTotp
  <2> HIDE DEF u
  <2>3. DOMAIN uses' = {1} /\ uses'[1] = u
    BY <2>2
  <2> QED BY <2>1, <2>2, <2>3 DEF CodesRise, Stored
<1>4. ASSUME NEW c, NEW k, NEW commits, DisableTotp(c, k, commits) PROVE CodesRise'
  BY <1>4 DEF DisableTotp, CodesRise
<1> USE DEF secondStep
<1>5. CASE LockSteps
  BY <1>5, <1>1 DEF LockSteps, WrongPassword, LockRunsOut, SessionEnds
<1>6. CASE PlayerSteps
  <2>1. UNCHANGED secondStep
    BY <1>6 DEF PlayerSteps, UserLogin, ChooseUsername, ResendVerification,
       ChangePassword, ForgotPassword, ResetPassword, ResetLinkLapses, OAuthSignup,
       OAuthLogin, VerifyEmail, LinkLapses, ChangeEmail, Register
  <2> QED BY <2>1, <1>1
<1>7. CASE AdminOnPlayer
  BY <1>7, <1>1 DEF AdminOnPlayer, DeactivateUser, ReactivateUser, ForceResetPassword,
       DeleteUser, UpdateUser
<1>8. CASE AdminSteps
  <2>1. CASE \/ AdminLogin \/ AdminLoginRecovery \/ PendingTokenEnds
             \/ BeginTotpSetup \/ CleanupSetups \/ ClockTicks
             \/ \E w \in 0 .. RecoveryCodes : RegenerateRecoveryCodes(w)
    BY <2>1, <1>1 DEF AdminLogin, AdminLoginRecovery, PendingTokenEnds, BeginTotpSetup,
         CleanupSetups, ClockTicks, RegenerateRecoveryCodes
  <2> QED BY <1>8, <2>1, <1>2, <1>3, <1>4 DEF AdminSteps
<1>9. CASE UNCHANGED vars
  BY <1>9, <1>1 DEF vars
<1> QED BY <1>5, <1>6, <1>7, <1>8, <1>9 DEF Next

\* The types of the columns, by the writers of each.
FlagsOK ==
  /\ verified \in BOOLEAN /\ hasPassword \in BOOLEAN /\ provider \in BOOLEAN
  /\ unnamed \in BOOLEAN /\ resetLink \in BOOLEAN
  /\ proved \in BOOLEAN /\ edited \in BOOLEAN

NamesOK ==
  /\ table \in {"users", "admin_users"}
  /\ account \in {"none", "active", "inactive", "deleted"}
  /\ email \in Addresses \cup {NoAddress} /\ links \subseteq Addresses
  /\ referral \in {"none", "pending", "same ip", "credited", "rejected"}
  /\ totp \in {"off", "pending", "on"}
  /\ AddressKnown

CodesOK ==
  /\ lastUsed \in 0 .. MaxNow + 1 /\ recovery \in 0 .. RecoveryCodes
  /\ pending \in 0 .. MaxPending /\ now \in 1 .. MaxNow
  /\ uses \in Seq([code : 1 .. MaxNow + 1, crossed : 0 .. MaxNow])

LEMMA FlagsKept == ASSUME IInv, [Next]_vars PROVE FlagsOK'
<1>0. FlagsOK
  BY DEF IInv, TypeOK, FlagsOK
<1> USE <1>0 DEF FlagsOK, common, profile
<1>1. CASE LockSteps
  BY <1>1, Zenon DEF LockSteps, WrongPassword, LockRunsOut, SessionEnds
<1>2. CASE PlayerSteps
  <2>1. CASE \/ UserLogin \/ ChooseUsername \/ ResendVerification
             \/ ChangePassword \/ ForgotPassword \/ ResetPassword \/ ResetLinkLapses
    BY <2>1, Zenon DEF UserLogin, ChooseUsername, ResendVerification, ChangePassword,
                ForgotPassword, ResetPassword, ResetLinkLapses
  <2>2. ASSUME NEW a \in Addresses, OAuthSignup(a) \/ LinkLapses(a) PROVE FlagsOK'
    BY <2>2, Zenon DEF OAuthSignup, LinkLapses
  <2>3. ASSUME NEW a \in Addresses, OAuthLogin(a) PROVE FlagsOK'
    BY <2>3, Zenon DEF OAuthLogin
  <2>4. ASSUME NEW a \in Addresses, VerifyEmail(a) PROVE FlagsOK'
    BY <2>4, Zenon DEF VerifyEmail
  <2>5. ASSUME NEW a \in Addresses, NEW crash \in BOOLEAN, ChangeEmail(a, crash)
        PROVE  FlagsOK'
    BY <2>5, Zenon DEF ChangeEmail
  <2>6. ASSUME NEW a \in Addresses, NEW code, NEW last, Register(a, code, last)
        PROVE  FlagsOK'
    BY <2>6, Zenon DEF Register
  <2> QED BY <1>2, <2>1, <2>2, <2>3, <2>4, <2>5, <2>6 DEF PlayerSteps
<1>3. CASE AdminOnPlayer
  <2>1. CASE DeactivateUser \/ ReactivateUser \/ ForceResetPassword \/ DeleteUser
    BY <2>1, Zenon DEF DeactivateUser, ReactivateUser, ForceResetPassword, DeleteUser
  <2>2. ASSUME NEW a \in Addresses, NEW s, UpdateUser(a, s) PROVE FlagsOK'
    BY <2>2, Zenon DEF UpdateUser
  <2> QED BY <1>3, <2>1, <2>2 DEF AdminOnPlayer
<1>4. CASE AdminSteps
  <2>1. UNCHANGED profile
    BY <1>4 DEF AdminSteps, AdminLogin, AdminLoginRecovery, PendingTokenEnds,
        BeginTotpSetup, CleanupSetups, ClockTicks, AdminLoginVerify2fa,
        VerifyAndEnableTotp, DisableTotp, RegenerateRecoveryCodes
  <2> QED BY <2>1, Zenon
<1>5. CASE UNCHANGED vars
  BY <1>5, Zenon DEF vars
<1> QED BY <1>1, <1>2, <1>3, <1>4, <1>5 DEF Next

LEMMA NamesKept == ASSUME IInv, [Next]_vars PROVE NamesOK'
<1>0. NamesOK
  BY DEF IInv, TypeOK, NamesOK
<1> USE <1>0 DEF NamesOK, AddressKnown, common, profile, secondStep, CreateEmailVerificationToken
<1>1. CASE LockSteps
  BY <1>1 DEF LockSteps, WrongPassword, LockRunsOut, SessionEnds
<1>2. CASE PlayerSteps
  <2>1. CASE \/ UserLogin \/ ResendVerification
             \/ ChangePassword \/ ForgotPassword \/ ResetPassword \/ ResetLinkLapses
    BY <2>1 DEF UserLogin, ResendVerification, Player, LoggedIn, ChangePassword,
                ForgotPassword, ResetPassword, ResetLinkLapses
  <2>2. CASE ChooseUsername
    BY <2>2 DEF ChooseUsername, Player, LoggedIn
  <2>3. ASSUME NEW a \in Addresses, OAuthSignup(a) \/ OAuthLogin(a) \/ LinkLapses(a)
        PROVE  NamesOK'
    BY <2>3 DEF OAuthSignup, OAuthLogin, LinkLapses
  <2>4. ASSUME NEW a \in Addresses, VerifyEmail(a) PROVE NamesOK'
    BY <2>4 DEF VerifyEmail, CreditReferralOnVerify
  <2>5. ASSUME NEW a \in Addresses, NEW crash \in BOOLEAN, ChangeEmail(a, crash)
        PROVE  NamesOK'
    BY <2>5 DEF ChangeEmail
  <2>6. ASSUME NEW a \in Addresses, NEW code \in {"none", "pending", "same ip"},
               NEW last \in DOMAIN Stages, Register(a, code, last)
        PROVE  NamesOK'
    BY <2>6 DEF Register
  <2> QED BY <1>2, <2>1, <2>2, <2>3, <2>4, <2>5, <2>6 DEF PlayerSteps
<1>3. CASE AdminOnPlayer
  <2>1. CASE DeactivateUser \/ ReactivateUser \/ ForceResetPassword
    BY <2>1 DEF DeactivateUser, ReactivateUser, ForceResetPassword, Exists, Player
  <2>2. CASE DeleteUser
    BY <2>2 DEF DeleteUser
  <2>3. ASSUME NEW a \in Addresses, NEW s \in {"active", "inactive"}, UpdateUser(a, s)
        PROVE  NamesOK'
    BY <2>3 DEF UpdateUser
  <2> QED BY <1>3, <2>1, <2>2, <2>3 DEF AdminOnPlayer
<1>4. CASE AdminSteps
  <2>1. UNCHANGED <<table, account, profile>> /\ totp' \in {totp, "off", "pending", "on"}
    BY <1>4 DEF AdminSteps, AdminLogin, AdminLoginRecovery, PendingTokenEnds,
        BeginTotpSetup, CleanupSetups, ClockTicks, AdminLoginVerify2fa,
        VerifyAndEnableTotp, DisableTotp, RegenerateRecoveryCodes
  <2> QED BY <2>1
<1>5. CASE UNCHANGED vars
  BY <1>5 DEF vars
<1> QED BY <1>1, <1>2, <1>3, <1>4, <1>5 DEF Next

\* However many windows begin meanwhile, the counter stays within the next one.
LEMMA ClockMoves ==
  ASSUME now \in 1 .. MaxNow, NEW c \in 1 .. MaxNow + 1, NEW k \in 0 .. MaxNow,
         InWindow(c), WindowsBegin(k)
  PROVE  now' \in 1 .. MaxNow /\ Counter(c, k) \in 0 .. MaxNow + 1
BY ConstantsOK DEF InWindow, WindowsBegin, Counter

LEMMA CodesOKKept == ASSUME IInv, [Next]_vars PROVE CodesOK'
<1>0. CodesOK
  BY DEF IInv, TypeOK, CodesOK
<1>a. /\ MaxNow \in Nat \ {0, 1} /\ RecoveryCodes \in Nat /\ MaxPending \in Nat
  BY ConstantsOK
<1> USE DEF secondStep
<1>1. CASE UNCHANGED secondStep
  BY <1>0, <1>1 DEF CodesOK
<1>2. CASE LockSteps \/ PlayerSteps \/ AdminOnPlayer \/ UNCHANGED vars
  <2>1. UNCHANGED secondStep
    BY <1>2 DEF LockSteps, WrongPassword, LockRunsOut, SessionEnds, PlayerSteps, UserLogin,
       ChooseUsername, ResendVerification, ChangePassword, ForgotPassword, ResetPassword,
       ResetLinkLapses, OAuthSignup, OAuthLogin, VerifyEmail, LinkLapses, ChangeEmail,
       Register, AdminOnPlayer, DeactivateUser, ReactivateUser, ForceResetPassword,
       DeleteUser, UpdateUser, vars
  <2> QED BY <2>1, <1>1
<1>3. CASE AdminSteps
  <2>1. CASE AdminLogin \/ AdminLoginRecovery \/ PendingTokenEnds
    <3>1. /\ UNCHANGED <<lastUsed, now, uses>>
          /\ \/ recovery' = recovery
             \/ recovery > 0 /\ recovery' = recovery - 1
          /\ \/ pending' = pending
             \/ pending < MaxPending /\ pending' = pending + 1
             \/ pending > 0 /\ pending' = pending - 1
      BY <2>1 DEF AdminLogin, AdminLoginRecovery, PendingTokenEnds
    <3>2. recovery' \in 0 .. RecoveryCodes /\ pending' \in 0 .. MaxPending
      BY <1>0, <1>a, <3>1 DEF CodesOK
    <3> QED BY <1>0, <3>1, <3>2 DEF CodesOK
  <2>2. CASE BeginTotpSetup \/ CleanupSetups \/ ClockTicks
    <3>1. /\ UNCHANGED <<lastUsed, recovery, pending, uses>>
          /\ \/ now' = now
             \/ now < MaxNow /\ now' = now + 1
      BY <2>2 DEF BeginTotpSetup, CleanupSetups, ClockTicks
    <3>2. now' \in 1 .. MaxNow
      BY <1>0, <1>a, <3>1 DEF CodesOK
    <3> QED BY <1>0, <3>1, <3>2 DEF CodesOK
  <2>3. ASSUME NEW c \in 1 .. MaxNow + 1, NEW k \in 0 .. MaxNow, AdminLoginVerify2fa(c, k)
        PROVE  CodesOK'
    <3>1. InWindow(c) /\ WindowsBegin(k)
      BY <2>3 DEF AdminLoginVerify2fa, VerifyTotpCode
    <3>2. /\ lastUsed' = Counter(c, k) /\ recovery' = recovery
          /\ pending > 0 /\ pending' = pending - 1
          /\ uses' = Append(uses, [code |-> c, crossed |-> k])
      BY <2>3 DEF AdminLoginVerify2fa
    <3> QED BY <1>0, <1>a, <3>1, <3>2, ClockMoves DEF CodesOK
  <2>4. ASSUME NEW c \in 1 .. MaxNow + 1, NEW k \in 0 .. MaxNow, NEW w \in 0 .. RecoveryCodes,
               VerifyAndEnableTotp(c, k, w)
        PROVE  CodesOK'
    <3>1. InWindow(c) /\ WindowsBegin(k)
      BY <2>4 DEF VerifyAndEnableTotp
    <3>2. /\ lastUsed' = Counter(c, k) /\ uses' = <<[code |-> c, crossed |-> k]>>
          /\ recovery' = w /\ pending' = pending
      BY <2>4 DEF VerifyAndEnableTotp
    <3> QED BY <1>0, <1>a, <3>1, <3>2, ClockMoves DEF CodesOK
  <2>5. ASSUME NEW c \in 0 .. MaxNow + 1, NEW k \in 0 .. MaxNow, NEW commits \in 1 .. 3,
               DisableTotp(c, k, commits)
        PROVE  CodesOK'
    <3>1. lastUsed' = 0 /\ uses' = <<>> /\ pending' = pending
      BY <2>5 DEF DisableTotp
    <3>2. recovery' \in 0 .. RecoveryCodes
      BY <1>0, <1>a, <2>5 DEF DisableTotp, CodesOK
    <3>3. now' = now \/ WindowsBegin(k)
      BY <2>5 DEF DisableTotp, VerifyTotpCode
    <3>4. now' \in 1 .. MaxNow
      BY <1>0, <1>a, <3>3 DEF CodesOK, WindowsBegin
    <3> QED BY <1>0, <1>a, <3>1, <3>2, <3>4 DEF CodesOK
  <2>6. ASSUME NEW w \in 0 .. RecoveryCodes, RegenerateRecoveryCodes(w) PROVE CodesOK'
    BY <1>0, <1>a, <2>6 DEF RegenerateRecoveryCodes, CodesOK
  <2> QED BY <1>3, <2>1, <2>2, <2>3, <2>4, <2>5, <2>6 DEF AdminSteps
<1> QED BY <1>2, <1>3 DEF Next

LEMMA StepHolds == IInv /\ [Next]_vars => IInv'
<1> SUFFICES ASSUME IInv, [Next]_vars PROVE IInv'
  OBVIOUS
<1>1. TypeOK' /\ AddressKnown'
  BY LockoutKept, SessionsKept, FlagsKept, NamesKept, CodesOKKept, Zenon
  DEF TypeOK, FlagsOK, NamesOK, CodesOK
<1> QED BY <1>1, LockoutKept, ProfileKept, SecondStepKept DEF IInv, ProfileHolds

LEMMA Inductive == Spec => []IInv
BY InitHolds, StepHolds, PTL DEF Spec

\* No login, link, edit, crash or code takes a column out of its domain, and
\* the session rows stay within userMaxSessions.
THEOREM AccountsTypeCorrect == Spec => []TypeOK
BY Inductive, PTL DEF IInv

\* Wrong passwords lock the account in time, whatever resets the count.
THEOREM WrongPasswordsLock == Spec => []LockComesInTime
<1>1. IInv => LockComesInTime
  BY DEF IInv, CountInStep, LockComesInTime
<1> QED BY <1>1, Inductive, PTL

\* A verified address is one whose link somebody followed.
THEOREM VerifiedMeansProved == Spec => []VerifiedAddressWasProved
BY Inductive, PTL DEF IInv

\* A one-time code is accepted again only across more window boundaries than
\* before, by whatever path it comes.
THEOREM OneTimeCodesWorkOnce == Spec => []CodesWorkOnce
<1>1. ASSUME IInv PROVE CodesWorkOnce
  <2> SUFFICES ASSUME NEW i \in DOMAIN uses, NEW j \in DOMAIN uses, i < j,
                      uses[i].code = uses[j].code
               PROVE  uses[i].crossed < uses[j].crossed
    BY DEF CodesWorkOnce
  <2>1. uses[i] \in Uses /\ uses[j] \in Uses
    <3>1. uses \in Seq(Uses)
      BY <1>1, Zenon DEF IInv, TypeOK, Uses
    <3> QED BY <3>1
  <2>2. Stored(uses[i]) < Stored(uses[j])
    BY <1>1 DEF IInv, CodesRise
  <2> QED BY <2>1, <2>2, ConstantsOK DEF Uses, Stored, Counter
<1> QED BY <1>1, Inductive, PTL

\* Most steps leave the referral alone.
LEMMA ReferralKept ==
  ASSUME ProfileHolds', referral' = referral PROVE ReferralStep
BY DEF ProfileHolds, NoneWaits, ReferralStep

LEMMA StepSettles == IInv /\ [Next]_vars => ReferralStep
<1> SUFFICES ASSUME IInv, [Next]_vars PROVE ReferralStep
  OBVIOUS
<1>0. ProfileHolds /\ ProfileHolds'
  BY ProfileKept DEF IInv, ProfileHolds
<1>1. CASE UNCHANGED referral
  BY <1>0, <1>1, ReferralKept
<1>2. ASSUME NEW a \in Addresses, VerifyEmail(a) PROVE ReferralStep
  <2>1. a # email => edited
    BY <1>0, <1>2 DEF VerifyEmail, ProfileHolds, LinksArePresent
  <2>2. referral' = "credited" /\ referral # "credited" => email \notin Disposable
    BY <1>2 DEF VerifyEmail, CreditReferralOnVerify
  <2>3. referral \in {"credited", "rejected"} => referral' = referral
    BY <1>2 DEF VerifyEmail, CreditReferralOnVerify
  <2>4. proved' = (proved \/ a = email)
    BY <1>2, Zenon DEF VerifyEmail
  <2>5. verified' => referral' \notin {"pending", "same ip"}
    BY <1>0 DEF ProfileHolds, NoneWaits
  <2> QED BY <2>1, <2>2, <2>3, <2>4, <2>5, Zenon DEF ReferralStep
<1>3. ASSUME NEW a \in Addresses, NEW code \in {"none", "pending", "same ip"},
             NEW last \in DOMAIN Stages, Register(a, code, last)
      PROVE  ReferralStep
  <2>1. referral = "none" /\ referral' \in {"none", "pending", "same ip"}
    BY <1>0, <1>3 DEF Register, ProfileHolds, BlankBefore
  <2> QED BY <1>0, <2>1 DEF ProfileHolds, NoneWaits, ReferralStep
<1>4. CASE DeleteUser
  BY <1>0, <1>4 DEF DeleteUser, ProfileHolds, NoneWaits, ReferralStep
<1> USE DEF common, profile
<1>5. CASE LockSteps \/ AdminSteps \/ UNCHANGED vars
  <2>1. UNCHANGED referral
    BY <1>5 DEF LockSteps, WrongPassword, LockRunsOut, SessionEnds, AdminSteps, AdminLogin,
       AdminLoginRecovery, PendingTokenEnds, BeginTotpSetup, CleanupSetups, ClockTicks,
       AdminLoginVerify2fa, VerifyAndEnableTotp, DisableTotp, RegenerateRecoveryCodes, vars
  <2> QED BY <2>1, <1>1
<1>6. CASE PlayerSteps
  <2>1. CASE \/ UserLogin \/ ChooseUsername \/ ResendVerification
             \/ ChangePassword \/ ForgotPassword \/ ResetPassword \/ ResetLinkLapses
    BY <2>1, <1>1 DEF UserLogin, ChooseUsername, ResendVerification, ChangePassword,
                ForgotPassword, ResetPassword, ResetLinkLapses
  <2>2. ASSUME NEW a \in Addresses,
               \/ OAuthSignup(a) \/ OAuthLogin(a) \/ LinkLapses(a)
               \/ \E crash \in BOOLEAN : ChangeEmail(a, crash)
        PROVE  ReferralStep
    BY <2>2, <1>1 DEF OAuthSignup, OAuthLogin, LinkLapses, ChangeEmail
  <2> QED BY <1>6, <1>2, <1>3, <2>1, <2>2 DEF PlayerSteps
<1>7. CASE AdminOnPlayer
  <2>1. CASE DeactivateUser \/ ReactivateUser \/ ForceResetPassword
    BY <2>1, <1>1 DEF DeactivateUser, ReactivateUser, ForceResetPassword
  <2>2. ASSUME NEW a \in Addresses, NEW s \in {"active", "inactive"}, UpdateUser(a, s)
        PROVE  ReferralStep
    BY <2>2, <1>1 DEF UpdateUser
  <2> QED BY <1>7, <1>4, <2>1, <2>2 DEF AdminOnPlayer
<1> QED BY <1>5, <1>6, <1>7 DEF Next

\* A referral is settled by the first link followed and for good.
THEOREM ReferralsSettle == Spec => ReferralSettles
BY Inductive, StepSettles, PTL DEF Spec, ReferralSettles
=============================================================================
