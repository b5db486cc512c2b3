----------------------------- MODULE AdminLogin -----------------------------
(***************************************************************************)
(* Sessions of one administrator.  A login checks the password (after the  *)
(* captcha, see Captcha), then the second factor in a transaction, then    *)
(* signs a token for the account as the first check has read it; meanwhile *)
(* other logins run, the second factor is set up, confirmed and removed,   *)
(* the password is changed or reset, the account disabled and enabled.     *)
(***************************************************************************)
EXTENDS Integers, FiniteSets, Bags

CONSTANTS
    Attempts,      \* requests that are running
    Backups,       \* recovery codes of one enrolment (10)
    ChallengeTTL,  \* steps of 30 seconds a challenge is good for (10)
    PendingTTL,    \* steps an enrolment waits for its confirmation (20)
    MaxStep,       \* bounds on time,
    MaxSecrets,    \* on enrolments,
    MaxChallenges, \* on challenges that clients keep
    MaxVersion     \* and on changes of the account

ASSUME AdminLoginAssumption ==
    /\ ChallengeTTL \in Nat /\ PendingTTL \in Nat
    /\ MaxStep \in Nat
    /\ MaxSecrets \in Nat /\ MaxChallenges \in Nat
    /\ MaxVersion \in Nat \ {0}

VARIABLES
    step,         \* the time-based codes' clock
    admin,        \* admin_users
    mfa,          \* admin_mfa
    minted,       \* secrets given out
    attempt,      \* how far each request has come
    challenges,   \* signed challenges in the hands of clients, with what was
                  \* proven for them (history)
    session,      \* history: one of the signed tokens, any of them
    consumed,        \* history: codes that were accepted, with their secrets
    opened,       \* history: challenges that have opened a session
    disablings    \* history: how often the account was disabled

admVars == <<step, admin, mfa, minted, attempt, challenges, session, consumed,
             opened, disablings>>
factorVars == <<mfa, minted, consumed>>
tokenVars == <<challenges, session, opened>>

NoAttempt == [at |-> "none"]
NoSession == [version |-> 0]
NotEnrolled == [enabled |-> FALSE, secret |-> 0, last |-> -1, backups |-> {},
                begun |-> 0]
Enrolled == mfa.enabled
Codes == [kind : {"otp"}, n : 0..(MaxStep + 1)] \cup [kind : {"backup"}, n : Backups]

EndAttempt(r) == attempt' = [attempt EXCEPT ![r] = NoAttempt]

-----------------------------------------------------------------------------
(* The second factor *)

\* What a challenge is signed for: the state that an accepted code changes.
MfaState == <<mfa.secret, mfa.last, mfa.backups>>

\* Mutant: a code is good as long as its window is.
AcceptsInWindow(code, backupsToo) ==
    /\ mfa.secret # 0
    /\ \/ code.kind = "otp" /\ code.n \in (step - 1)..(step + 1)
       \/ backupsToo /\ code.kind = "backup" /\ code.n \in mfa.backups

Accepts(code, backupsToo) ==
    /\ mfa.secret # 0
    /\ \/ code.kind = "otp" /\ code.n \in (step - 1)..(step + 1) /\ code.n > mfa.last
       \/ backupsToo /\ code.kind = "backup" /\ code.n \in mfa.backups

Used(code) ==
    IF code.kind = "otp" THEN [mfa EXCEPT !.last = code.n]
    ELSE [mfa EXCEPT !.backups = @ \ {code.n}]

Spend(code) == consumed' = consumed (+) SetToBag({<<mfa.secret, code>>})

\* Enrolments are begun, confirmed and removed after a check of the password.
CheckAdminPassword(r, purpose) ==
    /\ attempt[r] = NoAttempt
    /\ attempt' = [attempt EXCEPT ![r] = [at |-> purpose]]
    /\ UNCHANGED <<step, admin, factorVars, tokenVars, disablings>>

BeginAdminMFA(r) ==
    /\ attempt[r].at = "begin"
    /\ IF Enrolled THEN UNCHANGED <<mfa, minted>>
       ELSE /\ minted < MaxSecrets
            /\ minted' = minted + 1
            /\ mfa' = [NotEnrolled EXCEPT !.secret = minted + 1, !.begun = step]
    /\ EndAttempt(r)
    /\ UNCHANGED <<step, admin, consumed, tokenVars, disablings>>

Revoke == admin.version < MaxVersion /\ admin' = [admin EXCEPT !.version = @ + 1]

ConfirmAdminMFA(r, code) ==
    /\ attempt[r].at = "confirm"
    /\ ~Enrolled /\ step - mfa.begun <= PendingTTL /\ Accepts(code, FALSE)
    /\ mfa' = [Used(code) EXCEPT !.enabled = TRUE, !.backups = Backups]
    /\ Spend(code)
    /\ Revoke
    /\ EndAttempt(r)
    /\ UNCHANGED <<step, minted, tokenVars, disablings>>

DisableAdminMFA(r, code) ==
    /\ attempt[r].at = "disable"
    /\ Enrolled /\ Accepts(code, TRUE)
    /\ mfa' = [Used(code) EXCEPT !.enabled = FALSE, !.secret = 0, !.backups = {}]
    /\ Spend(code)
    /\ Revoke
    /\ EndAttempt(r)
    /\ UNCHANGED <<step, minted, tokenVars, disablings>>

-----------------------------------------------------------------------------
(* Login *)

\* The row of the account is read once and kept.
checkAdminLoginCredentials(r) ==
    /\ attempt[r] = NoAttempt
    /\ admin.status = "active"
    /\ attempt' = [attempt EXCEPT ![r] = [at |-> "checked", read |-> admin,
                                          disablings |-> disablings]]
    /\ UNCHANGED <<step, admin, factorVars, tokenVars, disablings>>

Ready(r, factor) ==
    attempt' = [attempt EXCEPT ![r] =
      [at |-> "ready", version |-> @.read.version, factor |-> factor,
       password |-> @.read.password, disablings |-> @.disablings]]

Unchanged(r) == admin.status = "active" /\ admin.version = attempt[r].read.version

StartAdminLogin(r) ==
    /\ attempt[r].at = "checked"
    /\ Unchanged(r)
    /\ IF Enrolled
       THEN /\ Cardinality(challenges) < MaxChallenges
            /\ challenges' = challenges \cup
                 {[version |-> admin.version, state |-> MfaState,
                   until |-> step + ChallengeTTL,
                   password |-> attempt[r].read.password,
                   disablings |-> attempt[r].disablings]}
            /\ EndAttempt(r)
       ELSE Ready(r, 0) /\ UNCHANGED challenges
    /\ UNCHANGED <<step, admin, factorVars, session, opened, disablings>>

\* Mutant: a challenge outlives changes of the account.
ChallengeUsable(c) == step < c.until /\ Enrolled /\ c.state = MfaState

ChallengeHolds(c) ==
    /\ step < c.until
    /\ admin.status = "active" /\ admin.version = c.version
    /\ Enrolled /\ c.state = MfaState

CompleteAdminLogin(r, c, code) ==
    /\ attempt[r] = NoAttempt
    /\ ChallengeHolds(c)
    /\ Accepts(code, TRUE)
    /\ mfa' = Used(code)
    /\ Spend(code)
    /\ opened' = opened (+) SetToBag({c})
    /\ attempt' = [attempt EXCEPT ![r] =
         [at |-> "ready", version |-> admin.version, factor |-> mfa.secret,
          password |-> c.password, disablings |-> c.disablings]]
    /\ UNCHANGED <<step, admin, minted, challenges, session, disablings>>

\* AdminLogin takes the code together with the password.
verifyAdminMFA(r, code) ==
    /\ attempt[r].at = "checked"
    /\ IF Enrolled
       THEN /\ Accepts(code, TRUE)
            /\ mfa' = Used(code)
            /\ Spend(code)
            /\ Ready(r, mfa.secret)
       ELSE Ready(r, 0) /\ UNCHANGED <<mfa, consumed>>
    /\ UNCHANGED <<step, admin, minted, tokenVars, disablings>>

\* A check fails, or the code is wrong, or the process stops.
RefuseAttempt(r) ==
    /\ attempt[r] # NoAttempt
    /\ EndAttempt(r)
    /\ UNCHANGED <<step, admin, factorVars, tokenVars, disablings>>

issueAdminLogin(r, watched) ==
    /\ attempt[r].at = "ready"
    /\ watched => session = NoSession
    /\ session' = IF watched
                  THEN [version |-> attempt[r].version,
                        password |-> attempt[r].password,
                        factor |-> attempt[r].factor,
                        disablings |-> attempt[r].disablings]
                  ELSE session
    /\ EndAttempt(r)
    /\ UNCHANGED <<step, admin, factorVars, challenges, opened, disablings>>

AuthenticateAdminToken(s) == admin.status = "active" /\ admin.version = s.version

-----------------------------------------------------------------------------
(* The account *)

NewPassword ==
    /\ admin.version < MaxVersion
    /\ admin' = [admin EXCEPT !.password = admin.version + 1, !.version = @ + 1]

\* The password is compared before, and outside of, the update.
ChangeAdminPassword(r) ==
    /\ attempt[r].at = "change"
    /\ NewPassword
    /\ EndAttempt(r)
    /\ UNCHANGED <<step, factorVars, tokenVars, disablings>>

\* By a recovery code or by the server's operator.
ResetAccountPassword ==
    /\ NewPassword
    /\ UNCHANGED <<step, factorVars, attempt, tokenVars, disablings>>

SetDeveloperStatus(status) ==
    /\ admin.version < MaxVersion
    /\ admin' = [admin EXCEPT !.status = status, !.version = @ + 1]
    /\ disablings' = IF status = "disabled" THEN disablings + 1 ELSE disablings
    /\ UNCHANGED <<step, factorVars, attempt, tokenVars>>

AdmTick ==
    /\ step < MaxStep
    /\ step' = step + 1
    /\ UNCHANGED <<admin, factorVars, attempt, tokenVars, disablings>>

-----------------------------------------------------------------------------
AdmInit ==
    /\ step = 0 /\ minted = 0 /\ disablings = 0
    /\ admin = [password |-> 1, version |-> 1, status |-> "active"]
    /\ mfa = NotEnrolled
    /\ attempt = [r \in Attempts |-> NoAttempt]
    /\ challenges = {} /\ session = NoSession
    /\ consumed = EmptyBag /\ opened = EmptyBag

AdmNext ==
    \/ \E r \in Attempts :
         \/ \E purpose \in {"begin", "confirm", "disable", "change"} :
              CheckAdminPassword(r, purpose)
         \/ checkAdminLoginCredentials(r)
         \/ BeginAdminMFA(r) \/ StartAdminLogin(r) \/ RefuseAttempt(r)
         \/ ChangeAdminPassword(r)
         \/ \E code \in Codes :
              \/ ConfirmAdminMFA(r, code) \/ DisableAdminMFA(r, code)
              \/ verifyAdminMFA(r, code)
              \/ \E c \in challenges : CompleteAdminLogin(r, c, code)
         \/ \E watched \in BOOLEAN : issueAdminLogin(r, watched)
    \/ ResetAccountPassword
    \/ \E status \in {"active", "disabled"} : SetDeveloperStatus(status)
    \/ AdmTick

AdmSpec == AdmInit /\ [][AdmNext]_admVars

-----------------------------------------------------------------------------
(* Properties *)

\* A session that is let in was opened with the account's present password,
\* with a code of the present second factor if there is one, and not before
\* the account was last disabled, whatever has happened between the steps of
\* the login (session_version and the rows read for it).
SessionProven ==
    session # NoSession /\ AuthenticateAdminToken(session) =>
      /\ session.password = admin.password
      /\ Enrolled => session.factor = mfa.secret
      /\ session.disablings = disablings

\* No code is accepted twice and no challenge opens two sessions, however
\* logins and enrolments run side by side (LastStep, RecoveryHashes, and the
\* comment of adminMFAState).
FactorOnce ==
    /\ \A x \in BagToSet(consumed) : consumed[x] = 1
    /\ \A c \in BagToSet(opened) : opened[c] = 1

\* A session that is let in was opened with the present password and second factor
\* of an account that has not been disabled since, and no code and no challenge lets
\* in twice (session_version, LastStep, RecoveryHashes).
LoginSound == SessionProven /\ FactorOnce
=============================================================================
