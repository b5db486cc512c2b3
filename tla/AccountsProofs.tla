--------------------------- MODULE AccountsProofs ---------------------------
(***************************************************************************)
(* What holds of the accounts of people for every number of accounts and   *)
(* of requests that run at once: sessions of administrators, the password  *)
(* of a person, captcha images, the client's shared directory, the names   *)
(* of people and their membership of agents, the licence of the retired    *)
(* routes, the limits before a login, and all of them side by side.        *)
(***************************************************************************)
EXTENDS Accounts, Sums, FiniteSetTheorems, TLAPS

-----------------------------------------------------------------------------
(* Administrators: types *)

AdminTypes ==
    /\ step \in Nat /\ minted \in Nat /\ disablings \in Nat
    /\ DOMAIN admin = {"password", "version", "status"}
    /\ admin.password \in Nat /\ admin.version \in Nat \ {0}
    /\ attempt = [r \in Attempts |-> attempt[r]]

MfaRow == [enabled : BOOLEAN, secret : Nat, last : Int, backups : SUBSET Backups,
           begun : Nat]

MfaTypes ==
    /\ mfa \in MfaRow
    /\ mfa.secret <= minted
    /\ mfa.enabled => mfa.secret # 0
    /\ ~mfa.enabled => mfa.backups = {}

-----------------------------------------------------------------------------
(* Administrators: what a step of a login has proven *)

\* An account that was seen with version v had password p and had been disabled
\* d times; nothing of it has changed while the version is the same.
SeenIs(v, p, d) ==
    /\ v \in Nat /\ v <= admin.version
    /\ v = admin.version => p = admin.password /\ d = disablings

ProvenIs(v, p, d, f) ==
    /\ SeenIs(v, p, d)
    /\ v = admin.version /\ Enrolled => f = mfa.secret

Attempted ==
    \A r \in Attempts :
      /\ attempt[r].at = "checked" =>
           SeenIs(attempt[r].read.version, attempt[r].read.password,
                  attempt[r].disablings)
      /\ attempt[r].at = "ready" =>
           ProvenIs(attempt[r].version, attempt[r].password,
                    attempt[r].disablings, attempt[r].factor)

Challenged ==
    \A c \in challenges : SeenIs(c.version, c.password, c.disablings)

InSession ==
    session = NoSession \/
      ProvenIs(session.version, session.password, session.disablings, session.factor)

-----------------------------------------------------------------------------
(* Administrators: what was used up *)

\* No code that was accepted is acceptable again.
SpentCode(x) ==
    /\ x[1] \in Nat /\ x[1] # 0 /\ x[1] <= minted
    /\ x[1] = mfa.secret =>
         \/ x[2].kind = "otp" /\ x[2].n \in Int /\ x[2].n <= mfa.last
         \/ x[2].kind = "backup" /\ mfa.enabled /\ x[2].n \notin mfa.backups

Spending ==
    \A x \in DOMAIN consumed : consumed[x] = 1 /\ SpentCode(x)

\* The second factor will never again be in the state s.
Gone(s) ==
    /\ s[1] \in Nat /\ s[1] # 0 /\ s[1] <= minted /\ s[2] \in Int
    /\ s[1] = mfa.secret => mfa.enabled /\ (s[2] < mfa.last \/ ~(s[3] \subseteq mfa.backups))

Opening ==
    \A c \in DOMAIN opened : opened[c] = 1 /\ Gone(c.state)

AdminInv ==
    /\ AdminTypes /\ MfaTypes
    /\ Attempted /\ Challenged /\ InSession
    /\ Spending /\ Opening

-----------------------------------------------------------------------------
(* Administrators: lemmas *)

LEMMA CodeCases ==
    ASSUME AdminLoginAssumption, NEW code \in Codes
    PROVE  \/ code.kind = "otp" /\ code.n \in Int
           \/ code.kind = "backup" /\ code.n \in Backups
BY DEF Codes, AdminLoginAssumption

\* Nothing that was seen of the account changes without a new version.
AccountKept ==
    \/ admin'.version > admin.version
    \/ /\ admin'.version = admin.version /\ admin'.password = admin.password
       /\ disablings' = disablings
       /\ mfa'.enabled => mfa.enabled /\ mfa'.secret = mfa.secret

LEMMA SeenKept ==
    ASSUME AdminTypes, AdminTypes', AccountKept, NEW v, NEW p, NEW d, SeenIs(v, p, d)
    PROVE  SeenIs(v, p, d)'
BY DEF AdminTypes, AccountKept, SeenIs

LEMMA ProvenKept ==
    ASSUME AdminTypes, AdminTypes', AccountKept,
           NEW v, NEW p, NEW d, NEW f, ProvenIs(v, p, d, f)
    PROVE  ProvenIs(v, p, d, f)'
BY DEF AdminTypes, AccountKept, SeenIs, ProvenIs, Enrolled

\* A step whose account is kept, and whose new proofs are right.
LEMMA ProofsKept ==
    ASSUME AdminTypes, AdminTypes', AccountKept, Attempted, Challenged, InSession,
           \A r \in Attempts :
             \/ attempt'[r] = attempt[r]
             \/ attempt'[r].at \notin {"checked", "ready"}
             \/ /\ attempt'[r].at = "checked"
                /\ SeenIs(attempt[r].read.version, attempt[r].read.password,
                          attempt[r].disablings)'
             \/ /\ attempt'[r].at = "ready"
                /\ ProvenIs(attempt[r].version, attempt[r].password,
                            attempt[r].disablings, attempt[r].factor)',
           \A c \in challenges' :
             c \in challenges \/ SeenIs(c.version, c.password, c.disablings)',
           UNCHANGED session
    PROVE  Attempted' /\ Challenged' /\ InSession'
<1>1. Attempted'
  <2> SUFFICES ASSUME NEW r \in Attempts
               PROVE  /\ attempt'[r].at = "checked" =>
                           SeenIs(attempt[r].read.version, attempt[r].read.password,
                                  attempt[r].disablings)'
                      /\ attempt'[r].at = "ready" =>
                           ProvenIs(attempt[r].version, attempt[r].password,
                                    attempt[r].disablings, attempt[r].factor)'
    BY DEF Attempted
  <2>1. CASE attempt'[r] = attempt[r]
    <3>1. ASSUME attempt[r].at = "checked"
          PROVE  SeenIs(attempt[r].read.version, attempt[r].read.password,
                        attempt[r].disablings)'
      <4>1. SeenIs(attempt[r].read.version, attempt[r].read.password,
                   attempt[r].disablings)
        BY <3>1 DEF Attempted
      <4>2. QED
        BY <2>1, <4>1 DEF AdminTypes, AccountKept, SeenIs
    <3>2. ASSUME attempt[r].at = "ready"
          PROVE  ProvenIs(attempt[r].version, attempt[r].password,
                          attempt[r].disablings, attempt[r].factor)'
      <4>1. ProvenIs(attempt[r].version, attempt[r].password,
                     attempt[r].disablings, attempt[r].factor)
        BY <3>2 DEF Attempted
      <4>2. QED
        BY <2>1, <4>1 DEF AdminTypes, AccountKept, SeenIs, ProvenIs, Enrolled
    <3>3. QED
      BY <2>1, <3>1, <3>2
  <2>2. CASE attempt'[r] # attempt[r]
    BY <2>2
  <2>3. QED
    BY <2>1, <2>2
<1>2. Challenged'
  <2> SUFFICES ASSUME NEW c \in challenges'
               PROVE  SeenIs(c.version, c.password, c.disablings)'
    BY DEF Challenged
  <2>1. CASE c \in challenges
    BY <2>1, SeenKept DEF Challenged
  <2>2. QED
    BY <2>1
<1>3. InSession'
  BY DEF InSession, NoSession, AdminTypes, AccountKept, SeenIs, ProvenIs, Enrolled
<1>4. QED
  BY <1>1, <1>2, <1>3

\* The second factor moves on: what was used up stays so, a new secret is a new one.
FactorMoves ==
    /\ minted' \in Nat /\ minted' >= minted
    /\ \/ mfa'.secret = 0
       \/ mfa'.secret > minted
       \/ /\ mfa'.secret = mfa.secret /\ mfa'.last >= mfa.last
          /\ mfa.enabled => mfa'.enabled /\ mfa'.backups \subseteq mfa.backups

LEMMA SpentKept ==
    ASSUME AdminTypes, MfaTypes, MfaTypes', FactorMoves, NEW x, SpentCode(x)
    PROVE  SpentCode(x)'
BY DEF AdminTypes, MfaTypes, MfaRow, FactorMoves, SpentCode

LEMMA GoneKept ==
    ASSUME AdminTypes, MfaTypes, MfaTypes', FactorMoves, NEW s, Gone(s)
    PROVE  Gone(s)'
BY DEF AdminTypes, MfaTypes, MfaRow, FactorMoves, Gone

\* A step that accepts no code keeps what is used up.
LEMMA NothingSpent ==
    ASSUME AdminTypes, MfaTypes, MfaTypes', FactorMoves, Spending, Opening,
           UNCHANGED <<consumed, opened>>
    PROVE  Spending' /\ Opening'
BY SpentKept, GoneKept DEF Spending, Opening

\* A code that is accepted was not accepted before.
LEMMA AcceptedIsNew ==
    ASSUME MfaTypes, Spending, NEW code, NEW both, Accepts(code, both)
    PROVE  <<mfa.secret, code>> \notin DOMAIN consumed
<1>1. ASSUME <<mfa.secret, code>> \in DOMAIN consumed
      PROVE  FALSE
  <2>1. SpentCode(<<mfa.secret, code>>)
    BY <1>1 DEF Spending
  <2>2. QED
    BY <2>1 DEF SpentCode, Accepts, MfaTypes, MfaRow
<1>2. QED
  BY <1>1

\* A step that accepts a code makes it unacceptable.
LEMMA CodeSpent ==
    ASSUME AdminTypes, MfaTypes, MfaTypes', FactorMoves, Spending,
           NEW code, NEW both, Accepts(code, both), Spend(code),
           NEW x, x = <<mfa.secret, code>>, SpentCode(x)'
    PROVE  Spending'
<1>1. x \notin DOMAIN consumed
  BY AcceptedIsNew
<1>2. /\ DOMAIN consumed' = DOMAIN consumed \cup {x}
      /\ \A y \in DOMAIN consumed' : consumed'[y] = 1
  <2>1. \A y \in DOMAIN consumed : consumed[y] = 1
    BY DEF Spending
  <2>2. consumed' = consumed (+) SetToBag({x})
    BY DEF Spend
  <2>3. /\ DOMAIN (consumed (+) SetToBag({x})) = DOMAIN consumed \cup {x}
        /\ \A y \in DOMAIN (consumed (+) SetToBag({x})) :
             (consumed (+) SetToBag({x}))[y] = 1
    BY <1>1, <2>1 DEF (+), SetToBag
  <2>4. QED
    BY <2>2, <2>3
<1>3. ASSUME NEW y \in DOMAIN consumed
      PROVE  SpentCode(y)'
  <2>1. SpentCode(y)
    BY <1>3 DEF Spending
  <2>2. QED
    BY <2>1, SpentKept
<1>4. QED
  BY <1>2, <1>3 DEF Spending

-----------------------------------------------------------------------------
(* Administrators: the steps that accept no code *)

LEMMA CheckAdminPasswordKept ==
    ASSUME AdminLoginAssumption, AdminInv, NEW r \in Attempts,
           NEW purpose \in {"begin", "confirm", "disable", "change"},
           CheckAdminPassword(r, purpose)
    PROVE  AdminInv'
<1>1. AdminTypes'
  BY DEF AdminInv, AdminTypes, CheckAdminPassword, tokenVars, factorVars
<1>2. MfaTypes' /\ AccountKept /\ FactorMoves
  BY DEF AdminInv, AdminTypes, MfaTypes, MfaRow, AccountKept, FactorMoves,
         CheckAdminPassword, tokenVars, factorVars
<1>3. Attempted' /\ Challenged' /\ InSession'
  BY <1>1, <1>2, ProofsKept
  DEF AdminInv, AdminTypes, CheckAdminPassword, NoAttempt, tokenVars, factorVars
<1>4. Spending' /\ Opening'
  BY <1>1, <1>2, NothingSpent DEF AdminInv, CheckAdminPassword, tokenVars, factorVars
<1>5. QED
  BY <1>1, <1>2, <1>3, <1>4 DEF AdminInv

LEMMA RefuseAttemptKept ==
    ASSUME AdminLoginAssumption, AdminInv, NEW r \in Attempts, RefuseAttempt(r)
    PROVE  AdminInv'
<1>1. AdminTypes'
  BY DEF AdminInv, AdminTypes, RefuseAttempt, EndAttempt, tokenVars, factorVars
<1>2. MfaTypes' /\ AccountKept /\ FactorMoves
  BY DEF AdminInv, AdminTypes, MfaTypes, MfaRow, AccountKept, FactorMoves,
         RefuseAttempt, tokenVars, factorVars
<1>3. Attempted' /\ Challenged' /\ InSession'
  BY <1>1, <1>2, ProofsKept
  DEF AdminInv, AdminTypes, RefuseAttempt, EndAttempt, NoAttempt, tokenVars, factorVars
<1>4. Spending' /\ Opening'
  BY <1>1, <1>2, NothingSpent DEF AdminInv, RefuseAttempt, tokenVars, factorVars
<1>5. QED
  BY <1>1, <1>2, <1>3, <1>4 DEF AdminInv

LEMMA checkAdminLoginCredentialsKept ==
    ASSUME AdminLoginAssumption, AdminInv, NEW r \in Attempts, checkAdminLoginCredentials(r)
    PROVE  AdminInv'
<1>1. AdminTypes'
  BY DEF AdminInv, AdminTypes, checkAdminLoginCredentials, tokenVars, factorVars
<1>2. MfaTypes' /\ AccountKept /\ FactorMoves
  BY DEF AdminInv, AdminTypes, MfaTypes, MfaRow, AccountKept, FactorMoves,
         checkAdminLoginCredentials, tokenVars, factorVars
<1>3. Attempted' /\ Challenged' /\ InSession'
  BY <1>1, <1>2, ProofsKept
  DEF AdminInv, AdminTypes, SeenIs, checkAdminLoginCredentials, tokenVars, factorVars
<1>4. Spending' /\ Opening'
  BY <1>1, <1>2, NothingSpent DEF AdminInv, checkAdminLoginCredentials, tokenVars, factorVars
<1>5. QED
  BY <1>1, <1>2, <1>3, <1>4 DEF AdminInv

LEMMA BeginAdminMFAKept ==
    ASSUME AdminLoginAssumption, AdminInv, NEW r \in Attempts, BeginAdminMFA(r)
    PROVE  AdminInv'
<1>1. AdminTypes'
  BY DEF AdminInv, AdminTypes, BeginAdminMFA, EndAttempt, tokenVars
<1>2. MfaTypes' /\ AccountKept /\ FactorMoves
  <2>1. CASE Enrolled
    BY <2>1 DEF AdminInv, AdminTypes, MfaTypes, MfaRow, AccountKept, FactorMoves, BeginAdminMFA
  <2>2. CASE ~Enrolled
    <3>1. /\ mfa' = [enabled |-> FALSE, secret |-> minted + 1, last |-> -1,
                     backups |-> {}, begun |-> step]
          /\ minted' = minted + 1
      BY <2>2 DEF BeginAdminMFA, NotEnrolled
    <3>2. /\ minted \in Nat /\ step \in Nat
          /\ UNCHANGED <<admin, disablings>>
      BY DEF AdminInv, AdminTypes, BeginAdminMFA
    <3>3. MfaTypes'
      BY <3>1, <3>2 DEF MfaTypes, MfaRow
    <3>4. AccountKept /\ FactorMoves
      BY <3>1, <3>2 DEF AccountKept, FactorMoves
    <3>5. QED
      BY <3>3, <3>4
  <2>3. QED
    BY <2>1, <2>2
<1>3. Attempted' /\ Challenged' /\ InSession'
  BY <1>1, <1>2, ProofsKept
  DEF AdminInv, AdminTypes, BeginAdminMFA, EndAttempt, NoAttempt, tokenVars
<1>4. Spending' /\ Opening'
  BY <1>1, <1>2, NothingSpent DEF AdminInv, BeginAdminMFA, tokenVars
<1>5. QED
  BY <1>1, <1>2, <1>3, <1>4 DEF AdminInv

LEMMA ChangeAdminPasswordKept ==
    ASSUME AdminLoginAssumption, AdminInv, NEW r \in Attempts, ChangeAdminPassword(r)
    PROVE  AdminInv'
<1>1. AdminTypes'
  BY DEF AdminInv, AdminTypes, ChangeAdminPassword, NewPassword, EndAttempt, tokenVars, factorVars
<1>2. MfaTypes' /\ AccountKept /\ FactorMoves
  BY DEF AdminInv, AdminTypes, MfaTypes, MfaRow, AccountKept, FactorMoves,
         ChangeAdminPassword, NewPassword, tokenVars, factorVars
<1>3. Attempted' /\ Challenged' /\ InSession'
  BY <1>1, <1>2, ProofsKept
  DEF AdminInv, AdminTypes, ChangeAdminPassword, NewPassword, EndAttempt, NoAttempt, tokenVars, factorVars
<1>4. Spending' /\ Opening'
  BY <1>1, <1>2, NothingSpent DEF AdminInv, ChangeAdminPassword, NewPassword, tokenVars, factorVars
<1>5. QED
  BY <1>1, <1>2, <1>3, <1>4 DEF AdminInv

LEMMA ResetAccountPasswordKept ==
    ASSUME AdminLoginAssumption, AdminInv, ResetAccountPassword
    PROVE  AdminInv'
<1>1. AdminTypes'
  BY DEF AdminInv, AdminTypes, ResetAccountPassword, NewPassword, tokenVars, factorVars
<1>2. MfaTypes' /\ AccountKept /\ FactorMoves
  BY DEF AdminInv, AdminTypes, MfaTypes, MfaRow, AccountKept, FactorMoves,
         ResetAccountPassword, NewPassword, tokenVars, factorVars
<1>3. Attempted' /\ Challenged' /\ InSession'
  BY <1>1, <1>2, ProofsKept
  DEF AdminInv, AdminTypes, ResetAccountPassword, NewPassword, tokenVars, factorVars
<1>4. Spending' /\ Opening'
  BY <1>1, <1>2, NothingSpent DEF AdminInv, ResetAccountPassword, NewPassword, tokenVars, factorVars
<1>5. QED
  BY <1>1, <1>2, <1>3, <1>4 DEF AdminInv

LEMMA SetDeveloperStatusKept ==
    ASSUME AdminLoginAssumption, AdminInv, NEW status \in {"active", "disabled"}, SetDeveloperStatus(status)
    PROVE  AdminInv'
<1>1. AdminTypes'
  BY DEF AdminInv, AdminTypes, SetDeveloperStatus, tokenVars, factorVars
<1>2. MfaTypes' /\ AccountKept /\ FactorMoves
  BY DEF AdminInv, AdminTypes, MfaTypes, MfaRow, AccountKept, FactorMoves,
         SetDeveloperStatus, tokenVars, factorVars
<1>3. Attempted' /\ Challenged' /\ InSession'
  BY <1>1, <1>2, ProofsKept
  DEF AdminInv, AdminTypes, SetDeveloperStatus, tokenVars, factorVars
<1>4. Spending' /\ Opening'
  BY <1>1, <1>2, NothingSpent DEF AdminInv, SetDeveloperStatus, tokenVars, factorVars
<1>5. QED
  BY <1>1, <1>2, <1>3, <1>4 DEF AdminInv

LEMMA AdmTickKept ==
    ASSUME AdminLoginAssumption, AdminInv, AdmTick
    PROVE  AdminInv'
<1>1. AdminTypes'
  BY DEF AdminInv, AdminTypes, AdmTick, tokenVars, factorVars
<1>2. MfaTypes' /\ AccountKept /\ FactorMoves
  BY DEF AdminInv, AdminTypes, MfaTypes, MfaRow, AccountKept, FactorMoves,
         AdmTick, tokenVars, factorVars
<1>3. Attempted' /\ Challenged' /\ InSession'
  BY <1>1, <1>2, ProofsKept
  DEF AdminInv, AdminTypes, AdmTick, tokenVars, factorVars
<1>4. Spending' /\ Opening'
  BY <1>1, <1>2, NothingSpent DEF AdminInv, AdmTick, tokenVars, factorVars
<1>5. QED
  BY <1>1, <1>2, <1>3, <1>4 DEF AdminInv

-----------------------------------------------------------------------------
(* Administrators: the steps of a login and those that accept a code *)

LEMMA StartAdminLoginKept ==
    ASSUME AdminLoginAssumption, AdminInv, NEW r \in Attempts, StartAdminLogin(r)
    PROVE  AdminInv'
<1>1. AdminTypes'
  BY DEF AdminInv, AdminTypes, StartAdminLogin, EndAttempt, Ready, factorVars
<1>2. MfaTypes' /\ AccountKept /\ FactorMoves
  BY DEF AdminInv, AdminTypes, MfaTypes, MfaRow, AccountKept, FactorMoves,
         StartAdminLogin, factorVars
<1>3. SeenIs(attempt[r].read.version, attempt[r].read.password, attempt[r].disablings)
  BY DEF AdminInv, Attempted, StartAdminLogin
<1>4. Attempted' /\ Challenged' /\ InSession'
  <2>1. CASE Enrolled
    <3>1. \A c \in challenges' :
            c \in challenges \/ SeenIs(c.version, c.password, c.disablings)'
      BY <2>1, <1>3 DEF StartAdminLogin, Unchanged, SeenIs
    <3>2. \A q \in Attempts :
            attempt'[q] = attempt[q] \/ attempt'[q].at \notin {"checked", "ready"}
      BY <2>1 DEF AdminInv, AdminTypes, StartAdminLogin, EndAttempt, NoAttempt
    <3>3. UNCHANGED session
      BY DEF StartAdminLogin
    <3>4. QED
      BY <1>1, <1>2, <3>1, <3>2, <3>3, ProofsKept DEF AdminInv
  <2>2. CASE ~Enrolled
    <3>1. \A q \in Attempts :
            \/ attempt'[q] = attempt[q]
            \/ /\ attempt'[q].at = "ready"
               /\ ProvenIs(attempt[q].version, attempt[q].password,
                           attempt[q].disablings, attempt[q].factor)'
      <4>1. \A q \in Attempts \ {r} : attempt'[q] = attempt[q]
        BY <2>2 DEF AdminInv, AdminTypes, StartAdminLogin, Ready
      <4>2. /\ attempt'[r].at = "ready"
            /\ attempt'[r].version = attempt[r].read.version
            /\ attempt'[r].password = attempt[r].read.password
            /\ attempt'[r].disablings = attempt[r].disablings
        BY <2>2 DEF AdminInv, AdminTypes, StartAdminLogin, Ready
      <4>3. ~Enrolled' /\ UNCHANGED <<admin, disablings>>
        BY <2>2 DEF StartAdminLogin, factorVars, Enrolled
      <4>4. ProvenIs(attempt[r].version, attempt[r].password,
                     attempt[r].disablings, attempt[r].factor)'
        BY <1>3, <4>2, <4>3 DEF SeenIs, ProvenIs
      <4>5. QED
        BY <4>1, <4>2, <4>4
    <3>2. UNCHANGED <<challenges, session>>
      BY <2>2 DEF StartAdminLogin
    <3>3. QED
      BY <1>1, <1>2, <3>1, <3>2, ProofsKept DEF AdminInv
  <2>3. QED
    BY <2>1, <2>2
<1>5. Spending' /\ Opening'
  BY <1>1, <1>2, NothingSpent DEF AdminInv, StartAdminLogin, factorVars
<1>6. QED
  BY <1>1, <1>2, <1>4, <1>5 DEF AdminInv

LEMMA issueAdminLoginKept ==
    ASSUME AdminLoginAssumption, AdminInv, NEW r \in Attempts, NEW watched \in BOOLEAN,
           issueAdminLogin(r, watched)
    PROVE  AdminInv'
<1>1. AdminTypes'
  BY DEF AdminInv, AdminTypes, issueAdminLogin, EndAttempt, factorVars
<1>2. MfaTypes' /\ AccountKept /\ FactorMoves
  BY DEF AdminInv, AdminTypes, MfaTypes, MfaRow, AccountKept, FactorMoves,
         issueAdminLogin, factorVars
<1>3. Attempted'
  BY DEF AdminInv, AdminTypes, Attempted, issueAdminLogin, EndAttempt, NoAttempt,
         SeenIs, ProvenIs, Enrolled, factorVars
<1>4. Challenged'
  BY DEF AdminInv, Challenged, issueAdminLogin, SeenIs
<1>5. InSession'
  <2>1. ProvenIs(attempt[r].version, attempt[r].password,
                 attempt[r].disablings, attempt[r].factor)
    BY DEF AdminInv, Attempted, issueAdminLogin
  <2>2. QED
    BY <2>1 DEF AdminInv, InSession, issueAdminLogin, SeenIs, ProvenIs, Enrolled, factorVars
<1>6. Spending' /\ Opening'
  BY <1>1, <1>2, NothingSpent DEF AdminInv, issueAdminLogin, factorVars
<1>7. QED
  BY <1>1, <1>2, <1>3, <1>4, <1>5, <1>6 DEF AdminInv

\* What is left of the second factor when a code was accepted.
LEMMA UsedCode ==
    ASSUME AdminLoginAssumption, MfaTypes, NEW code \in Codes, NEW both \in BOOLEAN,
           Accepts(code, both)
    PROVE  /\ Used(code) \in MfaRow
           /\ Used(code).enabled = mfa.enabled /\ Used(code).secret = mfa.secret
           /\ mfa.secret # 0
           /\ Used(code).last >= mfa.last
           /\ Used(code).backups \subseteq mfa.backups
           /\ \/ /\ code.kind = "otp" /\ code.n \in Int /\ code.n > mfa.last
                 /\ Used(code).last = code.n
              \/ /\ code.kind = "backup" /\ both /\ code.n \in mfa.backups
                 /\ code.n \notin Used(code).backups
<1>1. CASE code.kind = "otp"
  <2>1. code.n \in Int /\ code.n > mfa.last
    BY <1>1, CodeCases DEF Accepts
  <2>2. Used(code) = [mfa EXCEPT !.last = code.n]
    BY <1>1 DEF Used
  <2>3. QED
    BY <1>1, <2>1, <2>2 DEF MfaTypes, MfaRow, Accepts
<1>2. CASE code.kind = "backup"
  <2>1. both /\ code.n \in mfa.backups
    BY <1>2 DEF Accepts
  <2>2. Used(code) = [mfa EXCEPT !.backups = @ \ {code.n}]
    BY <1>2 DEF Used
  <2>3. QED
    BY <1>2, <2>1, <2>2 DEF MfaTypes, MfaRow, Accepts
<1>3. QED
  BY <1>1, <1>2, CodeCases

\* A step that accepts a code and opens no session of a challenge uses up this code.
LEMMA AcceptedOnce ==
    ASSUME AdminLoginAssumption, AdminInv, AdminTypes', MfaTypes', FactorMoves,
           NEW code \in Codes, NEW both \in BOOLEAN, Accepts(code, both), Spend(code),
           \/ mfa'.secret = 0
           \/ /\ mfa'.secret = mfa.secret /\ mfa'.last = Used(code).last
              /\ code.kind = "backup" =>
                   mfa'.enabled /\ mfa'.backups = Used(code).backups
    PROVE  Spending'
<1>1. PICK x : x = <<mfa.secret, code>>
  OBVIOUS
<1>2. /\ x[1] = mfa.secret /\ x[2] = code
      /\ mfa.secret \in Nat /\ mfa.secret # 0 /\ mfa.secret <= minted'
  BY <1>1, UsedCode DEF AdminInv, AdminTypes, MfaTypes, MfaRow, FactorMoves
<1>3. SpentCode(x)'
  BY <1>2, UsedCode DEF AdminInv, SpentCode
<1>4. QED
  BY <1>1, <1>3, CodeSpent DEF AdminInv

\* The row after a confirmation and after a removal.
LEMMA ConfirmedRow ==
    ASSUME NEW u \in MfaRow
    PROVE  LET q == [u EXCEPT !.enabled = TRUE, !.backups = Backups]
           IN  /\ q \in MfaRow /\ q.enabled /\ q.backups = Backups
               /\ q.secret = u.secret /\ q.last = u.last
<1> DEFINE q0 == [u EXCEPT !.enabled = TRUE]
           q1 == [q0 EXCEPT !.backups = Backups]
<1>1. q1 = [u EXCEPT !.enabled = TRUE, !.backups = Backups]
  OBVIOUS
<1>2. q0 \in MfaRow /\ q0.enabled /\ q0.secret = u.secret /\ q0.last = u.last
  BY DEF MfaRow
<1> HIDE DEF q0
<1>3. /\ q1 \in MfaRow /\ q1.enabled /\ q1.backups = Backups
      /\ q1.secret = u.secret /\ q1.last = u.last
  BY <1>2 DEF MfaRow
<1>4. QED
  BY <1>1, <1>3

LEMMA RemovedRow ==
    ASSUME NEW u \in MfaRow
    PROVE  LET q == [u EXCEPT !.enabled = FALSE, !.secret = 0, !.backups = {}]
           IN  q \in MfaRow /\ ~q.enabled /\ q.secret = 0 /\ q.backups = {}
<1> DEFINE q0 == [u EXCEPT !.enabled = FALSE]
           q1 == [q0 EXCEPT !.secret = 0]
           q2 == [q1 EXCEPT !.backups = {}]
<1>1. q2 = [u EXCEPT !.enabled = FALSE, !.secret = 0, !.backups = {}]
  OBVIOUS
<1>2. q0 \in MfaRow /\ ~q0.enabled
  BY DEF MfaRow
<1> HIDE DEF q0
<1>3. q1 \in MfaRow /\ ~q1.enabled /\ q1.secret = 0
  BY <1>2 DEF MfaRow
<1> HIDE DEF q1
<1>4. q2 \in MfaRow /\ ~q2.enabled /\ q2.secret = 0 /\ q2.backups = {}
  BY <1>3 DEF MfaRow
<1>5. QED
  BY <1>1, <1>4

LEMMA DisableAdminMFAKept ==
    ASSUME AdminLoginAssumption, AdminInv, NEW r \in Attempts, NEW code \in Codes,
           DisableAdminMFA(r, code)
    PROVE  AdminInv'
<1>1. AdminTypes'
  BY DEF AdminInv, AdminTypes, DisableAdminMFA, Revoke, EndAttempt, tokenVars
<1>2. mfa' = [Used(code) EXCEPT !.enabled = FALSE, !.secret = 0, !.backups = {}]
  BY DEF DisableAdminMFA
<1>3. MfaTypes' /\ mfa'.secret = 0
  <2>1. Used(code) \in MfaRow
    BY UsedCode DEF AdminInv, DisableAdminMFA
  <2>2. minted' \in Nat
    BY <1>1 DEF AdminTypes
  <2>3. mfa' \in MfaRow /\ ~mfa'.enabled /\ mfa'.secret = 0 /\ mfa'.backups = {}
    BY <1>2, <2>1, RemovedRow
  <2>4. QED
    BY <2>2, <2>3 DEF MfaTypes
<1>4. AccountKept /\ FactorMoves
  BY <1>3 DEF AdminInv, AdminTypes, AccountKept, FactorMoves, DisableAdminMFA, Revoke
<1>5. Attempted' /\ Challenged' /\ InSession'
  BY <1>1, <1>4, ProofsKept
  DEF AdminInv, AdminTypes, DisableAdminMFA, EndAttempt, NoAttempt, tokenVars
<1>6. Spending'
  BY <1>1, <1>3, <1>4, AcceptedOnce DEF DisableAdminMFA
<1>7. Opening'
  BY <1>3, <1>4, GoneKept DEF AdminInv, Opening, DisableAdminMFA, tokenVars
<1>8. QED
  BY <1>1, <1>3, <1>5, <1>6, <1>7 DEF AdminInv

LEMMA ConfirmAdminMFAKept ==
    ASSUME AdminLoginAssumption, AdminInv, NEW r \in Attempts, NEW code \in Codes,
           ConfirmAdminMFA(r, code)
    PROVE  AdminInv'
<1>1. AdminTypes'
  BY DEF AdminInv, AdminTypes, ConfirmAdminMFA, Revoke, EndAttempt, tokenVars
<1>2. /\ mfa' \in MfaRow /\ mfa'.enabled /\ mfa'.backups = Backups
      /\ mfa'.secret = mfa.secret /\ mfa'.last = Used(code).last
  <2>1. Used(code) \in MfaRow /\ Used(code).secret = mfa.secret
    BY UsedCode DEF AdminInv, ConfirmAdminMFA
  <2>2. mfa' = [Used(code) EXCEPT !.enabled = TRUE, !.backups = Backups]
    BY DEF ConfirmAdminMFA
  <2>3. QED
    BY <2>1, <2>2, ConfirmedRow
<1>3. /\ ~mfa.enabled /\ mfa.secret # 0 /\ mfa.last \in Int
      /\ code.kind = "otp" /\ Used(code).last >= mfa.last
  BY UsedCode DEF AdminInv, MfaTypes, MfaRow, ConfirmAdminMFA, Enrolled
<1>4. MfaTypes' /\ AccountKept /\ FactorMoves
  BY <1>2, <1>3 DEF AdminInv, AdminTypes, MfaTypes, AccountKept, FactorMoves,
                    ConfirmAdminMFA, Revoke
<1>5. Attempted' /\ Challenged' /\ InSession'
  BY <1>1, <1>4, ProofsKept
  DEF AdminInv, AdminTypes, ConfirmAdminMFA, EndAttempt, NoAttempt, tokenVars
<1>6. Spending'
  BY <1>1, <1>2, <1>3, <1>4, AcceptedOnce DEF ConfirmAdminMFA
<1>7. Opening'
  BY <1>4, GoneKept DEF AdminInv, Opening, ConfirmAdminMFA, tokenVars
<1>8. QED
  BY <1>1, <1>4, <1>5, <1>6, <1>7 DEF AdminInv

\* A code that is accepted while the second factor stays enrolled.
LEMMA CodeTaken ==
    ASSUME AdminLoginAssumption, AdminInv, AdminTypes', NEW code \in Codes, Enrolled,
           Accepts(code, TRUE), mfa' = Used(code), Spend(code),
           UNCHANGED <<admin, minted, disablings>>
    PROVE  /\ MfaTypes' /\ AccountKept /\ FactorMoves /\ Spending'
           /\ mfa'.secret = mfa.secret
<1>1. /\ mfa' \in MfaRow /\ mfa'.enabled = mfa.enabled /\ mfa'.secret = mfa.secret
      /\ mfa'.last >= mfa.last /\ mfa'.backups \subseteq mfa.backups
  BY UsedCode DEF AdminInv
<1>2. MfaTypes' /\ AccountKept /\ FactorMoves
  BY <1>1 DEF AdminInv, AdminTypes, MfaTypes, AccountKept, FactorMoves, Enrolled
<1>3. Spending'
  BY <1>1, <1>2, AcceptedOnce DEF Enrolled
<1>4. QED
  BY <1>1, <1>2, <1>3

LEMMA verifyAdminMFAKept ==
    ASSUME AdminLoginAssumption, AdminInv, NEW r \in Attempts, NEW code \in Codes,
           verifyAdminMFA(r, code)
    PROVE  AdminInv'
<1>1. AdminTypes'
  BY DEF AdminInv, AdminTypes, verifyAdminMFA, Ready, tokenVars
<1>2. SeenIs(attempt[r].read.version, attempt[r].read.password, attempt[r].disablings)
  BY DEF AdminInv, Attempted, verifyAdminMFA
<1>3. /\ MfaTypes' /\ AccountKept /\ FactorMoves /\ Spending'
      /\ Enrolled' => Enrolled /\ mfa'.secret = mfa.secret
  <2>1. CASE Enrolled
    BY <1>1, <2>1, CodeTaken DEF verifyAdminMFA
  <2>2. CASE ~Enrolled
    <3>1. UNCHANGED <<mfa, minted, consumed, opened, admin, disablings>>
      BY <2>2 DEF verifyAdminMFA, tokenVars
    <3>2. MfaTypes' /\ AccountKept /\ FactorMoves
      BY <3>1 DEF AdminInv, AdminTypes, MfaTypes, MfaRow, AccountKept, FactorMoves
    <3>3. Spending'
      BY <1>1, <3>1, <3>2, NothingSpent DEF AdminInv
    <3>4. QED
      BY <2>2, <3>1, <3>2, <3>3 DEF Enrolled
  <2>3. QED
    BY <2>1, <2>2
<1>4. Attempted' /\ Challenged' /\ InSession'
  <2>1. \A q \in Attempts \ {r} : attempt'[q] = attempt[q]
    BY DEF AdminInv, AdminTypes, verifyAdminMFA, Ready
  <2>2. /\ attempt'[r].at = "ready"
        /\ attempt'[r].version = attempt[r].read.version
        /\ attempt'[r].password = attempt[r].read.password
        /\ attempt'[r].disablings = attempt[r].disablings
        /\ Enrolled => attempt'[r].factor = mfa.secret
    <3>1. PICK f : Ready(r, f) /\ (Enrolled => f = mfa.secret)
      BY DEF verifyAdminMFA
    <3>2. QED
      BY <3>1 DEF AdminInv, AdminTypes, Ready
  <2>3. ProvenIs(attempt[r].version, attempt[r].password,
                 attempt[r].disablings, attempt[r].factor)'
    <3>1. UNCHANGED <<admin, disablings>>
      BY DEF verifyAdminMFA
    <3>2. QED
      BY <1>2, <1>3, <2>2, <3>1 DEF SeenIs, ProvenIs
  <2>4. UNCHANGED <<challenges, session>>
    BY DEF verifyAdminMFA, tokenVars
  <2>5. QED
    BY <1>1, <1>3, <2>1, <2>2, <2>3, <2>4, ProofsKept DEF AdminInv
<1>5. Opening'
  BY <1>3, GoneKept DEF AdminInv, Opening, verifyAdminMFA, tokenVars
<1>6. QED
  BY <1>1, <1>3, <1>4, <1>5 DEF AdminInv

LEMMA CompleteAdminLoginKept ==
    ASSUME AdminLoginAssumption, AdminInv, NEW r \in Attempts, NEW code \in Codes,
           NEW c \in challenges, CompleteAdminLogin(r, c, code)
    PROVE  AdminInv'
<1>1. AdminTypes'
  BY DEF AdminInv, AdminTypes, CompleteAdminLogin
<1>2. Enrolled /\ c.state = MfaState /\ c.version = admin.version
  BY DEF CompleteAdminLogin, ChallengeHolds
<1>3. MfaTypes' /\ AccountKept /\ FactorMoves /\ Spending' /\ mfa'.secret = mfa.secret
  BY <1>1, <1>2, CodeTaken DEF CompleteAdminLogin
<1>4. Attempted' /\ Challenged' /\ InSession'
  <2>1. \A q \in Attempts \ {r} : attempt'[q] = attempt[q]
    BY DEF AdminInv, AdminTypes, CompleteAdminLogin
  <2>2. /\ attempt'[r].at = "ready" /\ attempt'[r].version = admin.version
        /\ attempt'[r].password = c.password /\ attempt'[r].factor = mfa.secret
        /\ attempt'[r].disablings = c.disablings
    BY DEF AdminInv, AdminTypes, CompleteAdminLogin
  <2>3. SeenIs(c.version, c.password, c.disablings)
    BY DEF AdminInv, Challenged
  <2>4. ProvenIs(attempt[r].version, attempt[r].password,
                 attempt[r].disablings, attempt[r].factor)'
    <3>1. UNCHANGED <<admin, disablings>>
      BY DEF CompleteAdminLogin
    <3>2. QED
      BY <1>2, <1>3, <2>2, <2>3, <3>1 DEF SeenIs, ProvenIs
  <2>5. UNCHANGED <<challenges, session>>
    BY DEF CompleteAdminLogin
  <2>6. QED
    BY <1>1, <1>3, <2>1, <2>2, <2>4, <2>5, ProofsKept DEF AdminInv
<1>5. Opening'
  <2>1. c \notin DOMAIN opened
    BY <1>2 DEF AdminInv, MfaTypes, MfaRow, Opening, Gone, MfaState
  <2>2. \A y \in DOMAIN opened : opened[y] = 1
    BY DEF AdminInv, Opening
  <2>3. opened' = opened (+) SetToBag({c})
    BY DEF CompleteAdminLogin
  <2>4. /\ DOMAIN opened' = DOMAIN opened \cup {c}
        /\ \A y \in DOMAIN opened' : opened'[y] = 1
    BY <2>1, <2>2, <2>3 DEF (+), SetToBag
  <2>5. \A y \in DOMAIN opened : Gone(y.state)'
    BY <1>3, GoneKept DEF AdminInv, Opening
  <2>6. Gone(c.state)'
    <3>1. /\ c.state[1] = mfa.secret /\ c.state[2] = mfa.last
          /\ c.state[3] = mfa.backups
      BY <1>2 DEF MfaState
    <3>2. /\ mfa.secret # 0 /\ mfa'.enabled
          /\ mfa.last < mfa'.last \/ ~(mfa.backups \subseteq mfa'.backups)
      BY <1>2, UsedCode DEF AdminInv, CompleteAdminLogin, Enrolled, MfaTypes, MfaRow
    <3>3. QED
      BY <1>3, <3>1, <3>2 DEF AdminInv, AdminTypes, MfaTypes, MfaRow, Gone
  <2>7. QED
    BY <2>4, <2>5, <2>6 DEF Opening
<1>6. QED
  BY <1>1, <1>3, <1>4, <1>5 DEF AdminInv

-----------------------------------------------------------------------------
(* Administrators: the theorem *)

LEMMA AdminStarts == AdminLoginAssumption /\ AdmInit => AdminInv
<1> SUFFICES ASSUME AdminLoginAssumption, AdmInit PROVE AdminInv
  OBVIOUS
<1>1. AdminTypes
  BY DEF AdmInit, AdminTypes
<1>2. MfaTypes
  BY DEF AdmInit, MfaTypes, MfaRow, NotEnrolled
<1>3. Attempted /\ Challenged /\ InSession
  BY DEF AdmInit, Attempted, Challenged, InSession, NoAttempt
<1>4. Spending /\ Opening
  BY DEF AdmInit, Spending, Opening, EmptyBag, SetToBag
<1>5. QED
  BY <1>1, <1>2, <1>3, <1>4 DEF AdminInv

LEMMA AdminSteps ==
    ASSUME AdminLoginAssumption, AdminInv, [AdmNext]_admVars
    PROVE  AdminInv'
<1>1. CASE UNCHANGED admVars
  BY <1>1 DEF admVars, AdminInv, AdminTypes, MfaTypes, Attempted, Challenged, InSession,
              Spending, Opening, SeenIs, ProvenIs, SpentCode, Gone, Enrolled
<1>2. ASSUME NEW r \in Attempts, NEW purpose \in {"begin", "confirm", "disable", "change"},
             CheckAdminPassword(r, purpose)
      PROVE  AdminInv'
  BY <1>2, CheckAdminPasswordKept
<1>3. ASSUME NEW r \in Attempts,
             \/ checkAdminLoginCredentials(r) \/ BeginAdminMFA(r) \/ StartAdminLogin(r)
             \/ RefuseAttempt(r) \/ ChangeAdminPassword(r)
      PROVE  AdminInv'
  BY <1>3, checkAdminLoginCredentialsKept, BeginAdminMFAKept, StartAdminLoginKept,
     RefuseAttemptKept, ChangeAdminPasswordKept
<1>4. ASSUME NEW r \in Attempts, NEW code \in Codes,
             \/ ConfirmAdminMFA(r, code) \/ DisableAdminMFA(r, code)
             \/ verifyAdminMFA(r, code)
             \/ \E c \in challenges : CompleteAdminLogin(r, c, code)
      PROVE  AdminInv'
  BY <1>4, ConfirmAdminMFAKept, DisableAdminMFAKept, verifyAdminMFAKept,
     CompleteAdminLoginKept
<1>5. ASSUME NEW r \in Attempts, NEW watched \in BOOLEAN, issueAdminLogin(r, watched)
      PROVE  AdminInv'
  BY <1>5, issueAdminLoginKept
<1>6. CASE ResetAccountPassword
  BY <1>6, ResetAccountPasswordKept
<1>7. ASSUME NEW status \in {"active", "disabled"}, SetDeveloperStatus(status)
      PROVE  AdminInv'
  BY <1>7, SetDeveloperStatusKept
<1>8. CASE AdmTick
  BY <1>8, AdmTickKept
<1>9. QED
  BY <1>1, <1>2, <1>3, <1>4, <1>5, <1>6, <1>7, <1>8 DEF AdmNext

\* The inductive invariant of the administrator's sessions (service.go, admin_mfa.go).
THEOREM AdminInvariant == AdmSpec => []AdminInv
<1>1. AdmInit => AdminInv
  BY AdminLoginAssumption, AdminStarts
<1>2. AdminInv /\ [AdmNext]_admVars => AdminInv'
  BY AdminLoginAssumption, AdminSteps
<1>3. QED
  BY <1>1, <1>2, PTL DEF AdmSpec

LEMMA AdminInvSound == AdminInv => LoginSound
<1> SUFFICES ASSUME AdminInv PROVE LoginSound
  OBVIOUS
<1>1. SessionProven
  BY DEF AdminInv, InSession, SessionProven, ProvenIs, SeenIs, AuthenticateAdminToken
<1>2. FactorOnce
  BY DEF AdminInv, Spending, Opening, FactorOnce, BagToSet
<1>3. QED
  BY <1>1, <1>2 DEF LoginSound

\* A session that is let in was opened with the present password and the present second
\* factor of an account that has not been disabled since; no code and no challenge lets
\* in twice (session_version, LastStep and RecoveryHashes in internal/service).
THEOREM LoginSoundHolds == AdmSpec => []LoginSound
BY AdminInvariant, AdminInvSound, PTL

-----------------------------------------------------------------------------
(* Recovery: types, and what each request holds *)

CodeRow == [kind : Kinds, credential : Nat, consumed : BOOLEAN, expired : BOOLEAN]
Call == [at : {"found", "locked", "checked", "written", "synced"},
         do : {"issue", "redeem", "reset", "change"}, kind : Kinds, code : 0..MaxCodes]

RecTypes ==
    /\ user = [password |-> user.password, version |-> user.version,
               status |-> user.status]
    /\ user.password \in Nat /\ user.version \in Nat \ {0}
    /\ codes \in [CodeIds -> CodeRow \cup {NoCode}]
    /\ call \in [Callers -> Call \cup {NoCall}]
    /\ locked \in [Kinds -> Callers \cup {Nobodys}]
    /\ redeemed \in [CodeIds -> Nat]

\* Codes are numbered one after the other.
Numbered == \E n \in 0..MaxCodes : Issued = 1..n

RedeemedOnce ==
    \A c \in CodeIds :
      /\ redeemed[c] <= 1
      /\ redeemed[c] = 1 => codes[c] # NoCode /\ codes[c].consumed

\* Rows that a request has locked; only a change of the password begins without one.
Locking ==
    \A t \in Callers :
      /\ call[t].at \in {"locked", "checked", "written", "synced"} =>
           \/ locked[call[t].kind] = t
           \/ call[t].do = "change" /\ call[t].at # "locked"
      /\ call[t].at \in {"written", "synced"} => locked["customer"] = t
      /\ call[t].at = "synced" => locked["agent"] = t

\* Codes of the requests that redeem one, good while their account is locked.
Redeeming ==
    \A t \in Callers :
      call[t] # NoCall /\ call[t].do = "redeem" =>
        /\ call[t].code \in Issued
        /\ codes[call[t].code].kind = call[t].kind
        /\ call[t].at \in {"checked", "written", "synced"} =>
             /\ ~codes[call[t].code].consumed
             /\ codes[call[t].code].credential = user.password

\* A session was opened with the password that its version had.
Visiting ==
    visit # NoVisit =>
      /\ visit.version \in Nat /\ visit.version <= user.version
      /\ visit.version = user.version => visit.password = user.password

RecInv ==
    /\ RecTypes /\ Numbered /\ RedeemedOnce
    /\ Locking /\ Redeeming
    /\ Visiting /\ member = user.password

-----------------------------------------------------------------------------
(* Recovery: lemmas *)

LEMMA CallCases ==
    ASSUME RecTypes, NEW t \in Callers
    PROVE  \/ call[t] = NoCall /\ call[t].at = "none"
           \/ call[t] # NoCall /\ call[t] \in Call
BY DEF RecTypes, NoCall

LEMMA IssuedRows ==
    ASSUME RecTypes
    PROVE  \A c \in CodeIds : c \in Issued <=> codes[c] \in CodeRow
BY DEF RecTypes, Issued, CodeRow, NoCode, Kinds

LEMMA Went ==
    ASSUME RecTypes, NEW t \in Callers, call[t] # NoCall,
           NEW at \in {"found", "locked", "checked", "written", "synced"}, Goes(t, at)
    PROVE  /\ call' \in [Callers -> Call \cup {NoCall}]
           /\ call'[t] # NoCall /\ call'[t].at = at /\ call'[t].do = call[t].do
           /\ call'[t].kind = call[t].kind /\ call'[t].code = call[t].code
           /\ \A q \in Callers \ {t} : call'[q] = call[q]
<1>1. call[t] \in Call
  BY CallCases
<1>2. PICK x : x = [call[t] EXCEPT !.at = at]
  OBVIOUS
<1>3. /\ x \in Call /\ x.at = at /\ x.do = call[t].do
      /\ x.kind = call[t].kind /\ x.code = call[t].code
  BY <1>1, <1>2 DEF Call
<1>4. call' = [call EXCEPT ![t] = x]
  BY <1>2 DEF Goes
<1>5. x # NoCall
  BY <1>3 DEF NoCall
<1>6. QED
  BY <1>3, <1>4, <1>5 DEF RecTypes

LEMMA Started ==
    ASSUME RecTypes, NEW t \in Callers, NEW at \in {"found", "checked"},
           NEW do \in {"issue", "redeem", "reset", "change"}, NEW kind \in Kinds,
           NEW code \in 0..MaxCodes,
           call' = [call EXCEPT ![t] = [at |-> at, do |-> do, kind |-> kind, code |-> code]]
    PROVE  /\ call' \in [Callers -> Call \cup {NoCall}]
           /\ call'[t] # NoCall /\ call'[t].at = at /\ call'[t].do = do
           /\ call'[t].kind = kind /\ call'[t].code = code
           /\ \A q \in Callers \ {t} : call'[q] = call[q]
<1>1. PICK x : x = [at |-> at, do |-> do, kind |-> kind, code |-> code]
  OBVIOUS
<1>2. x \in Call /\ x.at = at /\ x.do = do /\ x.kind = kind /\ x.code = code
  BY <1>1 DEF Call
<1>3. x # NoCall
  BY <1>2 DEF NoCall
<1>4. QED
  BY <1>1, <1>2, <1>3 DEF RecTypes

LEMMA Ended ==
    ASSUME RecoveryAssumption, RecTypes, NEW t \in Callers, Ends(t)
    PROVE  /\ call' \in [Callers -> Call \cup {NoCall}]
           /\ call'[t] = NoCall /\ call'[t].at = "none"
           /\ \A q \in Callers \ {t} : call'[q] = call[q]
           /\ locked' \in [Kinds -> Callers \cup {Nobodys}]
           /\ \A k \in Kinds, q \in Callers \ {t} : locked[k] = q => locked'[k] = q
<1>1. NoCall.at = "none"
  BY DEF NoCall
<1>2. QED
  BY <1>1 DEF Ends, RecTypes

\* A step that only moves requests and locks keeps all that is said of the rows.
LEMMA RowsStay ==
    ASSUME RecInv, UNCHANGED <<user, member, codes, visit, redeemed>>,
           call' \in [Callers -> Call \cup {NoCall}],
           locked' \in [Kinds -> Callers \cup {Nobodys}],
           Locking', Redeeming'
    PROVE  RecInv'
BY DEF RecInv, RecTypes, Numbered, RedeemedOnce, Visiting, Issued

-----------------------------------------------------------------------------
(* Recovery: the steps *)

LEMMA StartKept ==
    ASSUME RecoveryAssumption, RecInv, NEW t \in Callers,
           NEW do \in {"issue", "redeem", "reset"}, NEW kind \in Kinds,
           NEW code \in 0..MaxCodes, Starts(t, do, kind, code),
           do = "redeem" => code \in Issued /\ codes[code].kind = kind,
           UNCHANGED <<user, member, codes, cooling, locked, visit, redeemed>>
    PROVE  RecInv'
<1>1. /\ call' \in [Callers -> Call \cup {NoCall}]
      /\ call'[t] # NoCall /\ call'[t].at = "found" /\ call'[t].do = do
      /\ call'[t].kind = kind /\ call'[t].code = code
      /\ \A q \in Callers \ {t} : call'[q] = call[q]
  BY ZenonT(60), Started DEF RecInv, Starts
<1>2. Locking'
  BY <1>1 DEF RecInv, Locking
<1>3. Redeeming'
  BY <1>1 DEF RecInv, Redeeming, Issued
<1>4. QED
  BY <1>1, <1>2, <1>3, RowsStay DEF RecInv, RecTypes

LEMMA CustomerPasswordKept ==
    ASSUME RecoveryAssumption, RecInv, NEW t \in Callers, CustomerPassword(t)
    PROVE  RecInv'
<1>1. /\ call' \in [Callers -> Call \cup {NoCall}]
      /\ call'[t] # NoCall /\ call'[t].at = "checked" /\ call'[t].do = "change"
      /\ \A q \in Callers \ {t} : call'[q] = call[q]
  <2>1. 0 \in 0..MaxCodes /\ "customer" \in Kinds
    BY DEF RecoveryAssumption, Kinds
  <2>2. call' = [call EXCEPT ![t] = [at |-> "checked", do |-> "change",
                                     kind |-> "customer", code |-> 0]]
    BY DEF CustomerPassword
  <2>3. QED
    BY <2>1, <2>2, Started DEF RecInv
<1>2. UNCHANGED <<user, member, codes, locked, visit, redeemed>>
  BY DEF CustomerPassword
<1>3. Locking'
  BY <1>1, <1>2 DEF RecInv, Locking
<1>4. Redeeming'
  BY <1>1, <1>2 DEF RecInv, Redeeming, Issued
<1>5. QED
  BY <1>1, <1>2, <1>3, <1>4, RowsStay DEF RecInv, RecTypes

LEMMA LockAccountKept ==
    ASSUME RecoveryAssumption, RecInv, NEW t \in Callers, LockAccount(t)
    PROVE  RecInv'
<1> USE DEF RecInv
<1>1. call[t] # NoCall /\ call[t] \in Call /\ call[t].at = "found"
  BY CallCases DEF LockAccount
<1>2. /\ call' \in [Callers -> Call \cup {NoCall}]
      /\ call'[t] # NoCall /\ call'[t].at = "locked" /\ call'[t].do = call[t].do
      /\ call'[t].kind = call[t].kind /\ call'[t].code = call[t].code
      /\ \A q \in Callers \ {t} : call'[q] = call[q]
  BY <1>1, Went DEF LockAccount
<1>3. /\ locked' = [locked EXCEPT ![call[t].kind] = t] /\ call[t].kind \in Kinds
      /\ locked[call[t].kind] \in {t, Nobodys}
  BY <1>1 DEF LockAccount, Lock, Lockable, Call
<1>4. locked' \in [Kinds -> Callers \cup {Nobodys}]
  BY <1>3 DEF RecTypes
<1>5. UNCHANGED <<user, member, codes, visit, redeemed>>
  BY DEF LockAccount
<1>6. Locking'
  BY <1>1, <1>2, <1>3 DEF Locking, RecTypes, RecoveryAssumption, Nobodys, Kinds, Call
<1>7. Redeeming'
  BY <1>1, <1>2, <1>5 DEF Redeeming, Issued
<1>8. QED
  BY <1>2, <1>4, <1>5, <1>6, <1>7, RowsStay

LEMMA CheckResetKept ==
    ASSUME RecoveryAssumption, RecInv, NEW t \in Callers, CheckReset(t)
    PROVE  RecInv'
<1> USE DEF RecInv
<1>1. call[t] # NoCall /\ call[t] \in Call /\ call[t].at = "locked"
  BY CallCases DEF CheckReset
<1>2. /\ call' \in [Callers -> Call \cup {NoCall}]
      /\ call'[t] # NoCall /\ call'[t].at = "checked" /\ call'[t].do = call[t].do
      /\ call'[t].kind = call[t].kind /\ call'[t].code = call[t].code
      /\ \A q \in Callers \ {t} : call'[q] = call[q]
  BY <1>1, Went DEF CheckReset
<1>3. UNCHANGED <<user, member, codes, locked, visit, redeemed>>
  BY DEF CheckReset
<1>4. Locking'
  BY <1>1, <1>2, <1>3 DEF Locking
<1>5. Redeeming'
  BY <1>1, <1>2, <1>3 DEF Redeeming, Issued, CheckReset, Redeemable
<1>6. QED
  BY <1>2, <1>3, <1>4, <1>5, RowsStay DEF RecTypes

LEMMA WriteUserKept ==
    ASSUME RecoveryAssumption, RecInv, NEW t \in Callers, WriteUser(t)
    PROVE  RecInv'
<1> USE DEF RecInv
<1>1. call[t] # NoCall /\ call[t] \in Call /\ call[t].at = "checked"
  BY CallCases DEF WriteUser
<1>2. /\ call' \in [Callers -> Call \cup {NoCall}]
      /\ call'[t] # NoCall /\ call'[t].at = "written" /\ call'[t].do = call[t].do
      /\ call'[t].kind = call[t].kind /\ call'[t].code = call[t].code
      /\ \A q \in Callers \ {t} : call'[q] = call[q]
  BY <1>1, Went DEF WriteUser
<1>3. /\ locked' = [locked EXCEPT !["customer"] = t] /\ "customer" \in Kinds
      /\ locked["customer"] \in {t, Nobodys}
  BY DEF WriteUser, Lock, Lockable, Kinds
<1>4. locked' \in [Kinds -> Callers \cup {Nobodys}]
  BY <1>3 DEF RecTypes
<1>5. UNCHANGED <<user, member, codes, visit, redeemed>>
  BY DEF WriteUser
<1>6. Locking'
  BY <1>1, <1>2, <1>3 DEF Locking, RecTypes, RecoveryAssumption, Nobodys, Kinds, Call
<1>7. Redeeming'
  BY <1>1, <1>2, <1>5 DEF Redeeming, Issued
<1>8. QED
  BY <1>2, <1>4, <1>5, <1>6, <1>7, RowsStay

LEMMA syncAgentIdentityPasswordKept ==
    ASSUME RecoveryAssumption, RecInv, NEW t \in Callers, syncAgentIdentityPassword(t)
    PROVE  RecInv'
<1> USE DEF RecInv
<1>1. call[t] # NoCall /\ call[t] \in Call /\ call[t].at = "written"
  BY CallCases DEF syncAgentIdentityPassword
<1>2. /\ call' \in [Callers -> Call \cup {NoCall}]
      /\ call'[t] # NoCall /\ call'[t].at = "synced" /\ call'[t].do = call[t].do
      /\ call'[t].kind = call[t].kind /\ call'[t].code = call[t].code
      /\ \A q \in Callers \ {t} : call'[q] = call[q]
  BY <1>1, Went DEF syncAgentIdentityPassword
<1>3. /\ locked' = [locked EXCEPT !["agent"] = t] /\ "agent" \in Kinds
      /\ locked["agent"] \in {t, Nobodys}
  BY DEF syncAgentIdentityPassword, Lock, Lockable, Kinds
<1>4. locked' \in [Kinds -> Callers \cup {Nobodys}]
  BY <1>3 DEF RecTypes
<1>5. UNCHANGED <<user, member, codes, visit, redeemed>>
  BY DEF syncAgentIdentityPassword
<1>6. Locking'
  BY <1>1, <1>2, <1>3 DEF Locking, RecTypes, RecoveryAssumption, Nobodys, Kinds, Call
<1>7. Redeeming'
  BY <1>1, <1>2, <1>5 DEF Redeeming, Issued
<1>8. QED
  BY <1>2, <1>4, <1>5, <1>6, <1>7, RowsStay

LEMMA RollbackCallKept ==
    ASSUME RecoveryAssumption, RecInv, NEW t \in Callers, RollbackCall(t)
    PROVE  RecInv'
<1> USE DEF RecInv
<1>1. Ends(t) /\ UNCHANGED <<user, member, codes, visit, redeemed>>
  BY DEF RollbackCall
<1>2. /\ call' \in [Callers -> Call \cup {NoCall}]
      /\ call'[t] = NoCall /\ call'[t].at = "none"
      /\ \A q \in Callers \ {t} : call'[q] = call[q]
      /\ locked' \in [Kinds -> Callers \cup {Nobodys}]
      /\ \A k \in Kinds, q \in Callers \ {t} : locked[k] = q => locked'[k] = q
  BY <1>1, Ended
<1>3. Locking'
  BY <1>2, CallCases DEF Locking, Call, Kinds
<1>4. Redeeming'
  BY <1>1, <1>2 DEF Redeeming, Issued
<1>5. QED
  BY <1>1, <1>2, <1>3, <1>4, RowsStay

\* The number of a new code is the next one.
LEMMA FreshIsNext ==
    ASSUME RecoveryAssumption, RecInv, FreshCode \in CodeIds
    PROVE  /\ FreshCode \notin Issued
           /\ Issued \cup {FreshCode} = 1..FreshCode
<1>1. PICK n \in 0..MaxCodes : Issued = 1..n
  BY DEF RecInv, Numbered
<1>2. n \in Nat /\ MaxCodes \in Nat
  BY <1>1 DEF RecoveryAssumption
<1>3. Cardinality(Issued) = n
  <2>1. Cardinality(1..n) = IF 1 > n THEN 0 ELSE n - 1 + 1
    BY <1>2, FS_Interval
  <2>2. QED
    BY <1>1, <1>2, <2>1
<1>4. FreshCode = n + 1
  BY <1>3 DEF FreshCode
<1>5. QED
  BY <1>1, <1>2, <1>4

LEMMA CreatePasswordResetKept ==
    ASSUME RecoveryAssumption, RecInv, NEW t \in Callers, CreatePasswordReset(t)
    PROVE  RecInv'
<1> USE DEF RecInv
<1>1. PICK f : f = FreshCode
  OBVIOUS
<1>2. f \in CodeIds /\ f \notin Issued /\ Issued \cup {f} = 1..f /\ codes[f] = NoCode
  BY <1>1, FreshIsNext DEF CreatePasswordReset, Issued
<1>3. PICK kind \in Kinds : kind = call[t].kind /\ locked[kind] = t
  <2>1. call[t] \in Call /\ call[t].do = "issue" /\ call[t].at = "locked"
    BY CallCases DEF CreatePasswordReset
  <2>2. QED
    BY <2>1 DEF Locking, Call
<1>4. /\ codes' = [c \in CodeIds |->
                     IF c = f
                     THEN [kind |-> kind, credential |-> user.password,
                           consumed |-> FALSE, expired |-> FALSE]
                     ELSE IF codes[c].kind = kind
                          THEN [codes[c] EXCEPT !.consumed = TRUE] ELSE codes[c]]
      /\ Ends(t) /\ UNCHANGED <<user, member, visit, redeemed>>
  BY <1>1, <1>3 DEF CreatePasswordReset
<1>5. /\ call' \in [Callers -> Call \cup {NoCall}]
      /\ call'[t] = NoCall /\ call'[t].at = "none"
      /\ \A q \in Callers \ {t} : call'[q] = call[q]
      /\ locked' \in [Kinds -> Callers \cup {Nobodys}]
      /\ \A k \in Kinds, q \in Callers \ {t} : locked[k] = q => locked'[k] = q
  BY <1>4, Ended
<1>6. /\ codes'[f] \in CodeRow /\ codes'[f].kind = kind /\ ~codes'[f].consumed
      /\ \A c \in CodeIds \ {f} :
           \/ codes'[c] = codes[c]
           \/ /\ codes[c] \in CodeRow /\ codes[c].kind = kind
              /\ codes'[c] \in CodeRow /\ codes'[c].kind = kind /\ codes'[c].consumed
  <2>1. codes'[f] = [kind |-> kind, credential |-> user.password,
                     consumed |-> FALSE, expired |-> FALSE]
    BY <1>2, <1>4
  <2>2. codes'[f] \in CodeRow /\ codes'[f].kind = kind /\ ~codes'[f].consumed
    BY <2>1 DEF CodeRow, RecTypes
  <2>3. ASSUME NEW c \in CodeIds \ {f}
        PROVE  \/ codes'[c] = codes[c]
               \/ /\ codes[c] \in CodeRow /\ codes[c].kind = kind
                  /\ codes'[c] \in CodeRow /\ codes'[c].kind = kind /\ codes'[c].consumed
    <3>1. CASE codes[c].kind = kind
      <4>1. codes[c] \in CodeRow
        BY <3>1 DEF RecTypes, NoCode, Kinds
      <4>2. codes'[c] = [codes[c] EXCEPT !.consumed = TRUE]
        BY <1>4, <3>1
      <4>3. QED
        BY <3>1, <4>1, <4>2 DEF CodeRow
    <3>2. CASE codes[c].kind # kind
      BY <1>4, <3>2
    <3>3. QED
      BY <3>1, <3>2
  <2>4. QED
    BY <2>2, <2>3
<1>7. codes' \in [CodeIds -> CodeRow \cup {NoCode}]
  BY <1>4, <1>6 DEF RecTypes
<1>8. Issued' = Issued \cup {f}
  <2>1. \A c \in CodeRow : c # NoCode
    BY DEF CodeRow, NoCode, Kinds
  <2>2. QED
    BY <1>2, <1>6, <2>1 DEF Issued
<1>9. Numbered'
  BY <1>2, <1>8 DEF Numbered, CodeIds, RecoveryAssumption
<1>10. RedeemedOnce'
  BY <1>2, <1>4, <1>6 DEF RedeemedOnce, CodeRow, NoCode, Kinds
<1>11. Locking'
  BY <1>5, CallCases DEF Locking, Call, Kinds
<1>12. Redeeming'
  <2> SUFFICES ASSUME NEW q \in Callers, call'[q] # NoCall, call'[q].do = "redeem"
               PROVE  /\ call'[q].code \in Issued'
                      /\ codes'[call'[q].code].kind = call'[q].kind
                      /\ call'[q].at \in {"checked", "written", "synced"} =>
                           /\ ~codes'[call'[q].code].consumed
                           /\ codes'[call'[q].code].credential = user'.password
    BY DEF Redeeming
  <2>1. q # t /\ call'[q] = call[q] /\ call[q] \in Call
    BY <1>5, CallCases
  <2>2. PICK c \in Issued : c = call[q].code /\ codes[c].kind = call[q].kind
    BY <2>1 DEF Redeeming
  <2>3. c \in CodeIds \ {f} /\ c \in Issued'
    BY <1>2, <1>8, <2>2 DEF Issued
  <2>4. codes'[c].kind = call[q].kind
    BY <1>6, <2>2, <2>3
  <2>5. ASSUME call[q].at \in {"checked", "written", "synced"}
        PROVE  codes'[c] = codes[c]
    <3>1. locked[call[q].kind] = q
      BY <2>1, <2>5 DEF Locking
    <3>2. QED
      BY <1>3, <1>6, <2>1, <2>2, <2>3, <3>1
  <2>6. ASSUME call[q].at \in {"checked", "written", "synced"}
        PROVE  ~codes'[c].consumed /\ codes'[c].credential = user'.password
    <3>1. ~codes[c].consumed /\ codes[c].credential = user.password
      BY <2>1, <2>2, <2>6 DEF Redeeming
    <3>2. QED
      BY <1>4, <2>5, <2>6, <3>1
  <2>7. QED
    BY <2>1, <2>2, <2>3, <2>4, <2>6
<1>13. QED
  BY <1>4, <1>5, <1>7, <1>9, <1>10, <1>11, <1>12 DEF RecTypes, Visiting

LEMMA CommitPasswordKept ==
    ASSUME RecoveryAssumption, RecInv, NEW t \in Callers, CommitPassword(t)
    PROVE  RecInv'
<1> USE DEF RecInv
<1>1. /\ call[t] # NoCall /\ call[t] \in Call /\ call[t].at = "synced"
      /\ locked["customer"] = t /\ locked["agent"] = t
  BY CallCases DEF CommitPassword, Locking
<1>2. PICK c : c = call[t].code
  OBVIOUS
<1>3. /\ Ends(t) /\ UNCHANGED visit
      /\ user' = [user EXCEPT !.password = @ + 1, !.version = @ + 1]
      /\ member' = user.password + 1
  BY DEF CommitPassword
<1>4. /\ call' \in [Callers -> Call \cup {NoCall}]
      /\ call'[t] = NoCall /\ call'[t].at = "none"
      /\ \A q \in Callers \ {t} : call'[q] = call[q]
      /\ locked' \in [Kinds -> Callers \cup {Nobodys}]
      /\ \A k \in Kinds, q \in Callers \ {t} : locked[k] = q => locked'[k] = q
  BY <1>3, Ended
<1>5. /\ user' = [password |-> user.password + 1, version |-> user.version + 1,
                  status |-> user.status]
      /\ user.password \in Nat /\ user.version \in Nat \ {0}
  <2>1. user = [password |-> user.password, version |-> user.version,
                status |-> user.status]
    BY DEF RecTypes
  <2>2. QED
    BY <1>3, <2>1 DEF RecTypes
<1>6. /\ codes' \in [CodeIds -> CodeRow \cup {NoCode}] /\ redeemed' \in [CodeIds -> Nat]
      /\ Issued' = Issued /\ RedeemedOnce'
      /\ \A i \in Issued : codes'[i].kind = codes[i].kind
  <2>1. CASE call[t].do = "redeem"
    <3>1. /\ codes' = [codes EXCEPT ![c].consumed = TRUE]
          /\ redeemed' = [redeemed EXCEPT ![c] = @ + 1]
      BY <1>2, <2>1 DEF CommitPassword
    <3>2. c \in Issued /\ codes[c] \in CodeRow /\ ~codes[c].consumed
      BY <1>1, <1>2, <2>1, IssuedRows DEF Redeeming, Issued
    <3>3. c \in CodeIds /\ redeemed[c] = 0
      BY <3>2 DEF RedeemedOnce, RecTypes, Issued
    <3>4. PICK x : x = [codes[c] EXCEPT !.consumed = TRUE]
      OBVIOUS
    <3>5. x \in CodeRow /\ x.consumed /\ x.kind = codes[c].kind /\ x # NoCode
      BY <3>2, <3>4 DEF CodeRow, NoCode, Kinds
    <3>6. codes' = [codes EXCEPT ![c] = x]
      BY <3>1, <3>4
    <3>7. /\ codes' \in [CodeIds -> CodeRow \cup {NoCode}] /\ Issued' = Issued
          /\ \A i \in Issued : codes'[i].kind = codes[i].kind
      BY <3>2, <3>3, <3>5, <3>6 DEF RecTypes, Issued
    <3>8. /\ redeemed' \in [CodeIds -> Nat] /\ redeemed'[c] = 1
          /\ \A i \in CodeIds \ {c} : redeemed'[i] = redeemed[i] /\ codes'[i] = codes[i]
          /\ codes'[c] = x
      BY <3>1, <3>3, <3>6 DEF RecTypes
    <3>9. RedeemedOnce'
      BY <3>5, <3>8 DEF RedeemedOnce
    <3>10. QED
      BY <3>7, <3>8, <3>9
  <2>2. CASE call[t].do # "redeem"
    BY <2>2 DEF CommitPassword, RecTypes, Issued, RedeemedOnce
  <2>3. QED
    BY <2>1, <2>2
<1>7. RecTypes' /\ Numbered' /\ member' = user'.password
  <2>1. /\ user'.password = user.password + 1 /\ user'.version = user.version + 1
        /\ user'.status = user.status
    BY <1>5
  <2>2. RecTypes'
    BY <1>4, <1>5, <1>6, <2>1 DEF RecTypes
  <2>3. QED
    BY <1>3, <1>6, <2>1, <2>2 DEF Numbered
<1>8. Locking'
  BY <1>4, CallCases DEF Locking, Call, Kinds
<1>9. Redeeming'
  <2> SUFFICES ASSUME NEW q \in Callers, call'[q] # NoCall, call'[q].do = "redeem"
               PROVE  /\ call'[q].code \in Issued'
                      /\ codes'[call'[q].code].kind = call'[q].kind
                      /\ call'[q].at \notin {"checked", "written", "synced"}
    BY DEF Redeeming
  <2>1. q # t /\ call'[q] = call[q] /\ call[q] \in Call
    BY <1>4, CallCases
  <2>2. call[q].at \notin {"checked", "written", "synced"}
    BY <1>1, <2>1 DEF Locking, Call, Kinds
  <2>3. QED
    BY <1>6, <2>1, <2>2 DEF Redeeming
<1>10. Visiting'
  BY <1>3, <1>5 DEF Visiting
<1>11. QED
  BY <1>6, <1>7, <1>8, <1>9, <1>10

LEMMA OtherRecKept ==
    ASSUME RecoveryAssumption, RecInv,
           \/ CustomerLogin
           \/ \E status \in {"active", "disabled"} : SetCustomerStatus(status)
           \/ MinutePasses
           \/ UNCHANGED recVars
    PROVE  RecInv'
<1> USE DEF RecInv
<1>1. /\ user'.password = user.password /\ user'.version \in Nat \ {0}
      /\ user' = [password |-> user'.password, version |-> user'.version,
                  status |-> user'.status]
      /\ UNCHANGED <<codes, call, locked, redeemed, member>>
      /\ Visiting'
  <2>1. CASE CustomerLogin
    BY <2>1 DEF CustomerLogin, RecTypes, Visiting
  <2>2. ASSUME NEW status \in {"active", "disabled"}, SetCustomerStatus(status)
        PROVE  /\ user'.password = user.password /\ user'.version \in Nat \ {0}
               /\ user' = [password |-> user'.password, version |-> user'.version,
                           status |-> user'.status]
               /\ UNCHANGED <<codes, call, locked, redeemed, member>>
               /\ Visiting'
    <3>1. user' = [user EXCEPT !.status = status, !.version = @ + 1]
      BY <2>2 DEF SetCustomerStatus
    <3>2. /\ user = [password |-> user.password, version |-> user.version,
                     status |-> user.status]
          /\ user.version \in Nat \ {0}
      BY DEF RecTypes
    <3>3. user' = [password |-> user.password, version |-> user.version + 1,
                   status |-> status]
      BY <3>1, <3>2
    <3>4. /\ user'.password = user.password /\ user'.version = user.version + 1
          /\ user'.status = status
      BY <3>3
    <3>5. UNCHANGED <<codes, call, locked, redeemed, member, visit>>
      BY <2>2 DEF SetCustomerStatus
    <3>6. QED
      BY <3>2, <3>3, <3>4, <3>5 DEF Visiting
  <2>3. CASE MinutePasses \/ UNCHANGED recVars
    BY <2>3 DEF MinutePasses, recVars, RecTypes, Visiting
  <2>4. QED
    BY <2>1, <2>2, <2>3
<1>2. QED
  BY <1>1 DEF RecTypes, Numbered, Issued, RedeemedOnce, Locking, Redeeming

LEMMA CodeExpiresKept ==
    ASSUME RecoveryAssumption, RecInv, NEW c \in CodeIds, CodeExpires(c)
    PROVE  RecInv'
<1> USE DEF RecInv
<1>1. PICK x : x = [codes[c] EXCEPT !.expired = TRUE]
  OBVIOUS
<1>2. codes[c] \in CodeRow
  BY IssuedRows DEF CodeExpires
<1>3. /\ x \in CodeRow /\ x.kind = codes[c].kind /\ x.consumed = codes[c].consumed
      /\ x.credential = codes[c].credential /\ x # NoCode /\ codes[c] # NoCode
  <2>1. /\ x \in CodeRow /\ x.kind = codes[c].kind /\ x.consumed = codes[c].consumed
        /\ x.credential = codes[c].credential
    BY <1>1, <1>2 DEF CodeRow
  <2>2. \A y \in CodeRow : y # NoCode
    BY DEF CodeRow, NoCode, Kinds
  <2>3. QED
    BY <1>2, <2>1, <2>2
<1>4. codes' = [codes EXCEPT ![c] = x]
  BY <1>1 DEF CodeExpires
<1>5. codes' \in [CodeIds -> CodeRow \cup {NoCode}] /\ Issued' = Issued
  BY <1>3, <1>4 DEF RecTypes, Issued
<1>6. \A i \in CodeIds : /\ codes'[i].kind = codes[i].kind
                         /\ codes'[i].consumed = codes[i].consumed
                         /\ codes'[i].credential = codes[i].credential
                         /\ codes'[i] = NoCode <=> codes[i] = NoCode
  BY <1>3, <1>4 DEF RecTypes
<1>7. UNCHANGED <<user, member, call, locked, visit, redeemed>>
  BY DEF CodeExpires
<1>8. RedeemedOnce' /\ Redeeming'
  BY <1>5, <1>6, <1>7 DEF RedeemedOnce, Redeeming, Issued
<1>9. QED
  BY <1>5, <1>7, <1>8 DEF RecTypes, Numbered, Locking, Visiting

-----------------------------------------------------------------------------
(* Recovery: the theorem *)

LEMMA RecStarts == RecoveryAssumption /\ RecInit => RecInv
<1> SUFFICES ASSUME RecoveryAssumption, RecInit PROVE RecInv
  OBVIOUS
<1>1. RecTypes
  BY DEF RecInit, RecTypes
<1>2. Issued = {}
  BY DEF RecInit, Issued
<1>3. Numbered
  BY <1>2 DEF Numbered, RecoveryAssumption
<1>4. RedeemedOnce /\ Locking /\ Redeeming /\ Visiting
  BY DEF RecInit, RedeemedOnce, Locking, Redeeming, Visiting, NoCall
<1>5. QED
  BY <1>1, <1>3, <1>4 DEF RecInv, RecInit

LEMMA RecSteps ==
    ASSUME RecoveryAssumption, RecInv, [RecNext]_recVars
    PROVE  RecInv'
<1>1. ASSUME NEW t \in Callers, NEW k \in Kinds, NEW self \in BOOLEAN,
             RequestRecovery(t, k, self) \/ BeginReset(t, k)
      PROVE  RecInv'
  BY <1>1, StartKept DEF RequestRecovery, BeginReset, RecoveryAssumption
<1>2. ASSUME NEW t \in Callers, NEW c \in CodeIds, FindReset(t, c)
      PROVE  RecInv'
  <2>1. c \in Issued /\ c \in 0..MaxCodes /\ codes[c].kind \in Kinds
    BY <1>2, IssuedRows DEF FindReset, RecInv, CodeIds, CodeRow, RecoveryAssumption
  <2>2. QED
    BY <1>2, <2>1, StartKept DEF FindReset
<1>3. ASSUME NEW t \in Callers,
             \/ CustomerPassword(t) \/ LockAccount(t) \/ CreatePasswordReset(t)
             \/ CheckReset(t) \/ WriteUser(t) \/ syncAgentIdentityPassword(t)
             \/ CommitPassword(t) \/ RollbackCall(t)
      PROVE  RecInv'
  BY <1>3, CustomerPasswordKept, LockAccountKept, CreatePasswordResetKept,
     CheckResetKept, WriteUserKept, syncAgentIdentityPasswordKept,
     CommitPasswordKept, RollbackCallKept
<1>4. ASSUME NEW c \in CodeIds, CodeExpires(c)
      PROVE  RecInv'
  BY <1>4, CodeExpiresKept
<1>5. CASE \/ CustomerLogin \/ MinutePasses \/ UNCHANGED recVars
           \/ \E status \in {"active", "disabled"} : SetCustomerStatus(status)
  BY <1>5, OtherRecKept
<1>6. QED
  BY <1>1, <1>2, <1>3, <1>4, <1>5 DEF RecNext

\* The inductive invariant of a person's password (account_reset.go, agent_identity.go).
THEOREM RecoveryInvariant == RecSpec => []RecInv
<1>1. RecInit => RecInv
  BY RecoveryAssumption, RecStarts
<1>2. RecInv /\ [RecNext]_recVars => RecInv'
  BY RecoveryAssumption, RecSteps
<1>3. QED
  BY <1>1, <1>2, PTL DEF RecSpec

LEMMA RecInvSound == RecInv => RecoverySound
BY DEF RecInv, RedeemedOnce, Redeeming, Visiting, RecoverySound, AuthenticateCustomer,
       Issued, NoCall

\* A recovery code replaces only the password it was issued for and does so once; the
\* rows of the person and of the member agree, and a session ends with its password,
\* although the writers lock the two rows in different orders.
THEOREM RecoverySoundHolds == RecSpec => []RecoverySound
BY RecoveryInvariant, RecInvSound, PTL

-----------------------------------------------------------------------------
(* Captchas *)

\* An image that let a request pass is marked, and stays so when it is deleted.
CapInv ==
    /\ images \in [Images -> Image]
    /\ passed \in [Images -> {0, 1}]
    /\ \A i \in Images : passed[i] = 1 => images[i].used

LEMMA CapSteps ==
    ASSUME CapInv, [CapNext]_capVars
    PROVE  CapInv'
<1> USE DEF CapInv
<1>1. ASSUME NEW i \in Images, NewCaptcha(i)
      PROVE  CapInv'
  <2>1. ASSUME NEW k \in Images
        PROVE  /\ images'[k] \in Image
               /\ k # i => images'[k].used = images[k].used
    <3>1. CASE k = i
      <4>1. images'[k] = [exists |-> TRUE, used |-> FALSE, age |-> 0]
        BY <1>1, <3>1 DEF NewCaptcha
      <4>2. QED
        BY <3>1, <4>1 DEF Image
    <3>2. CASE k # i
      <4>1. \/ images'[k] = [images[k] EXCEPT !.exists = FALSE]
            \/ images'[k] = images[k]
        BY <1>1, <3>2 DEF NewCaptcha
      <4>2. QED
        BY ZenonT(60), <4>1 DEF Image
    <3>3. QED
      BY <3>1, <3>2
  <2>2. images' \in [Images -> Image]
    <3>1. images' = [k \in Images |-> images'[k]]
      BY <1>1 DEF NewCaptcha
    <3>2. QED
      BY <2>1, <3>1
  <2>3. QED
    BY <1>1, <2>1, <2>2 DEF NewCaptcha
<1>2. ASSUME NEW i \in Images, ImageAges(i)
      PROVE  CapInv'
  BY <1>2 DEF ImageAges, Image
<1>3. ASSUME NEW i \in Images, NEW right \in BOOLEAN, ConsumeCaptchaChallenge(i, right)
      PROVE  CapInv'
  <2>1. CASE right /\ Consumable(i)
    <3>1. ~images[i].used /\ passed[i] = 0
      BY <2>1 DEF Consumable, Image
    <3>2. PICK x : x = [images[i] EXCEPT !.used = TRUE]
      OBVIOUS
    <3>3. x \in Image /\ x.used
      BY <3>2 DEF Image
    <3>4. images' = [images EXCEPT ![i] = x] /\ passed' = [passed EXCEPT ![i] = @ + 1]
      BY <1>3, <2>1, <3>2 DEF ConsumeCaptchaChallenge
    <3>5. QED
      BY <3>1, <3>3, <3>4
  <2>2. CASE ~(right /\ Consumable(i))
    BY <1>3, <2>2 DEF ConsumeCaptchaChallenge
  <2>3. QED
    BY <2>1, <2>2
<1>4. ASSUME NEW on \in BOOLEAN, UpdateCaptchaSettings(on)
      PROVE  CapInv'
  BY <1>4 DEF UpdateCaptchaSettings
<1>5. CASE UNCHANGED capVars
  BY <1>5 DEF capVars
<1>6. QED
  BY <1>1, <1>2, <1>3, <1>4, <1>5 DEF CapNext

\* An image lets one request pass at most, also while used images are deleted and others
\* answered (ConsumeCaptchaChallenge, NewCaptcha's clean-up).
THEOREM CaptchaOnceHolds == CapSpec => []CaptchaOnce
<1>1. CapInit => CapInv
  BY DEF CapInit, CapInv, NoImage, Image
<1>2. CapInv /\ [CapNext]_capVars => CapInv'
  BY CapSteps
<1>3. CapInv => CaptchaOnce
  BY DEF CapInv, CaptchaOnce
<1>4. QED
  BY <1>1, <1>2, <1>3, PTL DEF CapSpec

-----------------------------------------------------------------------------
(* The client *)

\* The fields of a process.
Fields ==
    proc = [p \in Processes |->
              [pc |-> proc[p].pc, command |-> proc[p].command, id |-> proc[p].id,
               session |-> proc[p].session, seat |-> proc[p].seat]]

OneIdentity == \A p \in Processes : proc[p].id \in {NoOne, identity}

\* Who has been told that it may write, or will be when it asks, has had the right.
RightHeld ==
    \A p \in Processes :
      /\ Is(p, "authorize") /\ entitled => p \in held
      /\ Is(p, "write") \/ Is(p, "writing") => p \in held

ClientInv ==
    /\ Fields /\ OneIdentity /\ RightHeld
    /\ foreign = {}
    /\ package.by # NoOne => package.by \in held

\* Process p has come to pc, under identity i.
Came(p, pc, i) ==
    /\ Fields'
    /\ \A q \in Processes \ {p} : proc'[q] = proc[q]
    /\ proc'[p].pc = pc /\ proc'[p].id = i

LEMMA Rewritten ==
    ASSUME Fields, NEW p \in Processes, NEW v, NEW a, NEW b, NEW c, NEW d, NEW e,
           v = [pc |-> a, command |-> b, id |-> c, session |-> d, seat |-> e],
           proc' = [proc EXCEPT ![p] = v]
    PROVE  Came(p, a, c)
<1>1. /\ v.pc = a /\ v.id = c
      /\ v = [pc |-> v.pc, command |-> v.command, id |-> v.id, session |-> v.session,
              seat |-> v.seat]
  OBVIOUS
<1>2. \A q \in Processes : proc'[q] = IF q = p THEN v ELSE proc[q]
  BY DEF Fields
<1>3. proc' = [q \in Processes |-> proc'[q]]
  BY DEF Fields
<1>4. Fields'
  BY ZenonT(60), <1>1, <1>2, <1>3 DEF Fields
<1>5. QED
  BY <1>1, <1>2, <1>4 DEF Came

LEMMA ProcRow ==
    ASSUME Fields, NEW p \in Processes
    PROVE  /\ proc = [q \in Processes |-> proc[q]]
           /\ \E u, a, b, c, d, e :
                /\ u = proc[p]
                /\ u = [pc |-> a, command |-> b, id |-> c, session |-> d, seat |-> e]
<1>1. proc[p] = [pc |-> proc[p].pc, command |-> proc[p].command, id |-> proc[p].id,
                 session |-> proc[p].session, seat |-> proc[p].seat]
  BY DEF Fields
<1>2. \E u, a, b, c, d, e :
        /\ u = proc[p]
        /\ u = [pc |-> a, command |-> b, id |-> c, session |-> d, seat |-> e]
  BY <1>1
<1>3. proc = [q \in Processes |-> proc[q]]
  BY DEF Fields
<1>4. QED
  BY <1>2, <1>3

LEMMA Went1 ==
    ASSUME Fields, NEW p \in Processes, NEW x,
           proc' = [proc EXCEPT ![p].pc = x]
    PROVE  Came(p, x, proc[p].id)
<1>1. PICK u, a, b, c, d, e :
        /\ u = proc[p]
        /\ u = [pc |-> a, command |-> b, id |-> c, session |-> d, seat |-> e]
  BY ProcRow
<1>2. PICK v : v = [u EXCEPT !.pc = x]
  OBVIOUS
<1>3. v = [pc |-> x, command |-> b, id |-> c, session |-> d, seat |-> e]
  BY <1>1, <1>2
<1>4. proc' = [proc EXCEPT ![p] = v]
  BY <1>1, <1>2, ProcRow
<1>5. Came(p, x, c)
  BY <1>3, <1>4, Rewritten
<1>6. c = proc[p].id
  BY <1>1
<1>7. QED
  BY <1>5, <1>6

LEMMA Went2 ==
    ASSUME Fields, NEW p \in Processes, NEW x, NEW y,
           proc' = [proc EXCEPT ![p].pc = x, ![p].seat = y]
    PROVE  Came(p, x, proc[p].id)
<1>1. PICK u, a, b, c, d, e :
        /\ u = proc[p]
        /\ u = [pc |-> a, command |-> b, id |-> c, session |-> d, seat |-> e]
  BY ProcRow
<1>2. PICK v0 : v0 = [u EXCEPT !.pc = x]
  OBVIOUS
<1>3. v0 = [pc |-> x, command |-> b, id |-> c, session |-> d, seat |-> e]
  BY <1>1, <1>2
<1>4. PICK v : v = [v0 EXCEPT !.seat = y]
  OBVIOUS
<1>5. v = [pc |-> x, command |-> b, id |-> c, session |-> d, seat |-> y]
  BY <1>3, <1>4
<1>6. proc' = [proc EXCEPT ![p] = v]
  BY <1>1, <1>2, <1>4, ProcRow
<1>7. Came(p, x, c)
  BY <1>5, <1>6, Rewritten
<1>8. c = proc[p].id
  BY <1>1
<1>9. QED
  BY <1>7, <1>8

LEMMA Went3 ==
    ASSUME Fields, NEW p \in Processes, NEW x, NEW y, NEW z,
           proc' = [proc EXCEPT ![p].pc = x, ![p].seat = y, ![p].session = z]
    PROVE  Came(p, x, proc[p].id)
<1>1. PICK u, a, b, c, d, e :
        /\ u = proc[p]
        /\ u = [pc |-> a, command |-> b, id |-> c, session |-> d, seat |-> e]
  BY ProcRow
<1>2. PICK v0 : v0 = [u EXCEPT !.pc = x]
  OBVIOUS
<1>3. v0 = [pc |-> x, command |-> b, id |-> c, session |-> d, seat |-> e]
  BY <1>1, <1>2
<1>4. PICK v1 : v1 = [v0 EXCEPT !.seat = y]
  OBVIOUS
<1>5. v1 = [pc |-> x, command |-> b, id |-> c, session |-> d, seat |-> y]
  BY <1>3, <1>4
<1>6. PICK v : v = [v1 EXCEPT !.session = z]
  OBVIOUS
<1>7. v = [pc |-> x, command |-> b, id |-> c, session |-> z, seat |-> y]
  BY <1>5, <1>6
<1>8. proc' = [proc EXCEPT ![p] = v]
  BY <1>1, <1>2, <1>4, <1>6, ProcRow
<1>9. Came(p, x, c)
  BY <1>7, <1>8, Rewritten
<1>10. c = proc[p].id
  BY <1>1
<1>11. QED
  BY <1>9, <1>10

LEMMA WentId ==
    ASSUME Fields, NEW p \in Processes, NEW x, NEW y,
           proc' = [proc EXCEPT ![p].pc = x, ![p].id = y]
    PROVE  Came(p, x, y)
<1>1. PICK u, a, b, c, d, e :
        /\ u = proc[p]
        /\ u = [pc |-> a, command |-> b, id |-> c, session |-> d, seat |-> e]
  BY ProcRow
<1>2. PICK v0 : v0 = [u EXCEPT !.pc = x]
  OBVIOUS
<1>3. v0 = [pc |-> x, command |-> b, id |-> c, session |-> d, seat |-> e]
  BY <1>1, <1>2
<1>4. PICK v : v = [v0 EXCEPT !.id = y]
  OBVIOUS
<1>5. v = [pc |-> x, command |-> b, id |-> y, session |-> d, seat |-> e]
  BY <1>3, <1>4
<1>6. proc' = [proc EXCEPT ![p] = v]
  BY <1>1, <1>2, <1>4, ProcRow
<1>7. Came(p, x, y)
  BY <1>5, <1>6, Rewritten
<1>8. QED
  BY <1>7

\* What most steps do: a process goes elsewhere, under the same identity.
LEMMA ElsewhereKept ==
    ASSUME ClientInv, NEW p \in Processes, NEW pc, Came(p, pc, proc[p].id),
           pc \notin {"authorize", "write", "writing"},
           UNCHANGED <<identity, package, entitled, held, foreign>>
    PROVE  ClientInv'
BY DEF ClientInv, Came, OneIdentity, RightHeld, Is

\* A release ends leases of the process's own session.
LEMMA OwnReleased ==
    ASSUME NEW p \in Processes, foreign = {}, ReleaseCall(p)
    PROVE  foreign' = {}
BY DEF ReleaseCall, Released, LeaseOf

LEMMA ClientSteps ==
    ASSUME ClientInv, [ClientNext]_clientVars
    PROVE  ClientInv'
<1>0. Fields
  BY DEF ClientInv
<1>1. ASSUME NEW p \in Processes, NEW c \in Commands, OpenInstallation(p, c)
      PROVE  ClientInv'
  <2>1. PICK pc \in {"publish", "load"} :
          proc' = [proc EXCEPT ![p] = [Idle EXCEPT !.pc = pc, !.command = c,
                                                   !.id = identity]]
    BY <1>1 DEF OpenInstallation
  <2>2. PICK u : u = [Idle EXCEPT !.pc = pc, !.command = c]
    OBVIOUS
  <2>3. u = [pc |-> pc, command |-> c, id |-> NoOne, session |-> NoOne, seat |-> Seatless]
    BY <2>2 DEF Idle
  <2>4. [u EXCEPT !.id = identity] =
          [pc |-> pc, command |-> c, id |-> identity, session |-> NoOne, seat |-> Seatless]
    BY <2>3
  <2>5. Came(p, pc, identity)
    BY <1>0, <2>1, <2>2, <2>4, Rewritten
  <2>6. UNCHANGED <<identity, package, entitled, held, foreign>>
    BY <1>1 DEF OpenInstallation
  <2>7. QED
    BY <2>1, <2>5, <2>6 DEF ClientInv, Came, OneIdentity, RightHeld, Is
<1>2. ASSUME NEW p \in Processes, LinkIdentity(p)
      PROVE  ClientInv'
  <2>1. Came(p, "reread", proc[p].id)
    BY <1>0, <1>2, Went1 DEF LinkIdentity, Goto
  <2>2. UNCHANGED <<package, entitled, held, foreign>> /\ identity' = Publish(p)
    BY <1>2 DEF LinkIdentity
  <2>3. OneIdentity'
    BY <2>1, <2>2 DEF ClientInv, OneIdentity, Publish, Came
  <2>4. QED
    BY <2>1, <2>2, <2>3 DEF ClientInv, Came, RightHeld, Is
<1>3. ASSUME NEW p \in Processes, ReadIdentity(p)
      PROVE  ClientInv'
  <2>1. Came(p, "load", identity)
    BY <1>0, <1>3, WentId DEF ReadIdentity
  <2>2. UNCHANGED <<identity, package, entitled, held, foreign>>
    BY <1>3 DEF ReadIdentity
  <2>3. QED
    BY <2>1, <2>2 DEF ClientInv, Came, OneIdentity, RightHeld, Is
<1>4. ASSUME NEW p \in Processes, LoadState(p)
      PROVE  ClientInv'
  <2>1. Came(p, "ready", proc[p].id)
    BY <1>0, <1>4, Went3 DEF LoadState
  <2>2. QED
    <3>1. UNCHANGED <<identity, package, entitled, held, foreign>>
      BY <1>4 DEF LoadState
    <3>2. QED
      BY <2>1, <3>1, ElsewhereKept
<1>5. ASSUME NEW p \in Processes,
             Verify(p) \/ Save(p) \/ Crash(p) \/ RequestPackage(p) \/ Exit(p)
      PROVE  ClientInv'
  <2>1. PICK pc \in {"save", "acquire", "ready", "done", "gone", "bytes"} : Goto(p, pc)
    BY <1>5 DEF Verify, Save, Crash, RequestPackage, Exit
  <2>2. Came(p, pc, proc[p].id)
    BY <1>0, <2>1, Went1 DEF Goto
  <2>3. UNCHANGED <<identity, package, entitled, held, foreign>>
    BY <1>5, OwnReleased DEF Verify, Save, Crash, RequestPackage, Exit, ClientInv
  <2>4. QED
    BY <2>1, <2>2, <2>3, ElsewhereKept
<1>6. ASSUME NEW p \in Processes, Borrow(p)
      PROVE  ClientInv'
  <2>1. UNCHANGED <<identity, package, entitled, held, foreign>>
    BY <1>6 DEF Borrow
  <2>2. \/ \E pc \in {"save", "again"} : \E seat :
             proc' = [proc EXCEPT ![p].pc = pc, ![p].seat = seat]
        \/ \E pc \in {"ready", "done"} : Goto(p, pc)
    BY <1>6 DEF Borrow
  <2>3. PICK pc \in {"save", "again", "ready", "done"} : Came(p, pc, proc[p].id)
    BY <1>0, <2>2, Went1, Went2 DEF Goto
  <2>4. QED
    BY <2>1, <2>3, ElsewhereKept
<1>7. ASSUME NEW p \in Processes, GiveBack(p)
      PROVE  ClientInv'
  <2>1. PICK seat : proc' = [proc EXCEPT ![p].pc = "save", ![p].seat = seat]
    BY <1>7 DEF GiveBack
  <2>2. Came(p, "save", proc[p].id)
    BY <1>0, <2>1, Went2
  <2>3. UNCHANGED <<identity, package, entitled, held, foreign>>
    BY <1>7, OwnReleased DEF GiveBack, ClientInv
  <2>4. QED
    BY <2>2, <2>3, ElsewhereKept
<1>8. ASSUME NEW p \in Processes, NEW intact \in BOOLEAN, PackageArrives(p, intact)
      PROVE  ClientInv'
  <2>1. PICK pc \in {"authorize", "done"} : Goto(p, pc)
    BY <1>8 DEF PackageArrives
  <2>2. Came(p, pc, proc[p].id)
    BY <1>0, <2>1, Went1 DEF Goto
  <2>3. /\ UNCHANGED <<identity, package, entitled, foreign>>
        /\ held \subseteq held'
        /\ entitled => p \in held'
    BY <1>8 DEF PackageArrives
  <2>4. OneIdentity'
    BY <2>2, <2>3 DEF ClientInv, Came, OneIdentity
  <2>5. RightHeld'
    BY <2>1, <2>2, <2>3 DEF ClientInv, Came, RightHeld, Is
  <2>6. QED
    BY <2>2, <2>3, <2>4, <2>5 DEF ClientInv, Came
<1>9. ASSUME NEW p \in Processes, AuthorizeUpdate(p)
      PROVE  ClientInv'
  <2>1. PICK pc \in {"write", "done"} : Goto(p, pc) /\ (pc = "write" => entitled)
    BY <1>9 DEF AuthorizeUpdate, UpdateAuthorized
  <2>2. Came(p, pc, proc[p].id)
    BY <1>0, <2>1, Went1 DEF Goto
  <2>3. UNCHANGED <<identity, package, entitled, held, foreign>> /\ Is(p, "authorize")
    BY <1>9 DEF AuthorizeUpdate
  <2>4. QED
    BY <2>1, <2>2, <2>3 DEF ClientInv, Came, OneIdentity, RightHeld, Is
<1>10. ASSUME NEW p \in Processes, WritePackage(p)
       PROVE  ClientInv'
  <2>1. PICK pc \in {"writing", "done"} : Goto(p, pc)
    BY <1>10 DEF WritePackage
  <2>2. Came(p, pc, proc[p].id)
    BY <1>0, <2>1, Went1 DEF Goto
  <2>3. /\ UNCHANGED <<identity, entitled, held, foreign>>
        /\ package'.by = p /\ p \in held
    BY <1>10 DEF WritePackage, ClientInv, RightHeld
  <2>4. QED
    BY <2>1, <2>2, <2>3 DEF ClientInv, Came, OneIdentity, RightHeld, Is
<1>11. CASE LeaseExpires \/ UNCHANGED clientVars
  BY <1>11 DEF LeaseExpires, clientVars, ClientInv, Fields, OneIdentity, RightHeld, Is
<1>12. CASE Entitle
  BY <1>12 DEF Entitle, ClientInv, Fields, OneIdentity, RightHeld, Is
<1>13. QED
  BY <1>1, <1>2, <1>3, <1>4, <1>5, <1>6, <1>7, <1>8, <1>9, <1>10, <1>11, <1>12
  DEF ClientNext

\* Processes that start together work under one identity, none ends a lease of another
\* session, and a package on disk had a right to it after its bytes were there
\* (OpenInstallation, GiveBack and DownloadUpdate of the standard client).
THEOREM ClientSoundHolds == ClientSpec => []ClientSound
<1>1. ClientInit => ClientInv
  BY DEF ClientInit, ClientInv, Fields, OneIdentity, RightHeld, Is, Idle
<1>2. ClientInv /\ [ClientNext]_clientVars => ClientInv'
  BY ClientSteps
<1>3. ClientInv => ClientSound
  BY DEF ClientInv, OneIdentity, ClientSound
<1>4. QED
  BY <1>1, <1>2, <1>3, PTL DEF ClientSpec

-----------------------------------------------------------------------------
(* Names of people and their membership of agents *)

PersonRow == [exists : {TRUE}, name : Logins \cup {LegacyName},
              mail : Logins \cup {NoMail, LegacyMail}, active : BOOLEAN]
NewJob == [at : {"new", "queued", "checked"}, who : People, name : Chosen,
           mail : Mails \cup {NoMail}, agent : Agents \cup {NoAgent}, opens : BOOLEAN]
OldJob == [at : {"existing", "locked", "checked"}, who : People, agent : Agents,
           opens : BOOLEAN]
Visit == [at : {"person", "member", "granted"}, who : People,
          seen : SUBSET {"person", "agent"}]

IdTypes ==
    /\ person \in [People -> PersonRow \cup {NoPerson}]
    /\ memberOf \in [People -> Agents \cup {NoAgent}]
    /\ agentRow \in [Agents -> {"none", "active", "disabled"}]
    /\ serving \in BOOLEAN
    /\ rowLock \in [People -> Registrars \cup {NoOneHere}]
    /\ making \in [Registrars -> NewJob \cup OldJob \cup {NoTask}]
    /\ \A t \in Registrars :
         making[t] \in NewJob /\ making[t].opens => making[t].agent \in Agents
    /\ visiting \in Visit \cup {NoTask}

\* Until the server serves there are the accounts of older releases only.
Starting ==
    /\ serving => Here(Legacy)
    /\ ~serving =>
         /\ \A p \in People : Here(p) => p \in {Elder, Legacy}
         /\ Here(Elder) => person[Elder].name = LegacyName /\ person[Elder].mail = NoMail
         /\ \A t \in Registrars : making[t] = NoTask
         /\ visiting = NoTask

OneEach == \A l \in Logins : \A p, q \in EnteredAs(l) : p = q

\* Accounts being created: their people are not there, or locked and without an agent.
Creating ==
    \A t \in Registrars :
      /\ making[t] \in NewJob =>
           /\ ~Here(making[t].who)
           /\ making[t].at \in {"queued", "checked"} => queue = t
           /\ making[t].at = "checked" => Available(making[t].name, making[t].mail)
           /\ \A u \in Registrars \ {t} :
                making[u] # NoTask => making[u].who # making[t].who
      /\ making[t] \in OldJob =>
           /\ Here(making[t].who)
           /\ making[t].at \in {"locked", "checked"} => rowLock[making[t].who] = t
           /\ making[t].at = "checked" => memberOf[making[t].who] = NoAgent

Staffed ==
    /\ \A p \in People : ~Here(p) /\ p # Legacy => memberOf[p] = NoAgent
    /\ \A a \in Agents : agentRow[a] # "none" => \E p \in People : memberOf[p] = a

\* A request has seen all that holds of its person, and what it has passed by.
Looking ==
    visiting # NoTask =>
      /\ Truths(visiting.who) \subseteq visiting.seen
      /\ "person" \in visiting.seen
      /\ visiting.at \in {"member", "granted"} => memberOf[visiting.who] # NoAgent
      /\ visiting.at = "granted" => "agent" \in visiting.seen

IdInv ==
    /\ IdTypes /\ Starting /\ OneEach /\ Creating /\ Staffed /\ Looking

\* The three kinds of tasks.
LEMMA NewJobs ==
    ASSUME NEW j \in NewJob
    PROVE  j # NoTask /\ j \notin OldJob /\ "name" \in DOMAIN j /\ j.at # "idle"
<1>1. DOMAIN j = {"at", "who", "name", "mail", "agent", "opens"}
  BY DEF NewJob
<1>2. j.at # "idle"
  BY DEF NewJob
<1>3. j \notin OldJob
  <2>1. \A k \in OldJob : DOMAIN k = {"at", "who", "agent", "opens"}
    BY DEF OldJob
  <2>2. QED
    BY <1>1, <2>1
<1>4. QED
  BY <1>1, <1>2, <1>3 DEF NoTask

LEMMA OldJobs ==
    ASSUME NEW j \in OldJob
    PROVE  j # NoTask /\ j \notin NewJob /\ "name" \notin DOMAIN j /\ j.at # "idle"
<1>1. DOMAIN j = {"at", "who", "agent", "opens"}
  BY DEF OldJob
<1>2. j.at # "idle"
  BY DEF OldJob
<1>3. QED
  BY <1>1, <1>2, NewJobs DEF NoTask

LEMMA NoJob == NoTask \notin NewJob /\ NoTask \notin OldJob /\ NoTask.at = "idle"
BY NewJobs, OldJobs DEF NoTask

LEMMA Stepped ==
    ASSUME IdTypes, NEW t \in Registrars, NEW at, Step(t, at),
           \/ making[t] \in NewJob /\ at \in {"queued", "checked"}
           \/ making[t] \in OldJob /\ at \in {"locked", "checked"}
    PROVE  /\ making[t] \in NewJob => making'[t] \in NewJob
           /\ making[t] \in OldJob => making'[t] \in OldJob
           /\ making' \in [Registrars -> NewJob \cup OldJob \cup {NoTask}]
           /\ \A u \in Registrars \ {t} : making'[u] = making[u]
           /\ making'[t].at = at /\ making'[t].who = making[t].who
           /\ making[t] \in NewJob => making'[t].name = making[t].name
           /\ making[t] \in NewJob => making'[t].mail = making[t].mail
           /\ making'[t].opens = making[t].opens /\ making'[t].agent = making[t].agent
<1>1. PICK j : j = [making[t] EXCEPT !.at = at]
  OBVIOUS
<1>2. making' = [making EXCEPT ![t] = j]
  BY <1>1 DEF Step
<1>3. CASE making[t] \in NewJob
  <2>1. /\ j \in NewJob /\ j.at = at /\ j.who = making[t].who /\ j.name = making[t].name
        /\ j.mail = making[t].mail /\ j.opens = making[t].opens
        /\ j.agent = making[t].agent
    BY <1>1, <1>3, OldJobs DEF NewJob
  <2>2. QED
    BY <1>2, <1>3, <2>1, NewJobs DEF IdTypes
<1>4. CASE making[t] \in OldJob
  <2>1. /\ j \in OldJob /\ j.at = at /\ j.who = making[t].who
        /\ j.opens = making[t].opens /\ j.agent = making[t].agent
    BY <1>1, <1>4, NewJobs DEF OldJob
  <2>2. QED
    BY <1>2, <1>4, <2>1, OldJobs DEF IdTypes
<1>5. QED
  BY <1>3, <1>4

LEMMA DoneJob ==
    ASSUME IdentitiesAssumption, IdTypes, NEW t \in Registrars, Done(t)
    PROVE  /\ making' \in [Registrars -> NewJob \cup OldJob \cup {NoTask}]
           /\ making'[t] = NoTask
           /\ \A u \in Registrars \ {t} :
                /\ making'[u] = making[u]
                /\ queue = u => queue' = u
                /\ \A p \in People : rowLock[p] = u => rowLock'[p] = u
           /\ rowLock' \in [People -> Registrars \cup {NoOneHere}]
BY DEF Done, IdTypes

\* A step that only moves tasks and locks.
LEMMA JobsOnly ==
    ASSUME IdInv, UNCHANGED <<person, memberOf, agentRow, serving, visiting>>,
           making' \in [Registrars -> NewJob \cup OldJob \cup {NoTask}],
           rowLock' \in [People -> Registrars \cup {NoOneHere}],
           \A t \in Registrars :
             making'[t] \in NewJob /\ making'[t].opens => making'[t].agent \in Agents,
           serving \/ \A t \in Registrars : making'[t] = NoTask,
           Creating'
    PROVE  IdInv'
<1>1. IdTypes' /\ Starting'
  BY DEF IdInv, IdTypes, Starting, Here
<1>2. OneEach' /\ Staffed' /\ Looking'
  BY DEF IdInv, OneEach, EnteredAs, Staffed, Looking, Truths, Here, Enabled
<1>3. QED
  BY <1>1, <1>2 DEF IdInv

LEMMA ServingJobs ==
    ASSUME IdInv, NEW t \in Registrars, making[t] # NoTask
    PROVE  serving
BY DEF IdInv, Starting, IdTypes

\* A task that ends without a commit.
LEMMA EndKept ==
    ASSUME IdentitiesAssumption, IdInv, NEW t \in Registrars, Done(t),
           making[t] # NoTask,
           UNCHANGED <<person, memberOf, agentRow, serving, visiting>>
    PROVE  IdInv'
<1>1. /\ making' \in [Registrars -> NewJob \cup OldJob \cup {NoTask}]
      /\ making'[t] = NoTask
      /\ \A u \in Registrars \ {t} :
           /\ making'[u] = making[u]
           /\ queue = u => queue' = u
           /\ \A p \in People : rowLock[p] = u => rowLock'[p] = u
      /\ rowLock' \in [People -> Registrars \cup {NoOneHere}]
  BY DoneJob DEF IdInv
<1>2. Creating'
  <2> SUFFICES ASSUME NEW u \in Registrars \ {t}
               PROVE  /\ making[u] \in NewJob =>
                           /\ ~Here(making[u].who)'
                           /\ making[u].at \in {"queued", "checked"} => queue' = u
                           /\ making[u].at = "checked" =>
                                Available(making[u].name, making[u].mail)'
                           /\ \A v \in Registrars \ {u} :
                                making'[v] # NoTask => making'[v].who # making[u].who
                      /\ making[u] \in OldJob =>
                           /\ Here(making[u].who)'
                           /\ making[u].at \in {"locked", "checked"} =>
                                rowLock'[making[u].who] = u
                           /\ making[u].at = "checked" =>
                                memberOf'[making[u].who] = NoAgent
    BY <1>1, NoJob DEF Creating
  <2>1. ASSUME making[u] \in OldJob
        PROVE  making[u].who \in People
    BY <2>1 DEF OldJob
  <2>2. QED
    BY <1>1, <2>1 DEF IdInv, Creating, Here, Available, EnteredAs
<1>3. QED
  BY <1>1, <1>2, JobsOnly, ServingJobs, NoJob DEF IdInv, IdTypes

\* A task that goes on: what it says of itself, and what the others say.
LEMMA OtherJobs ==
    ASSUME IdInv, NEW t \in Registrars, making[t] # NoTask,
           UNCHANGED <<person, memberOf>>,
           making' \in [Registrars -> NewJob \cup OldJob \cup {NoTask}],
           \A u \in Registrars \ {t} :
             /\ making'[u] = making[u]
             /\ queue = u => queue' = u
             /\ \A p \in People : rowLock[p] = u => rowLock'[p] = u,
           making'[t] # NoTask, making'[t].who = making[t].who,
           making'[t] \in NewJob <=> making[t] \in NewJob,
           making'[t] \in OldJob <=> making[t] \in OldJob,
           making[t] \in NewJob =>
             /\ making'[t].at \in {"queued", "checked"} => queue' = t
             /\ making'[t].at = "checked" =>
                  Available(making'[t].name, making'[t].mail),
           making[t] \in OldJob =>
             /\ making'[t].at \in {"locked", "checked"} => rowLock'[making[t].who] = t
             /\ making'[t].at = "checked" => memberOf[making[t].who] = NoAgent
    PROVE  Creating'
<1> DEFINE NewOK(u) ==
             making[u] \in NewJob =>
               /\ ~Here(making[u].who)
               /\ making[u].at \in {"queued", "checked"} => queue = u
               /\ making[u].at = "checked" => Available(making[u].name, making[u].mail)
               /\ \A v \in Registrars \ {u} :
                    making[v] # NoTask => making[v].who # making[u].who
           OldOK(u) ==
             making[u] \in OldJob =>
               /\ Here(making[u].who)
               /\ making[u].at \in {"locked", "checked"} => rowLock[making[u].who] = u
               /\ making[u].at = "checked" => memberOf[making[u].who] = NoAgent
<1>1. \A u \in Registrars : NewOK(u) /\ OldOK(u)
  BY DEF IdInv, Creating
<1>2. \A u \in Registrars : NewOK(u)'
  BY <1>1 DEF Here, Available, EnteredAs
<1>3. \A u \in Registrars : OldOK(u)'
  <2> SUFFICES ASSUME NEW u \in Registrars, making'[u] \in OldJob
               PROVE  /\ Here(making[u].who)'
                      /\ making'[u].at \in {"locked", "checked"} =>
                           rowLock'[making'[u].who] = u
                      /\ making'[u].at = "checked" =>
                           memberOf'[making'[u].who] = NoAgent
    OBVIOUS
  <2>1. making[u] \in OldJob /\ making'[u].who = making[u].who /\ making[u].who \in People
    BY DEF OldJob
  <2>2. QED
    BY <1>1, <2>1 DEF Here
<1>4. QED
  BY <1>2, <1>3 DEF Creating

LEMMA QueueForIdentityKept ==
    ASSUME IdentitiesAssumption, IdInv, NEW t \in Registrars, QueueForIdentity(t)
    PROVE  IdInv'
<1>1. making[t] # NoTask /\ making[t] \in NewJob
  BY NoJob, OldJobs DEF QueueForIdentity, IdInv, IdTypes, OldJob
<1>2. /\ making'[t] \in NewJob
      /\ making' \in [Registrars -> NewJob \cup OldJob \cup {NoTask}]
      /\ \A u \in Registrars \ {t} : making'[u] = making[u]
      /\ making'[t].at = "queued" /\ making'[t].who = making[t].who
      /\ making'[t].opens = making[t].opens /\ making'[t].agent = making[t].agent
  BY <1>1, Stepped DEF QueueForIdentity, IdInv
<1>3. /\ UNCHANGED <<person, memberOf, agentRow, serving, rowLock, visiting>>
      /\ queue' = t /\ queue = NoOneHere
  BY DEF QueueForIdentity
<1>4. \A u \in Registrars \ {t} : queue # u
  BY <1>3 DEF IdentitiesAssumption, NoOneHere
<1>5. Creating'
  BY <1>1, <1>2, <1>3, <1>4, NewJobs, OtherJobs
<1>6. QED
  BY <1>1, <1>2, <1>3, <1>5, JobsOnly, ServingJobs DEF IdInv, IdTypes

LEMMA IdentityLoginAvailableKept ==
    ASSUME IdentitiesAssumption, IdInv, NEW t \in Registrars, IdentityLoginAvailable(t)
    PROVE  IdInv'
<1>1. making[t] # NoTask /\ making[t] \in NewJob
  BY NoJob, OldJobs DEF IdentityLoginAvailable, IdInv, IdTypes, OldJob
<1>2. UNCHANGED <<person, memberOf, agentRow, serving, visiting>>
  BY DEF IdentityLoginAvailable
<1>3. CASE Available(making[t].name, making[t].mail)
  <2>1. Step(t, "checked") /\ UNCHANGED <<queue, rowLock>>
    BY <1>3 DEF IdentityLoginAvailable
  <2>2. /\ making'[t] \in NewJob
        /\ making' \in [Registrars -> NewJob \cup OldJob \cup {NoTask}]
        /\ \A u \in Registrars \ {t} : making'[u] = making[u]
        /\ making'[t].at = "checked" /\ making'[t].who = making[t].who
        /\ making'[t].name = making[t].name /\ making'[t].mail = making[t].mail
        /\ making'[t].opens = making[t].opens /\ making'[t].agent = making[t].agent
    BY <1>1, <2>1, Stepped DEF IdInv
  <2>3. queue = t
    BY <1>1 DEF IdentityLoginAvailable, IdInv, Creating
  <2>4. Creating'
    BY <1>1, <1>2, <1>3, <2>1, <2>2, <2>3, NewJobs, OtherJobs
  <2>5. QED
    BY <1>1, <1>2, <2>1, <2>2, <2>4, JobsOnly, ServingJobs DEF IdInv, IdTypes
<1>4. CASE ~Available(making[t].name, making[t].mail)
  BY <1>1, <1>2, <1>4, EndKept DEF IdentityLoginAvailable
<1>5. QED
  BY <1>3, <1>4

LEMMA LockPersonKept ==
    ASSUME IdentitiesAssumption, IdInv, NEW t \in Registrars, LockPerson(t)
    PROVE  IdInv'
<1>1. making[t] # NoTask /\ making[t] \in OldJob /\ making[t].who \in People
  BY NoJob, NewJobs DEF LockPerson, IdInv, IdTypes, NewJob, OldJob
<1>2. /\ making'[t] \in OldJob
      /\ making' \in [Registrars -> NewJob \cup OldJob \cup {NoTask}]
      /\ \A u \in Registrars \ {t} : making'[u] = making[u]
      /\ making'[t].at = "locked" /\ making'[t].who = making[t].who
      /\ making'[t].opens = making[t].opens /\ making'[t].agent = making[t].agent
  BY <1>1, Stepped DEF LockPerson, IdInv
<1>3. /\ UNCHANGED <<person, memberOf, agentRow, serving, queue, visiting>>
      /\ rowLock[making[t].who] = NoOneHere
      /\ rowLock' = [rowLock EXCEPT ![making[t].who] = t]
  BY DEF LockPerson
<1>4. /\ rowLock' \in [People -> Registrars \cup {NoOneHere}]
      /\ rowLock'[making[t].who] = t
      /\ \A u \in Registrars \ {t}, p \in People : rowLock[p] = u => rowLock'[p] = u
  BY <1>1, <1>3 DEF IdInv, IdTypes, IdentitiesAssumption, NoOneHere
<1>5. Creating'
  BY <1>1, <1>2, <1>3, <1>4, OldJobs, OtherJobs
<1>6. QED
  BY <1>1, <1>2, <1>3, <1>4, <1>5, JobsOnly, ServingJobs, OldJobs DEF IdInv, IdTypes

LEMMA CheckPersonKept ==
    ASSUME IdentitiesAssumption, IdInv, NEW t \in Registrars, CheckPerson(t)
    PROVE  IdInv'
<1>1. making[t] # NoTask /\ making[t] \in OldJob
  BY NoJob, NewJobs DEF CheckPerson, IdInv, IdTypes, NewJob
<1>2. UNCHANGED <<person, memberOf, agentRow, serving, visiting>>
  BY DEF CheckPerson
<1>3. CASE Enabled(making[t].who) /\ memberOf[making[t].who] = NoAgent
  <2>1. Step(t, "checked") /\ UNCHANGED <<queue, rowLock>>
    BY <1>3 DEF CheckPerson
  <2>2. /\ making'[t] \in OldJob
        /\ making' \in [Registrars -> NewJob \cup OldJob \cup {NoTask}]
        /\ \A u \in Registrars \ {t} : making'[u] = making[u]
        /\ making'[t].at = "checked" /\ making'[t].who = making[t].who
        /\ making'[t].opens = making[t].opens /\ making'[t].agent = making[t].agent
    BY <1>1, <2>1, Stepped DEF IdInv
  <2>3. rowLock[making[t].who] = t
    BY <1>1 DEF CheckPerson, IdInv, Creating
  <2>4. Creating'
    BY <1>1, <1>2, <1>3, <2>1, <2>2, <2>3, OldJobs, OtherJobs
  <2>5. QED
    BY <1>1, <1>2, <2>1, <2>2, <2>4, JobsOnly, ServingJobs, OldJobs DEF IdInv, IdTypes
<1>4. CASE ~(Enabled(making[t].who) /\ memberOf[making[t].who] = NoAgent)
  BY <1>1, <1>2, <1>4, EndKept DEF CheckPerson
<1>5. QED
  BY <1>3, <1>4

LEMMA RollbackAccountKept ==
    ASSUME IdentitiesAssumption, IdInv, NEW t \in Registrars, RollbackAccount(t)
    PROVE  IdInv'
BY EndKept DEF RollbackAccount

\* A new account whose name and address nobody has entered so far.
LEMMA Registered ==
    ASSUME IdentitiesAssumption, IdTypes, OneEach, NEW who \in People, NEW n, NEW m,
           person' = [person EXCEPT ![who] = Account(n, m)],
           EnteredAs(n) = {}, m # NoMail => EnteredAs(m) = {}
    PROVE  OneEach'
<1> SUFFICES ASSUME NEW l \in Logins, NEW p \in EnteredAs(l)', NEW q \in EnteredAs(l)'
             PROVE  p = q
  BY DEF OneEach
<1>1. p \in People /\ q \in People /\ l # NoMail
  BY DEF EnteredAs, IdentitiesAssumption
<1>2. \A x \in People : x # who /\ x \in EnteredAs(l)' => x \in EnteredAs(l)
  BY DEF EnteredAs, Here, IdTypes
<1>3. who \in EnteredAs(l)' => l = n \/ l = m
  BY DEF EnteredAs, Account, IdTypes
<1>4. who \in EnteredAs(l)' => EnteredAs(l) = {}
  BY <1>1, <1>3
<1>5. QED
  BY <1>1, <1>2, <1>4 DEF OneEach

LEMMA RegisteredTypes ==
    ASSUME IdTypes, NEW who \in People, NEW n \in Logins \cup {LegacyName},
           NEW m \in Logins \cup {NoMail, LegacyMail},
           person' = [person EXCEPT ![who] = Account(n, m)]
    PROVE  /\ person' \in [People -> PersonRow \cup {NoPerson}]
           /\ Here(who)'
           /\ \A p \in People \ {who} : person'[p] = person[p]
           /\ \A p \in People : Here(p) => Here(p)'
<1>1. Account(n, m) \in PersonRow /\ Account(n, m).exists
  BY DEF Account, PersonRow
<1>2. QED
  BY <1>1 DEF IdTypes, Here

LEMMA EnsureAgentIdentitiesKept ==
    ASSUME IdentitiesAssumption, IdInv, EnsureAgentIdentities
    PROVE  IdInv'
<1> DEFINE name == IF Available(LegacyName, NoMail) THEN LegacyName ELSE Unique[Legacy]
           mail == IF Available(name, LegacyMail) THEN LegacyMail ELSE NoMail
<1>1. /\ ~serving /\ ~Here(Legacy) /\ Legacy \in People
      /\ person' = [person EXCEPT ![Legacy] = Account(name, mail)]
      /\ UNCHANGED <<memberOf, agentRow, serving, queue, rowLock, making, visiting>>
  BY DEF EnsureAgentIdentities, IdentitiesAssumption
<1>2. name \in Logins \cup {LegacyName} /\ mail \in Logins \cup {NoMail, LegacyMail}
  BY <1>1 DEF IdentitiesAssumption
<1>3. EnteredAs(name) = {}
  <2>1. CASE Available(LegacyName, NoMail)
    BY <2>1 DEF Available
  <2>2. CASE ~Available(LegacyName, NoMail)
    <3>1. name = Unique[Legacy] /\ name # LegacyName /\ name # NoMail
      BY <1>1, <2>2 DEF IdentitiesAssumption
    <3>2. \A p \in People : Here(p) => person[p].name = LegacyName /\ person[p].mail = NoMail
      BY <1>1 DEF IdInv, Starting
    <3>3. QED
      BY <3>1, <3>2 DEF EnteredAs
  <2>3. QED
    BY <2>1, <2>2
<1>4. mail # NoMail => EnteredAs(mail) = {}
  BY DEF Available
<1> HIDE DEF name, mail
<1>5. OneEach'
  BY <1>1, <1>3, <1>4, Registered DEF IdInv
<1>6. /\ person' \in [People -> PersonRow \cup {NoPerson}]
      /\ \A p \in People \ {Legacy} : person'[p] = person[p]
      /\ \A p \in People : Here(p) => Here(p)'
  BY <1>1, <1>2, RegisteredTypes DEF IdInv
<1>7. IdTypes'
  BY <1>1, <1>6 DEF IdInv, IdTypes
<1>8. Starting'
  BY <1>1, <1>6 DEF IdInv, Starting, IdentitiesAssumption, Here
<1>9. Creating' /\ Looking'
  BY <1>1, NoJob DEF IdInv, Starting, Creating, Looking
<1>10. Staffed'
  BY <1>1, <1>6 DEF IdInv, Staffed
<1>11. QED
  BY <1>5, <1>7, <1>8, <1>9, <1>10 DEF IdInv

LEMMA ServeKept ==
    ASSUME IdInv, Serve
    PROVE  IdInv'
<1>1. IdTypes' /\ Starting'
  BY DEF Serve, IdInv, IdTypes, Starting, Here
<1>2. OneEach' /\ Creating' /\ Staffed' /\ Looking'
  BY DEF Serve, IdInv, OneEach, EnteredAs, Creating, Available, Staffed, Looking, Truths,
         Here, Enabled
<1>3. QED
  BY <1>1, <1>2 DEF IdInv

\* A task that begins.
LEMMA Begun ==
    ASSUME IdentitiesAssumption, IdInv, NEW t \in Registrars, making[t] = NoTask, serving,
           NEW j, making' = [making EXCEPT ![t] = j],
           UNCHANGED <<person, memberOf, agentRow, serving, queue, rowLock, visiting>>,
           \/ /\ j \in NewJob /\ j.at = "new" /\ ~Here(j.who)
              /\ j.opens => j.agent \in Agents
              /\ \A u \in Registrars : making[u] # NoTask => making[u].who # j.who
           \/ j \in OldJob /\ j.at = "existing" /\ Here(j.who)
    PROVE  IdInv'
<1>1. /\ making' \in [Registrars -> NewJob \cup OldJob \cup {NoTask}]
      /\ making'[t] = j /\ \A u \in Registrars \ {t} : making'[u] = making[u]
  BY DEF IdInv, IdTypes
<1>2. ASSUME NEW u \in Registrars \ {t}
      PROVE  /\ making[u] \in NewJob =>
                  /\ ~Here(making[u].who)
                  /\ making[u].at \in {"queued", "checked"} => queue = u
                  /\ making[u].at = "checked" => Available(making[u].name, making[u].mail)
                  /\ \A v \in Registrars \ {u} :
                       making'[v] # NoTask => making'[v].who # making[u].who
             /\ making[u] \in OldJob =>
                  /\ Here(making[u].who)
                  /\ making[u].at \in {"locked", "checked"} => rowLock[making[u].who] = u
                  /\ making[u].at = "checked" => memberOf[making[u].who] = NoAgent
  <2>1. making[u] \in NewJob => ~Here(making[u].who) /\ making[u].who # j.who
    BY NewJobs DEF IdInv, Creating
  <2>2. QED
    BY <1>1, <2>1 DEF IdInv, Creating
<1>3. Creating'
  <2>1. /\ j \in NewJob => /\ j.at = "new" /\ ~Here(j.who)
                           /\ \A v \in Registrars \ {t} :
                                making'[v] # NoTask => making'[v].who # j.who
        /\ j \in OldJob => j.at = "existing" /\ Here(j.who)
    BY <1>1, NewJobs, OldJobs
  <2>2. \A p : (Here(p)' <=> Here(p)) /\ memberOf' = memberOf /\ rowLock' = rowLock
               /\ queue' = queue
    BY DEF Here
  <2>3. \A n, m : Available(n, m)' <=> Available(n, m)
    BY DEF Available, EnteredAs, Here
  <2>4. QED
    BY <1>1, <1>2, <2>1, <2>2, <2>3 DEF Creating
<1>4. rowLock' \in [People -> Registrars \cup {NoOneHere}]
  BY DEF IdInv, IdTypes
<1>5. \A u \in Registrars :
        making'[u] \in NewJob /\ making'[u].opens => making'[u].agent \in Agents
  BY <1>1, OldJobs DEF IdInv, IdTypes
<1>6. QED
  BY <1>1, <1>3, <1>4, <1>5, JobsOnly

LEMMA PrepareNewKept ==
    ASSUME IdentitiesAssumption, IdInv, NEW t \in Registrars, NEW p \in People,
           NEW n \in Chosen, NEW m \in Mails \cup {NoMail}, NEW a \in Agents \cup {NoAgent},
           PrepareNew(t, p, n, m, a)
    PROVE  IdInv'
<1>1. PICK j : j = [at |-> "new", who |-> p, name |-> n, mail |-> m, agent |-> a,
                    opens |-> a # NoAgent /\ agentRow[a] = "none"]
  OBVIOUS
<1>2. /\ j \in NewJob /\ j.at = "new" /\ j.who = p
      /\ j.opens => j.agent \in Agents
  BY <1>1 DEF NewJob
<1>3. \A u \in Registrars : making[u] # NoTask => making[u].who # p
  BY DEF PrepareNew, Prepared
<1>4. /\ making[t] = NoTask /\ serving /\ ~Here(p)
      /\ making' = [making EXCEPT ![t] = j]
      /\ UNCHANGED <<person, memberOf, agentRow, serving, queue, rowLock, visiting>>
  BY <1>1 DEF PrepareNew
<1>5. QED
  BY <1>2, <1>3, <1>4, Begun

LEMMA PrepareExistingKept ==
    ASSUME IdentitiesAssumption, IdInv, NEW t \in Registrars, NEW p \in People,
           NEW a \in Agents, PrepareExisting(t, p, a)
    PROVE  IdInv'
<1>1. PICK j : j = [at |-> "existing", who |-> p, agent |-> a, opens |-> agentRow[a] = "none"]
  OBVIOUS
<1>2. j \in OldJob /\ j.at = "existing" /\ j.who = p
  BY <1>1 DEF OldJob
<1>3. /\ making[t] = NoTask /\ serving /\ Here(p)
      /\ making' = [making EXCEPT ![t] = j]
      /\ UNCHANGED <<person, memberOf, agentRow, serving, queue, rowLock, visiting>>
  BY <1>1 DEF PrepareExisting, Enabled
<1>4. QED
  BY <1>2, <1>3, Begun

\* What a request has seen after a step that others made.
LEMMA SeeingKept ==
    ASSUME IdTypes, Looking, Seeing,
           visiting # NoTask /\ memberOf[visiting.who] # NoAgent =>
             memberOf'[visiting.who] # NoAgent
    PROVE  Looking' /\ visiting' \in Visit \cup {NoTask}
<1>1. CASE visiting = NoTask
  BY <1>1 DEF Seeing, Looking
<1>2. CASE visiting # NoTask
  <2>1. PICK S : S = visiting.seen \cup UNION {Truths(p)' : p \in {visiting.who}}
    OBVIOUS
  <2>2. visiting' = [visiting EXCEPT !.seen = S] /\ visiting \in Visit
    BY <1>2, <2>1 DEF Seeing, IdTypes
  <2>3. /\ \A p : Truths(p)' \subseteq {"person", "agent"}
        /\ visiting.seen \subseteq {"person", "agent"}
    BY <2>2 DEF Truths, Visit
  <2>4. S \subseteq {"person", "agent"} /\ visiting.seen \subseteq S
    BY <2>1, <2>3
  <2>5. PICK w \in People : w = visiting.who
    BY <2>2 DEF Visit
  <2>6. Truths(w)' \subseteq S
    BY <2>1, <2>5
  <2>7. /\ visiting' \in Visit /\ visiting'.seen = S /\ visiting'.who = w
        /\ visiting'.at = visiting.at /\ visiting' # NoTask
    BY <2>2, <2>4, <2>5 DEF Visit, NoTask
  <2>8. Truths(visiting.who)' \subseteq S
    BY <2>6, <2>7 DEF Truths, Enabled, Here
  <2>9. QED
    BY <1>2, <2>4, <2>5, <2>7, <2>8 DEF Looking
<1>3. QED
  BY <1>1, <1>2

\* A membership that is committed: agents have members, and a member stays one.
LEMMA StaffedKept ==
    ASSUME IdentitiesAssumption, IdTypes, Staffed, NEW w \in People,
           NEW a \in Agents \cup {NoAgent}, NEW opens \in BOOLEAN,
           memberOf[w] = NoAgent, opens => a \in Agents,
           agentRow' = IF opens THEN [agentRow EXCEPT ![a] = "active"] ELSE agentRow,
           memberOf' = IF a = NoAgent THEN memberOf ELSE [memberOf EXCEPT ![w] = a],
           Here(w)', \A p \in People : Here(p) => Here(p)'
    PROVE  /\ Staffed'
           /\ agentRow' \in [Agents -> {"none", "active", "disabled"}]
           /\ memberOf' \in [People -> Agents \cup {NoAgent}]
           /\ \A p \in People : p # w => memberOf'[p] = memberOf[p]
           /\ \A p \in People : memberOf[p] # NoAgent => memberOf'[p] # NoAgent
<1>1. /\ agentRow' \in [Agents -> {"none", "active", "disabled"}]
      /\ memberOf' \in [People -> Agents \cup {NoAgent}]
      /\ \A p \in People : p # w => memberOf'[p] = memberOf[p]
  BY DEF IdTypes
<1>2. NoAgent \notin Agents
  BY DEF IdentitiesAssumption, NoAgent
<1>3. \A p \in People : memberOf[p] # NoAgent => memberOf'[p] = memberOf[p]
  BY <1>1
<1>4. ASSUME NEW p \in People, ~Here(p)', p # Legacy
      PROVE  memberOf'[p] = NoAgent
  <2>1. ~Here(p) /\ p # w
    BY <1>4
  <2>2. QED
    BY <1>1, <1>4, <2>1 DEF Staffed
<1>5. ASSUME NEW b \in Agents, agentRow'[b] # "none"
      PROVE  \E p \in People : memberOf'[p] = b
  <2>1. CASE agentRow[b] # "none"
    <3>1. PICK p \in People : memberOf[p] = b
      BY <2>1 DEF Staffed
    <3>2. QED
      BY <1>2, <1>3, <3>1
  <2>2. CASE agentRow[b] = "none"
    <3>1. opens /\ b = a
      BY <1>5, <2>2 DEF IdTypes
    <3>2. memberOf'[w] = b
      BY <1>2, <3>1 DEF IdTypes
    <3>3. QED
      BY <3>2
  <2>3. QED
    BY <2>1, <2>2
<1>6. QED
  BY <1>1, <1>3, <1>4, <1>5 DEF Staffed

LEMMA CommitAccountKept ==
    ASSUME IdentitiesAssumption, IdInv, NEW t \in Registrars, CommitAccount(t)
    PROVE  IdInv'
<1>0. PICK j : j = making[t]
  OBVIOUS
<1>1. /\ j.at = "checked" /\ Done(t) /\ serving' = serving /\ Seeing
      /\ agentRow' = IF j.opens THEN [agentRow EXCEPT ![j.agent] = "active"] ELSE agentRow
      /\ memberOf' = IF j.agent = NoAgent THEN memberOf
                     ELSE [memberOf EXCEPT ![j.who] = j.agent]
      /\ person' = IF "name" \in DOMAIN j
                   THEN [person EXCEPT ![j.who] = Account(j.name, j.mail)] ELSE person
  BY <1>0 DEF CommitAccount
<1>2. j # NoTask /\ j \in NewJob \cup OldJob
  BY <1>0, <1>1, NoJob DEF IdInv, IdTypes
<1>3. serving /\ Here(Legacy)
  BY <1>0, <1>2, ServingJobs DEF IdInv, Starting
<1>4. /\ j.who \in People /\ j.agent \in Agents \cup {NoAgent} /\ j.opens \in BOOLEAN
      /\ j.opens => j.agent \in Agents
  <2>1. CASE j \in NewJob
    BY <1>0, <2>1 DEF NewJob, IdInv, IdTypes
  <2>2. CASE j \in OldJob
    BY <2>2 DEF OldJob
  <2>3. QED
    BY <1>2, <2>1, <2>2
<1>5. /\ making' \in [Registrars -> NewJob \cup OldJob \cup {NoTask}]
      /\ making'[t] = NoTask
      /\ \A u \in Registrars \ {t} :
           /\ making'[u] = making[u]
           /\ queue = u => queue' = u
           /\ \A p \in People : rowLock[p] = u => rowLock'[p] = u
      /\ rowLock' \in [People -> Registrars \cup {NoOneHere}]
  BY <1>1, DoneJob DEF IdInv
<1>6. /\ memberOf[j.who] = NoAgent
      /\ person' \in [People -> PersonRow \cup {NoPerson}]
      /\ Here(j.who)' /\ \A p \in People : Here(p) => Here(p)'
      /\ \A p \in People \ {j.who} : person'[p] = person[p]
      /\ OneEach'
      /\ j \in OldJob => person' = person
  <2>1. CASE j \in NewJob
    <3>1. /\ ~Here(j.who) /\ Available(j.name, j.mail)
      BY <1>0, <1>1, <2>1 DEF IdInv, Creating
    <3>2. /\ person' = [person EXCEPT ![j.who] = Account(j.name, j.mail)]
          /\ j.name \in Logins \cup {LegacyName}
          /\ j.mail \in Logins \cup {NoMail, LegacyMail}
      BY <1>1, <2>1, NewJobs DEF NewJob, IdentitiesAssumption
    <3>3. EnteredAs(j.name) = {} /\ (j.mail # NoMail => EnteredAs(j.mail) = {})
      BY <3>1 DEF Available
    <3>4. OneEach'
      BY <1>4, <3>2, <3>3, Registered DEF IdInv
    <3>5. memberOf[j.who] = NoAgent
      BY <1>3, <1>4, <3>1 DEF IdInv, Staffed
    <3>6. QED
      BY <1>4, <2>1, <3>2, <3>4, <3>5, RegisteredTypes, NewJobs DEF IdInv
  <2>2. CASE j \in OldJob
    <3>1. person' = person /\ Here(j.who) /\ memberOf[j.who] = NoAgent
      BY <1>0, <1>1, <2>2, OldJobs DEF IdInv, Creating
    <3>2. QED
      BY <1>4, <2>2, <3>1 DEF IdInv, IdTypes, OneEach, EnteredAs, Here
  <2>3. QED
    BY <1>2, <2>1, <2>2
<1>7. /\ Staffed'
      /\ agentRow' \in [Agents -> {"none", "active", "disabled"}]
      /\ memberOf' \in [People -> Agents \cup {NoAgent}]
      /\ \A p \in People : p # j.who => memberOf'[p] = memberOf[p]
      /\ \A p \in People : memberOf[p] # NoAgent => memberOf'[p] # NoAgent
  BY <1>1, <1>4, <1>6, StaffedKept DEF IdInv
<1>8. Looking' /\ visiting' \in Visit \cup {NoTask}
  <2>1. visiting # NoTask => visiting.who \in People
    BY DEF IdInv, IdTypes, Visit
  <2>2. QED
    BY <1>1, <1>7, <2>1, SeeingKept DEF IdInv
<1>9. Creating'
  <2> SUFFICES ASSUME NEW u \in Registrars \ {t}
               PROVE  /\ making[u] \in NewJob =>
                           /\ ~Here(making[u].who)'
                           /\ making[u].at \in {"queued", "checked"} => queue' = u
                           /\ making[u].at = "checked" =>
                                Available(making[u].name, making[u].mail)'
                           /\ \A v \in Registrars \ {u} :
                                making'[v] # NoTask => making'[v].who # making[u].who
                      /\ making[u] \in OldJob =>
                           /\ Here(making[u].who)'
                           /\ making[u].at \in {"locked", "checked"} =>
                                rowLock'[making[u].who] = u
                           /\ making[u].at = "checked" =>
                                memberOf'[making[u].who] = NoAgent
    BY <1>5, NoJob DEF Creating
  <2>1. ASSUME making[u] \in NewJob
        PROVE  /\ ~Here(making[u].who)'
               /\ making[u].at \in {"queued", "checked"} => queue' = u
               /\ making[u].at = "checked" =>
                    Available(making[u].name, making[u].mail)'
               /\ \A v \in Registrars \ {u} :
                    making'[v] # NoTask => making'[v].who # making[u].who
    <3>1. /\ ~Here(making[u].who) /\ making[u].who # j.who /\ making[u].who \in People
          /\ making[u].at \in {"queued", "checked"} => queue = u
          /\ making[u].at = "checked" => Available(making[u].name, making[u].mail)
          /\ \A v \in Registrars \ {u} : making[v] # NoTask => making[v].who # making[u].who
      BY <1>0, <1>2, <2>1 DEF IdInv, Creating, NewJob
    <3>2. ~Here(making[u].who)'
      BY <1>5, <1>6, <3>1 DEF Here
    <3>3. making[u].at = "checked" => Available(making[u].name, making[u].mail)'
      <4>1. CASE j \in NewJob
        BY <1>0, <1>1, <3>1, <4>1 DEF IdInv, Creating
      <4>2. CASE j \in OldJob
        BY <1>5, <1>6, <3>1, <4>2 DEF Available, EnteredAs, Here
      <4>3. QED
        BY <1>2, <4>1, <4>2
    <3>4. QED
      BY <1>5, <3>1, <3>2, <3>3
  <2>2. ASSUME making[u] \in OldJob
        PROVE  /\ Here(making[u].who)'
               /\ making[u].at \in {"locked", "checked"} => rowLock'[making[u].who] = u
               /\ making[u].at = "checked" => memberOf'[making[u].who] = NoAgent
    <3>1. /\ Here(making[u].who) /\ making[u].who \in People
          /\ making[u].at \in {"locked", "checked"} => rowLock[making[u].who] = u
          /\ making[u].at = "checked" => memberOf[making[u].who] = NoAgent
      BY <2>2 DEF IdInv, Creating, OldJob
    <3>2. making[u].at = "checked" => making[u].who # j.who
      <4>1. CASE j \in NewJob
        BY <1>0, <1>2, <3>1, <4>1 DEF IdInv, Creating
      <4>2. CASE j \in OldJob
        BY <1>0, <1>1, <3>1, <4>2 DEF IdInv, Creating
      <4>3. QED
        BY <1>2, <4>1, <4>2
    <3>3. QED
      BY <1>5, <1>6, <1>7, <3>1, <3>2
  <2>3. QED
    BY <2>1, <2>2
<1>10. IdTypes' /\ Starting'
  <2>1. \A u \in Registrars :
          making'[u] \in NewJob /\ making'[u].opens => making'[u].agent \in Agents
    BY <1>5, NoJob DEF IdInv, IdTypes
  <2>2. serving' /\ Here(Legacy)'
    BY <1>1, <1>3, <1>6 DEF IdentitiesAssumption
  <2>3. QED
    BY <1>5, <1>6, <1>7, <1>8, <2>1, <2>2 DEF IdTypes, Starting
<1>11. QED
  BY <1>6, <1>7, <1>8, <1>9, <1>10 DEF IdInv

LEMMA SetCustomerEnabledKept ==
    ASSUME IdentitiesAssumption, IdInv, NEW w \in People, SetCustomerEnabled(w)
    PROVE  IdInv'
<1>1. /\ serving /\ Here(w) /\ Seeing
      /\ person' = [person EXCEPT ![w].active = ~@]
      /\ UNCHANGED <<memberOf, agentRow, serving, queue, rowLock, making>>
  BY DEF SetCustomerEnabled
<1>2. PICK r : r = [person[w] EXCEPT !.active = ~@]
  OBVIOUS
<1>3. person' = [person EXCEPT ![w] = r]
  BY <1>1, <1>2
<1>4. person[w] \in PersonRow
  BY <1>1 DEF IdInv, IdTypes, Here, NoPerson
<1>5. r \in PersonRow /\ r.exists /\ r.name = person[w].name /\ r.mail = person[w].mail
  BY <1>2, <1>4 DEF PersonRow
<1>6. /\ person' \in [People -> PersonRow \cup {NoPerson}]
      /\ \A p \in People :
           /\ Here(p)' <=> Here(p)
           /\ Here(p) => person'[p].name = person[p].name /\ person'[p].mail = person[p].mail
  BY <1>1, <1>3, <1>5 DEF IdInv, IdTypes, Here
<1>7. ASSUME NEW l
      PROVE  EnteredAs(l)' = EnteredAs(l)
  <2>1. \A p \in People :
          Here(p)' /\ (person'[p].name = l \/ person'[p].mail = l)
            <=> Here(p) /\ (person[p].name = l \/ person[p].mail = l)
    BY <1>6
  <2>2. QED
    BY <2>1 DEF EnteredAs
<1>8. Looking' /\ visiting' \in Visit \cup {NoTask}
  BY <1>1, SeeingKept DEF IdInv
<1>9. IdTypes' /\ Starting'
  <2>1. serving' /\ Here(Legacy)'
    BY <1>1, <1>6 DEF IdInv, Starting, IdentitiesAssumption
  <2>2. IdTypes'
    BY <1>1, <1>6, <1>8 DEF IdInv, IdTypes
  <2>3. QED
    BY <2>1, <2>2 DEF Starting
<1>10. OneEach'
  BY <1>7 DEF IdInv, OneEach
<1>11. Creating'
  <2>1. \A t \in Registrars :
          /\ making[t] \in NewJob => making[t].who \in People
          /\ making[t] \in OldJob => making[t].who \in People
    BY DEF NewJob, OldJob
  <2>2. \A t \in Registrars :
          /\ making[t] \in NewJob => ~Here(making[t].who)'
          /\ making[t] \in OldJob => Here(making[t].who)'
    BY <1>1, <1>6, <2>1 DEF IdInv, Creating, Here
  <2>3. /\ memberOf' = memberOf /\ queue' = queue /\ rowLock' = rowLock
        /\ making' = making
    BY <1>1
  <2>4. ASSUME NEW t \in Registrars
        PROVE  /\ making[t] \in NewJob =>
                    /\ ~Here(making[t].who)'
                    /\ making[t].at \in {"queued", "checked"} => queue = t
                    /\ making[t].at = "checked" => Available(making[t].name, making[t].mail)'
                    /\ \A u \in Registrars \ {t} :
                         making[u] # NoTask => making[u].who # making[t].who
               /\ making[t] \in OldJob =>
                    /\ Here(making[t].who)'
                    /\ making[t].at \in {"locked", "checked"} => rowLock[making[t].who] = t
                    /\ making[t].at = "checked" => memberOf[making[t].who] = NoAgent
    <3>1. Available(making[t].name, making[t].mail)'
            <=> Available(making[t].name, making[t].mail)
      BY <1>7, <2>3 DEF Available
    <3>2. QED
      BY <2>2, <3>1 DEF IdInv, Creating
  <2>5. QED
    BY <2>3, <2>4 DEF Creating
<1>12. Staffed'
  BY <1>1, <1>6 DEF IdInv, Staffed
<1>13. QED
  BY <1>8, <1>9, <1>10, <1>11, <1>12 DEF IdInv

LEMMA UpdateAgentStatusKept ==
    ASSUME IdentitiesAssumption, IdInv, NEW a \in Agents, UpdateAgentStatus(a)
    PROVE  IdInv'
<1>1. /\ serving /\ agentRow[a] # "none" /\ Seeing
      /\ agentRow' = [agentRow EXCEPT ![a] = IF @ = "active" THEN "disabled" ELSE "active"]
      /\ UNCHANGED <<person, memberOf, serving, queue, rowLock, making>>
  BY DEF UpdateAgentStatus
<1>2. /\ agentRow' \in [Agents -> {"none", "active", "disabled"}]
      /\ \A b \in Agents : agentRow'[b] # "none" => agentRow[b] # "none"
  BY <1>1 DEF IdInv, IdTypes
<1>3. Looking' /\ visiting' \in Visit \cup {NoTask}
  BY <1>1, SeeingKept DEF IdInv
<1>4. IdTypes' /\ Starting'
  BY <1>1, <1>2, <1>3 DEF IdInv, IdTypes, Starting, Here
<1>5. OneEach' /\ Creating'
  BY <1>1 DEF IdInv, OneEach, EnteredAs, Creating, Available, Here
<1>6. Staffed'
  BY <1>1, <1>2 DEF IdInv, Staffed, Here
<1>7. QED
  BY <1>3, <1>4, <1>5, <1>6 DEF IdInv

\* A step of the request: nothing else changes.
LEMMA ReadsKept ==
    ASSUME IdInv, Reads, serving, visiting' \in Visit \cup {NoTask}, Looking'
    PROVE  IdInv'
<1>1. IdTypes' /\ Starting'
  BY DEF Reads, IdInv, IdTypes, Starting, Here
<1>2. OneEach' /\ Creating' /\ Staffed'
  BY DEF Reads, IdInv, OneEach, EnteredAs, Creating, Available, Staffed, Here
<1>3. QED
  BY <1>1, <1>2 DEF IdInv

LEMMA AuthenticateAgentTokenKept ==
    ASSUME IdentitiesAssumption, IdInv, NEW w \in People, AuthenticateAgentToken(w)
    PROVE  IdInv'
<1>1. PICK v : v = [at |-> "person", who |-> w, seen |-> Truths(w)]
  OBVIOUS
<1>2. visiting' = v /\ serving /\ Reads /\ Enabled(w)
  BY <1>1 DEF AuthenticateAgentToken
<1>3. Truths(w) \subseteq {"person", "agent"} /\ "person" \in Truths(w)
  BY <1>2 DEF Truths
<1>4. v \in Visit /\ v.at = "person" /\ v.who = w /\ v.seen = Truths(w)
  BY <1>1, <1>3 DEF Visit
<1>5. Truths(visiting.who)' = Truths(w)
  BY <1>2, <1>4 DEF Reads, Truths, Enabled, Here
<1>6. Looking'
  BY <1>2, <1>3, <1>4, <1>5 DEF Looking
<1>7. QED
  BY <1>2, <1>4, <1>6, ReadsKept

\* What a request has passed by is added to what it knows.
LEMMA VisitOn ==
    ASSUME IdInv, Reads, visiting # NoTask, NEW at \in {"member", "granted"},
           visiting' = [visiting EXCEPT !.at = at], memberOf[visiting.who] # NoAgent,
           at = "granted" => "agent" \in visiting.seen
    PROVE  IdInv'
<1>1. visiting \in Visit
  BY DEF IdInv, IdTypes
<1>2. /\ visiting' \in Visit /\ visiting'.at = at /\ visiting'.who = visiting.who
      /\ visiting'.seen = visiting.seen
  BY <1>1 DEF Visit
<1>3. Truths(visiting.who)' = Truths(visiting.who)
  BY <1>2 DEF Reads, Truths, Enabled, Here
<1>4. Looking'
  BY <1>2, <1>3 DEF IdInv, Looking, Reads
<1>5. serving
  BY DEF IdInv, Starting, IdTypes
<1>6. QED
  BY <1>2, <1>4, <1>5, ReadsKept

LEMMA VisitOver ==
    ASSUME IdInv, Reads, visiting # NoTask, visiting' = NoTask
    PROVE  IdInv'
<1>1. serving
  BY DEF IdInv, Starting, IdTypes
<1>2. Looking'
  BY DEF Looking
<1>3. QED
  BY <1>1, <1>2, ReadsKept

LEMMA AgentMemberForUserKept ==
    ASSUME IdInv, AgentMemberForUser
    PROVE  IdInv'
BY VisitOn, VisitOver DEF AgentMemberForUser

LEMMA AgentSessionForMemberKept ==
    ASSUME IdInv, AgentSessionForMember
    PROVE  IdInv'
<1>1. visiting # NoTask /\ visiting.at = "member" /\ Reads
  BY DEF AgentSessionForMember
<1>2. memberOf[visiting.who] # NoAgent /\ Truths(visiting.who) \subseteq visiting.seen
  BY <1>1 DEF IdInv, Looking
<1>3. CASE AgentActive(visiting.who)
  <2>1. "agent" \in visiting.seen
    BY <1>2, <1>3 DEF AgentActive, Truths
  <2>2. QED
    BY <1>1, <1>2, <1>3, <2>1, VisitOn DEF AgentSessionForMember
<1>4. CASE ~AgentActive(visiting.who)
  BY <1>1, <1>4, VisitOver DEF AgentSessionForMember
<1>5. QED
  BY <1>3, <1>4

LEMMA IdentitiesStart ==
    ASSUME IdentitiesAssumption, IdInit
    PROVE  IdInv
<1>1. PICK a \in Agents : memberOf = [p \in People |-> IF p = Legacy THEN a ELSE NoAgent]
  BY DEF IdInit, IdentitiesAssumption
<1>2. memberOf[Legacy] = a /\ Legacy \in People
  BY <1>1 DEF IdentitiesAssumption
<1>3. agentRow = [b \in Agents |-> IF b = a THEN "active" ELSE "none"]
  BY <1>2 DEF IdInit
<1>4. Account(LegacyName, NoMail) \in PersonRow /\ Account(LegacyName, NoMail).exists
  BY DEF Account, PersonRow
<1>5. /\ person \in [People -> PersonRow \cup {NoPerson}]
      /\ \A p \in People : Here(p) => p = Elder /\ person[p] = Account(LegacyName, NoMail)
  <2>1. ~NoPerson.exists
    BY DEF NoPerson
  <2>2. CASE person = [p \in People |-> NoPerson]
    BY <2>1, <2>2 DEF Here
  <2>3. CASE person = [p \in People |-> IF p = Elder THEN Account(LegacyName, NoMail)
                                        ELSE NoPerson]
    BY <1>4, <2>1, <2>3 DEF Here
  <2>4. QED
    BY <2>2, <2>3 DEF IdInit
<1>6. IdTypes
  <2>1. /\ memberOf \in [People -> Agents \cup {NoAgent}]
        /\ agentRow \in [Agents -> {"none", "active", "disabled"}]
    BY <1>1, <1>3
  <2>2. QED
    BY <1>5, <2>1, NoJob DEF IdTypes, IdInit
<1>7. Starting
  BY <1>5 DEF Starting, IdInit, Account, IdentitiesAssumption
<1>8. OneEach
  BY <1>5 DEF OneEach, EnteredAs
<1>9. Creating /\ Looking
  BY NoJob DEF Creating, Looking, IdInit
<1>10. Staffed
  BY <1>1, <1>2, <1>3 DEF Staffed
<1>11. QED
  BY <1>6, <1>7, <1>8, <1>9, <1>10 DEF IdInv

LEMMA IdentitiesSteps ==
    ASSUME IdentitiesAssumption, IdInv, [IdNext]_idVars
    PROVE  IdInv'
<1>1. CASE UNCHANGED idVars
  <2>1. IdTypes' /\ Starting' /\ OneEach'
    BY <1>1 DEF idVars, IdInv, IdTypes, Starting, OneEach, EnteredAs, Here
  <2>2. Creating' /\ Staffed' /\ Looking'
    BY <1>1 DEF idVars, IdInv, Creating, Available, EnteredAs, Staffed, Looking, Truths,
                Enabled, Here
  <2>3. QED
    BY <2>1, <2>2 DEF IdInv
<1>2. CASE EnsureAgentIdentities \/ Serve
  BY <1>2, EnsureAgentIdentitiesKept, ServeKept
<1>3. ASSUME NEW t \in Registrars, NEW p \in People, NEW n \in Chosen,
             NEW m \in Mails \cup {NoMail}, NEW a \in Agents \cup {NoAgent},
             PrepareNew(t, p, n, m, a)
      PROVE  IdInv'
  BY <1>3, PrepareNewKept
<1>4. ASSUME NEW t \in Registrars, NEW p \in People, NEW a \in Agents,
             PrepareExisting(t, p, a)
      PROVE  IdInv'
  BY <1>4, PrepareExistingKept
<1>5. ASSUME NEW t \in Registrars,
             \/ QueueForIdentity(t) \/ IdentityLoginAvailable(t)
             \/ LockPerson(t) \/ CheckPerson(t) \/ CommitAccount(t) \/ RollbackAccount(t)
      PROVE  IdInv'
  BY <1>5, QueueForIdentityKept, IdentityLoginAvailableKept, LockPersonKept,
     CheckPersonKept, CommitAccountKept, RollbackAccountKept
<1>6. ASSUME NEW p \in People, SetCustomerEnabled(p) \/ AuthenticateAgentToken(p)
      PROVE  IdInv'
  BY <1>6, SetCustomerEnabledKept, AuthenticateAgentTokenKept
<1>7. ASSUME NEW a \in Agents, UpdateAgentStatus(a)
      PROVE  IdInv'
  BY <1>7, UpdateAgentStatusKept
<1>8. CASE AgentMemberForUser \/ AgentSessionForMember
  BY <1>8, AgentMemberForUserKept, AgentSessionForMemberKept
<1>9. CASE Answer
  BY <1>9, VisitOver DEF Answer
<1>10. QED
  BY <1>1, <1>2, <1>3, <1>4, <1>5, <1>6, <1>7, <1>8, <1>9 DEF IdNext

\* The inductive invariant: whoever creates an account holds the one row of
\* account_identity_lock from its check to its commit (prepareAgentIdentity), and
\* whoever makes a member of a person holds that person's row.
THEOREM IdentitiesInvariant == IdSpec => []IdInv
<1>1. IdInit => IdInv
  BY IdentitiesStart, IdentitiesAssumption
<1>2. IdInv /\ [IdNext]_idVars => IdInv'
  BY IdentitiesSteps, IdentitiesAssumption
<1>3. QED
  BY <1>1, <1>2, PTL DEF IdSpec

\* What somebody enters belongs to one account at most, an agent that exists has a
\* member, and a member's request passes only when its person and its agent were both
\* enabled while it ran (IdentityLoginAvailable, AuthenticateAgentToken).
THEOREM IdentitiesSoundHolds == IdSpec => []IdentitiesSound
<1>1. IdInv => IdentitiesSound
  <2> SUFFICES ASSUME IdInv
               PROVE  IdentitiesSound
    OBVIOUS
  <2>1. ASSUME NEW l \in Logins
        PROVE  Cardinality(EnteredAs(l)) <= 1
    <3>1. CASE EnteredAs(l) = {}
      BY <3>1, FS_EmptySet
    <3>2. CASE EnteredAs(l) # {}
      <4>1. PICK p : EnteredAs(l) = {p}
        BY <3>2 DEF IdInv, OneEach
      <4>2. QED
        BY <4>1, FS_Singleton
    <3>3. QED
      BY <3>1, <3>2
  <2>2. \A a \in Agents : agentRow[a] # "none" => \E p \in People : memberOf[p] = a
    BY DEF IdInv, Staffed
  <2>3. visiting # NoTask /\ visiting.at = "granted" => visiting.seen = {"person", "agent"}
    BY DEF IdInv, IdTypes, Visit, Looking
  <2>4. QED
    BY <2>1, <2>2, <2>3 DEF IdentitiesSound
<1>2. QED
  BY <1>1, IdentitiesInvariant, PTL


-----------------------------------------------------------------------------
(* The licence of the retired routes *)

BindingRow == [value : Values, status : {"active", "kicked", "unbound", "revoked"}]
InstallRow == [row : Nat, status : {"none", "active", "disabled"}]
SeatRow == [until : Nat, borrowed : BOOLEAN]
TicketRow == [state : {"none", "open", "expired"}, by : Users \cup {Nobody}]

BindTypes ==
    /\ lic \in [status : {"none", "active", "revoked"}, until : Nat, owner : Users \cup {Nobody}]
    /\ rows \in Seq(BindingRow)
    /\ installs \in [Instances -> InstallRow]

SeatTypes ==
    /\ day \in Nat /\ seats \in [Places -> SeatRow] /\ lent \in [Places -> Nat]

OnceTypes ==
    /\ changes \in [count : Nat, done : SUBSET ChangeIds]
    /\ renewal \in [RenewalCards -> {"unused", "used", "gone"}]
    /\ tickets \in [Tickets -> TicketRow]
    /\ spent \in [RenewalCards -> Nat]
    /\ given \in [Tickets -> SUBSET Users]

\* The bindings that are active, or would be again if the licence were restored,
\* and the installations that would count.
Alive(bs) == {r \in DOMAIN bs : bs[r].status \in {"active", "revoked"}}
Counting(ins, bs) == {i \in Instances : ins[i].status = "active" /\ ins[i].row \in Alive(bs)}

\* Revocation and restoration move all of them at once.
RevokedTogether ==
    /\ lic.status # "none" => card = "activated"
    /\ IF lic.status = "revoked" THEN Live(rows) = {}
       ELSE \A r \in DOMAIN rows : rows[r].status # "revoked"

\* The terms hold of those too, so that a restoration stays within them.
AliveWithin ==
    LET C == Counting(installs, rows)
    IN /\ Cardinality(Alive(rows)) <= MaxBindings
       /\ Cardinality(C) <= MaxDeployments
       /\ MaxDevices > 0 => Cardinality({DeviceOf[i] : i \in C}) <= MaxDevices

Installed == {i \in Instances : installs[i].status # "none"}
Leased == {p \in Places : seats[p].until # 0}

InstallsKnown ==
    (\A i \in Instances : installs[i].row <= Len(rows)) /\ IsFiniteSet(Installed)

SeatsWithin == Cardinality(TakenSeats) <= MaxSeats /\ IsFiniteSet(Leased)

CountedOnce ==
    /\ changes.count <= ChangeLimit
    /\ \A k \in RenewalCards : spent[k] = IF renewal[k] = "used" THEN 1 ELSE 0
    /\ \A t \in Tickets : given[t] = IF tickets[t].by = Nobody THEN {} ELSE {tickets[t].by}

BindInv == BindTypes /\ RevokedTogether /\ AliveWithin /\ InstallsKnown
SeatInv == SeatTypes /\ SeatsWithin /\ BorrowedKept
OnceInv == OnceTypes /\ CountedOnce

\* Inductive.
ClassicInv == BindInv /\ SeatInv /\ OnceInv

\* The devices of finitely many installations.
LEMMA DevicesOf ==
    ASSUME NEW C, IsFiniteSet(C)
    PROVE  IsFiniteSet({DeviceOf[i] : i \in C})
<1> DEFINE D == {DeviceOf[i] : i \in C}
           f == [i \in C |-> DeviceOf[i]]
<1>1. f \in Surjection(C, D)
  BY DEF Surjection
<1> HIDE DEF D, f
<1>2. IsFiniteSet(D)
  BY <1>1, FS_Surjection
<1>3. QED
  BY <1>2 DEF D

\* The terms for the installations C.
Allowed(C) ==
    /\ Cardinality(C) <= MaxDeployments
    /\ MaxDevices > 0 => Cardinality({DeviceOf[i] : i \in C}) <= MaxDevices

LEMMA AllowedFewer ==
    ASSUME ClassicAssumption, NEW D, IsFiniteSet(D), Allowed(D), NEW C, C \subseteq D
    PROVE  Allowed(C) /\ IsFiniteSet(C)
<1> DEFINE c == {DeviceOf[i] : i \in C}
           d == {DeviceOf[i] : i \in D}
<1>1. IsFiniteSet(d) /\ c \subseteq d
  BY DevicesOf
<1>2. IsFiniteSet(C) /\ Cardinality(C) <= Cardinality(D)
  BY FS_Subset
<1>3. IsFiniteSet(c) /\ Cardinality(c) <= Cardinality(d)
  <2> HIDE DEF c, d
  <2>1. QED
    BY <1>1, FS_Subset
<1>4. /\ Cardinality(C) \in Nat /\ Cardinality(D) \in Nat
      /\ Cardinality(c) \in Nat /\ Cardinality(d) \in Nat
  <2> HIDE DEF c, d
  <2>1. QED
    BY <1>1, <1>2, <1>3, FS_CardinalityType
<1>5. MaxDeployments \in Nat /\ MaxDevices \in Nat
  BY DEF ClassicAssumption
<1>6. Cardinality(D) <= MaxDeployments /\ (MaxDevices > 0 => Cardinality(d) <= MaxDevices)
  BY DEF Allowed
<1>7. Cardinality(C) <= MaxDeployments
  BY <1>2, <1>4, <1>5, <1>6
<1>8. MaxDevices > 0 => Cardinality(c) <= MaxDevices
  <2> HIDE DEF c, d
  <2>1. QED
    BY <1>3, <1>4, <1>5, <1>6
<1>9. QED
  BY <1>2, <1>7, <1>8 DEF Allowed

\* An installation more, where there is room for it.
LEMMA AllowedOneMore ==
    ASSUME ClassicAssumption, NEW C, IsFiniteSet(C), NEW i,
           Allowed(C), Cardinality(C) < MaxDeployments,
           MaxDevices > 0 => \/ DeviceOf[i] \in {DeviceOf[k] : k \in C}
                             \/ Cardinality({DeviceOf[k] : k \in C}) < MaxDevices
    PROVE  Allowed(C \cup {i})
<1> DEFINE c == {DeviceOf[k] : k \in C}
           d == {DeviceOf[k] : k \in C \cup {i}}
<1>1. IsFiniteSet(c) /\ d = c \cup {DeviceOf[i]}
  BY DevicesOf
<1>2. /\ Cardinality(c) \in Nat /\ Cardinality(C) \in Nat
      /\ Cardinality(C \cup {i}) <= Cardinality(C) + 1
  <2>1. Cardinality(C) \in Nat /\ Cardinality(c) \in Nat
    BY <1>1, FS_CardinalityType
  <2>2. Cardinality(C \cup {i}) = IF i \in C THEN Cardinality(C) ELSE Cardinality(C) + 1
    BY FS_AddElement
  <2> HIDE DEF c, d
  <2>3. QED
    BY <2>1, <2>2
<1>3. Cardinality(d) = IF DeviceOf[i] \in c THEN Cardinality(c) ELSE Cardinality(c) + 1
  <2> HIDE DEF c, d
  <2>1. QED
    BY <1>1, FS_AddElement
<1>4. MaxDeployments \in Nat /\ MaxDevices \in Nat
  BY DEF ClassicAssumption
<1>5. Cardinality(C \cup {i}) <= MaxDeployments
  <2>1. Cardinality(C \cup {i}) \in Nat
    BY FS_AddElement, FS_CardinalityType
  <2>2. QED
    BY <1>2, <1>4, <2>1
<1>6. MaxDevices > 0 => Cardinality(d) <= MaxDevices
  <2>1. MaxDevices > 0 => /\ DeviceOf[i] \in c \/ Cardinality(c) < MaxDevices
                          /\ Cardinality(c) <= MaxDevices
    BY DEF Allowed
  <2> HIDE DEF c, d
  <2>2. QED
    BY <1>2, <1>3, <1>4, <2>1
<1>7. QED
  BY <1>5, <1>6 DEF Allowed

\* What counts is installed, and there is finitely much of it.
LEMMA CountingFinite ==
    ASSUME InstallsKnown, NEW bs
    PROVE  Counting(installs, bs) \subseteq Installed /\ IsFiniteSet(Counting(installs, bs))
<1>1. Counting(installs, bs) \subseteq Installed
  BY DEF Counting, Installed
<1>2. QED
  BY <1>1, FS_Subset DEF InstallsKnown

\* An installation is registered under binding r of the bindings bs.
LEMMA RegisterWithin ==
    ASSUME ClassicAssumption, BindTypes, InstallsKnown, AliveWithin,
           NEW bs, NEW r \in Nat, NEW i \in Instances \cup {Nobody},
           RegisterInstallation(i, r, bs), r \in Live(bs), Live(bs) = Alive(bs),
           Counting(installs, bs) \subseteq Counting(installs, rows)
    PROVE  /\ installs' \in [Instances -> InstallRow]
           /\ \A k \in Instances : installs'[k].row \in {installs[k].row, r}
           /\ IsFiniteSet(Installed') /\ Allowed(Counting(installs', bs))
<1> DEFINE C == Counting(installs, bs)
<1>1. /\ IsFiniteSet(Installed) /\ IsFiniteSet(C) /\ Allowed(C)
      /\ installs \in [Instances -> InstallRow]
  <2>1. IsFiniteSet(Installed) /\ IsFiniteSet(Counting(installs, rows)) /\ IsFiniteSet(C)
    BY CountingFinite DEF InstallsKnown
  <2>2. Allowed(Counting(installs, rows))
    BY DEF AliveWithin, Allowed
  <2> HIDE DEF C
  <2>3. C \subseteq Counting(installs, rows)
    BY DEF C
  <2>4. QED
    BY <2>1, <2>2, <2>3, AllowedFewer DEF BindTypes
<1>2. CASE i = Nobody
  <2>1. UNCHANGED installs
    BY <1>2 DEF RegisterInstallation
  <2>2. QED
    BY <1>1, <2>1 DEF Installed
<1>3. CASE i # Nobody
  <2>1. /\ i \in Instances /\ MayRegister(i, r, bs)
        /\ installs' = [installs EXCEPT ![i] = [row |-> r, status |-> "active"]]
    BY <1>3 DEF RegisterInstallation
  <2>2. PICK new : /\ new = [row |-> r, status |-> "active"]
                   /\ installs' = [installs EXCEPT ![i] = new]
    BY <2>1
  <2>3. new \in InstallRow /\ new.row = r /\ new.status = "active"
    BY <2>2 DEF InstallRow
  <2>4. /\ installs' \in [Instances -> InstallRow]
        /\ \A k \in Instances : installs'[k] = IF k = i THEN new ELSE installs[k]
    BY <1>1, <2>1, <2>2, <2>3
  <2>5. Installed' = Installed \cup {i} /\ IsFiniteSet(Installed')
    <3>1. Installed' = Installed \cup {i}
      BY <2>1, <2>3, <2>4 DEF Installed
    <3>2. QED
      BY <1>1, <3>1, FS_AddElement
  <2>6. Counting(installs', bs) = C \cup {i}
    BY <2>1, <2>3, <2>4 DEF Counting
  <2>7. Allowed(C \cup {i})
    <3>1. CASE installs[i].status = "none"
      <4>1. Counted(installs, bs) = C
        BY DEF Counted, Counting
      <4>2. /\ Cardinality(C) < MaxDeployments
            /\ MaxDevices > 0 => \/ DeviceOf[i] \in {DeviceOf[k] : k \in C}
                                 \/ Cardinality({DeviceOf[k] : k \in C}) < MaxDevices
        BY <2>1, <3>1, <4>1 DEF MayRegister
      <4> HIDE DEF C
      <4>3. QED
        BY <1>1, <4>2, AllowedOneMore
    <3>2. CASE installs[i].status # "none"
      <4>1. installs[i] = [row |-> r, status |-> "active"]
        BY <2>1, <3>2 DEF MayRegister
      <4>2. i \in C
        BY <2>1, <4>1 DEF Counting
      <4>3. C \cup {i} = C
        BY <4>2
      <4>4. QED
        BY <1>1, <4>3
    <3>3. QED
      BY <3>1, <3>2
  <2>8. QED
    BY <2>3, <2>4, <2>5, <2>6, <2>7
<1>4. QED
  BY <1>2, <1>3

LEMMA BindSame == ASSUME BindInv, UNCHANGED <<lic, card, rows, installs>> PROVE BindInv'
BY DEF BindInv, BindTypes, RevokedTogether, AliveWithin, InstallsKnown, Alive, Counting,
       Installed, Live

LEMMA SeatSame == ASSUME SeatInv, UNCHANGED <<day, seats, lent>> PROVE SeatInv'
BY DEF SeatInv, SeatTypes, SeatsWithin, BorrowedKept, TakenSeats, Held, Leased

LEMMA OnceSame ==
    ASSUME OnceInv, UNCHANGED <<changes, renewal, spent, tickets, given>> PROVE OnceInv'
BY DEF OnceInv, OnceTypes, CountedOnce

\* Bindings and installations that are left when some are taken away.
LEMMA AliveFewer ==
    ASSUME ClassicAssumption, BindInv, NEW bs \in Seq(BindingRow),
           Alive(bs) \subseteq Alive(rows),
           NEW ins, Counting(ins, bs) \subseteq Counting(installs, rows)
    PROVE  Cardinality(Alive(bs)) <= MaxBindings /\ Allowed(Counting(ins, bs))
<1>1. IsFiniteSet(Alive(rows))
  <2>1. rows \in Seq(BindingRow)
    BY DEF BindInv, BindTypes
  <2>2. IsFiniteSet(DOMAIN rows)
    BY <2>1, FS_Interval
  <2>3. Alive(rows) \subseteq DOMAIN rows
    BY DEF Alive
  <2>4. QED
    BY <2>2, <2>3, FS_Subset
<1>2. IsFiniteSet(Alive(bs)) /\ Cardinality(Alive(bs)) <= Cardinality(Alive(rows))
  BY <1>1, FS_Subset
<1>3. Cardinality(Alive(bs)) \in Nat /\ Cardinality(Alive(rows)) \in Nat
  BY <1>1, <1>2, FS_CardinalityType
<1>4. Cardinality(Alive(rows)) <= MaxBindings /\ MaxBindings \in Nat
  BY DEF BindInv, AliveWithin, ClassicAssumption
<1>5. Cardinality(Alive(bs)) <= MaxBindings
  BY SMTT(30), <1>2, <1>3, <1>4
<1>6. IsFiniteSet(Counting(installs, rows)) /\ Allowed(Counting(installs, rows))
  BY CountingFinite DEF BindInv, AliveWithin, Allowed
<1>7. Allowed(Counting(ins, bs))
  BY <1>6, AllowedFewer
<1>8. QED
  BY <1>5, <1>7

\* A binding is unbound or gets another value: no more of them count.
LEMMA RowKeeps ==
    ASSUME ClassicAssumption, BindInv, NEW r \in Live(rows), NEW new \in BindingRow,
           new.status \in {"active", "unbound"}, rows' = [rows EXCEPT ![r] = new],
           UNCHANGED <<lic, card, installs>>
    PROVE  BindInv'
<1>1. rows \in Seq(BindingRow) /\ BindTypes /\ RevokedTogether
  BY DEF BindInv, BindTypes
<1>2. r \in DOMAIN rows /\ rows[r].status = "active"
  BY DEF Live
<1>3. /\ rows' \in Seq(BindingRow) /\ Len(rows') = Len(rows) /\ DOMAIN rows' = DOMAIN rows
      /\ \A q \in DOMAIN rows : rows'[q] = IF q = r THEN new ELSE rows[q]
  BY <1>1, <1>2
<1>4. Alive(rows') \subseteq Alive(rows)
  BY <1>2, <1>3 DEF Alive
<1>5. Counting(installs, rows') \subseteq Counting(installs, rows)
  BY <1>4 DEF Counting
<1>6. Cardinality(Alive(rows')) <= MaxBindings /\ Allowed(Counting(installs, rows'))
  BY <1>3, <1>4, <1>5, AliveFewer
<1>7. AliveWithin'
  BY <1>6 DEF AliveWithin, Allowed
<1>8. RevokedTogether'
  <2>1. Live(rows) # {}
    OBVIOUS
  <2>2. lic.status # "revoked"
    BY <1>1, <2>1 DEF RevokedTogether
  <2>3. \A q \in DOMAIN rows' : rows'[q].status # "revoked"
    BY <1>1, <1>3, <2>2 DEF RevokedTogether
  <2>4. QED
    BY <1>1, <2>2, <2>3 DEF RevokedTogether
<1>9. InstallsKnown'
  BY <1>3 DEF BindInv, InstallsKnown, Installed
<1>10. BindTypes'
  BY <1>1, <1>3 DEF BindTypes
<1>11. QED
  BY <1>7, <1>8, <1>9, <1>10 DEF BindInv

\* A change is counted while there is one left.
LEMMA ChangeKeeps ==
    ASSUME ClassicAssumption, OnceInv, GuardBindingChange,
           NEW new, new.count = changes.count + 1,
           new \in [count : Nat, done : SUBSET ChangeIds], changes' = new,
           UNCHANGED <<renewal, spent, tickets, given>>
    PROVE  OnceInv'
<1>1. changes.count \in Nat /\ changes.count < ChangeLimit /\ ChangeLimit \in Nat
  BY DEF GuardBindingChange, OnceInv, OnceTypes, ClassicAssumption
<1>2. changes'.count <= ChangeLimit
  BY <1>1
<1>3. QED
  BY <1>2 DEF OnceInv, OnceTypes, CountedOnce

LEMMA AddedChange ==
    ASSUME OnceInv
    PROVE  /\ AddBindingChange.count = changes.count + 1
           /\ AddBindingChange \in [count : Nat, done : SUBSET ChangeIds]
           /\ AddBindingChange.done = changes.done
<1>1. changes = [count |-> changes.count, done |-> changes.done]
      /\ changes.count \in Nat /\ changes.done \in SUBSET ChangeIds
  BY DEF OnceInv, OnceTypes
<1>2. AddBindingChange = [count |-> changes.count + 1, done |-> changes.done]
  BY <1>1 DEF AddBindingChange
<1>3. QED
  BY <1>1, <1>2

\* Nothing is revoked while the licence is not.
LEMMA AliveIsLive ==
    ASSUME NEW bs \in Seq(BindingRow), \A r \in DOMAIN bs : bs[r].status # "revoked"
    PROVE  Live(bs) = Alive(bs)
BY DEF Live, Alive

\* A binding is appended to bs, in which there is room for it, and an
\* installation is registered under it.
LEMMA AppendKeeps ==
    ASSUME ClassicAssumption, BindInv, NEW bs \in Seq(BindingRow), Len(bs) = Len(rows),
           Alive(bs) \subseteq Alive(rows), \A r \in DOMAIN bs : bs[r].status # "revoked",
           Cardinality(Alive(bs)) < MaxBindings,
           NEW row \in BindingRow, row.status = "active",
           rows' = Append(bs, row), NEW i \in Instances \cup {Nobody},
           RegisterInstallation(i, Len(rows'), rows'),
           lic' \in [status : {"none", "active", "revoked"}, until : Nat,
                     owner : Users \cup {Nobody}],
           lic'.status = "active", card' = "activated"
    PROVE  BindInv'
<1>1. /\ BindTypes /\ InstallsKnown /\ AliveWithin /\ rows \in Seq(BindingRow)
      /\ installs \in [Instances -> InstallRow]
  BY DEF BindInv, BindTypes
<1> DEFINE n == Len(rows) + 1
<1>2. /\ rows' \in Seq(BindingRow) /\ Len(rows') = n /\ DOMAIN rows' = 1 .. n
      /\ n \in Nat /\ rows'[n] = row /\ \A q \in 1 .. Len(rows) : rows'[q] = bs[q]
      /\ DOMAIN bs = 1 .. Len(rows) /\ DOMAIN rows = 1 .. Len(rows) /\ Len(rows) \in Nat
  BY SMTT(30), <1>1
<1>3. \A r \in DOMAIN rows' : rows'[r].status # "revoked"
  BY SMTT(30), <1>2
<1>4. Live(rows') = Alive(rows')
  BY <1>2, <1>3, AliveIsLive
<1>5. n \notin Alive(bs) /\ Alive(rows') = Alive(bs) \cup {n}
  BY SMTT(30), <1>2 DEF Alive
<1>6. IsFiniteSet(Alive(bs))
  <2>1. IsFiniteSet(1 .. Len(rows))
    BY <1>2, FS_Interval
  <2>2. Alive(bs) \subseteq 1 .. Len(rows)
    BY <1>2 DEF Alive
  <2>3. QED
    BY <2>1, <2>2, FS_Subset
<1>7. Cardinality(Alive(rows')) <= MaxBindings
  <2>1. Cardinality(Alive(bs)) \in Nat /\ Cardinality(Alive(bs) \cup {n}) = Cardinality(Alive(bs)) + 1
    BY <1>5, <1>6, FS_AddElement, FS_CardinalityType
  <2>2. MaxBindings \in Nat
    BY DEF ClassicAssumption
  <2>3. QED
    BY SMTT(30), <1>5, <2>1, <2>2
<1>8. \A k \in Instances : installs[k].row \in Nat /\ installs[k].row <= Len(rows)
  BY <1>1 DEF InstallRow, InstallsKnown
<1>9. Counting(installs, rows') \subseteq Counting(installs, rows)
  <2>1. ASSUME NEW k \in Counting(installs, rows') PROVE k \in Counting(installs, rows)
    <3>1. k \in Instances /\ installs[k].status = "active" /\ installs[k].row \in Alive(rows')
      BY DEF Counting
    <3>2. installs[k].row # n
      BY SMTT(30), <1>2, <1>8, <3>1
    <3>3. installs[k].row \in Alive(rows)
      BY <1>5, <3>1, <3>2
    <3>4. QED
      BY <3>1, <3>3 DEF Counting
  <2>2. QED
    BY <2>1
<1>10. n \in Live(rows')
  BY <1>4, <1>5
<1>11. PICK b : b = rows'
  OBVIOUS
<1>12. RegisterInstallation(i, n, b)
  BY <1>2, <1>11
<1>13. /\ installs' \in [Instances -> InstallRow]
       /\ \A k \in Instances : installs'[k].row \in {installs[k].row, n}
       /\ IsFiniteSet(Installed') /\ Allowed(Counting(installs', b))
  <2>1. n \in Live(b) /\ Live(b) = Alive(b) /\ n \in Nat
    BY <1>2, <1>4, <1>10, <1>11
  <2>2. Counting(installs, b) \subseteq Counting(installs, rows)
    BY <1>9, <1>11
  <2> HIDE DEF n
  <2>3. QED
    BY <1>1, <1>12, <2>1, <2>2, RegisterWithin
<1>14. BindTypes'
  BY <1>2, <1>13 DEF BindTypes
<1>15. AliveWithin'
  <2>1. Allowed(Counting(installs', rows'))
    BY <1>11, <1>13
  <2>2. QED
    BY <1>7, <2>1 DEF AliveWithin, Allowed
<1>16. InstallsKnown'
  <2>1. ASSUME NEW k \in Instances PROVE installs'[k].row <= n
    <3>1. installs[k].row <= Len(rows) /\ installs[k].row \in Nat /\ Len(rows) \in Nat
      BY <1>2, <1>8
    <3>2. CASE installs'[k].row = installs[k].row
      BY SMTT(30), <3>1, <3>2
    <3>3. CASE installs'[k].row = n
      BY <3>1, <3>3
    <3>4. QED
      BY <1>13, <3>2, <3>3
  <2>2. QED
    BY <1>2, <1>13, <2>1 DEF InstallsKnown
<1>17. RevokedTogether'
  BY <1>3 DEF RevokedTogether
<1>18. QED
  BY <1>14, <1>15, <1>16, <1>17 DEF BindInv

LEMMA ActivateBinds ==
    ASSUME ClassicAssumption, BindInv, SeatInv,
           NEW v \in Values, NEW i \in Instances \cup {Nobody},
           NEW u \in Users \cup {Nobody}, Activate(v, i, u)
    PROVE  BindInv'
<1> DEFINE row == [value |-> v, status |-> "active"]
<1>1. /\ BindTypes /\ InstallsKnown /\ AliveWithin /\ RevokedTogether
      /\ rows \in Seq(BindingRow) /\ MaxBindings \in Nat \ {0}
  BY DEF BindInv, BindTypes, ClassicAssumption
<1>2. /\ lic' \in [status : {"none", "active", "revoked"}, until : Nat,
                   owner : Users \cup {Nobody}]
      /\ lic'.status = "active" /\ card' = "activated"
  <2>1. day \in Nat /\ Term \in Nat
    BY DEF SeatInv, SeatTypes, ClassicAssumption
  <2>2. CASE card = "unused"
    BY <2>1, <2>2 DEF Activate, NewLicense
  <2>3. CASE card # "unused"
    BY <1>1, <2>3 DEF Activate, Within, BindTypes
  <2>4. QED
    BY <2>2, <2>3
<1>3. \A r \in DOMAIN rows : rows[r].status # "revoked"
  <2>1. lic.status # "revoked"
    BY <1>1 DEF Activate, Within, RevokedTogether
  <2>2. QED
    BY <1>1, <2>1 DEF RevokedTogether
<1>4. Live(rows) = Alive(rows)
  BY <1>1, <1>3, AliveIsLive
<1>5. row \in BindingRow /\ row.status = "active"
  BY DEF BindingRow
<1>6. IsFiniteSet(Alive(rows)) /\ Cardinality(Alive(rows)) \in Nat
  <2>1. IsFiniteSet(DOMAIN rows) /\ Alive(rows) \subseteq DOMAIN rows
    BY <1>1, FS_Interval DEF Alive
  <2>2. QED
    BY <2>1, FS_Subset, FS_CardinalityType
<1>7. CASE Exact(v) # 0 /\ RegisterInstallation(i, Exact(v), rows) /\ UNCHANGED rows
  <2>1. Exact(v) \in Live(rows)
    BY <1>7 DEF Exact
  <2>2. PICK r : r = Exact(v)
    OBVIOUS
  <2>3. r \in Nat /\ r \in Live(rows) /\ RegisterInstallation(i, r, rows) /\ r \in DOMAIN rows
    BY <1>1, <1>7, <2>1, <2>2 DEF Live
  <2>4. /\ installs' \in [Instances -> InstallRow]
        /\ \A k \in Instances : installs'[k].row \in {installs[k].row, r}
        /\ IsFiniteSet(Installed') /\ Allowed(Counting(installs', rows))
    <3>1. PICK b : b = rows
      OBVIOUS
    <3>2. /\ RegisterInstallation(i, r, b) /\ r \in Live(b) /\ Live(b) = Alive(b)
          /\ Counting(installs, b) \subseteq Counting(installs, rows)
      BY <1>4, <2>3, <3>1
    <3>3. /\ installs' \in [Instances -> InstallRow]
          /\ \A k \in Instances : installs'[k].row \in {installs[k].row, r}
          /\ IsFiniteSet(Installed') /\ Allowed(Counting(installs', b))
      BY <1>1, <2>3, <3>2, RegisterWithin
    <3>4. QED
      BY <3>1, <3>3
  <2>5. BindTypes'
    BY <1>1, <1>2, <1>7, <2>4 DEF BindTypes
  <2>6. Alive(rows') = Alive(rows) /\ Counting(installs', rows') = Counting(installs', rows)
    BY <1>7
  <2>7. AliveWithin'
    BY <1>1, <2>4, <2>6 DEF AliveWithin, Allowed
  <2>8. InstallsKnown'
    BY SMTT(30), <1>1, <1>7, <2>3, <2>4 DEF InstallsKnown
  <2>9. RevokedTogether'
    BY <1>2, <1>3, <1>7 DEF RevokedTogether
  <2>10. QED
    BY <2>5, <2>7, <2>8, <2>9 DEF BindInv
<1>8. CASE /\ Cardinality(Live(rows)) < MaxBindings /\ rows' = Append(rows, row)
           /\ RegisterInstallation(i, Len(rows'), rows')
  <2> HIDE DEF row
  <2>1. PICK b : b = rows
    OBVIOUS
  <2>2. /\ b \in Seq(BindingRow) /\ Len(b) = Len(rows) /\ Alive(b) \subseteq Alive(rows)
        /\ \A r \in DOMAIN b : b[r].status # "revoked"
        /\ Cardinality(Alive(b)) < MaxBindings /\ rows' = Append(b, row)
    BY <1>1, <1>3, <1>4, <1>8, <2>1
  <2>3. QED
    BY <1>2, <1>5, <1>8, <2>2, AppendKeeps
<1>9. CASE /\ \E oldest \in Live(rows) :
                rows' = Append([rows EXCEPT ![oldest].status = "kicked"], row)
           /\ RegisterInstallation(i, Len(rows'), rows')
  <2>1. PICK oldest \in Live(rows) :
               rows' = Append([rows EXCEPT ![oldest].status = "kicked"], row)
    BY <1>9
  <2> HIDE DEF row
  <2>2. oldest \in DOMAIN rows /\ rows[oldest] \in BindingRow
    BY <1>1 DEF Live
  <2>3. PICK old : old = [rows[oldest] EXCEPT !.status = "kicked"]
    OBVIOUS
  <2>4. rows[oldest] = [value |-> rows[oldest].value, status |-> rows[oldest].status]
        /\ rows[oldest].value \in Values
    BY <2>2 DEF BindingRow
  <2>5. old = [value |-> rows[oldest].value, status |-> "kicked"]
    BY <2>3, <2>4
  <2>6. old \in BindingRow /\ old.status = "kicked"
    BY <2>4, <2>5 DEF BindingRow
  <2>7. PICK b : b = [rows EXCEPT ![oldest] = old]
    OBVIOUS
  <2>8. rows' = Append(b, row)
    BY <2>1, <2>3, <2>7
  <2>9. /\ b \in Seq(BindingRow) /\ Len(b) = Len(rows) /\ DOMAIN b = DOMAIN rows
        /\ \A q \in DOMAIN rows : b[q] = IF q = oldest THEN old ELSE rows[q]
    BY <1>1, <2>2, <2>6, <2>7
  <2>10. \A r \in DOMAIN b : b[r].status # "revoked"
    BY <1>3, <2>6, <2>9
  <2>11. Alive(b) = Alive(rows) \ {oldest}
    BY <2>6, <2>9 DEF Alive
  <2>12. Cardinality(Alive(b)) < MaxBindings
    <3>1. oldest \in Alive(rows)
      BY <1>4
    <3>2. Cardinality(Alive(rows) \ {oldest}) = Cardinality(Alive(rows)) - 1
      BY <1>6, <3>1, FS_RemoveElement
    <3>3. Cardinality(Alive(rows)) <= MaxBindings
      BY <1>1 DEF AliveWithin
    <3>4. QED
      BY <1>1, <1>6, <2>11, <3>2, <3>3
  <2>13. QED
    BY <1>2, <1>5, <1>9, <2>8, <2>9, <2>10, <2>11, <2>12, AppendKeeps
<1>10. QED
  BY <1>7, <1>8, <1>9 DEF Activate

\* The status of every binding is set anew and the same bindings stay alive.
LEMMA FlipKeeps ==
    ASSUME BindInv, NEW now \in [DOMAIN rows -> {"active", "kicked", "unbound", "revoked"}],
           \A r \in DOMAIN rows :
             (now[r] \in {"active", "revoked"}) <=> (rows[r].status \in {"active", "revoked"}),
           rows' = [r \in DOMAIN rows |-> [value |-> rows[r].value, status |-> now[r]]],
           UNCHANGED installs,
           lic' \in [status : {"none", "active", "revoked"}, until : Nat,
                     owner : Users \cup {Nobody}],
           RevokedTogether'
    PROVE  BindInv'
<1>1. /\ BindTypes /\ InstallsKnown /\ AliveWithin /\ rows \in Seq(BindingRow)
      /\ Len(rows) \in Nat /\ DOMAIN rows = 1 .. Len(rows)
  BY DEF BindInv, BindTypes
<1>2. \A r \in DOMAIN rows : rows[r].value \in Values
  <2>1. \A r \in DOMAIN rows : rows[r] \in BindingRow
    BY <1>1
  <2>2. QED
    BY <2>1 DEF BindingRow
<1>3. /\ DOMAIN rows' = DOMAIN rows
      /\ \A r \in DOMAIN rows : rows'[r] \in BindingRow /\ rows'[r].status = now[r]
  BY <1>2 DEF BindingRow
<1>4. rows' \in Seq(BindingRow) /\ Len(rows') = Len(rows)
  <2>1. rows' \in [1 .. Len(rows) -> BindingRow]
    BY <1>1, <1>3
  <2>2. QED
    BY <1>1, <2>1
<1>5. Alive(rows') = Alive(rows)
  BY <1>3 DEF Alive
<1>6. Counting(installs', rows') = Counting(installs, rows)
  BY <1>5 DEF Counting
<1>7. BindTypes'
  BY <1>1, <1>4 DEF BindTypes
<1>8. AliveWithin'
  BY <1>1, <1>5, <1>6 DEF AliveWithin
<1>9. InstallsKnown'
  BY <1>1, <1>4 DEF InstallsKnown, Installed
<1>10. QED
  BY <1>7, <1>8, <1>9 DEF BindInv

LEMMA RevokeKeeps == ASSUME BindInv, RevokeLicense PROVE BindInv'
<1> DEFINE now == [r \in DOMAIN rows |-> IF rows[r].status = "active" THEN "revoked"
                                          ELSE rows[r].status]
<1>1. rows \in Seq(BindingRow) /\ BindTypes /\ RevokedTogether
  BY DEF BindInv, BindTypes
<1>2. \A r \in DOMAIN rows : rows[r] \in BindingRow
  BY <1>1
<1>3. now \in [DOMAIN rows -> {"active", "kicked", "unbound", "revoked"}]
  BY <1>2 DEF BindingRow
<1>4. \A r \in DOMAIN rows :
        (now[r] \in {"active", "revoked"}) <=> (rows[r].status \in {"active", "revoked"})
  OBVIOUS
<1>5. ASSUME NEW r \in DOMAIN rows
      PROVE  (IF r \in Live(rows) THEN [rows[r] EXCEPT !.status = "revoked"] ELSE rows[r])
             = [value |-> rows[r].value, status |-> now[r]]
  <2>1. rows[r] = [value |-> rows[r].value, status |-> rows[r].status]
    BY <1>2 DEF BindingRow
  <2>2. [rows[r] EXCEPT !.status = "revoked"] = [value |-> rows[r].value, status |-> "revoked"]
    BY <2>1
  <2>3. CASE rows[r].status = "active"
    BY <2>2, <2>3 DEF Live
  <2>4. CASE rows[r].status # "active"
    BY <2>1, <2>4 DEF Live
  <2>5. QED
    BY <2>3, <2>4
<1> HIDE DEF now
<1>6. rows' = [r \in DOMAIN rows |-> [value |-> rows[r].value, status |-> now[r]]]
  BY <1>5 DEF RevokeLicense
<1>8. /\ lic.until \in Nat /\ lic.owner \in Users \cup {Nobody} /\ lic.status = "active"
      /\ lic = [status |-> lic.status, until |-> lic.until, owner |-> lic.owner]
  BY <1>1 DEF BindTypes, RevokeLicense
<1>9. lic' = [status |-> "revoked", until |-> lic.until, owner |-> lic.owner]
  BY <1>8 DEF RevokeLicense
<1>10. RevokedTogether'
  <2>1. card' = "activated"
    BY <1>1, <1>8 DEF RevokedTogether, RevokeLicense
  <2>2. \A r \in DOMAIN rows : now[r] # "active"
    BY DEF now
  <2>3. Live(rows') = {}
    BY <1>6, <2>2 DEF Live
  <2>4. QED
    BY <1>9, <2>1, <2>3 DEF RevokedTogether
<1>11. lic' \in [status : {"none", "active", "revoked"}, until : Nat,
                 owner : Users \cup {Nobody}]
  BY <1>8, <1>9
<1>12. QED
  BY <1>3, <1>4, <1>6, <1>10, <1>11, FlipKeeps DEF RevokeLicense, now

LEMMA RestoreKeeps == ASSUME BindInv, RestoreLicense PROVE BindInv'
<1> DEFINE now == [r \in DOMAIN rows |-> IF rows[r].status = "revoked" THEN "active"
                                          ELSE rows[r].status]
<1>1. rows \in Seq(BindingRow) /\ BindTypes /\ RevokedTogether
  BY DEF BindInv, BindTypes
<1>2. \A r \in DOMAIN rows : rows[r] \in BindingRow
  BY <1>1
<1>3. now \in [DOMAIN rows -> {"active", "kicked", "unbound", "revoked"}]
  BY <1>2 DEF BindingRow
<1>4. \A r \in DOMAIN rows :
        (now[r] \in {"active", "revoked"}) <=> (rows[r].status \in {"active", "revoked"})
  OBVIOUS
<1>5. ASSUME NEW r \in DOMAIN rows
      PROVE  RestoreBinding(rows[r]) = [value |-> rows[r].value, status |-> now[r]]
  <2>1. rows[r] = [value |-> rows[r].value, status |-> rows[r].status]
    BY <1>2 DEF BindingRow
  <2>2. [rows[r] EXCEPT !.status = "active"] = [value |-> rows[r].value, status |-> "active"]
    BY <2>1
  <2>3. CASE rows[r].status = "revoked"
    BY <2>2, <2>3 DEF RestoreBinding
  <2>4. CASE rows[r].status # "revoked"
    BY <2>1, <2>4 DEF RestoreBinding
  <2>5. QED
    BY <2>3, <2>4
<1> HIDE DEF now
<1>6. rows' = [r \in DOMAIN rows |-> [value |-> rows[r].value, status |-> now[r]]]
  BY <1>5 DEF RestoreLicense
<1>8. /\ lic.until \in Nat /\ lic.owner \in Users \cup {Nobody} /\ lic.status = "revoked"
      /\ lic = [status |-> lic.status, until |-> lic.until, owner |-> lic.owner]
  BY <1>1 DEF BindTypes, RestoreLicense
<1>9. lic' = [status |-> "active", until |-> lic.until, owner |-> lic.owner]
  BY <1>8 DEF RestoreLicense
<1>10. RevokedTogether'
  <2>1. card' = "activated"
    BY <1>1, <1>8 DEF RevokedTogether, RestoreLicense
  <2>2. \A r \in DOMAIN rows : now[r] # "revoked"
    BY DEF now
  <2>3. \A r \in DOMAIN rows' : rows'[r].status # "revoked"
    BY <1>6, <2>2
  <2>4. QED
    BY <1>9, <2>1, <2>3 DEF RevokedTogether
<1>11. lic' \in [status : {"none", "active", "revoked"}, until : Nat,
                 owner : Users \cup {Nobody}]
  BY <1>8, <1>9
<1>12. QED
  BY <1>3, <1>4, <1>6, <1>10, <1>11, FlipKeeps DEF RestoreLicense, now

\* An active binding with another value or status.
LEMMA BindingEdited ==
    ASSUME BindInv, NEW r \in Live(rows), NEW v \in Values
    PROVE  /\ [rows[r] EXCEPT !.status = "unbound"] \in BindingRow
           /\ [rows[r] EXCEPT !.status = "unbound"].status = "unbound"
           /\ [rows[r] EXCEPT !.value = v] \in BindingRow
           /\ [rows[r] EXCEPT !.value = v].status = "active"
<1>1. rows[r] \in BindingRow /\ rows[r].status = "active"
  BY DEF BindInv, BindTypes, Live
<1>2. rows[r] = [value |-> rows[r].value, status |-> rows[r].status]
      /\ rows[r].value \in Values
  BY <1>1 DEF BindingRow
<1>3. [rows[r] EXCEPT !.status = "unbound"] = [value |-> rows[r].value, status |-> "unbound"]
  BY <1>2
<1>4. [rows[r] EXCEPT !.value = v] = [value |-> v, status |-> rows[r].status]
  BY <1>2
<1>5. QED
  BY <1>1, <1>2, <1>3, <1>4 DEF BindingRow

LEMMA UnboundKeeps ==
    ASSUME ClassicAssumption, BindInv, NEW r \in Live(rows),
           rows' = [rows EXCEPT ![r].status = "unbound"],
           UNCHANGED <<lic, card, installs>>
    PROVE  BindInv'
<1>1. PICK new : new = [rows[r] EXCEPT !.status = "unbound"]
  OBVIOUS
<1>2. rows' = [rows EXCEPT ![r] = new]
  BY <1>1
<1>3. rows[r].value \in Values
  <2>1. rows[r] \in BindingRow
    BY DEF BindInv, BindTypes, Live
  <2>2. QED
    BY <2>1 DEF BindingRow
<1>4. new \in BindingRow /\ new.status = "unbound"
  BY <1>1, <1>3, BindingEdited
<1>5. QED
  BY <1>2, <1>4, RowKeeps

LEMMA RebindKeeps ==
    ASSUME ClassicAssumption, BindInv, OnceInv, NEW u \in Users, NEW r \in DOMAIN rows,
           NEW v \in Values, NEW q \in ChangeIds, CustomerRebind(u, r, v, q)
    PROVE  BindInv' /\ OnceInv'
<1>1. PICK new : new = [rows[r] EXCEPT !.value = v]
  OBVIOUS
<1>2. rows' = [rows EXCEPT ![r] = new] /\ r \in Live(rows)
  BY <1>1 DEF CustomerRebind
<1>3. new \in BindingRow /\ new.status = "active"
  BY <1>1, <1>2, BindingEdited
<1>4. BindInv'
  BY <1>2, <1>3, RowKeeps DEF CustomerRebind, licence
<1>5. PICK row : row = AddBindingChange
  OBVIOUS
<1>6. /\ row \in [count : Nat, done : SUBSET ChangeIds]
      /\ row.count = changes.count + 1 /\ row.done = changes.done
  BY <1>5, AddedChange
<1>7. changes' = [row EXCEPT !.done = @ \cup {q}]
  BY <1>5 DEF CustomerRebind
<1>8. row = [count |-> row.count, done |-> row.done]
  BY <1>6
<1>9. changes' = [count |-> row.count, done |-> row.done \cup {q}]
  BY <1>7, <1>8
<1>10. PICK add : add = [count |-> row.count, done |-> row.done \cup {q}]
  OBVIOUS
<1>11. /\ add \in [count : Nat, done : SUBSET ChangeIds] /\ add.count = changes.count + 1
       /\ changes' = add
  BY <1>6, <1>9, <1>10
<1>12. GuardBindingChange /\ UNCHANGED <<renewal, spent, tickets, given>>
  BY DEF CustomerRebind, history
<1>13. OnceInv'
  BY <1>11, <1>12, ChangeKeeps
<1>14. QED
  BY <1>4, <1>13

\* A change that is counted and nothing else of it.
LEMMA CountedKeeps ==
    ASSUME ClassicAssumption, OnceInv, UNCHANGED <<renewal, spent, tickets, given>>,
           UNCHANGED changes \/ (GuardBindingChange /\ changes' = AddBindingChange)
    PROVE  OnceInv'
<1>1. CASE UNCHANGED changes
  BY <1>1, OnceSame
<1>2. CASE GuardBindingChange /\ changes' = AddBindingChange
  <2>1. PICK row : row = AddBindingChange
    OBVIOUS
  <2>2. row.count = changes.count + 1 /\ row \in [count : Nat, done : SUBSET ChangeIds]
    BY <2>1, AddedChange
  <2>3. QED
    BY <1>2, <2>1, <2>2, ChangeKeeps
<1>3. QED
  BY <1>1, <1>2

LEMMA DisableKeeps ==
    ASSUME ClassicAssumption, BindInv, NEW i \in Instances, installs[i].status = "active",
           installs' = [installs EXCEPT ![i].status = "disabled"],
           UNCHANGED <<lic, card, rows>>
    PROVE  BindInv'
<1>1. installs \in [Instances -> InstallRow] /\ BindTypes /\ rows \in Seq(BindingRow)
      /\ RevokedTogether
  BY DEF BindInv, BindTypes
<1>2. installs[i] = [row |-> installs[i].row, status |-> "active"] /\ installs[i].row \in Nat
  BY <1>1 DEF InstallRow
<1>3. PICK new : new = [installs[i] EXCEPT !.status = "disabled"]
  OBVIOUS
<1>4. new = [row |-> installs[i].row, status |-> "disabled"]
  BY <1>2, <1>3
<1>5. new \in InstallRow /\ new.row = installs[i].row /\ new.status = "disabled"
  BY <1>2, <1>4 DEF InstallRow
<1>6. /\ installs' \in [Instances -> InstallRow]
      /\ \A k \in Instances : installs'[k] = IF k = i THEN new ELSE installs[k]
  BY <1>1, <1>3, <1>5
<1>7. Counting(installs', rows) \subseteq Counting(installs, rows)
  BY <1>5, <1>6 DEF Counting
<1>8. Cardinality(Alive(rows)) <= MaxBindings /\ Allowed(Counting(installs', rows))
  <2>1. PICK ins : ins = installs'
    OBVIOUS
  <2>2. PICK bs : bs = rows
    OBVIOUS
  <2>3. /\ Counting(ins, bs) \subseteq Counting(installs, rows)
        /\ bs \in Seq(BindingRow) /\ Alive(bs) \subseteq Alive(rows)
    BY <1>1, <1>7, <2>1, <2>2
  <2>4. Cardinality(Alive(bs)) <= MaxBindings /\ Allowed(Counting(ins, bs))
    BY <2>3, AliveFewer
  <2>5. QED
    BY <2>1, <2>2, <2>4
<1>9. AliveWithin'
  <2>1. Alive(rows') = Alive(rows) /\ Counting(installs', rows') = Counting(installs', rows)
    OBVIOUS
  <2>2. QED
    BY <1>8, <2>1 DEF AliveWithin, Allowed
<1>10. InstallsKnown'
  <2>1. Installed' = Installed
    BY <1>5, <1>6 DEF Installed
  <2>2. QED
    BY <1>5, <1>6, <2>1 DEF BindInv, InstallsKnown
<1>11. BindTypes' /\ RevokedTogether'
  BY <1>1, <1>6 DEF BindTypes, RevokedTogether, Live
<1>12. QED
  BY <1>9, <1>10, <1>11 DEF BindInv

\* Another end or owner.
LEMMA LicenceKeeps ==
    ASSUME BindInv, lic' \in [status : {"none", "active", "revoked"}, until : Nat,
                              owner : Users \cup {Nobody}],
           lic'.status = lic.status, UNCHANGED <<card, rows, installs>>
    PROVE  BindInv'
BY DEF BindInv, BindTypes, RevokedTogether, AliveWithin, InstallsKnown, Alive, Counting,
       Installed, Live

-----------------------------------------------------------------------------
(* Its seats *)

\* What is held was leased.
LEMMA TakenLeased ==
    ASSUME SeatInv
    PROVE  /\ TakenSeats \subseteq Leased /\ IsFiniteSet(TakenSeats)
           /\ Cardinality(TakenSeats) \in Nat
<1>1. day \in Nat /\ seats \in [Places -> SeatRow] /\ IsFiniteSet(Leased)
  BY DEF SeatInv, SeatTypes, SeatsWithin
<1>2. TakenSeats \subseteq Leased
  BY <1>1 DEF TakenSeats, Held, Leased, SeatRow
<1>3. QED
  BY <1>1, <1>2, FS_Subset, FS_CardinalityType

\* No more seats are held or leased than before, and the borrowed ones stay.
LEMMA SeatsFewer ==
    ASSUME ClassicAssumption, SeatInv, seats' \in [Places -> SeatRow], day' \in Nat,
           day' >= day, UNCHANGED lent,
           \A p \in Places : /\ seats'[p] \in {seats[p], NoSeat}
                             /\ seats[p].borrowed => seats'[p] = seats[p]
    PROVE  SeatInv'
<1>1. /\ SeatTypes /\ SeatsWithin /\ BorrowedKept /\ MaxSeats \in Nat
      /\ day \in Nat /\ seats \in [Places -> SeatRow]
      /\ lent \in [Places -> Nat]
  BY DEF SeatInv, SeatTypes, ClassicAssumption
<1>2. Leased' \subseteq Leased
  BY DEF Leased, NoSeat
<1>3. TakenSeats' \subseteq TakenSeats
  <2>1. ASSUME NEW p \in Places, seats'[p].until > day' PROVE seats[p].until > day
    <3>1. seats'[p] = seats[p]
      BY <2>1 DEF NoSeat
    <3>2. seats[p].until \in Nat
      BY <1>1 DEF SeatRow
    <3>3. QED
      BY <1>1, <2>1, <3>1, <3>2
  <2>2. QED
    BY <2>1 DEF TakenSeats, Held
<1>4. /\ IsFiniteSet(Leased') /\ Cardinality(TakenSeats') <= Cardinality(TakenSeats)
      /\ Cardinality(TakenSeats') \in Nat /\ Cardinality(TakenSeats) \in Nat
  BY <1>1, <1>2, <1>3, TakenLeased, FS_Subset, FS_CardinalityType DEF SeatsWithin
<1>5. SeatsWithin'
  BY <1>1, <1>4 DEF SeatsWithin
<1>6. BorrowedKept'
  <2>1. ASSUME NEW p \in Places, day' < lent[p]
        PROVE  seats'[p].borrowed /\ seats'[p].until >= lent[p]
    <3>1. day < lent[p]
      BY <1>1, <2>1
    <3>2. seats[p].borrowed /\ seats[p].until >= lent[p]
      BY <1>1, <3>1 DEF BorrowedKept
    <3>3. QED
      BY <3>2
  <2>2. QED
    BY <2>1 DEF BorrowedKept
<1>7. QED
  BY <1>1, <1>5, <1>6 DEF SeatInv, SeatTypes

LEMMA AcquireKeeps ==
    ASSUME ClassicAssumption, BindInv, SeatInv, NEW v \in Values, NEW p \in Places,
           NEW borrow \in 0 .. OfflineGrace, AcquireSeat(v, p, borrow)
    PROVE  SeatInv'
<1>1. /\ SeatTypes /\ SeatsWithin /\ BorrowedKept /\ MaxSeats \in Nat
      /\ day \in Nat /\ seats \in [Places -> SeatRow]
      /\ lent \in [Places -> Nat]
  BY DEF SeatInv, SeatTypes, ClassicAssumption
<1>2. PICK end : end = LeaseEnd(borrow)
  OBVIOUS
<1>3. end \in Nat
  <2>1. lic.until \in Nat /\ ExpireGrace \in Nat /\ SeatLease \in Nat /\ OfflineGrace \in Nat
    BY DEF BindInv, BindTypes, ClassicAssumption
  <2>2. borrow \in Nat
    BY <2>1
  <2>3. QED
    BY <1>1, <1>2, <2>1, <2>2 DEF LeaseEnd
<1>4. PICK keep : keep = (borrow > 0 \/ (Held(p) /\ seats[p].borrowed))
  OBVIOUS
<1>5. keep \in BOOLEAN
  BY <1>4
<1>6. PICK new : new = [until |-> end, borrowed |-> keep]
  OBVIOUS
<1>7. new \in SeatRow /\ new.until = end /\ new.borrowed = keep
  BY <1>3, <1>5, <1>6 DEF SeatRow
<1>8. seats' = [seats EXCEPT ![p] = new]
  BY <1>2, <1>4, <1>6 DEF AcquireSeat
<1>9. /\ seats' \in [Places -> SeatRow]
      /\ \A s \in Places : seats'[s] = IF s = p THEN new ELSE seats[s]
  BY <1>1, <1>7, <1>8
<1>10. UNCHANGED day
  BY DEF AcquireSeat
<1>11. TakenSeats' \subseteq TakenSeats \cup {p} /\ Leased' \subseteq Leased \cup {p}
  BY <1>9, <1>10 DEF TakenSeats, Held, Leased
<1>12. IsFiniteSet(Leased')
  <2>1. IsFiniteSet(Leased \cup {p})
    BY <1>1, FS_AddElement DEF SeatsWithin
  <2>2. QED
    BY <1>11, <2>1, FS_Subset
<1>13. Cardinality(TakenSeats') <= MaxSeats
  <2>1. IsFiniteSet(TakenSeats) /\ Cardinality(TakenSeats) \in Nat
    BY TakenLeased
  <2>2. /\ IsFiniteSet(TakenSeats \cup {p})
        /\ Cardinality(TakenSeats \cup {p}) = IF p \in TakenSeats THEN Cardinality(TakenSeats)
                                              ELSE Cardinality(TakenSeats) + 1
    BY <2>1, FS_AddElement
  <2>3. /\ Cardinality(TakenSeats') <= Cardinality(TakenSeats \cup {p})
        /\ Cardinality(TakenSeats') \in Nat /\ Cardinality(TakenSeats \cup {p}) \in Nat
    BY <1>11, <2>2, FS_Subset, FS_CardinalityType
  <2>4. p \in TakenSeats \/ Cardinality(TakenSeats) < MaxSeats
    BY DEF AcquireSeat, Extendable, TakenSeats
  <2>5. Cardinality(TakenSeats) <= MaxSeats
    BY <1>1 DEF SeatsWithin
  <2>6. QED
    BY <1>1, <2>1, <2>2, <2>3, <2>4, <2>5
<1>14. /\ lent' \in [Places -> Nat]
       /\ \A s \in Places : lent'[s] = IF s = p /\ borrow > 0 THEN end ELSE lent[s]
  <2>1. lent' = IF borrow > 0 THEN [lent EXCEPT ![p] = end] ELSE lent
    BY <1>2 DEF AcquireSeat
  <2>2. QED
    BY <1>1, <1>3, <2>1
<1>15. BorrowedKept'
  <2>1. ASSUME NEW s \in Places, day' < lent'[s]
        PROVE  seats'[s].borrowed /\ seats'[s].until >= lent'[s]
    <3>1. CASE s = p /\ borrow > 0
      <4>1. seats'[s] = new /\ lent'[s] = end /\ keep
        <5>1. seats'[s] = new
          BY <1>9, <3>1
        <5>2. lent'[s] = end
          BY <1>14, <3>1
        <5>3. keep
          BY <1>4, <3>1
        <5>4. QED
          BY <5>1, <5>2, <5>3
      <4>2. seats'[s].until >= lent'[s]
        BY <1>3, <1>7, <4>1
      <4>3. seats'[s].borrowed
        BY <1>7, <4>1, Zenon
      <4>4. QED
        BY <4>2, <4>3
    <3>2. CASE ~(s = p /\ borrow > 0)
      <4>1. lent'[s] = lent[s] /\ day < lent[s]
        <5>1. lent'[s] = lent[s]
          BY <1>14, <3>2
        <5>2. QED
          BY <1>10, <2>1, <5>1
      <4>2. seats[s].borrowed /\ seats[s].until >= lent[s] /\ seats[s].until \in Nat
            /\ lent[s] \in Nat
        BY <1>1, <4>1 DEF BorrowedKept, SeatRow
      <4>3. s # p
        <5>1. SUFFICES ASSUME s = p PROVE FALSE
          OBVIOUS
        <5>2. seats[p].until > day
          BY <1>1, <4>1, <4>2, <5>1
        <5>3. Held(p) /\ seats[p].borrowed
          BY <4>2, <5>1, <5>2 DEF Held
        <5>4. QED
          BY <5>3 DEF AcquireSeat, Extendable
      <4>4. QED
        BY <1>9, <4>1, <4>2, <4>3
    <3>3. QED
      BY <3>1, <3>2
  <2>2. QED
    BY <2>1 DEF BorrowedKept
<1>16. QED
  BY <1>1, <1>9, <1>10, <1>12, <1>13, <1>14, <1>15 DEF SeatInv, SeatTypes, SeatsWithin

LEMMA ReleaseKeeps ==
    ASSUME ClassicAssumption, SeatInv, NEW p \in Places, NEW current \in BOOLEAN,
           ReleaseSeat(p, current)
    PROVE  SeatInv'
<1>1. day \in Nat /\ seats \in [Places -> SeatRow]
  BY DEF SeatInv, SeatTypes
<1>2. NoSeat \in SeatRow
  BY DEF NoSeat, SeatRow
<1>3. UNCHANGED <<day, lent>>
  BY DEF ReleaseSeat, history
<1>4. CASE current /\ Deletable(p)
  <2>1. seats' = [seats EXCEPT ![p] = NoSeat] /\ ~seats[p].borrowed
    BY <1>4 DEF ReleaseSeat, Deletable
  <2>2. /\ seats' \in [Places -> SeatRow]
        /\ \A s \in Places : /\ seats'[s] \in {seats[s], NoSeat}
                             /\ seats[s].borrowed => seats'[s] = seats[s]
    BY <1>1, <1>2, <2>1
  <2>3. QED
    BY <1>1, <1>3, <2>2, SeatsFewer
<1>5. CASE ~(current /\ Deletable(p))
  BY <1>3, <1>5, SeatSame DEF ReleaseSeat
<1>6. QED
  BY <1>4, <1>5

LEMMA SeatsDropped ==
    ASSUME ClassicAssumption, SeatInv, NEW i \in Instances, UNCHANGED <<day, lent>>,
           seats' = [p \in Places |->
                       IF p[1] = i /\ ~seats[p].borrowed THEN NoSeat ELSE seats[p]]
    PROVE  SeatInv'
<1>1. day \in Nat /\ seats \in [Places -> SeatRow]
  BY DEF SeatInv, SeatTypes
<1>2. NoSeat \in SeatRow
  BY DEF NoSeat, SeatRow
<1>3. /\ seats' \in [Places -> SeatRow]
      /\ \A s \in Places : /\ seats'[s] \in {seats[s], NoSeat}
                           /\ seats[s].borrowed => seats'[s] = seats[s]
  BY <1>1, <1>2
<1>4. QED
  BY <1>1, <1>3, SeatsFewer

LEMMA DayKeeps == ASSUME ClassicAssumption, SeatInv, DayPasses PROVE SeatInv'
<1>1. day \in Nat /\ seats \in [Places -> SeatRow]
  BY DEF SeatInv, SeatTypes
<1>2. day' \in Nat /\ day' >= day /\ UNCHANGED <<seats, lent>>
  BY <1>1 DEF DayPasses, history
<1>3. \A s \in Places : /\ seats'[s] \in {seats[s], NoSeat}
                        /\ seats[s].borrowed => seats'[s] = seats[s]
  BY <1>2
<1>4. seats' \in [Places -> SeatRow]
  BY <1>1, <1>2
<1>5. QED
  BY <1>2, <1>3, <1>4, SeatsFewer

-----------------------------------------------------------------------------
(* Its cards, tickets and changes *)

LEMMA CardGoneKeeps ==
    ASSUME ClassicAssumption, BindInv, OnceInv, NEW k \in RenewalCards \cup {Nobody}, CardGone(k)
    PROVE  BindInv' /\ OnceInv'
<1>1. CASE k = Nobody /\ card = "unused" /\ card' = "gone" /\ UNCHANGED renewal
  <2>1. lic.status = "none"
    BY <1>1 DEF BindInv, RevokedTogether
  <2>2. BindInv'
    BY <2>1, <1>1 DEF CardGone, BindInv, BindTypes, RevokedTogether, AliveWithin,
                      InstallsKnown, Alive, Counting, Installed, Live
  <2>3. OnceInv'
    BY <1>1, OnceSame DEF CardGone, history
  <2>4. QED
    BY <2>2, <2>3
<1>2. CASE k # Nobody /\ renewal[k] = "unused" /\ renewal' = [renewal EXCEPT ![k] = "gone"]
           /\ UNCHANGED card
  <2>1. BindInv'
    BY <1>2, BindSame DEF CardGone
  <2>2. k \in RenewalCards /\ renewal \in [RenewalCards -> {"unused", "used", "gone"}]
    BY <1>2 DEF OnceInv, OnceTypes
  <2>3. /\ renewal' \in [RenewalCards -> {"unused", "used", "gone"}]
        /\ \A c \in RenewalCards : (renewal'[c] = "used") <=> (renewal[c] = "used")
    BY <1>2, <2>2
  <2>4. OnceInv'
    BY <2>3 DEF CardGone, history, OnceInv, OnceTypes, CountedOnce
  <2>5. QED
    BY <2>1, <2>4
<1>3. QED
  BY <1>1, <1>2 DEF CardGone

LEMMA RenewKeeps ==
    ASSUME ClassicAssumption, BindInv, SeatInv, OnceInv, NEW k \in RenewalCards, NEW v \in Values,
           NEW i \in Instances, NEW u \in Users \cup {Nobody}, Renew(k, v, i, u)
    PROVE  BindInv' /\ OnceInv'
<1>1. /\ lic \in [status : {"none", "active", "revoked"}, until : Nat, owner : Users \cup {Nobody}]
      /\ day \in Nat /\ RenewTerm \in Nat
  BY DEF BindInv, BindTypes, SeatInv, SeatTypes, ClassicAssumption
<1>2. PICK end : end = (IF lic.until > day THEN lic.until ELSE day) + RenewTerm
  OBVIOUS
<1>3. end \in Nat /\ lic' = [lic EXCEPT !.until = end]
  BY <1>1, <1>2 DEF Renew
<1>4. lic = [status |-> lic.status, until |-> lic.until, owner |-> lic.owner]
  BY <1>1
<1>5. lic' = [status |-> lic.status, until |-> end, owner |-> lic.owner]
  BY <1>3, <1>4
<1>6. BindInv'
  <2>1. /\ lic' \in [status : {"none", "active", "revoked"}, until : Nat,
                     owner : Users \cup {Nobody}]
        /\ lic'.status = lic.status
    BY <1>1, <1>3, <1>5
  <2>2. QED
    BY <2>1, LicenceKeeps DEF Renew
<1>7. /\ renewal \in [RenewalCards -> {"unused", "used", "gone"}] /\ spent \in [RenewalCards -> Nat]
      /\ renewal[k] = "unused" /\ spent[k] = 0
  BY DEF Renew, Renewable, OnceInv, OnceTypes, CountedOnce
<1>8. /\ renewal' = [renewal EXCEPT ![k] = "used"] /\ spent' = [spent EXCEPT ![k] = spent[k] + 1]
      /\ UNCHANGED <<changes, tickets, given>>
  BY DEF Renew
<1>9. /\ renewal' \in [RenewalCards -> {"unused", "used", "gone"}] /\ spent' \in [RenewalCards -> Nat]
      /\ \A c \in RenewalCards : /\ renewal'[c] = IF c = k THEN "used" ELSE renewal[c]
                                 /\ spent'[c] = IF c = k THEN 1 ELSE spent[c]
  BY <1>7, <1>8
<1>10. OnceInv'
  BY <1>8, <1>9 DEF OnceInv, OnceTypes, CountedOnce
<1>11. QED
  BY <1>6, <1>10

\* A ticket changes its state; who redeemed it stays.
LEMMA TicketKeeps ==
    ASSUME OnceInv, NEW t \in Tickets, NEW state \in {"open", "expired"},
           tickets' = [tickets EXCEPT ![t].state = state],
           UNCHANGED <<changes, renewal, spent, given>>
    PROVE  OnceInv'
<1>1. tickets \in [Tickets -> TicketRow]
  BY DEF OnceInv, OnceTypes
<1>2. tickets[t] = [state |-> tickets[t].state, by |-> tickets[t].by]
      /\ tickets[t].by \in Users \cup {Nobody}
  BY <1>1 DEF TicketRow
<1>3. PICK new : new = [tickets[t] EXCEPT !.state = state]
  OBVIOUS
<1>4. new = [state |-> state, by |-> tickets[t].by]
  BY <1>2, <1>3
<1>5. new \in TicketRow /\ new.by = tickets[t].by
  BY <1>2, <1>4 DEF TicketRow
<1>6. /\ tickets' \in [Tickets -> TicketRow]
      /\ \A s \in Tickets : tickets'[s].by = tickets[s].by
  BY <1>1, <1>3, <1>5
<1>7. QED
  BY <1>6 DEF OnceInv, OnceTypes, CountedOnce

LEMMA RedeemKeeps ==
    ASSUME ClassicAssumption, BindInv, OnceInv, NEW t \in Tickets, NEW u \in Users,
           RedeemLicenseClaim(t, u)
    PROVE  BindInv' /\ OnceInv'
<1>1. /\ tickets \in [Tickets -> TicketRow] /\ given \in [Tickets -> SUBSET Users]
      /\ given[t] = IF tickets[t].by = Nobody THEN {} ELSE {tickets[t].by}
      /\ u # Nobody
  <2>1. u # Nobody
    BY DEF ClassicAssumption
  <2>2. tickets \in [Tickets -> TicketRow] /\ given \in [Tickets -> SUBSET Users]
    BY DEF OnceInv, OnceTypes
  <2>3. given[t] = IF tickets[t].by = Nobody THEN {} ELSE {tickets[t].by}
    BY DEF OnceInv, CountedOnce
  <2>4. QED
    BY <2>1, <2>2, <2>3
<1>2. tickets[t] = [state |-> tickets[t].state, by |-> tickets[t].by]
      /\ tickets[t].state \in {"none", "open", "expired"} /\ tickets[t].by \in {Nobody, u}
  BY <1>1 DEF TicketRow, RedeemLicenseClaim
<1>3. PICK new : new = [tickets[t] EXCEPT !.by = u]
  OBVIOUS
<1>4. new = [state |-> tickets[t].state, by |-> u]
  BY <1>2, <1>3
<1>5. new \in TicketRow /\ new.by = u
  BY <1>2, <1>4 DEF TicketRow
<1>6. /\ tickets' = [tickets EXCEPT ![t] = new] /\ given' = [given EXCEPT ![t] = given[t] \cup {u}]
      /\ UNCHANGED <<changes, renewal, spent>>
  BY <1>3 DEF RedeemLicenseClaim
<1>7. given[t] \cup {u} = {u}
  <2>1. CASE tickets[t].by = Nobody
    BY <1>1, <2>1
  <2>2. CASE tickets[t].by = u
    BY <1>1, <2>2
  <2>3. QED
    BY <1>2, <2>1, <2>2
<1>8. /\ tickets' \in [Tickets -> TicketRow] /\ given' \in [Tickets -> SUBSET Users]
      /\ \A s \in Tickets : /\ tickets'[s] = IF s = t THEN new ELSE tickets[s]
                            /\ given'[s] = IF s = t THEN {u} ELSE given[s]
  BY <1>1, <1>5, <1>6, <1>7
<1>9. CountedOnce'
  <2>1. ASSUME NEW s \in Tickets
        PROVE  given'[s] = IF tickets'[s].by = Nobody THEN {} ELSE {tickets'[s].by}
    <3>1. CASE s = t
      BY <1>1, <1>5, <1>8, <3>1
    <3>2. CASE s # t
      BY <1>8, <3>2 DEF OnceInv, CountedOnce
    <3>3. QED
      BY <3>1, <3>2
  <2>2. QED
    BY <1>6, <2>1 DEF OnceInv, CountedOnce
<1>10. OnceInv'
  BY <1>6, <1>8, <1>9 DEF OnceInv, OnceTypes
<1>11. lic \in [status : {"none", "active", "revoked"}, until : Nat, owner : Users \cup {Nobody}]
  BY DEF BindInv, BindTypes
<1>12. lic = [status |-> lic.status, until |-> lic.until, owner |-> lic.owner]
  BY <1>11
<1>13. lic' = [status |-> lic.status, until |-> lic.until, owner |-> u]
  BY <1>12 DEF RedeemLicenseClaim
<1>14. BindInv'
  BY <1>11, <1>13, LicenceKeeps DEF RedeemLicenseClaim
<1>15. QED
  BY <1>10, <1>14

LEMMA AssignKeeps == ASSUME BindInv, NEW u \in Users, AssignOwner(u) PROVE BindInv'
<1>1. lic \in [status : {"none", "active", "revoked"}, until : Nat, owner : Users \cup {Nobody}]
  BY DEF BindInv, BindTypes
<1>2. lic = [status |-> lic.status, until |-> lic.until, owner |-> lic.owner]
  BY <1>1
<1>3. lic' = [status |-> lic.status, until |-> lic.until, owner |-> u]
  BY <1>2 DEF AssignOwner
<1>4. QED
  BY <1>1, <1>3, LicenceKeeps DEF AssignOwner

LEMMA ClassicStart == ASSUME ClassicAssumption, ClassicInit PROVE ClassicInv
<1>1. BindInv
  <2>1. Alive(rows) = {} /\ Live(rows) = {} /\ Counting(installs, rows) = {} /\ Installed = {}
    BY DEF ClassicInit, Alive, Live, Counting, Installed, NoInstall
  <2>2. Cardinality({}) = 0 /\ IsFiniteSet({})
    BY FS_EmptySet
  <2>3. {DeviceOf[i] : i \in {}} = {}
    OBVIOUS
  <2>4. BindTypes
    BY DEF ClassicInit, BindTypes, InstallRow, NoInstall
  <2>5. MaxBindings \in Nat /\ MaxDeployments \in Nat /\ MaxDevices \in Nat
    BY DEF ClassicAssumption
  <2>6. AliveWithin
    BY <2>1, <2>2, <2>3, <2>5 DEF AliveWithin
  <2>7. InstallsKnown
    BY <2>1, <2>2 DEF InstallsKnown, ClassicInit, NoInstall
  <2>8. RevokedTogether
    BY DEF RevokedTogether, ClassicInit
  <2>9. QED
    BY <2>4, <2>6, <2>7, <2>8 DEF BindInv
<1>2. SeatInv
  <2>1. TakenSeats = {} /\ Leased = {}
    BY DEF ClassicInit, TakenSeats, Held, Leased, NoSeat
  <2>2. MaxSeats \in Nat
    BY DEF ClassicAssumption
  <2>3. SeatsWithin
    BY <2>1, <2>2, FS_EmptySet DEF SeatsWithin
  <2>4. SeatTypes
    BY DEF ClassicInit, SeatTypes, SeatRow, NoSeat
  <2>5. BorrowedKept
    BY DEF ClassicInit, BorrowedKept
  <2>6. QED
    BY <2>3, <2>4, <2>5 DEF SeatInv
<1>3. OnceInv
  <2>1. ChangeLimit \in Nat
    BY DEF ClassicAssumption
  <2>2. OnceTypes
    BY DEF ClassicInit, OnceTypes, TicketRow
  <2>3. CountedOnce
    BY <2>1 DEF ClassicInit, CountedOnce
  <2>4. QED
    BY <2>2, <2>3 DEF OnceInv
<1>4. QED
  BY <1>1, <1>2, <1>3 DEF ClassicInv

LEMMA ClassicStep ==
    ASSUME ClassicAssumption, ClassicInv, [ClassicNext]_classicVars
    PROVE  ClassicInv'
<1>1. BindInv /\ SeatInv /\ OnceInv
  BY DEF ClassicInv
<1>2. ASSUME NEW v \in Values, NEW i \in Instances \cup {Nobody}, NEW u \in Users \cup {Nobody},
             Activate(v, i, u)
      PROVE  ClassicInv'
  <2>1. BindInv'
    BY <1>1, <1>2, ActivateBinds
  <2>2. SeatInv'
    BY <1>1, <1>2, SeatSame DEF Activate, history
  <2>3. OnceInv'
    BY <1>1, <1>2, CountedKeeps DEF Activate, history
  <2>4. QED
    BY <2>1, <2>2, <2>3 DEF ClassicInv
<1>3. ASSUME NEW k \in RenewalCards \cup {Nobody}, CardGone(k) PROVE ClassicInv'
  BY <1>1, <1>3, CardGoneKeeps, SeatSame DEF CardGone, history, ClassicInv
<1>4. ASSUME NEW k \in RenewalCards, NEW v \in Values, NEW i \in Instances,
             NEW u \in Users \cup {Nobody}, Renew(k, v, i, u)
      PROVE  ClassicInv'
  BY <1>1, <1>4, RenewKeeps, SeatSame DEF Renew, ClassicInv
<1>5. ASSUME NEW v \in Values, NEW i \in Instances, Unbind(v, i) PROVE ClassicInv'
  <2>1. PICK r : r = installs[i].row
    OBVIOUS
  <2>2. r \in Live(rows)
    <3>1. r = Authorized(v) /\ r # 0
      BY <1>5, <2>1 DEF Unbind
    <3> DEFINE R == {x \in Live(rows) : v \in Covered[rows[x].value]}
    <3>2. R # {} /\ Authorized(v) = CHOOSE x \in R : \A q \in R : x <= q
      BY <3>1 DEF Authorized
    <3>3. \E x \in R : \A q \in R : x <= q
      <4>1. rows \in Seq(BindingRow)
        BY <1>1 DEF BindInv, BindTypes
      <4>2. R \subseteq Nat
        BY <4>1 DEF Live
      <4> HIDE DEF R
      <4>3. QED
        BY <3>2, <4>2, LeastNumber
    <3>4. Authorized(v) \in R
      BY <3>2, <3>3
    <3>5. QED
      BY <3>1, <3>4
  <2>3. BindInv'
    BY <1>1, <1>5, <2>1, <2>2, UnboundKeeps DEF Unbind, licence
  <2>4. SeatInv'
    BY <1>1, <1>5, SeatSame DEF Unbind, history
  <2>5. OnceInv'
    BY <1>1, <1>5, CountedKeeps DEF Unbind, history
  <2>6. QED
    BY <2>3, <2>4, <2>5 DEF ClassicInv
<1>6. ASSUME NEW v \in Values, NEW i \in Instances, NEW t \in Tickets,
             CreateLicenseClaim(t, v, i)
      PROVE  ClassicInv'
  BY <1>1, <1>6, BindSame, SeatSame, TicketKeeps
     DEF CreateLicenseClaim, licence, history, ClassicInv
<1>7. ASSUME NEW r \in DOMAIN rows, AdminUnbind(r) PROVE ClassicInv'
  <2>1. BindInv'
    BY <1>1, <1>7, UnboundKeeps DEF AdminUnbind, licence
  <2>2. QED
    BY <1>1, <1>7, <2>1, SeatSame, OnceSame DEF AdminUnbind, history, ClassicInv
<1>8. ASSUME NEW r \in DOMAIN rows, NEW u \in Users, NEW v \in Values, NEW q \in ChangeIds,
             CustomerRebind(u, r, v, q)
      PROVE  ClassicInv'
  BY <1>1, <1>8, RebindKeeps, SeatSame DEF CustomerRebind, history, ClassicInv
<1>9. ASSUME NEW i \in Instances, NEW u \in Users \cup {Nobody}, DisableInstallation(i, u)
      PROVE  ClassicInv'
  <2>1. BindInv'
    BY <1>1, <1>9, DisableKeeps DEF DisableInstallation, licence
  <2>2. SeatInv'
    BY <1>1, <1>9, SeatsDropped DEF DisableInstallation, history
  <2>3. OnceInv'
    BY <1>1, <1>9, CountedKeeps DEF DisableInstallation, history
  <2>4. QED
    BY <2>1, <2>2, <2>3 DEF ClassicInv
<1>10. ASSUME RevokeLicense PROVE ClassicInv'
  BY <1>1, <1>10, RevokeKeeps, SeatSame, OnceSame DEF RevokeLicense, history, ClassicInv
<1>11. ASSUME RestoreLicense PROVE ClassicInv'
  BY <1>1, <1>11, RestoreKeeps, SeatSame, OnceSame DEF RestoreLicense, history, ClassicInv
<1>12. ASSUME NEW v \in Values, NEW p \in Places, BeginRelease(v, p) PROVE ClassicInv'
  BY <1>1, <1>12, BindSame, SeatSame, OnceSame DEF BeginRelease, licence, history, ClassicInv
<1>13. ASSUME NEW v \in Values, NEW p \in Places, NEW borrow \in 0 .. OfflineGrace,
              AcquireSeat(v, p, borrow)
       PROVE  ClassicInv'
  BY <1>1, <1>13, BindSame, AcquireKeeps, OnceSame DEF AcquireSeat, licence, ClassicInv
<1>14. ASSUME NEW p \in Places, NEW current \in BOOLEAN, ReleaseSeat(p, current)
       PROVE  ClassicInv'
  BY <1>1, <1>14, BindSame, ReleaseKeeps, OnceSame DEF ReleaseSeat, licence, history, ClassicInv
<1>15. ASSUME NEW u \in Users, AssignOwner(u) PROVE ClassicInv'
  BY <1>1, <1>15, AssignKeeps, SeatSame, OnceSame DEF AssignOwner, history, ClassicInv
<1>16. ASSUME NEW u \in Users, NEW t \in Tickets, RedeemLicenseClaim(t, u) PROVE ClassicInv'
  BY <1>1, <1>16, RedeemKeeps, SeatSame DEF RedeemLicenseClaim, ClassicInv
<1>17. ASSUME DayPasses PROVE ClassicInv'
  BY <1>1, <1>17, BindSame, DayKeeps, OnceSame DEF DayPasses, licence, history, ClassicInv
<1>18. ASSUME NEW t \in Tickets, TicketExpires(t) PROVE ClassicInv'
  BY <1>1, <1>18, BindSame, SeatSame, TicketKeeps DEF TicketExpires, licence, history, ClassicInv
<1>19. CASE UNCHANGED classicVars
  BY <1>1, <1>19, BindSame, SeatSame, OnceSame DEF classicVars, ClassicInv
<1>20. QED
  BY <1>2, <1>3, <1>4, <1>5, <1>6, <1>7, <1>8, <1>9, <1>10, <1>11, <1>12, <1>13, <1>14,
     <1>15, <1>16, <1>17, <1>18, <1>19 DEF ClassicNext

LEMMA ClassicImplied == ASSUME ClassicAssumption, ClassicInv PROVE ClassicSound
<1>1. BindInv /\ SeatInv /\ OnceInv
  BY DEF ClassicInv
<1>2. WithinTerms
  <2>1. PICK bs : bs = rows
    OBVIOUS
  <2>2. PICK C : C = Counted(installs, rows)
    OBVIOUS
  <2>3. rows \in Seq(BindingRow) /\ IsFiniteSet(Alive(rows)) /\ Cardinality(Alive(rows)) \in Nat
    <3>1. rows \in Seq(BindingRow)
      BY <1>1 DEF BindInv, BindTypes
    <3>2. IsFiniteSet(DOMAIN rows) /\ Alive(rows) \subseteq DOMAIN rows
      BY <3>1, FS_Interval DEF Alive
    <3>3. QED
      BY <3>1, <3>2, FS_Subset, FS_CardinalityType
  <2>4. Live(rows) \subseteq Alive(rows) /\ C \subseteq Counting(installs, rows)
    BY <2>2 DEF Live, Alive, Counted, Counting
  <2>5. Cardinality(Live(rows)) <= MaxBindings
    <3>1. /\ Cardinality(Live(rows)) <= Cardinality(Alive(rows))
          /\ Cardinality(Live(rows)) \in Nat
      BY <2>3, <2>4, FS_Subset, FS_CardinalityType
    <3>2. Cardinality(Alive(rows)) <= MaxBindings /\ MaxBindings \in Nat
      BY <1>1 DEF BindInv, AliveWithin, ClassicAssumption
    <3>3. QED
      BY SMTT(30), <2>3, <3>1, <3>2
  <2>6. Allowed(C)
    <3>1. PICK D : D = Counting(installs, rows)
      OBVIOUS
    <3>2. IsFiniteSet(D)
      BY <1>1, <3>1, CountingFinite DEF BindInv
    <3>3. Allowed(D)
      BY <1>1, <3>1 DEF BindInv, AliveWithin, Allowed
    <3>4. QED
      BY <2>4, <3>1, <3>2, <3>3, AllowedFewer
  <2>7. Cardinality(TakenSeats) <= MaxSeats
    BY <1>1 DEF SeatInv, SeatsWithin
  <2>8. QED
    BY <2>2, <2>5, <2>6, <2>7 DEF WithinTerms, Allowed
<1>3. BorrowedKept
  BY <1>1 DEF SeatInv
<1>4. OnceEach
  <2>1. ASSUME NEW t \in Tickets PROVE Cardinality(given[t]) <= 1
    <3>1. PICK b : b = tickets[t].by
      OBVIOUS
    <3>2. Cardinality({b}) = 1 /\ Cardinality({}) = 0
      BY FS_Singleton, FS_EmptySet
    <3>3. given[t] = {} \/ given[t] = {b}
      BY <1>1, <3>1 DEF OnceInv, CountedOnce
    <3>4. QED
      BY <3>2, <3>3
  <2>2. \A k \in RenewalCards : spent[k] <= 1
    BY <1>1 DEF OnceInv, CountedOnce
  <2>3. changes.count <= ChangeLimit
    BY <1>1 DEF OnceInv, CountedOnce
  <2>4. QED
    BY <2>1, <2>2, <2>3 DEF OnceEach
<1>5. QED
  BY <1>2, <1>3, <1>4 DEF ClassicSound

\* What the licence of the retired routes keeps in every transaction of it.
THEOREM ClassicInvariant == ClassicSpec => []ClassicInv
<1>1. ClassicInit => ClassicInv
  BY ClassicAssumption, ClassicStart
<1>2. ClassicInv /\ [ClassicNext]_classicVars => ClassicInv'
  BY ClassicAssumption, ClassicStep
<1>3. QED
  BY <1>1, <1>2, PTL DEF ClassicSpec

\* Activation, kicking, changes, revocation and restoration stay within the
\* terms, a borrowed seat stays its borrower's, and changes, renewal cards and
\* claim tickets count once (Activate, RestoreLicense, AcquireSeat, Renew,
\* RedeemLicenseClaim).
THEOREM ClassicSoundHolds == ClassicSpec => []ClassicSound
<1>1. ClassicInv => ClassicSound
  BY ClassicAssumption, ClassicImplied
<1>2. QED
  BY <1>1, ClassicInvariant, PTL

-----------------------------------------------------------------------------
(* The limits before a login *)

Ticks == 0 .. MaxTicks
Between(lo, hi) == {u \in Ticks : lo <= u /\ u <= hi}
\* Events from lo to hi.
Total(events, lo, hi) == SumFunctionOnSet(events, Between(lo, hi))

EntryRow == [startedAt : Int, count : Nat]
Opened(e, now) == e # NoEntry /\ now - e.startedAt < Window

\* The entry e of an address counts the events of its window, and the events
\* before that window, or all when there is none, leave one for it.
WindowKept(events, e, now, B) ==
    IF Opened(e, now)
    THEN /\ e.startedAt \in 0 .. now /\ events[e.startedAt] >= 1
         /\ e.count = Total(events, e.startedAt, now) /\ e.count <= B
         /\ \A t \in Int : t > e.startedAt - Window => Total(events, t, e.startedAt - 1) <= B - 1
    ELSE /\ now \in Ticks => events[now] = 0
         /\ \A t \in Int : t > now - Window => Total(events, t, now) <= B - 1

\* Events of an address that are limited to B in its windows.
Limited(events, e, now, B) ==
    /\ events \in [Ticks -> Nat] /\ \A u \in Ticks : u > now => events[u] = 0
    /\ WindowKept(events, e, now, B)
    /\ \A t \in Int : Total(events, t, t + Window - 1) <= 2 * B - 1

FailureBound == Threshold - 1 + Cardinality(Entrants)
InFlight(a) == {r \in Entrants : entering[r] # Outside /\ entering[r].from = a}

EntryTypes ==
    /\ tick \in Ticks
    /\ requested \in [Addresses -> EntryRow] /\ failed \in [Addresses -> EntryRow]
    /\ entering \in [Entrants -> {Outside} \cup [at : {"unlocked", "handler"}, from : Addresses]]
    /\ passes \in [Addresses -> [Ticks -> Nat]] /\ failures \in [Addresses -> [Ticks -> Nat]]

EntryInv ==
    /\ EntryTypes
    /\ \A a \in Addresses :
         /\ Limited(passes[a], requested[a], tick, Limit)
         /\ Limited(failures[a], failed[a], tick, FailureBound)
         /\ Opened(failed[a], tick) =>
              failed[a].count + Cardinality(InFlight(a)) <= FailureBound

LEMMA BetweenFinite == ASSUME NEW lo, NEW hi PROVE IsFiniteSet(Between(lo, hi))
<1>1. MaxTicks \in Nat
  BY EntryLimitsAssumption DEF EntryLimitsAssumption
<1>2. IsFiniteSet(0 .. MaxTicks)
  BY <1>1, FS_Interval
<1>3. Between(lo, hi) \subseteq 0 .. MaxTicks
  BY DEF Between, Ticks
<1>4. QED
  BY <1>2, <1>3, FS_Subset

LEMMA TotalNat ==
    ASSUME NEW events \in [Ticks -> Nat], NEW lo, NEW hi
    PROVE  Total(events, lo, hi) \in Nat
<1>1. \A u \in Between(lo, hi) : events[u] \in Nat
  BY DEF Between
<1>2. QED
  BY <1>1, BetweenFinite, SumNat DEF Total

\* A shorter time has no more events.
LEMMA TotalWithin ==
    ASSUME NEW events \in [Ticks -> Nat], NEW lo, NEW hi, NEW l, NEW h,
           Between(l, h) \subseteq Between(lo, hi)
    PROVE  Total(events, l, h) <= Total(events, lo, hi)
<1>1. \A u \in Between(lo, hi) : events[u] \in Nat
  BY DEF Between
<1>2. QED
  BY <1>1, BetweenFinite, SumSubset DEF Total

\* The events before m and those from m on.
LEMMA TotalCut ==
    ASSUME NEW events \in [Ticks -> Nat], NEW lo \in Int, NEW m \in Int, NEW hi \in Int,
           lo <= m, m <= hi + 1
    PROVE  Total(events, lo, hi) = Total(events, lo, m - 1) + Total(events, m, hi)
<1> DEFINE S == Between(lo, m - 1)
           T == Between(m, hi)
<1>1. Ticks \subseteq Int
  BY DEF Ticks
<1>2. Between(lo, hi) = S \cup T /\ S \cap T = {}
  <2>1. \A u \in Ticks : (lo <= u /\ u <= hi)
           <=> ((lo <= u /\ u <= m - 1) \/ (m <= u /\ u <= hi))
    BY <1>1
  <2>2. \A u \in Ticks : ~((u <= m - 1) /\ (m <= u))
    BY <1>1
  <2>3. QED
    BY <2>1, <2>2 DEF Between
<1>3. \A u \in S \cup T : events[u] \in Int
  BY DEF Between
<1>4. IsFiniteSet(S) /\ IsFiniteSet(T)
  BY BetweenFinite
<1> HIDE DEF S, T
<1>5. SumFunctionOnSet(events, S \cup T) = SumFunctionOnSet(events, S) + SumFunctionOnSet(events, T)
  BY <1>2, <1>3, <1>4, SumUnion
<1>6. QED
  BY <1>2, <1>5 DEF Total, S, T

\* Nothing has happened after now.
LEMMA TotalQuiet ==
    ASSUME NEW events \in [Ticks -> Nat], NEW now \in Nat,
           \A u \in Ticks : u > now => events[u] = 0,
           NEW lo \in Int, NEW hi \in Int, hi >= now
    PROVE  Total(events, lo, hi) = Total(events, lo, now)
<1>1. Ticks \subseteq Nat
  BY EntryLimitsAssumption DEF Ticks, EntryLimitsAssumption
<1>2. Total(events, now + 1, hi) = 0
  <2>1. \A u \in Between(now + 1, hi) : events[u] = 0
    BY <1>1 DEF Between
  <2>2. QED
    BY <2>1, BetweenFinite, SumZero DEF Total
<1>3. CASE lo <= now + 1
  <2>1. Total(events, lo, hi) = Total(events, lo, (now + 1) - 1) + Total(events, now + 1, hi)
    BY <1>3, TotalCut
  <2>2. (now + 1) - 1 = now /\ Total(events, lo, now) \in Nat
    BY TotalNat
  <2>3. QED
    BY <1>2, <2>1, <2>2
<1>4. CASE lo > now + 1
  <2>1. \A u \in Between(lo, hi) : events[u] = 0
    BY <1>1, <1>4 DEF Between
  <2>2. \A u \in Between(lo, now) : events[u] = 0
    BY <1>1, <1>4 DEF Between
  <2>3. QED
    BY <2>1, <2>2, BetweenFinite, SumZero DEF Total
<1>5. QED
  BY <1>3, <1>4

\* One event more.
OneMore(events, after, now) ==
    /\ after \in [Ticks -> Nat] /\ after[now] = events[now] + 1
    /\ \A u \in Ticks : u # now => after[u] = events[u]

LEMMA TotalEvent ==
    ASSUME NEW events \in [Ticks -> Nat], NEW now \in Ticks, NEW after,
           OneMore(events, after, now), NEW lo \in Int, NEW hi \in Int
    PROVE  /\ lo <= now /\ now <= hi => Total(after, lo, hi) = Total(events, lo, hi) + 1
           /\ ~(lo <= now /\ now <= hi) => Total(after, lo, hi) = Total(events, lo, hi)
<1> DEFINE S == Between(lo, hi)
<1>1. /\ after \in [Ticks -> Nat] /\ after[now] = events[now] + 1
      /\ \A u \in Ticks : u # now => after[u] = events[u]
  BY DEF OneMore
<1>2. IsFiniteSet(S)
  BY BetweenFinite
<1>3. (now \in S) <=> (lo <= now /\ now <= hi)
  BY DEF Between
<1>4. /\ \A u \in S : u \in Ticks /\ events[u] \in Int /\ after[u] \in Int
      /\ Total(events, lo, hi) = SumFunctionOnSet(events, S)
      /\ Total(after, lo, hi) = SumFunctionOnSet(after, S)
  BY <1>1 DEF Between, Total
<1> HIDE DEF S
<1>5. CASE now \in S
  <2>1. SumFunctionOnSet(events, S) = events[now] + SumFunctionOnSet(events, S \ {now})
    BY <1>2, <1>4, <1>5, SumRemove
  <2>2. SumFunctionOnSet(after, S) = after[now] + SumFunctionOnSet(after, S \ {now})
    BY <1>2, <1>4, <1>5, SumRemove
  <2>3. IsFiniteSet(S \ {now})
    BY <1>2, FS_Subset
  <2>4. SumFunctionOnSet(events, S \ {now}) = SumFunctionOnSet(after, S \ {now})
    <3>1. \A u \in S \ {now} : events[u] = after[u]
      BY <1>1, <1>4
    <3>2. QED
      BY <2>3, <3>1, SumSame
  <2>5. SumFunctionOnSet(events, S \ {now}) \in Int
    BY <1>4, <2>3, SumType
  <2>6. events[now] \in Nat
    OBVIOUS
  <2>7. PICK r \in Int : r = SumFunctionOnSet(events, S \ {now})
    BY <2>5
  <2>8. /\ Total(events, lo, hi) = events[now] + r
        /\ Total(after, lo, hi) = (events[now] + 1) + r
    BY <1>1, <1>4, <2>1, <2>2, <2>4, <2>7
  <2>9. Total(after, lo, hi) = Total(events, lo, hi) + 1
    BY <2>6, <2>7, <2>8
  <2>10. QED
    BY <1>3, <1>5, <2>9
<1>6. CASE now \notin S
  <2>1. \A u \in S : events[u] = after[u]
    BY <1>1, <1>4, <1>6
  <2>2. SumFunctionOnSet(events, S) = SumFunctionOnSet(after, S)
    BY <1>2, <2>1, SumSame
  <2>3. QED
    BY <1>3, <1>4, <1>6, <2>2
<1>7. QED
  BY <1>5, <1>6

LEMMA WindowFacts ==
    /\ Window \in Nat \ {0} /\ MaxTicks \in Nat /\ Limit \in Nat \ {0} /\ Threshold \in Nat \ {0}
    /\ Ticks \subseteq Nat /\ FailureBound \in Nat \ {0}
    /\ IsFiniteSet(Entrants) /\ Cardinality(Entrants) \in Nat
<1>1. /\ Window \in Nat \ {0} /\ MaxTicks \in Nat /\ Limit \in Nat \ {0}
      /\ Threshold \in Nat \ {0} /\ IsFiniteSet(Entrants) /\ Entrants # {}
  BY EntryLimitsAssumption DEF EntryLimitsAssumption
<1>2. Cardinality(Entrants) \in Nat /\ Cardinality(Entrants) # 0
  BY <1>1, FS_CardinalityType, FS_EmptySet
<1>3. FailureBound \in Nat \ {0}
  BY <1>1, <1>2 DEF FailureBound
<1>4. QED
  BY <1>1, <1>2, <1>3 DEF Ticks

\* What one event more needs: the events of its window, from s on, with it are at
\* most B, and those before that window leave one.
LEMMA EventWithin ==
    ASSUME NEW events \in [Ticks -> Nat], NEW now \in Ticks, NEW B \in Nat \ {0},
           \A u \in Ticks : u > now => events[u] = 0,
           \A t \in Int : Total(events, t, t + Window - 1) <= 2 * B - 1,
           NEW s \in 0 .. now, now - s < Window,
           Total(events, s, now) + 1 <= B,
           \A t \in Int : t > s - Window => Total(events, t, s - 1) <= B - 1,
           NEW after, OneMore(events, after, now)
    PROVE  \A t \in Int : Total(after, t, t + Window - 1) <= 2 * B - 1
<1>1. Window \in Nat \ {0} /\ now \in Nat /\ s \in Int
  BY WindowFacts
<1>2. SUFFICES ASSUME NEW t \in Int PROVE Total(after, t, t + Window - 1) <= 2 * B - 1
  OBVIOUS
<1> DEFINE hi == t + Window - 1
<1>3. hi \in Int
  BY <1>1
<1>4. /\ t <= now /\ now <= hi => Total(after, t, hi) = Total(events, t, hi) + 1
      /\ ~(t <= now /\ now <= hi) => Total(after, t, hi) = Total(events, t, hi)
  <2> HIDE DEF hi
  <2>1. QED
    BY <1>3, TotalEvent
<1>5. Total(events, t, hi) \in Nat /\ Total(events, s, now) \in Nat
  BY TotalNat
<1>6. CASE ~(t <= now /\ now <= hi)
  <2>1. Total(events, t, hi) <= 2 * B - 1
    OBVIOUS
  <2>2. Total(after, t, hi) = Total(events, t, hi)
    BY <1>4, <1>6
  <2>3. QED
    BY <2>1, <2>2
<1>7. CASE t <= now /\ now <= hi
  <2>1. Total(events, t, hi) = Total(events, t, now)
    <3> HIDE DEF hi
    <3>1. QED
      BY <1>1, <1>3, <1>7, TotalQuiet
  <2>2. Total(events, t, now) + 1 <= 2 * B - 1
    <3>1. CASE t >= s
      <4>1. Between(t, now) \subseteq Between(s, now)
        <5>1. \A u \in Ticks : t <= u => s <= u
          BY <1>1, <3>1, WindowFacts
        <5>2. QED
          BY <5>1 DEF Between
      <4>2. Total(events, t, now) <= Total(events, s, now)
        BY <4>1, TotalWithin
      <4>3. Total(events, t, now) \in Nat
        BY TotalNat
      <4>4. QED
        BY <1>5, <4>2, <4>3
    <3>2. CASE t < s
      <4>1. t > s - Window
        BY <1>1, <1>7, <3>2
      <4>2. Total(events, t, s - 1) <= B - 1
        BY <4>1
      <4>3. Total(events, t, now) = Total(events, t, s - 1) + Total(events, s, now)
        BY <1>1, <3>2, TotalCut
      <4>4. Total(events, t, s - 1) \in Nat
        BY TotalNat
      <4>5. PICK x \in Nat, y \in Nat : x = Total(events, t, s - 1) /\ y = Total(events, s, now)
        BY <1>5, <4>4
      <4>6. x <= B - 1 /\ y + 1 <= B /\ Total(events, t, now) = x + y
        BY <4>2, <4>3, <4>5
      <4>7. QED
        BY <4>5, <4>6
    <3>3. QED
      BY <1>1, <3>1, <3>2
  <2>3. QED
    BY <1>4, <1>7, <2>1, <2>2
<1>8. QED
  BY <1>6, <1>7

\* An event in the window that is open.
LEMMA OpenEvent ==
    ASSUME NEW events, NEW e \in EntryRow, NEW now \in Ticks, NEW B \in Nat \ {0},
           Limited(events, e, now, B), Opened(e, now), e.count < B,
           NEW after, OneMore(events, after, now),
           NEW n \in EntryRow, n.startedAt = e.startedAt, n.count = e.count + 1
    PROVE  Limited(after, n, now, B) /\ Opened(n, now)
<1> DEFINE s == e.startedAt
<1>1. /\ events \in [Ticks -> Nat] /\ (\A u \in Ticks : u > now => events[u] = 0)
      /\ s \in 0 .. now /\ events[s] >= 1 /\ e.count = Total(events, s, now)
      /\ \A t \in Int : t > s - Window => Total(events, t, s - 1) <= B - 1
      /\ \A t \in Int : Total(events, t, t + Window - 1) <= 2 * B - 1
      /\ now - s < Window
  BY DEF Limited, WindowKept, Opened
<1>2. /\ now \in Nat /\ Window \in Nat \ {0} /\ s \in Nat /\ s <= now /\ e.count \in Nat
      /\ s \in Ticks
  BY <1>1, WindowFacts DEF EntryRow, Ticks
<1>3. n # NoEntry
  BY <1>2 DEF NoEntry
<1> HIDE DEF s
<1>4. Opened(n, now)
  BY <1>1, <1>3 DEF Opened, s
<1>5. /\ after \in [Ticks -> Nat]
      /\ \A u \in Ticks : after[u] = IF u = now THEN events[now] + 1 ELSE events[u]
  BY DEF OneMore
<1>6. \A u \in Ticks : u > now => after[u] = 0
  BY <1>1, <1>2, <1>5
<1>7. after[s] >= 1
  <2>1. events[s] \in Nat /\ events[now] \in Nat
    BY <1>1, <1>2
  <2>2. QED
    BY <1>1, <1>2, <1>5, <2>1
<1>8. n.count = Total(after, s, now)
  <2>1. s <= now /\ now <= now /\ now \in Int /\ s \in Int
    BY <1>2
  <2>2. Total(after, s, now) = Total(events, s, now) + 1
    BY <1>1, <2>1, TotalEvent
  <2>3. QED
    BY <1>1, <2>2
<1>9. n.count <= B
  BY <1>2
<1>10. ASSUME NEW t \in Int, t > s - Window PROVE Total(after, t, s - 1) <= B - 1
  <2>1. s - 1 \in Int /\ ~(now <= s - 1)
    BY <1>2
  <2>2. Total(after, t, s - 1) = Total(events, t, s - 1)
    BY <1>1, <2>1, TotalEvent
  <2>3. QED
    BY <1>1, <1>10, <2>2
<1>11. \A t \in Int : Total(after, t, t + Window - 1) <= 2 * B - 1
  <2>1. Total(events, s, now) + 1 <= B
    BY <1>1, <1>2
  <2>2. QED
    BY <1>1, <2>1, EventWithin
<1>12. WindowKept(after, n, now, B)
  <2>1. n.startedAt = s
    BY DEF s
  <2>2. QED
    BY <1>1, <1>4, <1>7, <1>8, <1>9, <1>10, <2>1 DEF WindowKept
<1>13. QED
  BY <1>4, <1>5, <1>6, <1>11, <1>12 DEF Limited

\* An event that opens a window.
LEMMA FirstEvent ==
    ASSUME NEW events, NEW e, NEW now \in Ticks, NEW B \in Nat \ {0},
           Limited(events, e, now, B), ~Opened(e, now),
           NEW after, OneMore(events, after, now),
           NEW n \in EntryRow, n.startedAt = now, n.count = 1
    PROVE  Limited(after, n, now, B) /\ Opened(n, now)
<1>1. /\ events \in [Ticks -> Nat] /\ (\A u \in Ticks : u > now => events[u] = 0)
      /\ events[now] = 0
      /\ \A t \in Int : t > now - Window => Total(events, t, now) <= B - 1
      /\ \A t \in Int : Total(events, t, t + Window - 1) <= 2 * B - 1
  BY DEF Limited, WindowKept
<1>2. now \in Nat /\ Window \in Nat \ {0} /\ now \in 0 .. now /\ now - now < Window
  BY WindowFacts
<1>3. n # NoEntry /\ Opened(n, now)
  BY <1>2 DEF NoEntry, Opened
<1>4. /\ after \in [Ticks -> Nat] /\ after[now] = 1
      /\ \A u \in Ticks : after[u] = IF u = now THEN 1 ELSE events[u]
  BY <1>1 DEF OneMore
<1>5. \A u \in Ticks : u > now => after[u] = 0
  BY <1>1, <1>2, <1>4
<1>6. Total(events, now, now) = 0
  <2>1. \A u \in Between(now, now) : events[u] = 0
    <3>1. \A u \in Between(now, now) : u = now
      BY <1>2, WindowFacts DEF Between
    <3>2. QED
      BY <1>1, <3>1
  <2>2. QED
    BY <2>1, BetweenFinite, SumZero DEF Total
<1>7. Total(after, now, now) = 1
  <2>1. now <= now /\ now \in Int
    BY <1>2
  <2>2. Total(after, now, now) = Total(events, now, now) + 1
    BY <1>1, <2>1, TotalEvent
  <2>3. QED
    BY <1>6, <2>2
<1>8. \A t \in Int : t > now - Window => Total(events, t, now - 1) <= B - 1
  <2>1. ASSUME NEW t \in Int, t > now - Window PROVE Total(events, t, now - 1) <= B - 1
    <3>1. Between(t, now - 1) \subseteq Between(t, now)
      <4>1. \A u \in Ticks : u <= now - 1 => u <= now
        BY <1>2, WindowFacts
      <4>2. QED
        BY <4>1 DEF Between
    <3>2. Total(events, t, now - 1) <= Total(events, t, now)
      BY <1>1, <3>1, TotalWithin
    <3>3. Total(events, t, now) <= B - 1
      BY <1>1, <2>1
    <3>4. Total(events, t, now - 1) \in Nat /\ Total(events, t, now) \in Nat
      BY <1>1, TotalNat
    <3>5. QED
      BY <3>2, <3>3, <3>4
  <2>2. QED
    BY <2>1
<1>9. ASSUME NEW t \in Int, t > now - Window PROVE Total(after, t, now - 1) <= B - 1
  <2>1. now - 1 \in Int /\ ~(now <= now - 1)
    BY <1>2
  <2>2. Total(after, t, now - 1) = Total(events, t, now - 1)
    BY <1>1, <2>1, TotalEvent
  <2>3. QED
    BY <1>8, <1>9, <2>2
<1>10. \A t \in Int : Total(after, t, t + Window - 1) <= 2 * B - 1
  <2>1. Total(events, now, now) + 1 <= B
    BY <1>6
  <2>2. QED
    BY <1>1, <1>2, <1>8, <2>1, EventWithin
<1>11. WindowKept(after, n, now, B)
  <2>1. n.count <= B /\ after[n.startedAt] >= 1 /\ n.count = Total(after, n.startedAt, now)
    BY <1>4, <1>7
  <2>2. QED
    BY <1>2, <1>3, <1>9, <2>1 DEF WindowKept
<1>12. QED
  BY <1>3, <1>4, <1>5, <1>10, <1>11 DEF Limited

LEMMA TotalOne ==
    ASSUME NEW events \in [Ticks -> Nat], NEW u \in Ticks
    PROVE  Total(events, u, u) = events[u]
<1>1. Between(u, u) = {u}
  <2>1. \A v \in Ticks : u <= v /\ v <= u <=> v = u
    BY WindowFacts
  <2>2. QED
    BY <2>1 DEF Between
<1>2. SumFunctionOnSet(events, {u}) = events[u] + SumFunctionOnSet(events, {u} \ {u})
  <2>1. IsFiniteSet({u}) /\ \A x \in {u} : events[x] \in Int
    <3>1. IsFiniteSet({u})
      BY FS_Singleton
    <3>2. events[u] \in Int
      OBVIOUS
    <3>3. QED
      BY <3>1, <3>2
  <2>2. QED
    BY <2>1, SumRemove
<1>3. SumFunctionOnSet(events, {u} \ {u}) = 0
  <2>1. {u} \ {u} = {}
    OBVIOUS
  <2>2. QED
    BY <2>1, SumEmpty
<1>4. events[u] \in Nat
  OBVIOUS
<1>5. QED
  BY <1>1, <1>2, <1>3, <1>4 DEF Total

LEMMA TotalWithoutFirst ==
    ASSUME NEW events \in [Ticks -> Nat], NEW s \in Ticks, NEW now \in Nat, s <= now
    PROVE  Total(events, s, now) = events[s] + Total(events, s + 1, now)
<1>1. PICK m \in Int : m = s + 1
  BY WindowFacts
<1>2. s \in Int /\ s <= m /\ m <= now + 1 /\ m - 1 = s
  BY <1>1, WindowFacts
<1>3. Total(events, s, now) = Total(events, s, m - 1) + Total(events, m, now)
  BY <1>2, TotalCut
<1>4. Total(events, s, s) = events[s]
  BY TotalOne
<1>5. QED
  BY <1>1, <1>2, <1>3, <1>4

\* Time passes.
LEMMA LimitedNext ==
    ASSUME NEW events, NEW e \in EntryRow, NEW now \in Ticks, NEW next \in Ticks, next = now + 1,
           NEW B \in Nat \ {0}, Limited(events, e, now, B)
    PROVE  Limited(events, e, next, B) /\ (Opened(e, next) => Opened(e, now))
<1> DEFINE s == e.startedAt
<1>1. /\ events \in [Ticks -> Nat] /\ (\A u \in Ticks : u > now => events[u] = 0)
      /\ \A t \in Int : Total(events, t, t + Window - 1) <= 2 * B - 1
      /\ WindowKept(events, e, now, B)
  BY DEF Limited
<1>2. now \in Nat /\ next = now + 1 /\ Window \in Nat \ {0} /\ s \in Int /\ Ticks \subseteq Nat
  BY WindowFacts DEF EntryRow
<1>3. \A u \in Ticks : u > next => events[u] = 0
  BY <1>1, <1>2
<1>4. events[next] = 0
  BY <1>1, <1>2
<1>5. \A t \in Int : Total(events, t, next) = Total(events, t, now)
  <2>1. next \in Int /\ next >= now
    BY <1>2
  <2>2. QED
    BY <1>1, <1>2, <2>1, TotalQuiet
<1>6. CASE Opened(e, now) /\ Opened(e, next)
  <2>1. /\ s \in 0 .. now /\ events[s] >= 1 /\ e.count = Total(events, s, now) /\ e.count <= B
        /\ \A t \in Int : t > s - Window => Total(events, t, s - 1) <= B - 1
    BY <1>1, <1>6 DEF WindowKept
  <2>2. s \in 0 .. next /\ e.count = Total(events, s, next)
    BY <1>2, <1>5, <2>1
  <2>3. WindowKept(events, e, next, B)
    BY <1>6, <2>1, <2>2 DEF WindowKept
  <2>4. QED
    BY <1>1, <1>3, <1>6, <2>3 DEF Limited
<1>7. CASE Opened(e, now) /\ ~Opened(e, next)
  <2>1. /\ s \in 0 .. now /\ events[s] >= 1 /\ e.count = Total(events, s, now) /\ e.count <= B
    BY <1>1, <1>7 DEF WindowKept
  <2>2. next = s + Window
    <3>1. now - s < Window /\ ~(next - s < Window)
      BY <1>7 DEF Opened
    <3> HIDE DEF s
    <3>2. QED
      BY <1>2, <3>1
  <2>3. Total(events, s + 1, now) <= B - 1
    <3>1. s \in Ticks /\ s <= now
      BY <1>2, <2>1, WindowFacts DEF Ticks
    <3> HIDE DEF s
    <3>2. Total(events, s, now) = events[s] + Total(events, s + 1, now)
      BY <1>1, <1>2, <3>1, TotalWithoutFirst
    <3>3. events[s] \in Nat /\ events[s] >= 1 /\ Total(events, s + 1, now) \in Nat
      BY <1>1, <2>1, <3>1, TotalNat
    <3>4. PICK x \in Nat, y \in Nat : x = events[s] /\ y = Total(events, s + 1, now)
      BY <3>3
    <3>5. x + y <= B /\ x >= 1
      BY <2>1, <3>2, <3>3, <3>4
    <3>6. QED
      BY <3>4, <3>5
  <2>4. ASSUME NEW t \in Int, t > next - Window PROVE Total(events, t, next) <= B - 1
    <3>1. t >= s + 1
      <4> HIDE DEF s
      <4>1. QED
        BY <1>2, <2>2, <2>4
    <3>2. Between(t, now) \subseteq Between(s + 1, now)
      <4> HIDE DEF s
      <4>1. \A u \in Ticks : t <= u => s + 1 <= u
        BY <1>2, <3>1
      <4>2. QED
        BY <4>1 DEF Between
    <3>3. Total(events, t, now) <= Total(events, s + 1, now)
      BY <1>1, <3>2, TotalWithin
    <3>4. /\ Total(events, t, now) \in Nat /\ Total(events, s + 1, now) \in Nat
          /\ Total(events, t, next) = Total(events, t, now)
      BY <1>1, <1>5, TotalNat
    <3> HIDE DEF s
    <3>5. QED
      BY <2>3, <3>3, <3>4
  <2>5. WindowKept(events, e, next, B)
    BY <1>4, <1>7, <2>4 DEF WindowKept
  <2>6. QED
    BY <1>1, <1>3, <1>7, <2>5 DEF Limited
<1>8. CASE ~Opened(e, now)
  <2>1. ~Opened(e, next)
    BY <1>2, <1>8 DEF Opened
  <2>2. \A t \in Int : t > next - Window => Total(events, t, next) <= B - 1
    <3>1. \A t \in Int : t > now - Window => Total(events, t, now) <= B - 1
      BY <1>1, <1>8 DEF WindowKept
    <3>2. \A t \in Int : t > next - Window => t > now - Window
      BY <1>2
    <3>3. QED
      BY <1>5, <3>1, <3>2
  <2>3. WindowKept(events, e, next, B)
    BY <1>4, <2>1, <2>2 DEF WindowKept
  <2>4. QED
    BY <1>1, <1>3, <2>1, <2>3 DEF Limited
<1>9. QED
  BY <1>6, <1>7, <1>8

\* What cleanup drops does not count any more.
LEMMA LimitedDropped ==
    ASSUME NEW events, NEW e, NEW now, NEW B, Limited(events, e, now, B), ~Opened(e, now)
    PROVE  Limited(events, NoEntry, now, B) /\ ~Opened(NoEntry, now)
<1>1. ~Opened(NoEntry, now)
  BY DEF Opened
<1>2. QED
  BY <1>1 DEF Limited, WindowKept

\* The entry of the address after an event of it.
Counted1(e) ==
    IF Opened(e, tick) THEN [startedAt |-> e.startedAt, count |-> e.count + 1]
    ELSE [startedAt |-> tick, count |-> 1]

LEMMA ExpiredNotOpened ==
    ASSUME tick \in Ticks, NEW e \in EntryRow
    PROVE  Expired(e) <=> ~Opened(e, tick)
<1>1. e.startedAt \in Int /\ tick \in Int /\ Window \in Int
  BY WindowFacts DEF EntryRow
<1>2. (tick - e.startedAt >= Window) <=> ~(tick - e.startedAt < Window)
  BY <1>1
<1>3. QED
  BY <1>2 DEF Expired, Opened

\* Recorded counts the event of one address; of the others it drops at most
\* what has run out.
LEMMA RecordedRows ==
    ASSUME tick \in Ticks, NEW entries \in [Addresses -> EntryRow], NEW a \in Addresses
    PROVE  /\ Recorded(entries, a) \in [Addresses -> EntryRow]
           /\ Recorded(entries, a)[a] = Counted1(entries[a])
           /\ \A b \in Addresses : b # a =>
                \/ Recorded(entries, a)[b] = entries[b]
                \/ Recorded(entries, a)[b] = NoEntry /\ ~Opened(entries[b], tick)
<1>1. PICK e : e = entries[a]
  OBVIOUS
<1>2. e \in EntryRow /\ e = [startedAt |-> e.startedAt, count |-> e.count]
      /\ e.startedAt \in Int /\ e.count \in Nat /\ tick \in Nat
  BY <1>1, WindowFacts DEF EntryRow
<1>3. Expired(e) <=> ~Opened(e, tick)
  BY <1>2, ExpiredNotOpened
<1>4. CASE Opened(e, tick)
  <2>1. PICK new : new = [entries[a] EXCEPT !.count = entries[a].count + 1]
    OBVIOUS
  <2>2. new = [startedAt |-> e.startedAt, count |-> e.count + 1]
    BY <1>1, <1>2, <2>1
  <2>3. new \in EntryRow
    BY <1>2, <2>2 DEF EntryRow
  <2>4. Recorded(entries, a) = [entries EXCEPT ![a] = new]
    BY <1>1, <1>3, <1>4, <2>1 DEF Recorded
  <2>5. new = Counted1(entries[a])
    BY <1>1, <1>4, <2>2 DEF Counted1
  <2>6. QED
    BY <2>3, <2>4, <2>5
<1>5. CASE ~Opened(e, tick)
  <2>1. PICK new : new = [startedAt |-> tick, count |-> 1]
    OBVIOUS
  <2>2. new \in EntryRow /\ new # NoEntry /\ new.startedAt = tick
    BY <1>2, <2>1 DEF EntryRow, NoEntry
  <2>3. Opened(new, tick)
    <3>1. tick - tick < Window
      BY <1>2, WindowFacts
    <3>2. QED
      BY <2>2, <3>1 DEF Opened
  <2>4. PICK now : now = [entries EXCEPT ![a] = new]
    OBVIOUS
  <2>5. /\ now \in [Addresses -> EntryRow] /\ now[a] = new
        /\ \A b \in Addresses : b # a => now[b] = entries[b]
    BY <2>2, <2>4
  <2>6. Recorded(entries, a) = CleanUp(now, a)
    BY <1>1, <1>3, <1>5, <2>1, <2>4 DEF Recorded
  <2>7. new = Counted1(entries[a])
    BY <1>1, <1>5, <2>1 DEF Counted1
  <2>8. \/ CleanUp(now, a) = now
        \/ CleanUp(now, a) = [b \in Addresses |-> IF Expired(now[b]) THEN NoEntry ELSE now[b]]
    BY DEF CleanUp
  <2>9. \A b \in Addresses : Expired(now[b]) <=> ~Opened(now[b], tick)
    BY <2>5, ExpiredNotOpened
  <2>10. NoEntry \in EntryRow
    BY DEF NoEntry, EntryRow
  <2>11. ~Expired(now[a])
    BY <2>3, <2>5, <2>9
  <2>12. CASE CleanUp(now, a) = now
    BY <2>5, <2>6, <2>7, <2>12
  <2>13. CASE CleanUp(now, a) = [b \in Addresses |-> IF Expired(now[b]) THEN NoEntry ELSE now[b]]
    BY <2>5, <2>6, <2>7, <2>9, <2>10, <2>11, <2>13
  <2>14. QED
    BY <2>8, <2>12, <2>13
<1>6. QED
  BY <1>4, <1>5

LEMMA EventLimited ==
    ASSUME tick \in Ticks, NEW events, NEW e \in EntryRow, NEW B \in Nat \ {0},
           Limited(events, e, tick, B), Opened(e, tick) => e.count < B,
           NEW after, OneMore(events, after, tick)
    PROVE  Limited(after, Counted1(e), tick, B) /\ Opened(Counted1(e), tick)
<1>1. PICK n : n = Counted1(e)
  OBVIOUS
<1>2. PICK now : now = tick
  OBVIOUS
<1>3. /\ now \in Ticks /\ now \in Int /\ Limited(events, e, now, B)
      /\ OneMore(events, after, now) /\ e.startedAt \in Int /\ e.count \in Nat
  BY <1>2, WindowFacts DEF EntryRow
<1>4. CASE Opened(e, tick)
  <2>1. n = [startedAt |-> e.startedAt, count |-> e.count + 1]
    BY <1>1, <1>4 DEF Counted1
  <2>2. n \in EntryRow /\ n.startedAt = e.startedAt /\ n.count = e.count + 1
    BY <1>3, <2>1 DEF EntryRow
  <2>3. Opened(e, now) /\ e.count < B
    BY <1>2, <1>4
  <2>4. Limited(after, n, now, B) /\ Opened(n, now)
    BY <1>3, <2>2, <2>3, OpenEvent
  <2>5. QED
    BY <1>1, <1>2, <2>4
<1>5. CASE ~Opened(e, tick)
  <2>1. n = [startedAt |-> now, count |-> 1]
    BY <1>1, <1>2, <1>5 DEF Counted1
  <2>2. n \in EntryRow /\ n.startedAt = now /\ n.count = 1
    BY <1>3, <2>1 DEF EntryRow
  <2>3. ~Opened(e, now)
    BY <1>2, <1>5
  <2>4. Limited(after, n, now, B) /\ Opened(n, now)
    BY <1>3, <2>2, <2>3, FirstEvent
  <2>5. QED
    BY <1>1, <1>2, <2>4
<1>6. QED
  BY <1>4, <1>5

Happened(total, after, a) ==
    after = [total EXCEPT ![a] = [total[a] EXCEPT ![tick] = total[a][tick] + 1]]

\* An event of one address, counted by Recorded.
LEMMA RecordedLimited ==
    ASSUME tick \in Ticks, NEW entries \in [Addresses -> EntryRow], NEW a \in Addresses,
           NEW B \in Nat \ {0}, NEW total \in [Addresses -> [Ticks -> Nat]],
           \A b \in Addresses : Limited(total[b], entries[b], tick, B),
           Opened(entries[a], tick) => entries[a].count < B,
           NEW after, Happened(total, after, a)
    PROVE  /\ after \in [Addresses -> [Ticks -> Nat]]
           /\ \A b \in Addresses : Limited(after[b], Recorded(entries, a)[b], tick, B)
<1>1. PICK row : row = [total[a] EXCEPT ![tick] = total[a][tick] + 1]
  OBVIOUS
<1>2. total[a] \in [Ticks -> Nat]
  OBVIOUS
<1>3. row \in [Ticks -> Nat] /\ OneMore(total[a], row, tick)
  BY <1>1, <1>2 DEF OneMore
<1>4. after \in [Addresses -> [Ticks -> Nat]] /\ after[a] = row
      /\ \A b \in Addresses : b # a => after[b] = total[b]
  BY <1>1, <1>3 DEF Happened
<1>5. ASSUME NEW b \in Addresses PROVE Limited(after[b], Recorded(entries, a)[b], tick, B)
  <2>1. CASE b = a
    <3>1. Limited(row, Counted1(entries[a]), tick, B)
      BY <1>3, EventLimited
    <3>2. Recorded(entries, a)[a] = Counted1(entries[a])
      BY RecordedRows
    <3>3. QED
      BY <1>4, <2>1, <3>1, <3>2
  <2>2. CASE b # a
    <3>1. after[b] = total[b] /\ Limited(total[b], entries[b], tick, B)
      BY <1>4, <2>2
    <3>2. \/ Recorded(entries, a)[b] = entries[b]
          \/ Recorded(entries, a)[b] = NoEntry /\ ~Opened(entries[b], tick)
      BY <2>2, RecordedRows
    <3>3. CASE Recorded(entries, a)[b] = entries[b]
      BY <3>1, <3>3
    <3>4. CASE Recorded(entries, a)[b] = NoEntry /\ ~Opened(entries[b], tick)
      BY <3>1, <3>4, LimitedDropped
    <3>5. QED
      BY <3>2, <3>3, <3>4
  <2>3. QED
    BY <2>1, <2>2
<1>6. QED
  BY <1>4, <1>5

\* How many requests are in flight.
LEMMA InFlightFinite ==
    ASSUME NEW S, S \subseteq Entrants
    PROVE  IsFiniteSet(S) /\ Cardinality(S) \in Nat /\ Cardinality(S) <= Cardinality(Entrants)
BY WindowFacts, FS_Subset, FS_CardinalityType

\* A request that leaves, or goes on, adds nothing to those in flight.
LEMMA LeavingKeeps ==
    ASSUME EntryInv, NEW r \in Entrants,
           NEW next \in {Outside} \cup [at : {"unlocked", "handler"}, from : Addresses],
           next = Outside \/ (entering[r] # Outside /\ next.from = entering[r].from),
           entering' = [entering EXCEPT ![r] = next]
    PROVE  /\ entering' \in [Entrants -> {Outside} \cup
                                          [at : {"unlocked", "handler"}, from : Addresses]]
           /\ \A b \in Addresses : /\ InFlight(b)' \subseteq InFlight(b)
                                   /\ Cardinality(InFlight(b)') <= Cardinality(InFlight(b))
                                   /\ Cardinality(InFlight(b)') \in Nat
<1>1. entering \in [Entrants -> {Outside} \cup [at : {"unlocked", "handler"}, from : Addresses]]
  BY DEF EntryInv, EntryTypes
<1>2. /\ entering' \in [Entrants -> {Outside} \cup
                                     [at : {"unlocked", "handler"}, from : Addresses]]
      /\ \A q \in Entrants : entering'[q] = IF q = r THEN next ELSE entering[q]
  BY <1>1
<1>3. ASSUME NEW b \in Addresses
      PROVE  /\ InFlight(b)' \subseteq InFlight(b)
             /\ Cardinality(InFlight(b)') <= Cardinality(InFlight(b))
             /\ Cardinality(InFlight(b)') \in Nat
  <2>1. PICK S : S = InFlight(b)'
    OBVIOUS
  <2>2. PICK T : T = InFlight(b)
    OBVIOUS
  <2>3. S \subseteq T
    BY <1>2, <2>1, <2>2 DEF InFlight
  <2>4. T \subseteq Entrants
    BY <2>2 DEF InFlight
  <2>5. IsFiniteSet(T)
    BY <2>4, InFlightFinite
  <2>6. Cardinality(S) <= Cardinality(T) /\ Cardinality(S) \in Nat
    BY <2>3, <2>5, FS_Subset, FS_CardinalityType
  <2>7. QED
    BY <2>1, <2>2, <2>3, <2>6
<1>4. QED
  BY <1>2, <1>3

LEMMA FailureLockKeeps ==
    ASSUME EntryInv, NEW r \in Entrants, NEW a \in Addresses, FailureLock(r, a)
    PROVE  EntryInv'
<1>1. /\ EntryTypes /\ UNCHANGED <<tick, requested, failed, passes, failures>>
      /\ failed \in [Addresses -> EntryRow] /\ tick \in Ticks
  BY DEF EntryInv, EntryTypes, FailureLock
<1>2. PICK new : new = [at |-> "unlocked", from |-> a]
  OBVIOUS
<1>3. /\ new \in [at : {"unlocked", "handler"}, from : Addresses]
      /\ new # Outside /\ new.from = a /\ entering' = [entering EXCEPT ![r] = new]
  <2>1. new.at = "unlocked" /\ Outside.at = "outside"
    BY <1>2 DEF Outside
  <2>2. QED
    BY <1>2, <2>1 DEF FailureLock
<1>4. /\ entering' \in [Entrants -> {Outside} \cup
                                     [at : {"unlocked", "handler"}, from : Addresses]]
      /\ \A q \in Entrants : entering'[q] = IF q = r THEN new ELSE entering[q]
  BY <1>1, <1>3 DEF EntryTypes
<1>5. EntryTypes'
  BY <1>1, <1>4 DEF EntryTypes
<1>6. ASSUME NEW b \in Addresses, Opened(failed[b], tick)
      PROVE  failed[b].count + Cardinality(InFlight(b)') <= FailureBound
  <2>1. CASE b = a
    <3>1. PICK S : S = InFlight(b)'
      OBVIOUS
    <3>2. S \subseteq Entrants
      BY <3>1 DEF InFlight
    <3>3. Cardinality(S) \in Nat /\ Cardinality(S) <= Cardinality(Entrants)
      BY <3>2, InFlightFinite
    <3>4. ~Expired(failed[a])
      BY <1>1, <1>6, <2>1, ExpiredNotOpened
    <3>5. failed[a].count < Threshold /\ failed[a].count \in Nat
      BY <1>1, <3>4 DEF FailureLock, Below, EntryRow
    <3>6. QED
      BY <2>1, <3>1, <3>3, <3>5, WindowFacts DEF FailureBound
  <2>2. CASE b # a
    <3>1. InFlight(b)' = InFlight(b)
      <4>1. entering[r] = Outside
        BY DEF FailureLock
      <4>2. QED
        BY <1>3, <1>4, <2>2, <4>1 DEF InFlight
    <3>2. QED
      BY <1>6, <3>1 DEF EntryInv
  <2>3. QED
    BY <2>1, <2>2
<1>7. QED
  BY <1>1, <1>5, <1>6 DEF EntryInv

\* Fewer in flight, and the same failures.
LEMMA InFlightCounts ==
    ASSUME EntryInv, NEW b \in Addresses, Opened(failed[b], tick),
           NEW n \in Nat, n <= Cardinality(InFlight(b))
    PROVE  failed[b].count + n <= FailureBound
<1>1. failed[b].count \in Nat
  BY DEF EntryInv, EntryTypes, EntryRow
<1>2. Cardinality(InFlight(b)) \in Nat
  <2>1. InFlight(b) \subseteq Entrants
    BY DEF InFlight
  <2>2. QED
    BY <2>1, InFlightFinite
<1>3. failed[b].count + Cardinality(InFlight(b)) <= FailureBound
  BY DEF EntryInv
<1>4. QED
  BY <1>1, <1>2, <1>3, WindowFacts

\* A request leaves.
LEMMA LeaveKeeps ==
    ASSUME EntryInv, NEW r \in Entrants, entering' = [entering EXCEPT ![r] = Outside],
           UNCHANGED <<tick, requested, failed, passes, failures>>
    PROVE  EntryInv'
<1>1. /\ entering' \in [Entrants -> {Outside} \cup
                                     [at : {"unlocked", "handler"}, from : Addresses]]
      /\ \A b \in Addresses : /\ Cardinality(InFlight(b)') <= Cardinality(InFlight(b))
                              /\ Cardinality(InFlight(b)') \in Nat
  BY LeavingKeeps
<1>2. EntryTypes'
  BY <1>1 DEF EntryInv, EntryTypes
<1>3. ASSUME NEW b \in Addresses, Opened(failed[b], tick)
      PROVE  failed[b].count + Cardinality(InFlight(b)') <= FailureBound
  BY <1>1, <1>3, InFlightCounts
<1>4. QED
  BY <1>2, <1>3 DEF EntryInv

\* Who is inside has come from an address.
LEMMA InsideFrom ==
    ASSUME EntryInv, NEW r \in Entrants, entering[r].at \in {"unlocked", "handler"}
    PROVE  /\ entering[r] # Outside /\ entering[r].from \in Addresses
           /\ [entering[r] EXCEPT !.at = "handler"]
                \in [at : {"unlocked", "handler"}, from : Addresses]
           /\ [entering[r] EXCEPT !.at = "handler"].from = entering[r].from
<1>1. PICK row : row = entering[r]
  OBVIOUS
<1>2. row \in {Outside} \cup [at : {"unlocked", "handler"}, from : Addresses]
  BY <1>1 DEF EntryInv, EntryTypes
<1>3. Outside.at = "outside"
  BY DEF Outside
<1>4. row # Outside
  BY <1>1, <1>3
<1>5. row \in [at : {"unlocked", "handler"}, from : Addresses]
  BY <1>2, <1>4
<1>6. row = [at |-> row.at, from |-> row.from] /\ row.from \in Addresses
  BY <1>5
<1>7. [row EXCEPT !.at = "handler"] = [at |-> "handler", from |-> row.from]
  BY <1>6
<1>8. QED
  BY <1>1, <1>4, <1>6, <1>7

LEMMA RateLimitKeeps ==
    ASSUME EntryInv, NEW r \in Entrants, RateLimit(r)
    PROVE  EntryInv'
<1>1. /\ EntryTypes /\ UNCHANGED <<tick, failed, failures>> /\ entering[r].at = "unlocked"
      /\ requested \in [Addresses -> EntryRow] /\ tick \in Ticks
      /\ passes \in [Addresses -> [Ticks -> Nat]] /\ Limit \in Nat \ {0}
  BY WindowFacts DEF EntryInv, EntryTypes, RateLimit
<1>2. PICK a : a = entering[r].from
  OBVIOUS
<1>3. a \in Addresses /\ entering[r] # Outside
  BY <1>1, <1>2, InsideFrom
<1>4. \A b \in Addresses : Limited(passes[b], requested[b], tick, Limit)
  BY DEF EntryInv
<1>5. CASE /\ Below(requested, a, Limit) /\ requested' = Recorded(requested, a)
           /\ entering' = [entering EXCEPT ![r].at = "handler"]
           /\ passes' = [passes EXCEPT ![a][tick] = @ + 1]
  <2>1. Opened(requested[a], tick) => requested[a].count < Limit
    BY <1>1, <1>3, <1>5, ExpiredNotOpened DEF Below
  <2>2. PICK after : after = [passes EXCEPT ![a] = [passes[a] EXCEPT ![tick] = passes[a][tick] + 1]]
    OBVIOUS
  <2>3. passes' = after /\ Happened(passes, after, a)
    BY <1>5, <2>2 DEF Happened
  <2>4. /\ after \in [Addresses -> [Ticks -> Nat]]
        /\ \A b \in Addresses : Limited(after[b], Recorded(requested, a)[b], tick, Limit)
    BY <1>1, <1>3, <1>4, <2>1, <2>3, RecordedLimited
  <2>5. Recorded(requested, a) \in [Addresses -> EntryRow]
    BY <1>1, <1>3, RecordedRows
  <2>6. PICK next : next = [entering[r] EXCEPT !.at = "handler"]
    OBVIOUS
  <2>7. /\ next \in [at : {"unlocked", "handler"}, from : Addresses]
        /\ next.from = entering[r].from /\ entering' = [entering EXCEPT ![r] = next]
    BY <1>1, <1>5, <2>6, InsideFrom
  <2>8. /\ entering' \in [Entrants -> {Outside} \cup
                                       [at : {"unlocked", "handler"}, from : Addresses]]
        /\ \A b \in Addresses : /\ Cardinality(InFlight(b)') <= Cardinality(InFlight(b))
                                /\ Cardinality(InFlight(b)') \in Nat
    BY <1>3, <2>7, LeavingKeeps
  <2>9. EntryTypes'
    BY ZenonT(60), <1>1, <1>5, <2>3, <2>4, <2>5, <2>8 DEF EntryTypes
  <2>10. \A b \in Addresses : Limited(passes'[b], requested'[b], tick, Limit)
    BY <1>5, <2>3, <2>4
  <2>11. \A b \in Addresses : Opened(failed[b], tick) =>
            failed[b].count + Cardinality(InFlight(b)') <= FailureBound
    <3>1. ASSUME NEW b \in Addresses, Opened(failed[b], tick)
          PROVE  failed[b].count + Cardinality(InFlight(b)') <= FailureBound
      BY <1>1, <2>8, <3>1, InFlightCounts
    <3>2. QED
      BY <3>1
  <2>12. QED
    BY <1>1, <2>9, <2>10, <2>11 DEF EntryInv
<1>6. CASE entering' = [entering EXCEPT ![r] = Outside] /\ UNCHANGED <<requested, passes>>
  BY <1>1, <1>6, LeaveKeeps
<1>7. QED
  BY <1>1, <1>2, <1>5, <1>6 DEF RateLimit

LEMMA RecordFailureKeeps ==
    ASSUME EntryInv, NEW r \in Entrants, RecordFailure(r)
    PROVE  EntryInv'
<1>1. /\ EntryTypes /\ UNCHANGED <<tick, requested, passes>> /\ entering[r].at = "handler"
      /\ failed \in [Addresses -> EntryRow] /\ tick \in Ticks
      /\ failures \in [Addresses -> [Ticks -> Nat]] /\ FailureBound \in Nat \ {0}
  BY WindowFacts DEF EntryInv, EntryTypes, RecordFailure
<1>2. PICK a : a = entering[r].from
  OBVIOUS
<1>3. a \in Addresses /\ entering[r] # Outside
  BY <1>1, <1>2, InsideFrom
<1>4. \A b \in Addresses : Limited(failures[b], failed[b], tick, FailureBound)
  BY DEF EntryInv
<1>5. /\ failed' = Recorded(failed, a) /\ entering' = [entering EXCEPT ![r] = Outside]
      /\ failures' = [failures EXCEPT ![a][tick] = @ + 1]
  BY <1>2 DEF RecordFailure
<1>6. PICK S : S = InFlight(a)
  OBVIOUS
<1>7. r \in S /\ S \subseteq Entrants
  BY <1>2, <1>3, <1>6 DEF InFlight
<1>8. /\ IsFiniteSet(S) /\ Cardinality(S) \in Nat /\ Cardinality(S) <= Cardinality(Entrants)
      /\ Cardinality(S \ {r}) = Cardinality(S) - 1 /\ Cardinality(S \ {r}) \in Nat
  <2>1. IsFiniteSet(S) /\ Cardinality(S) \in Nat /\ Cardinality(S) <= Cardinality(Entrants)
    BY <1>7, InFlightFinite
  <2>2. Cardinality(S \ {r}) = Cardinality(S) - 1
    BY <1>7, <2>1, FS_RemoveElement
  <2>3. Cardinality(S \ {r}) \in Nat
    <3>1. S \ {r} \subseteq Entrants
      BY <1>7
    <3>2. QED
      BY <3>1, InFlightFinite
  <2>4. QED
    BY <2>1, <2>2, <2>3
<1>9. PICK e : e = failed[a]
  OBVIOUS
<1>10. e \in EntryRow /\ e.count \in Nat
  BY <1>1, <1>3, <1>9 DEF EntryRow
<1>11. Opened(e, tick) => e.count + Cardinality(S) <= FailureBound
  BY <1>3, <1>6, <1>9 DEF EntryInv
<1>12. Opened(failed[a], tick) => failed[a].count < FailureBound
  BY <1>1, <1>8, <1>9, <1>10, <1>11
<1>13. PICK after : after = [failures EXCEPT ![a] = [failures[a] EXCEPT ![tick] = failures[a][tick] + 1]]
  OBVIOUS
<1>14. failures' = after /\ Happened(failures, after, a)
  BY <1>5, <1>13 DEF Happened
<1>15. /\ after \in [Addresses -> [Ticks -> Nat]]
       /\ \A b \in Addresses : Limited(after[b], Recorded(failed, a)[b], tick, FailureBound)
  BY <1>1, <1>3, <1>4, <1>12, <1>14, RecordedLimited
<1>16. /\ Recorded(failed, a) \in [Addresses -> EntryRow]
       /\ Recorded(failed, a)[a] = Counted1(e)
       /\ \A b \in Addresses : b # a =>
            \/ Recorded(failed, a)[b] = failed[b]
            \/ Recorded(failed, a)[b] = NoEntry /\ ~Opened(failed[b], tick)
  BY <1>1, <1>3, <1>9, RecordedRows
<1>17. /\ entering' \in [Entrants -> {Outside} \cup
                                      [at : {"unlocked", "handler"}, from : Addresses]]
       /\ \A b \in Addresses : /\ Cardinality(InFlight(b)') <= Cardinality(InFlight(b))
                               /\ Cardinality(InFlight(b)') \in Nat
  BY <1>5, LeavingKeeps
<1>18. EntryTypes'
  BY <1>1, <1>5, <1>14, <1>15, <1>16, <1>17 DEF EntryTypes
<1>19. InFlight(a)' = S \ {r}
  <2>1. entering \in [Entrants -> {Outside} \cup [at : {"unlocked", "handler"}, from : Addresses]]
    BY <1>1 DEF EntryTypes
  <2>2. \A q \in Entrants : entering'[q] = IF q = r THEN Outside ELSE entering[q]
    BY <1>5, <2>1
  <2>3. QED
    BY <1>6, <2>2 DEF InFlight
<1>20. Counted1(e).count + Cardinality(S \ {r}) <= FailureBound
  <2>1. CASE Opened(e, tick)
    <3>1. Counted1(e).count = e.count + 1
      BY <2>1 DEF Counted1
    <3>2. QED
      BY <1>1, <1>8, <1>10, <1>11, <2>1, <3>1
  <2>2. CASE ~Opened(e, tick)
    <3>1. Counted1(e).count = 1
      BY <2>2 DEF Counted1
    <3>2. QED
      BY <1>8, <3>1, WindowFacts DEF FailureBound
  <2>3. QED
    BY <2>1, <2>2
<1>21. ASSUME NEW b \in Addresses, Opened(failed'[b], tick)
       PROVE  failed'[b].count + Cardinality(InFlight(b)') <= FailureBound
  <2>1. CASE b = a
    BY <1>5, <1>16, <1>19, <1>20, <2>1
  <2>2. CASE b # a
    <3>1. failed'[b] = failed[b]
      <4>1. ~Opened(NoEntry, tick)
        BY DEF Opened
      <4>2. QED
        BY <1>5, <1>16, <1>21, <2>2, <4>1
    <3>2. QED
      BY <1>1, <1>17, <1>21, <3>1, InFlightCounts
  <2>3. QED
    BY <2>1, <2>2
<1>22. \A b \in Addresses : Limited(failures'[b], failed'[b], tick, FailureBound)
  BY <1>5, <1>14, <1>15
<1>23. QED
  BY <1>1, <1>18, <1>21, <1>22 DEF EntryInv

LEMMA TickKeeps == ASSUME EntryInv, Tick PROVE EntryInv'
<1>1. /\ EntryTypes /\ tick \in Ticks /\ tick' = tick + 1 /\ tick < MaxTicks
      /\ UNCHANGED <<requested, failed, entering, passes, failures>>
      /\ requested \in [Addresses -> EntryRow] /\ failed \in [Addresses -> EntryRow]
      /\ Limit \in Nat \ {0} /\ FailureBound \in Nat \ {0}
  BY WindowFacts DEF EntryInv, EntryTypes, Tick
<1>2. tick' \in Ticks
  BY <1>1, WindowFacts DEF Ticks
<1>3. EntryTypes'
  BY <1>1, <1>2 DEF EntryTypes
<1>4. PICK now : now = tick
  OBVIOUS
<1>5. PICK next : next = tick'
  OBVIOUS
<1>6. now \in Ticks /\ next \in Ticks /\ next = now + 1
  BY <1>1, <1>2, <1>4, <1>5
<1>7. \A b \in Addresses :
        /\ Limited(passes[b], requested[b], next, Limit)
        /\ Limited(failures[b], failed[b], next, FailureBound)
        /\ Opened(failed[b], next) =>
             failed[b].count + Cardinality(InFlight(b)) <= FailureBound
  <2> TAKE b \in Addresses
  <2>1. /\ Limited(passes[b], requested[b], now, Limit)
        /\ Limited(failures[b], failed[b], now, FailureBound)
        /\ Opened(failed[b], now) =>
             failed[b].count + Cardinality(InFlight(b)) <= FailureBound
    BY <1>4 DEF EntryInv
  <2>2. requested[b] \in EntryRow /\ failed[b] \in EntryRow
    BY <1>1
  <2>3. Limited(passes[b], requested[b], next, Limit)
    BY <1>1, <1>6, <2>1, <2>2, LimitedNext
  <2>4. Limited(failures[b], failed[b], next, FailureBound)
        /\ (Opened(failed[b], next) => Opened(failed[b], now))
    BY <1>1, <1>6, <2>1, <2>2, LimitedNext
  <2>5. QED
    BY <2>1, <2>3, <2>4
<1>8. \A b \in Addresses : InFlight(b)' = InFlight(b)
  BY <1>1 DEF InFlight
<1>9. QED
  BY <1>1, <1>3, <1>5, <1>7, <1>8 DEF EntryInv

LEMMA EntryStart == ASSUME LimitInit PROVE EntryInv
<1>1. EntryTypes
  BY WindowFacts DEF LimitInit, EntryTypes, EntryRow, NoEntry, Ticks
<1>2. ASSUME NEW B \in Nat \ {0} PROVE Limited([t \in Ticks |-> 0], NoEntry, 0, B)
  <2>1. PICK events : events = [t \in Ticks |-> 0]
    OBVIOUS
  <2>2. events \in [Ticks -> Nat] /\ \A u \in Ticks : events[u] = 0
    BY <2>1
  <2>3. \A lo, hi : Total(events, lo, hi) = 0
    <3>1. ASSUME NEW lo, NEW hi PROVE Total(events, lo, hi) = 0
      <4>1. \A u \in Between(lo, hi) : events[u] = 0
        BY <2>2 DEF Between
      <4>2. QED
        BY <4>1, BetweenFinite, SumZero DEF Total
    <3>2. QED
      BY <3>1
  <2>4. ~Opened(NoEntry, 0) /\ 0 <= B - 1 /\ 0 <= 2 * B - 1
    BY DEF Opened
  <2>5. WindowKept(events, NoEntry, 0, B)
    BY <2>2, <2>3, <2>4 DEF WindowKept
  <2>6. QED
    BY <2>1, <2>2, <2>3, <2>4, <2>5 DEF Limited
<1>3. ASSUME NEW a \in Addresses
      PROVE  /\ Limited(passes[a], requested[a], tick, Limit)
             /\ Limited(failures[a], failed[a], tick, FailureBound)
             /\ ~Opened(failed[a], tick)
  <2>1. /\ passes[a] = [t \in Ticks |-> 0] /\ failures[a] = [t \in Ticks |-> 0]
        /\ requested[a] = NoEntry /\ failed[a] = NoEntry /\ tick = 0
    BY DEF LimitInit, Ticks
  <2>2. QED
    BY <1>2, <2>1, WindowFacts DEF Opened
<1>4. QED
  BY <1>1, <1>3 DEF EntryInv

LEMMA EntryStep == ASSUME EntryInv, [LimitNext]_limitVars PROVE EntryInv'
<1>1. ASSUME NEW r \in Entrants, NEW a \in Addresses, FailureLock(r, a) PROVE EntryInv'
  BY <1>1, FailureLockKeeps
<1>2. ASSUME NEW r \in Entrants, RateLimit(r) PROVE EntryInv'
  BY <1>2, RateLimitKeeps
<1>3. ASSUME NEW r \in Entrants, RecordFailure(r) PROVE EntryInv'
  BY <1>3, RecordFailureKeeps
<1>4. ASSUME NEW r \in Entrants, Succeeds(r) PROVE EntryInv'
  BY <1>4, LeaveKeeps DEF Succeeds
<1>5. CASE Tick
  BY <1>5, TickKeeps
<1>6. CASE UNCHANGED limitVars
  BY <1>6 DEF limitVars, EntryInv, EntryTypes, InFlight
<1>7. QED
  BY <1>1, <1>2, <1>3, <1>4, <1>5, <1>6 DEF LimitNext

LEMMA EntryImplied == ASSUME EntryInv PROVE EntrySound
<1>1. ASSUME NEW events, NEW t \in Ticks
      PROVE  InWindow(events, t) = Total(events, t, t + Window - 1)
  <2>1. \A u \in Int : /\ u \in t .. t + Window - 1 <=> t <= u /\ u <= t + Window - 1
                       /\ u \in Ticks <=> 0 <= u /\ u <= MaxTicks
    BY WindowFacts DEF Ticks
  <2>2. t \in Nat /\ Ticks \subseteq Int
    BY WindowFacts
  <2>3. \A u \in Int : t <= u => 0 <= u
    BY <2>2
  <2>4. {u \in t .. t + Window - 1 : u <= MaxTicks} \subseteq Between(t, t + Window - 1)
    BY <2>1, <2>3 DEF Between
  <2>5. Between(t, t + Window - 1) \subseteq {u \in t .. t + Window - 1 : u <= MaxTicks}
    BY <2>1, <2>2 DEF Between
  <2>6. QED
    BY <2>4, <2>5 DEF InWindow, Total
<1>2. ASSUME NEW a \in Addresses, NEW t \in Ticks
      PROVE  /\ InWindow(passes[a], t) <= 2 * Limit - 1
             /\ InWindow(failures[a], t) <= 2 * FailureBound - 1
  <2>1. t \in Int
    BY WindowFacts
  <2>2. /\ Total(passes[a], t, t + Window - 1) <= 2 * Limit - 1
        /\ Total(failures[a], t, t + Window - 1) <= 2 * FailureBound - 1
    BY <2>1 DEF EntryInv, Limited
  <2>3. QED
    BY <1>1, <2>2
<1>3. QED
  BY <1>2 DEF EntrySound, FailureBound, Ticks

\* What the limits before a login keep in every step of them.
THEOREM EntryInvariant == LimitSpec => []EntryInv
<1>1. LimitInit => EntryInv
  BY EntryStart
<1>2. EntryInv /\ [LimitNext]_limitVars => EntryInv'
  BY EntryStep
<1>3. QED
  BY <1>1, <1>2, PTL DEF LimitSpec

\* No interval as long as a window sees more requests or failures of an address
\* than two windows hold, whichever entries a cleanup drops and however many
\* requests were inside when the lockout began (fixedWindowLimiter,
\* failureLockout).
THEOREM EntrySoundHolds == LimitSpec => []EntrySound
<1>1. EntryInv => EntrySound
  BY EntryImplied
<1>2. QED
  BY <1>1, EntryInvariant, PTL

-----------------------------------------------------------------------------
(* Side by side *)

LEMMA AccountsSteps ==
    ASSUME [AccountsNext]_<<part, accountVars>>
    PROVE  /\ [AdmNext]_admVars /\ [RecNext]_recVars /\ [CapNext]_capVars
           /\ [ClassicNext]_classicVars /\ [ClientNext]_clientVars /\ [IdNext]_idVars
           /\ [LimitNext]_limitVars
<1>1. CASE UNCHANGED <<part, accountVars>>
  <2>1. /\ UNCHANGED admVars /\ UNCHANGED recVars /\ UNCHANGED capVars
        /\ UNCHANGED classicVars /\ UNCHANGED clientVars /\ UNCHANGED idVars
        /\ UNCHANGED limitVars
    BY <1>1 DEF accountVars
  <2>2. QED
    BY <2>1
<1>2. CASE AccountsNext
  BY <1>2 DEF AccountsNext
<1>3. QED
  BY <1>1, <1>2

\* Every component behaves in the whole as it does alone: none has a step that
\* writes the rows, files or counters of another.
THEOREM EveryAccount ==
    AccountsSpec => /\ AdmSpec /\ RecSpec /\ CapSpec /\ ClassicSpec
                    /\ ClientSpec /\ IdSpec /\ LimitSpec
<1>1. AccountsInit => /\ AdmInit /\ RecInit /\ CapInit /\ ClassicInit
                      /\ ClientInit /\ IdInit /\ LimitInit
  BY DEF AccountsInit
<1>2. [AccountsNext]_<<part, accountVars>> =>
        /\ [AdmNext]_admVars /\ [RecNext]_recVars /\ [CapNext]_capVars
        /\ [ClassicNext]_classicVars /\ [ClientNext]_clientVars /\ [IdNext]_idVars
        /\ [LimitNext]_limitVars
  BY AccountsSteps
<1>3. QED
  BY <1>1, <1>2, PTL DEF AccountsSpec, AdmSpec, RecSpec, CapSpec, ClassicSpec, ClientSpec,
                         IdSpec, LimitSpec

\* A picture lets one request pass and an address passes no more often than its
\* limits say, for every number of pictures, addresses and requests at once
\* (ConsumeCaptcha, fixedWindowLimiter, failureLockout).
THEOREM EntryGuardedHolds == AccountsSpec => []EntryGuarded
<1>1. CaptchaOnce /\ EntrySound => EntryGuarded
  BY DEF EntryGuarded
<1>2. QED
  BY <1>1, EveryAccount, CaptchaOnceHolds, EntrySoundHolds, PTL
=============================================================================
