------------------------------ MODULE Accounts ------------------------------
(***************************************************************************)
(* The accounts of people, their names, pictures and limits, the licences  *)
(* of the retired routes and the client, side by side.  They share no      *)
(* state: a behaviour chooses one of them and runs it while the others     *)
(* stay, so that their states add up in a run and do not multiply.         *)
(***************************************************************************)
EXTENDS AdminLogin, Recovery, Captcha, Classic, Client, Identities, EntryLimits

VARIABLE part

\* A bound: two requests run at once until the account was changed twice.
LoginBound ==
    admin'.version = MaxVersion =>
      Cardinality({r \in Attempts : attempt'[r] # NoAttempt}) <= 1

\* Two bounds: while a session is followed, one change of the password at most is
\* under way; and the second code and the second change of the version exclude each other.
RecoveryBound ==
    /\ visit' # NoVisit => Cardinality({t \in Callers : call'[t] # NoCall}) <= 1
    /\ user'.version + Cardinality({c \in CodeIds : codes'[c] # NoCode}) <= 4

\* A bound: where a second binding was made, no ticket and no renewal is followed.
ClassicBound ==
    Len(rows') = 2 =>
      /\ \A t \in Tickets : tickets'[t].state = "none"
      /\ \A c \in RenewalCards : renewal'[c] = "unused"

\* A bound: while a member's request runs, one account at most is being created.
IdentitiesBound ==
    visiting' # NoTask => Cardinality({t \in Registrars : making'[t] # NoTask}) <= 1

accountVars ==
    <<admVars, recVars, capVars, classicVars, clientVars, idVars, limitVars>>

AccountsInit ==
    /\ part \in {"admin", "recovery", "captcha", "classic", "client",
                 "identities", "entry"}
    /\ AdmInit /\ RecInit /\ CapInit /\ ClassicInit /\ ClientInit
    /\ IdInit /\ LimitInit
    \* one initial state for a component that stays
    /\ part = "identities" \/ ~person[Elder].exists

AccountsNext ==
    \/ /\ part = "admin" /\ AdmNext /\ LoginBound
       /\ UNCHANGED <<part, recVars, capVars, classicVars, clientVars, idVars, limitVars>>
    \/ /\ part = "recovery" /\ RecNext /\ RecoveryBound
       /\ UNCHANGED <<part, admVars, capVars, classicVars, clientVars, idVars, limitVars>>
    \/ /\ part = "captcha" /\ CapNext
       /\ UNCHANGED <<part, admVars, recVars, classicVars, clientVars, idVars, limitVars>>
    \/ /\ part = "classic" /\ ClassicNext /\ ClassicBound
       /\ UNCHANGED <<part, admVars, recVars, capVars, clientVars, idVars, limitVars>>
    \/ /\ part = "client" /\ ClientNext
       /\ UNCHANGED <<part, admVars, recVars, capVars, classicVars, idVars, limitVars>>
    \/ /\ part = "identities" /\ IdNext /\ IdentitiesBound
       /\ UNCHANGED <<part, admVars, recVars, capVars, classicVars, clientVars, limitVars>>
    \/ /\ part = "entry" /\ LimitNext
       /\ UNCHANGED <<part, admVars, recVars, capVars, classicVars, clientVars, idVars>>

AccountsSpec == AccountsInit /\ [][AccountsNext]_<<part, accountVars>>

-----------------------------------------------------------------------------
\* A picture lets one request pass (ConsumeCaptcha); an address passes no more often
\* than its limits say, for as long as they say (fixedWindowLimiter, failureLockout).
EntryGuarded == CaptchaOnce /\ EntrySound
=============================================================================
