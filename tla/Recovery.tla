------------------------------ MODULE Recovery ------------------------------
(***************************************************************************)
(* The password of one person who is a user and a member of an agent: two  *)
(* rows with the same password.  Recovery codes are issued for either row  *)
(* and redeemed, the person changes the password and the operator resets   *)
(* it, in transactions that read what is committed (MySQL, READ COMMITTED) *)
(* and wait for each other's row locks, in different orders.               *)
(***************************************************************************)
EXTENDS Integers, FiniteSets

CONSTANTS
    Callers,       \* requests that are running
    MaxCodes,      \* bound on recovery codes
    MaxPasswords   \* bound on changes of the password

ASSUME RecoveryAssumption ==
    MaxCodes \in Nat /\ MaxPasswords \in Nat \ {0} /\ "nobody" \notin Callers

VARIABLES
    user,       \* customer_users: password, session_version, status
    member,     \* agent_users: password
    codes,      \* account_password_resets
    cooling,    \* entries that got a code in the last minute
    call,       \* what each request is doing
    locked,     \* who has locked which row
    visit,      \* history: one of the signed sessions, any of them
    redeemed    \* history: how often each code was redeemed

recVars == <<user, member, codes, cooling, call, locked, visit, redeemed>>

Kinds == {"customer", "agent"}
CodeIds == 1..MaxCodes
NoCode == [kind |-> "none"]
NoCall == [at |-> "none"]
NoVisit == [version |-> 0]
Nobodys == "nobody"

Issued == {c \in CodeIds : codes[c] # NoCode}
FreshCode == Cardinality(Issued) + 1

Goes(t, at) == call' = [call EXCEPT ![t].at = at]
Starts(t, do, kind, code) ==
    /\ call[t] = NoCall
    /\ call' = [call EXCEPT ![t] = [at |-> "found", do |-> do, kind |-> kind,
                                    code |-> code]]

\* A row is locked until its transaction ends.
Lockable(t, row) == locked[row] \in {t, Nobodys}
Lock(t, row) == Lockable(t, row) /\ locked' = [locked EXCEPT ![row] = t]
Ends(t) ==
    /\ call' = [call EXCEPT ![t] = NoCall]
    /\ locked' = [k \in Kinds |-> IF locked[k] = t THEN Nobodys ELSE locked[k]]

-----------------------------------------------------------------------------
(* Before the transaction *)

\* By the operator with the account in view, or by its holder once a minute.
RequestRecovery(t, kind, self) ==
    /\ self => user.status = "active" /\ kind \notin cooling
    /\ Starts(t, "issue", kind, 0)
    /\ UNCHANGED <<user, member, codes, cooling, locked, visit, redeemed>>

FindReset(t, c) ==
    /\ c \in Issued
    /\ Starts(t, "redeem", codes[c].kind, c)
    /\ UNCHANGED <<user, member, codes, cooling, locked, visit, redeemed>>

\* ResetAccountPassword by the operator.
BeginReset(t, kind) ==
    /\ Starts(t, "reset", kind, 0)
    /\ UNCHANGED <<user, member, codes, cooling, locked, visit, redeemed>>

\* The current password was right when it was read.
CustomerPassword(t) ==
    /\ call[t] = NoCall
    /\ call' = [call EXCEPT ![t] = [at |-> "checked", do |-> "change",
                                    kind |-> "customer", code |-> 0]]
    /\ UNCHANGED <<user, member, codes, cooling, locked, visit, redeemed>>

-----------------------------------------------------------------------------
(* The transactions *)

\* Mutant: the row is read without a lock.
LockNothing(t) ==
    /\ call[t].at = "found"
    /\ Goes(t, "locked")
    /\ UNCHANGED <<user, member, codes, cooling, locked, visit, redeemed>>

\* The row of the entry for which the code is, not of the person.
LockAccount(t) ==
    /\ call[t].at = "found"
    /\ Lock(t, call[t].kind)
    /\ Goes(t, "locked")
    /\ UNCHANGED <<user, member, codes, cooling, visit, redeemed>>

CreatePasswordReset(t) ==
    LET kind == call[t].kind
    IN  /\ call[t].at = "locked" /\ call[t].do = "issue"
        /\ user.status = "active"
        /\ FreshCode \in CodeIds
        /\ codes' = [c \in CodeIds |->
             IF c = FreshCode
             THEN [kind |-> kind, credential |-> user.password, consumed |-> FALSE,
                   expired |-> FALSE]
             ELSE IF codes[c].kind = kind THEN [codes[c] EXCEPT !.consumed = TRUE]
             ELSE codes[c]]
        /\ cooling' = cooling \cup {kind}
        /\ Ends(t)
        /\ UNCHANGED <<user, member, visit, redeemed>>

Redeemable(c) ==
    /\ ~codes[c].consumed /\ ~codes[c].expired
    /\ user.status = "active"
    /\ user.password = codes[c].credential

CheckReset(t) ==
    /\ call[t].at = "locked"
    /\ \/ call[t].do = "redeem" /\ Redeemable(call[t].code)
       \/ call[t].do = "reset"
    /\ Goes(t, "checked")
    /\ UNCHANGED <<user, member, codes, cooling, locked, visit, redeemed>>

\* SetCustomerPassword: the person's row, then the member's.
WriteUser(t) ==
    /\ call[t].at = "checked"
    /\ Lock(t, "customer")
    /\ Goes(t, "written")
    /\ UNCHANGED <<user, member, codes, cooling, visit, redeemed>>

syncAgentIdentityPassword(t) ==
    /\ call[t].at = "written"
    /\ Lock(t, "agent")
    /\ Goes(t, "synced")
    /\ UNCHANGED <<user, member, codes, cooling, visit, redeemed>>

\* Each new password is another one; the version counts the changes.
CommitPassword(t) ==
    LET c == call[t].code
    IN  /\ call[t].at = "synced"
        /\ user.password < MaxPasswords
        /\ user' = [user EXCEPT !.password = @ + 1, !.version = @ + 1]
        /\ member' = user.password + 1
        /\ IF call[t].do = "redeem"
           THEN /\ codes' = [codes EXCEPT ![c].consumed = TRUE]
                /\ redeemed' = [redeemed EXCEPT ![c] = @ + 1]
           ELSE UNCHANGED <<codes, redeemed>>
        /\ Ends(t)
        /\ UNCHANGED <<cooling, visit>>

\* Refused, failed, chosen by the database to break a cycle of waiters, or
\* the process has stopped.
RollbackCall(t) ==
    /\ call[t] # NoCall
    /\ Ends(t)
    /\ UNCHANGED <<user, member, codes, cooling, visit, redeemed>>

-----------------------------------------------------------------------------
(* Sessions, status, time *)

CustomerLogin ==
    /\ user.status = "active" /\ visit = NoVisit
    /\ visit' = [version |-> user.version, password |-> user.password]
    /\ UNCHANGED <<user, member, codes, cooling, call, locked, redeemed>>

AuthenticateCustomer(v) == v.version = user.version /\ user.status = "active"

SetCustomerStatus(status) ==
    /\ locked["customer"] = Nobodys
    /\ user.version <= MaxPasswords
    /\ user' = [user EXCEPT !.status = status, !.version = @ + 1]
    /\ UNCHANGED <<member, codes, cooling, call, locked, visit, redeemed>>

CodeExpires(c) ==
    /\ c \in Issued /\ ~codes[c].expired
    /\ codes' = [codes EXCEPT ![c].expired = TRUE]
    /\ UNCHANGED <<user, member, cooling, call, locked, visit, redeemed>>

MinutePasses ==
    /\ cooling # {}
    /\ cooling' = {}
    /\ UNCHANGED <<user, member, codes, call, locked, visit, redeemed>>

-----------------------------------------------------------------------------
RecInit ==
    /\ user = [password |-> 1, version |-> 1, status |-> "active"]
    /\ member = 1
    /\ codes = [c \in CodeIds |-> NoCode]
    /\ cooling = {}
    /\ call = [t \in Callers |-> NoCall]
    /\ locked = [k \in Kinds |-> Nobodys]
    /\ visit = NoVisit
    /\ redeemed = [c \in CodeIds |-> 0]

RecNext ==
    \/ \E t \in Callers :
         \/ \E k \in Kinds, self \in BOOLEAN : RequestRecovery(t, k, self)
         \/ \E k \in Kinds : BeginReset(t, k)
         \/ \E c \in CodeIds : FindReset(t, c)
         \/ CustomerPassword(t) \/ LockAccount(t) \/ CreatePasswordReset(t)
         \/ CheckReset(t) \/ WriteUser(t) \/ syncAgentIdentityPassword(t)
         \/ CommitPassword(t) \/ RollbackCall(t)
    \/ CustomerLogin
    \/ \E status \in {"active", "disabled"} : SetCustomerStatus(status)
    \/ \E c \in CodeIds : CodeExpires(c)
    \/ MinutePasses

RecSpec == RecInit /\ [][RecNext]_recVars

-----------------------------------------------------------------------------
(* Properties *)

\* A recovery code replaces only the password it was issued for, and does so
\* once, although the codes of the two entries are guarded by locks of
\* different rows and changes of the password by neither; both rows have the
\* same password, and a session ends with the password it was opened with.
RecoverySound ==
    /\ \A c \in Issued : redeemed[c] <= 1
    /\ \A c \in Issued : redeemed[c] = 1 => codes[c].consumed
    /\ \A t \in Callers :
         call[t].at = "synced" /\ call[t].do = "redeem" =>
           user.password = codes[call[t].code].credential
    /\ member = user.password
    /\ visit # NoVisit /\ AuthenticateCustomer(visit) => visit.password = user.password
=============================================================================
