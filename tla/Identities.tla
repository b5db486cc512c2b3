----------------------------- MODULE Identities -----------------------------
(***************************************************************************)
(* People's logins and their membership of agents.  Accounts are created   *)
(* by several administrators at once, in transactions that read what is    *)
(* committed and queue for one row; whoever signs in enters a name or a    *)
(* mail address.  Members of older releases get a login of their own when  *)
(* the server starts.  A request's session is checked by reads that        *)
(* belong to no transaction.                                               *)
(***************************************************************************)
EXTENDS Integers, FiniteSets

CONSTANTS
    People,       \* customer_users: their ids
    Agents,       \* agents: their ids
    Logins,       \* what people may enter: names, among them ...
    Mails,        \* ... mail addresses
    Unique,       \* "agent-..." names: one for each person
    NoMail,       \* an account without an address
    Elder,        \* a person that may have an account already
    Legacy,       \* a member of an older release and ...
    LegacyName,   \* ... the name ...
    LegacyMail,   \* ... and the address it has used
    Registrars,   \* requests that create accounts
    Chosen,       \* bound: the names administrators choose
    Requesters,   \* bound: whose requests are followed
    MaxDisabled   \* bound on what is disabled at once

ASSUME IdentitiesAssumption ==
    /\ Elder \in People /\ Legacy \in People /\ Elder # Legacy
    /\ Unique \in [People -> Logins] /\ Mails \subseteq Logins /\ NoMail \notin Logins
    /\ \A p, q \in People : Unique[p] = Unique[q] => p = q
    /\ Chosen \subseteq Logins /\ Requesters \subseteq People /\ MaxDisabled \in Nat
    \* A legacy member has an agent; ids are random, names of agents and requests none
    \* of the two marks below.
    /\ Unique[Legacy] # LegacyName
    /\ Agents # {} /\ "none" \notin Agents /\ "nobody" \notin Registrars

VARIABLES
    person,     \* customer_users
    memberOf,   \* agent_users and agent_user_identities
    agentRow,   \* agents
    serving,    \* the start of the server is over
    queue,      \* who has locked account_identity_lock
    rowLock,    \* who has locked a person's row
    making,     \* requests that create accounts
    visiting    \* one request of a signed-in member, and what it has seen

idVars == <<person, memberOf, agentRow, serving, queue, rowLock, making, visiting>>

NoOneHere == "nobody"
NoPerson == [exists |-> FALSE]
NoAgent == "none"
NoTask == [at |-> "idle"]

Here(p) == person[p].exists
Enabled(p) == Here(p) /\ person[p].active
Account(n, m) == [exists |-> TRUE, name |-> n, mail |-> m, active |-> TRUE]

\* CustomerByLogin finds these; it fails unless there is exactly one.
EnteredAs(l) == {p \in People : Here(p) /\ (person[p].name = l \/ person[p].mail = l)}

\* Mutant: names are compared with names and addresses with addresses.
AvailableAlike(n, m) ==
    \A p \in People : Here(p) => person[p].name # n /\ (m # NoMail => person[p].mail # m)

\* IdentityLoginAvailable: across the two columns.
Available(n, m) ==
    /\ EnteredAs(n) = {}
    /\ m # NoMail => EnteredAs(m) = {}

\* History: what holds, and what a request has seen hold while it ran.
Truths(p) ==
    (IF Enabled(p) THEN {"person"} ELSE {})
    \cup (IF memberOf[p] # NoAgent /\ agentRow[memberOf[p]] = "active"
          THEN {"agent"} ELSE {})

\* What holds after a step is added to what a request has seen hold.
Seeing ==
    visiting' = IF visiting = NoTask THEN NoTask
               ELSE [visiting EXCEPT !.seen = @ \cup UNION {Truths(p)' : p \in {visiting.who}}]

-----------------------------------------------------------------------------
(* The start: ensureAgentIdentities *)

EnsureAgentIdentities ==
    LET name == IF Available(LegacyName, NoMail) THEN LegacyName ELSE Unique[Legacy]
        mail == IF Available(name, LegacyMail) THEN LegacyMail ELSE NoMail
    IN  /\ ~serving /\ ~Here(Legacy)
        /\ person' = [person EXCEPT ![Legacy] = Account(name, mail)]
        /\ UNCHANGED <<memberOf, agentRow, serving, queue, rowLock, making, visiting>>

Serve ==
    /\ ~serving /\ Here(Legacy)
    /\ serving' = TRUE
    /\ UNCHANGED <<person, memberOf, agentRow, queue, rowLock, making, visiting>>

-----------------------------------------------------------------------------
(* Creating accounts: CreateCustomer, CreateAgentUser, OpenAgentAccount *)

Step(t, at) == making' = [making EXCEPT ![t].at = at]
Done(t) ==
    /\ making' = [making EXCEPT ![t] = NoTask]
    /\ queue' = IF queue = t THEN NoOneHere ELSE queue
    /\ rowLock' = [p \in People |-> IF rowLock[p] = t THEN NoOneHere ELSE rowLock[p]]

Prepared == {making[u].who : u \in {v \in Registrars : making[v] # NoTask}}

\* prepareAgentIdentity; the new person's id is random.  An account of its own
\* (CreateCustomer), a member of an agent, or the owner of a new agent.
PrepareNew(t, p, n, m, a) ==
    /\ serving /\ making[t] = NoTask
    /\ ~Here(p) /\ p \notin Prepared
    /\ a # NoAgent => agentRow[a] \in {"none", "active"}
    /\ making' = [making EXCEPT ![t] =
         [at |-> "new", who |-> p, name |-> n, mail |-> m, agent |-> a,
          opens |-> a # NoAgent /\ agentRow[a] = "none"]]
    /\ UNCHANGED <<person, memberOf, agentRow, serving, queue, rowLock, visiting>>

PrepareExisting(t, p, a) ==
    /\ serving /\ making[t] = NoTask
    /\ Enabled(p)
    /\ agentRow[a] \in {"none", "active"}
    /\ making' = [making EXCEPT ![t] =
         [at |-> "existing", who |-> p, agent |-> a, opens |-> agentRow[a] = "none"]]
    /\ UNCHANGED <<person, memberOf, agentRow, serving, queue, rowLock, visiting>>

\* Mutant: whoever comes reads.
QueueNobody(t) ==
    /\ making[t].at = "new"
    /\ Step(t, "queued")
    /\ UNCHANGED <<person, memberOf, agentRow, serving, queue, rowLock, visiting>>

\* The row of account_identity_lock is held until the transaction ends.
QueueForIdentity(t) ==
    /\ making[t].at = "new"
    /\ queue = NoOneHere
    /\ queue' = t
    /\ Step(t, "queued")
    /\ UNCHANGED <<person, memberOf, agentRow, serving, rowLock, visiting>>

IdentityLoginAvailable(t) ==
    /\ making[t].at = "queued"
    /\ IF Available(making[t].name, making[t].mail)
       THEN Step(t, "checked") /\ UNCHANGED <<queue, rowLock>>
       ELSE Done(t)
    /\ UNCHANGED <<person, memberOf, agentRow, serving, visiting>>

LockPerson(t) ==
    /\ making[t].at = "existing"
    /\ rowLock[making[t].who] = NoOneHere
    /\ rowLock' = [rowLock EXCEPT ![making[t].who] = t]
    /\ Step(t, "locked")
    /\ UNCHANGED <<person, memberOf, agentRow, serving, queue, visiting>>

\* Read again under the lock: status and membership.
CheckPerson(t) ==
    LET p == making[t].who
    IN  /\ making[t].at = "locked"
        /\ IF Enabled(p) /\ memberOf[p] = NoAgent
           THEN Step(t, "checked") /\ UNCHANGED <<queue, rowLock>>
           ELSE Done(t)
        /\ UNCHANGED <<person, memberOf, agentRow, serving, visiting>>

\* One commit: the person, the agent and the membership.  Names are unique.
CommitAccount(t) ==
    LET j == making[t]
        new == "name" \in DOMAIN j
    IN  /\ j.at = "checked"
        /\ new => \A p \in People : Here(p) => person[p].name # j.name
        /\ j.opens => agentRow[j.agent] = "none"
        /\ person' = IF new THEN [person EXCEPT ![j.who] = Account(j.name, j.mail)] ELSE person
        /\ agentRow' = IF j.opens THEN [agentRow EXCEPT ![j.agent] = "active"] ELSE agentRow
        /\ memberOf' = IF j.agent = NoAgent THEN memberOf
                       ELSE [memberOf EXCEPT ![j.who] = j.agent]
        /\ Done(t)
        /\ UNCHANGED serving
        /\ Seeing

\* Refused, failed, or the process has stopped.
RollbackAccount(t) ==
    /\ making[t] # NoTask
    /\ Done(t)
    /\ UNCHANGED <<person, memberOf, agentRow, serving, visiting>>

-----------------------------------------------------------------------------
(* Statuses, and a member's request *)

MayDisable ==
    Cardinality({p \in People : Here(p) /\ ~person[p].active})
        + Cardinality({a \in Agents : agentRow[a] = "disabled"}) < MaxDisabled

SetCustomerEnabled(p) ==
    /\ Enabled(p) => MayDisable
    /\ serving /\ Here(p) /\ rowLock[p] = NoOneHere
    /\ person' = [person EXCEPT ![p].active = ~@]
    /\ UNCHANGED <<memberOf, agentRow, serving, queue, rowLock, making>>
    /\ Seeing

UpdateAgentStatus(a) ==
    /\ agentRow[a] = "active" => MayDisable
    /\ serving /\ agentRow[a] # "none"
    /\ agentRow' = [agentRow EXCEPT ![a] = IF @ = "active" THEN "disabled" ELSE "active"]
    /\ UNCHANGED <<person, memberOf, serving, queue, rowLock, making>>
    /\ Seeing

Reads == UNCHANGED <<person, memberOf, agentRow, serving, queue, rowLock, making>>

\* AuthenticateAgentToken, and the login: the person, its membership, the agent.
AuthenticateAgentToken(p) ==
    /\ serving /\ visiting = NoTask
    /\ p \in Requesters /\ Enabled(p)
    /\ visiting' = [at |-> "person", who |-> p, seen |-> Truths(p)]
    /\ Reads

AgentMemberForUser ==
    /\ visiting # NoTask /\ visiting.at = "person"
    /\ visiting' = IF memberOf[visiting.who] = NoAgent THEN NoTask
                  ELSE [visiting EXCEPT !.at = "member"]
    /\ Reads

\* Mutant: the agent's status is not looked at.
AnyAgent(p) == TRUE

AgentActive(p) == agentRow[memberOf[p]] = "active"

AgentSessionForMember ==
    /\ visiting # NoTask /\ visiting.at = "member"
    /\ visiting' = IF AgentActive(visiting.who)
                  THEN [visiting EXCEPT !.at = "granted"] ELSE NoTask
    /\ Reads

Answer ==
    /\ visiting # NoTask /\ visiting.at = "granted"
    /\ visiting' = NoTask
    /\ Reads

-----------------------------------------------------------------------------
IdInit ==
    /\ person \in {[p \in People |-> NoPerson],
                  [p \in People |-> IF p = Elder THEN Account(LegacyName, NoMail) ELSE NoPerson]}
    /\ memberOf = [p \in People |->
                     IF p = Legacy THEN CHOOSE a \in Agents : TRUE ELSE NoAgent]
    /\ agentRow = [a \in Agents |-> IF a = memberOf[Legacy] THEN "active" ELSE "none"]
    /\ serving = FALSE
    /\ queue = NoOneHere
    /\ rowLock = [p \in People |-> NoOneHere]
    /\ making = [t \in Registrars |-> NoTask]
    /\ visiting = NoTask

IdNext ==
    \/ EnsureAgentIdentities \/ Serve
    \/ \E t \in Registrars :
         \/ \E p \in People, n \in Chosen, m \in Mails \cup {NoMail}, a \in Agents \cup {NoAgent} :
              PrepareNew(t, p, n, m, a)
         \/ \E p \in People, a \in Agents : PrepareExisting(t, p, a)
         \/ QueueForIdentity(t) \/ IdentityLoginAvailable(t)
         \/ LockPerson(t) \/ CheckPerson(t) \/ CommitAccount(t) \/ RollbackAccount(t)
    \/ \E p \in People : SetCustomerEnabled(p) \/ AuthenticateAgentToken(p)
    \/ \E a \in Agents : UpdateAgentStatus(a)
    \/ AgentMemberForUser \/ AgentSessionForMember \/ Answer

IdSpec == IdInit /\ [][IdNext]_idVars

-----------------------------------------------------------------------------
\* Whatever somebody enters belongs to one account at most, so that nobody is
\* locked out by another person's name or address (IdentityLoginAvailable: "cross-
\* column username/email checks", ensureAgentIdentities); an agent that exists has
\* a member; and a member's request passes only when both its person and its
\* agent were enabled at some moment while it ran (AuthenticateAgentToken).
IdentitiesSound ==
    /\ \A l \in Logins : Cardinality(EnteredAs(l)) <= 1
    /\ \A a \in Agents : agentRow[a] # "none" => \E p \in People : memberOf[p] = a
    /\ visiting # NoTask /\ visiting.at = "granted" => visiting.seen = {"person", "agent"}
=============================================================================
