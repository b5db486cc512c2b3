----------------------------- MODULE AuditTrail -----------------------------
(***************************************************************************)
(* The audit chain of one application.  Handlers append events inside the  *)
(* transactions that change business rows, a refused request leaves an     *)
(* event of its own, transactions roll back, and an administrator checks   *)
(* the chain, page by page, while handlers go on.                          *)
(***************************************************************************)
EXTENDS Integers, Sequences

CONSTANTS
    Writers,     \* requests that write
    PageSize,    \* events read at a time (1000)
    MaxEvents    \* bound on the length of the chain

ASSUME AuditTrailAssumption == PageSize \in Nat \ {0} /\ MaxEvents \in Nat

VARIABLES
    committed,   \* application_audit_events and _heads, as committed
    holder,      \* the transaction that has locked the application's row
    draft,       \* what the transaction of a request sees
    cause,       \* does a refusal wait to be recorded
    audit        \* a check of the chain by AuditIntegrity

auditVars == <<committed, holder, draft, cause, audit>>

Unlocked == [locked |-> FALSE]
NoDraft == [open |-> FALSE]
NoAudit == [at |-> "idle"]
Genesis == <<>>

\* The hash of an event stands for what it authenticates.
Hash(w, head) == <<w, head.sequence + 1, head.hash>>

-----------------------------------------------------------------------------
(* Writers *)

\* The first statement of a transaction locks the row of the application.
BeginTransaction(w) ==
    /\ ~draft[w].open /\ holder = Unlocked
    /\ holder' = [locked |-> TRUE, by |-> w]
    /\ draft' = [draft EXCEPT ![w] =
         [open |-> TRUE, trail |-> committed, mutations |-> FALSE, audits |-> FALSE]]
    /\ UNCHANGED <<committed, cause, audit>>

WriteRow(w) ==
    /\ draft[w].open /\ ~cause[w]
    /\ draft' = [draft EXCEPT ![w].mutations = TRUE]
    /\ UNCHANGED <<committed, holder, cause, audit>>

\* The head is read, the event takes its number and its hash, the head moves.
AppendAudit(w) ==
    LET trail == draft[w].trail
        hash == Hash(w, trail.head)
    IN  /\ draft[w].open
        /\ Len(trail.events) < MaxEvents
        /\ draft' = [draft EXCEPT
             ![w].trail =
               [events |-> Append(trail.events,
                                  [sequence |-> trail.head.sequence + 1,
                                   previous |-> trail.head.hash, hash |-> hash]),
                head |-> [sequence |-> trail.head.sequence + 1, hash |-> hash]],
             ![w].audits = TRUE]
        /\ UNCHANGED <<committed, holder, cause, audit>>

CloseTransaction(w) ==
    /\ holder' = Unlocked
    /\ draft' = [draft EXCEPT ![w] = NoDraft]

CommitTransaction(w) ==
    /\ draft[w].open
    /\ draft[w].mutations => draft[w].audits
    /\ committed' = draft[w].trail
    /\ cause' = [cause EXCEPT ![w] = FALSE]
    /\ CloseTransaction(w)
    /\ UNCHANGED audit

\* The handler refuses, or its write has no audit record; a refusal may be
\* recorded in a second transaction.
Rollback(w) ==
    /\ draft[w].open
    /\ \E recorded \in BOOLEAN : cause' = [cause EXCEPT ![w] = recorded]
    /\ CloseTransaction(w)
    /\ UNCHANGED <<committed, audit>>

-----------------------------------------------------------------------------
(* The check *)

Snapshot == committed

\* A View reads from one snapshot of the database.
BeginAuditIntegrity ==
    /\ audit.at = "idle"
    /\ audit' = [at |-> "reading", trail |-> Snapshot, sequence |-> 0,
                 previous |-> Genesis]
    /\ UNCHANGED <<committed, holder, draft, cause>>

\* Mutant: each page is read from the database as it is then.
ReadAgain == committed

Seen == audit.trail

Chained(events, from, previous) ==
    \A i \in DOMAIN events :
      /\ events[i].sequence = from + i
      /\ events[i].previous =
           IF i = 1 THEN previous ELSE events[i - 1].hash

\* Up to PageSize events after the ones that were read.
ReadPage ==
    LET last == Len(Seen.events)
        n == IF audit.sequence + PageSize < last THEN audit.sequence + PageSize
             ELSE last
        page == SubSeq(Seen.events, audit.sequence + 1, n)
    IN  /\ audit.at = "reading"
        /\ audit' =
             IF page = <<>> THEN [audit EXCEPT !.at = "read"]
             ELSE IF Chained(page, audit.sequence, audit.previous)
             THEN [audit EXCEPT !.sequence = n, !.previous = page[Len(page)].hash]
             ELSE [at |-> "invalid"]
        /\ UNCHANGED <<committed, holder, draft, cause>>

\* After an empty page, by a query of its own.
CompareHead ==
    /\ audit.at = "read"
    /\ audit' = [at |-> IF Seen.head = [sequence |-> audit.sequence,
                                        hash |-> audit.previous]
                        THEN "valid" ELSE "invalid"]
    /\ UNCHANGED <<committed, holder, draft, cause>>

EndAuditIntegrity ==
    /\ audit.at \in {"valid", "invalid"}
    /\ audit' = NoAudit
    /\ UNCHANGED <<committed, holder, draft, cause>>

-----------------------------------------------------------------------------
\* CreateApplication has appended the first event.
AuditInit ==
    /\ \E w \in Writers :
         LET first == Hash(w, [sequence |-> 0, hash |-> Genesis])
         IN  committed = [events |-> <<[sequence |-> 1, previous |-> Genesis,
                                       hash |-> first]>>,
                         head |-> [sequence |-> 1, hash |-> first]]
    /\ holder = Unlocked
    /\ draft = [w \in Writers |-> NoDraft]
    /\ cause = [w \in Writers |-> FALSE]
    /\ audit = NoAudit

AuditNext ==
    \/ \E w \in Writers :
         \/ BeginTransaction(w) \/ WriteRow(w) \/ AppendAudit(w)
         \/ CommitTransaction(w) \/ Rollback(w)
    \/ BeginAuditIntegrity \/ ReadPage \/ CompareHead \/ EndAuditIntegrity

AuditSpec == AuditInit /\ [][AuditNext]_auditVars

-----------------------------------------------------------------------------
(* Properties *)

\* The check of the audit chain never raises a false alarm: transactions that
\* commit or roll back before, between and after its pages leave a chain that
\* is complete up to the recorded head (AppendAudit, AuditIntegrity).
NoFalseAlarm == audit.at # "invalid"
=============================================================================
