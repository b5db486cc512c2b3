------------------------------- MODULE Outbox -------------------------------
(***************************************************************************)
(* Notifications: handlers queue mails as rows of notification_outbox, the *)
(* workers of the server processes claim a row under a lease, give it to   *)
(* the SMTP server and record what became of it.  Processes crash, leases  *)
(* run out under a slow delivery, the SMTP server may take a mail and its  *)
(* answer be lost, the administrator changes the mail settings meanwhile   *)
(* and has the notifications that were given up tried again.               *)
(***************************************************************************)
EXTENDS Integers, Sequences, FiniteSets, SequencesExt

CONSTANTS
    AgentNotices,   \* dedup keys of notifications of agents, by ledger entry
    RiskNotices,    \* notifications of administrators: each has a fresh key
    Unreadable,     \* those whose payload this process cannot decrypt
    Workers,        \* processes, each with one worker
    Admins,         \* sessions that edit the mail settings
    AttemptLimit,   \* attempts after which a notification is dead (12)
    MaxFaults,      \* bound on crashes, failed writes and slow deliveries
    MaxRevivals     \* bound on RetryDeadNotifications

Notices == AgentNotices \cup RiskNotices

ASSUME OutboxAssumption ==
    /\ IsFiniteSet(Notices)
    /\ Unreadable \subseteq Notices
    /\ AttemptLimit \in Nat \ {0} /\ MaxFaults \in Nat /\ MaxRevivals \in Nat

VARIABLES
    rows,       \* notification_outbox
    line,       \* the rows that are or will be claimed, by available_at
    worker,     \* what each worker is doing
    settings,   \* email_settings: Enabled, and the saved SMTP password
    form,       \* the settings an administrator's request has read
    faults, revivals,
    copies,     \* history: mails taken by the SMTP server, up to 2 are counted
    excused     \* history: notifications with a fault that may repeat a mail

database == <<rows, line>>
bounds == <<faults, revivals>>
history == <<copies, excused>>
vars == <<rows, line, worker, settings, form, faults, revivals, copies, excused>>

NoRow == [status |-> "none"]
Row == [status : {"pending", "retry", "sending", "sent", "dead"},
        attempts : Nat, leased : BOOLEAN, payload : BOOLEAN]
Idle == [at |-> "idle"]
Down == [at |-> "down"]
NoError == "none"
Passwords == {"none", "right", "wrong"}
Settings == [enabled : BOOLEAN, password : Passwords]
NoForm == [password |-> "unread"]

Queued == {n \in Notices : rows[n].status \in {"pending", "retry", "sending"}}
Holds(w) == worker[w].at \notin {"idle", "down"}
Holders(n) == {w \in Workers : Holds(w) /\ worker[w].n = n}
\* The workers whose claim of the row is the latest one.
Owners(n) == {w \in Holders(n) : worker[w].attempt = rows[n].attempts}

Fault == faults < MaxFaults /\ faults' = faults + 1

Without(n) == RemoveFirst(line, n)

-----------------------------------------------------------------------------
(* Mail settings; the SMTP server asks for a password *)

Usable(s) == s.enabled

\* A blank password keeps the one that was read before.
ReadEmailSettings(a) ==
    /\ form[a] = NoForm
    /\ form' = [form EXCEPT ![a] = settings]
    /\ UNCHANGED <<database, worker, settings, bounds, history>>

UpdateEmailSettings(a, on, password) ==
    /\ form[a] # NoForm
    /\ on => password # "none" \/ form[a].password # "none"
    /\ settings' = [enabled |-> on,
                    password |-> IF password # "none" THEN password
                                 ELSE form[a].password]
    /\ form' = [form EXCEPT ![a] = NoForm]
    /\ UNCHANGED <<database, worker, bounds, history>>

-----------------------------------------------------------------------------
(* Rows *)

\* INSERT IGNORE: with the dedup key in the table nothing happens.
EnqueueNotification(n) ==
    /\ rows[n] = NoRow
    /\ rows' = [rows EXCEPT ![n] = [status |-> "pending", attempts |-> 0,
                                    leased |-> FALSE, payload |-> TRUE]]
    /\ line' = Append(line, n)
    /\ UNCHANGED <<worker, settings, form, bounds, history>>

\* While the mail settings are incomplete a notification is skipped, not
\* kept for later.  An agent without an address has no notification.
notifyAgentEmail(n) ==
    /\ n \in AgentNotices
    /\ Usable(settings)
    /\ EnqueueNotification(n)

notifyAdminRiskBlock(n) ==
    /\ n \in RiskNotices
    /\ Usable(settings)
    /\ EnqueueNotification(n)

Claimable(n) ==
    \/ rows[n].status \in {"pending", "retry"}
    \/ rows[n].status = "sending" /\ ~rows[n].leased

\* Mutant: the lease of a row that is being sent is not looked at.
ClaimLeased(w) ==
    \E i \in DOMAIN line :
        LET n == line[i]
        IN  /\ worker[w] = Idle
            /\ rows[n].attempts <= AttemptLimit + MaxFaults
            /\ \A j \in 1..(i - 1) : ~Claimable(line[j])
            /\ rows' = [rows EXCEPT ![n].status = "sending",
                                    ![n].attempts = @ + 1,
                                    ![n].leased = TRUE]
            /\ worker' = [worker EXCEPT ![w] =
                            [at |-> "claimed", n |-> n,
                             attempt |-> rows[n].attempts + 1,
                             payload |-> rows[n].payload]]
            /\ UNCHANGED <<line, settings, form, bounds, history>>

\* The first row of the line that can be claimed; it keeps its place.
ClaimNotification(w) ==
    \E i \in DOMAIN line :
        LET n == line[i]
        IN  /\ worker[w] = Idle
            /\ Claimable(n)
            /\ \A j \in 1..(i - 1) : ~Claimable(line[j])
            /\ rows' = [rows EXCEPT ![n].status = "sending",
                                    ![n].attempts = @ + 1,
                                    ![n].leased = TRUE]
            /\ worker' = [worker EXCEPT ![w] =
                            [at |-> "claimed", n |-> n,
                             attempt |-> rows[n].attempts + 1,
                             payload |-> rows[n].payload]]
            /\ UNCHANGED <<line, settings, form, bounds, history>>

\* Mutant: an outcome is written to whatever state the row is in.
FinishAnyRow(w, status) ==
    LET n == worker[w].n
    IN  /\ rows' = [rows EXCEPT ![n].status = status, ![n].leased = FALSE,
                                ![n].payload = status # "sent" /\ @]
        /\ line' = Without(n)

\* The outcome counts only for the claim it belongs to.
FinishNotification(w, status) ==
    LET n == worker[w].n
        current == rows[n].status = "sending"
                       /\ rows[n].attempts = worker[w].attempt
    IN  IF current
        THEN /\ rows' = [rows EXCEPT ![n].status = status, ![n].leased = FALSE,
                                     ![n].payload = status # "sent" /\ @]
             /\ line' = Without(n)
        ELSE UNCHANGED database

\* Rows of an equal available_at are claimed by their ID: any order.
RetryDeadNotifications ==
    LET dead == {n \in Notices : rows[n].status = "dead"}
    IN  /\ dead # {} /\ revivals < MaxRevivals
        /\ rows' = [n \in Notices |->
                      IF n \in dead
                      THEN [rows[n] EXCEPT !.status = "retry", !.attempts = 0]
                      ELSE rows[n]]
        /\ \E s \in SetToSeqs(dead) : line' = line \o s
        /\ revivals' = revivals + 1
        /\ excused' = excused \cup dead
        /\ UNCHANGED <<worker, settings, form, faults, copies>>

-----------------------------------------------------------------------------
(* The worker *)

\* Decrypt the payload, then load the mail settings.
LoadRuntime(w) ==
    LET c == worker[w]
        next == IF c.n \in Unreadable \/ ~c.payload THEN "INVALID_PAYLOAD"
                ELSE IF ~Usable(settings) THEN "SMTP_UNAVAILABLE"
                ELSE "deliver"
    IN  /\ c.at = "claimed"
        /\ worker' = [worker EXCEPT ![w] =
             IF next = "deliver"
             THEN [at |-> "loaded", n |-> c.n, attempt |-> c.attempt,
                   password |-> settings.password]
             ELSE [at |-> "answered", n |-> c.n, attempt |-> c.attempt,
                   code |-> next]]
        /\ UNCHANGED <<database, settings, form, bounds, history>>

\* A session with the SMTP server ends with the mail refused, taken, or
\* taken and then an error, which the sender cannot tell from a refusal.
Session(password, taken, error) ==
    /\ password = "wrong" => ~taken
    /\ ~taken => error

deliverEmail(w, taken, error) ==
    LET c == worker[w]
    IN  /\ c.at = "loaded"
        /\ Session(c.password, taken, error)
        /\ worker' = [worker EXCEPT ![w] =
             [at |-> "answered", n |-> c.n, attempt |-> c.attempt,
              code |-> IF error THEN "SMTP_DELIVERY_FAILED" ELSE NoError]]
        /\ copies' = IF taken /\ copies[c.n] < 2
                     THEN [copies EXCEPT ![c.n] = @ + 1] ELSE copies
        /\ excused' = IF taken /\ error THEN excused \cup {c.n} ELSE excused
        /\ UNCHANGED <<database, settings, form, bounds>>

\* Mutant: the error of missing settings is lost in an inner scope.
OutcomeShadowed(c) ==
    IF c.code \in {NoError, "SMTP_UNAVAILABLE"} THEN "sent"
    ELSE IF c.attempt >= AttemptLimit \/ c.code = "INVALID_PAYLOAD"
    THEN "dead" ELSE "retry"

Outcome(c) ==
    IF c.code = NoError THEN "sent"
    ELSE IF c.attempt >= AttemptLimit \/ c.code = "INVALID_PAYLOAD"
    THEN "dead" ELSE "retry"

RecordOutcome(w) ==
    /\ worker[w].at = "answered"
    /\ FinishNotification(w, Outcome(worker[w]))
    /\ worker' = [worker EXCEPT ![w] = Idle]
    /\ UNCHANGED <<settings, form, bounds, history>>

\* The write fails; the batch ends and the row stays as it was claimed.
LoseOutcome(w) ==
    /\ worker[w].at = "answered"
    /\ Fault
    /\ worker' = [worker EXCEPT ![w] = Idle]
    /\ excused' = excused \cup {worker[w].n}
    /\ UNCHANGED <<database, settings, form, revivals, copies>>

\* The process dies, or is shut down: the context of the last write is then
\* cancelled, and the row stays as it was claimed too.
Stop(w) ==
    /\ worker[w] # Down
    /\ Fault
    /\ worker' = [worker EXCEPT ![w] = Down]
    /\ excused' = IF Holds(w) THEN excused \cup {worker[w].n} ELSE excused
    /\ UNCHANGED <<database, settings, form, revivals, copies>>

StartNotificationWorker(w) ==
    /\ worker[w] = Down
    /\ worker' = [worker EXCEPT ![w] = Idle]
    /\ UNCHANGED <<database, settings, form, bounds, history>>

-----------------------------------------------------------------------------
(* Time *)

\* The delay of a retry ends: its row becomes the last of the line.
BackoffEnds(n) ==
    /\ rows[n].status = "retry"
    /\ n \notin Range(line)
    /\ line' = Append(line, n)
    /\ UNCHANGED <<rows, worker, settings, form, bounds, history>>

\* Two minutes have passed.  The lease of a worker that is still at it ends
\* only when the delivery is slow, which is one of the faults.
LeaseEnds(n) ==
    /\ rows[n].status = "sending" /\ rows[n].leased
    /\ IF Owners(n) = {} THEN UNCHANGED <<faults, excused>>
       ELSE Fault /\ excused' = excused \cup {n}
    /\ rows' = [rows EXCEPT ![n].leased = FALSE]
    /\ UNCHANGED <<line, worker, settings, form, revivals, copies>>

-----------------------------------------------------------------------------
Init ==
    /\ rows = [n \in Notices |-> NoRow]
    /\ line = <<>>
    /\ worker = [w \in Workers |-> Idle]
    /\ settings = [enabled |-> FALSE, password |-> "none"]
    /\ form = [a \in Admins |-> NoForm]
    /\ faults = 0 /\ revivals = 0
    /\ copies = [n \in Notices |-> 0]
    /\ excused = {}

Work(w) ==
    \/ ClaimNotification(w)
    \/ LoadRuntime(w)
    \/ \E taken, error \in BOOLEAN : deliverEmail(w, taken, error)
    \/ RecordOutcome(w)

Next ==
    \/ \E n \in Notices : notifyAgentEmail(n) \/ notifyAdminRiskBlock(n)
    \/ \E n \in Notices : BackoffEnds(n) \/ LeaseEnds(n)
    \/ \E w \in Workers :
         Work(w) \/ LoseOutcome(w) \/ Stop(w) \/ StartNotificationWorker(w)
    \/ RetryDeadNotifications
    \/ \E a \in Admins :
         \/ ReadEmailSettings(a)
         \/ \E on \in BOOLEAN, password \in Passwords :
              UpdateEmailSettings(a, on, password)

\* A worker looks at the table every five seconds, a stopped process is
\* started again, and clocks advance.
Fairness ==
    /\ \A w \in Workers : WF_vars(Work(w)) /\ WF_vars(StartNotificationWorker(w))
    /\ \A n \in Notices : WF_vars(BackoffEnds(n)) /\ WF_vars(LeaseEnds(n))

Spec == Init /\ [][Next]_vars /\ Fairness

-----------------------------------------------------------------------------
(* Properties *)

\* Types of the rows, of the workers' steps and of the counters; the line
\* holds every row that waits or is being sent (store/outbox.go).
OutboxTypeOK ==
    /\ rows \in [Notices -> Row \cup {NoRow}]
    /\ IsInjective(line)
    /\ \A n \in Range(line) : n \in Queued
    /\ \A n \in Queued : rows[n].status # "retry" => n \in Range(line)
    /\ \A w \in Workers :
         Holds(w) => worker[w].at \in {"claimed", "loaded", "answered"}
                     /\ worker[w].n \in Notices /\ worker[w].attempt \in Nat \ {0}
    /\ settings \in Settings
    /\ faults \in 0..MaxFaults /\ revivals \in 0..MaxRevivals

\* The SMTP server is given a mail a second time only after a fault that the
\* code cannot hide: a crash, a lost write or answer, a delivery slower than
\* its lease, or an administrator's retry (the comment of
\* RunNotificationOutbox: at least once, since SMTP cannot commit with the
\* database).
DuplicatesExcused == \A n \in Notices : copies[n] > 1 => n \in excused

\* The row of a notification that was sent is final: a late worker, a retry
\* or the same event queued again never makes it be sent or given up again
\* (FinishNotification's condition, the dedup key).
SentIsFinal ==
    [][\A n \in Notices : rows[n].status = "sent" => rows'[n] = rows[n]]_vars

Mail(n) == IF n \in Queued THEN "queued" ELSE rows[n].status

Promise ==
    INSTANCE Delivery WITH
        mail <- [n \in Notices |-> Mail(n)],
        accepted <- {n \in Notices : copies[n] > 0}

\* The outbox keeps the promise of Delivery: no notification is called sent
\* that the SMTP server has not taken, and with workers that are started
\* again each one is sent or given up in the end.
ImplementsDelivery == Promise!Spec
=============================================================================
