---------------------------- MODULE OutboxProofs ----------------------------
(***************************************************************************)
(* What holds of the notification outbox for every number of               *)
(* notifications, workers and administrators, and every bound on faults:   *)
(* the queue loses no row, a mail is repeated only after a fault that      *)
(* excuses it, what was sent stays sent, and every step is one that        *)
(* Delivery allows.                                                        *)
(***************************************************************************)
EXTENDS Outbox, SequenceTheorems, FiniteSetTheorems, TLAPS

Steps == {"idle", "down", "claimed", "loaded", "answered"}

\* What a worker carries from one step to the next.
WorkerOK(c) ==
    /\ c.at \in Steps
    /\ c.at \in {"claimed", "loaded", "answered"} =>
         c.n \in Notices /\ c.attempt \in Nat \ {0}
    /\ c.at = "claimed" => c.payload \in BOOLEAN
    /\ c.at = "loaded" => c.password \in Passwords

RowTypes == rows \in [Notices -> Row \cup {NoRow}]

WorkerTypes ==
    /\ worker \in [Workers -> Range(worker)]
    /\ \A w \in Workers : WorkerOK(worker[w])

FormTypes ==
    /\ settings \in Settings
    /\ form \in [Admins -> Settings \cup {NoForm}]

CounterTypes ==
    /\ faults \in 0..MaxFaults /\ revivals \in 0..MaxRevivals
    /\ copies \in [Notices -> 0..2]
    /\ excused \subseteq Notices

\* Every row that waits or is being sent has one place in the line.
Lined ==
    /\ line \in Seq(Notices)
    /\ IsInjective(line)
    /\ Range(line) \subseteq Queued
    /\ \A n \in Queued : rows[n].status # "retry" => n \in Range(line)

Types == RowTypes /\ WorkerTypes /\ FormTypes /\ CounterTypes /\ Lined

-----------------------------------------------------------------------------
(* Rows and workers one by one *)

LEMMA RowCases ==
    ASSUME RowTypes, NEW n \in Notices
    PROVE  \/ rows[n] = NoRow /\ rows[n].status = "none"
           \/ /\ rows[n] \in Row /\ rows[n] # NoRow
              /\ rows[n].status \in {"pending", "retry", "sending", "sent", "dead"}
              /\ rows[n].attempts \in Nat
              /\ rows[n].leased \in BOOLEAN /\ rows[n].payload \in BOOLEAN
BY DEF RowTypes, Row, NoRow

LEMMA HoldsIff ==
    ASSUME WorkerTypes, NEW w \in Workers
    PROVE  /\ Holds(w) <=> worker[w].at \in {"claimed", "loaded", "answered"}
           /\ Holds(w) => worker[w].n \in Notices
                          /\ worker[w].attempt \in Nat \ {0}
BY DEF WorkerTypes, WorkerOK, Holds, Steps

\* A step that gives worker w the record c.
LEMMA SetWorker ==
    ASSUME WorkerTypes, NEW w \in Workers, NEW c, WorkerOK(c),
           worker' = [worker EXCEPT ![w] = c]
    PROVE  /\ WorkerTypes'
           /\ worker'[w] = c
           /\ \A v \in Workers \ {w} : worker'[v] = worker[v]
<1>1. DOMAIN worker = Workers
  BY DEF WorkerTypes
<1>2. /\ worker'[w] = c
      /\ \A v \in Workers \ {w} : worker'[v] = worker[v]
      /\ DOMAIN worker' = Workers
      /\ worker' = [v \in Workers |-> worker'[v]]
  BY <1>1
<1>3. worker' \in [Workers -> Range(worker')]
  BY <1>2 DEF Range
<1>4. \A v \in Workers : WorkerOK(worker'[v])
  BY <1>2 DEF WorkerTypes
<1>5. QED
  BY <1>2, <1>3, <1>4 DEF WorkerTypes, WorkerOK

LEMMA SetRow ==
    ASSUME RowTypes, NEW n \in Notices, NEW r \in Row,
           rows' = [rows EXCEPT ![n] = r]
    PROVE  /\ RowTypes'
           /\ rows'[n] = r
           /\ \A k \in Notices \ {n} : rows'[k] = rows[k]
BY DEF RowTypes

\* The row after a claim, field by field.
LEMMA ClaimedRow ==
    ASSUME NEW r \in Row
    PROVE  LET q == [r EXCEPT !.status = "sending", !.attempts = @ + 1,
                              !.leased = TRUE]
           IN  /\ q \in Row /\ q.status = "sending" /\ q.leased
               /\ q.attempts = r.attempts + 1
<1> DEFINE q0 == [r EXCEPT !.status = "sending"]
           q1 == [q0 EXCEPT !.attempts = @ + 1]
           q2 == [q1 EXCEPT !.leased = TRUE]
<1>1. q2 = [r EXCEPT !.status = "sending", !.attempts = @ + 1,
                     !.leased = TRUE]
  OBVIOUS
<1>2. q0 \in Row /\ q0.status = "sending" /\ q0.attempts = r.attempts
  BY DEF Row
<1> HIDE DEF q0
<1>3. q1 \in Row /\ q1.status = "sending" /\ q1.attempts = r.attempts + 1
  BY <1>2 DEF Row
<1> HIDE DEF q1
<1>4. /\ q2 \in Row /\ q2.status = "sending" /\ q2.leased
      /\ q2.attempts = r.attempts + 1
  BY <1>3 DEF Row
<1>5. QED
  BY <1>1, <1>4

-----------------------------------------------------------------------------
(* Types of the rows, workers, settings and counters *)

LEMMA InitTypes ==
    ASSUME OutboxAssumption, Init PROVE Types
<1>1. RowTypes
  BY DEF Init, RowTypes
<1>2. WorkerTypes
  <2>1. worker = [w \in Workers |-> Idle]
    BY DEF Init
  <2>2. WorkerOK(Idle)
    BY DEF WorkerOK, Idle, Steps
  <2>3. worker \in [Workers -> Range(worker)]
    BY <2>1 DEF Range
  <2>4. QED
    BY <2>1, <2>2, <2>3 DEF WorkerTypes
<1>3. FormTypes
  BY DEF Init, FormTypes, Settings, Passwords
<1>4. CounterTypes
  BY DEF Init, CounterTypes, OutboxAssumption
<1>5. Lined
  <2>1. line = <<>>
    BY DEF Init
  <2>2. Range(line) = {} /\ line \in Seq(Notices)
    BY <2>1 DEF Range
  <2>3. Queued = {}
    BY DEF Init, Queued, NoRow
  <2>4. QED
    BY <2>1, <2>2, <2>3 DEF Lined, IsInjective
<1>6. QED
  BY <1>1, <1>2, <1>3, <1>4, <1>5 DEF Types

LEMMA EnqueueRows ==
    ASSUME RowTypes, NEW n \in Notices, EnqueueNotification(n)
    PROVE  /\ RowTypes'
           /\ rows[n] = NoRow
           /\ rows'[n] = [status |-> "pending", attempts |-> 0,
                          leased |-> FALSE, payload |-> TRUE]
           /\ \A k \in Notices \ {n} : rows'[k] = rows[k]
<1> DEFINE r == [status |-> "pending", attempts |-> 0,
                 leased |-> FALSE, payload |-> TRUE]
<1>1. r \in Row
  BY DEF Row
<1>2. rows' = [rows EXCEPT ![n] = r] /\ rows[n] = NoRow
  BY DEF EnqueueNotification
<1> HIDE DEF r
<1>3. RowTypes' /\ rows'[n] = r /\ \A k \in Notices \ {n} : rows'[k] = rows[k]
  BY <1>1, <1>2, SetRow
<1>4. QED
  BY <1>2, <1>3 DEF r

\* What a claim does: the row, the worker, nothing else.
LEMMA ClaimEffect ==
    ASSUME RowTypes, WorkerTypes, Lined, NEW w \in Workers,
           ClaimNotification(w)
    PROVE  \E n \in Notices :
             /\ worker[w] = Idle
             /\ Claimable(n) /\ n \in Range(line)
             /\ RowTypes' /\ WorkerTypes'
             /\ rows'[n].status = "sending" /\ rows'[n].leased
             /\ rows'[n].attempts = rows[n].attempts + 1
             /\ rows[n].attempts \in Nat
             /\ \A k \in Notices \ {n} : rows'[k] = rows[k]
             /\ worker'[w].at = "claimed" /\ worker'[w].n = n
             /\ worker'[w].attempt = rows[n].attempts + 1
             /\ \A v \in Workers \ {w} : worker'[v] = worker[v]
             /\ UNCHANGED <<line, settings, form, bounds, history>>
<1>1. PICK i \in DOMAIN line :
        /\ worker[w] = Idle
        /\ Claimable(line[i])
        /\ rows' = [rows EXCEPT ![line[i]].status = "sending",
                                ![line[i]].attempts = @ + 1,
                                ![line[i]].leased = TRUE]
        /\ worker' = [worker EXCEPT ![w] =
                        [at |-> "claimed", n |-> line[i],
                         attempt |-> rows[line[i]].attempts + 1,
                         payload |-> rows[line[i]].payload]]
        /\ UNCHANGED <<line, settings, form, bounds, history>>
  BY DEF ClaimNotification
<1> DEFINE n == line[i]
           r == [rows[n] EXCEPT !.status = "sending", !.attempts = @ + 1,
                                !.leased = TRUE]
           c == [at |-> "claimed", n |-> n, attempt |-> rows[n].attempts + 1,
                 payload |-> rows[n].payload]
<1>2. n \in Notices
  BY DEF Lined
<1>3. Claimable(n) /\ n \in Range(line)
  BY <1>1 DEF Range
<1>4. rows[n] \in Row /\ rows[n].attempts \in Nat /\ rows[n].payload \in BOOLEAN
  BY <1>2, <1>3, RowCases DEF Claimable
<1>5. /\ r \in Row /\ r.status = "sending" /\ r.leased
      /\ r.attempts = rows[n].attempts + 1
  BY <1>4, ClaimedRow
<1>6. WorkerOK(c)
  BY <1>2, <1>4 DEF WorkerOK, Steps
<1>7. rows' = [rows EXCEPT ![n] = r]
  BY <1>1, <1>2 DEF RowTypes
<1>8. worker' = [worker EXCEPT ![w] = c]
  BY <1>1
<1>c. c.at = "claimed" /\ c.n = n /\ c.attempt = rows[n].attempts + 1
  OBVIOUS
<1> HIDE DEF n, r, c
<1>9. RowTypes' /\ rows'[n] = r /\ \A k \in Notices \ {n} : rows'[k] = rows[k]
  BY <1>2, <1>5, <1>7, SetRow
<1>10. /\ WorkerTypes' /\ worker'[w] = c
       /\ \A v \in Workers \ {w} : worker'[v] = worker[v]
  BY <1>6, <1>8, SetWorker
<1>11. QED
  BY <1>1, <1>2, <1>3, <1>4, <1>5, <1>9, <1>10, <1>c

\* The outcome of a claim is written when the row is still the claim's.
LEMMA FinishEffect ==
    ASSUME RowTypes, WorkerTypes, NEW w \in Workers, worker[w].at = "answered",
           NEW status \in {"sent", "dead", "retry"},
           FinishNotification(w, status)
    PROVE  LET n == worker[w].n
           IN  \/ /\ rows[n].status = "sending"
                  /\ rows[n].attempts = worker[w].attempt
                  /\ RowTypes'
                  /\ rows'[n].status = status
                  /\ \A k \in Notices \ {n} : rows'[k] = rows[k]
                  /\ line' = Without(n)
               \/ /\ ~(/\ rows[n].status = "sending"
                       /\ rows[n].attempts = worker[w].attempt)
                  /\ UNCHANGED <<rows, line>>
<1> DEFINE n == worker[w].n
           current == rows[n].status = "sending"
                      /\ rows[n].attempts = worker[w].attempt
           r == [rows[n] EXCEPT !.status = status, !.leased = FALSE,
                                !.payload = status # "sent" /\ @]
<1>1. n \in Notices
  BY HoldsIff
<1>2. CASE ~current
  BY <1>2 DEF FinishNotification, database
<1>3. CASE current
  <2>1. rows[n] \in Row /\ rows[n].attempts \in Nat /\ rows[n].payload \in BOOLEAN
    BY <1>1, <1>3, RowCases
  <2>2. r \in Row /\ r.status = status
    <3> DEFINE q1 == [rows[n] EXCEPT !.status = status]
               q2 == [q1 EXCEPT !.leased = FALSE]
               q3 == [q2 EXCEPT !.payload = status # "sent" /\ @]
    <3>1. q3 = r
      OBVIOUS
    <3>2. q1 \in Row /\ q1.status = status
      BY <2>1 DEF Row
    <3> HIDE DEF q1
    <3>3. q2 \in Row /\ q2.status = status
      BY <3>2 DEF Row
    <3> HIDE DEF q2
    <3>4. q3 \in Row /\ q3.status = status
      BY <3>3 DEF Row
    <3>5. QED
      BY <3>1, <3>4
  <2>3. rows' = [rows EXCEPT ![n] = r] /\ line' = Without(n)
    BY <1>1, <1>3 DEF FinishNotification, RowTypes
  <2> HIDE DEF r
  <2>4. RowTypes' /\ rows'[n] = r /\ \A k \in Notices \ {n} : rows'[k] = rows[k]
    BY <1>1, <2>2, <2>3, SetRow
  <2>5. QED
    BY <1>3, <2>2, <2>3, <2>4
<1>4. QED
  BY <1>2, <1>3

LEMMA RetryDeadEffect ==
    ASSUME RowTypes, RetryDeadNotifications
    PROVE  /\ RowTypes'
           /\ \A n \in Notices :
                IF rows[n].status = "dead"
                THEN rows'[n].status = "retry" /\ rows[n] # NoRow
                ELSE rows'[n] = rows[n]
<1>1. rows' = [n \in Notices |->
                 IF rows[n].status = "dead"
                 THEN [rows[n] EXCEPT !.status = "retry", !.attempts = 0]
                 ELSE rows[n]]
  BY DEF RetryDeadNotifications
<1>2. ASSUME NEW n \in Notices
      PROVE  /\ rows'[n] \in Row \cup {NoRow}
             /\ IF rows[n].status = "dead"
                THEN rows'[n].status = "retry" /\ rows[n] # NoRow
                ELSE rows'[n] = rows[n]
  <2>1. CASE rows[n].status = "dead"
    <3>1. rows[n] \in Row /\ rows[n] # NoRow
      BY <1>2, <2>1, RowCases
    <3>2. rows'[n] = [status |-> "retry", attempts |-> 0,
                      leased |-> rows[n].leased, payload |-> rows[n].payload]
      BY <1>1, <1>2, <2>1, <3>1 DEF Row
    <3>3. rows'[n] \in Row
      BY <3>1, <3>2 DEF Row
    <3>4. QED
      BY <2>1, <3>1, <3>2, <3>3
  <2>2. CASE rows[n].status # "dead"
    BY <1>1, <1>2, <2>2 DEF RowTypes
  <2>3. QED
    BY <2>1, <2>2
<1>3. RowTypes'
  BY <1>1, <1>2 DEF RowTypes
<1>4. QED
  BY <1>2, <1>3

LEMMA LeaseEffect ==
    ASSUME RowTypes, NEW n \in Notices, LeaseEnds(n)
    PROVE  /\ RowTypes'
           /\ rows[n].status = "sending" /\ rows[n].leased
           /\ rows'[n].status = "sending"
           /\ rows'[n].attempts = rows[n].attempts
           /\ \A k \in Notices \ {n} : rows'[k] = rows[k]
<1> DEFINE r == [rows[n] EXCEPT !.leased = FALSE]
<1>1. rows[n].status = "sending" /\ rows[n].leased
  BY DEF LeaseEnds
<1>2. rows[n] \in Row
  BY <1>1, RowCases
<1>3. r \in Row /\ r.status = "sending" /\ r.attempts = rows[n].attempts
  BY <1>1, <1>2 DEF Row
<1>4. rows' = [rows EXCEPT ![n] = r]
  BY DEF LeaseEnds, RowTypes
<1> HIDE DEF r
<1>5. RowTypes' /\ rows'[n] = r /\ \A k \in Notices \ {n} : rows'[k] = rows[k]
  BY <1>3, <1>4, SetRow
<1>6. QED
  BY <1>1, <1>3, <1>5

\* A worker that gives up its claim, whatever becomes of it.
LEMMA LetGoEffect ==
    ASSUME WorkerTypes, NEW w \in Workers, NEW c \in {Idle, Down},
           worker' = [worker EXCEPT ![w] = c]
    PROVE  /\ WorkerTypes'
           /\ worker'[w].at \in {"idle", "down"}
           /\ \A v \in Workers \ {w} : worker'[v] = worker[v]
<1>1. WorkerOK(c) /\ c.at \in {"idle", "down"}
  BY DEF WorkerOK, Idle, Down, Steps
<1>2. QED
  BY <1>1, SetWorker

LEMMA LoadEffect ==
    ASSUME WorkerTypes, FormTypes, NEW w \in Workers, LoadRuntime(w)
    PROVE  /\ WorkerTypes'
           /\ Holds(w) /\ worker[w].at = "claimed"
           /\ worker'[w].at \in {"loaded", "answered"}
           /\ worker'[w].n = worker[w].n
           /\ worker'[w].attempt = worker[w].attempt
           /\ worker'[w].at = "answered" => worker'[w].code # NoError
           /\ \A v \in Workers \ {w} : worker'[v] = worker[v]
           /\ UNCHANGED <<database, settings, form, bounds, history>>
<1> DEFINE c == worker[w]
           loaded == [at |-> "loaded", n |-> c.n, attempt |-> c.attempt,
                      password |-> settings.password]
           answered(code) == [at |-> "answered", n |-> c.n,
                              attempt |-> c.attempt, code |-> code]
<1>1. c.at = "claimed" /\ c.n \in Notices /\ c.attempt \in Nat \ {0} /\ Holds(w)
  BY HoldsIff DEF LoadRuntime
<1>2. UNCHANGED <<database, settings, form, bounds, history>>
  BY DEF LoadRuntime
<1>3. \E d : /\ worker' = [worker EXCEPT ![w] = d]
             /\ \/ d = loaded
                \/ d = answered("INVALID_PAYLOAD")
                \/ d = answered("SMTP_UNAVAILABLE")
  BY DEF LoadRuntime
<1>4. PICK d : /\ worker' = [worker EXCEPT ![w] = d]
               /\ \/ d = loaded
                  \/ d = answered("INVALID_PAYLOAD")
                  \/ d = answered("SMTP_UNAVAILABLE")
  BY <1>3
<1>5. /\ WorkerOK(d) /\ d.at \in {"loaded", "answered"}
      /\ d.n = c.n /\ d.attempt = c.attempt
      /\ d.at = "answered" => d.code # NoError
  BY <1>1, <1>4 DEF WorkerOK, Steps, FormTypes, Settings, NoError
<1>6. /\ WorkerTypes' /\ worker'[w] = d
      /\ \A v \in Workers \ {w} : worker'[v] = worker[v]
  BY <1>4, <1>5, SetWorker
<1>7. QED
  BY <1>1, <1>2, <1>5, <1>6

LEMMA DeliverEffect ==
    ASSUME WorkerTypes, CounterTypes, NEW w \in Workers,
           NEW taken \in BOOLEAN, NEW error \in BOOLEAN,
           deliverEmail(w, taken, error)
    PROVE  LET n == worker[w].n
           IN  /\ WorkerTypes' /\ CounterTypes'
               /\ Holds(w) /\ worker[w].at = "loaded" /\ n \in Notices
               /\ taken \/ error
               /\ worker'[w].at = "answered"
               /\ worker'[w].n = n
               /\ worker'[w].attempt = worker[w].attempt
               /\ worker'[w].code = NoError <=> ~error
               /\ \A v \in Workers \ {w} : worker'[v] = worker[v]
               /\ copies'[n] = IF taken /\ copies[n] < 2
                               THEN copies[n] + 1 ELSE copies[n]
               /\ \A k \in Notices \ {n} : copies'[k] = copies[k]
               /\ excused' = IF taken /\ error THEN excused \cup {n} ELSE excused
               /\ UNCHANGED <<database, settings, form, bounds>>
<1> DEFINE n == worker[w].n
           d == [at |-> "answered", n |-> n, attempt |-> worker[w].attempt,
                 code |-> IF error THEN "SMTP_DELIVERY_FAILED" ELSE NoError]
<1>1. /\ worker[w].at = "loaded" /\ n \in Notices
      /\ worker[w].attempt \in Nat \ {0} /\ Holds(w)
  BY HoldsIff DEF deliverEmail
<1>2. /\ UNCHANGED <<database, settings, form, bounds>>
      /\ taken \/ error
      /\ worker' = [worker EXCEPT ![w] = d]
      /\ copies' = IF taken /\ copies[n] < 2
                   THEN [copies EXCEPT ![n] = @ + 1] ELSE copies
      /\ excused' = IF taken /\ error THEN excused \cup {n} ELSE excused
  BY DEF deliverEmail, Session
<1>3. /\ WorkerOK(d) /\ d.at = "answered" /\ d.n = n
      /\ d.attempt = worker[w].attempt /\ (d.code = NoError <=> ~error)
  BY <1>1 DEF WorkerOK, Steps, NoError
<1> HIDE DEF d
<1>4. /\ WorkerTypes' /\ worker'[w] = d
      /\ \A v \in Workers \ {w} : worker'[v] = worker[v]
  BY <1>2, <1>3, SetWorker
<1>5. /\ copies' \in [Notices -> 0..2]
      /\ copies'[n] = IF taken /\ copies[n] < 2
                      THEN copies[n] + 1 ELSE copies[n]
      /\ \A k \in Notices \ {n} : copies'[k] = copies[k]
  BY <1>1, <1>2 DEF CounterTypes
<1>6. CounterTypes'
  BY <1>1, <1>2, <1>5 DEF CounterTypes, bounds
<1>7. QED
  BY <1>1, <1>2, <1>3, <1>4, <1>5, <1>6

-----------------------------------------------------------------------------
(* Duplicates *)

Answered(w) == worker[w].at = "answered" /\ worker[w].code = NoError

\* A notification without a fault has at most one worker, whose claim is the
\* row's latest and whose lease runs.
Owned(n) ==
    n \notin excused =>
      /\ \A w \in Holders(n) : /\ rows[n].status = "sending" /\ rows[n].leased
                              /\ worker[w].attempt = rows[n].attempts
      /\ \A v, w \in Holders(n) : v = w

\* A mail that was taken without a fault was taken once, and its row says so
\* or its worker is about to write it.
Counted(n) ==
    n \notin excused /\ copies[n] > 0 =>
      /\ copies[n] = 1
      /\ \/ rows[n].status = "sent"
         \/ \E w \in Holders(n) : Answered(w)

\* A worker that will write "sent" has seen the mail taken.
Witnessed == \A w \in Workers : Answered(w) => copies[worker[w].n] > 0

\* What a worker has claimed is in the table.
Known == \A w \in Workers : Holds(w) => rows[worker[w].n].status # "none"

Safe ==
    /\ \A n \in Notices : Owned(n) /\ Counted(n)
    /\ Witnessed
    /\ Known

IInv == Types /\ Safe


LEMMA HoldersIff ==
    ASSUME NEW n, NEW w \in Workers
    PROVE  w \in Holders(n) <=> Holds(w) /\ worker[w].n = n
BY DEF Holders

\* A notification that a step leaves alone, with the workers that hold it.
LEMMA Undisturbed ==
    ASSUME NEW n \in Notices, Owned(n), Counted(n),
           rows'[n] = rows[n], copies'[n] = copies[n],
           n \in excused => n \in excused',
           Holders(n)' = Holders(n),
           \A w \in Holders(n) : worker'[w] = worker[w]
    PROVE  Owned(n)' /\ Counted(n)'
<1>1. \A w \in Holders(n) : Answered(w) => Answered(w)'
  BY DEF Answered
<1>2. Owned(n)'
  BY DEF Owned
<1>3. Counted(n)'
  BY <1>1 DEF Counted
<1>4. QED
  BY <1>2, <1>3

\* A step of worker w on the mail that it holds, or takes.
LEMMA OthersHold ==
    ASSUME NEW w \in Workers, NEW n,
           \A v \in Workers \ {w} : worker'[v] = worker[v],
           ~Holds(w) \/ worker[w].n # n,
           ~Holds(w)' \/ worker'[w].n # n
    PROVE  /\ Holders(n)' = Holders(n)
           /\ \A v \in Holders(n) : worker'[v] = worker[v]
BY DEF Holders, Holds

LEMMA WitnessedBy ==
    ASSUME WorkerTypes, Witnessed, NEW w \in Workers,
           \A v \in Workers \ {w} : worker'[v] = worker[v],
           \A n \in Notices : copies[n] > 0 => copies'[n] > 0,
           Answered(w)' => copies'[worker'[w].n] > 0
    PROVE  Witnessed'
<1> SUFFICES ASSUME NEW v \in Workers, Answered(v)'
             PROVE  copies'[worker'[v].n] > 0
  BY DEF Witnessed
<1>1. CASE v = w
  BY <1>1
<1>2. CASE v # w
  <2>1. worker'[v] = worker[v] /\ Answered(v)
    BY <1>2 DEF Answered
  <2>2. worker[v].n \in Notices
    BY <2>1 DEF WorkerTypes, WorkerOK, Answered
  <2>3. QED
    BY <2>1, <2>2 DEF Witnessed
<1>3. QED
  BY <1>1, <1>2

LEMMA KnownBy ==
    ASSUME WorkerTypes, Known, NEW w \in Workers,
           \A v \in Workers \ {w} : worker'[v] = worker[v],
           \A n \in Notices :
             rows[n].status # "none" => rows'[n].status # "none",
           Holds(w)' => rows'[worker'[w].n].status # "none"
    PROVE  Known'
<1> SUFFICES ASSUME NEW v \in Workers, Holds(v)'
             PROVE  rows'[worker'[v].n].status # "none"
  BY DEF Known
<1>1. CASE v = w
  BY <1>1
<1>2. CASE v # w
  <2>1. worker'[v] = worker[v] /\ Holds(v)
    BY <1>2 DEF Holds
  <2>2. worker[v].n \in Notices
    BY <2>1, HoldsIff
  <2>3. QED
    BY <2>1, <2>2 DEF Known
<1>3. QED
  BY <1>1, <1>2

\* Steps that touch no worker.
LEMMA WorkersAlone ==
    ASSUME WorkerTypes, Witnessed, Known, UNCHANGED <<worker, copies>>,
           \A n \in Notices :
             rows[n].status # "none" => rows'[n].status # "none"
    PROVE  /\ Witnessed' /\ Known'
           /\ \A n \in Notices : /\ Holders(n)' = Holders(n)
                               /\ \A w \in Holders(n) : worker'[w] = worker[w]
<1>1. Witnessed'
  BY DEF Witnessed, Answered
<1>2. \A w \in Workers : Holds(w) => worker[w].n \in Notices
  BY HoldsIff
<1>3. Known'
  BY <1>2 DEF Known, Holds
<1>4. \A n \in Notices : Holders(n)' = Holders(n)
  BY DEF Holders, Holds
<1>5. QED
  BY <1>1, <1>3, <1>4

LEMMA InitSafe ==
    ASSUME Init PROVE Safe
<1>1. \A w \in Workers : ~Holds(w) /\ ~Answered(w)
  BY DEF Init, Idle, Holds, Answered
<1>2. \A n \in Notices : Holders(n) = {}
  BY <1>1 DEF Holders
<1>3. \A n \in Notices : Owned(n) /\ Counted(n)
  BY <1>2 DEF Owned, Counted, Init
<1>4. QED
  BY <1>1, <1>3 DEF Safe, Witnessed, Known

LEMMA EnqueueSafe ==
    ASSUME Types, Safe, NEW k \in Notices, EnqueueNotification(k)
    PROVE  Safe'
<1>1. /\ rows[k] = NoRow /\ rows[k].status = "none"
      /\ rows'[k].status = "pending"
      /\ \A n \in Notices \ {k} : rows'[n] = rows[n]
  BY EnqueueRows DEF Types, NoRow
<1>2. UNCHANGED <<worker, copies, excused>>
  BY DEF EnqueueNotification, history
<1>3. /\ Witnessed' /\ Known'
      /\ \A n \in Notices : /\ Holders(n)' = Holders(n)
                          /\ \A w \in Holders(n) : worker'[w] = worker[w]
  BY <1>1, <1>2, WorkersAlone DEF Types, Safe
<1>4. Holders(k) = {}
  BY <1>1 DEF Safe, Known, Holders
<1>5. ASSUME NEW n \in Notices PROVE Owned(n)' /\ Counted(n)'
  <2>1. CASE n = k
    BY <1>1, <1>2, <1>3, <1>4, <2>1 DEF Safe, Owned, Counted
  <2>2. CASE n # k
    BY <1>1, <1>2, <1>3, <1>5, <2>2, Undisturbed DEF Safe
  <2>3. QED
    BY <2>1, <2>2
<1>6. QED
  BY <1>3, <1>5 DEF Safe

LEMMA ClaimSafe ==
    ASSUME Types, Safe, NEW w \in Workers, ClaimNotification(w)
    PROVE  Safe'
<1>1. PICK k \in Notices :
        /\ worker[w] = Idle
        /\ Claimable(k) /\ k \in Range(line)
        /\ RowTypes' /\ WorkerTypes'
        /\ rows'[k].status = "sending" /\ rows'[k].leased
        /\ rows'[k].attempts = rows[k].attempts + 1
        /\ rows[k].attempts \in Nat
        /\ \A n \in Notices \ {k} : rows'[n] = rows[n]
        /\ worker'[w].at = "claimed" /\ worker'[w].n = k
        /\ worker'[w].attempt = rows[k].attempts + 1
        /\ \A v \in Workers \ {w} : worker'[v] = worker[v]
        /\ UNCHANGED <<line, settings, form, bounds, history>>
  BY ClaimEffect DEF Types
<1>2. ~Holds(w) /\ ~Answered(w)' /\ UNCHANGED <<copies, excused>>
  BY <1>1 DEF Idle, Holds, Answered, history
<1>3. Witnessed'
  BY <1>1, <1>2, WitnessedBy DEF Types, Safe
<1>4. Known'
  <2>1. \A n \in Notices : rows[n].status # "none" => rows'[n].status # "none"
    BY <1>1
  <2>2. QED
    BY <1>1, <2>1, KnownBy DEF Types, Safe
<1>5. k \notin excused => Holders(k) = {}
  BY <1>1 DEF Safe, Owned, Claimable
<1>6. k \notin excused => ~(copies[k] > 0)
  BY <1>1, <1>5 DEF Safe, Counted, Claimable
<1>7. Holders(k) = {} => Holders(k)' = {w}
  BY <1>1 DEF Holders, Holds
<1>8. ASSUME NEW n \in Notices PROVE Owned(n)' /\ Counted(n)'
  <2>1. CASE n = k
    BY <1>1, <1>2, <1>5, <1>6, <1>7, <2>1 DEF Owned, Counted
  <2>2. CASE n # k
    <3>1. /\ Holders(n)' = Holders(n)
          /\ \A v \in Holders(n) : worker'[v] = worker[v]
      BY <1>1, <1>2, <2>2, OthersHold
    <3>2. QED
      BY <1>1, <1>2, <1>8, <2>2, <3>1, Undisturbed DEF Safe
  <2>3. QED
    BY <2>1, <2>2
<1>9. QED
  BY <1>3, <1>4, <1>8 DEF Safe

LEMMA LoadSafe ==
    ASSUME Types, Safe, NEW w \in Workers, LoadRuntime(w)
    PROVE  Safe'
<1>1. /\ WorkerTypes'
      /\ Holds(w) /\ worker[w].at = "claimed"
      /\ worker'[w].at \in {"loaded", "answered"}
      /\ worker'[w].n = worker[w].n
      /\ worker'[w].attempt = worker[w].attempt
      /\ worker'[w].at = "answered" => worker'[w].code # NoError
      /\ \A v \in Workers \ {w} : worker'[v] = worker[v]
      /\ UNCHANGED <<rows, copies, excused>>
  BY LoadEffect DEF Types, database, history
<1>k. PICK k \in Notices : k = worker[w].n
  BY <1>1, HoldsIff DEF Types
<1>2. ~Answered(w) /\ ~Answered(w)' /\ Holds(w)'
  BY <1>1 DEF Answered, Holds
<1>3. Witnessed'
  BY <1>1, <1>2, WitnessedBy DEF Types, Safe
<1>4. Known'
  BY <1>1, <1>2, KnownBy DEF Types, Safe, Known
<1>5. /\ Holders(k)' = Holders(k)
      /\ \A v \in Holders(k) : worker'[v].attempt = worker[v].attempt
  BY <1>1, <1>2, <1>k DEF Holders, Holds
<1>a. \A v \in Holders(k) : Answered(v)' <=> Answered(v)
  BY <1>1, <1>2 DEF Holders, Answered
<1>6. ASSUME NEW n \in Notices PROVE Owned(n)' /\ Counted(n)'
  <2>1. CASE n = k
    <3>1. Owned(k) /\ Counted(k)
      BY <1>k DEF Safe
    <3>2. Owned(k)'
      <4>1. k \notin excused =>
              /\ \A v \in Holders(k) : /\ rows[k].status = "sending"
                                     /\ rows[k].leased
                                     /\ worker[v].attempt = rows[k].attempts
              /\ \A u, v \in Holders(k) : u = v
        BY <3>1 DEF Owned
      <4>2. UNCHANGED <<rows, excused>>
        BY <1>1
      <4>3. QED
        BY <1>5, <4>1, <4>2 DEF Owned
    <3>3. (\E v \in Holders(k) : Answered(v)) =>
            \E v \in Holders(k)' : Answered(v)'
      BY <1>5, <1>a
    <3>4. Counted(k)'
      BY <1>1, <3>1, <3>3 DEF Counted
    <3>5. QED
      BY <2>1, <3>2, <3>4
  <2>2. CASE n # k
    <3>1. /\ Holders(n)' = Holders(n)
          /\ \A v \in Holders(n) : worker'[v] = worker[v]
      BY <1>1, <1>k, <2>2, OthersHold
    <3>2. QED
      BY <1>1, <1>6, <2>2, <3>1, Undisturbed DEF Safe
  <2>3. QED
    BY <2>1, <2>2
<1>7. QED
  BY <1>3, <1>4, <1>6 DEF Safe

LEMMA DeliverSafe ==
    ASSUME Types, Safe, NEW w \in Workers, NEW taken \in BOOLEAN,
           NEW error \in BOOLEAN, deliverEmail(w, taken, error)
    PROVE  Safe'
<1>k. PICK k \in Notices : k = worker[w].n
  BY DeliverEffect DEF Types
<1>1. /\ Holds(w) /\ worker[w].at = "loaded"
      /\ taken \/ error
      /\ worker'[w].at = "answered"
      /\ worker'[w].n = k
      /\ worker'[w].attempt = worker[w].attempt
      /\ worker'[w].code = NoError <=> ~error
      /\ \A v \in Workers \ {w} : worker'[v] = worker[v]
      /\ copies'[k] = IF taken /\ copies[k] < 2
                      THEN copies[k] + 1 ELSE copies[k]
      /\ \A n \in Notices \ {k} : copies'[n] = copies[n]
      /\ excused' = IF taken /\ error THEN excused \cup {k} ELSE excused
      /\ UNCHANGED rows
  BY <1>k, DeliverEffect DEF Types, database
<1>2. /\ copies \in [Notices -> 0..2]
      /\ \A n \in Notices : copies[n] \in 0..2
  BY DEF Types, CounterTypes
<1>3. ~Answered(w) /\ Holds(w)' /\ (Answered(w)' <=> ~error)
  BY <1>1 DEF Answered, Holds
<1>4. ~error => copies'[k] > 0
  BY <1>1, <1>2
<1>5. Witnessed'
  <2>1. \A n \in Notices : copies[n] > 0 => copies'[n] > 0
    BY <1>1, <1>2
  <2>2. QED
    BY <1>1, <1>3, <1>4, <2>1, WitnessedBy DEF Types, Safe
<1>6. Known'
  BY <1>1, <1>k, KnownBy DEF Types, Safe, Known
<1>7. /\ Holders(k)' = Holders(k) /\ w \in Holders(k)
      /\ \A v \in Holders(k) : worker'[v].attempt = worker[v].attempt
  BY <1>1, <1>3, <1>k DEF Holders, Holds
<1>8. Owned(k)' /\ Counted(k)'
  <2>1. CASE k \in excused'
    BY <2>1 DEF Owned, Counted
  <2>2. CASE k \notin excused'
    <3>1. k \notin excused /\ (taken => ~error)
      BY <1>1, <2>2
    <3>2. /\ \A v \in Holders(k) : /\ rows[k].status = "sending"
                                   /\ rows[k].leased
                                   /\ worker[v].attempt = rows[k].attempts
          /\ \A u, v \in Holders(k) : u = v
      BY <1>k, <3>1 DEF Safe, Owned
    <3>3. Owned(k)'
      BY <1>1, <1>7, <3>2 DEF Owned
    <3>4. copies[k] = 0
      <4>1. ~(copies[k] > 0)
        BY <1>3, <1>7, <1>k, <3>1, <3>2 DEF Safe, Counted
      <4>2. QED
        BY <1>2, <4>1
    <3>5. copies'[k] > 0 => copies'[k] = 1 /\ ~error
      BY <1>1, <3>1, <3>4
    <3>6. Counted(k)'
      BY <1>3, <1>7, <3>5 DEF Counted
    <3>7. QED
      BY <3>3, <3>6
  <2>3. QED
    BY <2>1, <2>2
<1>9. ASSUME NEW n \in Notices, n # k PROVE Owned(n)' /\ Counted(n)'
  <2>1. /\ Holders(n)' = Holders(n)
        /\ \A v \in Holders(n) : worker'[v] = worker[v]
    BY <1>1, <1>k, <1>9, OthersHold
  <2>2. QED
    BY <1>1, <1>9, <2>1, Undisturbed DEF Safe
<1>10. QED
  BY <1>5, <1>6, <1>8, <1>9 DEF Safe

LEMMA RecordSafe ==
    ASSUME Types, Safe, NEW w \in Workers, RecordOutcome(w)
    PROVE  Safe'
<1>1. /\ worker[w].at = "answered" /\ Holds(w)
      /\ FinishNotification(w, Outcome(worker[w]))
      /\ worker' = [worker EXCEPT ![w] = Idle]
      /\ UNCHANGED <<copies, excused>>
  BY DEF RecordOutcome, Holds, history
<1>2. /\ Outcome(worker[w]) \in {"sent", "dead", "retry"}
      /\ Outcome(worker[w]) = "sent" <=> Answered(w)
  BY <1>1 DEF Outcome, Answered
<1>k. PICK k \in Notices : k = worker[w].n
  BY <1>1, HoldsIff DEF Types
<1>3. /\ ~Holds(w)' /\ ~Answered(w)'
      /\ \A v \in Workers \ {w} : worker'[v] = worker[v]
  BY <1>1, LetGoEffect DEF Types, Holds, Answered
<1>4. \/ /\ rows[k].status = "sending"
         /\ rows[k].attempts = worker[w].attempt
         /\ rows'[k].status = Outcome(worker[w])
         /\ \A n \in Notices \ {k} : rows'[n] = rows[n]
      \/ /\ ~(/\ rows[k].status = "sending"
              /\ rows[k].attempts = worker[w].attempt)
         /\ rows' = rows
  BY <1>1, <1>2, <1>k, FinishEffect DEF Types
<1>5. Witnessed'
  BY <1>1, <1>3, WitnessedBy DEF Types, Safe
<1>6. Known'
  <2>1. \A n \in Notices : rows[n].status # "none" => rows'[n].status # "none"
    BY <1>2, <1>4
  <2>2. QED
    BY <1>3, <2>1, KnownBy DEF Types, Safe
<1>7. Owned(k)' /\ Counted(k)'
  <2>1. CASE k \in excused
    BY <1>1, <2>1 DEF Owned, Counted
  <2>2. CASE k \notin excused
    <3>1. w \in Holders(k)
      BY <1>1, <1>k DEF Holders
    <3>2. /\ rows[k].status = "sending"
          /\ rows[k].attempts = worker[w].attempt
          /\ Holders(k) = {w}
      BY <1>k, <2>2, <3>1 DEF Safe, Owned
    <3>3. Holders(k)' = {}
      BY <1>3, <3>2 DEF Holders, Holds
    <3>4. copies[k] > 0 => copies[k] = 1 /\ Answered(w)
      BY <1>k, <2>2, <3>2 DEF Safe, Counted
    <3>5. Owned(k)'
      BY <3>3 DEF Owned
    <3>6. Counted(k)'
      BY <1>1, <1>2, <1>4, <3>2, <3>4 DEF Counted
    <3>7. QED
      BY <3>5, <3>6
  <2>3. QED
    BY <2>1, <2>2
<1>8. ASSUME NEW n \in Notices, n # k PROVE Owned(n)' /\ Counted(n)'
  <2>1. /\ Holders(n)' = Holders(n)
        /\ \A v \in Holders(n) : worker'[v] = worker[v]
    BY <1>3, <1>k, <1>8, OthersHold
  <2>2. rows'[n] = rows[n]
    BY <1>4, <1>8
  <2>3. QED
    BY <1>1, <1>8, <2>1, <2>2, Undisturbed DEF Safe
<1>9. QED
  BY <1>5, <1>6, <1>7, <1>8 DEF Safe

\* A worker that lets go of its mail, which is excused then.
LEMMA LetGoSafe ==
    ASSUME Types, Safe, NEW w \in Workers, NEW c \in {Idle, Down},
           worker' = [worker EXCEPT ![w] = c],
           excused' = IF Holds(w) THEN excused \cup {worker[w].n} ELSE excused,
           UNCHANGED <<rows, copies>>
    PROVE  Safe'
<1>1. /\ ~Holds(w)' /\ ~Answered(w)'
      /\ \A v \in Workers \ {w} : worker'[v] = worker[v]
  BY LetGoEffect DEF Types, Holds, Answered
<1>2. Witnessed'
  BY <1>1, WitnessedBy DEF Types, Safe
<1>3. Known'
  BY <1>1, KnownBy DEF Types, Safe
<1>4. ASSUME NEW n \in Notices PROVE Owned(n)' /\ Counted(n)'
  <2>1. CASE Holds(w) /\ worker[w].n = n
    BY <2>1 DEF Owned, Counted
  <2>2. CASE ~Holds(w) \/ worker[w].n # n
    <3>1. /\ Holders(n)' = Holders(n)
          /\ \A v \in Holders(n) : worker'[v] = worker[v]
      BY <1>1, <2>2, OthersHold
    <3>2. QED
      BY <1>4, <3>1, Undisturbed DEF Safe
  <2>3. QED
    BY <2>1, <2>2
<1>5. QED
  BY <1>2, <1>3, <1>4 DEF Safe

LEMMA RetryDeadSafe ==
    ASSUME Types, Safe, RetryDeadNotifications
    PROVE  Safe'
<1>1. \A n \in Notices :
        IF rows[n].status = "dead"
        THEN rows'[n].status = "retry" /\ rows[n] # NoRow
        ELSE rows'[n] = rows[n]
  BY RetryDeadEffect DEF Types
<1>2. /\ UNCHANGED <<worker, copies>>
      /\ excused' = excused \cup {n \in Notices : rows[n].status = "dead"}
  BY DEF RetryDeadNotifications
<1>3. /\ Witnessed' /\ Known'
      /\ \A n \in Notices : /\ Holders(n)' = Holders(n)
                          /\ \A w \in Holders(n) : worker'[w] = worker[w]
  BY <1>1, <1>2, WorkersAlone DEF Types, Safe
<1>4. ASSUME NEW n \in Notices PROVE Owned(n)' /\ Counted(n)'
  <2>1. CASE n \in excused'
    BY <2>1 DEF Owned, Counted
  <2>2. CASE n \notin excused'
    <3>1. rows'[n] = rows[n]
      BY <1>1, <1>2, <1>4, <2>2
    <3>2. QED
      BY <1>2, <1>3, <1>4, <2>2, <3>1, Undisturbed DEF Safe
  <2>3. QED
    BY <2>1, <2>2
<1>5. QED
  BY <1>3, <1>4 DEF Safe

LEMMA LeaseSafe ==
    ASSUME Types, Safe, NEW k \in Notices, LeaseEnds(k)
    PROVE  Safe'
<1>1. /\ rows[k].status = "sending" /\ rows'[k].status = "sending"
      /\ \A n \in Notices \ {k} : rows'[n] = rows[n]
  BY LeaseEffect DEF Types
<1>2. /\ UNCHANGED <<worker, copies>>
      /\ IF Owners(k) = {} THEN excused' = excused
         ELSE excused' = excused \cup {k}
  BY DEF LeaseEnds
<1>3. /\ Witnessed' /\ Known'
      /\ \A n \in Notices : /\ Holders(n)' = Holders(n)
                          /\ \A w \in Holders(n) : worker'[w] = worker[w]
  BY <1>1, <1>2, WorkersAlone DEF Types, Safe
<1>4. Owned(k)' /\ Counted(k)'
  <2>1. CASE k \in excused'
    BY <2>1 DEF Owned, Counted
  <2>2. CASE k \notin excused'
    <3>1. k \notin excused /\ Owners(k) = {}
      BY <1>2, <2>2
    <3>2. Holders(k) = {}
      BY <3>1 DEF Safe, Owned, Owners
    <3>3. ~(copies[k] > 0)
      BY <1>1, <3>1, <3>2 DEF Safe, Counted
    <3>4. QED
      BY <1>2, <1>3, <3>2, <3>3 DEF Owned, Counted
  <2>3. QED
    BY <2>1, <2>2
<1>5. ASSUME NEW n \in Notices, n # k PROVE Owned(n)' /\ Counted(n)'
  <2>1. n \in excused => n \in excused'
    BY <1>2
  <2>2. QED
    BY <1>1, <1>2, <1>3, <1>5, <2>1, Undisturbed DEF Safe
<1>6. QED
  BY <1>3, <1>4, <1>5 DEF Safe

-----------------------------------------------------------------------------
(* The line *)

LEMMA Appended ==
    ASSUME NEW S, NEW s \in Seq(S), IsInjective(s), NEW x \in S, x \notin Range(s)
    PROVE  LET t == Append(s, x)
           IN  t \in Seq(S) /\ IsInjective(t) /\ Range(t) = Range(s) \cup {x}
<1> DEFINE t == Append(s, x)
<1>1. /\ t \in Seq(S) /\ Len(t) = Len(s) + 1 /\ Len(s) \in Nat
      /\ DOMAIN t = 1..Len(t) /\ DOMAIN s = 1..Len(s)
      /\ \A i \in 1..Len(s) : t[i] = s[i]
      /\ t[Len(s) + 1] = x
  BY AppendProperties, LenProperties
<1> HIDE DEF t
<1>2. \A i \in 1..Len(s) : s[i] # x
  BY <1>1 DEF Range
<1>3. IsInjective(t)
  <2> SUFFICES ASSUME NEW a \in 1..Len(s) + 1, NEW b \in 1..Len(s) + 1,
                      t[a] = t[b]
               PROVE  a = b
    BY <1>1 DEF IsInjective
  <2>1. a \in 1..Len(s) \/ a = Len(s) + 1
    BY <1>1
  <2>2. b \in 1..Len(s) \/ b = Len(s) + 1
    BY <1>1
  <2>3. QED
    BY <1>1, <1>2, <2>1, <2>2 DEF IsInjective
<1>4. Range(t) = Range(s) \cup {x}
  <2>1. \A i \in 1..Len(s) + 1 : i \in 1..Len(s) \/ i = Len(s) + 1
    BY <1>1
  <2>2. Range(t) \subseteq Range(s) \cup {x}
    BY <1>1, <2>1 DEF Range
  <2>3. \A i \in 1..Len(s) : i \in DOMAIN t
    BY <1>1
  <2>4. Len(s) + 1 \in DOMAIN t
    BY <1>1
  <2>5. Range(s) \cup {x} \subseteq Range(t)
    BY <1>1, <2>3, <2>4 DEF Range
  <2>6. QED
    BY <2>2, <2>5
<1>5. QED
  BY <1>1, <1>3, <1>4 DEF t

LEMMA Removed ==
    ASSUME NEW S, NEW s \in Seq(S), IsInjective(s), NEW x \in Range(s)
    PROVE  LET t == RemoveFirst(s, x)
           IN  t \in Seq(S) /\ IsInjective(t) /\ Range(t) = Range(s) \ {x}
<1>1. Len(s) \in Nat /\ DOMAIN s = 1..Len(s) /\ \A i \in 1..Len(s) : s[i] \in S
  BY LenProperties, ElementOfSeq
<1>2. PICK i \in 1..Len(s) : s[i] = x
  BY <1>1 DEF Range
<1>3. {j \in 1..Len(s) : s[j] = x} = {i}
  BY <1>1, <1>2 DEF IsInjective
<1>4. SelectInSeq(s, LAMBDA v : v = x) = i
  <2>1. i \in Int
    BY <1>1
  <2>2. Min({i}) = i
    BY <2>1 DEF Min
  <2>3. QED
    BY <1>3, <2>2 DEF SelectInSeq
<1> DEFINE a == SubSeq(s, 1, i - 1)
           b == SubSeq(s, i + 1, Len(s))
           t == a \o b
<1>5. RemoveFirst(s, x) = t
  BY <1>2, <1>4 DEF RemoveFirst, RemoveAt
<1>6. /\ a \in Seq(S) /\ Len(a) = i - 1
      /\ \A j \in 1..i - 1 : a[j] = s[j]
  <2>1. \A j \in 1..i - 1 : s[j] \in S
    BY <1>1
  <2>2. /\ a \in Seq(S)
        /\ Len(a) = IF 1 <= i - 1 THEN (i - 1) - 1 + 1 ELSE 0
        /\ \A j \in 1..(i - 1) - 1 + 1 : a[j] = s[1 + j - 1]
    BY <1>1, <2>1, SubSeqProperties
  <2>3. QED
    BY <1>1, <2>2
<1>7. /\ b \in Seq(S) /\ Len(b) = Len(s) - i
      /\ \A j \in 1..Len(s) - i : b[j] = s[i + j]
  <2>1. \A j \in i + 1..Len(s) : s[j] \in S
    BY <1>1
  <2>2. /\ b \in Seq(S)
        /\ Len(b) = IF i + 1 <= Len(s) THEN Len(s) - (i + 1) + 1 ELSE 0
        /\ \A j \in 1..Len(s) - (i + 1) + 1 : b[j] = s[(i + 1) + j - 1]
    BY <1>1, <2>1, SubSeqProperties
  <2>3. /\ Len(s) - (i + 1) + 1 = Len(s) - i
        /\ ~(i + 1 <= Len(s)) => Len(s) - i = 0
    <3>1. i \in Int /\ Len(s) \in Int /\ i <= Len(s)
      BY <1>1, <1>2
    <3>2. QED
      BY <3>1
  <2>4. Len(b) = Len(s) - i
    BY <2>2, <2>3
  <2>5. ASSUME NEW j \in 1..Len(s) - i PROVE b[j] = s[i + j]
    <3>1. (i + 1) + j - 1 = i + j
      BY <1>1, <1>2, <2>5
    <3>2. QED
      BY <2>2, <2>3, <2>5, <3>1
  <2>6. QED
    BY <2>2, <2>4, <2>5
<1> HIDE DEF a, b
<1>8. /\ t \in Seq(S) /\ Len(t) = Len(s) - 1
      /\ \A j \in 1..Len(s) - 1 : t[j] = IF j < i THEN s[j] ELSE s[j + 1]
  <2>1. /\ t \in Seq(S) /\ Len(t) = Len(a) + Len(b)
        /\ \A j \in 1..Len(a) + Len(b) :
             t[j] = IF j <= Len(a) THEN a[j] ELSE b[j - Len(a)]
    BY <1>6, <1>7, ConcatProperties
  <2>2. Len(a) + Len(b) = Len(s) - 1
    BY <1>1, <1>6, <1>7
  <2>3. ASSUME NEW j \in 1..Len(s) - 1
        PROVE  t[j] = IF j < i THEN s[j] ELSE s[j + 1]
    <3>1. CASE j < i
      BY <1>1, <1>6, <2>1, <2>2, <2>3, <3>1
    <3>2. CASE ~(j < i)
      <4>1. j - (i - 1) \in 1..Len(s) - i /\ ~(j <= Len(a))
        BY <1>1, <1>6, <2>3, <3>2
      <4>2. t[j] = b[j - (i - 1)]
        BY <1>6, <2>1, <2>2, <2>3, <4>1
      <4>3. b[j - (i - 1)] = s[i + (j - (i - 1))]
        BY <1>7, <4>1
      <4>4. i + (j - (i - 1)) = j + 1
        BY <1>1, <2>3
      <4>5. QED
        BY <3>2, <4>2, <4>3, <4>4
    <3>3. QED
      BY <3>1, <3>2
  <2>4. QED
    BY <2>1, <2>2, <2>3
<1> HIDE DEF t
<1>9. DOMAIN t = 1..Len(s) - 1
  BY <1>8, LenProperties
<1>10. IsInjective(t)
  <2> SUFFICES ASSUME NEW j \in 1..Len(s) - 1, NEW k \in 1..Len(s) - 1,
                      t[j] = t[k]
               PROVE  j = k
    BY <1>9 DEF IsInjective
  <2>1. \A u, v \in 1..Len(s) : s[u] = s[v] => u = v
    BY <1>1 DEF IsInjective
  <2>2. j \in 1..Len(s) /\ j + 1 \in 1..Len(s) /\ k \in 1..Len(s) /\ k + 1 \in 1..Len(s)
    BY <1>1
  <2>3. QED
    BY <1>1, <1>8, <2>1, <2>2
<1>11. Range(t) \subseteq Range(s) \ {x}
  <2> SUFFICES ASSUME NEW j \in 1..Len(s) - 1
               PROVE  t[j] \in Range(s) \ {x}
    BY <1>9 DEF Range
  <2>1. PICK k \in 1..Len(s) : k # i /\ t[j] = s[k]
    <3>1. CASE j < i
      BY <1>1, <1>8, <3>1
    <3>2. CASE ~(j < i)
      <4>1. j + 1 \in 1..Len(s) /\ j + 1 # i
        BY <1>1, <3>2
      <4>2. QED
        BY <1>8, <3>2, <4>1
    <3>3. QED
      BY <3>1, <3>2
  <2>2. QED
    BY <1>1, <1>2, <2>1 DEF Range, IsInjective
<1>12. Range(s) \ {x} \subseteq Range(t)
  <2> SUFFICES ASSUME NEW k \in 1..Len(s), s[k] # x
               PROVE  s[k] \in Range(t)
    BY <1>1 DEF Range
  <2>1. k < i \/ k > i
    BY <1>1, <1>2
  <2>2. CASE k < i
    BY <1>1, <1>8, <1>9, <2>2 DEF Range
  <2>3. CASE k > i
    <3>1. k - 1 \in 1..Len(s) - 1 /\ ~(k - 1 < i) /\ (k - 1) + 1 = k
      BY <1>1, <2>3
    <3>2. t[k - 1] = s[k]
      BY <1>8, <3>1
    <3>3. QED
      BY <1>9, <3>1, <3>2 DEF Range
  <2>4. QED
    BY <2>1, <2>2, <2>3
<1>13. QED
  BY <1>5, <1>8, <1>10, <1>11, <1>12

LEMMA Joined ==
    ASSUME NEW S, NEW s \in Seq(S), NEW t \in Seq(S),
           IsInjective(s), IsInjective(t), Range(s) \cap Range(t) = {}
    PROVE  /\ s \o t \in Seq(S) /\ IsInjective(s \o t)
           /\ Range(s \o t) = Range(s) \cup Range(t)
<1> DEFINE c == s \o t
<1>1. /\ Len(s) \in Nat /\ DOMAIN s = 1..Len(s)
      /\ Len(t) \in Nat /\ DOMAIN t = 1..Len(t)
  BY LenProperties
<1>2. /\ c \in Seq(S) /\ Len(c) = Len(s) + Len(t)
      /\ \A i \in 1..Len(s) + Len(t) :
           c[i] = IF i <= Len(s) THEN s[i] ELSE t[i - Len(s)]
  BY ConcatProperties
<1>3. Range(c) = Range(s) \cup Range(t)
  BY RangeConcatenation
<1> HIDE DEF c
<1>4. DOMAIN c = 1..Len(s) + Len(t)
  BY <1>2, LenProperties
<1>5. ASSUME NEW i \in DOMAIN c
      PROVE  \/ i \in 1..Len(s) /\ c[i] = s[i] /\ c[i] \in Range(s)
             \/ /\ i - Len(s) \in 1..Len(t) /\ c[i] = t[i - Len(s)]
                /\ c[i] \in Range(t)
  <2>1. CASE i <= Len(s)
    BY <1>1, <1>2, <1>4, <1>5, <2>1 DEF Range
  <2>2. CASE ~(i <= Len(s))
    <3>1. i - Len(s) \in 1..Len(t)
      BY <1>1, <1>4, <1>5, <2>2
    <3>2. c[i] = t[i - Len(s)]
      BY <1>2, <1>4, <1>5, <2>2
    <3>3. QED
      BY <1>1, <3>1, <3>2 DEF Range
  <2>3. QED
    BY <2>1, <2>2
<1>6. IsInjective(c)
  <2> SUFFICES ASSUME NEW i \in DOMAIN c, NEW j \in DOMAIN c, c[i] = c[j]
               PROVE  i = j
    BY DEF IsInjective
  <2>1. i \in Int /\ j \in Int
    BY <1>1, <1>4
  <2>2. CASE i \in 1..Len(s) /\ c[i] = s[i] /\ c[i] \in Range(s)
    BY <1>1, <1>5, <2>2 DEF IsInjective
  <2>3. CASE i - Len(s) \in 1..Len(t) /\ c[i] = t[i - Len(s)] /\ c[i] \in Range(t)
    <3>1. j - Len(s) \in 1..Len(t) /\ c[j] = t[j - Len(s)]
      BY <1>5, <2>3
    <3>2. i - Len(s) = j - Len(s)
      BY <1>1, <2>3, <3>1 DEF IsInjective
    <3>3. QED
      BY <1>1, <2>1, <3>2
  <2>4. QED
    BY <1>5, <2>2, <2>3
<1>7. QED
  BY <1>2, <1>3, <1>6 DEF c

\* An order of all of a finite set.
LEMMA Ordered ==
    ASSUME NEW S, IsFiniteSet(S), NEW s \in SetToSeqs(S)
    PROVE  s \in Seq(S) /\ IsInjective(s) /\ Range(s) = S
<1> DEFINE D == 1..Cardinality(S)
<1>1. Cardinality(S) \in Nat
  BY FS_CardinalityType
<1>2. s \in [D -> S] /\ IsInjective(s)
  BY DEF SetToSeqs, IsInjective
<1>3. s \in Seq(S)
  BY <1>1, <1>2, SeqDef
<1>4. s \in Injection(D, S)
  BY <1>2 DEF Injection
<1>5. Cardinality(D) = Cardinality(S)
  BY <1>1, FS_Interval
<1>6. s \in Surjection(D, S)
  BY <1>4, <1>5, FS_Injection
<1>7. Range(s) = S
  BY <1>2, <1>6 DEF Surjection, Range
<1>8. QED
  BY <1>2, <1>3, <1>7

LEMMA QueuedIff ==
    ASSUME NEW n \in Notices
    PROVE  n \in Queued <=> rows[n].status \in {"pending", "retry", "sending"}
BY DEF Queued

\* A step that leaves the line alone and what is in it queued.
LEMMA SameLine ==
    ASSUME Lined, line' = line,
           \A n \in Notices : n \in Queued' <=> n \in Queued,
           \A n \in Queued : n \in Range(line) \/ rows'[n] = rows[n]
    PROVE  Lined'
<1>1. Queued' = Queued
  BY DEF Queued
<1>2. \A n \in Queued' : rows'[n].status # "retry" => n \in Range(line')
  BY <1>1 DEF Lined
<1>3. QED
  BY <1>1, <1>2 DEF Lined

LEMMA EnqueueTypes ==
    ASSUME Types, NEW k \in Notices, EnqueueNotification(k)
    PROVE  Types'
<1>1. /\ RowTypes' /\ rows[k].status = "none"
      /\ rows'[k].status = "pending"
      /\ \A n \in Notices \ {k} : rows'[n] = rows[n]
  BY EnqueueRows DEF Types, NoRow
<1>2. /\ UNCHANGED <<worker, settings, form, faults, revivals, copies, excused>>
      /\ line' = Append(line, k)
  BY DEF EnqueueNotification, bounds, history
<1>3. k \notin Queued /\ k \notin Range(line)
  BY <1>1 DEF Queued, Types, Lined
<1>4. /\ line' \in Seq(Notices) /\ IsInjective(line')
      /\ Range(line') = Range(line) \cup {k}
  BY <1>2, <1>3, Appended DEF Types, Lined
<1>5. Queued' = Queued \cup {k}
  BY <1>1 DEF Queued
<1>6. Lined'
  <2>1. Range(line') \subseteq Queued'
    BY <1>4, <1>5 DEF Types, Lined
  <2>2. \A n \in Queued' : rows'[n].status # "retry" => n \in Range(line')
    BY <1>1, <1>4, <1>5 DEF Types, Lined, Queued
  <2>3. QED
    BY <1>4, <2>1, <2>2 DEF Lined
<1>7. WorkerTypes' /\ FormTypes' /\ CounterTypes'
  BY <1>2 DEF Types, WorkerTypes, WorkerOK, FormTypes, CounterTypes
<1>8. QED
  BY <1>1, <1>6, <1>7 DEF Types

LEMMA ClaimTypes ==
    ASSUME Types, NEW w \in Workers, ClaimNotification(w)
    PROVE  Types'
<1>1. PICK k \in Notices :
        /\ Claimable(k) /\ k \in Range(line)
        /\ RowTypes' /\ WorkerTypes'
        /\ rows'[k].status = "sending"
        /\ \A n \in Notices \ {k} : rows'[n] = rows[n]
        /\ UNCHANGED <<line, settings, form, bounds, history>>
  BY ClaimEffect DEF Types
<1>2. ASSUME NEW n \in Notices
      PROVE  /\ n \in Queued' <=> n \in Queued
             /\ n \in Range(line) \/ rows'[n] = rows[n]
  <2>1. CASE n = k
    BY <1>1, <2>1 DEF Queued, Claimable
  <2>2. CASE n # k
    BY <1>1, <1>2, <2>2 DEF Queued
  <2>3. QED
    BY <2>1, <2>2
<1>3. Lined'
  BY <1>1, <1>2, SameLine DEF Types, Queued
<1>4. FormTypes' /\ CounterTypes'
  BY <1>1 DEF Types, FormTypes, CounterTypes, bounds, history
<1>5. QED
  BY <1>1, <1>3, <1>4 DEF Types

\* Steps that touch neither the rows nor the line.
LEMMA DatabaseAlone ==
    ASSUME RowTypes, Lined, UNCHANGED <<rows, line>>
    PROVE  RowTypes' /\ Lined'
<1>1. Queued' = Queued
  BY DEF Queued
<1>2. QED
  BY <1>1 DEF RowTypes, Lined

LEMMA WorkTypes ==
    ASSUME Types, NEW w \in Workers,
           \/ LoadRuntime(w)
           \/ \E taken, error \in BOOLEAN : deliverEmail(w, taken, error)
    PROVE  Types'
<1>1. /\ WorkerTypes' /\ CounterTypes'
      /\ UNCHANGED <<rows, line, settings, form>>
  <2>1. CASE LoadRuntime(w)
    BY <2>1, LoadEffect DEF Types, CounterTypes, database, bounds, history
  <2>2. CASE \E taken, error \in BOOLEAN : deliverEmail(w, taken, error)
    BY <2>2, DeliverEffect DEF Types, database
  <2>3. QED
    BY <2>1, <2>2
<1>2. RowTypes' /\ Lined'
  BY <1>1, DatabaseAlone DEF Types
<1>3. FormTypes'
  BY <1>1 DEF Types, FormTypes
<1>4. QED
  BY <1>1, <1>2, <1>3 DEF Types

LEMMA RecordTypes ==
    ASSUME Types, NEW w \in Workers, RecordOutcome(w)
    PROVE  Types'
<1>1. /\ worker[w].at = "answered"
      /\ FinishNotification(w, Outcome(worker[w]))
      /\ worker' = [worker EXCEPT ![w] = Idle]
      /\ UNCHANGED <<settings, form, bounds, history>>
  BY DEF RecordOutcome
<1>2. Outcome(worker[w]) \in {"sent", "dead", "retry"}
  BY DEF Outcome
<1>3. WorkerTypes'
  BY <1>1, LetGoEffect DEF Types
<1>4. FormTypes' /\ CounterTypes'
  BY <1>1 DEF Types, FormTypes, CounterTypes, bounds, history
<1>k. PICK k \in Notices : k = worker[w].n
  BY <1>1, HoldsIff DEF Types
<1>5. RowTypes' /\ Lined'
  <2>1. CASE UNCHANGED <<rows, line>>
    BY <2>1, DatabaseAlone DEF Types
  <2>2. CASE /\ rows[k].status = "sending"
             /\ RowTypes'
             /\ rows'[k].status = Outcome(worker[w])
             /\ \A n \in Notices \ {k} : rows'[n] = rows[n]
             /\ line' = Without(k)
    <3>1. k \in Range(line)
      BY <2>2 DEF Types, Lined, Queued
    <3>2. /\ line' \in Seq(Notices) /\ IsInjective(line')
          /\ Range(line') = Range(line) \ {k}
      BY <2>2, <3>1, Removed DEF Types, Lined, Without
    <3>3. Range(line') \subseteq Queued'
      BY <2>2, <3>2 DEF Types, Lined, Queued
    <3>4. \A n \in Queued' : rows'[n].status # "retry" => n \in Range(line')
      BY <1>2, <2>2, <3>2 DEF Types, Lined, Queued
    <3>5. QED
      BY <2>2, <3>2, <3>3, <3>4 DEF Lined
  <2>3. QED
    BY <1>1, <1>2, <1>k, <2>1, <2>2, FinishEffect DEF Types
<1>6. QED
  BY <1>3, <1>4, <1>5 DEF Types

\* A worker that stops, starts or gives up; at most one fault more.
LEMMA LetGoTypes ==
    ASSUME Types, NEW w \in Workers, NEW c \in {Idle, Down},
           worker' = [worker EXCEPT ![w] = c],
           \/ Fault
           \/ UNCHANGED faults,
           \/ UNCHANGED excused
           \/ Holds(w) /\ excused' = excused \cup {worker[w].n},
           UNCHANGED <<rows, line, settings, form, revivals, copies>>
    PROVE  Types'
<1>1. WorkerTypes'
  BY LetGoEffect DEF Types
<1>2. RowTypes' /\ Lined'
  BY DatabaseAlone DEF Types
<1>3. FormTypes'
  BY DEF Types, FormTypes
<1>4. Holds(w) => worker[w].n \in Notices
  BY HoldsIff DEF Types
<1>5. excused' \subseteq Notices
  BY <1>4 DEF Types, CounterTypes
<1>6. faults' \in 0..MaxFaults
  BY OutboxAssumption DEF Types, CounterTypes, Fault
<1>7. CounterTypes'
  BY <1>5, <1>6 DEF Types, CounterTypes
<1>8. QED
  BY <1>1, <1>2, <1>3, <1>7 DEF Types

LEMMA RetryDeadTypes ==
    ASSUME Types, RetryDeadNotifications
    PROVE  Types'
<1> DEFINE dead == {n \in Notices : rows[n].status = "dead"}
<1>1. /\ RowTypes'
      /\ \A n \in Notices :
           IF rows[n].status = "dead"
           THEN rows'[n].status = "retry" /\ rows[n] # NoRow
           ELSE rows'[n] = rows[n]
  BY RetryDeadEffect DEF Types
<1>2. /\ UNCHANGED <<worker, settings, form, faults, copies>>
      /\ revivals < MaxRevivals /\ revivals' = revivals + 1
      /\ excused' = excused \cup dead
  BY DEF RetryDeadNotifications
<1>3. PICK s \in SetToSeqs(dead) : line' = line \o s
  BY DEF RetryDeadNotifications
<1>4. s \in Seq(dead) /\ IsInjective(s) /\ Range(s) = dead
  BY OutboxAssumption, FS_Subset, Ordered
<1>5. s \in Seq(Notices)
  BY <1>4, SeqMonotonic
<1>6. Range(line) \cap dead = {}
  BY DEF Types, Lined, Queued
<1>7. /\ line' \in Seq(Notices) /\ IsInjective(line')
      /\ Range(line') = Range(line) \cup dead
  BY <1>3, <1>4, <1>5, <1>6, Joined DEF Types, Lined
<1>8. Queued' = Queued \cup dead
  <2>1. ASSUME NEW n \in Notices PROVE n \in Queued' <=> n \in Queued \cup dead
    <3>1. CASE rows[n].status = "dead"
      BY <1>1, <3>1 DEF Queued
    <3>2. CASE rows[n].status # "dead"
      BY <1>1, <3>2 DEF Queued
    <3>3. QED
      BY <3>1, <3>2
  <2>2. QED
    BY <2>1 DEF Queued
<1>9. Lined'
  <2>1. \A n \in Queued' : rows'[n].status # "retry" => n \in Range(line')
    BY <1>1, <1>7, <1>8 DEF Types, Lined, Queued
  <2>2. Range(line') \subseteq Queued'
    BY <1>7, <1>8 DEF Types, Lined
  <2>3. QED
    BY <1>7, <2>1, <2>2 DEF Lined
<1>10. WorkerTypes' /\ FormTypes'
  BY <1>2 DEF Types, WorkerTypes, WorkerOK, FormTypes
<1>11. CounterTypes'
  BY <1>2, OutboxAssumption DEF Types, CounterTypes
<1>12. QED
  BY <1>1, <1>9, <1>10, <1>11 DEF Types

LEMMA BackoffTypes ==
    ASSUME Types, NEW k \in Notices, BackoffEnds(k)
    PROVE  Types'
<1>1. /\ rows[k].status = "retry" /\ k \notin Range(line)
      /\ line' = Append(line, k)
      /\ UNCHANGED <<rows, worker, settings, form, faults, revivals, copies, excused>>
  BY DEF BackoffEnds, bounds, history
<1>2. /\ line' \in Seq(Notices) /\ IsInjective(line')
      /\ Range(line') = Range(line) \cup {k}
  BY <1>1, Appended DEF Types, Lined
<1>3. Queued' = Queued
  BY <1>1 DEF Queued
<1>4. Lined'
  <2>1. Range(line') \subseteq Queued'
    BY <1>1, <1>2, <1>3 DEF Types, Lined, Queued
  <2>2. \A n \in Queued' : rows'[n].status # "retry" => n \in Range(line')
    BY <1>1, <1>2, <1>3 DEF Types, Lined
  <2>3. QED
    BY <1>2, <2>1, <2>2 DEF Lined
<1>5. RowTypes' /\ WorkerTypes' /\ FormTypes' /\ CounterTypes'
  BY <1>1 DEF Types, RowTypes, WorkerTypes, WorkerOK, FormTypes, CounterTypes
<1>6. QED
  BY <1>4, <1>5 DEF Types

LEMMA LeaseTypes ==
    ASSUME Types, NEW k \in Notices, LeaseEnds(k)
    PROVE  Types'
<1>1. /\ RowTypes'
      /\ rows[k].status = "sending" /\ rows'[k].status = "sending"
      /\ \A n \in Notices \ {k} : rows'[n] = rows[n]
  BY LeaseEffect DEF Types
<1>2. /\ UNCHANGED <<line, worker, settings, form, revivals, copies>>
      /\ \/ UNCHANGED <<faults, excused>>
         \/ Fault /\ excused' = excused \cup {k}
  BY DEF LeaseEnds
<1>3. ASSUME NEW n \in Notices
      PROVE  /\ n \in Queued' <=> n \in Queued
             /\ n \in Queued => n \in Range(line) \/ rows'[n] = rows[n]
  <2>1. CASE n = k
    BY <1>1, <2>1 DEF Queued, Types, Lined
  <2>2. CASE n # k
    BY <1>1, <1>3, <2>2 DEF Queued
  <2>3. QED
    BY <2>1, <2>2
<1>4. Lined'
  BY <1>2, <1>3, SameLine DEF Types, Queued
<1>5. WorkerTypes' /\ FormTypes'
  BY <1>2 DEF Types, WorkerTypes, WorkerOK, FormTypes
<1>6. CounterTypes'
  BY <1>2, OutboxAssumption DEF Types, CounterTypes, Fault
<1>7. QED
  BY <1>1, <1>4, <1>5, <1>6 DEF Types

LEMMA FormTypesKept ==
    ASSUME Types, NEW a \in Admins,
           \/ ReadEmailSettings(a)
           \/ \E on \in BOOLEAN, password \in Passwords :
                UpdateEmailSettings(a, on, password)
    PROVE  Types' /\ UNCHANGED <<rows, line, worker, copies, excused>>
<1>1. /\ UNCHANGED <<rows, line, worker, faults, revivals, copies, excused>>
  BY DEF ReadEmailSettings, UpdateEmailSettings, database, bounds, history
<1>2. FormTypes'
  <2>1. CASE ReadEmailSettings(a)
    BY <2>1 DEF Types, FormTypes, ReadEmailSettings
  <2>2. ASSUME NEW on \in BOOLEAN, NEW password \in Passwords,
               UpdateEmailSettings(a, on, password)
        PROVE  FormTypes'
    <3>1. form[a] \in Settings
      BY <2>2 DEF UpdateEmailSettings, Types, FormTypes
    <3>2. form[a].password \in Passwords
      BY <3>1 DEF Settings
    <3>3. settings' \in Settings
      BY <2>2, <3>2 DEF UpdateEmailSettings, Settings
    <3>4. form' \in [Admins -> Settings \cup {NoForm}]
      BY <2>2 DEF UpdateEmailSettings, Types, FormTypes
    <3>5. QED
      BY <3>3, <3>4 DEF FormTypes
  <2>3. QED
    BY <2>1, <2>2
<1>3. RowTypes' /\ Lined'
  BY <1>1, DatabaseAlone DEF Types
<1>4. WorkerTypes' /\ CounterTypes'
  BY <1>1 DEF Types, WorkerTypes, WorkerOK, CounterTypes
<1>5. QED
  BY <1>1, <1>2, <1>3, <1>4 DEF Types

-----------------------------------------------------------------------------
(* The inductive invariant *)

LEMMA NextIInv ==
    ASSUME IInv, [Next]_vars PROVE IInv'
<1>1. Types /\ Safe
  BY DEF IInv
<1>2. ASSUME NEW n \in Notices, notifyAgentEmail(n) \/ notifyAdminRiskBlock(n)
      PROVE  IInv'
  <2>1. EnqueueNotification(n)
    BY <1>2 DEF notifyAgentEmail, notifyAdminRiskBlock
  <2>2. QED
    BY <1>1, <2>1, EnqueueTypes, EnqueueSafe DEF IInv
<1>3. ASSUME NEW n \in Notices, BackoffEnds(n) PROVE IInv'
  <2>1. Types'
    BY <1>1, <1>3, BackoffTypes
  <2>2. UNCHANGED <<rows, worker, copies, excused>>
    BY <1>3 DEF BackoffEnds, history
  <2>3. Safe'
    BY <1>1, <2>2 DEF Safe, Owned, Counted, Witnessed, Known, Answered, Holders, Holds
  <2>4. QED
    BY <2>1, <2>3 DEF IInv
<1>4. ASSUME NEW n \in Notices, LeaseEnds(n) PROVE IInv'
  BY <1>1, <1>4, LeaseTypes, LeaseSafe DEF IInv
<1>5. ASSUME NEW w \in Workers, Work(w) PROVE IInv'
  <2>1. CASE ClaimNotification(w)
    BY <1>1, <2>1, ClaimTypes, ClaimSafe DEF IInv
  <2>2. CASE LoadRuntime(w)
    BY <1>1, <2>2, WorkTypes, LoadSafe DEF IInv
  <2>3. CASE \E taken, error \in BOOLEAN : deliverEmail(w, taken, error)
    BY <1>1, <2>3, WorkTypes, DeliverSafe DEF IInv
  <2>4. CASE RecordOutcome(w)
    BY <1>1, <2>4, RecordTypes, RecordSafe DEF IInv
  <2>5. QED
    BY <1>5, <2>1, <2>2, <2>3, <2>4 DEF Work
<1>6. ASSUME NEW w \in Workers, LoseOutcome(w) PROVE IInv'
  <2>1. /\ Fault /\ Holds(w)
        /\ worker' = [worker EXCEPT ![w] = Idle]
        /\ excused' = excused \cup {worker[w].n}
        /\ UNCHANGED <<rows, line, settings, form, revivals, copies>>
    BY <1>6 DEF LoseOutcome, Holds, database
  <2>2. QED
    BY <1>1, <2>1, LetGoTypes, LetGoSafe DEF IInv
<1>7. ASSUME NEW w \in Workers, Stop(w) PROVE IInv'
  <2>1. /\ Fault
        /\ worker' = [worker EXCEPT ![w] = Down]
        /\ excused' = IF Holds(w) THEN excused \cup {worker[w].n} ELSE excused
        /\ UNCHANGED <<rows, line, settings, form, revivals, copies>>
    BY <1>7 DEF Stop, database
  <2>2. QED
    BY <1>1, <2>1, LetGoTypes, LetGoSafe DEF IInv
<1>8. ASSUME NEW w \in Workers, StartNotificationWorker(w) PROVE IInv'
  <2>1. /\ ~Holds(w)
        /\ worker' = [worker EXCEPT ![w] = Idle]
        /\ UNCHANGED <<rows, line, settings, form, faults, revivals, copies, excused>>
    BY <1>8 DEF StartNotificationWorker, Holds, Down, database, bounds, history
  <2>2. QED
    BY <1>1, <2>1, LetGoTypes, LetGoSafe DEF IInv
<1>9. ASSUME RetryDeadNotifications PROVE IInv'
  BY <1>1, <1>9, RetryDeadTypes, RetryDeadSafe DEF IInv
<1>10. ASSUME NEW a \in Admins,
              \/ ReadEmailSettings(a)
              \/ \E on \in BOOLEAN, password \in Passwords :
                   UpdateEmailSettings(a, on, password)
       PROVE  IInv'
  <2>1. Types' /\ UNCHANGED <<rows, worker, copies, excused>>
    BY <1>1, <1>10, FormTypesKept
  <2>2. Safe'
    BY <1>1, <2>1 DEF Safe, Owned, Counted, Witnessed, Known, Answered, Holders, Holds
  <2>3. QED
    BY <2>1, <2>2 DEF IInv
<1>11. ASSUME UNCHANGED vars PROVE IInv'
  <2>1. /\ UNCHANGED <<rows, line, worker, settings, form>>
        /\ UNCHANGED <<faults, revivals, copies, excused>>
    BY <1>11 DEF vars
  <2>2. RowTypes' /\ Lined'
    BY <1>1, <2>1, DatabaseAlone DEF Types
  <2>3. WorkerTypes' /\ FormTypes' /\ CounterTypes'
    BY <1>1, <2>1 DEF Types, WorkerTypes, WorkerOK, FormTypes, CounterTypes
  <2>4. Safe'
    BY <1>1, <2>1 DEF Safe, Owned, Counted, Witnessed, Known, Answered, Holders, Holds
  <2>5. QED
    BY <2>2, <2>3, <2>4 DEF IInv, Types
<1>12. QED
  BY <1>2, <1>3, <1>4, <1>5, <1>6, <1>7, <1>8, <1>9, <1>10, <1>11 DEF Next

\* The invariant behind everything that follows: types, a line without gaps
\* or repetitions, and one worker for each mail that no fault has touched.
THEOREM OutboxInvariant == Spec => []IInv
<1>1. Init => IInv
  BY OutboxAssumption, InitTypes, InitSafe DEF IInv
<1>2. IInv /\ [Next]_vars => IInv'
  BY NextIInv
<1>3. QED
  BY <1>1, <1>2, PTL DEF Spec

\* The types of the rows, the workers and the counters, and the queue: every
\* row that waits for a worker has exactly one place in the line
\* (store/outbox.go: ORDER BY available_at).
THEOREM OutboxTypes == Spec => []OutboxTypeOK
<1>1. IInv => OutboxTypeOK
  <2> SUFFICES ASSUME IInv PROVE OutboxTypeOK
    OBVIOUS
  <2>1. \A w \in Workers :
          Holds(w) => worker[w].at \in {"claimed", "loaded", "answered"}
                      /\ worker[w].n \in Notices /\ worker[w].attempt \in Nat \ {0}
    BY HoldsIff DEF IInv, Types
  <2>2. QED
    BY <2>1 DEF IInv, Types, RowTypes, FormTypes, CounterTypes, Lined, OutboxTypeOK
<1>2. QED
  BY <1>1, OutboxInvariant, PTL

\* A mail is given to the mail server a second time only after a fault that
\* the outbox cannot hide (RunNotificationOutbox: delivery is at least once).
THEOREM DuplicatesExcusedHolds == Spec => []DuplicatesExcused
<1>1. IInv => DuplicatesExcused
  <2> SUFFICES ASSUME IInv, NEW n \in Notices, copies[n] > 1, n \notin excused
               PROVE  FALSE
    BY DEF DuplicatesExcused
  <2>1. copies[n] \in 0..2
    BY DEF IInv, Types, CounterTypes
  <2>2. copies[n] > 0 => copies[n] = 1
    BY DEF IInv, Safe, Counted
  <2>3. QED
    BY <2>1, <2>2
<1>2. QED
  BY <1>1, OutboxInvariant, PTL

\* A row that was sent is never written again: not by a late worker, not by
\* a retry of what was given up, not by the same event queued again.
THEOREM SentIsFinalHolds == Spec => SentIsFinal
<1>1. IInv /\ [Next]_vars
        => [\A n \in Notices : rows[n].status = "sent" => rows'[n] = rows[n]]_vars
  <2> SUFFICES ASSUME IInv, Next, NEW n \in Notices, rows[n].status = "sent"
               PROVE  rows'[n] = rows[n]
    OBVIOUS
  <2>1. Types
    BY DEF IInv
  <2>2. ASSUME NEW k \in Notices, notifyAgentEmail(k) \/ notifyAdminRiskBlock(k)
        PROVE  rows'[n] = rows[n]
    <3>1. EnqueueNotification(k)
      BY <2>2 DEF notifyAgentEmail, notifyAdminRiskBlock
    <3>2. rows[k].status = "none" /\ \A i \in Notices \ {k} : rows'[i] = rows[i]
      BY <2>1, <3>1, EnqueueRows DEF Types, NoRow
    <3>3. QED
      BY <3>2
  <2>3. ASSUME NEW k \in Notices, LeaseEnds(k) PROVE rows'[n] = rows[n]
    BY <2>1, <2>3, LeaseEffect DEF Types
  <2>4. ASSUME NEW w \in Workers, ClaimNotification(w) PROVE rows'[n] = rows[n]
    <3>1. PICK k \in Notices :
            Claimable(k) /\ \A i \in Notices \ {k} : rows'[i] = rows[i]
      BY <2>1, <2>4, ClaimEffect DEF Types
    <3>2. QED
      BY <3>1 DEF Claimable
  <2>5. ASSUME NEW w \in Workers, RecordOutcome(w) PROVE rows'[n] = rows[n]
    <3>1. /\ worker[w].at = "answered"
          /\ FinishNotification(w, Outcome(worker[w]))
          /\ Outcome(worker[w]) \in {"sent", "dead", "retry"}
      BY <2>5 DEF RecordOutcome, Outcome
    <3>2. \/ /\ rows[worker[w].n].status = "sending"
             /\ \A i \in Notices \ {worker[w].n} : rows'[i] = rows[i]
          \/ UNCHANGED rows
      BY <2>1, <3>1, FinishEffect DEF Types
    <3>3. QED
      BY <3>2
  <2>6. ASSUME RetryDeadNotifications PROVE rows'[n] = rows[n]
    BY <2>1, <2>6, RetryDeadEffect DEF Types
  <2>7. ASSUME NEW k \in Notices, BackoffEnds(k) PROVE rows'[n] = rows[n]
    BY <2>7 DEF BackoffEnds
  <2>8. ASSUME NEW w \in Workers,
               \/ LoadRuntime(w)
               \/ \E taken, error \in BOOLEAN : deliverEmail(w, taken, error)
               \/ LoseOutcome(w) \/ Stop(w) \/ StartNotificationWorker(w)
        PROVE  rows'[n] = rows[n]
    BY <2>8 DEF LoadRuntime, deliverEmail, LoseOutcome, Stop,
                StartNotificationWorker, database
  <2>9. ASSUME NEW a \in Admins,
               \/ ReadEmailSettings(a)
               \/ \E on \in BOOLEAN, password \in Passwords :
                    UpdateEmailSettings(a, on, password)
        PROVE  rows'[n] = rows[n]
    BY <2>9 DEF ReadEmailSettings, UpdateEmailSettings, database
  <2>10. QED
    BY <2>2, <2>3, <2>4, <2>5, <2>6, <2>7, <2>8, <2>9 DEF Next, Work
<1>2. QED
  BY <1>1, OutboxInvariant, PTL DEF Spec, SentIsFinal

-----------------------------------------------------------------------------
(* The outbox keeps the promise of Delivery, step by step *)

MailOf == [n \in Notices |-> Mail(n)]
Accepted == {n \in Notices : copies[n] > 0}

LEMMA MailIs ==
    ASSUME RowTypes, NEW n \in Notices
    PROVE  /\ Mail(n) \in {"none", "queued", "sent", "dead"}
           /\ Mail(n) = "none" <=> rows[n].status = "none"
           /\ Mail(n) = "queued" <=> rows[n].status \in {"pending", "retry", "sending"}
           /\ Mail(n) = "sent" <=> rows[n].status = "sent"
           /\ Mail(n) = "dead" <=> rows[n].status = "dead"
BY RowCases DEF Mail, Queued

\* A step that changes one mail, or none.
LEMMA MailChanges ==
    ASSUME NEW k \in Notices, \A n \in Notices \ {k} : Mail(n)' = Mail(n)
    PROVE  MailOf' = [MailOf EXCEPT ![k] = Mail(k)']
BY DEF MailOf

LEMMA MailSame ==
    ASSUME \A n \in Notices : Mail(n)' = Mail(n)
    PROVE  MailOf' = MailOf
BY DEF MailOf

LEMMA SameRowSameMail ==
    ASSUME NEW n \in Notices, rows'[n] = rows[n]
    PROVE  Mail(n)' = Mail(n)
BY DEF Mail, Queued

LEMMA DeliveryInit == Init => Promise!Init
<1> SUFFICES ASSUME Init PROVE Promise!Init
  OBVIOUS
<1>1. \A n \in Notices : Mail(n) = "none"
  BY DEF Init, Mail, Queued, NoRow
<1>2. {n \in Notices : copies[n] > 0} = {}
  BY DEF Init
<1>3. QED
  BY <1>1, <1>2 DEF Promise!Init

\* Each step of the outbox is one that Delivery allows, or none of its.
LEMMA DeliveryStep == IInv /\ [Next]_vars => [Promise!Next]_(Promise!vars)
<1> SUFFICES ASSUME IInv, [Next]_vars
             PROVE  Promise!Next \/ UNCHANGED <<MailOf, Accepted>>
  BY DEF Promise!vars, MailOf, Accepted
<1>0. Types /\ RowTypes /\ WorkerTypes /\ Safe
  BY DEF IInv, Types
<1>1. ASSUME NEW n \in Notices, notifyAgentEmail(n) \/ notifyAdminRiskBlock(n)
      PROVE  Promise!Next
  <2>1. EnqueueNotification(n)
    BY <1>1 DEF notifyAgentEmail, notifyAdminRiskBlock
  <2>a. UNCHANGED copies
    BY <2>1 DEF EnqueueNotification, history
  <2>2. /\ rows[n].status = "none" /\ rows'[n].status = "pending"
        /\ \A k \in Notices \ {n} : rows'[k] = rows[k]
    BY <1>0, <2>1, EnqueueRows DEF NoRow
  <2>3. Mail(n) = "none" /\ Mail(n)' = "queued"
    BY <2>2 DEF Mail, Queued
  <2>4. MailOf' = [MailOf EXCEPT ![n] = "queued"]
    BY <2>2, <2>3, MailChanges, SameRowSameMail
  <2>5. Promise!Queue(n)
    BY <2>a, <2>3, <2>4 DEF Promise!Queue, MailOf
  <2>6. QED
    BY <2>5 DEF Promise!Next
<1>2. ASSUME NEW n \in Notices, LeaseEnds(n) PROVE UNCHANGED <<MailOf, Accepted>>
  <2>1. /\ rows[n].status = "sending" /\ rows'[n].status = "sending"
        /\ \A k \in Notices \ {n} : rows'[k] = rows[k]
        /\ UNCHANGED copies
    BY <1>0, <1>2, LeaseEffect DEF LeaseEnds
  <2>2. Mail(n)' = Mail(n)
    BY <2>1 DEF Mail, Queued
  <2>3. QED
    BY <2>1, <2>2, MailSame, SameRowSameMail DEF Accepted
<1>3. ASSUME NEW w \in Workers, ClaimNotification(w)
      PROVE  UNCHANGED <<MailOf, Accepted>>
  <2>1. PICK k \in Notices :
          /\ Claimable(k) /\ rows'[k].status = "sending"
          /\ \A n \in Notices \ {k} : rows'[n] = rows[n]
          /\ UNCHANGED copies
    BY <1>0, <1>3, ClaimEffect DEF Types, history
  <2>2. Mail(k)' = Mail(k)
    BY <2>1 DEF Mail, Queued, Claimable
  <2>3. QED
    BY <2>1, <2>2, MailSame, SameRowSameMail DEF Accepted
<1>4. ASSUME NEW w \in Workers, NEW taken \in BOOLEAN, NEW error \in BOOLEAN,
             deliverEmail(w, taken, error)
      PROVE  Promise!Next \/ UNCHANGED <<MailOf, Accepted>>
  <2>k. PICK k \in Notices : k = worker[w].n
    BY <1>0, <1>4, DeliverEffect DEF Types
  <2>1. /\ Holds(w)
        /\ copies'[k] = IF taken /\ copies[k] < 2
                        THEN copies[k] + 1 ELSE copies[k]
        /\ \A n \in Notices \ {k} : copies'[n] = copies[n]
        /\ UNCHANGED rows
    BY <1>0, <1>4, <2>k, DeliverEffect DEF Types, database
  <2>2. MailOf' = MailOf
    BY <2>1, MailSame, SameRowSameMail
  <2>3. rows[k].status # "none" /\ Mail(k) # "none"
    BY <1>0, <2>1, <2>k, MailIs DEF Safe, Known
  <2>4. copies[k] \in 0..2
    BY <1>0 DEF Types, CounterTypes
  <2>5. CASE copies'[k] = copies[k]
    BY <2>1, <2>2, <2>5 DEF Accepted
  <2>6. CASE copies'[k] # copies[k]
    <3>1. copies'[k] > 0
      BY <2>1, <2>4, <2>6
    <3>2. Accepted' = Accepted \cup {k}
      BY <2>1, <3>1 DEF Accepted
    <3>3. Promise!Accept(k)
      BY <2>2, <2>3, <3>2 DEF Promise!Accept, MailOf, Accepted
    <3>4. QED
      BY <3>3 DEF Promise!Next
  <2>7. QED
    BY <2>5, <2>6
<1>5. ASSUME NEW w \in Workers, RecordOutcome(w)
      PROVE  Promise!Next \/ UNCHANGED <<MailOf, Accepted>>
  <2>1. /\ worker[w].at = "answered" /\ Holds(w)
        /\ FinishNotification(w, Outcome(worker[w]))
        /\ Outcome(worker[w]) \in {"sent", "dead", "retry"}
        /\ Outcome(worker[w]) = "sent" <=> Answered(w)
        /\ UNCHANGED copies
    BY <1>5 DEF RecordOutcome, Outcome, Answered, Holds, history
  <2>k. PICK k \in Notices : k = worker[w].n
    BY <1>0, <2>1, HoldsIff
  <2>2. Accepted' = Accepted
    BY <2>1 DEF Accepted
  <2>3. CASE UNCHANGED rows
    BY <2>2, <2>3, MailSame, SameRowSameMail
  <2>4. CASE /\ rows[k].status = "sending" /\ RowTypes'
             /\ rows'[k].status = Outcome(worker[w])
             /\ \A n \in Notices \ {k} : rows'[n] = rows[n]
    <3>1. Mail(k) = "queued"
      BY <2>4 DEF Mail, Queued
    <3>2. MailOf' = [MailOf EXCEPT ![k] = Mail(k)']
      BY <2>4, MailChanges, SameRowSameMail
    <3>3. CASE Outcome(worker[w]) = "sent"
      <4>1. Mail(k)' = "sent"
        BY <2>4, <3>3 DEF Mail, Queued
      <4>2. k \in Accepted
        BY <1>0, <2>1, <2>k, <3>3 DEF Safe, Witnessed, Accepted
      <4>3. Promise!Complete(k)
        BY <2>2, <3>1, <3>2, <4>1, <4>2 DEF Promise!Complete, MailOf, Accepted
      <4>4. QED
        BY <4>3 DEF Promise!Next
    <3>4. CASE Outcome(worker[w]) = "dead"
      <4>1. Mail(k)' = "dead"
        BY <2>4, <3>4 DEF Mail, Queued
      <4>2. Promise!GiveUp(k)
        BY <2>2, <3>1, <3>2, <4>1 DEF Promise!GiveUp, MailOf, Accepted
      <4>3. QED
        BY <4>2 DEF Promise!Next
    <3>5. CASE Outcome(worker[w]) = "retry"
      <4>1. Mail(k)' = Mail(k)
        BY <2>4, <3>1, <3>5 DEF Mail, Queued
      <4>2. QED
        BY <2>2, <2>4, <4>1, MailSame, SameRowSameMail
    <3>6. QED
      BY <2>1, <3>3, <3>4, <3>5
  <2>5. QED
    BY <1>0, <2>1, <2>k, <2>3, <2>4, FinishEffect
<1>6. ASSUME RetryDeadNotifications PROVE Promise!Next
  <2>1. /\ \A n \in Notices :
             IF rows[n].status = "dead"
             THEN rows'[n].status = "retry" /\ rows[n] # NoRow
             ELSE rows'[n] = rows[n]
        /\ UNCHANGED copies
    BY <1>0, <1>6, RetryDeadEffect DEF RetryDeadNotifications
  <2>2. ASSUME NEW n \in Notices
        PROVE  Mail(n)' = IF Mail(n) = "dead" THEN "queued" ELSE Mail(n)
    <3>1. CASE rows[n].status = "dead"
      <4>1. Mail(n) = "dead"
        BY <1>0, <3>1, MailIs
      <4>2. Mail(n)' = "queued"
        BY <2>1, <3>1 DEF Mail, Queued
      <4>3. QED
        BY <4>1, <4>2
    <3>2. CASE rows[n].status # "dead"
      <4>1. Mail(n) # "dead"
        BY <1>0, <3>2, MailIs
      <4>2. Mail(n)' = Mail(n)
        BY <2>1, <3>2, SameRowSameMail
      <4>3. QED
        BY <4>1, <4>2
    <3>3. QED
      BY <3>1, <3>2
  <2>3. MailOf' = [n \in Notices |->
                     IF MailOf[n] = "dead" THEN "queued" ELSE MailOf[n]]
    BY <2>2 DEF MailOf
  <2>4. Promise!Revive
    BY <2>1, <2>3 DEF Promise!Revive, MailOf, Accepted
  <2>5. QED
    BY <2>4 DEF Promise!Next
<1>7. CASE UNCHANGED <<rows, copies>>
  BY <1>7, MailSame, SameRowSameMail DEF Accepted
<1>8. ASSUME NEW w \in Workers,
             LoadRuntime(w) \/ LoseOutcome(w) \/ Stop(w) \/ StartNotificationWorker(w)
      PROVE  UNCHANGED <<rows, copies>>
  BY <1>8 DEF LoadRuntime, LoseOutcome, Stop, StartNotificationWorker,
              database, history
<1>9. ASSUME NEW a \in Admins,
             \/ ReadEmailSettings(a)
             \/ \E on \in BOOLEAN, password \in Passwords :
                  UpdateEmailSettings(a, on, password)
      PROVE  UNCHANGED <<rows, copies>>
  BY <1>9 DEF ReadEmailSettings, UpdateEmailSettings, database, history
<1>10. ASSUME NEW n \in Notices, BackoffEnds(n) PROVE UNCHANGED <<rows, copies>>
  BY <1>10 DEF BackoffEnds, history
<1>11. ASSUME UNCHANGED vars PROVE UNCHANGED <<rows, copies>>
  BY <1>11 DEF vars
<1>12. QED
  BY <1>1, <1>2, <1>3, <1>4, <1>5, <1>6, <1>7, <1>8, <1>9, <1>10, <1>11
     DEF Next, Work

\* The outbox implements Delivery as far as its steps go: no notification is
\* called sent that the mail server has not taken, and what is settled stays
\* settled until an administrator has it tried again.  That each one is
\* settled in the end is a matter of fairness.
THEOREM DeliverySafe == Spec => Promise!Init /\ [][Promise!Next]_(Promise!vars)
<1>1. Init => Promise!Init
  BY DeliveryInit
<1>2. IInv /\ [Next]_vars => [Promise!Next]_(Promise!vars)
  BY DeliveryStep
<1>3. QED
  BY <1>1, <1>2, OutboxInvariant, PTL DEF Spec
=============================================================================
