---------------------------- MODULE EntryLimits ----------------------------
(***************************************************************************)
(* The two counters before a login: withClientFailureLock refuses an       *)
(* address after too many failures, withRateLimit after too many requests. *)
(* Both count in windows that begin with the first event, in maps that     *)
(* drop what has run out once they are large.  Requests run at once: many  *)
(* may have passed before the first of them fails.                         *)
(***************************************************************************)
EXTENDS Integers, FiniteSets, Functions

CONSTANTS
    Addresses,      \* client addresses
    Entrants,         \* requests in flight
    Limit,          \* requests in a window
    Threshold,      \* failures in a window
    Window,         \* length of both windows
    CleanAt,        \* entries from which a map is cleaned (4096)
    MaxTicks        \* bound on the clock

ASSUME EntryLimitsAssumption ==
    /\ Limit \in Nat \ {0} /\ Threshold \in Nat \ {0}
    /\ Window \in Nat \ {0} /\ CleanAt \in Nat /\ MaxTicks \in Nat
    /\ IsFiniteSet(Entrants) /\ Entrants # {}

VARIABLES
    tick,
    requested,   \* fixedWindowLimiter.entries
    failed,      \* failureLockout.entries
    entering,    \* request -> where it is, and from where it comes
    passes,      \* history: address -> tick -> requests let through
    failures     \* history: address -> tick -> failures

limitVars == <<tick, requested, failed, entering, passes, failures>>

NoEntry == [startedAt |-> -1, count |-> 0]
Outside == [at |-> "outside"]

\* Mutant: a window that ends a tick early.
ExpiredEarly(e) == e = NoEntry \/ tick - e.startedAt >= Window - 1

Expired(e) == e = NoEntry \/ tick - e.startedAt >= Window

\* Mutant: a full map is emptied.
CleanAll(entries, a) ==
    IF Cardinality({b \in Addresses : entries[b] # NoEntry}) < CleanAt THEN entries
    ELSE [b \in Addresses |-> IF b = a THEN entries[b] ELSE NoEntry]

\* cleanup, after a's window has begun.
CleanUp(entries, a) ==
    IF Cardinality({b \in Addresses : entries[b] # NoEntry}) < CleanAt THEN entries
    ELSE [b \in Addresses |-> IF Expired(entries[b]) THEN NoEntry ELSE entries[b]]

\* Recorded: Allow of the limiter, and Fail.
Recorded(entries, a) ==
    IF Expired(entries[a])
    THEN CleanUp([entries EXCEPT ![a] = [startedAt |-> tick, count |-> 1]], a)
    ELSE [entries EXCEPT ![a].count = @ + 1]

Below(entries, a, bound) == Expired(entries[a]) \/ entries[a].count < bound

-----------------------------------------------------------------------------
\* withClientFailureLock
FailureLock(r, a) ==
    /\ entering[r] = Outside
    /\ Below(failed, a, Threshold)
    /\ entering' = [entering EXCEPT ![r] = [at |-> "unlocked", from |-> a]]
    /\ UNCHANGED <<tick, requested, failed, passes, failures>>

\* withRateLimit
RateLimit(r) ==
    LET a == entering[r].from
    IN  /\ entering[r].at = "unlocked"
        /\ IF Below(requested, a, Limit)
           THEN /\ requested' = Recorded(requested, a)
                /\ entering' = [entering EXCEPT ![r].at = "handler"]
                /\ passes' = [passes EXCEPT ![a][tick] = @ + 1]
           ELSE /\ entering' = [entering EXCEPT ![r] = Outside]
                /\ UNCHANGED <<requested, passes>>
        /\ UNCHANGED <<tick, failed, failures>>

\* recordClientFailure: credentials were wrong.
RecordFailure(r) ==
    LET a == entering[r].from
    IN  /\ entering[r].at = "handler"
        /\ failed' = Recorded(failed, a)
        /\ failures' = [failures EXCEPT ![a][tick] = @ + 1]
        /\ entering' = [entering EXCEPT ![r] = Outside]
        /\ UNCHANGED <<tick, requested, passes>>

Succeeds(r) ==
    /\ entering[r].at = "handler"
    /\ entering' = [entering EXCEPT ![r] = Outside]
    /\ UNCHANGED <<tick, requested, failed, passes, failures>>

Tick ==
    /\ tick < MaxTicks
    /\ tick' = tick + 1
    /\ UNCHANGED <<requested, failed, entering, passes, failures>>

-----------------------------------------------------------------------------
LimitInit ==
    /\ tick = 0
    /\ requested = [a \in Addresses |-> NoEntry]
    /\ failed = [a \in Addresses |-> NoEntry]
    /\ entering = [r \in Entrants |-> Outside]
    /\ passes = [a \in Addresses |-> [t \in 0 .. MaxTicks |-> 0]]
    /\ failures = [a \in Addresses |-> [t \in 0 .. MaxTicks |-> 0]]

LimitNext ==
    \/ \E r \in Entrants :
         \/ \E a \in Addresses : FailureLock(r, a)
         \/ RateLimit(r) \/ RecordFailure(r) \/ Succeeds(r)
    \/ Tick

LimitSpec == LimitInit /\ [][LimitNext]_limitVars

-----------------------------------------------------------------------------
\* Events of a window-long interval that begins at t.
InWindow(events, t) ==
    SumFunctionOnSet(events, {u \in t .. t + Window - 1 : u <= MaxTicks})

\* Windows begin anywhere, so an interval of the same length may touch two of them:
\* no address gets more than 2 * Limit - 1 requests into it, and the requests that
\* were already inside when the lockout began add one failure each to the Threshold
\* (fixedWindowLimiter, failureLockout and their cleanup).
EntrySound ==
    \A a \in Addresses, t \in 0 .. MaxTicks :
        /\ InWindow(passes[a], t) <= 2 * Limit - 1
        /\ InWindow(failures[a], t) <= 2 * (Threshold - 1 + Cardinality(Entrants)) - 1
=============================================================================
