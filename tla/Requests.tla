------------------------------ MODULE Requests ------------------------------
(***************************************************************************)
(* Signed requests of installations and metered consumption.  A request is *)
(* authenticated in one step that reserves its nonce and commits; what it  *)
(* asks for, here the consumption of units of a metered licence, is a      *)
(* transaction of its own.  The network may deliver a message at any time, *)
(* again and again; the server may stop between the two transactions, and  *)
(* a client that has no answer signs a new message with the same           *)
(* idempotency key.                                                        *)
(***************************************************************************)
EXTENDS Integers, FiniteSets, Functions

CONSTANTS
    Workers,      \* requests the server handles at a time
    Nonces,       \* (installation key, nonce) pairs
    Keys,         \* idempotency keys
    Messages,     \* signed messages: nonce, stamp, key, units
    Window,       \* how far a timestamp may be from the server's clock
    NonceTTL,     \* how long a nonce is kept
    MaxWait,      \* the time from the timestamp check to the reservation for
                  \* which NonceTTL allows; nothing in the code bounds it
    CleanLimit,   \* expired nonces deleted by one request
    Quota,        \* Terms.UsageQuota
    MonthLength,
    MaxTime       \* bound on the clock

Nil == -1

ASSUME RequestsAssumption ==
    /\ Messages \subseteq
         [nonce : Nonces, stamp : Nat, key : Keys, units : Int]
    /\ Nil \notin Nonces
    /\ Window \in Nat /\ MaxWait \in Nat /\ NonceTTL \in Nat
    /\ NonceTTL >= 2 * Window + MaxWait
    /\ CleanLimit \in Nat /\ Quota \in Nat
    /\ MonthLength \in Nat \ {0} /\ MaxTime \in Nat

VARIABLES
    now,
    expiry,       \* when a reserved nonce expires; Nil without a row
    pc, msg,      \* progress and message of a worker
    checked,      \* when a worker, until it reserves, has checked the timestamp
    lic,          \* UsagePeriod ("monthly" or not), UsedUnits and its period
    receipts,     \* usage receipts
    admitted      \* history: the messages that have passed authentication

vars == <<now, expiry, pc, msg, checked, lic, receipts, admitted>>
worker == <<pc, msg, checked>>
usage == <<lic, receipts>>

NoMessage == [nonce |-> Nil]
Lifetime == 0
\* Months count from 1, so that none is the lifetime period.
Period(monthly) == IF monthly THEN 1 + now \div MonthLength ELSE Lifetime
Receipt == [key : Keys, units : Nat, period : Nat]
License == [monthly : BOOLEAN, period : Nat \cup {Nil}, used : Nat]

-----------------------------------------------------------------------------
(* Authentication *)

\* A message arrives, for the first time or again, and its timestamp is
\* compared with the clock.
VerifyInstallationRequest(w, m) ==
    /\ pc[w] = "idle"
    /\ now - m.stamp <= Window /\ m.stamp - now <= Window
    /\ pc' = [pc EXCEPT ![w] = "checked"]
    /\ msg' = [msg EXCEPT ![w] = m]
    /\ checked' = [checked EXCEPT ![w] = now]
    /\ UNCHANGED <<now, expiry, usage, admitted>>

Expired == {n \in Nonces : expiry[n] # Nil /\ expiry[n] < now}

\* Mutant: the nonce is kept as long as its timestamp is accepted.
ReserveShort(w) ==
    LET m == msg[w]
    IN  /\ pc[w] = "checked"
        /\ expiry[m.nonce] = Nil
        /\ expiry' = [n \in Nonces |->
                        IF n = m.nonce THEN now + Window
                        ELSE IF n \in Expired THEN Nil ELSE expiry[n]]
        /\ admitted' = admitted \cup {m}
        /\ pc' = [pc EXCEPT ![w] = "admitted"]
        /\ checked' = [checked EXCEPT ![w] = 0]
        /\ UNCHANGED <<now, msg, usage>>

\* The transaction of authenticateInstallation: nonces that are over are
\* deleted on the way, at most CleanLimit of them.  It may have waited for a
\* connection to the database as long as it takes.
Reserve(w) ==
    LET m == msg[w]
    IN  /\ pc[w] = "checked"
        /\ expiry[m.nonce] = Nil
        /\ \E gone \in SUBSET Expired :
             /\ Cardinality(gone) <= CleanLimit
             /\ gone # Expired => Cardinality(gone) = CleanLimit
             /\ expiry' = [n \in Nonces |->
                             IF n = m.nonce THEN now + NonceTTL
                             ELSE IF n \in gone THEN Nil ELSE expiry[n]]
        /\ admitted' = admitted \cup {m}
        /\ pc' = [pc EXCEPT ![w] = "admitted"]
        /\ checked' = [checked EXCEPT ![w] = 0]
        /\ UNCHANGED <<now, msg, usage>>

-----------------------------------------------------------------------------
(* consume *)

\* Mutant: a receipt is looked up by the whole request.
ReceiptsOfRequest(m) ==
    {r \in receipts : r.key = m.key /\ r.units = m.units}

ReceiptsOf(m) == {r \in receipts : r.key = m.key}

\* Mutant: the units of the last period are not reset.
UsedBefore == lic.used

\* The units used in the current period.
UsedNow == IF lic.period = Period(lic.monthly) THEN lic.used ELSE 0

\* Mutant: the licence is saved before the units are added.
ChargeUnsaved(w) ==
    LET m == msg[w]
    IN  /\ ReceiptsOf(m) = {}
        /\ m.units <= Quota - UsedNow
        /\ lic' = [lic EXCEPT !.period = Period(lic.monthly),
                              !.used = UsedNow]
        /\ receipts' = receipts \cup
             {[key |-> m.key, units |-> m.units,
               period |-> Period(lic.monthly)]}

Charge(w) ==
    LET m == msg[w]
    IN  /\ ReceiptsOf(m) = {}
        /\ m.units <= Quota - UsedNow
        /\ lic' = [lic EXCEPT !.period = Period(lic.monthly),
                              !.used = UsedNow + m.units]
        /\ receipts' = receipts \cup
             {[key |-> m.key, units |-> m.units,
               period |-> Period(lic.monthly)]}

\* The receipt of an earlier request answers it.
Repeat(w) ==
    /\ \E r \in ReceiptsOf(msg[w]) : r.units = msg[w].units
    /\ UNCHANGED usage

Idle(w) ==
    /\ pc' = [pc EXCEPT ![w] = "idle"]
    /\ msg' = [msg EXCEPT ![w] = NoMessage]
    /\ checked' = [checked EXCEPT ![w] = 0]
    /\ UNCHANGED <<now, expiry, admitted>>

\* The business transaction of Verify, with the "consume" action.
Consume(w) ==
    /\ pc[w] = "admitted"
    /\ msg[w].units > 0
    /\ Charge(w) \/ Repeat(w)
    /\ Idle(w)

\* A replayed nonce, a refusal of the licence, no quota, a conflict of keys,
\* a timeout, or the end of the server: nothing is written.
Fail(w) ==
    /\ pc[w] # "idle"
    /\ Idle(w)
    /\ UNCHANGED usage

Tick ==
    /\ now < MaxTime
    /\ now' = now + 1
    /\ UNCHANGED <<expiry, worker, usage, admitted>>

-----------------------------------------------------------------------------

Init ==
    /\ now = 0
    /\ expiry = [n \in Nonces |-> Nil]
    /\ pc = [w \in Workers |-> "idle"]
    /\ msg = [w \in Workers |-> NoMessage]
    /\ checked = [w \in Workers |-> 0]
    /\ lic \in [monthly : BOOLEAN, period : {Nil}, used : {0}]
    /\ receipts = {}
    /\ admitted = {}

Next ==
    \/ Tick
    \/ \E w \in Workers :
         \/ \E m \in Messages : VerifyInstallationRequest(w, m)
         \/ Reserve(w)
         \/ Consume(w)
         \/ Fail(w)

Spec == Init /\ [][Next]_vars

-----------------------------------------------------------------------------
(* Properties *)

\* Every column has its type; in particular the units used never become
\* negative, and a worker has a message exactly while it handles a request.
TypeOK ==
    /\ now \in Nat
    /\ expiry \in [Nonces -> Nat \cup {Nil}]
    /\ pc \in [Workers -> {"idle", "checked", "admitted"}]
    /\ msg \in [Workers -> Messages \cup {NoMessage}]
    /\ \A w \in Workers : pc[w] = "idle" <=> msg[w] = NoMessage
    /\ checked \in [Workers -> Nat]
    /\ lic \in License
    /\ receipts \subseteq Receipt
    /\ admitted \subseteq Messages

Fresh ==
    \A w \in Workers :
      pc[w] # "admitted" /\ pc'[w] = "admitted" /\ now - checked[w] <= MaxWait
        => msg[w] \notin admitted

\* No copy of a signed message passes authentication after it has passed once,
\* however often and however late it is delivered, whatever becomes of the
\* operation it asks for, and although nonces are deleted again; except a copy
\* that was accepted by its timestamp and then waited for the database for more
\* than MaxWait, when the nonce may be over (authenticateInstallation).
AdmittedOnce == [][Fresh]_vars

\* An idempotency key is charged once: also when the server stops after the
\* reservation of the nonce and the client signs its request anew, when two
\* of its messages are in flight, and when a later one asks for other units.
ChargedOnce ==
    \A r, s \in receipts : r.key = s.key => r = s

Charged(p) ==
    SumFunction([r \in {r \in receipts : r.period = p} |-> r.units])

\* In no month, or over the whole life of the licence, are more units charged
\* than the plan has.
QuotaHeld == \A r \in receipts : Charged(r.period) <= Quota

\* RemainingUnits, as the tokens show it, is what the receipts leave of the
\* current period, whether anything has been consumed in it or not.
RemainingUnits ==
    IF lic.monthly /\ lic.period # Period(TRUE) THEN Quota
    ELSE Quota - lic.used

RemainingExact == RemainingUnits = Quota - Charged(Period(lic.monthly))
=============================================================================
