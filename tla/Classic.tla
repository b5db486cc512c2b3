------------------------------- MODULE Classic -------------------------------
(***************************************************************************)
(* One licence of the first engine (service.go, installations.go,          *)
(* customers.go): activation and kicking, installations, concurrent and    *)
(* borrowed seats, renewal cards, changes of bindings, claim tickets,      *)
(* owners, revocation and restoration.  Every transaction first locks the  *)
(* licence's row, so one action is one transaction; only releasing a seat  *)
(* takes two.  The terms are the snapshot taken when the card was made     *)
(* (version 2) and never change.  Refused calls change nothing.            *)
(***************************************************************************)
EXTENDS Integers, Sequences, FiniteSets, Functions

CONSTANTS
    Values,           \* binding values, patterns included
    Covered,          \* what a client may present under a registered value
    Instances, DeviceOf, Sessions, Users, Nobody,
    RenewalCards, Tickets, ChangeIds,
    MaxBindings, MaxDeployments, MaxDevices, MaxSeats, ChangeLimit,
    SeatLease, OfflineGrace, ExpireGrace, Term, RenewTerm,
    MaxRows, MaxClock \* bounds: bindings ever made, days

ASSUME ClassicAssumption ==
    /\ MaxBindings \in Nat \ {0} /\ Nobody \notin Users \cup Instances \cup Values
    /\ {MaxDeployments, MaxDevices, MaxSeats, ChangeLimit, SeatLease, OfflineGrace,
        ExpireGrace, Term, RenewTerm, MaxRows, MaxClock} \subseteq Nat

VARIABLES
    day,
    card,        \* the card that creates the licence
    lic,         \* licenses, license_entitlements, license_owners
    rows,        \* license_bindings in the order of their creation
    installs,    \* license_installations
    seats,       \* license_seat_leases, by instance and session
    changes,     \* binding_changes: their number and requests
    renewal,     \* status of the renewal cards
    tickets,     \* license_claim_tickets
    releasing,   \* clients between the two transactions of ReleaseSeat
    lent,        \* history: end of the offline token of a borrowed seat
    spent,       \* history: how often a renewal card extended the licence
    given        \* history: users a claim ticket gave the licence to

licence == <<lic, card>>
history == <<lent, spent, given>>
classicVars == <<day, card, lic, rows, installs, seats, changes, renewal, tickets,
                 releasing, lent, spent, given>>

Places == Instances \X Sessions
NoInstall == [row |-> 0, status |-> "none"]
NoSeat == [until |-> 0, borrowed |-> FALSE]

Live(bs) == {r \in DOMAIN bs : bs[r].status = "active"}

\* ActiveBindingByHash and authorizedBinding; 0 when there is none.
Exact(v) ==
    LET R == {r \in Live(rows) : rows[r].value = v}
    IN IF R = {} THEN 0 ELSE CHOOSE r \in R : TRUE
Authorized(v) ==
    LET R == {r \in Live(rows) : v \in Covered[rows[r].value]}
    IN IF R = {} THEN 0 ELSE CHOOSE r \in R : \A q \in R : r <= q

Within(l) == l.status = "active" /\ day < l.until + ExpireGrace

Verified(v, i) ==
    /\ Within(lic)
    /\ installs[i].status = "active" /\ installs[i].row = Authorized(v)

\* Installations that count: those of active bindings.
Counted(ins, bs) ==
    {i \in Instances : ins[i].status = "active" /\ ins[i].row \in Live(bs)}

MayRegister(i, r, bs) ==
    IF installs[i].status = "none"
    THEN LET C == Counted(installs, bs)
             D == {DeviceOf[k] : k \in C}
         IN /\ Cardinality(C) < MaxDeployments
            /\ MaxDevices > 0 => DeviceOf[i] \in D \/ Cardinality(D) < MaxDevices
    ELSE installs[i] = [row |-> r, status |-> "active"]

\* A customer may claim a card without an installation.
RegisterInstallation(i, r, bs) ==
    IF i = Nobody THEN UNCHANGED installs
    ELSE /\ MayRegister(i, r, bs)
         /\ installs' = [installs EXCEPT ![i] = [row |-> r, status |-> "active"]]

\* Mutant: the limit is left to the other callers.
ChangeAllowed == ChangeLimit > 0 /\ Within(lic)

GuardBindingChange ==
    ChangeLimit > 0 /\ changes.count < ChangeLimit /\ Within(lic)

AddBindingChange == [changes EXCEPT !.count = @ + 1]

-----------------------------------------------------------------------------
(* Cards, bindings and installations *)

NewLicense(u) == [status |-> "active", until |-> day + Term, owner |-> u]

\* A full licence refuses or, by the product's strategy at that time, kicks
\* the binding seen longest ago (any: the order of heartbeats is not kept).
Activate(v, i, u) ==
    /\ card \in {"unused", "activated"}
    /\ (i = Nobody) => (u # Nobody)
    /\ LET l == IF card = "unused" THEN NewLicense(u) ELSE lic
           row == [value |-> v, status |-> "active"]
       IN /\ Within(l) /\ (u # Nobody => l.owner = u)
          /\ lic' = l /\ card' = "activated"
          /\ \/ /\ Exact(v) # 0
                /\ RegisterInstallation(i, Exact(v), rows)
                /\ UNCHANGED <<rows, changes>>
             \/ /\ Exact(v) = 0 /\ Len(rows) < MaxRows
                /\ Cardinality(Live(rows)) < MaxBindings
                /\ rows' = Append(rows, row)
                /\ RegisterInstallation(i, Len(rows'), rows')
                /\ UNCHANGED changes
             \/ /\ Exact(v) = 0 /\ Len(rows) < MaxRows
                /\ Cardinality(Live(rows)) >= MaxBindings /\ GuardBindingChange
                /\ \E oldest \in Live(rows) :
                     rows' = Append([rows EXCEPT ![oldest].status = "kicked"], row)
                /\ changes' = AddBindingChange
                /\ RegisterInstallation(i, Len(rows'), rows')
    /\ UNCHANGED <<day, seats, renewal, tickets,
                   releasing, history>>

\* VoidCard, or another licence uses the card.
CardGone(k) ==
    /\ \/ /\ k = Nobody /\ card = "unused"
          /\ card' = "gone" /\ UNCHANGED renewal
       \/ /\ k # Nobody /\ renewal[k] = "unused"
          /\ renewal' = [renewal EXCEPT ![k] = "gone"] /\ UNCHANGED card
    /\ UNCHANGED <<day, lic, rows, installs, seats, changes, tickets,
                   releasing, history>>

\* Mutant: the card's status is not looked at again under its lock.
RenewAgain(k) == renewal[k] # "gone"

Renewable(k) == renewal[k] = "unused"

\* A retry with the consumed card returns the rights as they are.  Expired
\* licences may be renewed.
Renew(k, v, i, u) ==
    /\ lic.status = "active"
    /\ IF u # Nobody THEN lic.owner = u /\ Exact(v) # 0
       ELSE installs[i].status = "active" /\ installs[i].row = Authorized(v)
    /\ Renewable(k)
    /\ lic' = [lic EXCEPT !.until = (IF @ > day THEN @ ELSE day) + RenewTerm]
    /\ renewal' = [renewal EXCEPT ![k] = "used"]
    /\ spent' = [spent EXCEPT ![k] = @ + 1]
    /\ UNCHANGED <<day, card, rows, installs, seats, changes, tickets,
                   releasing, lent, given>>

Unbind(v, i) ==
    /\ installs[i].status = "active" /\ installs[i].row = Authorized(v)
    /\ installs[i].row # 0 /\ GuardBindingChange
    /\ rows' = [rows EXCEPT ![installs[i].row].status = "unbound"]
    /\ changes' = AddBindingChange
    /\ UNCHANGED <<day, installs, seats, renewal, tickets, licence, releasing, history>>

AdminUnbind(r) ==
    /\ r \in Live(rows)
    /\ rows' = [rows EXCEPT ![r].status = "unbound"]
    /\ UNCHANGED <<day, installs, seats, changes, renewal, tickets, licence, releasing,
                   history>>

\* The request is looked up before anything else; a retry changes nothing.
CustomerRebind(u, r, v, q) ==
    /\ lic.owner = u /\ u # Nobody /\ q \notin changes.done
    /\ r \in Live(rows) /\ rows[r].value # v /\ GuardBindingChange /\ Exact(v) = 0
    /\ rows' = [rows EXCEPT ![r].value = v]
    /\ changes' = [AddBindingChange EXCEPT !.done = @ \cup {q}]
    /\ UNCHANGED <<day, installs, seats, renewal, tickets, licence, releasing, history>>

\* Borrowed seats stay.
DisableInstallation(i, u) ==
    /\ installs[i].status = "active"
    /\ IF u = Nobody THEN UNCHANGED changes
       ELSE lic.owner = u /\ GuardBindingChange /\ changes' = AddBindingChange
    /\ installs' = [installs EXCEPT ![i].status = "disabled"]
    /\ seats' = [p \in Places |->
         IF p[1] = i /\ ~seats[p].borrowed THEN NoSeat ELSE seats[p]]
    /\ UNCHANGED <<day, rows, renewal, tickets, licence, releasing, history>>

RevokeLicense ==
    /\ lic.status = "active"
    /\ lic' = [lic EXCEPT !.status = "revoked"]
    /\ rows' = [r \in DOMAIN rows |->
         IF r \in Live(rows) THEN [rows[r] EXCEPT !.status = "revoked"] ELSE rows[r]]
    /\ UNCHANGED <<day, card, installs, seats, changes, renewal, tickets,
                   releasing, history>>

\* Mutant: every binding the licence ever had comes back.
RestoreEvery(b) == [b EXCEPT !.status = "active"]

RestoreBinding(b) ==
    IF b.status = "revoked" THEN [b EXCEPT !.status = "active"] ELSE b

RestoreLicense ==
    /\ lic.status = "revoked"
    /\ lic' = [lic EXCEPT !.status = "active"]
    /\ rows' = [r \in DOMAIN rows |-> RestoreBinding(rows[r])]
    /\ UNCHANGED <<day, card, installs, seats, changes, renewal, tickets,
                   releasing, history>>

-----------------------------------------------------------------------------
(* Seats *)

Held(p) == seats[p].until > day
TakenSeats == {p \in Places : Held(p)}

LeaseEnd(borrow) ==
    LET end == day + (IF borrow > 0 THEN borrow ELSE SeatLease)
        grace == lic.until + ExpireGrace
    IN IF grace < end THEN grace ELSE end

\* Mutant: a borrowed seat is leased anew like any other.
LeaseAnew(p) == Held(p)

\* A borrowed lease is returned as it is, with a token of the same end.
Extendable(p) == Held(p) /\ ~seats[p].borrowed

AcquireSeat(v, p, borrow) ==
    /\ Verified(v, p[1]) /\ MaxSeats > 0 /\ borrow <= OfflineGrace
    /\ Extendable(p) \/ (~Held(p) /\ Cardinality(TakenSeats) < MaxSeats)
    /\ seats' = [seats EXCEPT ![p] =
         [until |-> LeaseEnd(borrow),
          borrowed |-> borrow > 0 \/ (Held(p) /\ seats[p].borrowed)]]
    /\ lent' = IF borrow > 0 THEN [lent EXCEPT ![p] = LeaseEnd(borrow)] ELSE lent
    /\ UNCHANGED <<day, rows, installs, changes, renewal, tickets, licence, releasing,
                   spent, given>>

\* The first transaction only verifies (bound: one release at a time) ...
BeginRelease(v, p) ==
    /\ Verified(v, p[1]) /\ releasing = {}
    /\ releasing' = {p}
    /\ UNCHANGED <<day, rows, installs, seats, changes, renewal, tickets, licence, history>>

\* Mutant: whatever the session holds is deleted.
ReleaseAnything(p) == TRUE

Deletable(p) == ~seats[p].borrowed

\* ... and the second deletes without looking again, when the identifier of
\* the seat is still the current one.
ReleaseSeat(p, current) ==
    /\ p \in releasing
    /\ releasing' = {}
    /\ seats' = IF current /\ Deletable(p) THEN [seats EXCEPT ![p] = NoSeat] ELSE seats
    /\ UNCHANGED <<day, rows, installs, changes, renewal, tickets, licence, history>>

-----------------------------------------------------------------------------
(* Owners *)

CreateLicenseClaim(t, v, i) ==
    /\ tickets[t].state = "none" /\ Verified(v, i) /\ lic.owner = Nobody
    /\ tickets' = [tickets EXCEPT ![t].state = "open"]
    /\ UNCHANGED <<day, rows, installs, seats, changes, renewal, licence, releasing, history>>

\* The ticket's row is locked before it is read; also a revoked licence can
\* be claimed.
RedeemLicenseClaim(t, u) ==
    /\ tickets[t].state = "open" /\ tickets[t].by \in {Nobody, u}
    /\ lic.owner \in {Nobody, u}
    /\ lic' = [lic EXCEPT !.owner = u]
    /\ tickets' = [tickets EXCEPT ![t].by = u]
    /\ given' = [given EXCEPT ![t] = @ \cup {u}]
    /\ UNCHANGED <<day, card, rows, installs, seats, changes, renewal,
                   releasing, lent, spent>>

AssignOwner(u) ==
    /\ lic.status # "none" /\ lic.owner # u
    /\ lic' = [lic EXCEPT !.owner = u]
    /\ UNCHANGED <<day, card, rows, installs, seats, changes, renewal, tickets,
                   releasing, history>>

-----------------------------------------------------------------------------
\* Ten minutes.
TicketExpires(t) ==
    /\ tickets[t].state = "open"
    /\ tickets' = [tickets EXCEPT ![t].state = "expired"]
    /\ UNCHANGED <<day, rows, installs, seats, changes, renewal, licence, releasing, history>>

DayPasses ==
    /\ day < MaxClock /\ day' = day + 1
    /\ UNCHANGED <<rows, installs, seats, changes, renewal, tickets, licence, releasing,
                   history>>

ClassicInit ==
    /\ day = 0 /\ card = "unused"
    /\ lic = [status |-> "none", until |-> 0, owner |-> Nobody]
    /\ rows = <<>> /\ installs = [i \in Instances |-> NoInstall]
    /\ seats = [p \in Places |-> NoSeat]
    /\ changes = [count |-> 0, done |-> {}]
    /\ renewal = [k \in RenewalCards |-> "unused"]
    /\ tickets = [t \in Tickets |-> [state |-> "none", by |-> Nobody]]
    /\ releasing = {}
    /\ lent = [p \in Places |-> 0] /\ spent = [k \in RenewalCards |-> 0]
    /\ given = [t \in Tickets |-> {}]

ClassicNext ==
    \/ \E v \in Values, i \in Instances \cup {Nobody}, u \in Users \cup {Nobody} :
         Activate(v, i, u)
    \/ \E k \in RenewalCards \cup {Nobody} : CardGone(k)
    \/ \E k \in RenewalCards, v \in Values, i \in Instances, u \in Users \cup {Nobody} :
         Renew(k, v, i, u)
    \/ \E v \in Values, i \in Instances :
         \/ Unbind(v, i)
         \/ \E t \in Tickets : CreateLicenseClaim(t, v, i)
    \/ \E r \in DOMAIN rows :
         \/ AdminUnbind(r)
         \/ \E u \in Users, v \in Values, q \in ChangeIds : CustomerRebind(u, r, v, q)
    \/ \E i \in Instances, u \in Users \cup {Nobody} : DisableInstallation(i, u)
    \/ RevokeLicense \/ RestoreLicense
    \/ \E v \in Values, p \in Places :
         \/ BeginRelease(v, p)
         \/ \E borrow \in 0..OfflineGrace : AcquireSeat(v, p, borrow)
    \/ \E p \in Places, current \in BOOLEAN : ReleaseSeat(p, current)
    \/ \E u \in Users : AssignOwner(u) \/ \E t \in Tickets : RedeemLicenseClaim(t, u)
    \/ DayPasses
    \/ \E t \in Tickets : TicketExpires(t)

ClassicSpec == ClassicInit /\ [][ClassicNext]_classicVars

-----------------------------------------------------------------------------
(* Properties *)

\* Whatever is kicked, unbound, rebound, revoked and restored: the licence has
\* no more active bindings, counting installations, devices and held seats
\* than its terms allow (Activate, RestoreLicense, registerInstallationTx,
\* AcquireSeat).
WithinTerms ==
    LET C == Counted(installs, rows)
    IN /\ Cardinality(Live(rows)) <= MaxBindings
       /\ Cardinality(C) <= MaxDeployments
       /\ MaxDevices > 0 => Cardinality({DeviceOf[i] : i \in C}) <= MaxDevices
       /\ Cardinality(TakenSeats) <= MaxSeats

\* While the offline token of a borrowed seat is valid, its seat is not given
\* to anybody else, although releases act on an older check and installations
\* are disabled meanwhile (AcquireSeat, ReleaseSeat, DisableInstallation).
BorrowedKept ==
    \A p \in Places : day < lent[p] => seats[p].borrowed /\ seats[p].until >= lent[p]

\* Kicking, unbinding, rebinding and disabling together stay within the limit
\* of changes (platform-implementation.md:19), a renewal card extends once, and
\* a claim ticket gives the licence to one user.
OnceEach ==
    /\ changes.count <= ChangeLimit
    /\ \A k \in RenewalCards : spent[k] <= 1
    /\ \A t \in Tickets : Cardinality(given[t]) <= 1

ClassicSound == WithinTerms /\ BorrowedKept /\ OnceEach
=============================================================================
