------------------------------- MODULE Seats -------------------------------
(***************************************************************************)
(* The seats of one floating licence: check-out, heartbeat, release,       *)
(* offline borrowing, and every operation of the licensing core that takes *)
(* an installation out of service.                                         *)
(*                                                                         *)
(* Each business transaction of an application runs under the application  *)
(* row lock, so a handler's transaction is one atomic action here.  A      *)
(* request that is refused rolls its transaction back and is therefore no  *)
(* step of this module.  Time is counted in seconds from the issue of the  *)
(* licence.                                                                *)
(***************************************************************************)
EXTENDS Integers, FiniteSets

CONSTANTS
    Installations,   \* (public key, session) pairs that may run the product
    Keys, KeyOf,     \* installation public keys; the key of an installation
    Invites,         \* installation invitations
    MaxSeats,        \* Terms.MaxSeats, frozen in the licence
    Duration,        \* Terms.DurationDays
    Grace,           \* VerifyPolicy.SubscriptionGraceSeconds
    SeatLease,       \* VerifyPolicy.SeatLeaseSeconds
    TokenHorizon,    \* VerifyPolicy.JWTTTLSeconds + NetworkGraceSeconds
    BorrowLimits,    \* values VerifyPolicy.MaxBorrowSeconds may be given
    BorrowRequests,  \* values of ActivateInput.BorrowSeconds
    Renewals,        \* number of usage renewal cards sold for the licence
    MaxTime          \* bound on the clock

ASSUME SeatsAssumption ==
    /\ IsFiniteSet(Installations)
    /\ KeyOf \in [Installations -> Keys]
    /\ Keys \cap {"none", "open"} = {}
    /\ MaxSeats \in Nat \ {0}
    /\ Duration \in Nat \ {0}
    /\ Grace \in Nat
    /\ SeatLease \in Nat \ {0}
    /\ TokenHorizon \in Nat \ {0}
    /\ BorrowLimits \subseteq Nat
    /\ BorrowRequests \subseteq Nat
    /\ Renewals \in Nat
    /\ MaxTime \in Nat

VARIABLES
    now,     \* the server's clock
    app,     \* the application row: status and borrowing policy
    lic,     \* the licence row
    card,    \* status of the licence's activation card; "expired": RedeemUntil
             \* has passed
    inv,     \* the key each invitation has admitted, "open" before the first;
             \* "none" without one, or when it is over
    approved,\* the keys that have an approved installation request
    act,     \* the activation row of each installation
    grant,   \* latest expiry of an offline token signed for a borrowed seat
    shut     \* history: installations out of service for whose key no
             \* credential was left, and none has been issued since

vars == <<now, app, lic, card, inv, approved, act, grant, shut>>
credentials == <<card, inv, approved>>

Nil == -1                 \* SQL NULL in a time column
Time == Nat \cup {Nil}

AppStatuses == {"active", "closed"}     \* "closed": suspended or archived
LicenseStatuses == {"active", "suspended", "revoked", "expired"}

\* "none" stands for a row that does not exist; the other values combine
\* DeactivatedAt and DeactivationReason ("disabled": administrative,
\* customer_disabled; "released": client_release).
ActStates == {"none", "active", "released", "disabled"}

Application == [status : AppStatuses, maxBorrow : BorrowLimits]
LicenseRow == [status : LicenseStatuses, perpetual : BOOLEAN,
               activated : BOOLEAN, expires : Time, renewals : Nat]
\* Exactly the running licences with a term have an expiry.
License == {l \in LicenseRow :
              l.expires # Nil <=> l.activated /\ ~l.perpetual}
Activation == [state : ActStates, lease : Time, borrowed : BOOLEAN]

NoRow == [state |-> "none", lease |-> Nil, borrowed |-> FALSE]

-----------------------------------------------------------------------------
(* Licence terms *)

Earlier(s, t) == IF s < t THEN s ELSE t

\* A time limited by an optional deadline.
Cap(t, deadline) == IF deadline = Nil THEN t ELSE Earlier(t, deadline)

UsageDeadline(l) ==
    IF l.perpetual \/ l.expires = Nil THEN Nil ELSE l.expires + Grace

CheckUsable(a, l) ==
    /\ a.status = "active"
    /\ l.status = "active"
    /\ UsageDeadline(l) # Nil => now < UsageDeadline(l)

\* The clock of the licence starts with the first activation.
StartLicense(l) ==
    IF l.activated THEN l
    ELSE [l EXCEPT !.activated = TRUE,
                   !.expires = IF l.perpetual THEN Nil
                               ELSE now + Duration * (1 + l.renewals)]

\* What redeeming a usage renewal card does to the target licence: days added
\* before the first activation wait for it, later ones follow the expiry.
RedeemRenewal(l) ==
    [l EXCEPT !.status = IF @ = "expired" THEN "active" ELSE @,
              !.expires = IF ~l.activated THEN @
                          ELSE (IF @ > now THEN @ ELSE now) + Duration,
              !.renewals = @ + 1]

CanRedeem(l) ==
    /\ app.status = "active"
    /\ l.status \notin {"revoked", "suspended"}
    /\ ~l.perpetual
    /\ l.renewals < Renewals

-----------------------------------------------------------------------------
(* Seats *)

LeaseLive(a) == a.lease # Nil /\ now < a.lease
BorrowLive(a) == a.borrowed /\ LeaseLive(a)

\* Filter.ActiveAt: not deactivated, and no lease or an unexpired one.
ActiveAt(a) == a.state = "active" /\ (a.lease = Nil \/ now < a.lease)

\* Filter.ActiveAt with LeaseOnly: not deactivated and an unexpired lease.
HoldsSeat(a) == a.state = "active" /\ LeaseLive(a)

\* Mutant: the seats counted for a newcomer leave out the borrowed ones.
OthersOnline(i) ==
    {j \in Installations \ {i} : ActiveAt(act[j]) /\ ~act[j].borrowed}

Seats == {i \in Installations : HoldsSeat(act[i])}
Others(i) == {j \in Installations \ {i} : ActiveAt(act[j])}
BorrowHeld == \E i \in Installations : ActiveAt(act[i]) /\ act[i].borrowed

LeaseUntil(l, borrow) ==
    Cap(now + (IF borrow # 0 THEN borrow ELSE SeatLease), UsageDeadline(l))

BorrowAllowed(borrow) ==
    borrow # 0 => app.maxBorrow # 0 /\ borrow <= app.maxBorrow

\* The row extendLease leaves behind.
ExtendLease(l, borrow) ==
    [state |-> "active", lease |-> LeaseUntil(l, borrow),
     borrowed |-> borrow # 0]

\* Mutant: the token is not cut by the lease of its seat.
GraceOfLicense(l, a) == Cap(now + TokenHorizon, UsageDeadline(l))

\* GraceUntil of the tokens signed for a row: the exp of the offline token.
GraceUntil(l, a) == Cap(Cap(now + TokenHorizon, UsageDeadline(l)), a.lease)

\* runtimeTokens refuses to sign a token that is already over.
TokensFor(i, l, a) ==
    /\ now < GraceUntil(l, a)
    /\ grant' = IF a.borrowed /\ GraceUntil(l, a) > grant[i]
                THEN [grant EXCEPT ![i] = GraceUntil(l, a)]
                ELSE grant

-----------------------------------------------------------------------------
(* Credentials *)

\* Neither an administrator nor the customer has a row of it running, and it
\* was not released: a heartbeat finds nothing to resume.
Out(a) == a.state \in {"none", "disabled"}

\* What of the issuer's stands behind a key: an activation card, an invitation
\* nobody has used or this key has, or an approved request.
Standing(k) ==
    \/ card \in {"unused", "used"}
    \/ \E v \in Invites : inv[v] \in {"open", k}
    \/ k \in approved

\* The history of a step after which some credential may be gone or some
\* installation out of service.
Observe ==
    shut' = shut \cup {i \in Installations :
                         Out(act'[i]) /\ ~Standing(KeyOf[i])'}

UseCard ==
    /\ card \notin {"revoked", "expired"}
    /\ card' = "used"
    /\ UNCHANGED <<inv, approved>>

\* Mutant: an invitation serves whoever presents it.
Presented(v, k) == inv[v] # "none"

\* An invitation serves the key that used it first, as often as it asks.
InviteAccepts(v, k) == inv[v] \in {"open", k}

UseInvite(v, k) ==
    /\ InviteAccepts(v, k)
    /\ inv' = [inv EXCEPT ![v] = k]
    /\ UNCHANGED <<card, approved>>

\* An approved request stays approved.
UsePending(k) ==
    /\ k \in approved
    /\ UNCHANGED credentials

Credential(k) ==
    \/ UseCard
    \/ \E v \in Invites : UseInvite(v, k)
    \/ UsePending(k)

-----------------------------------------------------------------------------
(* Runtime requests of an installation *)

\* Activation.  extendLease reads the licence before startLicense has set its
\* expiry, the tokens are cut by the started licence.
Activate(i, borrow) ==
    /\ CheckUsable(app, lic)
    /\ Cardinality(Others(i)) < MaxSeats
    /\ ~(BorrowLive(act[i]) /\ borrow = 0)
    /\ BorrowAllowed(borrow)
    /\ now < LeaseUntil(lic, borrow)
    /\ act' = [act EXCEPT ![i] = ExtendLease(lic, borrow)]
    /\ lic' = StartLicense(lic)
    /\ Credential(KeyOf[i])
    /\ TokensFor(i, lic', act'[i])
    /\ UNCHANGED <<now, app>>
    /\ Observe

\* The row Verify works on: a released installation comes back without lease.
Reacquired(a) ==
    IF a.state = "released"
    THEN [state |-> "active", lease |-> Nil, borrowed |-> FALSE]
    ELSE a

\* Mutant: a heartbeat brings back every row there is.
ResumableAlways(a) == a.state # "none"

\* Rows a heartbeat or a release accepts: deactivated by nobody but the client.
Resumable(a) == a.state \in {"active", "released"}

\* A heartbeat, with a renewal card redeemed in the same transaction or not.
\* A borrowed reservation is kept as it is.
Verify(i, renew) ==
    LET l == IF renew THEN RedeemRenewal(lic) ELSE lic
        a == Reacquired(act[i])
    IN  /\ Resumable(act[i])
        /\ renew => CanRedeem(lic)
        /\ CheckUsable(app, l)
        /\ \/ /\ BorrowLive(a)
              /\ act' = [act EXCEPT ![i] = a]
           \/ /\ ~BorrowLive(a)
              /\ LeaseLive(a) \/ Cardinality(Seats) < MaxSeats
              /\ now < LeaseUntil(l, 0)
              /\ act' = [act EXCEPT ![i] = ExtendLease(l, 0)]
        /\ lic' = l
        /\ TokensFor(i, l, act'[i])
        /\ UNCHANGED <<now, app, credentials, shut>>

\* The release action of Verify: no licence check, but an unexpired borrowed
\* lease is not given back.
Release(i) ==
    /\ Resumable(act[i])
    /\ ~BorrowLive(act[i])
    /\ act' = [act EXCEPT ![i] = [NoRow EXCEPT !.state = "released"]]
    /\ UNCHANGED <<now, app, lic, credentials, grant, shut>>

-----------------------------------------------------------------------------
(* Administration and the customer's own page *)

\* Mutant: a borrowed seat is not spared.
DisableBorrowed(i) ==
    /\ act[i].state # "none"
    /\ act' = [act EXCEPT ![i].state = "disabled"]
    /\ UNCHANGED <<now, app, lic, credentials, grant>>
    /\ Observe

\* Only the deactivation columns are written: lease and flag stay in the row.
Disable(i) ==
    /\ act[i].state # "none"
    /\ ~BorrowLive(act[i])
    /\ act' = [act EXCEPT ![i].state = "disabled"]
    /\ UNCHANGED <<now, app, lic, credentials, grant>>
    /\ Observe

DeactivateInstallation(i) == Disable(i)

CustomerDeactivate(i) == Disable(i)

\* The bulk update of the store touches the rows not yet deactivated.
DeactivateAll ==
    act' = [i \in Installations |->
              IF act[i].state = "active"
              THEN [act[i] EXCEPT !.state = "disabled"] ELSE act[i]]

\* An invalidated invitation is a used one that fits no key.
InvalidateInvitations == inv' = [v \in Invites |-> "none"]

\* Cards and approved requests are left as they are.
Rebind ==
    /\ CheckUsable(app, lic)
    /\ ~BorrowHeld
    /\ DeactivateAll
    /\ InvalidateInvitations
    /\ UNCHANGED <<now, app, lic, card, approved, grant>>
    /\ Observe

\* A change of owner; an assignment to the same owner writes nothing here.
\* (That an owner's invitation ends with his ownership follows.)
AssignLicenseOwner ==
    /\ ~BorrowHeld
    /\ DeactivateAll
    /\ InvalidateInvitations
    /\ UNCHANGED <<now, app, lic, card, approved, grant>>
    /\ Observe

CreateInvitation(v) ==
    /\ CheckUsable(app, lic)
    /\ inv[v] = "none"
    /\ inv' = [inv EXCEPT ![v] = "open"]
    /\ shut' = {}
    /\ UNCHANGED <<now, app, lic, card, approved, act, grant>>

\* An approved request of a key; rejected ones have no effect here.
ApproveInstallation(k) ==
    /\ CheckUsable(app, lic)
    /\ approved' = approved \cup {k}
    /\ shut' = {i \in shut : KeyOf[i] # k}
    /\ UNCHANGED <<now, app, lic, card, inv, act, grant>>

\* Mutant: a revoked licence can be restored.
SetAnyStatus(s) ==
    /\ lic' = [lic EXCEPT !.status = s]
    /\ UNCHANGED <<now, app, credentials, act, grant, shut>>

SetLicenseStatus(s) ==
    /\ lic.status = "revoked" => s = "revoked"
    /\ lic' = [lic EXCEPT !.status = s]
    /\ UNCHANGED <<now, app, credentials, act, grant, shut>>

CustomerRenew ==
    /\ CanRedeem(lic)
    /\ lic' = RedeemRenewal(lic)
    /\ UNCHANGED <<now, app, credentials, act, grant, shut>>

RevokeCard ==
    /\ card' = "revoked"
    /\ UNCHANGED <<now, app, lic, inv, approved, act, grant>>
    /\ Observe

SaveApplication(s, limit) ==
    /\ app' = [status |-> s, maxBorrow |-> limit]
    /\ UNCHANGED <<now, lic, credentials, act, grant, shut>>

Tick ==
    /\ now < MaxTime
    /\ now' = now + 1
    /\ UNCHANGED <<app, lic, credentials, act, grant, shut>>

\* Credentials are valid for days and more; that the time of one is over is an
\* event of its own.
CardExpires ==
    /\ card \in {"unused", "used"}
    /\ card' = "expired"
    /\ UNCHANGED <<now, app, lic, inv, approved, act, grant>>
    /\ Observe

InviteExpires(v) ==
    /\ inv' = [inv EXCEPT ![v] = "none"]
    /\ UNCHANGED <<now, app, lic, card, approved, act, grant>>
    /\ Observe

PendingExpires(k) ==
    /\ approved' = approved \ {k}
    /\ UNCHANGED <<now, app, lic, card, inv, act, grant>>
    /\ Observe

-----------------------------------------------------------------------------

\* A licence just sold: its clock runs already when the terms start on issue.
Init ==
    /\ now = 0
    /\ app \in [status : {"active"}, maxBorrow : BorrowLimits]
    /\ \E perpetual, onIssue \in BOOLEAN :
         lic = [status |-> "active", perpetual |-> perpetual,
                activated |-> onIssue, renewals |-> 0,
                expires |-> IF onIssue /\ ~perpetual THEN Duration ELSE Nil]
    /\ card = "unused"
    /\ inv = [v \in Invites |-> "none"]
    /\ approved = {}
    /\ act = [i \in Installations |-> NoRow]
    /\ grant = [i \in Installations |-> 0]
    /\ shut = {}

Next ==
    \/ Tick
    \/ \E i \in Installations :
         \/ \E borrow \in BorrowRequests : Activate(i, borrow)
         \/ \E renew \in BOOLEAN : Verify(i, renew)
         \/ Release(i)
         \/ DeactivateInstallation(i)
         \/ CustomerDeactivate(i)
    \/ Rebind
    \/ AssignLicenseOwner
    \/ \E s \in LicenseStatuses : SetLicenseStatus(s)
    \/ CustomerRenew
    \/ \E v \in Invites : CreateInvitation(v) \/ InviteExpires(v)
    \/ \E k \in Keys : ApproveInstallation(k) \/ PendingExpires(k)
    \/ RevokeCard \/ CardExpires
    \/ \E s \in AppStatuses, limit \in BorrowLimits : SaveApplication(s, limit)

Spec == Init /\ [][Next]_vars

-----------------------------------------------------------------------------
(* Properties *)

\* Every row has its columns' types, and a licence has an expiry exactly when
\* its clock has started and it is not perpetual (startLicense, redeemRenewal).
TypeOK ==
    /\ now \in Nat
    /\ app \in Application
    /\ lic \in License
    /\ card \in {"unused", "used", "revoked", "expired"}
    /\ inv \in [Invites -> Keys \cup {"none", "open"}]
    /\ approved \subseteq Keys
    /\ act \in [Installations -> Activation]
    /\ grant \in [Installations -> Nat]
    /\ shut \subseteq Installations

\* Concurrent seats are never oversold: whatever mix of activations,
\* heartbeats, returns after a release and borrowed leases is running, the
\* unexpired leases of the licence are at most MaxSeats (Activate, Verify).
SeatLimit == Cardinality(Seats) <= MaxSeats

BorrowedKept ==
    \A i \in Installations :
      BorrowLive(act[i]) /\ act[i].state = "active"
        => act'[i].state = "active" /\ act'[i].borrowed

GrantCapped ==
    \A i \in Installations :
      grant'[i] # grant[i] =>
        /\ grant'[i] <= act'[i].lease
        /\ UsageDeadline(lic') # Nil => grant'[i] <= UsageDeadline(lic')

Drained ==
    lic.status = "revoked" =>
      /\ lic'.status = "revoked"
      /\ \A i \in Installations : act'[i].lease <= act[i].lease

\* A borrowed seat is given up by the passing of time alone: while its lease
\* runs, no request of the installation itself, no deactivation by an
\* administrator or the customer, no rebinding and no change of owner turns
\* the row into a deactivated or an ordinary one (the BORROWED_SEAT_HELD and
\* SEAT_BORROWED refusals).
BorrowReserved == [][BorrowedKept]_vars

\* A new offline credential ends no later than the seat it was signed for and
\* the usage deadline of the licence, also when the very activation that signs
\* it starts the licence (runtimeTokens after startLicense).
GrantWithinSeat == [][GrantCapped]_vars

\* Revocation is final and drains the seats: a revoked licence is never usable
\* again, by a status change or by a renewal card, and no lease of it grows.
RevocationDrains == [][Drained]_vars

\* Once an installation is out of service and every credential for its key is
\* gone (the card revoked or past RedeemUntil, the invitations expired,
\* invalidated or first used by another key, no request approved), it stays
\* out: no heartbeat, renewal, change of status or of the policy, no activation
\* of others and no passing of time brings it in, until the issuer gives out an
\* invitation or approves a request of its key.
ShutOut == \A i \in shut : Out(act[i])

\* docs/authorization-v2.md:52: a seat that is borrowed offline occupies the
\* quota until the borrowing ends, that is, as long as an offline token signed
\* for it has not expired.
BorrowedTokenHoldsSeat ==
    \A i \in Installations : now < grant[i] => HoldsSeat(act[i])
=============================================================================
