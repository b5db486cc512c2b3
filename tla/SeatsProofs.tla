---------------------------- MODULE SeatsProofs ----------------------------
(***************************************************************************)
(* What holds of the seats of a floating licence for every number of       *)
(* installations and seats, every duration and every borrowing policy.     *)
(***************************************************************************)
EXTENDS Seats, FiniteSetTheorems, TLAPS

\* The disjuncts of Next, as steps of one installation or of the licence.
InstallationStep(i) ==
    \/ \E borrow \in BorrowRequests : Activate(i, borrow)
    \/ \E renew \in BOOLEAN : Verify(i, renew)
    \/ Release(i)
    \/ Disable(i)

BulkStep == Rebind \/ AssignLicenseOwner

\* The steps of credentials alone.
CredentialStep ==
    \/ \E v \in Invites : CreateInvitation(v) \/ InviteExpires(v)
    \/ \E k \in Keys : ApproveInstallation(k) \/ PendingExpires(k)
    \/ RevokeCard
    \/ CardExpires

\* The steps that leave every activation row and every grant alone.
RowsUnchanged ==
    \/ Tick
    \/ \E s \in LicenseStatuses : SetLicenseStatus(s)
    \/ CustomerRenew
    \/ CredentialStep
    \/ \E s \in AppStatuses, limit \in BorrowLimits : SaveApplication(s, limit)

\* Every step is one of an installation, a bulk deactivation, or leaves the
\* activation rows alone.
LEMMA NextCases ==
    ASSUME Next
    PROVE  \/ \E i \in Installations : InstallationStep(i)
           \/ BulkStep
           \/ RowsUnchanged
BY DEF Next, InstallationStep, BulkStep, RowsUnchanged, CredentialStep,
       DeactivateInstallation, CustomerDeactivate

-----------------------------------------------------------------------------
(* Types *)

LEMMA DeadlineType ==
    ASSUME SeatsAssumption, NEW l \in License
    PROVE  UsageDeadline(l) \in Time
BY DEF UsageDeadline, SeatsAssumption, License, LicenseRow, Time, Nil

LEMMA CapType ==
    ASSUME NEW t \in Int, NEW d \in Time
    PROVE  /\ Cap(t, d) \in Int
           /\ Cap(t, d) <= t
           /\ d # Nil => Cap(t, d) <= d
           /\ t \in Nat => Cap(t, d) \in Nat
BY DEF Cap, Earlier, Time, Nil

LEMMA RenewedType ==
    ASSUME SeatsAssumption, now \in Nat, NEW l \in License, ~l.perpetual
    PROVE  RedeemRenewal(l) \in License
<1> DEFINE status == IF l.status = "expired" THEN "active" ELSE l.status
           expires == IF ~l.activated THEN l.expires
                      ELSE (IF l.expires > now THEN l.expires ELSE now)
                             + Duration
<1>1. status \in LicenseStatuses
  BY DEF License, LicenseRow, LicenseStatuses
<1>2. expires \in Time /\ (expires # Nil <=> l.activated)
  <2>1. /\ l.expires \in Time /\ Duration \in Nat
        /\ l.expires # Nil <=> l.activated
    BY DEF License, LicenseRow, SeatsAssumption
  <2>2. QED
    BY <2>1 DEF Time, Nil
<1>3. l.renewals + 1 \in Nat
  BY DEF License, LicenseRow
<1>4. RedeemRenewal(l) = [l EXCEPT !.status = status, !.expires = expires,
                                    !.renewals = l.renewals + 1]
  BY DEF RedeemRenewal
<1> DEFINE row == RedeemRenewal(l)
<1> HIDE DEF status, expires
<1>5. row \in LicenseRow
  BY <1>1, <1>2, <1>3, <1>4 DEF License, LicenseRow
<1>6. /\ row.expires = expires /\ row.activated = l.activated
      /\ row.perpetual = l.perpetual
  BY <1>4 DEF License, LicenseRow
<1> HIDE DEF row
<1>7. row.expires # Nil <=> row.activated /\ ~row.perpetual
  <2>1. row.activated <=> l.activated
    BY <1>6, Zenon
  <2>2. ~row.perpetual
    BY <1>6, Zenon
  <2>3. QED
    BY <1>2, <1>6, <2>1, <2>2
<1>8. QED
  BY <1>5, <1>7 DEF License, row

LEMMA StartedType ==
    ASSUME SeatsAssumption, now \in Nat, NEW l \in License
    PROVE  StartLicense(l) \in License
<1> DEFINE expires == IF l.perpetual THEN Nil
                      ELSE now + Duration * (1 + l.renewals)
<1>1. Duration * (1 + l.renewals) \in Nat
  BY DEF SeatsAssumption, License, LicenseRow
<1>2. expires \in Time /\ (expires # Nil <=> ~l.perpetual)
  BY <1>1 DEF Time, Nil
<1>3. StartLicense(l) = IF l.activated THEN l
                        ELSE [l EXCEPT !.activated = TRUE, !.expires = expires]
  BY DEF StartLicense
<1> HIDE DEF expires
<1>4. CASE l.activated
  BY <1>3, <1>4
<1>5. CASE ~l.activated
  <2> DEFINE row == StartLicense(l)
  <2>1. row \in LicenseRow
    BY <1>2, <1>3, <1>5 DEF License, LicenseRow
  <2>2. row.activated /\ row.expires = expires /\ row.perpetual = l.perpetual
    BY <1>3, <1>5, Zenon DEF License, LicenseRow
  <2> HIDE DEF row
  <2>3. row.perpetual <=> l.perpetual
    BY <2>2, Zenon
  <2>4. QED
    BY <1>2, <2>1, <2>2, <2>3 DEF License, row
<1>6. QED
  BY <1>4, <1>5

LEMMA LeaseType ==
    ASSUME SeatsAssumption, now \in Nat, NEW l \in License,
           NEW borrow \in Nat
    PROVE  ExtendLease(l, borrow) \in Activation
<1>1. now + (IF borrow # 0 THEN borrow ELSE SeatLease) \in Nat
  BY DEF SeatsAssumption
<1>2. LeaseUntil(l, borrow) \in Nat
  BY <1>1, CapType, DeadlineType DEF LeaseUntil
<1>3. QED
  BY <1>2 DEF ExtendLease, Activation, ActStates, Time

LEMMA GraceType ==
    ASSUME SeatsAssumption, now \in Nat, NEW l \in License,
           NEW a \in Activation
    PROVE  /\ GraceUntil(l, a) \in Nat
           /\ UsageDeadline(l) # Nil => GraceUntil(l, a) <= UsageDeadline(l)
           /\ a.lease # Nil => GraceUntil(l, a) <= a.lease
<1> DEFINE c == Cap(now + TokenHorizon, UsageDeadline(l))
<1>1. now + TokenHorizon \in Nat
  BY DEF SeatsAssumption
<1>2. UsageDeadline(l) \in Time /\ a.lease \in Time
  BY DeadlineType DEF Activation
<1>3. /\ c \in Nat
      /\ UsageDeadline(l) # Nil => c <= UsageDeadline(l)
  BY <1>1, <1>2, CapType
<1>4. /\ Cap(c, a.lease) \in Nat
      /\ Cap(c, a.lease) <= c
      /\ a.lease # Nil => Cap(c, a.lease) <= a.lease
  <2> HIDE DEF c
  <2> QED BY <1>2, <1>3, CapType
<1>5. GraceUntil(l, a) = Cap(c, a.lease)
  BY DEF GraceUntil
<1>6. UsageDeadline(l) \in Int
  BY <1>2 DEF Time, Nil
<1>7. QED
  <2> HIDE DEF c
  <2> QED BY <1>3, <1>4, <1>5, <1>6

\* What signing the tokens of a row does to the recorded grants.
LEMMA TokensType ==
    ASSUME SeatsAssumption, TypeOK, NEW i \in Installations,
           NEW l \in License, NEW a \in Activation, TokensFor(i, l, a)
    PROVE  /\ grant' \in [Installations -> Nat]
           /\ \A j \in Installations :
                grant'[j] # grant[j] => j = i /\ a.borrowed
                                        /\ grant'[j] = GraceUntil(l, a)
<1>1. now \in Nat /\ grant \in [Installations -> Nat]
  BY DEF TypeOK
<1>2. GraceUntil(l, a) \in Nat
  BY <1>1, GraceType
<1>3. QED
  BY <1>1, <1>2 DEF TokensFor

-----------------------------------------------------------------------------

(* Type correctness *)

\* The history of a step records installations only.
LEMMA ObservedType ==
    ASSUME TypeOK, Observe
    PROVE  shut' \subseteq Installations
BY DEF TypeOK, Observe

\* A credential is used without another one becoming valid.
LEMMA CredentialEffect ==
    ASSUME SeatsAssumption, TypeOK, NEW k \in Keys, Credential(k)
    PROVE  /\ card' \in {"unused", "used", "revoked", "expired"}
           /\ inv' \in [Invites -> Keys \cup {"none", "open"}]
           /\ approved' = approved
           /\ \A key \in Keys : Standing(key)' => Standing(key)
           /\ Standing(k)
<1>1. CASE UseCard
  BY <1>1 DEF UseCard, Standing, TypeOK
<1>2. ASSUME NEW v \in Invites, UseInvite(v, k)
      PROVE  /\ inv' \in [Invites -> Keys \cup {"none", "open"}]
             /\ UNCHANGED <<card, approved>>
             /\ \A key \in Keys : Standing(key)' => Standing(key)
             /\ Standing(k)
  <2>1. inv' = [inv EXCEPT ![v] = k] /\ inv[v] \in {"open", k}
        /\ UNCHANGED <<card, approved>>
    BY <1>2 DEF UseInvite, InviteAccepts
  <2>2. k \notin {"none", "open"}
    BY DEF SeatsAssumption
  <2>3. \A w \in Invites, key \in Keys :
          inv'[w] \in {"open", key} => inv[w] \in {"open", key}
    BY <2>1, <2>2 DEF TypeOK
  <2>4. QED
    BY <2>1, <2>3 DEF Standing, TypeOK
<1>3. CASE UsePending(k)
  BY <1>3 DEF UsePending, credentials, Standing, TypeOK
<1>4. QED
  BY <1>1, <1>2, <1>3 DEF Credential, TypeOK, UseCard

LEMMA ActivateTypes ==
    ASSUME SeatsAssumption, TypeOK, NEW i \in Installations,
           NEW borrow \in BorrowRequests, Activate(i, borrow)
    PROVE  TypeOK'
<1>1. now \in Nat /\ lic \in License /\ borrow \in Nat
  BY DEF TypeOK, SeatsAssumption
<1>2. ExtendLease(lic, borrow) \in Activation
  BY <1>1, LeaseType
<1>3. act' \in [Installations -> Activation]
      /\ act'[i] = ExtendLease(lic, borrow)
  BY <1>2 DEF Activate, TypeOK
<1>4. lic' \in License
  BY <1>1, StartedType DEF Activate
<1>5. grant' \in [Installations -> Nat]
  <2>1. TokensFor(i, lic', act'[i])
    BY DEF Activate
  <2>2. QED
    BY <1>2, <1>3, <1>4, <2>1, TokensType
<1>6. /\ card' \in {"unused", "used", "revoked", "expired"}
      /\ inv' \in [Invites -> Keys \cup {"none", "open"}]
      /\ approved' = approved
  <2>1. Credential(KeyOf[i]) /\ KeyOf[i] \in Keys
    BY DEF Activate, SeatsAssumption
  <2>2. QED
    BY <2>1, CredentialEffect
<1>7. shut' \subseteq Installations
  BY ObservedType DEF Activate
<1>8. QED
  BY <1>3, <1>4, <1>5, <1>6, <1>7 DEF Activate, TypeOK

\* The licence a heartbeat works on and the row it leaves behind.
LEMMA VerifyEffect ==
    ASSUME SeatsAssumption, TypeOK, NEW i \in Installations,
           NEW renew \in BOOLEAN, Verify(i, renew)
    PROVE  /\ lic' \in License
           /\ act'[i] \in Activation
           /\ act' = [act EXCEPT ![i] = act'[i]]
           /\ act'[i].state = "active"
           /\ BorrowLive(act[i]) /\ act[i].state = "active" => act'[i] = act[i]
           /\ \/ HoldsSeat(act[i])
              \/ Cardinality(Seats) < MaxSeats
           /\ LeaseLive(act'[i])
           /\ TokensFor(i, lic', act'[i])
           /\ UNCHANGED <<now, app, card, inv, approved, shut>>
<1> DEFINE l == IF renew THEN RedeemRenewal(lic) ELSE lic
           a == Reacquired(act[i])
<1>1. now \in Nat /\ lic \in License /\ act[i] \in Activation
      /\ act \in [Installations -> Activation]
  BY DEF TypeOK
<1>2. l \in License
  BY <1>1, RenewedType DEF Verify, CanRedeem
<1>3. a \in Activation /\ act[i].state \in {"active", "released"}
      /\ a.state = "active"
      /\ (act[i].state = "active" => a = act[i])
      /\ (act[i].state = "released" => ~LeaseLive(a))
  BY <1>1 DEF Verify, Resumable, Reacquired, Activation, ActStates, Time, LeaseLive
<1>4. ExtendLease(l, 0) \in Activation
      /\ ExtendLease(l, 0).state = "active"
      /\ ExtendLease(l, 0).lease = LeaseUntil(l, 0)
  <2> HIDE DEF l
  <2> QED BY <1>1, <1>2, LeaseType DEF ExtendLease
<1>5. lic' = l /\ TokensFor(i, lic', act'[i]) /\ UNCHANGED <<now, app, card, inv, approved, shut>>
  BY DEF Verify, credentials
<1>6. \/ BorrowLive(a) /\ act' = [act EXCEPT ![i] = a]
      \/ /\ ~BorrowLive(a)
         /\ LeaseLive(a) \/ Cardinality(Seats) < MaxSeats
         /\ now < LeaseUntil(l, 0)
         /\ act' = [act EXCEPT ![i] = ExtendLease(l, 0)]
  BY DEF Verify
<1> HIDE DEF l, a
<1>7. CASE BorrowLive(a) /\ act' = [act EXCEPT ![i] = a]
  <2>1. act'[i] = a /\ act' = [act EXCEPT ![i] = act'[i]]
    BY <1>1, <1>7
  <2>2. act[i].state = "active" /\ a = act[i]
    BY <1>3, <1>7 DEF BorrowLive
  <2>3. LeaseLive(a) /\ HoldsSeat(act[i])
    BY <2>2, <1>7 DEF BorrowLive, HoldsSeat
  <2>4. QED
    BY <1>2, <1>3, <1>5, <2>1, <2>2, <2>3
<1>8. CASE /\ ~BorrowLive(a)
           /\ LeaseLive(a) \/ Cardinality(Seats) < MaxSeats
           /\ now < LeaseUntil(l, 0)
           /\ act' = [act EXCEPT ![i] = ExtendLease(l, 0)]
  <2>1. act'[i] = ExtendLease(l, 0) /\ act' = [act EXCEPT ![i] = act'[i]]
    BY <1>1, <1>8
  <2>2. LeaseLive(act'[i])
    BY <2>1, <1>1, <1>4, <1>8 DEF LeaseLive, Nil, Activation, Time
  <2>3. LeaseLive(a) => HoldsSeat(act[i])
    BY <1>3 DEF HoldsSeat
  <2>4. BorrowLive(act[i]) /\ act[i].state = "active" => act'[i] = act[i]
    BY <1>3, <1>8
  <2>5. QED
    BY <1>2, <1>4, <1>5, <1>8, <2>1, <2>2, <2>3, <2>4
<1>9. QED
  BY <1>6, <1>7, <1>8

LEMMA InstallationTypes ==
    ASSUME SeatsAssumption, TypeOK, NEW i \in Installations,
           InstallationStep(i)
    PROVE  TypeOK'
<1>1. ASSUME NEW borrow \in BorrowRequests, Activate(i, borrow)
      PROVE  TypeOK'
  BY <1>1, ActivateTypes
<1>2. ASSUME NEW renew \in BOOLEAN, Verify(i, renew)
      PROVE  TypeOK'
  <2>1. lic' \in License /\ act'[i] \in Activation
        /\ act' = [act EXCEPT ![i] = act'[i]]
        /\ TokensFor(i, lic', act'[i]) /\ UNCHANGED <<now, app, card, inv, approved, shut>>
    BY <1>2, VerifyEffect
  <2>2. act' \in [Installations -> Activation]
    BY <2>1 DEF TypeOK
  <2>3. grant' \in [Installations -> Nat]
    BY <2>1, TokensType
  <2>4. QED
    BY <2>1, <2>2, <2>3 DEF TypeOK
<1>3. CASE Release(i)
  <2>1. [NoRow EXCEPT !.state = "released"] \in Activation
    BY DEF NoRow, Activation, ActStates, Time, Nil
  <2>2. QED
    BY <1>3, <2>1 DEF Release, TypeOK, credentials
<1>4. CASE Disable(i)
  <2>1. [act[i] EXCEPT !.state = "disabled"] \in Activation
    BY DEF TypeOK, Activation, ActStates
  <2>2. QED
    BY <1>4, <2>1, ObservedType DEF Disable, TypeOK, credentials
<1>5. QED
  BY <1>1, <1>2, <1>3, <1>4 DEF InstallationStep

LEMMA BulkTypes ==
    ASSUME TypeOK, BulkStep
    PROVE  TypeOK'
<1>1. \A i \in Installations : [act[i] EXCEPT !.state = "disabled"] \in Activation
  BY DEF TypeOK, Activation, ActStates
<1>2. DeactivateAll => act' \in [Installations -> Activation]
  BY <1>1 DEF DeactivateAll, TypeOK
<1>3. shut' \subseteq Installations
  BY ObservedType DEF BulkStep, Rebind, AssignLicenseOwner
<1>4. inv' \in [Invites -> Keys \cup {"none", "open"}]
  BY DEF BulkStep, Rebind, AssignLicenseOwner, InvalidateInvitations
<1>5. QED
  BY <1>2, <1>3, <1>4 DEF BulkStep, Rebind, AssignLicenseOwner, TypeOK

LEMMA CredentialTypes ==
    ASSUME TypeOK, CredentialStep
    PROVE  TypeOK' /\ UNCHANGED <<now, app, lic, act, grant>>
<1>1. ASSUME NEW v \in Invites, CreateInvitation(v) \/ InviteExpires(v)
      PROVE  TypeOK' /\ UNCHANGED <<now, app, lic, act, grant>>
  BY <1>1, ObservedType DEF CreateInvitation, InviteExpires, TypeOK
<1>2. ASSUME NEW k \in Keys, ApproveInstallation(k) \/ PendingExpires(k)
      PROVE  TypeOK' /\ UNCHANGED <<now, app, lic, act, grant>>
  BY <1>2, ObservedType DEF ApproveInstallation, PendingExpires, TypeOK
<1>3. CASE RevokeCard \/ CardExpires
  BY <1>3, ObservedType DEF RevokeCard, CardExpires, TypeOK
<1>4. QED
  BY <1>1, <1>2, <1>3 DEF CredentialStep

LEMMA UnchangedTypes ==
    ASSUME SeatsAssumption, TypeOK, RowsUnchanged
    PROVE  TypeOK' /\ UNCHANGED <<act, grant>>
<1>1. CASE Tick
  BY <1>1 DEF Tick, TypeOK, credentials
<1>2. ASSUME NEW s \in LicenseStatuses, SetLicenseStatus(s)
      PROVE  TypeOK' /\ UNCHANGED <<act, grant>>
  BY <1>2 DEF SetLicenseStatus, TypeOK, License, LicenseRow, credentials
<1>3. CASE CustomerRenew
  BY <1>3, RenewedType DEF CustomerRenew, CanRedeem, TypeOK, credentials
<1>4. CASE CredentialStep
  BY <1>4, CredentialTypes
<1>5. ASSUME NEW s \in AppStatuses, NEW limit \in BorrowLimits,
             SaveApplication(s, limit)
      PROVE  TypeOK' /\ UNCHANGED <<act, grant>>
  BY <1>5 DEF SaveApplication, TypeOK, Application, credentials
<1>6. QED
  BY <1>1, <1>2, <1>3, <1>4, <1>5 DEF RowsUnchanged

LEMMA InitTypes == SeatsAssumption /\ Init => TypeOK
<1> SUFFICES ASSUME SeatsAssumption, Init PROVE TypeOK
  OBVIOUS
<1>1. lic \in License
  BY DEF Init, License, LicenseRow, LicenseStatuses, Time, Nil, SeatsAssumption
<1>2. act \in [Installations -> Activation]
  BY DEF Init, NoRow, Activation, ActStates, Time, Nil
<1>3. QED
  BY <1>1, <1>2 DEF Init, TypeOK, Application, AppStatuses

LEMMA StepTypes ==
    ASSUME SeatsAssumption, TypeOK, [Next]_vars
    PROVE  TypeOK'
<1>1. CASE Next
  BY <1>1, NextCases, InstallationTypes, BulkTypes, UnchangedTypes
<1>2. CASE UNCHANGED vars
  BY <1>2 DEF vars, TypeOK
<1>3. QED
  BY <1>1, <1>2

\* Every row keeps its shape: statuses are the code's, times are NULL or
\* instants, in every reachable state of a licence's seats.
THEOREM SeatsTypes == Spec => []TypeOK
<1>1. TypeOK /\ [Next]_vars => TypeOK'
  BY StepTypes, SeatsAssumption
<1>2. QED
  BY <1>1, InitTypes, SeatsAssumption, PTL DEF Spec

-----------------------------------------------------------------------------
(* The seats are never oversold *)

LEMMA SeatsFinite ==
    ASSUME SeatsAssumption
    PROVE  IsFiniteSet(Seats) /\ Cardinality(Seats) \in Nat
<1>1. IsFiniteSet(Installations) /\ Seats \subseteq Installations
  BY DEF SeatsAssumption, Seats
<1>2. QED
  BY <1>1, FS_Subset, FS_CardinalityType

\* A finite set that grows by at most one element.
LEMMA AtMostOneMore ==
    ASSUME NEW S, IsFiniteSet(S), NEW T, NEW x, T \subseteq S \cup {x}
    PROVE  /\ IsFiniteSet(T)
           /\ Cardinality(T) \in Nat
           /\ Cardinality(T) <= Cardinality(S) + 1
<1>0. Cardinality(S) \in Nat
  BY FS_CardinalityType
<1>1. IsFiniteSet(S \cup {x}) /\ Cardinality(S \cup {x}) <= Cardinality(S) + 1
  <2>1. /\ IsFiniteSet(S \cup {x})
        /\ Cardinality(S \cup {x}) =
             IF x \in S THEN Cardinality(S) ELSE Cardinality(S) + 1
    BY FS_AddElement
  <2>2. QED
    BY <1>0, <2>1
<1>2. IsFiniteSet(T) /\ Cardinality(T) <= Cardinality(S \cup {x})
  BY <1>1, FS_Subset
<1>3. Cardinality(S) \in Nat /\ Cardinality(T) \in Nat
      /\ Cardinality(S \cup {x}) \in Nat
  BY <1>1, <1>2, FS_CardinalityType
<1>4. QED
  BY <1>1, <1>2, <1>3

\* Rows that gain no seat cannot break the limit.
LEMMA NoNewSeat ==
    ASSUME SeatsAssumption, SeatLimit, Seats' \subseteq Seats
    PROVE  SeatLimit'
<1>1. Cardinality(Seats') \in Nat /\ Cardinality(Seats') <= Cardinality(Seats)
  BY SeatsFinite, FS_Subset, FS_CardinalityType
<1>2. QED
  BY <1>1, SeatsFinite DEF SeatLimit, SeatsAssumption

\* An activation counts every other row that may hold a seat.
LEMMA ActivateLimit ==
    ASSUME SeatsAssumption, TypeOK, NEW i \in Installations,
           NEW borrow \in BorrowRequests, Activate(i, borrow)
    PROVE  SeatLimit'
<1>1. now' = now /\ \A j \in Installations \ {i} : act'[j] = act[j]
  BY DEF Activate, TypeOK
<1>2. Seats' \subseteq Others(i) \cup {i}
  BY <1>1 DEF Seats, Others, HoldsSeat, LeaseLive, ActiveAt
<1>3. IsFiniteSet(Others(i))
  BY FS_Subset DEF Others, SeatsAssumption
<1>4. Cardinality(Others(i)) < MaxSeats /\ Cardinality(Others(i)) \in Nat
  BY <1>3, FS_CardinalityType DEF Activate
<1>5. Cardinality(Seats') \in Nat
      /\ Cardinality(Seats') <= Cardinality(Others(i)) + 1
  BY <1>2, <1>3, AtMostOneMore
<1>6. QED
  BY <1>4, <1>5 DEF SeatLimit, SeatsAssumption

\* A heartbeat renews a seat it holds, or takes one that is free.
LEMMA VerifyLimit ==
    ASSUME SeatsAssumption, TypeOK, SeatLimit, NEW i \in Installations,
           NEW renew \in BOOLEAN, Verify(i, renew)
    PROVE  SeatLimit'
<1>1. /\ act' = [act EXCEPT ![i] = act'[i]]
      /\ HoldsSeat(act[i]) \/ Cardinality(Seats) < MaxSeats
      /\ now' = now
  BY VerifyEffect
<1>2. \A j \in Installations \ {i} : act'[j] = act[j]
  BY <1>1 DEF TypeOK
<1>3. Seats' \subseteq Seats \cup {i}
  BY <1>1, <1>2 DEF Seats, HoldsSeat, LeaseLive
<1>4. CASE HoldsSeat(act[i])
  <2>1. Seats' \subseteq Seats
    BY <1>3, <1>4 DEF Seats
  <2>2. QED
    BY <2>1, NoNewSeat
<1>5. CASE Cardinality(Seats) < MaxSeats
  <2>1. Cardinality(Seats') \in Nat
        /\ Cardinality(Seats') <= Cardinality(Seats) + 1
    BY <1>3, SeatsFinite, AtMostOneMore
  <2>2. QED
    BY <1>5, <2>1, SeatsFinite DEF SeatLimit, SeatsAssumption
<1>6. QED
  BY <1>1, <1>4, <1>5

LEMMA InitLimit == SeatsAssumption /\ Init => SeatLimit
<1> SUFFICES ASSUME SeatsAssumption, Init PROVE SeatLimit
  OBVIOUS
<1>1. Seats = {}
  BY DEF Init, Seats, HoldsSeat, NoRow
<1>2. QED
  BY <1>1, FS_EmptySet DEF SeatLimit, SeatsAssumption

LEMMA StepLimit ==
    ASSUME SeatsAssumption, TypeOK, SeatLimit, [Next]_vars
    PROVE  SeatLimit'
<1>1. ASSUME NEW i \in Installations, InstallationStep(i)
      PROVE  SeatLimit'
  <2>1. ASSUME NEW borrow \in BorrowRequests, Activate(i, borrow)
        PROVE  SeatLimit'
    BY <2>1, ActivateLimit
  <2>2. ASSUME NEW renew \in BOOLEAN, Verify(i, renew)
        PROVE  SeatLimit'
    BY <2>2, VerifyLimit
  <2>3. CASE Release(i) \/ Disable(i)
    <3>1. now' = now /\ act'[i].state # "active"
          /\ \A j \in Installations \ {i} : act'[j] = act[j]
      BY <2>3 DEF Release, Disable, TypeOK, Activation, NoRow
    <3>2. Seats' \subseteq Seats
      BY <3>1 DEF Seats, HoldsSeat, LeaseLive
    <3>3. QED
      BY <3>2, NoNewSeat
  <2>4. QED
    BY <1>1, <2>1, <2>2, <2>3 DEF InstallationStep
<1>2. CASE BulkStep
  <2>1. now' = now /\ \A j \in Installations : act'[j].state # "active"
    BY <1>2 DEF BulkStep, Rebind, AssignLicenseOwner, DeactivateAll, TypeOK,
                Activation
  <2>2. Seats' \subseteq Seats
    BY <2>1 DEF Seats, HoldsSeat
  <2>3. QED
    BY <2>2, NoNewSeat
<1>3. CASE RowsUnchanged \/ UNCHANGED vars
  <2>1. act' = act /\ (now' = now \/ now' = now + 1)
    BY <1>3, CredentialTypes
       DEF RowsUnchanged, Tick, SetLicenseStatus, CustomerRenew,
           SaveApplication, vars
  <2>2. Seats' \subseteq Seats
    BY <2>1 DEF Seats, HoldsSeat, LeaseLive, TypeOK, Activation, Time, Nil
  <2>3. QED
    BY <2>2, NoNewSeat
<1>4. QED
  BY <1>1, <1>2, <1>3, NextCases

\* The unexpired leases of a floating licence never exceed the seats sold.
THEOREM SeatsNeverOversold == Spec => []SeatLimit
<1>1. TypeOK /\ SeatLimit /\ [Next]_vars => SeatLimit'
  BY StepLimit, SeatsAssumption
<1>2. QED
  BY <1>1, InitLimit, SeatsTypes, SeatsAssumption, PTL DEF Spec

-----------------------------------------------------------------------------
(* What a step may never do *)

LEMMA ActivateActions ==
    ASSUME SeatsAssumption, TypeOK, NEW i \in Installations,
           NEW borrow \in BorrowRequests, Activate(i, borrow)
    PROVE  BorrowedKept /\ GrantCapped /\ Drained
<1>1. /\ act' = [act EXCEPT ![i] = ExtendLease(lic, borrow)]
      /\ act'[i] = ExtendLease(lic, borrow)
      /\ \A j \in Installations \ {i} : act'[j] = act[j]
      /\ act'[i].state = "active" /\ act'[i].borrowed = (borrow # 0)
  BY DEF Activate, TypeOK, ExtendLease
<1>2. /\ borrow \in Nat
      /\ act'[i] \in Activation /\ lic' \in License
      /\ now' = now /\ now \in Nat /\ lic \in License
  <2>1. TypeOK'
    BY ActivateTypes
  <2>2. QED
    BY <2>1 DEF TypeOK, SeatsAssumption, Activate
<1>3. BorrowedKept
  <2>1. BorrowLive(act[i]) => borrow # 0
    BY DEF Activate
  <2>2. borrow # 0 => act'[i].borrowed
    BY <1>1, Zenon
  <2>3. ASSUME NEW j \in Installations, BorrowLive(act[j]),
               act[j].state = "active"
        PROVE  act'[j].state = "active" /\ act'[j].borrowed
    <3>1. CASE j = i
      BY <1>1, <2>1, <2>2, <2>3, <3>1
    <3>2. CASE j # i
      <4>1. act'[j] = act[j] /\ act[j].borrowed
        BY <1>1, <2>3, <3>2 DEF BorrowLive
      <4>2. QED
        BY <2>3, <4>1, Zenon
    <3>3. QED
      BY <3>1, <3>2
  <2>4. QED
    BY <2>3, Zenon DEF BorrowedKept
<1>4. GrantCapped
  <2>1. TokensFor(i, lic', act'[i])
    BY DEF Activate
  <2>2. \A j \in Installations :
          grant'[j] # grant[j] => j = i /\ grant'[j] = GraceUntil(lic', act'[i])
    BY <1>2, <2>1, TokensType
  <2>3. act'[i].lease # Nil
    <3>1. now < act'[i].lease
      BY <1>1 DEF Activate, ExtendLease
    <3>2. QED
      BY <1>2, <3>1 DEF Activation, Time, Nil
  <2>4. /\ UsageDeadline(lic') # Nil => GraceUntil(lic', act'[i]) <= UsageDeadline(lic')
        /\ GraceUntil(lic', act'[i]) <= act'[i].lease
    BY <1>2, <2>3, GraceType
  <2>5. QED
    BY <2>2, <2>4 DEF GrantCapped
<1>5. Drained
  BY DEF Drained, Activate, CheckUsable
<1>6. QED
  BY <1>3, <1>4, <1>5

LEMMA VerifyActions ==
    ASSUME SeatsAssumption, TypeOK, NEW i \in Installations,
           NEW renew \in BOOLEAN, Verify(i, renew)
    PROVE  BorrowedKept /\ GrantCapped /\ Drained
<1>1. /\ \A j \in Installations \ {i} : act'[j] = act[j]
      /\ act'[i] \in Activation /\ act'[i].state = "active"
      /\ BorrowLive(act[i]) /\ act[i].state = "active" => act'[i] = act[i]
      /\ lic' \in License
      /\ TokensFor(i, lic', act'[i])
  BY VerifyEffect DEF TypeOK
<1>2. BorrowedKept
  BY <1>1 DEF BorrowedKept, BorrowLive
<1>3. GrantCapped
  <2>1. \A j \in Installations :
          grant'[j] # grant[j] => j = i /\ grant'[j] = GraceUntil(lic', act'[i])
    BY <1>1, TokensType
  <2>2. act'[i].lease # Nil
    BY VerifyEffect DEF LeaseLive
  <2>3. /\ UsageDeadline(lic') # Nil => GraceUntil(lic', act'[i]) <= UsageDeadline(lic')
        /\ GraceUntil(lic', act'[i]) <= act'[i].lease
    BY <1>1, <2>2, GraceType DEF TypeOK
  <2>4. QED
    BY <2>1, <2>3 DEF GrantCapped
<1>4. Drained
  BY DEF Drained, Verify, CanRedeem, CheckUsable
<1>5. QED
  BY <1>2, <1>3, <1>4

LEMMA DisableActions ==
    ASSUME TypeOK, NEW i \in Installations, Release(i) \/ Disable(i)
    PROVE  BorrowedKept /\ GrantCapped /\ Drained
<1>1. /\ \A j \in Installations \ {i} : act'[j] = act[j]
      /\ ~BorrowLive(act[i])
      /\ act'[i].lease \in {Nil, act[i].lease}
      /\ act[i].lease \in Time
      /\ UNCHANGED <<lic, grant>>
  BY DEF Release, Disable, Resumable, NoRow, TypeOK, Activation
<1>2. Drained
  <2>1. \A j \in Installations : act[j].lease \in Time
    BY DEF TypeOK, Activation
  <2>2. QED
    BY <1>1, <2>1 DEF Drained, Time, Nil
<1>3. BorrowedKept
  <2>1. ASSUME NEW j \in Installations, BorrowLive(act[j]),
               act[j].state = "active"
        PROVE  act'[j].state = "active" /\ act'[j].borrowed
    <3>1. act'[j] = act[j] /\ act[j].borrowed
      BY <1>1, <2>1 DEF BorrowLive
    <3>2. QED
      BY <2>1, <3>1, Zenon
  <2>2. QED
    BY <2>1, Zenon DEF BorrowedKept
<1>4. GrantCapped
  BY <1>1 DEF GrantCapped
<1>5. QED
  BY <1>2, <1>3, <1>4

LEMMA BulkActions ==
    ASSUME TypeOK, BulkStep
    PROVE  BorrowedKept /\ GrantCapped /\ Drained
<1>1. /\ ~BorrowHeld
      /\ DeactivateAll
      /\ UNCHANGED <<lic, grant>>
  BY DEF BulkStep, Rebind, AssignLicenseOwner
<1>2. \A i \in Installations :
        act'[i].lease = act[i].lease /\ act[i].lease \in Int
  BY <1>1 DEF DeactivateAll, TypeOK, Activation, Time, Nil
<1>3. BorrowedKept
  BY <1>1 DEF BorrowedKept, BorrowHeld, BorrowLive, LeaseLive, ActiveAt
<1>4. QED
  BY <1>1, <1>2, <1>3 DEF GrantCapped, Drained

LEMMA UnchangedActions ==
    ASSUME SeatsAssumption, TypeOK, RowsUnchanged
    PROVE  BorrowedKept /\ GrantCapped /\ Drained
<1>1. act' = act /\ grant' = grant
  BY UnchangedTypes
<1>2. lic.status = "revoked" => lic'.status = "revoked"
  BY CredentialTypes
     DEF RowsUnchanged, Tick, SetLicenseStatus, CustomerRenew, CanRedeem,
         SaveApplication, TypeOK, License, LicenseRow
<1>3. \A i \in Installations : act[i].lease \in Int
  BY DEF TypeOK, Activation, Time, Nil
<1>4. BorrowedKept
  BY <1>1, Zenon DEF BorrowedKept, BorrowLive
<1>5. GrantCapped
  BY <1>1 DEF GrantCapped
<1>6. Drained
  BY <1>1, <1>2, <1>3 DEF Drained
<1>7. QED
  BY <1>4, <1>5, <1>6

LEMMA StepActions ==
    ASSUME SeatsAssumption, TypeOK, Next
    PROVE  BorrowedKept /\ GrantCapped /\ Drained
<1>1. ASSUME NEW i \in Installations, InstallationStep(i)
      PROVE  BorrowedKept /\ GrantCapped /\ Drained
  BY <1>1, ActivateActions, VerifyActions, DisableActions
     DEF InstallationStep
<1>2. QED
  BY <1>1, NextCases, BulkActions, UnchangedActions

\* Only time ends a borrowed reservation.
THEOREM BorrowReservedHolds == Spec => BorrowReserved
<1>1. TypeOK /\ [Next]_vars => [BorrowedKept]_vars
  BY StepActions, SeatsAssumption
<1>2. QED
  BY <1>1, SeatsTypes, PTL DEF Spec, BorrowReserved

\* An offline credential never outlives the seat and the deadline it is
\* signed under.
THEOREM GrantWithinSeatHolds == Spec => GrantWithinSeat
<1>1. TypeOK /\ [Next]_vars => [GrantCapped]_vars
  BY StepActions, SeatsAssumption
<1>2. QED
  BY <1>1, SeatsTypes, PTL DEF Spec, GrantWithinSeat

\* A revoked licence stays revoked and its leases run out.
THEOREM RevocationDrainsHolds == Spec => RevocationDrains
<1>1. TypeOK /\ [Next]_vars => [Drained]_vars
  BY StepActions, SeatsAssumption
<1>2. QED
  BY <1>1, SeatsTypes, PTL DEF Spec, RevocationDrains

-----------------------------------------------------------------------------
(* Out of service *)

\* ShutOut is inductive with what keeps the door shut: no credential stands
\* behind the key of a recorded installation.
ShutInv == \A i \in shut : Out(act[i]) /\ ~Standing(KeyOf[i])

\* The history is right when a step ends: what it adds is so by its definition,
\* what was recorded before must have stayed so.
LEMMA ObservedShut ==
    ASSUME Observe,
           \A i \in shut : Out(act'[i]) /\ ~Standing(KeyOf[i])'
    PROVE  ShutInv'
BY DEF Observe, ShutInv

\* A step that leaves the credentials alone and brings no recorded
\* installation in.
LEMMA SameCredentials ==
    ASSUME ShutInv, UNCHANGED <<card, inv, approved>>,
           \A i \in shut : Out(act[i]) => Out(act'[i]),
           Observe \/ shut' = shut
    PROVE  ShutInv'
<1>1. \A i \in shut : Out(act'[i]) /\ ~Standing(KeyOf[i])'
  BY DEF ShutInv, Standing
<1>2. QED
  BY <1>1, ObservedShut DEF ShutInv

LEMMA ActivateShut ==
    ASSUME SeatsAssumption, TypeOK, ShutInv, NEW i \in Installations,
           NEW borrow \in BorrowRequests, Activate(i, borrow)
    PROVE  ShutInv'
<1>1. /\ \A k \in Keys : Standing(k)' => Standing(k)
      /\ Standing(KeyOf[i])
  <2>1. Credential(KeyOf[i]) /\ KeyOf[i] \in Keys
    BY DEF Activate, SeatsAssumption
  <2>2. QED
    BY <2>1, CredentialEffect
<1>2. i \notin shut
  BY <1>1 DEF ShutInv
<1>3. \A j \in shut : j \in Installations /\ KeyOf[j] \in Keys /\ act'[j] = act[j]
  BY <1>2 DEF Activate, TypeOK, SeatsAssumption
<1>4. \A j \in shut : Out(act'[j]) /\ ~Standing(KeyOf[j])'
  BY <1>1, <1>3 DEF ShutInv
<1>5. QED
  BY <1>4, ObservedShut DEF Activate

LEMMA InstallationShut ==
    ASSUME SeatsAssumption, TypeOK, ShutInv, NEW i \in Installations,
           InstallationStep(i)
    PROVE  ShutInv'
<1>1. ASSUME NEW borrow \in BorrowRequests, Activate(i, borrow)
      PROVE  ShutInv'
  BY <1>1, ActivateShut
<1>2. ASSUME NEW renew \in BOOLEAN, Verify(i, renew)
      PROVE  ShutInv'
  <2>1. i \notin shut
    BY <1>2 DEF Verify, Resumable, ShutInv, Out
  <2>2. /\ UNCHANGED <<card, inv, approved, shut>>
        /\ act' = [act EXCEPT ![i] = act'[i]]
    BY <1>2, VerifyEffect
  <2>3. \A j \in shut : act'[j] = act[j]
    BY <2>1, <2>2 DEF TypeOK
  <2>4. QED
    BY <2>2, <2>3, SameCredentials
<1>3. CASE Release(i)
  <2>1. i \notin shut
    BY <1>3 DEF Release, Resumable, ShutInv, Out
  <2>2. \A j \in shut : act'[j] = act[j]
    BY <1>3, <2>1 DEF Release, TypeOK
  <2>3. QED
    BY <1>3, <2>2, SameCredentials DEF Release, credentials
<1>4. CASE Disable(i)
  <2>1. \A j \in shut : Out(act[j]) => Out(act'[j])
    BY <1>4 DEF Disable, TypeOK, Out, Activation
  <2>2. QED
    BY <1>4, <2>1, SameCredentials DEF Disable, credentials
<1>5. QED
  BY <1>1, <1>2, <1>3, <1>4 DEF InstallationStep

\* A rebinding closes the invitations and opens nothing.
LEMMA BulkShut ==
    ASSUME SeatsAssumption, TypeOK, ShutInv, BulkStep
    PROVE  ShutInv'
<1>1. /\ DeactivateAll /\ InvalidateInvitations /\ Observe
      /\ UNCHANGED <<card, approved>>
  BY DEF BulkStep, Rebind, AssignLicenseOwner
<1>2. \A i \in shut : Out(act'[i])
  BY <1>1 DEF DeactivateAll, TypeOK, ShutInv, Out, Activation
<1>3. \A k \in Keys : Standing(k)' => Standing(k)
  <2>1. \A k \in Keys, v \in Invites : inv'[v] \notin {"open", k}
    BY <1>1 DEF InvalidateInvitations, SeatsAssumption
  <2>2. QED
    BY <1>1, <2>1 DEF Standing
<1>4. \A i \in shut : KeyOf[i] \in Keys
  BY DEF TypeOK, SeatsAssumption
<1>5. \A i \in shut : Out(act'[i]) /\ ~Standing(KeyOf[i])'
  BY <1>2, <1>3, <1>4 DEF ShutInv
<1>6. QED
  BY <1>1, <1>5, ObservedShut

\* Only an issue opens a door, and the history forgets whom it is for.
LEMMA CredentialShut ==
    ASSUME SeatsAssumption, TypeOK, ShutInv, CredentialStep
    PROVE  ShutInv'
<1>1. act' = act
  BY CredentialTypes
<1>2. \A i \in shut : KeyOf[i] \in Keys /\ Out(act'[i])
  BY <1>1 DEF TypeOK, SeatsAssumption, ShutInv
<1>3. ASSUME NEW v \in Invites, CreateInvitation(v)
      PROVE  ShutInv'
  BY <1>3 DEF CreateInvitation, ShutInv
<1>4. ASSUME NEW v \in Invites, InviteExpires(v)
      PROVE  ShutInv'
  <2>1. \A k \in Keys : Standing(k)' => Standing(k)
    BY <1>4 DEF InviteExpires, Standing, TypeOK, SeatsAssumption
  <2>2. QED
    BY <1>2, <1>4, <2>1, ObservedShut DEF InviteExpires, ShutInv
<1>5. ASSUME NEW k \in Keys, ApproveInstallation(k)
      PROVE  ShutInv'
  <2>1. /\ shut' = {i \in shut : KeyOf[i] # k}
        /\ approved' = approved \cup {k}
        /\ UNCHANGED <<card, inv>>
    BY <1>5 DEF ApproveInstallation
  <2>2. \A i \in shut' : i \in shut /\ ~Standing(KeyOf[i])'
    BY <2>1 DEF ShutInv, Standing
  <2>3. QED
    BY <1>2, <2>2 DEF ShutInv
<1>6. ASSUME NEW k \in Keys, PendingExpires(k)
      PROVE  ShutInv'
  <2>1. \A key \in Keys : Standing(key)' => Standing(key)
    BY <1>6 DEF PendingExpires, Standing
  <2>2. QED
    BY <1>2, <1>6, <2>1, ObservedShut DEF PendingExpires, ShutInv
<1>7. CASE RevokeCard \/ CardExpires
  <2>1. \A k \in Keys : Standing(k)' => Standing(k)
    BY <1>7 DEF RevokeCard, CardExpires, Standing
  <2>2. QED
    BY <1>2, <1>7, <2>1, ObservedShut DEF RevokeCard, CardExpires, ShutInv
<1>8. QED
  BY <1>3, <1>4, <1>5, <1>6, <1>7 DEF CredentialStep

LEMMA StepShut ==
    ASSUME SeatsAssumption, TypeOK, ShutInv, [Next]_vars
    PROVE  ShutInv'
<1>1. CASE RowsUnchanged \/ UNCHANGED vars
  <2>1. CASE CredentialStep
    BY <2>1, CredentialShut
  <2>2. CASE ~CredentialStep
    <3>1. UNCHANGED <<card, inv, approved, act, shut>>
      BY <1>1, <2>2 DEF RowsUnchanged, Tick, SetLicenseStatus, CustomerRenew,
                        SaveApplication, credentials, vars
    <3>2. QED
      BY <3>1, SameCredentials
  <2>3. QED
    BY <2>1, <2>2
<1>2. QED
  BY <1>1, NextCases, InstallationShut, BulkShut

\* An installation that is out of service and has no credential left stays out
\* until one is issued, for any number of installations, keys and invitations.
THEOREM ShutOutHolds == Spec => []ShutOut
<1>1. Init => ShutInv
  BY DEF Init, ShutInv
<1>2. TypeOK /\ ShutInv /\ [Next]_vars => ShutInv'
  BY StepShut, SeatsAssumption
<1>3. ShutInv => ShutOut
  BY DEF ShutInv, ShutOut
<1>4. QED
  BY <1>1, <1>2, <1>3, SeatsTypes, PTL DEF Spec

=============================================================================
