------------------------------ MODULE Renewals ------------------------------
(***************************************************************************)
(* What renewal cards and refunds do to the two entitlements of a licence: *)
(* its use and its updates.  A redemption adds days to the entitlement as  *)
(* it stands; the refund of an order rebuilds the entitlement from the     *)
(* licence's base dates and the redeemed cards that are left.              *)
(*                                                                         *)
(* Every action is one transaction under the application lock.  Time is    *)
(* counted in days; the cards offered are compatible with the targets      *)
(* (same model, a plan the card may renew), those that are not are refused *)
(* before anything is written.                                             *)
(***************************************************************************)
EXTENDS Integers, FiniteSets, FiniteSetsExt, Functions

CONSTANTS
    Targets,      \* licences that are renewed
    BaseDays,     \* BaseDurationDays and BaseUpdateDays of each target
    Cards,        \* renewal cards, each bound to a licence of its own
    TrackOf,      \* Purpose of a card: "usage" or "updates"
    DaysOf,       \* the days its licence was sold with
    RedeemUntil,  \* the day a card lapses, or Nil
    Orders,
    SoldBy,       \* the order of a target or of a card
    MaxTime       \* bound on the clock

Nil == -1
Time == Nat \cup {Nil}
Tracks == {"usage", "updates"}

ASSUME RenewalsAssumption ==
    /\ IsFiniteSet(Targets) /\ IsFiniteSet(Cards)
    /\ Targets \cap Cards = {} /\ "none" \notin Targets
    /\ BaseDays \in [Targets -> [Tracks -> Nat]]
    /\ TrackOf \in [Cards -> Tracks]
    /\ DaysOf \in [Cards -> Nat \ {0}]
    /\ RedeemUntil \in [Cards -> Time]
    /\ SoldBy \in [Targets \cup Cards -> Orders]
    /\ MaxTime \in Nat

VARIABLES
    now,
    appActive,   \* Application.Status = "active"
    lic,         \* the target licences
    card,        \* the renewal cards
    source,      \* status of the licence each card is bound to
    refunded     \* orders whose status is "refunded"; the others are confirmed

vars == <<now, appActive, lic, card, source, refunded>>

None == "none"     \* RedeemedLicenseID of a card not redeemed
Statuses == {"active", "suspended", "revoked", "expired"}
\* A licence that only carries a card: "held" is suspended or expired.
SourceStatuses == {"active", "held", "revoked"}

\* days: Terms.DurationDays and UpdateDurationDays; base: BaseExpiresAt and
\* BaseUpdatesUntil; until: ExpiresAt and UpdatesUntil.
LicenseRow == [status : Statuses, perpetual : BOOLEAN,
               activated : Time, blocked : BOOLEAN,
               days : [Tracks -> Nat], base : [Tracks -> Time],
               until : [Tracks -> Time]]
CardRow == [status : {"unused", "used", "revoked"},
            target : Targets \cup {None}, usedAt : Time, refunded : BOOLEAN]

-----------------------------------------------------------------------------
(* The entitlements *)

Later(s, t) == IF s > t THEN s ELSE t

\* A licence without a term has no date on the usage track.
Termed(l, t) == ~(t = "usage" /\ lic[l].perpetual)

StartLicense(l) ==
    [lic[l] EXCEPT
       !.activated = now,
       !.base = [t \in Tracks |->
                   IF Termed(l, t) THEN now + BaseDays[l][t] ELSE Nil],
       !.until = [t \in Tracks |->
                    IF Termed(l, t) THEN now + lic[l].days[t] ELSE Nil]]

\* Days bought before the first activation wait for it in the terms.
Extended(l, t, days) ==
    IF lic[l].activated = Nil
    THEN [lic[l] EXCEPT !.days[t] = @ + days]
    ELSE [lic[l] EXCEPT !.until[t] = Later(@, now) + days]

\* The redeemed cards of target l that count on track t.
Credits(l, t, cards) ==
    {c \in Cards : /\ cards[c].target = l
                   /\ cards[c].usedAt # Nil
                   /\ ~cards[c].refunded
                   /\ TrackOf[c] = t}

\* The cards in S used before the activation.
Waiting(l, S, cards) ==
    {c \in S : lic[l].activated = Nil \/ cards[c].usedAt < lic[l].activated}

\* Mutant: every card follows the one before it, also after a gap.
ReplayWithoutGaps(l, t, S, cards) ==
    lic[l].base[t] + SumFunctionOnSet(DaysOf, S)

\* Mutant: a card that came after an expiry counts from the refund.
ReplayFromNow(l, t, S, cards) ==
    LET until[R \in SUBSET S] ==
          IF R = {} THEN lic[l].base[t]
          ELSE LET last == CHOOSE c \in R :
                             \A d \in R : cards[d].usedAt <= cards[c].usedAt
               IN  Later(until[R \ {last}], now) + DaysOf[last]
    IN  until[S]

\* Replay of the cards in S in the order of their use.
Replay(l, t, S, cards) ==
    LET until[R \in SUBSET S] ==
          IF R = {} THEN lic[l].base[t]
          ELSE LET last == CHOOSE c \in R :
                             \A d \in R : cards[d].usedAt <= cards[c].usedAt
                   at == Later(cards[last].usedAt, lic[l].activated)
               IN  Later(until[R \ {last}], at) + DaysOf[last]
    IN  until[S]

\* recomputeRenewals: the entitlement of l once the cards are as given.
Recompute(l, cards) ==
    [lic[l] EXCEPT
       !.days = [t \in Tracks |->
                   BaseDays[l][t]
                     + SumFunctionOnSet(DaysOf, Waiting(l, Credits(l, t, cards), cards))],
       !.until = [t \in Tracks |->
                    IF lic[l].activated = Nil THEN lic[l].base[t]
                    ELSE Replay(l, t, Credits(l, t, cards), cards)]]

-----------------------------------------------------------------------------
(* Redemption and activation *)

\* A card is spent by its status, and with it the licence it is bound to.
CardUsable(c) ==
    /\ card[c].status = "unused"
    /\ RedeemUntil[c] # Nil => now < RedeemUntil[c]
    /\ source[c] = "active"

\* redeemRenewal, from the customer's page or within a heartbeat.
Redeem(l, c) ==
    LET t == TrackOf[c]
        renewed == Extended(l, t, DaysOf[c])
    IN  /\ appActive
        /\ lic[l].status \notin {"revoked", "suspended"}
        /\ ~(lic[l].blocked /\ t = "updates")
        /\ CardUsable(c)
        /\ Termed(l, t)
        /\ lic' = [lic EXCEPT ![l] =
                     [renewed EXCEPT !.status =
                        IF @ = "expired" /\ t = "usage" THEN "active" ELSE @]]
        /\ card' = [card EXCEPT ![c] = [status |-> "used", target |-> l,
                                        usedAt |-> now, refunded |-> FALSE]]
        /\ source' = [source EXCEPT ![c] = "revoked"]
        /\ UNCHANGED <<now, appActive, refunded>>

\* The first activation of a licence (Seats and Bindings have its conditions).
Activate(l) ==
    /\ appActive
    /\ lic[l].status = "active"
    /\ lic[l].activated = Nil
    /\ lic' = [lic EXCEPT ![l] = StartLicense(l)]
    /\ UNCHANGED <<now, appActive, card, source, refunded>>

-----------------------------------------------------------------------------
(* Refunds and administration *)

\* refundOrder, for an administrator or a sales channel.  The licences and
\* cards of the order are revoked; where a card of it had been redeemed, the
\* entitlement is rebuilt without it.
RefundOrder(o) ==
    LET sold == {c \in Cards : SoldBy[c] = o}
        cards == [c \in Cards |->
                    IF c \in sold
                    THEN [card[c] EXCEPT !.status = "revoked",
                                         !.refunded = TRUE]
                    ELSE card[c]]
        affected == {card[c].target : c \in sold} \ {None}
    IN  /\ o \notin refunded
        /\ refunded' = refunded \cup {o}
        /\ card' = cards
        /\ source' = [c \in Cards |->
                        IF c \in sold THEN "revoked" ELSE source[c]]
        /\ lic' = [l \in Targets |->
                     LET row == IF l \in affected
                                THEN Recompute(l, cards) ELSE lic[l]
                     IN  IF SoldBy[l] = o
                         THEN [row EXCEPT !.status = "revoked"] ELSE row]
        /\ UNCHANGED <<now, appActive>>

\* The card alone: its credit, if it was redeemed, stays.
RevokeCard(c) ==
    /\ card' = [card EXCEPT ![c].status = "revoked"]
    /\ UNCHANGED <<now, appActive, lic, source, refunded>>

SetLicenseStatus(l, s) ==
    /\ lic[l].status = "revoked" => s = "revoked"
    /\ lic' = [lic EXCEPT ![l].status = s]
    /\ UNCHANGED <<now, appActive, card, source, refunded>>

SetSourceStatus(c, s) ==
    /\ source[c] = "revoked" => s = "revoked"
    /\ source' = [source EXCEPT ![c] = s]
    /\ UNCHANGED <<now, appActive, lic, card, refunded>>

\* "deny_updates" and its reversal.
ReviewLicenseSecurity(l, deny) ==
    /\ lic' = [lic EXCEPT ![l].blocked = deny]
    /\ UNCHANGED <<now, appActive, card, source, refunded>>

SaveApplication(active) ==
    /\ appActive' = active
    /\ UNCHANGED <<now, lic, card, source, refunded>>

Tick ==
    /\ now < MaxTime
    /\ now' = now + 1
    /\ UNCHANGED <<appActive, lic, card, source, refunded>>

-----------------------------------------------------------------------------

\* All orders are confirmed; nothing is activated or redeemed yet.
Init ==
    /\ now = 0
    /\ appActive = TRUE
    /\ \E perpetual \in [Targets -> BOOLEAN] :
         lic = [l \in Targets |->
                  [status |-> "active", perpetual |-> perpetual[l],
                   activated |-> Nil, blocked |-> FALSE,
                   days |-> BaseDays[l], base |-> [t \in Tracks |-> Nil],
                   until |-> [t \in Tracks |-> Nil]]]
    /\ card = [c \in Cards |-> [status |-> "unused", target |-> None,
                                usedAt |-> Nil, refunded |-> FALSE]]
    /\ source = [c \in Cards |-> "active"]
    /\ refunded = {}

LicenseStep(l) ==
    \/ Activate(l)
    \/ \E c \in Cards : Redeem(l, c)
    \/ \E s \in Statuses : SetLicenseStatus(l, s)
    \/ \E deny \in BOOLEAN : ReviewLicenseSecurity(l, deny)

CardStep(c) ==
    \/ RevokeCard(c)
    \/ \E s \in SourceStatuses : SetSourceStatus(c, s)

Next ==
    \/ Tick
    \/ \E l \in Targets : LicenseStep(l)
    \/ \E c \in Cards : CardStep(c)
    \/ \E o \in Orders : RefundOrder(o)
    \/ \E active \in BOOLEAN : SaveApplication(active)

Spec == Init /\ [][Next]_vars

-----------------------------------------------------------------------------
(* Properties *)

\* Every row has its columns' types; a card that was redeemed has the day and
\* the licence of its redemption, and the licence it was sold with is revoked.
TypeOK ==
    /\ now \in Nat /\ appActive \in BOOLEAN
    /\ lic \in [Targets -> LicenseRow]
    /\ card \in [Cards -> CardRow]
    /\ source \in [Cards -> SourceStatuses]
    /\ refunded \subseteq Orders
    /\ \A c \in Cards :
         /\ (card[c].target = None) <=> (card[c].usedAt = Nil)
         /\ card[c].target # None => source[c] = "revoked"

\* The day until which the base term and the credits S pay without a break:
\* the end of the base term extended by every card, or, from the use of some
\* card on, that card and all the later ones.
PaidUntil(l, t, S) ==
    LET start(c) == Later(card[c].usedAt, lic[l].activated)
        from(c) == start(c) + SumFunctionOnSet(DaysOf, {d \in S : start(d) >= start(c)})
        whole == lic[l].base[t] + SumFunctionOnSet(DaysOf, S)
    IN  Max({whole} \cup {from(c) : c \in S})

\* Whatever redemptions, activations and refunds happened, in whatever order,
\* a licence is good for exactly its base term and the cards redeemed for it
\* that are not refunded, each from the day of its use at the earliest: the
\* dates that redemptions advance (redeemRenewal) and the dates that a refund
\* rebuilds (recomputeRenewals) are the same.
LedgerExact ==
    \A l \in Targets, t \in Tracks :
      LET S == Credits(l, t, card)
      IN  IF ~Termed(l, t) THEN lic[l].until[t] = Nil
          ELSE IF lic[l].activated = Nil
          THEN lic[l].days[t] = BaseDays[l][t]
                                  + SumFunctionOnSet(DaysOf, S)
          ELSE lic[l].until[t] = PaidUntil(l, t, S)

Paid ==
    \A l \in Targets, t \in Tracks :
      lic'[l].until[t] > lic[l].until[t] =>
        \/ lic[l].activated = Nil /\ lic'[l].activated = now
        \/ \E c \in Cards :
             TrackOf[c] = t /\ card[c].target = None /\ card'[c].target = l

\* No entitlement grows without its first activation or a card spent on it in
\* the same step; in particular no refund gives a day to anybody, although it
\* rebuilds the dates of every licence the order's cards had renewed, and no
\* card is worth anything to a second licence.
EntitlementPaid == [][Paid]_vars
=============================================================================
