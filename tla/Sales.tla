-------------------------------- MODULE Sales --------------------------------
(***************************************************************************)
(* Plans, orders, cards and the sales channel of one application.  Orders  *)
(* come from an administrator, who may confirm them later, and from a      *)
(* shop's signed webhooks, which arrive again, late and in any order while *)
(* the channel's secret is rotated, orders are refunded, and licences and  *)
(* cards change their status.                                              *)
(***************************************************************************)
EXTENDS Integers, FiniteSets

CONSTANTS
    ShopEvents,    \* identifiers the shop gives to payments and refunds
    Digests,       \* digests of cards the shop has printed
    MaxOrders      \* bound on orders

ASSUME SalesAssumption == MaxOrders \in Nat

VARIABLES
    plan,       \* may the plan be sold
    channel,    \* is the sales channel enabled
    orders,     \* the orders, in the sequence in which they were inserted
    licences,   \* status of the licence of each order
    cards,      \* the card of each order
    receipts    \* webhook receipts

salesVars == <<plan, channel, orders, licences, cards, receipts>>

OrderIds == 1..MaxOrders
NoOrder == [status |-> "none"]
NoCard == [status |-> "none"]
Admin == "admin"

SalesBodies ==
    [kind : {"payment.confirmed"}, digest : Digests]
      \cup [kind : {"payment.refunded"}, original : ShopEvents]

\* What the shop may have signed.
Messages == [event : ShopEvents, body : SalesBodies]

Inserted == {o \in OrderIds : orders[o] # NoOrder}
Confirmed == {o \in Inserted : orders[o].status # "pending"}
Fresh == Cardinality(Inserted) + 1

-----------------------------------------------------------------------------
(* Issuing *)

\* CARD_DIGEST_EXISTS
DigestFree(digest) == \A o \in OrderIds : cards[o] # NoCard => cards[o].digest # digest

\* One licence and one card for each unit; an order here is for one unit.
IssueOrder(o, order) ==
    /\ DigestFree(order.digest)
    /\ orders' = [orders EXCEPT ![o] = [order EXCEPT !.status = "confirmed"]]
    /\ licences' = [licences EXCEPT ![o] = "active"]
    /\ cards' = [cards EXCEPT ![o] = [status |-> "unused", digest |-> order.digest]]

InsertPending(o, order) ==
    /\ orders' = [orders EXCEPT ![o] = order]
    /\ UNCHANGED <<licences, cards>>

NewOrder(source, event, digest) ==
    [status |-> "pending", source |-> source, event |-> event, digest |-> digest]

CreateSale(digest, confirmed) ==
    LET order == NewOrder(Admin, Admin, digest)
    IN  /\ Fresh \in OrderIds
        /\ plan
        /\ IF confirmed THEN IssueOrder(Fresh, order) ELSE InsertPending(Fresh, order)
        /\ UNCHANGED <<plan, channel, receipts>>

ConfirmSale(o) ==
    /\ orders[o].status = "pending"
    /\ IssueOrder(o, orders[o])
    /\ UNCHANGED <<plan, channel, receipts>>

-----------------------------------------------------------------------------
(* Refunds *)

\* Nothing is done twice, an order that was not confirmed is not refunded.
RefundConfirmed(o) ==
    /\ orders[o].status \in {"confirmed", "refunded"}
    /\ IF orders[o].status = "refunded"
       THEN UNCHANGED <<orders, licences, cards>>
       ELSE /\ orders' = [orders EXCEPT ![o].status = "refunded"]
            /\ licences' = [licences EXCEPT ![o] = "revoked"]
            /\ cards' = [cards EXCEPT ![o].status = "revoked"]

RefundSale(o) ==
    /\ RefundConfirmed(o)
    /\ UNCHANGED <<plan, channel, receipts>>

-----------------------------------------------------------------------------
(* The shop's channel *)

SaveSalesChannel(enabled) ==
    /\ channel' = enabled
    /\ UNCHANGED <<plan, orders, licences, cards, receipts>>

\* The shop signs anything at any time and the network delivers it in any
\* order and number: whatever is not signed with the current secret, or is two
\* minutes old, is refused without a trace, and nothing else is missing here.
Authentic(m) == m \in Messages /\ channel

ReceiptsFor(event) == {r \in receipts : r.event = event}

\* Mutant: the order is committed before its receipt.
ReceiptLater(m, o) ==
    \/ UNCHANGED receipts
    \/ receipts' = receipts \cup {[event |-> m.event, body |-> m.body, order |-> o]}

\* The receipt's key is unique: an event that has one leaves no second one.
Receipt(m, o) ==
    /\ ReceiptsFor(m.event) = {}
    /\ receipts' = receipts \cup {[event |-> m.event, body |-> m.body, order |-> o]}

OrdersFor(event) ==
    {o \in Inserted : orders[o].source # Admin /\ orders[o].event = event}

ReceivePayment(m) ==
    /\ m.body.kind = "payment.confirmed"
    /\ Fresh \in OrderIds
    /\ plan
    /\ IssueOrder(Fresh, NewOrder("shop", m.event, m.body.digest))
    /\ Receipt(m, Fresh)

\* The original payment must have been received, else nothing is recorded.
ReceiveRefund(m) ==
    /\ m.body.kind = "payment.refunded"
    /\ Cardinality(OrdersFor(m.body.original)) = 1
    /\ \E o \in OrdersFor(m.body.original) : RefundConfirmed(o) /\ Receipt(m, o)

\* A delivery of an event with a receipt is answered from it or refused.
ReceiveSale(m) ==
    /\ Authentic(m)
    /\ ReceiptsFor(m.event) = {}
    /\ ReceivePayment(m) \/ ReceiveRefund(m)
    /\ UNCHANGED <<plan, channel>>

-----------------------------------------------------------------------------
(* Administration *)

SavePlan(enabled) ==
    /\ plan' = enabled
    /\ UNCHANGED <<channel, orders, licences, cards, receipts>>

RevokeSoldCard(o) ==
    /\ cards[o] # NoCard
    /\ cards' = [cards EXCEPT ![o].status = "revoked"]
    /\ UNCHANGED <<plan, channel, orders, licences, receipts>>

\* Mutant: a revoked licence may be made active again.
SetStatusFreely(o, status) ==
    /\ licences[o] # "none"
    /\ licences' = [licences EXCEPT ![o] = status]
    /\ UNCHANGED <<plan, channel, orders, cards, receipts>>

\* REVOCATION_FINAL
SetSoldStatus(o, status) ==
    /\ licences[o] \notin {"none", "revoked"} \/ status = "revoked"
    /\ licences[o] # "none"
    /\ licences' = [licences EXCEPT ![o] = status]
    /\ UNCHANGED <<plan, channel, orders, cards, receipts>>

\* The first activation of an installation with the card.
ActivateWithCard(o) ==
    /\ licences[o] = "active" /\ cards[o].status = "unused"
    /\ cards' = [cards EXCEPT ![o].status = "used"]
    /\ UNCHANGED <<plan, channel, orders, licences, receipts>>

-----------------------------------------------------------------------------
SalesInit ==
    /\ plan = TRUE
    /\ channel = TRUE
    /\ orders = [o \in OrderIds |-> NoOrder]
    /\ licences = [o \in OrderIds |-> "none"]
    /\ cards = [o \in OrderIds |-> NoCard]
    /\ receipts = {}

SalesNext ==
    \/ \E digest \in Digests, confirmed \in BOOLEAN : CreateSale(digest, confirmed)
    \/ \E o \in OrderIds :
         \/ ConfirmSale(o) \/ RefundSale(o) \/ RevokeSoldCard(o) \/ ActivateWithCard(o)
         \/ \E status \in {"active", "suspended", "revoked"} : SetSoldStatus(o, status)
    \/ \E enabled \in BOOLEAN : SaveSalesChannel(enabled) \/ SavePlan(enabled)
    \/ \E m \in Messages : ReceiveSale(m)

SalesSpec == SalesInit /\ [][SalesNext]_salesVars

-----------------------------------------------------------------------------
(* Properties *)

\* An event of the shop has at most one order, and every order of the shop
\* has the receipt that answers for it when the event comes again.
OrderPerEvent ==
    \A o \in Inserted : orders[o].source # Admin =>
      /\ OrdersFor(orders[o].event) = {o}
      /\ \E r \in receipts :
           r.event = orders[o].event /\ r.order = o
           /\ r.body.kind = "payment.confirmed"

\* A refund is final: its licence and its card stay revoked, whatever is
\* confirmed, delivered, activated or restored later; and each refund that was
\* received has taken effect.
RefundFinal ==
    /\ \A o \in Inserted : orders[o].status = "refunded" =>
         licences[o] = "revoked" /\ cards[o].status = "revoked"
    /\ \A r \in receipts : r.body.kind = "payment.refunded" =>
         orders[r.order].status = "refunded" /\ orders[r.order].event = r.body.original

\* A card of the shop is sold once, refunded orders included.
CardSoldOnce ==
    \A o, p \in Confirmed : orders[o].digest = orders[p].digest => o = p

\* What the shop's event and the administrator's order have sold does not
\* change in meaning: events are sold once, refunds are final, cards are
\* unique (ReceiveSale, refundOrder, issueOrder).
SalesConsistent == OrderPerEvent /\ RefundFinal /\ CardSoldOnce
=============================================================================
