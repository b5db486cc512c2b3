--------------------------- MODULE PlatformProofs ---------------------------
(***************************************************************************)
(* What holds of trade and of the platform's own database for every number *)
(* of orders, cards, requests, processes, files and rows: sales and the    *)
(* shop's deliveries, quotas, the renewal ledger, installation, migrations,*)
(* restore, archives and exports.  The components share no state; each has *)
(* its own invariant, and the platform is all of them side by side.        *)
(***************************************************************************)
EXTENDS Platform, Sums, SequenceTheorems, TLAPS

-----------------------------------------------------------------------------
(* Sales *)

Order == [status : {"pending", "confirmed", "refunded"},
          source : {Admin, "shop"}, event : ShopEvents \cup {Admin},
          digest : Digests]
SoldCard == [status : {"unused", "used", "revoked"}, digest : Digests]
SaleReceipt == [event : ShopEvents, body : SalesBodies, order : OrderIds]

SalesTypes ==
    /\ orders \in [OrderIds -> Order \cup {NoOrder}]
    /\ licences \in [OrderIds -> {"none", "active", "suspended", "revoked"}]
    /\ cards \in [OrderIds -> SoldCard \cup {NoCard}]
    /\ receipts \subseteq SaleReceipt

\* Orders are numbered in the sequence of their insertion; those confirmed once,
\* and only those, have a licence and a card, the one they were sold with.
OrdersInSequence == Inserted = 1 .. Cardinality(Inserted)

ConfirmedHasCard ==
    \A o \in OrderIds :
      IF o \in Confirmed
      THEN cards[o] # NoCard /\ cards[o].digest = orders[o].digest
      ELSE cards[o] = NoCard /\ licences[o] = "none"

RefundRevokes ==
    \A o \in Inserted : orders[o].status = "refunded" =>
      licences[o] = "revoked" /\ cards[o].status = "revoked"

\* What the shop has paid for was confirmed at once, under a receipt.
ShopConfirmed ==
    \A o \in Inserted : orders[o].source # Admin => orders[o].status # "pending"

PaymentReceipt ==
    \A o \in Inserted : orders[o].source # Admin =>
      \E r \in receipts :
        r.event = orders[o].event /\ r.order = o
        /\ r.body.kind = "payment.confirmed"

OneReceipt == \A r, s \in receipts : r.event = s.event => r = s

RefundReceipt ==
    \A r \in receipts : r.body.kind = "payment.refunded" =>
      orders[r.order].status = "refunded" /\ orders[r.order].event = r.body.original

SalesCore ==
    /\ SalesTypes
    /\ OrdersInSequence
    /\ ConfirmedHasCard
    /\ CardSoldOnce
    /\ RefundRevokes
    /\ ShopConfirmed

SalesInv == SalesCore /\ PaymentReceipt /\ OneReceipt /\ RefundReceipt

LEMMA OrderOf ==
    ASSUME SalesTypes, NEW o \in OrderIds
    PROVE  /\ o \in Inserted <=> orders[o] \in Order
           /\ o \in Inserted <=> orders[o].status # "none"
           /\ o \in Confirmed <=> orders[o].status \in {"confirmed", "refunded"}
BY DEF SalesTypes, Order, NoOrder, Inserted, Confirmed

\* The next order is new.
LEMMA FreshNew ==
    ASSUME OrdersInSequence
    PROVE  /\ Fresh \in Nat /\ Fresh \notin Inserted
           /\ IsFiniteSet(Inserted)
<1>1. IsFiniteSet(OrderIds)
  BY SalesAssumption, FS_Interval DEF OrderIds
<1>2. IsFiniteSet(Inserted)
  BY <1>1, FS_Subset DEF Inserted
<1>3. Cardinality(Inserted) \in Nat
  BY <1>2, FS_CardinalityType
<1>4. QED
  BY <1>2, <1>3 DEF OrdersInSequence, Fresh

LEMMA SequenceGrows ==
    ASSUME OrdersInSequence, NEW o,
           Inserted' = Inserted \cup {o}, o = Fresh \/ o \in Inserted
    PROVE  OrdersInSequence'
<1>1. /\ Cardinality(Inserted) \in Nat /\ IsFiniteSet(Inserted)
      /\ Fresh \notin Inserted
  BY FreshNew, FS_CardinalityType
<1>2. CASE o \in Inserted
  BY <1>2 DEF OrdersInSequence
<1>3. CASE o = Fresh
  <2>1. Cardinality(Inserted') = Cardinality(Inserted) + 1
    BY <1>1, <1>3, FS_AddElement
  <2>2. Inserted' = 1 .. (Cardinality(Inserted) + 1)
    BY <1>1, <1>3 DEF OrdersInSequence, Fresh
  <2>3. QED
    BY <2>1, <2>2 DEF OrdersInSequence
<1>4. QED
  BY <1>2, <1>3

\* Issuing an order that is new or waits.
LEMMA IssueKeeps ==
    ASSUME SalesCore, receipts' \subseteq SaleReceipt, NEW o \in OrderIds,
           NEW order \in Order, order.status = "pending",
           o \notin Confirmed, o = Fresh \/ o \in Inserted,
           IssueOrder(o, order)
    PROVE  SalesCore'
<1>1. PICK sold \in Order :
        /\ sold = [order EXCEPT !.status = "confirmed"]
        /\ sold.status = "confirmed" /\ sold.digest = order.digest
        /\ sold.source = order.source /\ sold.event = order.event
  <2> DEFINE new == [order EXCEPT !.status = "confirmed"]
  <2>1. /\ new \in Order
        /\ new.status = "confirmed" /\ new.digest = order.digest
        /\ new.source = order.source /\ new.event = order.event
    BY DEF Order
  <2> HIDE DEF new
  <2>2. QED
    BY <2>1 DEF new
<1>2. /\ orders' = [orders EXCEPT ![o] = sold]
      /\ licences' = [licences EXCEPT ![o] = "active"]
      /\ cards' = [cards EXCEPT ![o] = [status |-> "unused", digest |-> order.digest]]
      /\ DigestFree(order.digest)
  BY <1>1 DEF IssueOrder
<1>3. SalesTypes'
  <2>1. orders' \in [OrderIds -> Order \cup {NoOrder}]
    BY <1>1, <1>2 DEF SalesCore, SalesTypes
  <2>2. [status |-> "unused", digest |-> order.digest] \in SoldCard
    BY DEF SoldCard, Order
  <2>3. cards' \in [OrderIds -> SoldCard \cup {NoCard}]
    BY <1>2, <2>2 DEF SalesCore, SalesTypes
  <2>4. licences' \in [OrderIds -> {"none", "active", "suspended", "revoked"}]
    BY <1>2 DEF SalesCore, SalesTypes
  <2>5. QED
    BY <2>1, <2>3, <2>4 DEF SalesTypes
<1>4. sold # NoOrder
  BY <1>1 DEF NoOrder, Order
<1>5. /\ Inserted' = Inserted \cup {o}
      /\ Confirmed' = Confirmed \cup {o}
  BY <1>1, <1>2, <1>4 DEF Inserted, Confirmed, SalesCore, SalesTypes
<1>6. OrdersInSequence'
  BY <1>5, SequenceGrows DEF SalesCore
<1>7. ConfirmedHasCard'
  BY <1>1, <1>2, <1>5 DEF ConfirmedHasCard, SalesCore, SalesTypes, NoCard
<1>8. CardSoldOnce'
  <2>1. \A p \in Confirmed : p # o /\ orders[p].digest # order.digest
    BY <1>2 DEF DigestFree, ConfirmedHasCard, SalesCore, Confirmed, Inserted
  <2>2. \A p \in Confirmed : orders'[p] = orders[p]
    BY <1>2, <2>1 DEF SalesCore, SalesTypes, Confirmed, Inserted
  <2>3. orders'[o].digest = order.digest
    BY <1>1, <1>2 DEF SalesCore, SalesTypes
  <2>4. QED
    BY <1>5, <2>1, <2>2, <2>3 DEF CardSoldOnce, SalesCore
<1>9. RefundRevokes' /\ ShopConfirmed'
  BY <1>1, <1>2, <1>5 DEF RefundRevokes, ShopConfirmed, SalesCore, SalesTypes, Inserted
<1>10. QED
  BY <1>3, <1>6, <1>7, <1>8, <1>9 DEF SalesCore

\* The receipts as they were, while nothing of a confirmed order changes but
\* its status.
LEMMA ReceiptsStay ==
    ASSUME SalesInv, SalesCore', receipts' = receipts,
           \A o \in Inserted : /\ o \in Inserted'
                               /\ orders'[o].source = orders[o].source
                               /\ orders'[o].event = orders[o].event
                               /\ orders[o].status = "refunded"
                                    => orders'[o].status = "refunded",
           \A o \in OrderIds \ Inserted :
             o \in Inserted' => orders'[o].source = Admin
    PROVE  SalesInv'
<1>1. PaymentReceipt'
  BY DEF SalesInv, PaymentReceipt, Inserted
<1>2. \A r \in receipts : r.order \in OrderIds
  BY DEF SalesInv, SalesCore, SalesTypes, SaleReceipt
<1>3. RefundReceipt'
  <2> SUFFICES ASSUME NEW r \in receipts, r.body.kind = "payment.refunded"
               PROVE  /\ orders'[r.order].status = "refunded"
                      /\ orders'[r.order].event = r.body.original
    BY DEF RefundReceipt
  <2>1. /\ orders[r.order].status = "refunded"
        /\ orders[r.order].event = r.body.original
    BY DEF SalesInv, RefundReceipt
  <2>2. r.order \in Inserted
    BY <1>2, <2>1, OrderOf DEF SalesInv, SalesCore
  <2>3. QED
    BY <2>1, <2>2
<1>4. OneReceipt'
  BY DEF SalesInv, OneReceipt
<1>5. QED
  BY <1>1, <1>3, <1>4 DEF SalesInv

\* A new order has its place; one that waits keeps what it is for.
LEMMA IssueMaps ==
    ASSUME SalesTypes, NEW o \in OrderIds, NEW order \in Order,
           IssueOrder(o, order)
    PROVE  /\ o \in Inserted'
           /\ \A p \in OrderIds \ {o} : orders'[p] = orders[p]
           /\ orders'[o].source = order.source
           /\ orders'[o].event = order.event
           /\ orders'[o].status = "confirmed"
<1> DEFINE sold == [order EXCEPT !.status = "confirmed"]
<1>1. /\ sold # NoOrder /\ sold.status = "confirmed"
      /\ sold.source = order.source /\ sold.event = order.event
  BY DEF Order, NoOrder
<1>2. orders' = [orders EXCEPT ![o] = sold]
  BY DEF IssueOrder
<1> HIDE DEF sold
<1>3. QED
  BY <1>1, <1>2 DEF SalesTypes, Inserted

LEMMA CreateSaleKeeps ==
    ASSUME SalesInv, NEW digest \in Digests, NEW confirmed \in BOOLEAN,
           CreateSale(digest, confirmed)
    PROVE  SalesInv'
<1>1. PICK order \in Order :
        /\ order = NewOrder(Admin, Admin, digest)
        /\ order.status = "pending" /\ order.source = Admin
        /\ order.digest = digest
  <2> DEFINE new == NewOrder(Admin, Admin, digest)
  <2>1. /\ new \in Order /\ new.status = "pending" /\ new.source = Admin
        /\ new.digest = digest
    BY DEF NewOrder, Order
  <2>2. QED
    BY <2>1
<1>2. PICK o \in OrderIds : o = Fresh
  BY DEF CreateSale
<1>3. /\ o \notin Inserted /\ o \notin Confirmed /\ receipts' = receipts
      /\ receipts \subseteq SaleReceipt
      /\ orders[o] = NoOrder
  BY <1>2, FreshNew DEF SalesInv, SalesCore, SalesTypes, Confirmed, CreateSale, Inserted
<1>4. CASE confirmed
  <2>1. IssueOrder(o, order)
    BY <1>1, <1>2, <1>4 DEF CreateSale
  <2>2. SalesCore'
    BY <1>1, <1>2, <1>3, <2>1, IssueKeeps DEF SalesInv
  <2>3. /\ \A p \in OrderIds \ {o} : orders'[p] = orders[p]
        /\ orders'[o].source = Admin
    BY <1>1, <2>1, IssueMaps DEF SalesInv, SalesCore
  <2>4. \A p \in Inserted : p # o /\ orders'[p] = orders[p] /\ p \in Inserted'
    BY <1>3, <2>3 DEF Inserted
  <2>5. \A p \in OrderIds \ Inserted : p \in Inserted' => orders'[p].source = Admin
    BY <2>3 DEF Inserted
  <2>6. QED
    BY <1>3, <2>2, <2>4, <2>5, ReceiptsStay
<1>5. CASE ~confirmed
  <2>1. /\ orders' = [orders EXCEPT ![o] = order]
        /\ UNCHANGED <<licences, cards>>
    BY <1>1, <1>2, <1>5 DEF CreateSale, InsertPending
  <2>2. order # NoOrder
    BY DEF NoOrder, Order
  <2>3. /\ Inserted' = Inserted \cup {o}
        /\ Confirmed' = Confirmed
    BY <1>1, <1>3, <2>1, <2>2 DEF Inserted, Confirmed, SalesInv, SalesCore, SalesTypes
  <2>4. SalesTypes'
    BY <1>3, <2>1 DEF SalesInv, SalesCore, SalesTypes
  <2>5. OrdersInSequence'
    BY <1>2, <2>3, SequenceGrows DEF SalesInv, SalesCore
  <2>6. \A p \in Inserted : p # o /\ orders'[p] = orders[p]
    BY <1>3, <2>1 DEF SalesInv, SalesCore, SalesTypes, Inserted
  <2>7. orders'[o] = order
    BY <2>1 DEF SalesInv, SalesCore, SalesTypes
  <2>8. ConfirmedHasCard' /\ CardSoldOnce'
    BY <2>1, <2>3, <2>6 DEF SalesInv, SalesCore, ConfirmedHasCard, CardSoldOnce, Confirmed
  <2>9. RefundRevokes' /\ ShopConfirmed'
    BY <1>1, <2>1, <2>3, <2>6, <2>7 DEF SalesInv, SalesCore, RefundRevokes, ShopConfirmed
  <2>10. SalesCore'
    BY <2>4, <2>5, <2>8, <2>9 DEF SalesCore
  <2>11. \A p \in OrderIds \ Inserted : p \in Inserted' => orders'[p].source = Admin
    BY <1>1, <2>3, <2>7
  <2>12. QED
    BY <1>3, <2>3, <2>6, <2>10, <2>11, ReceiptsStay
<1>6. QED
  BY <1>4, <1>5

LEMMA ConfirmSaleKeeps ==
    ASSUME SalesInv, NEW o \in OrderIds, ConfirmSale(o)
    PROVE  SalesInv'
<1>1. PICK order \in Order : order = orders[o]
  BY OrderOf DEF ConfirmSale, SalesInv, SalesCore
<1>2. /\ o \in Inserted /\ o \notin Confirmed /\ order.status = "pending"
      /\ IssueOrder(o, order)
      /\ receipts' = receipts /\ receipts \subseteq SaleReceipt
  BY <1>1, OrderOf DEF ConfirmSale, SalesInv, SalesCore, SalesTypes
<1>3. SalesCore'
  BY <1>2, IssueKeeps DEF SalesInv
<1>4. /\ o \in Inserted'
      /\ \A p \in OrderIds \ {o} : orders'[p] = orders[p]
      /\ orders'[o].source = order.source /\ orders'[o].event = order.event
  BY <1>2, IssueMaps DEF SalesInv, SalesCore
<1>5. \A p \in Inserted : /\ p \in Inserted'
                          /\ orders'[p].source = orders[p].source
                          /\ orders'[p].event = orders[p].event
                          /\ orders[p].status = "refunded"
                               => orders'[p].status = "refunded"
  BY <1>1, <1>2, <1>4 DEF Inserted
<1>6. \A p \in OrderIds \ Inserted : p \in Inserted' => orders'[p].source = Admin
  BY <1>2, <1>4 DEF Inserted
<1>7. QED
  BY <1>2, <1>3, <1>5, <1>6, ReceiptsStay

\* What a refund does to the orders.
LEMMA RefundKeeps ==
    ASSUME SalesCore, receipts' \subseteq SaleReceipt, NEW o \in OrderIds,
           RefundConfirmed(o)
    PROVE  /\ SalesCore'
           /\ Inserted' = Inserted /\ o \in Inserted
           /\ orders'[o].status = "refunded"
           /\ \A p \in Inserted : /\ orders'[p].source = orders[p].source
                                  /\ orders'[p].event = orders[p].event
                                  /\ orders[p].status = "refunded"
                                       => orders'[p].status = "refunded"
<1>1. o \in Inserted /\ o \in Confirmed /\ orders[o] \in Order
  BY OrderOf DEF RefundConfirmed, SalesCore
<1>2. CASE orders[o].status = "refunded"
  <2>1. UNCHANGED <<orders, licences, cards>>
    BY <1>2 DEF RefundConfirmed
  <2>2. SalesCore'
    BY <2>1 DEF SalesCore, SalesTypes, OrdersInSequence, ConfirmedHasCard, CardSoldOnce,
                RefundRevokes, ShopConfirmed, Inserted, Confirmed
  <2>3. QED
    BY <1>1, <1>2, <2>1, <2>2 DEF Inserted
<1>3. CASE orders[o].status # "refunded"
  <2>1. PICK done \in Order :
          /\ orders' = [orders EXCEPT ![o] = done]
          /\ done.status = "refunded" /\ done.digest = orders[o].digest
          /\ done.source = orders[o].source /\ done.event = orders[o].event
    <3> DEFINE new == [orders[o] EXCEPT !.status = "refunded"]
    <3>1. /\ new \in Order
          /\ new.status = "refunded" /\ new.digest = orders[o].digest
          /\ new.source = orders[o].source /\ new.event = orders[o].event
      BY <1>1 DEF Order
    <3>2. orders' = [orders EXCEPT ![o] = new]
      BY <1>3 DEF RefundConfirmed
    <3> HIDE DEF new
    <3>3. QED
      BY <3>1, <3>2
  <2>2. PICK void \in SoldCard :
          /\ cards' = [cards EXCEPT ![o] = void]
          /\ void.status = "revoked" /\ void.digest = cards[o].digest
    <3> DEFINE new == [cards[o] EXCEPT !.status = "revoked"]
    <3>1. cards[o] \in SoldCard
      BY <1>1 DEF SalesCore, SalesTypes, ConfirmedHasCard
    <3>2. new \in SoldCard /\ new.status = "revoked" /\ new.digest = cards[o].digest
      BY <3>1 DEF SoldCard
    <3>3. cards' = [cards EXCEPT ![o] = new]
      BY <1>3 DEF RefundConfirmed
    <3> HIDE DEF new
    <3>4. QED
      BY <3>2, <3>3
  <2>3. licences' = [licences EXCEPT ![o] = "revoked"]
    BY <1>3 DEF RefundConfirmed
  <2>4. SalesTypes'
    BY <2>1, <2>2, <2>3 DEF SalesCore, SalesTypes
  <2>5. done # NoOrder /\ void # NoCard
    BY DEF NoOrder, Order, NoCard, SoldCard
  <2>6. Inserted' = Inserted /\ Confirmed' = Confirmed
    BY <1>1, <2>1, <2>5 DEF Inserted, Confirmed, SalesCore, SalesTypes
  <2>7. \A p \in OrderIds : /\ orders'[p] = IF p = o THEN done ELSE orders[p]
                            /\ licences'[p] = IF p = o THEN "revoked" ELSE licences[p]
                            /\ cards'[p] = IF p = o THEN void ELSE cards[p]
    BY <2>1, <2>2, <2>3 DEF SalesCore, SalesTypes
  <2>8. ConfirmedHasCard'
    <3>1. \A p \in OrderIds :
            IF p \in Confirmed
            THEN cards'[p] # NoCard /\ cards'[p].digest = orders'[p].digest
            ELSE cards'[p] = NoCard /\ licences'[p] = "none"
      BY <1>1, <2>1, <2>2, <2>5, <2>7 DEF SalesCore, ConfirmedHasCard
    <3>2. QED
      BY <2>6, <3>1 DEF ConfirmedHasCard
  <2>9. CardSoldOnce'
    <3>1. \A p \in Confirmed : orders'[p].digest = orders[p].digest
      BY <2>1, <2>7 DEF Confirmed, Inserted
    <3>2. QED
      BY <2>6, <3>1 DEF SalesCore, CardSoldOnce
  <2>10. RefundRevokes' /\ ShopConfirmed' /\ OrdersInSequence'
    <3>1. \A p \in Inserted :
            /\ orders'[p].status = "refunded" =>
                 licences'[p] = "revoked" /\ cards'[p].status = "revoked"
            /\ orders'[p].source # Admin => orders'[p].status # "pending"
      BY <2>1, <2>2, <2>7 DEF SalesCore, RefundRevokes, ShopConfirmed, Inserted
    <3>2. QED
      BY <2>6, <3>1 DEF SalesCore, RefundRevokes, ShopConfirmed, OrdersInSequence
  <2>11. SalesCore'
    BY <2>4, <2>8, <2>9, <2>10 DEF SalesCore
  <2>12. QED
    BY <1>1, <2>1, <2>6, <2>7, <2>11 DEF Inserted
<1>4. QED
  BY <1>2, <1>3

LEMMA RefundSaleKeeps ==
    ASSUME SalesInv, NEW o \in OrderIds, RefundSale(o)
    PROVE  SalesInv'
<1>1. /\ receipts' = receipts /\ receipts' \subseteq SaleReceipt
      /\ RefundConfirmed(o)
  BY DEF RefundSale, SalesInv, SalesCore, SalesTypes
<1>2. /\ SalesCore' /\ Inserted' = Inserted
      /\ \A p \in Inserted : /\ orders'[p].source = orders[p].source
                             /\ orders'[p].event = orders[p].event
                             /\ orders[p].status = "refunded"
                                  => orders'[p].status = "refunded"
  BY <1>1, RefundKeeps DEF SalesInv
<1>3. QED
  BY <1>1, <1>2, ReceiptsStay

\* The receipt of an event seen for the first time.
LEMMA ReceiptNew ==
    ASSUME SalesInv, NEW m \in Messages, NEW o \in OrderIds, Receipt(m, o)
    PROVE  \E r \in SaleReceipt :
             /\ r.event = m.event /\ r.body = m.body /\ r.order = o
             /\ receipts' = receipts \cup {r}
             /\ receipts' \subseteq SaleReceipt
             /\ OneReceipt'
<1> DEFINE r == [event |-> m.event, body |-> m.body, order |-> o]
<1>1. /\ r \in SaleReceipt
      /\ r.event = m.event /\ r.body = m.body /\ r.order = o
  BY DEF SaleReceipt, Messages
<1>2. receipts' = receipts \cup {r} /\ \A s \in receipts : s.event # m.event
  BY DEF Receipt, ReceiptsFor
<1> HIDE DEF r
<1>3. receipts' \subseteq SaleReceipt
  BY <1>1, <1>2 DEF SalesInv, SalesCore, SalesTypes
<1>4. OneReceipt'
  BY <1>1, <1>2 DEF SalesInv, OneReceipt
<1>5. QED
  BY <1>1, <1>2, <1>3, <1>4

LEMMA ReceivePaymentKeeps ==
    ASSUME SalesInv, NEW m \in Messages, ReceivePayment(m)
    PROVE  SalesInv'
<1>1. /\ m.event \in ShopEvents /\ m.body.digest \in Digests
      /\ m.body.kind = "payment.confirmed"
  BY DEF ReceivePayment, Messages, SalesBodies
<1>2. PICK order \in Order :
        /\ order = NewOrder("shop", m.event, m.body.digest)
        /\ order.status = "pending" /\ order.source = "shop"
        /\ order.event = m.event
  <2> DEFINE new == NewOrder("shop", m.event, m.body.digest)
  <2>1. /\ new \in Order /\ new.status = "pending" /\ new.source = "shop"
        /\ new.event = m.event
    BY <1>1 DEF NewOrder, Order
  <2>2. QED
    BY <2>1
<1>3. PICK o \in OrderIds : o = Fresh
  BY DEF ReceivePayment
<1>4. /\ o \notin Inserted /\ o \notin Confirmed
      /\ IssueOrder(o, order) /\ Receipt(m, o)
  BY <1>2, <1>3, FreshNew DEF SalesInv, SalesCore, Confirmed, ReceivePayment
<1>5. PICK r \in SaleReceipt :
        /\ r.event = m.event /\ r.body = m.body /\ r.order = o
        /\ receipts' = receipts \cup {r}
        /\ receipts' \subseteq SaleReceipt
        /\ OneReceipt'
  BY <1>4, ReceiptNew
<1>6. SalesCore'
  BY <1>2, <1>3, <1>4, <1>5, IssueKeeps DEF SalesInv
<1>7. /\ o \in Inserted'
      /\ \A p \in OrderIds \ {o} : orders'[p] = orders[p]
      /\ orders'[o].source = "shop" /\ orders'[o].event = m.event
  BY <1>2, <1>4, IssueMaps DEF SalesInv, SalesCore
<1>8. PaymentReceipt'
  <2> SUFFICES ASSUME NEW p \in Inserted', orders'[p].source # Admin
               PROVE  \E s \in receipts' :
                        /\ s.event = orders'[p].event /\ s.order = p
                        /\ s.body.kind = "payment.confirmed"
    BY DEF PaymentReceipt
  <2>1. CASE p = o
    BY <1>1, <1>5, <1>7, <2>1
  <2>2. CASE p # o
    <3>1. p \in Inserted /\ orders'[p] = orders[p]
      BY <1>7, <2>2 DEF Inserted
    <3>2. QED
      BY <1>5, <3>1 DEF SalesInv, PaymentReceipt
  <2>3. QED
    BY <2>1, <2>2
<1>9. RefundReceipt'
  <2> SUFFICES ASSUME NEW s \in receipts', s.body.kind = "payment.refunded"
               PROVE  /\ orders'[s.order].status = "refunded"
                      /\ orders'[s.order].event = s.body.original
    BY DEF RefundReceipt
  <2>1. s \in receipts
    BY <1>1, <1>5
  <2>2. /\ orders[s.order].status = "refunded"
        /\ orders[s.order].event = s.body.original
        /\ s.order \in OrderIds
    BY <2>1 DEF SalesInv, SalesCore, SalesTypes, RefundReceipt, SaleReceipt
  <2>3. s.order # o
    BY <1>4, <2>2, OrderOf DEF SalesInv, SalesCore
  <2>4. QED
    BY <1>7, <2>2, <2>3
<1>10. QED
  BY <1>5, <1>6, <1>8, <1>9 DEF SalesInv

LEMMA ReceiveRefundKeeps ==
    ASSUME SalesInv, NEW m \in Messages, ReceiveRefund(m)
    PROVE  SalesInv'
<1>1. m.body.kind = "payment.refunded"
  BY DEF ReceiveRefund
<1>2. PICK o \in OrdersFor(m.body.original) : RefundConfirmed(o) /\ Receipt(m, o)
  BY DEF ReceiveRefund
<1>3. o \in OrderIds /\ orders[o].event = m.body.original
  BY DEF OrdersFor, Inserted
<1>4. PICK r \in SaleReceipt :
        /\ r.event = m.event /\ r.body = m.body /\ r.order = o
        /\ receipts' = receipts \cup {r}
        /\ receipts' \subseteq SaleReceipt
        /\ OneReceipt'
  BY <1>2, <1>3, ReceiptNew
<1>5. /\ SalesCore' /\ Inserted' = Inserted /\ o \in Inserted
      /\ orders'[o].status = "refunded"
      /\ \A p \in Inserted : /\ orders'[p].source = orders[p].source
                             /\ orders'[p].event = orders[p].event
                             /\ orders[p].status = "refunded"
                                  => orders'[p].status = "refunded"
  BY <1>2, <1>3, <1>4, RefundKeeps DEF SalesInv
<1>6. PaymentReceipt'
  <2>1. \A p \in Inserted : orders'[p].source # Admin =>
          \E s \in receipts : /\ s.event = orders'[p].event /\ s.order = p
                              /\ s.body.kind = "payment.confirmed"
    BY <1>5 DEF SalesInv, PaymentReceipt
  <2>2. QED
    BY <1>4, <1>5, <2>1 DEF PaymentReceipt
<1>7. RefundReceipt'
  <2> SUFFICES ASSUME NEW s \in receipts', s.body.kind = "payment.refunded"
               PROVE  /\ orders'[s.order].status = "refunded"
                      /\ orders'[s.order].event = s.body.original
    BY DEF RefundReceipt
  <2>1. CASE s = r
    BY <1>3, <1>4, <1>5, <2>1
  <2>2. CASE s \in receipts
    <3>1. /\ orders[s.order].status = "refunded"
          /\ orders[s.order].event = s.body.original
          /\ s.order \in OrderIds
      BY <2>2 DEF SalesInv, SalesCore, SalesTypes, RefundReceipt, SaleReceipt
    <3>2. s.order \in Inserted
      BY <3>1, OrderOf DEF SalesInv, SalesCore
    <3>3. QED
      BY <1>5, <3>1, <3>2
  <2>3. QED
    BY <1>4, <2>1, <2>2
<1>8. QED
  BY <1>4, <1>5, <1>6, <1>7 DEF SalesInv

\* Steps that leave the orders and the receipts alone.
LEMMA OrdersUntouched ==
    ASSUME SalesInv, UNCHANGED <<orders, receipts>>,
           licences' \in [OrderIds -> {"none", "active", "suspended", "revoked"}],
           cards' \in [OrderIds -> SoldCard \cup {NoCard}],
           \A o \in OrderIds :
             /\ licences[o] = "none" => licences'[o] = "none"
             /\ cards[o] = NoCard <=> cards'[o] = NoCard
             /\ cards[o] # NoCard => cards'[o].digest = cards[o].digest
             /\ licences[o] = "revoked" => licences'[o] = "revoked",
           \A o \in Inserted :
             orders[o].status = "refunded" => cards'[o].status = "revoked"
    PROVE  SalesInv'
<1>1. Inserted' = Inserted /\ Confirmed' = Confirmed
  BY DEF Inserted, Confirmed
<1>2. SalesTypes'
  BY DEF SalesInv, SalesCore, SalesTypes
<1>3. ConfirmedHasCard'
  <2>1. \A o \in OrderIds :
          IF o \in Confirmed
          THEN cards'[o] # NoCard /\ cards'[o].digest = orders[o].digest
          ELSE cards'[o] = NoCard /\ licences'[o] = "none"
    BY DEF SalesInv, SalesCore, ConfirmedHasCard
  <2>2. QED
    BY <1>1, <2>1 DEF ConfirmedHasCard
<1>4. RefundRevokes'
  BY <1>1 DEF SalesInv, SalesCore, RefundRevokes, Inserted
<1>5. OrdersInSequence' /\ CardSoldOnce' /\ ShopConfirmed'
  BY <1>1 DEF SalesInv, SalesCore, OrdersInSequence, CardSoldOnce, ShopConfirmed
<1>6. SalesCore'
  BY <1>2, <1>3, <1>4, <1>5 DEF SalesCore
<1>7. QED
  BY <1>1, <1>6, ReceiptsStay

LEMMA SoldStatusKeeps ==
    ASSUME SalesInv, NEW o \in OrderIds,
           NEW status \in {"active", "suspended", "revoked"},
           SetSoldStatus(o, status)
    PROVE  SalesInv'
<1>1. /\ licences' = [licences EXCEPT ![o] = status]
      /\ licences[o] # "none"
      /\ licences[o] = "revoked" => status = "revoked"
      /\ UNCHANGED <<orders, cards, receipts>>
  BY DEF SetSoldStatus
<1>2. licences' \in [OrderIds -> {"none", "active", "suspended", "revoked"}]
  BY <1>1 DEF SalesInv, SalesCore, SalesTypes
<1>3. \A p \in OrderIds : /\ licences[p] = "none" => licences'[p] = "none"
                          /\ licences[p] = "revoked" => licences'[p] = "revoked"
  BY <1>1 DEF SalesInv, SalesCore, SalesTypes
<1>4. cards \in [OrderIds -> SoldCard \cup {NoCard}]
  BY DEF SalesInv, SalesCore, SalesTypes
<1>5. \A p \in Inserted : orders[p].status = "refunded" => cards[p].status = "revoked"
  BY DEF SalesInv, SalesCore, RefundRevokes
<1>6. QED
  BY <1>1, <1>2, <1>3, <1>4, <1>5, OrdersUntouched

\* A card changes its status.
LEMMA CardStatusKeeps ==
    ASSUME SalesInv, NEW o \in OrderIds, cards[o] # NoCard,
           NEW status \in {"used", "revoked"},
           cards' = [cards EXCEPT ![o].status = status],
           o \in Inserted /\ orders[o].status = "refunded" => status = "revoked",
           UNCHANGED <<orders, receipts, licences>>
    PROVE  SalesInv'
<1>1. PICK card0 \in SoldCard :
        /\ cards' = [cards EXCEPT ![o] = card0]
        /\ card0.status = status /\ card0.digest = cards[o].digest
  <2> DEFINE new == [cards[o] EXCEPT !.status = status]
  <2>1. cards[o] \in SoldCard
    BY DEF SalesInv, SalesCore, SalesTypes
  <2>2. new \in SoldCard /\ new.status = status /\ new.digest = cards[o].digest
    BY <2>1 DEF SoldCard
  <2>3. cards' = [cards EXCEPT ![o] = new]
    OBVIOUS
  <2> HIDE DEF new
  <2>4. QED
    BY <2>2, <2>3
<1>2. card0 # NoCard
  BY DEF NoCard, SoldCard
<1>3. cards' \in [OrderIds -> SoldCard \cup {NoCard}]
  BY <1>1 DEF SalesInv, SalesCore, SalesTypes
<1>4. \A p \in OrderIds : cards'[p] = IF p = o THEN card0 ELSE cards[p]
  BY <1>1 DEF SalesInv, SalesCore, SalesTypes
<1>5. \A p \in OrderIds : /\ cards[p] = NoCard <=> cards'[p] = NoCard
                          /\ cards[p] # NoCard => cards'[p].digest = cards[p].digest
  BY <1>1, <1>2, <1>4
<1>6. \A p \in Inserted : orders[p].status = "refunded" => cards'[p].status = "revoked"
  BY <1>1, <1>4 DEF SalesInv, SalesCore, RefundRevokes, Inserted
<1>7. licences \in [OrderIds -> {"none", "active", "suspended", "revoked"}]
  BY DEF SalesInv, SalesCore, SalesTypes
<1>8. QED
  BY <1>3, <1>5, <1>6, <1>7, OrdersUntouched

LEMMA SalesStart == SalesInit => SalesInv
<1> SUFFICES ASSUME SalesInit PROVE SalesInv
  OBVIOUS
<1>1. /\ orders = [o \in OrderIds |-> NoOrder]
      /\ licences = [o \in OrderIds |-> "none"]
      /\ cards = [o \in OrderIds |-> NoCard]
      /\ receipts = {}
  BY DEF SalesInit
<1>2. Inserted = {} /\ Confirmed = {}
  BY <1>1 DEF Inserted, Confirmed
<1>3. OrdersInSequence
  BY <1>2, FS_EmptySet DEF OrdersInSequence
<1>4. SalesTypes /\ ConfirmedHasCard
  BY <1>1, <1>2 DEF SalesTypes, ConfirmedHasCard
<1>5. CardSoldOnce /\ RefundRevokes /\ ShopConfirmed /\ PaymentReceipt
  BY <1>2 DEF CardSoldOnce, RefundRevokes, ShopConfirmed, PaymentReceipt
<1>6. OneReceipt /\ RefundReceipt
  BY <1>1 DEF OneReceipt, RefundReceipt
<1>7. QED
  BY <1>3, <1>4, <1>5, <1>6 DEF SalesInv, SalesCore

LEMMA SalesStay ==
    ASSUME SalesInv, UNCHANGED <<orders, licences, cards, receipts>>
    PROVE  SalesInv'
<1>1. /\ licences \in [OrderIds -> {"none", "active", "suspended", "revoked"}]
      /\ cards \in [OrderIds -> SoldCard \cup {NoCard}]
      /\ \A o \in Inserted : orders[o].status = "refunded" => cards[o].status = "revoked"
  BY DEF SalesInv, SalesCore, SalesTypes, RefundRevokes
<1>2. QED
  BY <1>1, OrdersUntouched

LEMMA SalesStep == SalesInv /\ [SalesNext]_salesVars => SalesInv'
<1> SUFFICES ASSUME SalesInv, [SalesNext]_salesVars PROVE SalesInv'
  OBVIOUS
<1>1. ASSUME NEW digest \in Digests, NEW confirmed \in BOOLEAN,
             CreateSale(digest, confirmed)
      PROVE  SalesInv'
  BY <1>1, CreateSaleKeeps
<1>2. ASSUME NEW o \in OrderIds, ConfirmSale(o) PROVE SalesInv'
  BY <1>2, ConfirmSaleKeeps
<1>3. ASSUME NEW o \in OrderIds, RefundSale(o) PROVE SalesInv'
  BY <1>3, RefundSaleKeeps
<1>4. ASSUME NEW o \in OrderIds, RevokeSoldCard(o) PROVE SalesInv'
  BY <1>4, CardStatusKeeps DEF RevokeSoldCard
<1>5. ASSUME NEW o \in OrderIds, ActivateWithCard(o) PROVE SalesInv'
  <2>1. cards[o] # NoCard
    BY <1>5 DEF ActivateWithCard, NoCard
  <2>2. ~(o \in Inserted /\ orders[o].status = "refunded")
    BY <1>5 DEF ActivateWithCard, SalesInv, SalesCore, RefundRevokes
  <2>3. QED
    BY <1>5, <2>1, <2>2, CardStatusKeeps DEF ActivateWithCard
<1>6. ASSUME NEW o \in OrderIds, NEW status \in {"active", "suspended", "revoked"},
             SetSoldStatus(o, status)
      PROVE  SalesInv'
  BY <1>6, SoldStatusKeeps
<1>7. ASSUME NEW enabled \in BOOLEAN, SaveSalesChannel(enabled) \/ SavePlan(enabled)
      PROVE  SalesInv'
  BY <1>7, SalesStay DEF SaveSalesChannel, SavePlan
<1>8. ASSUME NEW m \in Messages, ReceiveSale(m) PROVE SalesInv'
  BY <1>8, ReceivePaymentKeeps, ReceiveRefundKeeps DEF ReceiveSale
<1>9. CASE UNCHANGED salesVars
  BY <1>9, SalesStay DEF salesVars
<1>10. QED
  BY <1>1, <1>2, <1>3, <1>4, <1>5, <1>6, <1>7, <1>8, <1>9 DEF SalesNext

\* The inductive invariant of orders, licences, cards and receipts (CreateSale,
\* ConfirmSale, ReceiveSale, refundOrder).
THEOREM SalesInvariant == SalesSpec => []SalesInv
  BY SalesStart, SalesStep, PTL DEF SalesSpec

\* Whatever the shop repeats, delays and reorders: an event is sold once, a
\* refund is final, a card is sold once (ReceiveSale, refundOrder, issueOrder).
THEOREM SalesConsistentHolds == SalesSpec => []SalesConsistent
<1>1. SalesInv => OrderPerEvent
  <2> SUFFICES ASSUME SalesInv, NEW o \in Inserted, orders[o].source # Admin
               PROVE  /\ OrdersFor(orders[o].event) = {o}
                      /\ \E r \in receipts :
                           r.event = orders[o].event /\ r.order = o
                           /\ r.body.kind = "payment.confirmed"
    BY DEF OrderPerEvent
  <2>1. \A p \in OrdersFor(orders[o].event) : p = o
    BY DEF SalesInv, PaymentReceipt, OneReceipt, OrdersFor
  <2>2. o \in OrdersFor(orders[o].event)
    BY DEF OrdersFor
  <2>3. QED
    BY <2>1, <2>2 DEF SalesInv, PaymentReceipt
<1>2. SalesInv => RefundFinal /\ CardSoldOnce
  BY DEF SalesInv, SalesCore, RefundFinal, RefundRevokes, RefundReceipt
<1>3. QED
  BY <1>1, <1>2, SalesInvariant, PTL DEF SalesConsistent

-----------------------------------------------------------------------------
(* Restore *)

Run == [at : {"unpacked", "checked", "empty", "importing", "imported"},
        archive : Archives, to : Destinations, db : DumpTargets]

RestoreTypes ==
    /\ published \in [Destinations ->
         [archive : Archives, db : DumpTargets \cup {"none"}] \cup {NotThere}]
    /\ DOMAIN content = DumpTargets
    /\ restoring \in Run \cup {NotRunning}

\* What the running tool has made sure of, until its archive is published.
RunAlone ==
    restoring # NotRunning =>
      /\ restoring.at # "unpacked" => restoring.archive \in Intact
      /\ restoring.at \in {"empty", "importing"} => restoring.archive \in Dumps
      /\ restoring.at \in {"empty", "importing", "imported"}
           /\ restoring.archive \in Dumps =>
           /\ \A d \in Destinations : published[d].db # restoring.db
           /\ content[restoring.db] =
                CASE restoring.at = "empty" -> Empty
                  [] restoring.at = "importing" -> Holds(restoring.archive, FALSE)
                  [] OTHER -> Holds(restoring.archive, TRUE)

\* A destination names a database exactly when its archive holds a dump.
NamesItsDatabase ==
    \A d \in Destinations : published[d] # NotThere =>
      (published[d].archive \in Dumps <=> published[d].db \in DumpTargets)

RestoreInv == RestoreTypes /\ RunAlone /\ NamesItsDatabase /\ RestoreSound

LEMMA RunType ==
    ASSUME RestoreTypes, restoring # NotRunning
    PROVE  restoring \in Run
BY DEF RestoreTypes

\* A step of the tool.
LEMMA GoesType ==
    ASSUME RestoreTypes, restoring # NotRunning,
           NEW at \in {"unpacked", "checked", "empty", "importing", "imported"},
           Goes(at)
    PROVE  /\ restoring' \in Run /\ restoring' # NotRunning
           /\ restoring'.at = at /\ restoring'.archive = restoring.archive
           /\ restoring'.to = restoring.to /\ restoring'.db = restoring.db
BY RunType DEF Goes, Run, NotRunning

LEMMA NotYetRunning ==
    /\ NotRunning.at = "idle"
    /\ \A r \in Run : r # NotRunning /\ r.at # "idle"
BY DEF NotRunning, Run

\* What is published, or was imported for somebody else, is no empty database.
LEMMA EmptyUnnamed ==
    ASSUME RestoreInv, NEW db \in DumpTargets, content[db] = Empty,
           NEW d \in Destinations
    PROVE  published[d].db # db
<1> SUFFICES ASSUME published[d].db = db PROVE FALSE
  OBVIOUS
<1>1. published[d] # NotThere
  BY RestoreAssumption DEF NotThere
<1>2. published[d].archive \in Dumps /\ published[d].archive # "none"
  BY <1>1, RestoreAssumption DEF RestoreInv, NamesItsDatabase, RestoreTypes
<1>3. content[db] = Holds(published[d].archive, TRUE)
  BY <1>1, <1>2 DEF RestoreInv, RestoreSound
<1>4. QED
  BY <1>2, <1>3 DEF Empty, Holds

LEMMA RestoreStart == RestoreInit => RestoreInv
BY DEF RestoreInit, RestoreInv, RestoreTypes, RunAlone, NamesItsDatabase, RestoreSound

LEMMA UnpackKeeps ==
    ASSUME RestoreInv, NEW a \in Archives, NEW d \in Destinations,
           NEW db \in DumpTargets, Unpack(a, d, db)
    PROVE  RestoreInv'
<1>1. /\ restoring' = [at |-> "unpacked", archive |-> a, to |-> d, db |-> db]
      /\ UNCHANGED <<published, content>>
  BY DEF Unpack
<1>2. RestoreTypes' /\ RunAlone'
  BY <1>1 DEF RestoreInv, RestoreTypes, Run, RunAlone
<1>3. NamesItsDatabase' /\ RestoreSound'
  BY <1>1 DEF RestoreInv, NamesItsDatabase, RestoreSound
<1>4. QED
  BY <1>2, <1>3 DEF RestoreInv

\* The tool ends, or goes on without having written.
LEMMA EndKeeps ==
    ASSUME RestoreInv, restoring' = NotRunning, UNCHANGED <<published, content>>
    PROVE  RestoreInv'
BY DEF RestoreInv, RestoreTypes, RunAlone, NamesItsDatabase, RestoreSound

LEMMA CheckArchiveKeeps ==
    ASSUME RestoreInv, CheckArchive
    PROVE  RestoreInv'
<1>1. CASE restoring.archive \in Intact
  <2>1. /\ Goes("checked") /\ UNCHANGED <<published, content>>
        /\ restoring # NotRunning
    BY <1>1, NotYetRunning DEF CheckArchive
  <2>2. /\ restoring' \in Run /\ restoring' # NotRunning
        /\ restoring'.at = "checked" /\ restoring'.archive = restoring.archive
    BY <2>1, GoesType DEF RestoreInv
  <2>3. RestoreTypes' /\ RunAlone'
    BY <1>1, <2>1, <2>2 DEF RestoreInv, RestoreTypes, RunAlone
  <2>4. NamesItsDatabase' /\ RestoreSound'
    BY <2>1 DEF RestoreInv, NamesItsDatabase, RestoreSound
  <2>5. QED
    BY <2>3, <2>4 DEF RestoreInv
<1>2. CASE restoring.archive \notin Intact
  BY <1>2, EndKeeps DEF CheckArchive
<1>3. QED
  BY <1>1, <1>2

LEMMA DatabaseEmptyKeeps ==
    ASSUME RestoreInv, DatabaseEmpty
    PROVE  RestoreInv'
<1>1. /\ restoring.at = "checked" /\ restoring # NotRunning
      /\ UNCHANGED <<published, content>>
  BY NotYetRunning DEF DatabaseEmpty
<1>2. restoring.archive \in Intact /\ restoring.db \in DumpTargets
  BY <1>1, RunType DEF RestoreInv, RunAlone, Run
<1>3. NamesItsDatabase' /\ RestoreSound'
  BY <1>1 DEF RestoreInv, NamesItsDatabase, RestoreSound
<1>4. CASE restoring.archive \notin Dumps /\ Goes("imported")
  <2>1. /\ restoring' \in Run /\ restoring' # NotRunning
        /\ restoring'.at = "imported" /\ restoring'.archive = restoring.archive
    BY <1>1, <1>4, GoesType DEF RestoreInv
  <2>2. RestoreTypes' /\ RunAlone'
    BY <1>1, <1>2, <1>4, <2>1 DEF RestoreInv, RestoreTypes, RunAlone
  <2>3. QED
    BY <1>3, <2>2 DEF RestoreInv
<1>5. CASE restoring.archive \in Dumps /\ content[restoring.db] = Empty /\ Goes("empty")
  <2>1. /\ restoring' \in Run /\ restoring' # NotRunning
        /\ restoring'.at = "empty" /\ restoring'.archive = restoring.archive
        /\ restoring'.db = restoring.db
    BY <1>1, <1>5, GoesType DEF RestoreInv
  <2>2. \A d \in Destinations : published[d].db # restoring.db
    BY <1>2, <1>5, EmptyUnnamed
  <2>3. RestoreTypes' /\ RunAlone'
    BY <1>1, <1>2, <1>5, <2>1, <2>2 DEF RestoreInv, RestoreTypes, RunAlone
  <2>4. QED
    BY <1>3, <2>3 DEF RestoreInv
<1>6. CASE restoring' = NotRunning
  BY <1>1, <1>6, EndKeeps
<1>7. QED
  BY <1>4, <1>5, <1>6 DEF DatabaseEmpty

\* A write to the database that no destination names.
LEMMA ImportStepKeeps ==
    ASSUME RestoreInv, restoring # NotRunning, restoring.archive \in Dumps,
           restoring.at \in {"empty", "importing"}, NEW whole \in BOOLEAN,
           content' = [content EXCEPT ![restoring.db] = Holds(restoring.archive, whole)],
           Goes(IF whole THEN "imported" ELSE "importing"),
           UNCHANGED published
    PROVE  RestoreInv'
<1>1. /\ restoring \in Run
      /\ restoring' \in Run /\ restoring' # NotRunning
      /\ restoring'.at = (IF whole THEN "imported" ELSE "importing")
      /\ restoring'.archive = restoring.archive /\ restoring'.db = restoring.db
  BY RunType, GoesType DEF RestoreInv
<1>2. /\ restoring.archive \in Intact /\ restoring.db \in DumpTargets
      /\ \A d \in Destinations : published[d].db # restoring.db
  BY <1>1 DEF RestoreInv, RunAlone, Run
<1>3. /\ content'[restoring.db] = Holds(restoring.archive, whole)
      /\ \A db \in DumpTargets \ {restoring.db} : content'[db] = content[db]
      /\ DOMAIN content' = DumpTargets
  BY <1>2 DEF RestoreInv, RestoreTypes
<1>4. RestoreTypes'
  BY <1>1, <1>3 DEF RestoreInv, RestoreTypes
<1>5. RunAlone'
  BY <1>1, <1>2, <1>3 DEF RunAlone
<1>6. NamesItsDatabase'
  BY DEF RestoreInv, NamesItsDatabase
<1>7. RestoreSound'
  <2> SUFFICES ASSUME NEW d \in Destinations, published[d] # NotThere,
                      published[d].archive \in Dumps
               PROVE  content'[published[d].db] = Holds(published[d].archive, TRUE)
    BY DEF RestoreInv, RestoreSound
  <2>1. published[d].db \in DumpTargets \ {restoring.db}
    BY <1>2 DEF RestoreInv, NamesItsDatabase
  <2>2. QED
    BY <1>3, <2>1 DEF RestoreInv, RestoreSound
<1>8. QED
  BY <1>4, <1>5, <1>6, <1>7 DEF RestoreInv

LEMMA PublishKeeps ==
    ASSUME RestoreInv, Publish
    PROVE  RestoreInv'
<1>1. PICK a \in Archives, d \in Destinations, db \in DumpTargets :
        /\ restoring.archive = a /\ restoring.to = d /\ restoring.db = db
        /\ restoring # NotRunning /\ restoring.at = "imported"
  BY RunType, NotYetRunning DEF RestoreInv, Publish, Run
<1>2. PICK new \in [archive : Archives, db : DumpTargets \cup {"none"}] :
        /\ published' = [published EXCEPT ![d] = new]
        /\ new.archive = a
        /\ new.db = IF a \in Dumps THEN db ELSE "none"
  <2> DEFINE new == [archive |-> a, db |-> IF a \in Dumps THEN db ELSE "none"]
  <2>1. /\ new \in [archive : Archives, db : DumpTargets \cup {"none"}]
        /\ new.archive = a /\ new.db = IF a \in Dumps THEN db ELSE "none"
    OBVIOUS
  <2>2. published' = [published EXCEPT ![d] = new]
    BY <1>1 DEF Publish
  <2> HIDE DEF new
  <2>3. QED
    BY <2>1, <2>2
<1>3. restoring' = NotRunning /\ content' = content
  BY DEF Publish
<1>4. \A e \in Destinations : published'[e] = IF e = d THEN new ELSE published[e]
  BY <1>2 DEF RestoreInv, RestoreTypes
<1>5. RestoreTypes' /\ RunAlone'
  BY <1>2, <1>3 DEF RestoreInv, RestoreTypes, RunAlone
<1>6. "none" \notin DumpTargets
  BY RestoreAssumption
<1>7. NamesItsDatabase'
  BY <1>2, <1>4, <1>6 DEF RestoreInv, NamesItsDatabase
<1>8. /\ a \in Intact
      /\ a \in Dumps => /\ content[db] = Holds(a, TRUE)
                        /\ \A e \in Destinations : published[e].db # db
  BY <1>1 DEF RestoreInv, RunAlone
<1>9. RestoreSound'
  <2> SUFFICES ASSUME NEW e \in Destinations, published'[e] # NotThere
               PROVE  /\ published'[e].archive \in Intact
                      /\ published'[e].archive \in Dumps =>
                           /\ content[published'[e].db] = Holds(published'[e].archive, TRUE)
                           /\ \A f \in Destinations \ {e} :
                                published'[f].db # published'[e].db
    BY <1>3 DEF RestoreSound
  <2>1. CASE e = d
    BY <1>2, <1>4, <1>8, <2>1
  <2>2. CASE e # d
    <3>1. /\ published'[e] = published[e] /\ published[e] # NotThere
          /\ published[e].archive \in Intact
      BY <1>4, <2>2 DEF RestoreInv, RestoreSound
    <3>2. ASSUME published[e].archive \in Dumps
          PROVE  /\ content[published[e].db] = Holds(published[e].archive, TRUE)
                 /\ \A f \in Destinations \ {e} : published[f].db # published[e].db
                 /\ published[e].db # "none"
      BY <1>6, <3>1, <3>2 DEF RestoreInv, RestoreSound, NamesItsDatabase
    <3>3. ASSUME published[e].archive \in Dumps
          PROVE  new.db # published[e].db
      BY <1>2, <1>8, <3>2, <3>3
    <3>4. QED
      BY <1>4, <3>1, <3>2, <3>3
  <2>3. QED
    BY <2>1, <2>2
<1>10. QED
  BY <1>5, <1>7, <1>9 DEF RestoreInv

LEMMA OthersUseKeeps ==
    ASSUME RestoreInv, NEW db \in DumpTargets, OthersUse(db)
    PROVE  RestoreInv'
<1>1. /\ content[db] = Empty /\ restoring = NotRunning
      /\ content' = [content EXCEPT ![db] = Holds("others", TRUE)]
      /\ UNCHANGED <<published, restoring>>
  BY DEF OthersUse
<1>2. \A d \in Destinations : published[d].db # db
  BY <1>1, EmptyUnnamed
<1>3. RestoreTypes' /\ RunAlone' /\ NamesItsDatabase'
  BY <1>1 DEF RestoreInv, RestoreTypes, RunAlone, NamesItsDatabase
<1>4. RestoreSound'
  BY <1>1, <1>2 DEF RestoreInv, RestoreTypes, RestoreSound, NamesItsDatabase
<1>5. QED
  BY <1>3, <1>4 DEF RestoreInv

LEMMA RestoreStep == RestoreInv /\ [RestoreNext]_restoreVars => RestoreInv'
<1> SUFFICES ASSUME RestoreInv, [RestoreNext]_restoreVars PROVE RestoreInv'
  OBVIOUS
<1>1. ASSUME NEW a \in Archives, NEW d \in Destinations, NEW db \in DumpTargets,
             Unpack(a, d, db)
      PROVE  RestoreInv'
  BY <1>1, UnpackKeeps
<1>2. CASE Import
  <2>1. restoring # NotRunning /\ restoring.archive \in Dumps
    BY <1>2, NotYetRunning DEF Import, RestoreInv, RunAlone
  <2>2. QED
    BY <1>2, <2>1, ImportStepKeeps DEF Import
<1>3. CASE ImportEnds
  <2>1. restoring # NotRunning /\ restoring.archive \in Dumps
    BY <1>3, NotYetRunning DEF ImportEnds, RestoreInv, RunAlone
  <2>2. QED
    BY <1>3, <2>1, ImportStepKeeps DEF ImportEnds
<1>4. CASE Fail
  BY <1>4, EndKeeps DEF Fail
<1>5. ASSUME NEW db \in DumpTargets, OthersUse(db) PROVE RestoreInv'
  BY <1>5, OthersUseKeeps
<1>6. CASE UNCHANGED restoreVars
  BY <1>6 DEF restoreVars, RestoreInv, RestoreTypes, RunAlone, NamesItsDatabase, RestoreSound
<1>7. QED
  BY <1>1, <1>2, <1>3, <1>4, <1>5, <1>6, CheckArchiveKeeps, DatabaseEmptyKeeps,
     PublishKeeps DEF RestoreNext

\* The inductive invariant of the restore tool (Restore).
THEOREM RestoreInvariant == RestoreSpec => []RestoreInv
  BY RestoreStart, RestoreStep, PTL DEF RestoreSpec

\* Whatever runs of the tool are stopped and begun again: a destination that
\* exists holds an intact archive, and the whole of its database (Restore).
THEOREM RestoreSoundHolds == RestoreSpec => []RestoreSound
  BY RestoreInvariant, PTL DEF RestoreInv

-----------------------------------------------------------------------------
(* Installation *)

Inside == {"entered", "checked", "created", "saved", "failed"}

InsTypes ==
    /\ admins \in [Databases -> {0, 1}]
    /\ file \in [db : Databases \cup {Unset}, key : Int]
    /\ server \in [at : {"stopped", "loaded", "serving"},
                   db : Databases \cup {Unset}, key : Int, ready : BOOLEAN]
    /\ setupMu \in Installers \cup {Free}
    /\ installing \in [Installers ->
         [at : {"called"} \cup Inside, db : Databases] \cup {Idle}]
    /\ sealedBy \in [Databases -> SUBSET Int]
    /\ starts \in Nat

\* What a process opens and seals with is what the file says; only one that
\* serves takes requests, and it has put its key into the file.
ProcessFollowsFile ==
    /\ server.at = "stopped" => server = Stopped
    /\ server.at # "stopped" => server.db \in Databases /\ server.key = LoadedKey
    /\ server.at = "serving" => file.key # NoKey
    /\ server.at # "serving" =>
         ~server.ready /\ setupMu = Free /\ installing = [i \in Installers |-> Idle]

OneInside == \A i \in Installers : installing[i].at \in Inside <=> setupMu = i

\* How far an installation is says what its target holds.
TargetAsExpected ==
    \A i \in Installers :
      LET job == installing[i]
      IN  /\ job.at = "checked" => admins[job.db] = 0
          /\ job.at \in {"created", "saved", "failed"} => admins[job.db] = 1
          /\ job.at \in Inside \ {"entered"} => ~server.ready
          /\ job.at = "saved" => file.db = job.db

\* The store of a process is the one the file names, but for the moment before
\* it is replaced.
StoreOfFile ==
    server.at # "stopped" /\ (\A i \in Installers : installing[i].at # "saved")
      => server.db = OpensDb

\* Nothing is sealed with another key than the one in the file; before there is
\* one, only an older release has sealed anything.
SealedByFile ==
    \A d \in Databases :
      /\ file.key # NoKey => sealedBy[d] \subseteq {file.key}
      /\ file.key = NoKey =>
           /\ file.db = Unset
           /\ sealedBy[d] \subseteq {DevKey}
           /\ sealedBy[d] # {} => d = DefaultDb /\ admins[d] > 0

ReadyInstalled == server.ready => admins[server.db] = 1

InsInv ==
    /\ InsTypes
    /\ ProcessFollowsFile
    /\ OneInside
    /\ TargetAsExpected
    /\ StoreOfFile
    /\ SealedByFile
    /\ ReadyInstalled

Job == [at : {"called"} \cup Inside, db : Databases]

LEMMA IdleJob ==
    /\ Idle.at = "idle"
    /\ \A j \in Job : j # Idle /\ j.at # "idle"
BY DEF Idle, Job, Inside

LEMMA JobOf ==
    ASSUME InsTypes, NEW i \in Installers
    PROVE  /\ installing[i] \in Job \cup {Idle}
           /\ installing[i].at # "idle" => installing[i] \in Job
           /\ installing[i] # Idle => installing[i] \in Job
BY IdleJob DEF InsTypes, Job

LEMMA StepType ==
    ASSUME InsTypes, NEW i \in Installers, installing[i].at # "idle",
           NEW at \in Inside, Step(i, at)
    PROVE  /\ installing' \in [Installers -> Job \cup {Idle}]
           /\ installing'[i].at = at /\ installing'[i].db = installing[i].db
           /\ installing[i].db \in Databases
           /\ \A j \in Installers \ {i} : installing'[j] = installing[j]
<1> DEFINE new == [installing[i] EXCEPT !.at = at]
<1>1. installing[i] \in Job
  BY JobOf
<1>2. new \in Job /\ new.at = at /\ new.db = installing[i].db
      /\ installing[i].db \in Databases
  BY <1>1 DEF Job
<1>3. installing' = [installing EXCEPT ![i] = new]
  BY DEF Step
<1> HIDE DEF new
<1>4. QED
  BY <1>2, <1>3 DEF InsTypes, Job

LEMMA ReturnType ==
    ASSUME InsTypes, NEW i \in Installers, Return(i)
    PROVE  /\ installing' \in [Installers -> Job \cup {Idle}]
           /\ installing'[i] = Idle /\ setupMu' = Free
           /\ \A j \in Installers \ {i} : installing'[j] = installing[j]
BY DEF Return, InsTypes, Job

\* An installer inside is alone there, while the process serves.
LEMMA InsideAlone ==
    ASSUME InsInv, NEW i \in Installers, installing[i].at \in Inside
    PROVE  /\ setupMu = i /\ i # Free /\ server.at = "serving"
           /\ server.db \in Databases
           /\ \A j \in Installers \ {i} : installing[j].at \notin Inside
<1>1. setupMu = i /\ i # Free
  BY InstallationAssumption DEF InsInv, OneInside, Free
<1>2. server.at = "serving"
  BY <1>1 DEF InsInv, ProcessFollowsFile
<1>3. QED
  BY <1>1, <1>2 DEF InsInv, OneInside, ProcessFollowsFile

LEMMA InsStart == InsInit => InsInv
<1> SUFFICES ASSUME InsInit PROVE InsInv
  OBVIOUS
<1>1. /\ file = [db |-> Unset, key |-> NoKey] /\ server = Stopped
      /\ setupMu = Free /\ installing = [i \in Installers |-> Idle]
      /\ starts = 0
  BY DEF InsInit
<1>2. PICK old \in BOOLEAN :
        /\ admins = [d \in Databases |-> IF old /\ d = DefaultDb THEN 1 ELSE 0]
        /\ sealedBy = [d \in Databases |-> IF old /\ d = DefaultDb THEN {DevKey} ELSE {}]
  BY DEF InsInit
<1>3. InsTypes
  BY <1>1, <1>2 DEF InsTypes, Stopped, NoKey, DevKey
<1>4. ProcessFollowsFile /\ StoreOfFile /\ ReadyInstalled
  BY <1>1 DEF ProcessFollowsFile, StoreOfFile, ReadyInstalled, Stopped
<1>5. OneInside /\ TargetAsExpected
  BY <1>1, IdleJob, InstallationAssumption DEF OneInside, TargetAsExpected, Inside, Free
<1>6. SealedByFile
  BY <1>1, <1>2 DEF SealedByFile, NoKey, DevKey
<1>7. QED
  BY <1>3, <1>4, <1>5, <1>6 DEF InsInv

\* Start, stop and the keys: nobody installs.
LEMMA StartKeeps ==
    ASSUME InsInv, Start
    PROVE  InsInv'
<1>1. /\ server = Stopped
      /\ server' = [at |-> "loaded", db |-> OpensDb, key |-> LoadedKey, ready |-> FALSE]
      /\ starts' = starts + 1
      /\ UNCHANGED <<admins, file, setupMu, installing, sealedBy>>
  BY DEF Start
<1>2. OpensDb \in Databases /\ LoadedKey \in Int
  BY InstallationAssumption DEF InsInv, InsTypes, OpensDb, LoadedKey, DevKey
<1>3. OpensDb' = OpensDb /\ LoadedKey' = LoadedKey
  BY <1>1 DEF OpensDb, LoadedKey
<1>4. /\ server'.at = "loaded" /\ server'.db = OpensDb /\ server'.key = LoadedKey
      /\ ~server'.ready
  BY <1>1
<1>5. InsTypes'
  BY <1>1, <1>2 DEF InsInv, InsTypes
<1>6. setupMu = Free /\ installing = [i \in Installers |-> Idle]
  BY <1>1 DEF InsInv, ProcessFollowsFile, Stopped
<1>7. ProcessFollowsFile' /\ StoreOfFile' /\ ReadyInstalled'
  BY <1>1, <1>2, <1>3, <1>4, <1>6 DEF ProcessFollowsFile, StoreOfFile, ReadyInstalled
<1>8. OneInside' /\ SealedByFile'
  BY <1>1 DEF InsInv, OneInside, SealedByFile
<1>9. TargetAsExpected'
  BY <1>1, <1>4 DEF InsInv, TargetAsExpected
<1>10. QED
  BY <1>5, <1>7, <1>8, <1>9 DEF InsInv

LEMMA StopKeeps ==
    ASSUME InsInv, server' = Stopped, setupMu' = Free,
           installing' = [i \in Installers |-> Idle],
           starts' = starts,
           UNCHANGED <<admins, file, sealedBy>>
    PROVE  InsInv'
<1>1. InsTypes'
  BY DEF InsInv, InsTypes, Stopped, NoKey
<1>2. ProcessFollowsFile' /\ StoreOfFile' /\ ReadyInstalled'
  BY DEF ProcessFollowsFile, StoreOfFile, ReadyInstalled, Stopped
<1>3. OneInside' /\ TargetAsExpected'
  BY IdleJob, InstallationAssumption DEF OneInside, TargetAsExpected, Inside, Free
<1>4. SealedByFile'
  BY DEF InsInv, SealedByFile
<1>5. QED
  BY <1>1, <1>2, <1>3, <1>4 DEF InsInv

\* The process has its key in the file, and serves.
LEMMA ServesKeeps ==
    ASSUME InsInv, server.at = "loaded", NEW key \in Int, key # NoKey,
           server' = [server EXCEPT !.at = "serving", !.key = key],
           file' = [file EXCEPT !.key = key],
           \A d \in Databases : sealedBy[d] \subseteq {key},
           UNCHANGED <<admins, setupMu, installing, sealedBy, starts>>
    PROVE  InsInv'
<1>1. /\ server \in [at : {"stopped", "loaded", "serving"},
                     db : Databases \cup {Unset}, key : Int, ready : BOOLEAN]
      /\ file \in [db : Databases \cup {Unset}, key : Int]
  BY DEF InsInv, InsTypes
<1>2. /\ server'.at = "serving" /\ server'.key = key /\ server'.db = server.db
      /\ server'.ready = server.ready
      /\ server' \in [at : {"stopped", "loaded", "serving"},
                      db : Databases \cup {Unset}, key : Int, ready : BOOLEAN]
  <2>1. server' = [at |-> "serving", db |-> server.db, key |-> key,
                   ready |-> server.ready]
    BY <1>1
  <2>2. QED
    BY <1>1, <2>1
<1>3. /\ file'.key = key /\ file'.db = file.db
      /\ file' \in [db : Databases \cup {Unset}, key : Int]
  BY <1>1
<1>4. OpensDb' = OpensDb /\ LoadedKey' = key
  BY <1>3 DEF OpensDb, LoadedKey
<1>5. InsTypes'
  BY <1>2, <1>3 DEF InsInv, InsTypes
<1>6. /\ ~server.ready /\ setupMu = Free
      /\ installing = [i \in Installers |-> Idle]
      /\ server.db \in Databases /\ server.db = OpensDb
  BY IdleJob DEF InsInv, ProcessFollowsFile, StoreOfFile
<1>7. ProcessFollowsFile' /\ StoreOfFile' /\ ReadyInstalled'
  BY <1>2, <1>3, <1>4, <1>6 DEF ProcessFollowsFile, StoreOfFile, ReadyInstalled
<1>8. OneInside' /\ SealedByFile'
  BY <1>3 DEF InsInv, OneInside, SealedByFile
<1>9. TargetAsExpected'
  BY <1>6, IdleJob DEF TargetAsExpected, Inside
<1>10. QED
  BY <1>5, <1>7, <1>8, <1>9 DEF InsInv

LEMMA PrepareKeysKeeps ==
    ASSUME InsInv, PrepareInstallationKeys
    PROVE  InsInv'
<1>1. /\ server.at = "loaded"
      /\ UNCHANGED <<admins, setupMu, installing, sealedBy, starts>>
  BY DEF PrepareInstallationKeys
<1>2. /\ server.key = LoadedKey /\ server.key \in Int /\ starts \in Nat
      /\ server.db = OpensDb
      /\ setupMu = Free /\ installing = [i \in Installers |-> Idle]
  BY <1>1, IdleJob DEF InsInv, ProcessFollowsFile, StoreOfFile, InsTypes
<1>3. ASSUME NEW key \in Int, file.key = NoKey,
             key = KeyFor(admins[server.db] > 0),
             file' = [file EXCEPT !.key = key],
             server' = [server EXCEPT !.at = "serving", !.key = key]
      PROVE  InsInv'
  <2>1. server.db = DefaultDb /\ server.key = DevKey
    BY <1>2, <1>3, InstallationAssumption DEF InsInv, SealedByFile, OpensDb, LoadedKey
  <2>2. key # NoKey
    BY <1>2, <1>3, <2>1 DEF KeyFor, NoKey, DevKey
  <2>3. \A d \in Databases : sealedBy[d] \subseteq {key}
    BY <1>2, <1>3, <2>1 DEF KeyFor, InsInv, SealedByFile
  <2>4. QED
    BY <1>1, <1>3, <2>2, <2>3, ServesKeeps
<1>4. ASSUME file.key # NoKey, file' = file,
             server' = [server EXCEPT !.at = "serving"]
      PROVE  InsInv'
  <2>1. /\ server \in [at : {"stopped", "loaded", "serving"},
                       db : Databases \cup {Unset}, key : Int, ready : BOOLEAN]
        /\ file \in [db : Databases \cup {Unset}, key : Int]
    BY DEF InsInv, InsTypes
  <2>2. server.key = file.key
    BY <1>2, <1>4 DEF LoadedKey
  <2>3. PICK key \in Int : key = file.key
    BY <2>1
  <2>4. server' = [server EXCEPT !.at = "serving", !.key = key]
    BY <1>4, <2>1, <2>2, <2>3
  <2>5. file' = [file EXCEPT !.key = key]
    BY <1>4, <2>1, <2>3
  <2>6. \A d \in Databases : sealedBy[d] \subseteq {key}
    BY <1>4, <2>3 DEF InsInv, SealedByFile
  <2>7. QED
    BY <1>1, <1>4, <2>3, <2>4, <2>5, <2>6, ServesKeeps
<1>5. ASSUME server' = Stopped, file' = file PROVE InsInv'
  BY <1>1, <1>2, <1>5, StopKeeps
<1>6. KeyFor(admins[server.db] > 0) \in Int
  BY <1>2 DEF KeyFor
<1>7. QED
  BY <1>3, <1>4, <1>5, <1>6 DEF PrepareInstallationKeys

\* What installers do leaves the process and its store alone, and says nothing
\* of who is sealed.
LEMMA InstallerKeeps ==
    ASSUME InsInv, server.at = "serving",
           admins' \in [Databases -> {0, 1}],
           installing' \in [Installers -> Job \cup {Idle}],
           setupMu' \in Installers \cup {Free},
           OneInside', TargetAsExpected',
           server.ready => admins' = admins,
           \A i \in Installers : installing[i].at # "saved",
           UNCHANGED <<file, server, sealedBy, starts>>
    PROVE  InsInv'
<1>1. file.key # NoKey
  BY DEF InsInv, ProcessFollowsFile
<1>2. InsTypes'
  BY DEF InsInv, InsTypes, Job
<1>3. /\ server.db = OpensDb /\ OpensDb' = OpensDb
      /\ LoadedKey' = LoadedKey
  BY DEF InsInv, StoreOfFile, OpensDb, LoadedKey
<1>4. ProcessFollowsFile' /\ StoreOfFile' /\ ReadyInstalled'
  BY <1>3 DEF InsInv, ProcessFollowsFile, StoreOfFile, ReadyInstalled
<1>5. SealedByFile'
  BY <1>1 DEF InsInv, SealedByFile
<1>6. QED
  BY <1>2, <1>4, <1>5 DEF InsInv

LEMMA CallsKeeps ==
    ASSUME InsInv, NEW i \in Installers, NEW db \in Databases, Calls(i, db)
    PROVE  InsInv'
<1>1. PICK new \in Job : /\ new.at = "called"
                         /\ installing' = [installing EXCEPT ![i] = new]
  <2> DEFINE j == [at |-> "called", db |-> db]
  <2>1. j \in Job /\ j.at = "called" /\ installing' = [installing EXCEPT ![i] = j]
    BY DEF Calls, Job
  <2>2. QED
    BY <2>1
<1>2. /\ server.at = "serving" /\ installing[i] = Idle
      /\ UNCHANGED <<admins, file, server, setupMu, sealedBy, starts>>
  BY DEF Calls
<1>3. /\ installing' \in [Installers -> Job \cup {Idle}]
      /\ \A j \in Installers : installing'[j] = IF j = i THEN new ELSE installing[j]
  BY <1>1 DEF InsInv, InsTypes, Job
<1>4. InsTypes'
  BY <1>2, <1>3 DEF InsInv, InsTypes, Job
<1>5. OneInside' /\ TargetAsExpected'
  BY <1>1, <1>2, <1>3, IdleJob DEF InsInv, OneInside, TargetAsExpected, Inside
<1>6. OpensDb' = OpensDb /\ LoadedKey' = LoadedKey
  BY <1>2 DEF OpensDb, LoadedKey
<1>7. ProcessFollowsFile' /\ ReadyInstalled' /\ SealedByFile'
  BY <1>2, <1>6 DEF InsInv, ProcessFollowsFile, ReadyInstalled, SealedByFile
<1>8. StoreOfFile'
  <2>1. \A j \in Installers : installing'[j].at = "saved" <=> installing[j].at = "saved"
    BY <1>1, <1>2, <1>3, IdleJob
  <2>2. QED
    BY <1>2, <1>6, <2>1 DEF InsInv, StoreOfFile
<1>9. QED
  BY <1>4, <1>5, <1>7, <1>8 DEF InsInv

LEMMA EntersKeeps ==
    ASSUME InsInv, NEW i \in Installers, Enters(i)
    PROVE  InsInv'
<1>1. /\ installing[i].at = "called" /\ setupMu = Free /\ setupMu' = i
      /\ Step(i, "entered")
      /\ UNCHANGED <<admins, file, server, sealedBy, starts>>
  BY DEF Enters
<1>2. /\ installing' \in [Installers -> Job \cup {Idle}]
      /\ installing'[i].at = "entered"
      /\ \A j \in Installers \ {i} : installing'[j] = installing[j]
  BY <1>1, StepType DEF InsInv, Inside
<1>3. \A j \in Installers : installing[j].at \notin Inside
  BY <1>1, InstallationAssumption DEF InsInv, OneInside, Free
<1>4. server.at = "serving"
  BY <1>1, IdleJob DEF InsInv, ProcessFollowsFile
<1>5. OneInside' /\ TargetAsExpected'
  BY <1>1, <1>2, <1>3 DEF OneInside, TargetAsExpected, Inside
<1>6. admins \in [Databases -> {0, 1}]
  BY DEF InsInv, InsTypes
<1>7. QED
  BY <1>1, <1>2, <1>3, <1>4, <1>5, <1>6, InstallerKeeps DEF Inside

\* Whoever is inside goes on, or leaves.
LEMMA GoesOnKeeps ==
    ASSUME InsInv, NEW i \in Installers,
           installing[i].at \in Inside \ {"saved"},
           NEW at \in {"checked", "created", "failed"}, Step(i, at),
           admins' \in [Databases -> {0, 1}], ~server.ready,
           admins'[installing[i].db] = IF at = "checked" THEN 0 ELSE 1,
           UNCHANGED <<file, server, setupMu, sealedBy, starts>>
    PROVE  InsInv'
<1>1. /\ installing' \in [Installers -> Job \cup {Idle}]
      /\ installing'[i].at = at /\ installing'[i].db = installing[i].db
      /\ \A j \in Installers \ {i} : installing'[j] = installing[j]
  <2>1. at \in Inside /\ installing[i].at # "idle"
    BY DEF Inside
  <2>2. QED
    BY <2>1, StepType DEF InsInv
<1>2. /\ setupMu = i /\ server.at = "serving"
      /\ \A j \in Installers \ {i} : installing[j].at \notin Inside
  BY InsideAlone
<1>3. OneInside' /\ TargetAsExpected'
  BY <1>1, <1>2 DEF InsInv, OneInside, TargetAsExpected, Inside
<1>4. \A j \in Installers : installing[j].at # "saved"
  BY <1>2 DEF Inside
<1>5. setupMu' \in Installers \cup {Free}
  BY <1>2
<1>6. QED
  BY <1>1, <1>2, <1>3, <1>4, <1>5, InstallerKeeps

LEMMA LeavesKeeps ==
    ASSUME InsInv, NEW i \in Installers,
           installing[i].at \in Inside \ {"saved"}, Return(i),
           admins' \in [Databases -> {0, 1}],
           server.ready => admins' = admins,
           UNCHANGED <<file, server, sealedBy, starts>>
    PROVE  InsInv'
<1>1. /\ installing' \in [Installers -> Job \cup {Idle}]
      /\ installing'[i] = Idle /\ setupMu' = Free
      /\ \A j \in Installers \ {i} : installing'[j] = installing[j]
  BY ReturnType DEF InsInv
<1>2. /\ server.at = "serving"
      /\ \A j \in Installers \ {i} : installing[j].at \notin Inside
  BY InsideAlone
<1>3. \A j \in Installers : installing'[j].at \notin Inside /\ j # Free
  BY <1>1, <1>2, IdleJob, InstallationAssumption DEF Inside, Free
<1>4. OneInside' /\ TargetAsExpected'
  BY <1>1, <1>3 DEF OneInside, TargetAsExpected, Inside
<1>5. \A j \in Installers : installing[j].at # "saved"
  BY <1>2 DEF Inside
<1>6. QED
  BY <1>1, <1>2, <1>4, <1>5, InstallerKeeps

LEMMA CheckTargetKeeps ==
    ASSUME InsInv, NEW i \in Installers, CheckTarget(i)
    PROVE  InsInv'
<1>1. /\ installing[i].at = "entered"
      /\ UNCHANGED <<admins, file, server, sealedBy, starts>>
      /\ admins \in [Databases -> {0, 1}]
  BY DEF CheckTarget, InsInv, InsTypes
<1>2. CASE admins[server.db] = 0 /\ admins[installing[i].db] = 0
  <2>1. Step(i, "checked") /\ setupMu' = setupMu
    BY <1>2 DEF CheckTarget
  <2>2. ~server.ready
    BY <1>2 DEF InsInv, ReadyInstalled
  <2>3. QED
    BY <1>1, <1>2, <2>1, <2>2, GoesOnKeeps DEF Inside
<1>3. CASE ~(admins[server.db] = 0 /\ admins[installing[i].db] = 0)
  BY <1>1, <1>3, LeavesKeeps DEF CheckTarget, Inside
<1>4. QED
  BY <1>2, <1>3

LEMMA BootstrapKeeps ==
    ASSUME InsInv, NEW i \in Installers, EnsureBootstrapAdmin(i)
    PROVE  InsInv'
<1>1. /\ installing[i].at = "checked"
      /\ admins' = [admins EXCEPT ![installing[i].db] = @ + 1]
      /\ Step(i, "created")
      /\ UNCHANGED <<file, server, setupMu, sealedBy, starts>>
  BY DEF EnsureBootstrapAdmin
<1>2. /\ installing[i].db \in Databases /\ admins[installing[i].db] = 0
      /\ ~server.ready
  BY <1>1, JobOf DEF InsInv, TargetAsExpected, Inside, Job
<1>3. admins' \in [Databases -> {0, 1}] /\ admins'[installing[i].db] = 1
  BY <1>1, <1>2 DEF InsInv, InsTypes
<1>4. QED
  BY <1>1, <1>2, <1>3, GoesOnKeeps DEF Inside

LEMMA PersistKeeps ==
    ASSUME InsInv, NEW i \in Installers, Persist(i)
    PROVE  InsInv'
<1>1. /\ installing[i].at = "created"
      /\ UNCHANGED <<admins, server, setupMu, sealedBy, starts>>
      /\ admins \in [Databases -> {0, 1}]
  BY DEF Persist, InsInv, InsTypes
<1>2. /\ installing[i].db \in Databases /\ admins[installing[i].db] = 1
      /\ ~server.ready
  BY <1>1, JobOf DEF InsInv, TargetAsExpected, Inside, Job
<1>3. CASE Step(i, "failed") /\ file' = file
  BY <1>1, <1>2, <1>3, GoesOnKeeps DEF Inside
<1>4. CASE file' = [file EXCEPT !.db = installing[i].db] /\ Step(i, "saved")
  <2>1. /\ installing' \in [Installers -> Job \cup {Idle}]
        /\ installing'[i].at = "saved" /\ installing'[i].db = installing[i].db
        /\ \A j \in Installers \ {i} : installing'[j] = installing[j]
    BY <1>1, <1>4, StepType DEF InsInv, Inside
  <2>2. /\ setupMu = i /\ server.at = "serving"
        /\ \A j \in Installers \ {i} : installing[j].at \notin Inside
    BY <1>1, InsideAlone DEF Inside
  <2>3. /\ file'.db = installing[i].db /\ file'.key = file.key
        /\ file' \in [db : Databases \cup {Unset}, key : Int]
    BY <1>2, <1>4 DEF InsInv, InsTypes
  <2>4. InsTypes'
    BY <1>1, <2>1, <2>3 DEF InsInv, InsTypes, Job
  <2>5. OneInside' /\ TargetAsExpected'
    BY <1>1, <1>2, <2>1, <2>2, <2>3 DEF OneInside, TargetAsExpected, Inside
  <2>6. LoadedKey' = LoadedKey /\ file.key # NoKey
    BY <2>2, <2>3 DEF LoadedKey, InsInv, ProcessFollowsFile
  <2>7. ProcessFollowsFile' /\ ReadyInstalled' /\ SealedByFile'
    BY <1>1, <2>2, <2>3, <2>6 DEF InsInv, ProcessFollowsFile, ReadyInstalled, SealedByFile
  <2>8. StoreOfFile'
    BY <2>1 DEF StoreOfFile
  <2>9. QED
    BY <2>4, <2>5, <2>7, <2>8 DEF InsInv
<1>5. QED
  BY <1>3, <1>4 DEF Persist

LEMMA UndoKeeps ==
    ASSUME InsInv, NEW i \in Installers, Undo(i)
    PROVE  InsInv'
<1>1. /\ installing[i].at = "failed" /\ Return(i)
      /\ UNCHANGED <<file, server, sealedBy, starts>>
      /\ \/ admins' = [admins EXCEPT ![installing[i].db] = @ - 1]
         \/ admins' = admins
  BY DEF Undo
<1>2. /\ installing[i].db \in Databases /\ admins[installing[i].db] = 1
      /\ ~server.ready
  BY <1>1, JobOf DEF InsInv, TargetAsExpected, Inside, Job
<1>3. admins' \in [Databases -> {0, 1}]
  BY <1>1, <1>2 DEF InsInv, InsTypes
<1>4. QED
  BY <1>1, <1>2, <1>3, LeavesKeeps DEF Inside

LEMMA ReplaceStoreKeeps ==
    ASSUME InsInv, NEW i \in Installers, ReplaceStore(i)
    PROVE  InsInv'
<1>1. /\ installing[i].at = "saved" /\ Return(i)
      /\ server' = [server EXCEPT !.db = installing[i].db]
      /\ UNCHANGED <<admins, file, sealedBy, starts>>
  BY DEF ReplaceStore
<1>2. /\ installing' \in [Installers -> Job \cup {Idle}]
      /\ installing'[i] = Idle /\ setupMu' = Free
      /\ \A j \in Installers \ {i} : installing'[j] = installing[j]
  BY <1>1, ReturnType DEF InsInv
<1>3. /\ server.at = "serving"
      /\ \A j \in Installers \ {i} : installing[j].at \notin Inside
  BY <1>1, InsideAlone DEF Inside
<1>4. /\ installing[i].db \in Databases /\ admins[installing[i].db] = 1
      /\ ~server.ready /\ file.db = installing[i].db
  BY <1>1, JobOf DEF InsInv, TargetAsExpected, Inside, Job
<1>5. /\ server'.at = "serving" /\ server'.db = installing[i].db
      /\ server'.key = server.key /\ server'.ready = server.ready
      /\ server' \in [at : {"stopped", "loaded", "serving"},
                      db : Databases \cup {Unset}, key : Int, ready : BOOLEAN]
  BY <1>1, <1>3, <1>4 DEF InsInv, InsTypes
<1>6. InsTypes'
  BY <1>1, <1>2, <1>5 DEF InsInv, InsTypes, Job
<1>7. \A j \in Installers : installing'[j].at \notin Inside /\ j # Free
  BY <1>2, <1>3, IdleJob, InstallationAssumption DEF Inside, Free
<1>8. OneInside' /\ TargetAsExpected'
  BY <1>2, <1>7 DEF OneInside, TargetAsExpected, Inside
<1>9. /\ OpensDb' = installing[i].db /\ LoadedKey' = LoadedKey
  BY <1>1, <1>4, InstallationAssumption DEF OpensDb, LoadedKey, Unset
<1>10. ProcessFollowsFile' /\ StoreOfFile' /\ ReadyInstalled' /\ SealedByFile'
  BY <1>1, <1>3, <1>4, <1>5, <1>9
     DEF InsInv, ProcessFollowsFile, StoreOfFile, ReadyInstalled, SealedByFile
<1>11. QED
  BY <1>6, <1>8, <1>10 DEF InsInv

\* The gate opens while nobody installs.
LEMMA GateKeeps ==
    ASSUME InsInv, InstallationGate
    PROVE  InsInv'
<1>1. /\ server.at = "serving" /\ setupMu = Free /\ admins[server.db] > 0
      /\ server' = [server EXCEPT !.ready = TRUE]
      /\ UNCHANGED <<admins, file, setupMu, installing, sealedBy, starts>>
  BY DEF InstallationGate, SetupStatus
<1>2. /\ server'.at = "serving" /\ server'.db = server.db
      /\ server'.key = server.key /\ server'.ready
      /\ server' \in [at : {"stopped", "loaded", "serving"},
                      db : Databases \cup {Unset}, key : Int, ready : BOOLEAN]
  BY <1>1 DEF InsInv, InsTypes
<1>3. \A j \in Installers : installing[j].at \notin Inside
  BY <1>1, InstallationAssumption DEF InsInv, OneInside, Free
<1>4. InsTypes'
  BY <1>1, <1>2 DEF InsInv, InsTypes
<1>5. OneInside' /\ TargetAsExpected'
  BY <1>1, <1>3 DEF InsInv, OneInside, TargetAsExpected, Inside
<1>6. admins[server.db] = 1
  BY <1>1 DEF InsInv, InsTypes, ProcessFollowsFile
<1>7. OpensDb' = OpensDb /\ LoadedKey' = LoadedKey
  BY <1>1 DEF OpensDb, LoadedKey
<1>8. ProcessFollowsFile' /\ StoreOfFile' /\ ReadyInstalled' /\ SealedByFile'
  BY <1>1, <1>2, <1>6, <1>7
     DEF InsInv, ProcessFollowsFile, StoreOfFile, ReadyInstalled, SealedByFile
<1>9. QED
  BY <1>4, <1>5, <1>8 DEF InsInv

LEMMA SealsKeeps ==
    ASSUME InsInv, Seals
    PROVE  InsInv'
<1>1. /\ server.ready
      /\ sealedBy' = [sealedBy EXCEPT ![server.db] = @ \cup {server.key}]
      /\ UNCHANGED <<admins, file, server, setupMu, installing, starts>>
  BY DEF Seals
<1>2. /\ server.at = "serving" /\ file.key # NoKey /\ server.key = file.key
      /\ file.key \in Int
  BY <1>1 DEF InsInv, ProcessFollowsFile, InsTypes, LoadedKey
<1>3. InsTypes'
  BY <1>1, <1>2 DEF InsInv, InsTypes
<1>4. SealedByFile'
  BY <1>1, <1>2 DEF InsInv, SealedByFile, InsTypes
<1>5. OpensDb' = OpensDb /\ LoadedKey' = LoadedKey
  BY <1>1 DEF OpensDb, LoadedKey
<1>6. ProcessFollowsFile' /\ StoreOfFile' /\ ReadyInstalled'
  BY <1>1, <1>5 DEF InsInv, ProcessFollowsFile, StoreOfFile, ReadyInstalled
<1>7. OneInside' /\ TargetAsExpected'
  BY <1>1 DEF InsInv, OneInside, TargetAsExpected
<1>8. QED
  BY <1>3, <1>4, <1>6, <1>7 DEF InsInv

LEMMA InsStep == InsInv /\ [InsNext]_insVars => InsInv'
<1> SUFFICES ASSUME InsInv, [InsNext]_insVars PROVE InsInv'
  OBVIOUS
<1>1. CASE Stop
  BY <1>1, StopKeeps DEF Stop
<1>2. ASSUME NEW i \in Installers, NEW db \in Databases, Calls(i, db)
      PROVE  InsInv'
  BY <1>2, CallsKeeps
<1>3. ASSUME NEW i \in Installers,
             \/ Enters(i) \/ CheckTarget(i) \/ EnsureBootstrapAdmin(i)
             \/ Persist(i) \/ Undo(i) \/ ReplaceStore(i)
      PROVE  InsInv'
  BY <1>3, EntersKeeps, CheckTargetKeeps, BootstrapKeeps, PersistKeeps, UndoKeeps,
     ReplaceStoreKeeps
<1>4. CASE UNCHANGED insVars
  <2>1. UNCHANGED <<admins, file, server, setupMu, installing, sealedBy, starts>>
    BY <1>4 DEF insVars
  <2>2. InsTypes' /\ OneInside' /\ TargetAsExpected'
    BY <2>1 DEF InsInv, InsTypes, OneInside, TargetAsExpected
  <2>3. OpensDb' = OpensDb /\ LoadedKey' = LoadedKey
    BY <2>1 DEF OpensDb, LoadedKey
  <2>4. ProcessFollowsFile' /\ StoreOfFile' /\ ReadyInstalled' /\ SealedByFile'
    BY <2>1, <2>3
       DEF InsInv, ProcessFollowsFile, StoreOfFile, ReadyInstalled, SealedByFile
  <2>5. QED
    BY <2>2, <2>4 DEF InsInv
<1>5. QED
  BY <1>1, <1>2, <1>3, <1>4, StartKeeps, PrepareKeysKeeps, GateKeeps, SealsKeeps
     DEF InsNext

\* The inductive invariant of installation (Initialize, PrepareInstallationKeys,
\* installationGate).
THEOREM InstallationInvariant == InsSpec => []InsInv
  BY InsStart, InsStep, PTL DEF InsSpec

LEMMA OneKey ==
    ASSUME NEW S, NEW k, S \subseteq {k}
    PROVE  Cardinality(S) <= 1
<1>1. CASE S = {}
  BY <1>1, FS_EmptySet
<1>2. CASE S # {}
  <2>1. S = {k}
    BY <1>2
  <2>2. Cardinality({k}) = 1
    BY FS_Singleton
  <2>3. QED
    BY <2>1, <2>2
<1>3. QED
  BY <1>1, <1>2

\* A database has one first administrator and one key, however installations
\* race, fail and are interrupted, and a server whose gate is open stands on the
\* installed store (Initialize, installationGate).
THEOREM InstallationSoundHolds == InsSpec => []InstallationSound
<1>1. ASSUME InsInv PROVE InstallationSound
  <2>1. \A d \in Databases : admins[d] <= 1
    BY <1>1 DEF InsInv, InsTypes
  <2>2. \A d \in Databases : \E k \in Int : sealedBy[d] \subseteq {k}
    BY <1>1 DEF InsInv, SealedByFile, InsTypes, DevKey
  <2>3. \A d \in Databases : Cardinality(sealedBy[d]) <= 1
    BY <2>2, OneKey
  <2>4. ASSUME server.ready
        PROVE  admins[server.db] = 1 /\ server.db = OpensDb /\ server.key = LoadedKey
    <3>1. server.at = "serving" /\ \A i \in Installers : installing[i].at # "saved"
      BY <1>1, <2>4 DEF InsInv, ProcessFollowsFile, TargetAsExpected, Inside
    <3>2. QED
      BY <1>1, <2>4, <3>1 DEF InsInv, ProcessFollowsFile, StoreOfFile, ReadyInstalled
  <2>5. QED
    BY <2>1, <2>3, <2>4 DEF InstallationSound
<1>2. QED
  BY <1>1, InstallationInvariant, PTL

-----------------------------------------------------------------------------
(* Migrations *)

Processes == Migrators \cup {Saver}
AtRest == {"idle", "waiting", "serving"}
Working(m) == migrating[m].at \notin AtRest

MigJob == [at : {"idle", "waiting", "serving", "locked", "missing", "running",
                 "ran", "absent", "ready"},
           release : Releases \cup {<<>>}, script : Nat]

Texts == {Missing} \cup UNION {{r[k] : k \in DOMAIN r} : r \in Releases}

MigTypes ==
    /\ driver \in {"sqlite", "mysql"}
    /\ column \in BOOLEAN
    /\ lock \in Processes \cup {Unlocked}
    /\ schema \in [Scripts -> [text : Texts, done : BOOLEAN]]
    /\ recorded \in [Scripts -> Texts]
    /\ migrating \in [Processes -> MigJob]
    /\ migrating[Saver].at \in {"idle", "waiting", "locked"}
    /\ runs \in [Scripts -> Nat] /\ breaks \in Nat

LockHeld == \A m \in Processes : Working(m) <=> lock = m

\* Who works has found or put the scripts before its own as its release has them.
InOrder(m) ==
    LET job == migrating[m]
        k == job.script
    IN  /\ job.at = "waiting" => job.release \in Releases /\ k = 1
        /\ Working(m) =>
             /\ job.release \in Releases
             /\ k \in 1 .. Len(job.release) + 1
             /\ \A j \in 1 .. k - 1 : recorded[j] = job.release[j]
        /\ job.at \in {"missing", "running", "ran"} =>
             k <= Len(job.release) /\ recorded[k] = Missing
        /\ job.at \in {"running", "ran"} =>
             driver = "mysql" /\ schema[k].text = job.release[k]
        /\ job.at = "ran" => schema[k].done
        /\ job.at \in {"absent", "ready"} => k = Len(job.release) + 1
        /\ job.at = "absent" => ~column
        /\ job.at \in {"ready", "serving"} => column
        /\ job.at = "serving" =>
             /\ job.release \in Releases
             /\ \A j \in 1 .. Len(job.release) : recorded[j] = job.release[j]

RecordedRan ==
    \A k \in Scripts : recorded[k] # Missing =>
      /\ schema[k] = [text |-> recorded[k], done |-> TRUE]
      /\ \A j \in 1 .. k : recorded[j] # Missing

\* A script that has begun and is not recorded.
InProgress(k) ==
    \E m \in Migrators : migrating[m].at \in {"running", "ran"}
                         /\ migrating[m].script = k

\* A script was begun once, and once more for each interruption, on MySQL.
BegunOnce ==
    \A k \in Scripts :
      runs[k] <= (IF driver = "sqlite" THEN 0 ELSE breaks)
                 + (IF recorded[k] # Missing \/ InProgress(k) THEN 1 ELSE 0)

MigInv ==
    /\ MigTypes
    /\ LockHeld
    /\ \A m \in Migrators : InOrder(m)
    /\ RecordedRan
    /\ BegunOnce

LEMMA ReleaseType ==
    ASSUME NEW r \in Releases
    PROVE  /\ Len(r) \in Nat
           /\ \A k \in 1 .. Len(r) : /\ k \in Scripts /\ r[k] \in Texts
                                     /\ r[k] # Missing
<1>1. r \in Seq(STRING) /\ \A k \in DOMAIN r : r[k] # "missing"
  BY MigrationsAssumption
<1>2. DOMAIN r = 1 .. Len(r)
  BY <1>1
<1>3. QED
  BY <1>1, <1>2 DEF Scripts, Texts, Missing

\* A process that rests keeps its place while another one works.
LEMMA RestKeeps ==
    ASSUME NEW n \in Migrators, InOrder(n), ~Working(n),
           migrating'[n] = migrating[n], column => column',
           \A k \in Scripts : recorded[k] # Missing => recorded'[k] = recorded[k]
    PROVE  InOrder(n)'
<1>1. migrating[n].at \in AtRest /\ migrating'[n].at \in AtRest
  BY DEF Working
<1>2. ASSUME migrating[n].at = "serving"
      PROVE  \A j \in 1 .. Len(migrating[n].release) :
               recorded'[j] = migrating[n].release[j]
  BY <1>2, ReleaseType DEF InOrder
<1>3. ~Working(n)'
  BY <1>1 DEF Working
<1>4. QED
  BY <1>1, <1>2, <1>3 DEF InOrder, AtRest

LEMMA WaitsOrWorks ==
    ASSUME MigInv, NEW m \in Processes, Working(m)
    PROVE  /\ lock = m /\ m # Unlocked
           /\ \A n \in Processes \ {m} : ~Working(n)
BY MigrationsAssumption DEF MigInv, LockHeld, Processes, Unlocked

\* One step of a process.
LEMMA MigStepKeeps ==
    ASSUME MigInv, NEW m \in Processes, NEW new \in MigJob,
           migrating' = [migrating EXCEPT ![m] = new],
           m = Saver => new.at \in {"idle", "waiting", "locked"},
           lock' \in Processes \cup {Unlocked},
           new.at \notin AtRest <=> lock' = m,
           \A n \in Processes \ {m} : lock' = n <=> lock = n,
           driver' = driver, column' \in BOOLEAN, column => column',
           recorded' \in [Scripts -> Texts],
           \A k \in Scripts : recorded[k] # Missing => recorded'[k] = recorded[k],
           schema' \in [Scripts -> [text : Texts, done : BOOLEAN]],
           runs' \in [Scripts -> Nat], breaks' \in Nat,
           Working(m) \/ UNCHANGED <<schema, recorded, column>>,
           m \in Migrators => InOrder(m)', RecordedRan', BegunOnce'
    PROVE  MigInv'
<1>1. /\ migrating' \in [Processes -> MigJob]
      /\ migrating'[m] = new
      /\ \A n \in Processes \ {m} : migrating'[n] = migrating[n]
  BY DEF MigInv, MigTypes
<1>2. MigTypes'
  BY <1>1 DEF MigInv, MigTypes, Processes
<1>3. LockHeld'
  BY <1>1 DEF MigInv, LockHeld, Working
<1>4. ASSUME NEW n \in Migrators PROVE InOrder(n)'
  <2>1. CASE n = m
    BY <2>1
  <2>2. CASE n # m
    <3>1. n \in Processes /\ migrating'[n] = migrating[n] /\ InOrder(n)
      BY <1>1, <2>2 DEF Processes, MigInv
    <3>2. CASE UNCHANGED <<schema, recorded, column>>
      BY <3>1, <3>2 DEF InOrder, Working
    <3>3. CASE Working(m)
      <4>1. ~Working(n)
        BY <2>2, <3>1, <3>3, WaitsOrWorks
      <4>2. QED
        BY <3>1, <4>1, RestKeeps
    <3>4. QED
      BY <3>2, <3>3
  <2>3. QED
    BY <2>1, <2>2
<1>5. QED
  BY <1>2, <1>3, <1>4 DEF MigInv

\* Nothing is begun or recorded.
LEMMA NothingBegun ==
    ASSUME MigInv, NEW m \in Processes, NEW new \in MigJob,
           migrating' = [migrating EXCEPT ![m] = new],
           migrating[m].at \notin {"running", "ran"} \/ m = Saver,
           new.at \notin {"running", "ran"} \/ m = Saver,
           UNCHANGED <<driver, schema, recorded, runs>>,
           breaks' \in Nat, breaks' >= breaks
    PROVE  RecordedRan' /\ BegunOnce'
<1>1. \A n \in Processes : migrating'[n] = IF n = m THEN new ELSE migrating[n]
  BY DEF MigInv, MigTypes
<1>2. \A k \in Scripts : InProgress(k) => InProgress(k)'
  BY <1>1, MigrationsAssumption DEF InProgress, Processes
<1>3. /\ breaks \in Nat /\ runs \in [Scripts -> Nat]
      /\ driver \in {"sqlite", "mysql"}
  BY DEF MigInv, MigTypes
<1>4. BegunOnce'
  <2> SUFFICES ASSUME NEW k \in Scripts
               PROVE  runs[k] <= (IF driver = "sqlite" THEN 0 ELSE breaks')
                                 + (IF recorded[k] # Missing \/ InProgress(k)'
                                    THEN 1 ELSE 0)
    BY DEF BegunOnce
  <2>1. runs[k] <= (IF driver = "sqlite" THEN 0 ELSE breaks)
                   + (IF recorded[k] # Missing \/ InProgress(k) THEN 1 ELSE 0)
    BY DEF MigInv, BegunOnce
  <2>2. QED
    BY <1>2, <1>3, <2>1
<1>5. RecordedRan'
  BY DEF MigInv, RecordedRan
<1>6. QED
  BY <1>4, <1>5

\* The scripts as this process has begun and recorded them, alone.
LEMMA AloneInProgress ==
    ASSUME MigInv, NEW m \in Migrators, Working(m), NEW new \in MigJob,
           migrating' = [migrating EXCEPT ![m] = new]
    PROVE  \A k : /\ InProgress(k) <=> /\ migrating[m].at \in {"running", "ran"}
                                       /\ migrating[m].script = k
                  /\ InProgress(k)' <=> /\ new.at \in {"running", "ran"}
                                        /\ new.script = k
<1>1. /\ m \in Processes
      /\ \A n \in Processes : migrating'[n] = IF n = m THEN new ELSE migrating[n]
  BY DEF MigInv, MigTypes, Processes
<1>2. \A n \in Processes \ {m} : migrating[n].at \notin {"running", "ran"}
  BY <1>1, WaitsOrWorks DEF Working, AtRest
<1>3. QED
  BY <1>1, <1>2 DEF InProgress, Processes

LEMMA MovesType ==
    ASSUME MigInv, NEW m \in Processes,
           NEW at \in {"serving", "locked", "missing", "running", "ran", "absent", "ready"},
           MovesTo(m, at)
    PROVE  \E new \in MigJob :
             /\ migrating' = [migrating EXCEPT ![m] = new]
             /\ new.at = at /\ new.release = migrating[m].release
             /\ new.script = migrating[m].script
<1> DEFINE new == [migrating[m] EXCEPT !.at = at]
<1>1. migrating[m] \in MigJob
  BY DEF MigInv, MigTypes
<1>2. /\ new \in MigJob /\ new.at = at /\ new.release = migrating[m].release
      /\ new.script = migrating[m].script
  BY <1>1 DEF MigJob
<1>3. migrating' = [migrating EXCEPT ![m] = new]
  BY DEF MovesTo
<1> HIDE DEF new
<1>4. QED
  BY <1>2, <1>3

LEMMA MigStart == MigInit => MigInv
<1> SUFFICES ASSUME MigInit PROVE MigInv
  OBVIOUS
<1>1. /\ \A m \in Processes : migrating[m] = NoMigration
      /\ migrating = [m \in Processes |-> NoMigration]
      /\ lock = Unlocked
      /\ recorded = [k \in Scripts |-> Missing]
  BY DEF MigInit, Processes
<1>2. NoMigration \in MigJob /\ NoMigration.at = "idle"
  BY DEF NoMigration, MigJob
<1>3. Saver \in Processes /\ Migrators \subseteq Processes
  BY DEF Processes
<1>4. MigTypes
  <2>1. migrating \in [Processes -> MigJob] /\ migrating[Saver].at = "idle"
    BY <1>1, <1>2, <1>3
  <2>2. recorded \in [Scripts -> Texts] /\ lock \in Processes \cup {Unlocked}
    BY <1>1 DEF Texts
  <2>3. runs \in [Scripts -> Nat] /\ breaks \in Nat
    BY DEF MigInit
  <2>4. driver \in {"sqlite", "mysql"} /\ column \in BOOLEAN
    BY DEF MigInit
  <2>5. schema \in [Scripts -> [text : Texts, done : BOOLEAN]]
    <3>1. schema = [k \in Scripts |-> [text |-> Missing, done |-> FALSE]]
      BY DEF MigInit
    <3>2. [text |-> Missing, done |-> FALSE] \in [text : Texts, done : BOOLEAN]
      BY DEF Texts
    <3>3. QED
      BY <3>1, <3>2
  <2>6. QED
    BY <2>1, <2>2, <2>3, <2>4, <2>5 DEF MigTypes
<1>5. LockHeld
  BY <1>1, <1>2, MigrationsAssumption DEF LockHeld, Working, AtRest, Unlocked, Processes
<1>6. \A m \in Migrators : InOrder(m)
  BY <1>1, <1>2, <1>3 DEF InOrder, Working, AtRest
<1>7. RecordedRan
  BY <1>1 DEF RecordedRan
<1>8. BegunOnce
  <2>1. /\ \A k \in Scripts : runs[k] = 0
        /\ driver \in {"sqlite", "mysql"} /\ breaks = 0
    BY DEF MigInit
  <2>2. QED
    BY <2>1 DEF BegunOnce
<1>9. QED
  BY <1>4, <1>5, <1>6, <1>7, <1>8 DEF MigInv

LEMMA BeginKeeps ==
    ASSUME MigInv, NEW m \in Processes, NEW r \in Releases \cup {<<>>},
           m \in Migrators => r \in Releases, Begin(m, r)
    PROVE  MigInv'
<1>1. PICK new \in MigJob :
        /\ migrating' = [migrating EXCEPT ![m] = new]
        /\ new.at = "waiting" /\ new.release = r /\ new.script = 1
  <2> DEFINE new == [at |-> "waiting", release |-> r, script |-> 1]
  <2>1. /\ new \in MigJob /\ migrating' = [migrating EXCEPT ![m] = new]
        /\ new.at = "waiting" /\ new.release = r /\ new.script = 1
    BY DEF Begin, MigJob
  <2> HIDE DEF new
  <2>2. QED
    BY <2>1
<1>2. /\ migrating[m].at \in {"idle", "serving"}
      /\ UNCHANGED <<driver, column, lock, schema, recorded, runs, breaks>>
  BY DEF Begin
<1>3. lock # m
  BY <1>2 DEF MigInv, LockHeld, Working, AtRest
<1>4. RecordedRan' /\ BegunOnce'
  <2>1. breaks' \in Nat /\ breaks' >= breaks
    BY <1>1, <1>2 DEF MigInv, MigTypes
  <2>2. /\ migrating[m].at \notin {"running", "ran"}
        /\ new.at \notin {"running", "ran"}
    BY <1>1, <1>2
  <2>3. UNCHANGED <<driver, schema, recorded, runs>>
    BY <1>1, <1>2
  <2>4. migrating' = [migrating EXCEPT ![m] = new]
    BY <1>1, <1>2
  <2>5. QED
    BY <2>1, <2>2, <2>3, <2>4, NothingBegun
<1>5. m \in Migrators => InOrder(m)'
  BY <1>1 DEF InOrder, Working, AtRest, MigInv, MigTypes
<1>6. QED
  BY <1>1, <1>2, <1>3, <1>4, <1>5, MigStepKeeps DEF MigInv, MigTypes, AtRest

LEMMA MigrationLockKeeps ==
    ASSUME MigInv, NEW m \in Processes, MigrationLock(m)
    PROVE  MigInv'
<1>1. /\ migrating[m].at = "waiting" /\ lock = Unlocked /\ lock' = m
      /\ MovesTo(m, "locked")
      /\ UNCHANGED <<driver, column, schema, recorded, runs, breaks>>
  BY DEF MigrationLock, Here
<1>2. PICK new \in MigJob :
        /\ migrating' = [migrating EXCEPT ![m] = new]
        /\ new.at = "locked" /\ new.release = migrating[m].release
        /\ new.script = migrating[m].script
  BY <1>1, MovesType
<1>3. \A n \in Processes : n # Unlocked
  BY MigrationsAssumption DEF Processes, Unlocked
<1>4. RecordedRan' /\ BegunOnce'
  <2>1. breaks' \in Nat /\ breaks' >= breaks
    BY <1>1, <1>2 DEF MigInv, MigTypes
  <2>2. /\ migrating[m].at \notin {"running", "ran"}
        /\ new.at \notin {"running", "ran"}
    BY <1>1, <1>2
  <2>3. UNCHANGED <<driver, schema, recorded, runs>>
    BY <1>1, <1>2
  <2>4. migrating' = [migrating EXCEPT ![m] = new]
    BY <1>1, <1>2
  <2>5. QED
    BY <2>1, <2>2, <2>3, <2>4, NothingBegun
<1>5. ASSUME m \in Migrators PROVE InOrder(m)'
  <2>1. migrating[m].release \in Releases /\ migrating[m].script = 1
    BY <1>1, <1>5 DEF MigInv, InOrder
  <2>2. migrating'[m] = new
    BY <1>2 DEF MigInv, MigTypes
  <2>3. Len(migrating[m].release) \in Nat
    BY <2>1, ReleaseType
  <2>4. QED
    BY <1>2, <2>1, <2>2, <2>3 DEF InOrder, Working, AtRest
<1>6. QED
  BY <1>1, <1>2, <1>3, <1>4, <1>5, MigStepKeeps DEF MigInv, MigTypes, AtRest, Processes

\* A process gives up; on MySQL a script of its may have begun.
LEMMA LeavesMigKeeps ==
    ASSUME MigInv, NEW m \in Processes, Leaves(m),
           UNCHANGED <<driver, column, schema, recorded, runs>>,
           \/ breaks' = breaks + 1
           \/ (breaks' = breaks /\ migrating[m].at \notin {"running", "ran"})
    PROVE  MigInv'
<1>1. /\ migrating' = [migrating EXCEPT ![m] = NoMigration]
      /\ lock' = IF lock = m THEN Unlocked ELSE lock
      /\ NoMigration \in MigJob /\ NoMigration.at = "idle"
  BY DEF Leaves, NoMigration, MigJob
<1>2. /\ breaks \in Nat /\ runs \in [Scripts -> Nat]
      /\ driver \in {"sqlite", "mysql"}
  BY DEF MigInv, MigTypes
<1>3. RecordedRan' /\ BegunOnce'
  <2>1. CASE migrating[m].at \notin {"running", "ran"} \/ m = Saver
    <3>1. breaks' \in Nat /\ breaks' >= breaks
      BY <1>2
    <3>2. NoMigration.at \notin {"running", "ran"}
      BY <1>1
    <3>3. QED
      BY <1>1, <2>1, <3>1, <3>2, NothingBegun
  <2>2. CASE migrating[m].at \in {"running", "ran"} /\ m # Saver
    <3>1. m \in Migrators /\ Working(m) /\ breaks' = breaks + 1
      BY <2>2 DEF Processes, Working, AtRest
    <3>2. driver = "mysql"
      BY <2>2, <3>1 DEF MigInv, InOrder
    <3>3. \A k \in Scripts : runs[k] <= breaks + 1
      BY <1>2, <3>2 DEF MigInv, BegunOnce
    <3>4. BegunOnce'
      BY <1>2, <3>1, <3>2, <3>3 DEF BegunOnce
    <3>5. RecordedRan'
      BY DEF MigInv, RecordedRan
    <3>6. QED
      BY <3>4, <3>5
  <2>3. QED
    BY <2>1, <2>2
<1>4. m \in Migrators => InOrder(m)'
  BY <1>1 DEF InOrder, Working, AtRest, MigInv, MigTypes
<1>5. \A n \in Processes : n # Unlocked
  BY MigrationsAssumption DEF Processes, Unlocked
<1>6. /\ lock' \in Processes \cup {Unlocked} /\ lock' # m
      /\ \A n \in Processes \ {m} : lock' = n <=> lock = n
  BY <1>1, <1>5 DEF MigInv, MigTypes
<1>7. PICK new \in MigJob : new = NoMigration
  BY <1>1
<1>8. migrating' = [migrating EXCEPT ![m] = new]
  BY <1>1, <1>7
<1>9. m = Saver => new.at \in {"idle", "waiting", "locked"}
  BY <1>1, <1>7
<1>10. new.at \notin AtRest <=> lock' = m
  BY <1>1, <1>6, <1>7 DEF AtRest
<1>11. /\ column' \in BOOLEAN /\ (column => column') /\ breaks' \in Nat
       /\ recorded' \in [Scripts -> Texts] /\ runs' \in [Scripts -> Nat]
       /\ schema' \in [Scripts -> [text : Texts, done : BOOLEAN]]
  BY <1>2 DEF MigInv, MigTypes
<1>12. /\ driver' = driver /\ UNCHANGED <<schema, recorded, column>>
       /\ \A k \in Scripts : recorded[k] # Missing => recorded'[k] = recorded[k]
  OBVIOUS
<1>13. Working(m) \/ UNCHANGED <<schema, recorded, column>>
  OBVIOUS
<1>14. QED
  BY <1>3, <1>4, <1>6, <1>8, <1>9, <1>10, <1>11, <1>12, <1>13, MigStepKeeps

LEMMA BreaksKeeps ==
    ASSUME MigInv, NEW m \in Processes, Breaks(m) \/ LockTimesOut(m)
    PROVE  MigInv'
<1>1. CASE Breaks(m)
  <2>1. /\ Leaves(m) /\ breaks' = breaks + 1
        /\ UNCHANGED <<driver, column, schema, recorded, runs>>
    BY <1>1 DEF Breaks
  <2>2. QED
    BY <2>1, LeavesMigKeeps
<1>2. CASE LockTimesOut(m)
  <2>1. migrating[m].at \notin {"running", "ran"}
    BY <1>2 DEF LockTimesOut, Here
  <2>2. /\ Leaves(m) /\ breaks' = breaks
        /\ UNCHANGED <<driver, column, schema, recorded, runs>>
    BY <1>2 DEF LockTimesOut
  <2>3. QED
    BY <2>1, <2>2, LeavesMigKeeps
<1>3. QED
  BY <1>1, <1>2

\* What is so of a process that works.
LEMMA Worker ==
    ASSUME MigInv, NEW m \in Migrators, Working(m)
    PROVE  /\ m \in Processes /\ m # Saver /\ lock = m /\ migrating[m] \in MigJob
           /\ migrating[m].release \in Releases /\ Len(migrating[m].release) \in Nat
           /\ migrating[m].script \in 1 .. Len(migrating[m].release) + 1
           /\ \A j \in 1 .. migrating[m].script - 1 :
                recorded[j] = migrating[m].release[j] /\ recorded[j] # Missing
           /\ InOrder(m)
<1>1. m \in Processes /\ m # Saver /\ migrating[m] \in MigJob /\ InOrder(m)
  BY MigrationsAssumption DEF MigInv, MigTypes, Processes
<1>2. lock = m
  BY <1>1, WaitsOrWorks
<1>3. /\ migrating[m].release \in Releases
      /\ migrating[m].script \in 1 .. Len(migrating[m].release) + 1
      /\ \A j \in 1 .. migrating[m].script - 1 : recorded[j] = migrating[m].release[j]
  BY <1>1 DEF InOrder
<1>4. /\ Len(migrating[m].release) \in Nat
      /\ \A j \in 1 .. Len(migrating[m].release) : migrating[m].release[j] # Missing
  BY <1>3, ReleaseType
<1>5. QED
  BY <1>1, <1>2, <1>3, <1>4

\* A step of a process that works and goes on working.
LEMMA WorkKeeps ==
    ASSUME MigInv, NEW m \in Migrators, Working(m), NEW new \in MigJob,
           migrating' = [migrating EXCEPT ![m] = new], new.at \notin AtRest,
           UNCHANGED <<driver, lock, breaks>>,
           column' \in BOOLEAN, column => column',
           recorded' \in [Scripts -> Texts],
           \A k \in Scripts : recorded[k] # Missing => recorded'[k] = recorded[k],
           schema' \in [Scripts -> [text : Texts, done : BOOLEAN]],
           runs' \in [Scripts -> Nat],
           InOrder(m)', RecordedRan', BegunOnce'
    PROVE  MigInv'
<1>1. m \in Processes /\ m # Saver /\ lock = m
  BY Worker
<1>2. /\ lock' = m /\ lock' \in Processes \cup {Unlocked}
      /\ \A n \in Processes \ {m} : (lock' = n <=> lock = n)
      /\ driver' = driver /\ breaks' \in Nat
  BY <1>1 DEF MigInv, MigTypes
<1>3. new.at \notin AtRest <=> lock' = m
  BY <1>2
<1>4. m = Saver => new.at \in {"idle", "waiting", "locked"}
  BY <1>1
<1>5. QED
  BY <1>1, <1>2, <1>3, <1>4, MigStepKeeps

\* applyMigration: a recorded script is passed.
LEMMA LookUpKeeps ==
    ASSUME MigInv, NEW m \in Migrators, LookUp(m)
    PROVE  MigInv'
<1> DEFINE k == migrating[m].script
           r == migrating[m].release
<1>1. /\ migrating[m].at = "locked" /\ k <= Len(r)
      /\ UNCHANGED <<driver, column, schema, recorded, runs, breaks>>
  BY DEF LookUp, Here
<1>2. Working(m) /\ m \in Processes
  BY <1>1 DEF Working, AtRest, Processes
<1>3. /\ r \in Releases /\ Len(r) \in Nat /\ k \in 1 .. Len(r)
      /\ migrating[m] \in MigJob /\ InOrder(m)
      /\ \A j \in 1 .. k - 1 : recorded[j] = r[j]
  BY <1>1, <1>2, Worker
<1>4. k \in Scripts
  BY <1>3, ReleaseType
<1>5. /\ column' \in BOOLEAN /\ (column => column')
      /\ recorded' \in [Scripts -> Texts] /\ runs' \in [Scripts -> Nat]
      /\ \A j \in Scripts : recorded[j] # Missing => recorded'[j] = recorded[j]
      /\ schema' \in [Scripts -> [text : Texts, done : BOOLEAN]]
      /\ breaks' \in Nat /\ breaks' >= breaks
      /\ UNCHANGED <<driver, schema, recorded, runs>>
  BY <1>1 DEF MigInv, MigTypes
<1>6. CASE recorded[k] = r[k] /\ UNCHANGED lock
           /\ migrating' = [migrating EXCEPT ![m].script = k + 1]
  <2>1. PICK new \in MigJob :
          /\ migrating' = [migrating EXCEPT ![m] = new]
          /\ new.at = "locked" /\ new.release = r /\ new.script = k + 1
    <3> DEFINE new == [migrating[m] EXCEPT !.script = k + 1]
    <3>1. new \in MigJob /\ new.at = "locked" /\ new.release = r /\ new.script = k + 1
      BY <1>1, <1>3 DEF MigJob
    <3>2. migrating' = [migrating EXCEPT ![m] = new]
      BY <1>6
    <3> HIDE DEF new
    <3>3. QED
      BY <3>1, <3>2
  <2>2. migrating'[m] = new
    BY <1>2, <2>1 DEF MigInv, MigTypes
  <2>3. InOrder(m)'
    BY SMTT(30), <1>1, <1>3, <1>6, <2>1, <2>2 DEF InOrder, Working, AtRest
  <2>4. migrating[m].at \notin {"running", "ran"} /\ new.at \notin {"running", "ran"}
    BY <1>1, <2>1
  <2>5. RecordedRan' /\ BegunOnce'
    BY <1>2, <1>5, <2>1, <2>4, NothingBegun
  <2>6. UNCHANGED <<driver, lock, breaks>> /\ new.at \notin AtRest
    BY <1>1, <1>6, <2>1 DEF AtRest
  <2>7. QED
    BY <1>2, <1>5, <2>1, <2>3, <2>5, <2>6, WorkKeeps
<1>7. CASE recorded[k] = Missing /\ MovesTo(m, "missing") /\ UNCHANGED lock
  <2>1. PICK new \in MigJob :
          /\ migrating' = [migrating EXCEPT ![m] = new]
          /\ new.at = "missing" /\ new.release = r /\ new.script = k
    BY <1>2, <1>7, MovesType
  <2>2. migrating'[m] = new
    BY <1>2, <2>1 DEF MigInv, MigTypes
  <2>3. InOrder(m)'
    BY <1>1, <1>3, <1>7, <2>1, <2>2 DEF InOrder, Working, AtRest
  <2>4. migrating[m].at \notin {"running", "ran"} /\ new.at \notin {"running", "ran"}
    BY <1>1, <2>1
  <2>5. RecordedRan' /\ BegunOnce'
    BY <1>2, <1>5, <2>1, <2>4, NothingBegun
  <2>6. UNCHANGED <<driver, lock, breaks>> /\ new.at \notin AtRest
    BY <1>1, <1>7, <2>1 DEF AtRest
  <2>7. QED
    BY <1>2, <1>5, <2>1, <2>3, <2>5, <2>6, WorkKeeps
<1>8. CASE Leaves(m)
  <2>1. /\ breaks' = breaks /\ migrating[m].at \notin {"running", "ran"}
        /\ UNCHANGED <<driver, column, schema, recorded, runs>>
    BY <1>1
  <2>2. QED
    BY <1>2, <1>8, <2>1, LeavesMigKeeps
<1>9. QED
  BY <1>6, <1>7, <1>8 DEF LookUp, Here

\* ensureHistoryIndexes and its like: what is missing is still missing when it is added.
LEMMA ColumnKeeps ==
    ASSUME MigInv, NEW m \in Migrators, LookForColumn(m) \/ AddColumn(m)
    PROVE  MigInv'
<1> DEFINE k == migrating[m].script
           r == migrating[m].release
<1>1. /\ migrating[m].at \in {"locked", "absent"}
      /\ UNCHANGED <<driver, lock, schema, recorded, runs, breaks>>
  BY DEF LookForColumn, AddColumn, Here
<1>2. Working(m) /\ m \in Processes
  BY <1>1 DEF Working, AtRest, Processes
<1>3. /\ r \in Releases /\ Len(r) \in Nat /\ k = Len(r) + 1
      /\ \A j \in 1 .. k - 1 : recorded[j] = r[j]
  <2>1. CASE LookForColumn(m)
    BY <1>2, <2>1, Worker DEF LookForColumn, Here
  <2>2. CASE AddColumn(m)
    BY <1>2, <2>2, Worker DEF AddColumn, Here, InOrder
  <2>3. QED
    BY <2>1, <2>2
<1>4. PICK at \in {"ready", "absent"} :
        /\ MovesTo(m, at) /\ (column => column') /\ column' \in BOOLEAN
        /\ (at = "ready" <=> column')
  <2>1. CASE LookForColumn(m) /\ column
    <3>1. MovesTo(m, "ready") /\ column'
      BY <2>1 DEF LookForColumn
    <3>2. column' \in BOOLEAN
      BY <2>1 DEF LookForColumn, MigInv, MigTypes
    <3>3. QED
      BY <2>1, <3>1, <3>2
  <2>2. CASE LookForColumn(m) /\ ~column
    <3>1. MovesTo(m, "absent") /\ ~column'
      BY <2>2 DEF LookForColumn
    <3>2. column' \in BOOLEAN
      BY <2>2 DEF LookForColumn, MigInv, MigTypes
    <3>3. QED
      BY <2>2, <3>1, <3>2
  <2>3. CASE AddColumn(m)
    <3>1. MovesTo(m, "ready") /\ column' /\ column' \in BOOLEAN
      BY <2>3 DEF AddColumn
    <3>2. QED
      BY <2>3, <3>1
  <2>4. QED
    BY <2>1, <2>2, <2>3
<1>5. PICK new \in MigJob :
        /\ migrating' = [migrating EXCEPT ![m] = new]
        /\ new.at = at /\ new.release = r /\ new.script = k
  BY <1>2, <1>4, MovesType
<1>6. migrating'[m] = new
  BY <1>2, <1>5 DEF MigInv, MigTypes
<1>7. InOrder(m)'
  <2>1. /\ migrating'[m].at = at /\ migrating'[m].release = r
        /\ migrating'[m].script = k /\ recorded' = recorded
    BY <1>1, <1>5, <1>6
  <2> HIDE DEF k, r
  <2>2. CASE at = "ready"
    BY <1>3, <1>4, <2>1, <2>2 DEF InOrder
  <2>3. CASE at = "absent"
    BY <1>3, <1>4, <2>1, <2>3 DEF InOrder
  <2>4. QED
    BY <2>2, <2>3
<1>8. /\ recorded' \in [Scripts -> Texts] /\ runs' \in [Scripts -> Nat]
      /\ \A j \in Scripts : recorded[j] # Missing => recorded'[j] = recorded[j]
      /\ schema' \in [Scripts -> [text : Texts, done : BOOLEAN]]
      /\ breaks' \in Nat /\ breaks' >= breaks
      /\ UNCHANGED <<driver, schema, recorded, runs>>
  BY <1>1 DEF MigInv, MigTypes
<1>9. RecordedRan' /\ BegunOnce'
  <2>1. migrating[m].at \notin {"running", "ran"} /\ new.at \notin {"running", "ran"}
    BY <1>1, <1>5
  <2>2. QED
    BY <1>2, <1>5, <1>8, <2>1, NothingBegun
<1>10. UNCHANGED <<driver, lock, breaks>> /\ new.at \notin AtRest
  BY <1>1, <1>5 DEF AtRest
<1>11. column' \in BOOLEAN /\ (column => column')
  BY <1>4
<1>12. migrating' = [migrating EXCEPT ![m] = new]
  BY <1>5
<1>13. QED
  BY <1>2, <1>7, <1>8, <1>9, <1>10, <1>11, <1>12, WorkKeeps

\* SQLite runs a script and records it at once.
LEMMA RunInTransactionKeeps ==
    ASSUME MigInv, NEW m \in Migrators, RunInTransaction(m)
    PROVE  MigInv'
<1> DEFINE k == migrating[m].script
           r == migrating[m].release
<1>1. /\ driver = "sqlite" /\ migrating[m].at = "missing" /\ MovesTo(m, "locked")
      /\ schema' = [schema EXCEPT ![k] = [text |-> r[k], done |-> TRUE]]
      /\ recorded' = [recorded EXCEPT ![k] = r[k]]
      /\ runs' = [runs EXCEPT ![k] = @ + 1]
      /\ UNCHANGED <<driver, column, lock, breaks>>
  BY DEF RunInTransaction, Here, Digest, Count
<1>2. Working(m) /\ m \in Processes
  BY <1>1 DEF Working, AtRest, Processes
<1>3. /\ r \in Releases /\ Len(r) \in Nat /\ k \in 1 .. Len(r)
      /\ recorded[k] = Missing
      /\ \A j \in 1 .. k - 1 : recorded[j] = r[j] /\ recorded[j] # Missing
  BY <1>1, <1>2, Worker DEF InOrder
<1>4. k \in Scripts /\ r[k] \in Texts /\ r[k] # Missing
  BY <1>3, ReleaseType
<1>5. \A j \in 1 .. k : j \in Scripts
  BY <1>3, ReleaseType
<1>6. PICK new \in MigJob :
        /\ migrating' = [migrating EXCEPT ![m] = new]
        /\ new.at = "locked" /\ new.release = r /\ new.script = k
  BY <1>1, <1>2, MovesType
<1>7. migrating'[m] = new
  BY <1>2, <1>6 DEF MigInv, MigTypes
<1>8. PICK run \in [text : Texts, done : BOOLEAN] :
        run = [text |-> r[k], done |-> TRUE] /\ schema' = [schema EXCEPT ![k] = run]
  BY <1>1, <1>4
<1>9. /\ recorded' \in [Scripts -> Texts] /\ runs' \in [Scripts -> Nat]
      /\ schema' \in [Scripts -> [text : Texts, done : BOOLEAN]]
      /\ \A j \in Scripts :
           /\ recorded'[j] = (IF j = k THEN r[k] ELSE recorded[j])
           /\ schema'[j] = (IF j = k THEN run ELSE schema[j])
           /\ runs'[j] = (IF j = k THEN runs[k] + 1 ELSE runs[j])
  BY <1>1, <1>4, <1>8 DEF MigInv, MigTypes
<1>10. \A j \in Scripts : recorded[j] # Missing => recorded'[j] = recorded[j]
  BY <1>3, <1>9
<1>11. InOrder(m)'
  <2>1. \A j \in 1 .. k - 1 : recorded'[j] = r[j]
    BY <1>3, <1>5, <1>9
  <2>2. QED
    BY <1>3, <1>6, <1>7, <2>1 DEF InOrder, Working, AtRest
<1>12. RecordedRan'
  <2> SUFFICES ASSUME NEW i \in Scripts, recorded'[i] # Missing
               PROVE  /\ schema'[i] = [text |-> recorded'[i], done |-> TRUE]
                      /\ \A j \in 1 .. i : recorded'[j] # Missing
    BY DEF RecordedRan
  <2>1. CASE i = k
    <3>1. schema'[i] = [text |-> recorded'[i], done |-> TRUE]
      BY <1>4, <1>8, <1>9, <2>1
    <3>2. \A j \in 1 .. i : recorded'[j] # Missing
      BY <1>3, <1>4, <1>5, <1>9, <2>1
    <3>3. QED
      BY <3>1, <3>2
  <2>2. CASE i # k
    <3>1. recorded[i] # Missing /\ recorded'[i] = recorded[i] /\ schema'[i] = schema[i]
      BY <1>9, <2>2
    <3>2. /\ schema[i] = [text |-> recorded[i], done |-> TRUE]
          /\ \A j \in 1 .. i : recorded[j] # Missing
      BY <3>1 DEF MigInv, RecordedRan
    <3>3. \A j \in 1 .. i : recorded'[j] # Missing
      BY <3>2, <1>1, <1>4 DEF MigInv, MigTypes
    <3>4. QED
      BY <3>1, <3>2, <3>3
  <2>3. QED
    BY <2>1, <2>2
<1>13. BegunOnce'
  <2> SUFFICES ASSUME NEW i \in Scripts
               PROVE  runs'[i] <= IF recorded'[i] # Missing \/ InProgress(i)' THEN 1 ELSE 0
    BY <1>1 DEF BegunOnce, MigInv, MigTypes
  <2>1. ~InProgress(i)
    BY <1>1, <1>2, <1>6, AloneInProgress
  <2>2. /\ runs[i] <= (IF recorded[i] # Missing THEN 1 ELSE 0)
        /\ runs[i] \in Nat
    BY <1>1, <2>1 DEF MigInv, BegunOnce, MigTypes
  <2>3. QED
    BY <1>3, <1>4, <1>9, <2>2
<1>14. column' \in BOOLEAN /\ (column => column')
  BY <1>1 DEF MigInv, MigTypes
<1>15. UNCHANGED <<driver, lock, breaks>> /\ new.at \notin AtRest
  BY <1>1, <1>6 DEF AtRest
<1>16. migrating' = [migrating EXCEPT ![m] = new]
  BY <1>6
<1>17. QED
  BY <1>2, <1>9, <1>10, <1>11, <1>12, <1>13, <1>14, <1>15, <1>16, WorkKeeps

\* MySQL commits each statement: a script that has begun is there in part.
LEMMA RunScriptKeeps ==
    ASSUME MigInv, NEW m \in Migrators, RunScript(m)
    PROVE  MigInv'
<1> DEFINE k == migrating[m].script
           r == migrating[m].release
<1>1. /\ driver = "mysql" /\ migrating[m].at = "missing" /\ MovesTo(m, "running")
      /\ schema' = [schema EXCEPT ![k] = [text |-> r[k], done |-> FALSE]]
      /\ runs' = [runs EXCEPT ![k] = @ + 1]
      /\ UNCHANGED <<driver, column, lock, recorded, breaks>>
  BY DEF RunScript, Here, Digest, Count
<1>2. Working(m) /\ m \in Processes
  BY <1>1 DEF Working, AtRest, Processes
<1>3. /\ r \in Releases /\ Len(r) \in Nat /\ k \in 1 .. Len(r)
      /\ recorded[k] = Missing
      /\ \A j \in 1 .. k - 1 : recorded[j] = r[j] /\ recorded[j] # Missing
  BY <1>1, <1>2, Worker DEF InOrder
<1>4. k \in Scripts /\ r[k] \in Texts /\ r[k] # Missing
  BY <1>3, ReleaseType
<1>5. PICK new \in MigJob :
        /\ migrating' = [migrating EXCEPT ![m] = new]
        /\ new.at = "running" /\ new.release = r /\ new.script = k
  BY <1>1, <1>2, MovesType
<1>6. migrating'[m] = new
  BY <1>2, <1>5 DEF MigInv, MigTypes
<1>7. PICK run \in [text : Texts, done : BOOLEAN] :
        run.text = r[k] /\ schema' = [schema EXCEPT ![k] = run]
  <2> DEFINE run == [text |-> r[k], done |-> FALSE]
  <2>1. run \in [text : Texts, done : BOOLEAN] /\ run.text = r[k]
    BY <1>4
  <2>2. schema' = [schema EXCEPT ![k] = run]
    BY <1>1
  <2> HIDE DEF run
  <2>3. QED
    BY <2>1, <2>2
<1>8. /\ recorded' \in [Scripts -> Texts] /\ runs' \in [Scripts -> Nat]
      /\ schema' \in [Scripts -> [text : Texts, done : BOOLEAN]]
      /\ \A j \in Scripts :
           /\ recorded'[j] = recorded[j]
           /\ schema'[j] = (IF j = k THEN run ELSE schema[j])
           /\ runs'[j] = (IF j = k THEN runs[k] + 1 ELSE runs[j])
  BY <1>1, <1>4, <1>7 DEF MigInv, MigTypes
<1>9. InOrder(m)'
  <2>1. schema'[k] = run
    BY <1>4, <1>8
  <2>2. QED
    BY <1>1, <1>3, <1>5, <1>6, <1>7, <2>1 DEF InOrder, Working, AtRest
<1>10. RecordedRan'
  <2>1. \A j \in Scripts : recorded'[j] # Missing => schema'[j] = schema[j]
    BY <1>1, <1>3, <1>8
  <2>2. QED
    BY <1>1, <2>1 DEF MigInv, RecordedRan
<1>11. BegunOnce'
  <2> SUFFICES ASSUME NEW i \in Scripts
               PROVE  runs'[i] <= breaks + (IF recorded[i] # Missing \/ InProgress(i)'
                                            THEN 1 ELSE 0)
    BY <1>1 DEF BegunOnce, MigInv, MigTypes
  <2>1. ~InProgress(i) /\ (InProgress(i)' <=> i = k)
    BY <1>1, <1>2, <1>5, AloneInProgress
  <2>2. /\ runs[i] <= breaks + (IF recorded[i] # Missing THEN 1 ELSE 0)
        /\ runs[i] \in Nat /\ breaks \in Nat
    BY <1>1, <2>1 DEF MigInv, BegunOnce, MigTypes
  <2>3. QED
    BY <1>3, <1>4, <1>8, <2>1, <2>2
<1>12. column' \in BOOLEAN /\ (column => column')
  BY <1>1 DEF MigInv, MigTypes
<1>13. UNCHANGED <<driver, lock, breaks>> /\ new.at \notin AtRest
  BY <1>1, <1>5 DEF AtRest
<1>14. /\ migrating' = [migrating EXCEPT ![m] = new]
       /\ \A j \in Scripts : recorded[j] # Missing => recorded'[j] = recorded[j]
  BY <1>1, <1>5
<1>15. QED
  BY <1>2, <1>8, <1>9, <1>10, <1>11, <1>12, <1>13, <1>14, WorkKeeps

LEMMA ScriptEndsKeeps ==
    ASSUME MigInv, NEW m \in Migrators, ScriptEnds(m)
    PROVE  MigInv'
<1> DEFINE k == migrating[m].script
           r == migrating[m].release
<1>1. /\ migrating[m].at = "running" /\ MovesTo(m, "ran")
      /\ schema' = [schema EXCEPT ![k].done = TRUE]
      /\ UNCHANGED <<driver, column, lock, recorded, runs, breaks>>
  BY DEF ScriptEnds, Here
<1>2. Working(m) /\ m \in Processes
  BY <1>1 DEF Working, AtRest, Processes
<1>3. /\ r \in Releases /\ Len(r) \in Nat /\ k \in 1 .. Len(r)
      /\ recorded[k] = Missing /\ driver = "mysql" /\ schema[k].text = r[k]
      /\ \A j \in 1 .. k - 1 : recorded[j] = r[j] /\ recorded[j] # Missing
  BY <1>1, <1>2, Worker DEF InOrder
<1>4. k \in Scripts
  BY <1>3, ReleaseType
<1>5. PICK new \in MigJob :
        /\ migrating' = [migrating EXCEPT ![m] = new]
        /\ new.at = "ran" /\ new.release = r /\ new.script = k
  BY <1>1, <1>2, MovesType
<1>6. migrating'[m] = new
  BY <1>2, <1>5 DEF MigInv, MigTypes
<1>7. PICK run \in [text : Texts, done : BOOLEAN] :
        run.text = r[k] /\ run.done /\ schema' = [schema EXCEPT ![k] = run]
  <2> DEFINE run == [schema[k] EXCEPT !.done = TRUE]
  <2>1. schema[k] \in [text : Texts, done : BOOLEAN]
    BY <1>4 DEF MigInv, MigTypes
  <2>2. run \in [text : Texts, done : BOOLEAN] /\ run.text = r[k] /\ run.done
    BY <1>3, <2>1
  <2>3. schema' = [schema EXCEPT ![k] = run]
    BY <1>1
  <2> HIDE DEF run
  <2>4. QED
    BY <2>2, <2>3
<1>8. /\ recorded' \in [Scripts -> Texts] /\ runs' \in [Scripts -> Nat]
      /\ schema' \in [Scripts -> [text : Texts, done : BOOLEAN]]
      /\ \A j \in Scripts : schema'[j] = (IF j = k THEN run ELSE schema[j])
  BY ZenonT(60), <1>1, <1>4, <1>7 DEF MigInv, MigTypes
<1>9. InOrder(m)'
  <2>1. schema'[k] = run
    BY <1>4, <1>8
  <2>2. QED
    BY <1>1, <1>3, <1>5, <1>6, <1>7, <2>1 DEF InOrder, Working, AtRest
<1>10. RecordedRan'
  <2>1. \A j \in Scripts : recorded'[j] # Missing => schema'[j] = schema[j]
    BY <1>1, <1>3, <1>8
  <2>2. QED
    BY <1>1, <2>1 DEF MigInv, RecordedRan
<1>11. BegunOnce'
  <2>1. \A i \in Scripts : InProgress(i)' <=> InProgress(i)
    BY ZenonT(60), <1>1, <1>2, <1>5, AloneInProgress
  <2>2. QED
    BY <1>1, <2>1 DEF MigInv, BegunOnce
<1>12. column' \in BOOLEAN /\ (column => column')
  BY <1>1 DEF MigInv, MigTypes
<1>13. UNCHANGED <<driver, lock, breaks>> /\ new.at \notin AtRest
  BY <1>1, <1>5 DEF AtRest
<1>14. /\ migrating' = [migrating EXCEPT ![m] = new]
       /\ \A j \in Scripts : recorded[j] # Missing => recorded'[j] = recorded[j]
  BY <1>1, <1>5
<1>15. QED
  BY <1>2, <1>8, <1>9, <1>10, <1>11, <1>12, <1>13, <1>14, WorkKeeps

LEMMA RecordScriptKeeps ==
    ASSUME MigInv, NEW m \in Migrators, RecordScript(m)
    PROVE  MigInv'
<1> DEFINE k == migrating[m].script
           r == migrating[m].release
<1>1. /\ migrating[m].at = "ran" /\ MovesTo(m, "locked")
      /\ recorded' = [recorded EXCEPT ![k] = r[k]]
      /\ UNCHANGED <<driver, column, lock, schema, runs, breaks>>
  BY DEF RecordScript, Here, Digest
<1>2. Working(m) /\ m \in Processes
  BY <1>1 DEF Working, AtRest, Processes
<1>3. /\ r \in Releases /\ Len(r) \in Nat /\ k \in 1 .. Len(r)
      /\ recorded[k] = Missing /\ schema[k].text = r[k] /\ schema[k].done
      /\ \A j \in 1 .. k - 1 : recorded[j] = r[j] /\ recorded[j] # Missing
  BY <1>1, <1>2, Worker DEF InOrder
<1>4. k \in Scripts /\ r[k] \in Texts /\ r[k] # Missing
  BY <1>3, ReleaseType
<1>5. \A j \in 1 .. k : j \in Scripts
  BY <1>3, ReleaseType
<1>6. PICK new \in MigJob :
        /\ migrating' = [migrating EXCEPT ![m] = new]
        /\ new.at = "locked" /\ new.release = r /\ new.script = k
  BY <1>1, <1>2, MovesType
<1>7. migrating'[m] = new
  BY <1>2, <1>6 DEF MigInv, MigTypes
<1>8. /\ recorded' \in [Scripts -> Texts] /\ runs' \in [Scripts -> Nat]
      /\ schema' \in [Scripts -> [text : Texts, done : BOOLEAN]]
      /\ \A j \in Scripts : recorded'[j] = (IF j = k THEN r[k] ELSE recorded[j])
  BY <1>1, <1>4 DEF MigInv, MigTypes
<1>9. \A j \in Scripts : recorded[j] # Missing => recorded'[j] = recorded[j]
  BY <1>3, <1>8
<1>10. InOrder(m)'
  <2>1. \A j \in 1 .. k - 1 : recorded'[j] = r[j]
    BY SMTT(30), <1>3, <1>5, <1>8
  <2>2. QED
    BY <1>3, <1>6, <1>7, <2>1 DEF InOrder, Working, AtRest
<1>11. RecordedRan'
  <2> SUFFICES ASSUME NEW i \in Scripts, recorded'[i] # Missing
               PROVE  /\ schema'[i] = [text |-> recorded'[i], done |-> TRUE]
                      /\ \A j \in 1 .. i : recorded'[j] # Missing
    BY DEF RecordedRan
  <2>1. CASE i = k
    <3>1. schema[k] \in [text : Texts, done : BOOLEAN]
      BY <1>4 DEF MigInv, MigTypes
    <3>2. schema[k] = [text |-> r[k], done |-> TRUE]
      BY <1>3, <3>1
    <3>3. \A j \in 1 .. i : recorded'[j] # Missing
      BY SMTT(30), <1>3, <1>4, <1>5, <1>8, <2>1
    <3>4. QED
      BY <1>1, <1>8, <2>1, <3>2, <3>3
  <2>2. CASE i # k
    <3>1. recorded[i] # Missing /\ recorded'[i] = recorded[i]
      BY <1>8, <2>2
    <3>2. /\ schema[i] = [text |-> recorded[i], done |-> TRUE]
          /\ \A j \in 1 .. i : recorded[j] # Missing
      BY <3>1 DEF MigInv, RecordedRan
    <3>3. \A j \in 1 .. i : recorded'[j] # Missing
      BY <3>2, <1>1, <1>4 DEF MigInv, MigTypes
    <3>4. QED
      BY <1>1, <3>1, <3>2, <3>3
  <2>3. QED
    BY <2>1, <2>2
<1>12. BegunOnce'
  <2> SUFFICES ASSUME NEW i \in Scripts
               PROVE  runs[i] <= (IF driver = "sqlite" THEN 0 ELSE breaks)
                                 + (IF recorded'[i] # Missing \/ InProgress(i)'
                                    THEN 1 ELSE 0)
    BY <1>1 DEF BegunOnce
  <2>1. InProgress(i) <=> i = k
    BY <1>1, <1>2, <1>6, AloneInProgress
  <2>2. runs[i] <= (IF driver = "sqlite" THEN 0 ELSE breaks)
                   + (IF recorded[i] # Missing \/ i = k THEN 1 ELSE 0)
    BY <2>1 DEF MigInv, BegunOnce
  <2>3. recorded[i] # Missing \/ i = k => recorded'[i] # Missing
    BY <1>4, <1>8, <1>9
  <2>4. runs[i] \in Nat /\ breaks \in Nat
    BY DEF MigInv, MigTypes
  <2>5. QED
    BY <2>2, <2>3, <2>4
<1>13. column' \in BOOLEAN /\ (column => column')
  BY <1>1 DEF MigInv, MigTypes
<1>14. UNCHANGED <<driver, lock, breaks>> /\ new.at \notin AtRest
  BY <1>1, <1>6 DEF AtRest
<1>15. migrating' = [migrating EXCEPT ![m] = new]
  BY <1>6
<1>16. QED
  BY <1>2, <1>8, <1>9, <1>10, <1>11, <1>12, <1>13, <1>14, <1>15, WorkKeeps

\* The lock is given back: a server serves, or a backup has its copy.
LEMMA ServeKeeps ==
    ASSUME MigInv, NEW m \in Processes, Serve(m)
    PROVE  MigInv'
<1>1. /\ lock' = Unlocked
      /\ UNCHANGED <<driver, column, schema, recorded, runs, breaks>>
  BY DEF Serve
<1>2. \A n \in Processes : n # Unlocked
  BY MigrationsAssumption DEF Processes, Unlocked
<1>3. Working(m) /\ lock = m
  <2>1. Working(m)
    BY DEF Serve, Here, Working, AtRest
  <2>2. QED
    BY <2>1, WaitsOrWorks
<1>4. /\ column' \in BOOLEAN /\ (column => column')
      /\ recorded' \in [Scripts -> Texts] /\ runs' \in [Scripts -> Nat]
      /\ \A j \in Scripts : recorded[j] # Missing => recorded'[j] = recorded[j]
      /\ schema' \in [Scripts -> [text : Texts, done : BOOLEAN]]
      /\ breaks' \in Nat /\ breaks' >= breaks
      /\ UNCHANGED <<driver, schema, recorded, runs>>
  BY <1>1 DEF MigInv, MigTypes
<1>5. /\ lock' \in Processes \cup {Unlocked} /\ lock' # m
      /\ \A n \in Processes \ {m} : (lock' = n <=> lock = n)
  BY <1>1, <1>2, <1>3
<1>6. PICK new \in MigJob :
        /\ migrating' = [migrating EXCEPT ![m] = new]
        /\ new.at = (IF m = Saver THEN "idle" ELSE "serving")
        /\ m # Saver => new.release = migrating[m].release
  <2>1. CASE m = Saver
    <3>1. NoMigration \in MigJob /\ NoMigration.at = "idle"
      BY DEF NoMigration, MigJob
    <3>2. migrating' = [migrating EXCEPT ![m] = NoMigration]
      BY <2>1 DEF Serve
    <3>3. QED
      BY <2>1, <3>1, <3>2
  <2>2. CASE m # Saver
    <3> DEFINE new == [migrating[m] EXCEPT !.at = "serving"]
    <3>1. migrating[m] \in MigJob
      BY DEF MigInv, MigTypes
    <3>2. new \in MigJob /\ new.at = "serving" /\ new.release = migrating[m].release
      BY <3>1 DEF MigJob
    <3>3. migrating' = [migrating EXCEPT ![m] = new]
      BY <2>2 DEF Serve
    <3> HIDE DEF new
    <3>4. QED
      BY <2>2, <3>2, <3>3
  <2>3. QED
    BY <2>1, <2>2
<1>7. /\ new.at \in AtRest /\ (new.at \notin AtRest <=> lock' = m)
      /\ (m = Saver => new.at \in {"idle", "waiting", "locked"})
  BY <1>5, <1>6 DEF AtRest
<1>8. migrating'[m] = new
  BY <1>6 DEF MigInv, MigTypes
<1>9. ASSUME m \in Migrators PROVE InOrder(m)'
  <2>1. m # Saver /\ migrating[m].at = "ready"
    BY <1>9, MigrationsAssumption DEF Serve, Here
  <2>2. /\ migrating[m].release \in Releases /\ column
        /\ \A j \in 1 .. Len(migrating[m].release) : recorded[j] = migrating[m].release[j]
    <3>1. /\ InOrder(m) /\ Len(migrating[m].release) \in Nat
          /\ migrating[m].release \in Releases
      BY <1>3, <1>9, Worker
    <3>2. /\ migrating[m].script = Len(migrating[m].release) + 1 /\ column
          /\ \A j \in 1 .. migrating[m].script - 1 : recorded[j] = migrating[m].release[j]
      BY <1>3, <2>1, <3>1 DEF InOrder
    <3>3. QED
      BY <3>1, <3>2
  <2>3. ~Working(m)'
    BY <1>7, <1>8 DEF Working
  <2>4. new.at = "serving" /\ new.release = migrating[m].release
    BY <1>6, <2>1
  <2>5. QED
    BY <1>1, <1>8, <2>2, <2>3, <2>4 DEF InOrder
<1>10. RecordedRan' /\ BegunOnce'
  <2>1. /\ migrating[m].at \notin {"running", "ran"} \/ m = Saver
        /\ new.at \notin {"running", "ran"} \/ m = Saver
    BY <1>6 DEF Serve, Here
  <2>2. migrating' = [migrating EXCEPT ![m] = new]
    BY <1>6
  <2>3. QED
    BY <1>4, <2>1, <2>2, NothingBegun
<1>11. /\ migrating' = [migrating EXCEPT ![m] = new] /\ driver' = driver
       /\ Working(m) \/ UNCHANGED <<schema, recorded, column>>
  BY <1>1, <1>6
<1>12. QED
  BY <1>4, <1>5, <1>7, <1>9, <1>10, <1>11, MigStepKeeps

LEMMA MigStep == MigInv /\ [MigNext]_migVars => MigInv'
<1> SUFFICES ASSUME MigInv, [MigNext]_migVars PROVE MigInv'
  OBVIOUS
<1>1. ASSUME NEW m \in Migrators, NEW r \in Releases, Begin(m, r) PROVE MigInv'
  BY <1>1, BeginKeeps DEF Processes
<1>2. CASE Begin(Saver, <<>>)
  BY <1>2, BeginKeeps, MigrationsAssumption DEF Processes
<1>3. ASSUME NEW m \in Migrators \cup {Saver},
             MigrationLock(m) \/ LockTimesOut(m) \/ Breaks(m) \/ Serve(m)
      PROVE  MigInv'
  BY <1>3, MigrationLockKeeps, BreaksKeeps, ServeKeeps DEF Processes
<1>4. ASSUME NEW m \in Migrators,
             \/ LookUp(m) \/ RunInTransaction(m)
             \/ RunScript(m) \/ ScriptEnds(m) \/ RecordScript(m)
             \/ LookForColumn(m) \/ AddColumn(m)
      PROVE  MigInv'
  BY <1>4, LookUpKeeps, RunInTransactionKeeps, RunScriptKeeps, ScriptEndsKeeps,
     RecordScriptKeeps, ColumnKeeps
<1>5. CASE UNCHANGED migVars
  <2>1. UNCHANGED <<driver, lock, schema, recorded, column, migrating, runs, breaks>>
    BY <1>5 DEF migVars
  <2>2. MigTypes' /\ LockHeld' /\ RecordedRan'
    BY <2>1 DEF MigInv, MigTypes, LockHeld, Working, RecordedRan
  <2>3. \A m \in Migrators : InOrder(m)'
    BY <2>1 DEF MigInv, InOrder, Working
  <2>4. BegunOnce'
    BY <2>1 DEF MigInv, BegunOnce, InProgress
  <2>5. QED
    BY <2>2, <2>3, <2>4 DEF MigInv
<1>6. QED
  BY <1>1, <1>2, <1>3, <1>4, <1>5 DEF MigNext

\* The inductive invariant of migrations (applyMigrations, applyMigration, migrationLock).
THEOREM MigrationsInvariant == MigSpec => []MigInv
  BY MigStart, MigStep, PTL DEF MigSpec

\* One process at a time changes the schema and none while a backup reads it, what
\* is recorded has run to its end, and a script is begun again only after an
\* interruption, for any number of processes and scripts (migrationLock,
\* applyMigration, LockSchema).
THEOREM MigrationsSoundHolds == MigSpec => []MigrationsSound
<1>1. ASSUME MigInv PROVE MigrationsSound
  <2>1. Cardinality({m \in Migrators \cup {Saver} :
                       migrating[m].at \notin {"idle", "waiting", "serving"}}) <= 1
    <3>1. {m \in Migrators \cup {Saver} :
             migrating[m].at \notin {"idle", "waiting", "serving"}} \subseteq {lock}
      BY <1>1 DEF MigInv, LockHeld, Working, AtRest, Processes
    <3>2. QED
      BY <3>1, OneKey
  <2>2. \A k \in Scripts : recorded[k] # Missing =>
          /\ schema[k] = [text |-> recorded[k], done |-> TRUE]
          /\ \A j \in 1 .. k : recorded[j] # Missing
    BY <1>1 DEF MigInv, RecordedRan
  <2>3. \A k \in Scripts : runs[k] <= 1 + (IF driver = "sqlite" THEN 0 ELSE breaks)
    BY <1>1 DEF MigInv, MigTypes, BegunOnce
  <2>4. ASSUME NEW m \in Migrators
        PROVE  /\ migrating[m].at = "absent" => ~column
               /\ migrating[m].at = "serving" =>
                    /\ column
                    /\ \A k \in 1 .. Len(migrating[m].release) :
                         recorded[k] = migrating[m].release[k]
    BY <1>1 DEF MigInv, InOrder
  <2>5. QED
    BY <2>1, <2>2, <2>3, <2>4 DEF MigrationsSound
<1>2. QED
  BY <1>1, MigrationsInvariant, PTL

-----------------------------------------------------------------------------
(* Renewals *)

\* v is the day until which a base term that ends on day b and the cards S, each
\* from the day start[c], pay without a break (PaidUntil).
From(start, S, c) == start[c] + SumFunctionOnSet(DaysOf, {d \in S : start[d] >= start[c]})
Whole(b, S) == b + SumFunctionOnSet(DaysOf, S)

PaidBy(b, start, S, v) ==
    /\ v = Whole(b, S) \/ \E c \in S : v = From(start, S, c)
    /\ v >= Whole(b, S)
    /\ \A c \in S : v >= From(start, S, c)

\* The licence's row and the cards agree on a track.
HasTerm(row, t) == ~(t = "usage" /\ row.perpetual)
Starts(row, cs) == [c \in Cards |-> Later(cs[c].usedAt, row.activated)]

TrackExact(l, t, row, cs) ==
    IF ~HasTerm(row, t)
    THEN Credits(l, t, cs) = {} /\ row.base[t] = Nil /\ row.until[t] = Nil
    ELSE IF row.activated = Nil
    THEN /\ row.base[t] = Nil /\ row.until[t] = Nil
         /\ row.days[t] = Whole(BaseDays[l][t], Credits(l, t, cs))
    ELSE /\ row.base[t] = row.activated + BaseDays[l][t]
         /\ PaidBy(row.base[t], Starts(row, cs), Credits(l, t, cs), row.until[t])

RenInv ==
    /\ TypeOK
    /\ \A c \in Cards : card[c].usedAt <= now
    /\ \A l \in Targets : lic[l].activated <= now
    /\ \A l \in Targets, t \in Tracks : TrackExact(l, t, lic[l], card)

\* Sums of days.
LEMMA DaysType ==
    ASSUME NEW S, S \subseteq Cards
    PROVE  /\ IsFiniteSet(S) /\ SumFunctionOnSet(DaysOf, S) \in Nat
           /\ \A c \in S : DaysOf[c] \in Nat
<1>1. IsFiniteSet(S) /\ \A c \in S : DaysOf[c] \in Nat
  BY RenewalsAssumption, FS_Subset
<1>2. QED
  BY <1>1, SumNat

LEMMA DaysMore ==
    ASSUME NEW S, S \subseteq Cards, NEW c \in Cards, c \notin S
    PROVE  SumFunctionOnSet(DaysOf, S \cup {c}) = SumFunctionOnSet(DaysOf, S) + DaysOf[c]
<1>1. IsFiniteSet(S) /\ \A d \in S \cup {c} : DaysOf[d] \in Int
  BY DaysType, RenewalsAssumption
<1>2. QED
  BY <1>1, SumAdd

LEMMA DaysLess ==
    ASSUME NEW S, S \subseteq Cards, NEW T, T \subseteq S
    PROVE  SumFunctionOnSet(DaysOf, T) <= SumFunctionOnSet(DaysOf, S)
BY DaysType, SumSubset

LEMMA FromType ==
    ASSUME NEW start \in [Cards -> Int], NEW S, S \subseteq Cards, NEW b \in Int
    PROVE  Whole(b, S) \in Int /\ \A c \in S : From(start, S, c) \in Int
<1>1. SumFunctionOnSet(DaysOf, S) \in Nat
  BY DaysType
<1>2. ASSUME NEW c \in S
      PROVE  SumFunctionOnSet(DaysOf, {d \in S : start[d] >= start[c]}) \in Nat
  BY DaysType
<1>3. QED
  BY <1>1, <1>2 DEF Whole, From

LEMMA PaidEmpty ==
    ASSUME NEW b \in Int, NEW start PROVE PaidBy(b, start, {}, b)
BY SumEmpty DEF PaidBy, Whole

LEMMA PaidSame ==
    ASSUME NEW S, NEW f, NEW g, \A c \in S : f[c] = g[c],
           NEW b, NEW v, PaidBy(b, f, S, v)
    PROVE  PaidBy(b, g, S, v)
<1>1. ASSUME NEW c \in S
      PROVE  From(g, S, c) = From(f, S, c)
  <2>1. {d \in S : g[d] >= g[c]} = {d \in S : f[d] >= f[c]}
    OBVIOUS
  <2>2. QED
    BY <2>1 DEF From
<1>2. QED
  BY <1>1 DEF PaidBy

LEMMA PaidUnique ==
    ASSUME NEW start \in [Cards -> Int], NEW S, S \subseteq Cards, NEW b \in Int,
           NEW v, NEW w, PaidBy(b, start, S, v), PaidBy(b, start, S, w)
    PROVE  v \in Int /\ v = w
BY FromType DEF PaidBy

\* PaidUntil is the one.
LEMMA PaidIsMax ==
    ASSUME NEW start \in [Cards -> Int], NEW S, S \subseteq Cards, NEW b \in Int,
           NEW v, PaidBy(b, start, S, v)
    PROVE  v = Max({Whole(b, S)} \cup {From(start, S, c) : c \in S})
<1> DEFINE M == {Whole(b, S)} \cup {From(start, S, c) : c \in S}
<1>1. v \in M /\ \A w \in M : v >= w
  BY DEF PaidBy
<1>2. \A w \in M : w \in Int
  BY FromType
<1> HIDE DEF M
<1>3. Max(M) \in M /\ \A w \in M : Max(M) >= w
  BY <1>1 DEF Max
<1>4. v \in Int /\ Max(M) \in Int /\ v >= Max(M) /\ Max(M) >= v
  BY <1>1, <1>2, <1>3
<1>5. v = Max(M)
  BY <1>4
<1>6. QED
  BY <1>5 DEF M

\* Without some of the cards, no day is gained.
LEMMA PaidLess ==
    ASSUME NEW start \in [Cards -> Int], NEW S, S \subseteq Cards, NEW T, T \subseteq S,
           NEW b \in Int, NEW v, NEW w, PaidBy(b, start, T, v), PaidBy(b, start, S, w)
    PROVE  v <= w
<1>1. Whole(b, T) <= Whole(b, S)
  BY DaysLess, DaysType DEF Whole
<1>2. \A c \in T : From(start, T, c) <= From(start, S, c)
  <2> SUFFICES ASSUME NEW c \in T PROVE From(start, T, c) <= From(start, S, c)
    OBVIOUS
  <2> DEFINE inT == {d \in T : start[d] >= start[c]}
             inS == {d \in S : start[d] >= start[c]}
  <2>1. inT \subseteq inS /\ inS \subseteq Cards /\ start[c] \in Int
    OBVIOUS
  <2> HIDE DEF inT, inS
  <2>2. SumFunctionOnSet(DaysOf, inT) <= SumFunctionOnSet(DaysOf, inS)
    BY <2>1, DaysLess
  <2>3. SumFunctionOnSet(DaysOf, inT) \in Nat /\ SumFunctionOnSet(DaysOf, inS) \in Nat
    BY <2>1, DaysType
  <2>4. From(start, T, c) = start[c] + SumFunctionOnSet(DaysOf, inT)
        /\ From(start, S, c) = start[c] + SumFunctionOnSet(DaysOf, inS)
    BY DEF From, inT, inS
  <2>5. QED
    BY <2>1, <2>2, <2>3, <2>4
<1>3. /\ Whole(b, T) \in Int /\ Whole(b, S) \in Int
      /\ \A c \in T : From(start, T, c) \in Int /\ From(start, S, c) \in Int
  BY FromType
<1>4. w \in Int /\ w >= Whole(b, S) /\ \A c \in T : w >= From(start, S, c)
  BY PaidUnique DEF PaidBy
<1>5. CASE v = Whole(b, T)
  BY <1>1, <1>3, <1>4, <1>5
<1>6. CASE \E c \in T : v = From(start, T, c)
  BY <1>2, <1>3, <1>4, <1>6
<1>7. QED
  BY <1>5, <1>6 DEF PaidBy

\* A card more, not used before the others: it adds its days to what is left.
LEMMA PaidMore ==
    ASSUME NEW start \in [Cards -> Int], NEW S, S \subseteq Cards,
           NEW c \in Cards, c \notin S, \A d \in S : start[d] <= start[c],
           NEW b \in Int, NEW v, PaidBy(b, start, S, v)
    PROVE  PaidBy(b, start, S \cup {c}, Later(v, start[c]) + DaysOf[c])
<1> DEFINE R == S \cup {c}
           E == {d \in S : start[d] >= start[c]}
<1>1. /\ v \in Int /\ start[c] \in Int /\ DaysOf[c] \in Nat
      /\ Whole(b, S) \in Int /\ \A d \in S : From(start, S, d) \in Int
  BY PaidUnique, FromType, RenewalsAssumption
<1>2. Whole(b, R) = Whole(b, S) + DaysOf[c]
  BY DaysMore, DaysType, <1>1 DEF Whole
<1>3. ASSUME NEW d \in S
      PROVE  From(start, R, d) = From(start, S, d) + DaysOf[c]
  <2> DEFINE F == {e \in S : start[e] >= start[d]}
  <2>1. start[d] \in Int /\ start[c] >= start[d]
    BY <1>1
  <2>2. {e \in R : start[e] >= start[d]} = F \cup {c}
    BY <2>1
  <2>3. F \subseteq Cards /\ c \notin F
    OBVIOUS
  <2> HIDE DEF F
  <2>4. /\ SumFunctionOnSet(DaysOf, F \cup {c}) = SumFunctionOnSet(DaysOf, F) + DaysOf[c]
        /\ SumFunctionOnSet(DaysOf, F) \in Nat
    BY <2>3, DaysMore, DaysType
  <2>5. /\ From(start, R, d) = start[d] + SumFunctionOnSet(DaysOf, F \cup {c})
        /\ From(start, S, d) = start[d] + SumFunctionOnSet(DaysOf, F)
    BY <2>2 DEF From, F
  <2>6. QED
    BY <1>1, <2>1, <2>4, <2>5
<1>4. From(start, R, c) = start[c] + SumFunctionOnSet(DaysOf, E) + DaysOf[c]
  <2>1. {e \in R : start[e] >= start[c]} = E \cup {c}
    BY <1>1
  <2>2. E \subseteq Cards /\ c \notin E
    OBVIOUS
  <2> HIDE DEF E
  <2>3. /\ SumFunctionOnSet(DaysOf, E \cup {c}) = SumFunctionOnSet(DaysOf, E) + DaysOf[c]
        /\ SumFunctionOnSet(DaysOf, E) \in Nat
    BY <2>2, DaysMore, DaysType
  <2>4. From(start, R, c) = start[c] + SumFunctionOnSet(DaysOf, E \cup {c})
    BY <2>1 DEF From
  <2>5. QED
    BY <1>1, <2>3, <2>4
<1>5. CASE E = {}
  <2>1. From(start, R, c) = start[c] + DaysOf[c]
    <3>1. SumFunctionOnSet(DaysOf, E) = 0
      BY <1>5, SumEmpty
    <3> HIDE DEF E, R
    <3>2. QED
      BY <1>1, <1>4, <3>1
  <2>2. /\ v = Whole(b, S) \/ \E d \in S : v = From(start, S, d)
        /\ v >= Whole(b, S) /\ \A d \in S : v >= From(start, S, d)
    BY DEF PaidBy
  <2>3. CASE v > start[c]
    <3>1. Later(v, start[c]) + DaysOf[c] = v + DaysOf[c]
      BY <2>3 DEF Later
    <3>2. v + DaysOf[c] = Whole(b, R) \/ \E d \in R : v + DaysOf[c] = From(start, R, d)
      BY <1>2, <1>3, <2>2
    <3>3. /\ v + DaysOf[c] >= Whole(b, R)
          /\ \A d \in R : v + DaysOf[c] >= From(start, R, d)
      BY <1>1, <1>2, <1>3, <2>1, <2>2, <2>3
    <3> HIDE DEF R, E
    <3>4. QED
      BY <3>1, <3>2, <3>3 DEF PaidBy, R
  <2>4. CASE ~(v > start[c])
    <3>1. Later(v, start[c]) + DaysOf[c] = start[c] + DaysOf[c]
      BY <2>4 DEF Later
    <3>2. c \in R /\ start[c] + DaysOf[c] = From(start, R, c)
      BY <2>1
    <3>3. /\ start[c] + DaysOf[c] >= Whole(b, R)
          /\ \A d \in R : start[c] + DaysOf[c] >= From(start, R, d)
      <4>1. \A d \in S : /\ From(start, R, d) = From(start, S, d) + DaysOf[c]
                         /\ From(start, S, d) \in Int /\ v >= From(start, S, d)
        BY <1>1, <1>3, <2>2
      <4>2. v <= start[c] /\ v >= Whole(b, S) /\ Whole(b, S) \in Int
        BY <1>1, <2>2, <2>4
      <4> HIDE DEF R, E
      <4>3. \A d \in S : start[c] + DaysOf[c] >= From(start, R, d)
        BY <1>1, <4>1, <4>2
      <4>4. start[c] + DaysOf[c] >= Whole(b, R)
        BY <1>1, <1>2, <4>2
      <4>5. QED
        BY <1>1, <2>1, <4>3, <4>4 DEF R
    <3> HIDE DEF R, E
    <3>4. QED
      BY <3>1, <3>2, <3>3 DEF PaidBy, R
  <2>5. QED
    BY <2>3, <2>4
<1>6. CASE E # {}
  <2>1. PICK e \in S : start[e] = start[c]
    BY <1>1, <1>6
  <2>2. From(start, S, e) = start[c] + SumFunctionOnSet(DaysOf, E)
    BY <2>1 DEF From
  <2>3. SumFunctionOnSet(DaysOf, E) \in Nat
    BY DaysType
  <2>4. From(start, R, c) = From(start, S, e) + DaysOf[c]
    BY <1>4, <2>2
  <2>5. /\ v = Whole(b, S) \/ \E d \in S : v = From(start, S, d)
        /\ v >= Whole(b, S) /\ \A d \in S : v >= From(start, S, d)
    BY DEF PaidBy
  <2>6. v >= start[c]
    BY <1>1, <2>1, <2>2, <2>3, <2>5
  <2>7. Later(v, start[c]) + DaysOf[c] = v + DaysOf[c]
    BY <1>1, <2>6 DEF Later
  <2>8. v + DaysOf[c] = Whole(b, R) \/ \E d \in R : v + DaysOf[c] = From(start, R, d)
    BY <1>2, <1>3, <2>5
  <2>9. /\ v + DaysOf[c] >= Whole(b, R)
        /\ \A d \in R : v + DaysOf[c] >= From(start, R, d)
    <3>1. \A d \in S : /\ From(start, R, d) = From(start, S, d) + DaysOf[c]
                       /\ From(start, S, d) \in Int /\ v >= From(start, S, d)
      BY <1>1, <1>3, <2>5
    <3> HIDE DEF R, E
    <3>2. \A d \in S : v + DaysOf[c] >= From(start, R, d)
      BY <1>1, <3>1
    <3>3. v + DaysOf[c] >= From(start, R, c)
      BY <1>1, <2>1, <2>4, <3>1
    <3>4. v + DaysOf[c] >= Whole(b, R)
      BY <1>1, <1>2, <2>5
    <3>5. QED
      BY <3>2, <3>3, <3>4 DEF R
  <2> HIDE DEF R, E
  <2>10. QED
    BY <2>7, <2>8, <2>9 DEF PaidBy, R
<1>7. QED
  BY <1>5, <1>6

\* recomputeRenewals replays the cards from the one used first.
LastUsed(R, cs) == CHOOSE c \in R : \A d \in R : cs[d].usedAt <= cs[c].usedAt

ReplayStep(l, t, cs, g, R) ==
    IF R = {} THEN lic[l].base[t]
    ELSE Later(g[R \ {LastUsed(R, cs)}],
               Later(cs[LastUsed(R, cs)].usedAt, lic[l].activated))
         + DaysOf[LastUsed(R, cs)]

Replays(l, t, cs, S, g) == g = [R \in SUBSET S |-> ReplayStep(l, t, cs, g, R)]

LEMMA ReplayUnfold ==
    ASSUME NEW l, NEW t, NEW cs, NEW S
    PROVE  Replay(l, t, S, cs) = (CHOOSE g : Replays(l, t, cs, S, g))[S]
BY DEF Replay, Replays, ReplayStep, LastUsed

LEMMA LastUsedIn ==
    ASSUME NEW cs, \A c \in Cards : cs[c].usedAt \in Int,
           NEW R, R \subseteq Cards, R # {}
    PROVE  /\ LastUsed(R, cs) \in R
           /\ \A d \in R : cs[d].usedAt <= cs[LastUsed(R, cs)].usedAt
<1> DEFINE f == [c \in Cards |-> cs[c].usedAt]
<1>1. IsFiniteSet(R) /\ \A x \in R : f[x] \in Int
  BY DaysType
<1>2. \E c \in R : \A d \in R : f[d] <= f[c]
  <2> HIDE DEF f
  <2>1. QED
    BY <1>1, Greatest
<1>3. \E c \in R : \A d \in R : cs[d].usedAt <= cs[c].usedAt
  BY <1>2
<1>4. QED
  BY <1>3 DEF LastUsed

LEMMA ReplayExists ==
    ASSUME NEW l, NEW t, NEW cs, \A c \in Cards : cs[c].usedAt \in Int,
           NEW S, S \subseteq Cards, lic[l].base[t] \in Int, lic[l].activated \in Int
    PROVE  \E g : Replays(l, t, cs, S, g)
<1> DEFINE pick == [R \in SUBSET S |-> LastUsed(R, cs)]
           step == [x \in (SUBSET S) \X Int |->
                      Later(x[2], Later(cs[LastUsed(x[1], cs)].usedAt, lic[l].activated))
                        + DaysOf[LastUsed(x[1], cs)]]
           put == [x \in (SUBSET S) \X Int |-> IF x[1] = {} THEN 0 ELSE step[x]]
<1>1. \A R \in SUBSET S : R # {} => pick[R] \in R
  BY LastUsedIn
<1>2. \A R \in SUBSET S, v \in Int :
        R # {} => put[<<R, v>>] = Later(v, Later(cs[LastUsed(R, cs)].usedAt, lic[l].activated))
                                    + DaysOf[LastUsed(R, cs)]
  OBVIOUS
<1>3. \A R \in SUBSET S, v \in Int : put[<<R, v>>] \in Int
  <2> SUFFICES ASSUME NEW R \in SUBSET S, NEW v \in Int PROVE put[<<R, v>>] \in Int
    OBVIOUS
  <2>1. CASE R = {}
    BY <2>1
  <2>2. CASE R # {}
    <3>1. LastUsed(R, cs) \in Cards
      BY <2>2, LastUsedIn
    <3>2. /\ DaysOf[LastUsed(R, cs)] \in Int /\ cs[LastUsed(R, cs)].usedAt \in Int
      BY <3>1, RenewalsAssumption
    <3> HIDE DEF put
    <3>3. QED
      BY <1>2, <2>2, <3>2 DEF Later
  <2>3. QED
    BY <2>1, <2>2
<1>4. IsFiniteSet(S)
  BY DaysType
<1> HIDE DEF pick, put, step
<1>5. PICK g : Recurs(lic[l].base[t], pick, put, S, g)
  BY <1>1, <1>4, RecursExists
<1>6. \A R \in SUBSET S : g[R] \in Int
  <2>1. PICK b \in Int : b = lic[l].base[t]
    OBVIOUS
  <2>2. Recurs(b, pick, put, S, g)
    BY <1>5, <2>1
  <2>3. QED
    BY <1>1, <1>3, <1>4, <2>2, RecursInt
<1>7. ASSUME NEW R \in SUBSET S
      PROVE  RecStep(lic[l].base[t], pick, put, g, R) = ReplayStep(l, t, cs, g, R)
  <2>1. CASE R = {}
    BY <2>1 DEF RecStep, ReplayStep
  <2>2. CASE R # {}
    <3>1. pick[R] = LastUsed(R, cs)
      BY DEF pick
    <3>2. R \ {pick[R]} \in SUBSET S
      OBVIOUS
    <3>3. g[R \ {pick[R]}] \in Int
      BY <1>6, <3>2
    <3>4. RecStep(lic[l].base[t], pick, put, g, R) = put[<<R, g[R \ {pick[R]}]>>]
      BY <2>2 DEF RecStep
    <3>5. QED
      BY <1>2, <2>2, <3>1, <3>3, <3>4 DEF ReplayStep
  <2>3. QED
    BY <2>1, <2>2
<1>8. g = [R \in SUBSET S |-> ReplayStep(l, t, cs, g, R)]
  <2>1. g = [R \in SUBSET S |-> RecStep(lic[l].base[t], pick, put, g, R)]
    BY <1>5 DEF Recurs
  <2>2. [R \in SUBSET S |-> RecStep(lic[l].base[t], pick, put, g, R)]
          = [R \in SUBSET S |-> ReplayStep(l, t, cs, g, R)]
    BY <1>7
  <2>3. QED
    BY <2>1, <2>2
<1>9. QED
  BY <1>8 DEF Replays

\* The dates that a refund rebuilds are those that redemptions advance.
LEMMA ReplayPaid ==
    ASSUME NEW l, NEW t, NEW cs, \A c \in Cards : cs[c].usedAt \in Int,
           NEW S, S \subseteq Cards, lic[l].base[t] \in Int, lic[l].activated \in Int
    PROVE  PaidBy(lic[l].base[t], Starts(lic[l], cs), S, Replay(l, t, S, cs))
<1> DEFINE start == Starts(lic[l], cs)
           b == lic[l].base[t]
<1>1. PICK g : Replays(l, t, cs, S, g) /\ Replay(l, t, S, cs) = g[S]
  BY ReplayExists, ReplayUnfold
<1>2. \A R \in SUBSET S : g[R] = ReplayStep(l, t, cs, g, R)
  BY <1>1 DEF Replays
<1>3. /\ start \in [Cards -> Int]
      /\ \A c \in Cards : start[c] = Later(cs[c].usedAt, lic[l].activated)
  BY DEF Starts, Later
<1>4. IsFiniteSet(S)
  BY DaysType
<1> DEFINE B == {R \in SUBSET S : ~PaidBy(b, start, R, g[R])}
<1> HIDE DEF start
<1>5. B = {}
  <2>1. SUFFICES ASSUME B # {} PROVE FALSE
    OBVIOUS
  <2>2. PICK R \in B : \A U \in B : U \subseteq R => U = R
    <3>1. B \subseteq SUBSET S
      OBVIOUS
    <3> HIDE DEF B
    <3>2. QED
      BY <1>4, <2>1, <3>1, LeastSubset
  <2>3. R \subseteq S /\ R \subseteq Cards /\ ~PaidBy(b, start, R, g[R])
    OBVIOUS
  <2>4. R # {}
    <3>1. CASE R = {}
      <4>1. g[R] = b
        BY <1>2, <2>3, <3>1 DEF ReplayStep
      <4>2. QED
        BY <2>3, <3>1, <4>1, PaidEmpty
    <3>2. QED
      BY <3>1
  <2>5. PICK c : c = LastUsed(R, cs)
    OBVIOUS
  <2>6. c \in R /\ \A d \in R : cs[d].usedAt <= cs[c].usedAt
    BY <2>3, <2>4, <2>5, LastUsedIn
  <2>7. \A d \in R \ {c} : start[d] <= start[c]
    BY <1>3, <2>3, <2>6 DEF Later
  <2>8. PaidBy(b, start, R \ {c}, g[R \ {c}])
    BY <2>2, <2>3, <2>6
  <2>9. PaidBy(b, start, (R \ {c}) \cup {c}, Later(g[R \ {c}], start[c]) + DaysOf[c])
    BY <1>3, <2>3, <2>6, <2>7, <2>8, PaidMore
  <2>10. (R \ {c}) \cup {c} = R
    BY <2>6
  <2>11. g[R] = Later(g[R \ {c}], start[c]) + DaysOf[c]
    BY <1>2, <1>3, <2>3, <2>4, <2>5, <2>6 DEF ReplayStep
  <2>12. QED
    BY <2>3, <2>9, <2>10, <2>11
<1>6. PaidBy(b, start, S, g[S])
  BY <1>5
<1>7. QED
  BY <1>1, <1>6 DEF start

\* A track that a step leaves alone.
LEMMA TrackSame ==
    ASSUME NEW l, NEW t, NEW row, NEW new, NEW cs, NEW cards2,
           TrackExact(l, t, row, cs),
           new.perpetual = row.perpetual, new.activated = row.activated,
           new.base[t] = row.base[t], new.until[t] = row.until[t],
           row.activated = Nil => new.days[t] = row.days[t],
           Credits(l, t, cards2) = Credits(l, t, cs),
           \A c \in Cards : cards2[c].usedAt = cs[c].usedAt \/ c \notin Credits(l, t, cs)
    PROVE  TrackExact(l, t, new, cards2)
<1>1. HasTerm(new, t) <=> HasTerm(row, t)
  BY DEF HasTerm
<1>2. \A c \in Credits(l, t, cs) : Starts(new, cards2)[c] = Starts(row, cs)[c]
  <2>1. \A c \in Credits(l, t, cs) : c \in Cards
    BY DEF Credits
  <2>2. QED
    BY <2>1 DEF Starts
<1>3. PaidBy(row.base[t], Starts(row, cs), Credits(l, t, cs), row.until[t])
      => PaidBy(new.base[t], Starts(new, cards2), Credits(l, t, cards2), new.until[t])
  BY <1>2, PaidSame
<1>4. QED
  BY <1>1, <1>3 DEF TrackExact

\* What is so of a licence and of its cards.
LEMMA RowOf ==
    ASSUME RenInv, NEW l \in Targets
    PROVE  /\ lic[l] \in LicenseRow /\ now \in Nat /\ lic[l].activated <= now
           /\ \A t \in Tracks : /\ TrackExact(l, t, lic[l], card)
                                /\ Credits(l, t, card) \subseteq Cards
           /\ \A c \in Cards : /\ card[c] \in CardRow /\ card[c].usedAt \in Int
                               /\ card[c].usedAt <= now
BY DEF RenInv, TypeOK, CardRow, Time, Nil, Credits

LEMMA RenStart == Init => RenInv
<1> SUFFICES ASSUME Init PROVE RenInv
  OBVIOUS
<1>1. PICK perpetual \in [Targets -> BOOLEAN] :
        \A l \in Targets :
          lic[l] = [status |-> "active", perpetual |-> perpetual[l],
                    activated |-> Nil, blocked |-> FALSE,
                    days |-> BaseDays[l], base |-> [t \in Tracks |-> Nil],
                    until |-> [t \in Tracks |-> Nil]]
  BY DEF Init
<1>2. /\ \A c \in Cards : card[c] = [status |-> "unused", target |-> None,
                                     usedAt |-> Nil, refunded |-> FALSE]
      /\ \A c \in Cards : source[c] = "active"
      /\ now = 0 /\ appActive = TRUE /\ refunded = {}
  BY DEF Init
<1>3. ASSUME NEW l \in Targets
      PROVE  /\ lic[l] \in LicenseRow
             /\ lic[l].activated = Nil /\ lic[l].days = BaseDays[l]
             /\ \A t \in Tracks : lic[l].base[t] = Nil /\ lic[l].until[t] = Nil
  <2>1. \A p \in BOOLEAN, f \in [Tracks -> Nat], g \in [Tracks -> Time] :
          [status |-> "active", perpetual |-> p, activated |-> Nil, blocked |-> FALSE,
           days |-> f, base |-> g, until |-> g] \in LicenseRow
    BY DEF LicenseRow, Statuses, Time
  <2>2. BaseDays[l] \in [Tracks -> Nat] /\ [t \in Tracks |-> Nil] \in [Tracks -> Time]
    BY RenewalsAssumption DEF Time
  <2>3. perpetual[l] \in BOOLEAN
    OBVIOUS
  <2>4. PICK p \in BOOLEAN, f \in [Tracks -> Nat], g \in [Tracks -> Time] :
          p = perpetual[l] /\ f = BaseDays[l] /\ g = [t \in Tracks |-> Nil]
    BY <2>2, <2>3
  <2>5. lic[l] = [status |-> "active", perpetual |-> p, activated |-> Nil,
                  blocked |-> FALSE, days |-> f, base |-> g, until |-> g]
    BY <1>1, <2>4
  <2>6. lic[l] \in LicenseRow
    BY <2>1, <2>5
  <2>7. /\ lic[l].activated = Nil /\ lic[l].days = f
        /\ lic[l].base = g /\ lic[l].until = g
    BY <2>5
  <2>8. \A t \in Tracks : g[t] = Nil
    BY <2>4
  <2>9. QED
    BY <2>4, <2>6, <2>7, <2>8
<1>4. \A c \in Cards : card[c] \in CardRow /\ card[c].usedAt = Nil /\ card[c].target = None
  <2>1. [status |-> "unused", target |-> None, usedAt |-> Nil, refunded |-> FALSE] \in CardRow
    BY DEF CardRow, Time
  <2>2. QED
    BY <1>2, <2>1
<1>5. lic \in [Targets -> LicenseRow] /\ card \in [Cards -> CardRow]
      /\ source \in [Cards -> SourceStatuses]
  BY <1>3, <1>4 DEF Init, SourceStatuses
<1>6. TypeOK
  BY <1>2, <1>4, <1>5 DEF TypeOK
<1>7. /\ \A c \in Cards : card[c].usedAt <= now
      /\ \A l \in Targets : lic[l].activated <= now
  BY <1>2, <1>3, <1>4 DEF Nil
<1>8. ASSUME NEW l \in Targets, NEW t \in Tracks
      PROVE  TrackExact(l, t, lic[l], card)
  <2>1. Credits(l, t, card) = {}
    BY <1>4 DEF Credits
  <2>2. /\ lic[l].activated = Nil /\ lic[l].days[t] = BaseDays[l][t]
        /\ lic[l].base[t] = Nil /\ lic[l].until[t] = Nil
    BY <1>3
  <2>3. Whole(BaseDays[l][t], {}) = BaseDays[l][t]
    BY SumEmpty, RenewalsAssumption DEF Whole
  <2>4. QED
    BY <2>1, <2>2, <2>3 DEF TrackExact
<1>9. QED
  BY <1>6, <1>7, <1>8 DEF RenInv

\* Rows of which only the status or the block changes.
LEMMA RowKeeps ==
    ASSUME RenInv, NEW l \in Targets, NEW new \in LicenseRow,
           new.perpetual = lic[l].perpetual, new.activated = lic[l].activated,
           new.days = lic[l].days, new.base = lic[l].base, new.until = lic[l].until,
           lic' = [lic EXCEPT ![l] = new],
           UNCHANGED <<now, appActive, card, source, refunded>>
    PROVE  RenInv' /\ Paid
<1>1. /\ lic' \in [Targets -> LicenseRow]
      /\ \A m \in Targets : lic'[m] = IF m = l THEN new ELSE lic[m]
  BY DEF RenInv, TypeOK
<1>2. TypeOK'
  BY <1>1 DEF RenInv, TypeOK
<1>3. \A m \in Targets : lic'[m].activated <= now
  BY <1>1 DEF RenInv
<1>4. ASSUME NEW m \in Targets, NEW t \in Tracks
      PROVE  TrackExact(m, t, lic'[m], card)
  BY <1>1, RowOf, TrackSame
<1>5. \A m \in Targets, t \in Tracks : TrackExact(m, t, lic[m], card)'
  BY <1>4
<1>6. Paid
  <2>1. \A m \in Targets : lic'[m].until = lic[m].until
    BY <1>1
  <2>2. \A m \in Targets, t \in Tracks : lic[m].until[t] \in Int
    BY DEF RenInv, TypeOK, LicenseRow, Time, Nil
  <2>3. QED
    BY <2>1, <2>2 DEF Paid
<1>7. QED
  BY <1>2, <1>3, <1>5, <1>6 DEF RenInv

LEMMA StatusKeeps ==
    ASSUME RenInv, NEW l \in Targets,
           \/ \E s \in Statuses : SetLicenseStatus(l, s)
           \/ \E deny \in BOOLEAN : ReviewLicenseSecurity(l, deny)
    PROVE  RenInv' /\ Paid
<1>1. lic[l] \in LicenseRow
  BY RowOf
<1>2. ASSUME NEW s \in Statuses, SetLicenseStatus(l, s)
      PROVE  RenInv' /\ Paid
  <2> DEFINE new == [lic[l] EXCEPT !.status = s]
  <2>1. /\ new \in LicenseRow
        /\ new.perpetual = lic[l].perpetual /\ new.activated = lic[l].activated
        /\ new.days = lic[l].days /\ new.base = lic[l].base
        /\ new.until = lic[l].until
    BY <1>1 DEF LicenseRow
  <2>2. /\ lic' = [lic EXCEPT ![l] = new]
        /\ UNCHANGED <<now, appActive, card, source, refunded>>
    BY <1>2 DEF SetLicenseStatus
  <2> HIDE DEF new
  <2>3. QED
    BY <2>1, <2>2, RowKeeps
<1>3. ASSUME NEW deny \in BOOLEAN, ReviewLicenseSecurity(l, deny)
      PROVE  RenInv' /\ Paid
  <2> DEFINE new == [lic[l] EXCEPT !.blocked = deny]
  <2>1. /\ new \in LicenseRow
        /\ new.perpetual = lic[l].perpetual /\ new.activated = lic[l].activated
        /\ new.days = lic[l].days /\ new.base = lic[l].base
        /\ new.until = lic[l].until
    BY <1>1 DEF LicenseRow
  <2>2. /\ lic' = [lic EXCEPT ![l] = new]
        /\ UNCHANGED <<now, appActive, card, source, refunded>>
    BY <1>3 DEF ReviewLicenseSecurity
  <2> HIDE DEF new
  <2>3. QED
    BY <2>1, <2>2, RowKeeps
<1>4. QED
  BY <1>2, <1>3
\* Steps that leave the licences and the credits of the cards.
LEMMA CardsKeep ==
    ASSUME RenInv, UNCHANGED lic, now' \in Nat, now' >= now, appActive' \in BOOLEAN,
           card' \in [Cards -> CardRow], source' \in [Cards -> SourceStatuses],
           UNCHANGED refunded,
           \A c \in Cards : /\ card'[c].target = card[c].target
                            /\ card'[c].usedAt = card[c].usedAt
                            /\ card'[c].refunded = card[c].refunded
                            /\ source[c] = "revoked" => source'[c] = "revoked"
    PROVE  RenInv' /\ Paid
<1>1. TypeOK'
  BY DEF RenInv, TypeOK
<1>2. /\ now \in Nat
      /\ \A c \in Cards : card[c].usedAt <= now /\ card[c].usedAt \in Int
      /\ \A l \in Targets : lic[l].activated <= now /\ lic[l].activated \in Int
  <2>1. now \in Nat /\ \A c \in Cards : card[c].usedAt <= now /\ card[c].usedAt \in Int
    BY DEF RenInv, TypeOK, CardRow, Time, Nil
  <2>2. \A l \in Targets : lic[l].activated <= now /\ lic[l] \in LicenseRow
    BY DEF RenInv, TypeOK
  <2>3. \A row \in LicenseRow : row.activated \in Int
    BY DEF LicenseRow, Time, Nil
  <2>4. QED
    BY <2>1, <2>2, <2>3
<1>3. /\ \A c \in Cards : card'[c].usedAt <= now'
      /\ \A l \in Targets : lic'[l].activated <= now'
  BY <1>2
<1>4. ASSUME NEW m \in Targets, NEW t \in Tracks
      PROVE  TrackExact(m, t, lic[m], card')
  <2>1. Credits(m, t, card') = Credits(m, t, card)
    BY DEF Credits
  <2>2. TrackExact(m, t, lic[m], card)
    BY RowOf
  <2>3. QED
    BY <2>1, <2>2, TrackSame
<1>5. \A m \in Targets, t \in Tracks : TrackExact(m, t, lic'[m], card')
  BY <1>4
<1>6. Paid
  <2>1. \A m \in Targets, t \in Tracks : lic[m].until[t] \in Int
    BY DEF RenInv, TypeOK, LicenseRow, Time, Nil
  <2>2. QED
    BY <2>1 DEF Paid
<1>7. QED
  BY <1>1, <1>3, <1>5, <1>6 DEF RenInv

LEMMA CardStepKeeps ==
    ASSUME RenInv,
           \/ Tick \/ \E active \in BOOLEAN : SaveApplication(active)
           \/ \E c \in Cards : CardStep(c)
    PROVE  RenInv' /\ Paid
<1>1. /\ now \in Nat /\ appActive \in BOOLEAN /\ card \in [Cards -> CardRow]
      /\ source \in [Cards -> SourceStatuses]
  BY DEF RenInv, TypeOK
<1>2. CASE Tick
  BY <1>1, <1>2, CardsKeep DEF Tick
<1>3. ASSUME NEW active \in BOOLEAN, SaveApplication(active) PROVE RenInv' /\ Paid
  BY <1>1, <1>3, CardsKeep DEF SaveApplication
<1>4. ASSUME NEW c \in Cards, RevokeCard(c) PROVE RenInv' /\ Paid
  <2> DEFINE new == [card[c] EXCEPT !.status = "revoked"]
  <2>1. /\ new \in CardRow /\ new.target = card[c].target
        /\ new.usedAt = card[c].usedAt /\ new.refunded = card[c].refunded
    BY <1>1 DEF CardRow
  <2>2. card' = [card EXCEPT ![c] = new] /\ UNCHANGED <<now, appActive, lic, source, refunded>>
    BY <1>4 DEF RevokeCard
  <2> HIDE DEF new
  <2>3. /\ card' \in [Cards -> CardRow]
        /\ \A d \in Cards : /\ card'[d].target = card[d].target
                            /\ card'[d].usedAt = card[d].usedAt
                            /\ card'[d].refunded = card[d].refunded
    BY <1>1, <2>1, <2>2
  <2>4. QED
    BY <1>1, <2>2, <2>3, CardsKeep
<1>5. ASSUME NEW c \in Cards, NEW s \in SourceStatuses, SetSourceStatus(c, s)
      PROVE  RenInv' /\ Paid
  <2>1. /\ source' \in [Cards -> SourceStatuses]
        /\ \A d \in Cards : source[d] = "revoked" => source'[d] = "revoked"
        /\ UNCHANGED <<now, appActive, lic, card, refunded>>
    BY <1>1, <1>5 DEF SetSourceStatus
  <2>2. QED
    BY <1>1, <2>1, CardsKeep
<1>6. QED
  BY <1>2, <1>3, <1>4, <1>5 DEF CardStep

\* startLicense: the entitlement begins with what has been bought before.
LEMMA ActivateKeeps ==
    ASSUME RenInv, NEW l \in Targets, Activate(l)
    PROVE  RenInv' /\ Paid
<1>1. /\ lic[l].activated = Nil /\ lic' = [lic EXCEPT ![l] = StartLicense(l)]
      /\ UNCHANGED <<now, appActive, card, source, refunded>>
  BY DEF Activate
<1>2. /\ lic[l] \in LicenseRow /\ now \in Nat /\ BaseDays[l] \in [Tracks -> Nat]
      /\ lic[l].days \in [Tracks -> Nat]
  BY RowOf, RenewalsAssumption DEF LicenseRow
<1>3. PICK new \in LicenseRow :
        /\ lic' = [lic EXCEPT ![l] = new]
        /\ new.perpetual = lic[l].perpetual /\ new.activated = now
        /\ \A t \in Tracks :
             IF HasTerm(lic[l], t)
             THEN new.base[t] = now + BaseDays[l][t] /\ new.until[t] = now + lic[l].days[t]
             ELSE new.base[t] = Nil /\ new.until[t] = Nil
  <2> DEFINE base == [t \in Tracks |-> IF Termed(l, t) THEN now + BaseDays[l][t] ELSE Nil]
             until == [t \in Tracks |-> IF Termed(l, t) THEN now + lic[l].days[t] ELSE Nil]
  <2>1. base \in [Tracks -> Time] /\ until \in [Tracks -> Time] /\ now \in Time
    BY <1>2 DEF Time
  <2>2. \A t \in Tracks :
          IF HasTerm(lic[l], t)
          THEN base[t] = now + BaseDays[l][t] /\ until[t] = now + lic[l].days[t]
          ELSE base[t] = Nil /\ until[t] = Nil
    BY DEF HasTerm, Termed
  <2>3. StartLicense(l) = [lic[l] EXCEPT !.activated = now, !.base = base, !.until = until]
    BY DEF StartLicense
  <2> HIDE DEF base, until
  <2>4. PICK b \in [Tracks -> Time], u \in [Tracks -> Time] : b = base /\ u = until
    BY <2>1
  <2>5. PICK new : new = [lic[l] EXCEPT !.activated = now, !.base = b, !.until = u]
    OBVIOUS
  <2>6. /\ new \in LicenseRow /\ new.perpetual = lic[l].perpetual
        /\ new.activated = now /\ new.base = b /\ new.until = u
    BY <1>2, <2>1, <2>5 DEF LicenseRow
  <2>7. lic' = [lic EXCEPT ![l] = new]
    BY <1>1, <2>3, <2>4, <2>5
  <2>8. QED
    BY <2>2, <2>4, <2>6, <2>7
<1>4. /\ lic' \in [Targets -> LicenseRow]
      /\ \A m \in Targets : lic'[m] = IF m = l THEN new ELSE lic[m]
  BY <1>3 DEF RenInv, TypeOK
<1>5. TypeOK'
  BY <1>1, <1>4 DEF RenInv, TypeOK
<1>6. \A m \in Targets : lic'[m].activated <= now
  BY <1>2, <1>3, <1>4 DEF RenInv
<1>7. ASSUME NEW t \in Tracks
      PROVE  TrackExact(l, t, new, card)
  <2> DEFINE S == Credits(l, t, card)
  <2>1. /\ TrackExact(l, t, lic[l], card) /\ S \subseteq Cards
        /\ \A c \in Cards : card[c].usedAt \in Int /\ card[c].usedAt <= now
    BY RowOf
  <2>2. (HasTerm(new, t) <=> HasTerm(lic[l], t)) /\ now # Nil
    BY <1>2, <1>3 DEF HasTerm, Nil
  <2>3. CASE ~HasTerm(lic[l], t)
    <3>1. S = {}
      BY <2>1, <2>3 DEF TrackExact
    <3>2. QED
      BY <1>3, <2>2, <2>3, <3>1 DEF TrackExact
  <2>4. CASE HasTerm(lic[l], t)
    <3>1. /\ new.base[t] = now + BaseDays[l][t] /\ new.until[t] = now + lic[l].days[t]
          /\ lic[l].days[t] = Whole(BaseDays[l][t], S)
      BY <1>1, <1>3, <2>1, <2>4 DEF TrackExact
    <3>2. BaseDays[l][t] \in Nat /\ SumFunctionOnSet(DaysOf, S) \in Nat
      BY <1>2, <2>1, DaysType
    <3>3. new.until[t] = Whole(new.base[t], S)
      BY <1>2, <3>1, <3>2 DEF Whole
    <3>4. \A c \in Cards : Starts(new, card)[c] = now
      BY <1>2, <1>3, <2>1 DEF Starts, Later
    <3>5. ASSUME NEW c \in S
          PROVE  From(Starts(new, card), S, c) = now + SumFunctionOnSet(DaysOf, S)
      <4>1. {d \in S : Starts(new, card)[d] >= Starts(new, card)[c]} = S
        BY <1>2, <2>1, <3>4
      <4>2. Starts(new, card)[c] = now
        BY <2>1, <3>4
      <4>3. QED
        BY <4>1, <4>2 DEF From
    <3>6. new.until[t] = now + BaseDays[l][t] + SumFunctionOnSet(DaysOf, S)
      BY <3>1, <3>3 DEF Whole
    <3>7. PaidBy(new.base[t], Starts(new, card), S, new.until[t])
      BY <1>2, <3>2, <3>3, <3>5, <3>6 DEF PaidBy
    <3>8. QED
      BY <1>3, <2>2, <2>4, <3>1, <3>7 DEF TrackExact
  <2>5. QED
    BY <2>3, <2>4
<1>8. \A m \in Targets, t \in Tracks : TrackExact(m, t, lic'[m], card')
  BY <1>1, <1>4, <1>7, RowOf
<1>9. Paid
  <2>1. \A m \in Targets, t \in Tracks : lic[m].until[t] \in Int
    BY DEF RenInv, TypeOK, LicenseRow, Time, Nil
  <2>2. QED
    BY <1>1, <1>3, <1>4, <2>1 DEF Paid
<1>10. QED
  BY <1>1, <1>5, <1>6, <1>8, <1>9 DEF RenInv
\* redeemRenewal adds the card's days to one track.
LEMMA RedeemRow ==
    ASSUME RenInv, NEW l \in Targets, NEW c \in Cards, Redeem(l, c)
    PROVE  \E new \in LicenseRow :
             /\ lic' = [lic EXCEPT ![l] = new]
             /\ new.perpetual = lic[l].perpetual /\ new.activated = lic[l].activated
             /\ new.base = lic[l].base
             /\ \A t \in Tracks \ {TrackOf[c]} :
                  new.days[t] = lic[l].days[t] /\ new.until[t] = lic[l].until[t]
             /\ IF lic[l].activated = Nil
                THEN /\ new.days[TrackOf[c]] = lic[l].days[TrackOf[c]] + DaysOf[c]
                     /\ new.until = lic[l].until
                ELSE new.until[TrackOf[c]] =
                       Later(lic[l].until[TrackOf[c]], now) + DaysOf[c]
<1> DEFINE t == TrackOf[c]
           D == DaysOf[c]
<1>1. PICK old \in LicenseRow : old = lic[l]
  BY RowOf
<1>2. /\ t \in Tracks /\ D \in Nat /\ now \in Nat
      /\ old.days \in [Tracks -> Nat] /\ old.until \in [Tracks -> Time]
      /\ old.status \in Statuses
  BY RowOf, RenewalsAssumption DEF LicenseRow
<1>3. PICK s \in Statuses :
        lic' = [lic EXCEPT ![l] = [Extended(l, t, D) EXCEPT !.status = s]]
  <2>1. PICK r : r = Extended(l, t, D)
    OBVIOUS
  <2>2. lic' = [lic EXCEPT ![l] =
                 [r EXCEPT !.status = IF @ = "expired" /\ t = "usage" THEN "active" ELSE @]]
    BY <2>1 DEF Redeem
  <2>3. PICK s : s = IF r.status = "expired" /\ t = "usage" THEN "active" ELSE r.status
    OBVIOUS
  <2>4. r.status = old.status
    BY <1>1, <2>1 DEF Extended, LicenseRow
  <2>5. s \in Statuses
    BY <1>2, <2>3, <2>4 DEF Statuses
  <2>6. lic' = [lic EXCEPT ![l] = [r EXCEPT !.status = s]]
    BY <2>2, <2>3, <1>1, <2>1 DEF Extended, LicenseRow
  <2>7. QED
    BY <2>1, <2>5, <2>6
<1>4. CASE lic[l].activated = Nil
  <2>1. PICK days \in [Tracks -> Nat] :
          days = [old.days EXCEPT ![t] = @ + D]
    <3>1. old.days[t] + D \in Nat
      BY <1>2
    <3>2. [old.days EXCEPT ![t] = @ + D] \in [Tracks -> Nat]
      BY <1>2, <3>1
    <3>3. QED
      BY <3>2
  <2>2. Extended(l, t, D) = [old EXCEPT !.days = days]
    <3>1. Extended(l, t, D) = [old EXCEPT !.days[t] = @ + D]
      BY <1>1, <1>4 DEF Extended
    <3>2. [old EXCEPT !.days[t] = @ + D] = [old EXCEPT !.days = [old.days EXCEPT ![t] = @ + D]]
      BY <1>2
    <3>3. QED
      BY <2>1, <3>1, <3>2
  <2>3. PICK new : new = [[old EXCEPT !.days = days] EXCEPT !.status = s]
    OBVIOUS
  <2>4. /\ new \in LicenseRow /\ new.perpetual = old.perpetual
        /\ new.activated = old.activated /\ new.base = old.base
        /\ new.until = old.until /\ new.days = days
    BY <2>3 DEF LicenseRow
  <2>5. lic' = [lic EXCEPT ![l] = new]
    BY <1>3, <2>2, <2>3
  <2>6. /\ days[t] = old.days[t] + D
        /\ \A u \in Tracks \ {t} : days[u] = old.days[u]
    BY <1>2, <2>1
  <2>7. QED
    BY <1>1, <1>4, <2>4, <2>5, <2>6
<1>5. CASE lic[l].activated # Nil
  <2>1. Later(old.until[t], now) + D \in Time
    BY <1>2 DEF Later, Time, Nil
  <2>2. PICK until \in [Tracks -> Time] :
          until = [old.until EXCEPT ![t] = Later(@, now) + D]
    BY <1>2, <2>1
  <2>3. Extended(l, t, D) = [old EXCEPT !.until = until]
    BY <1>1, <1>5, <2>2 DEF Extended
  <2>4. PICK new : new = [[old EXCEPT !.until = until] EXCEPT !.status = s]
    OBVIOUS
  <2>5. /\ new \in LicenseRow /\ new.perpetual = old.perpetual
        /\ new.activated = old.activated /\ new.base = old.base
        /\ new.until = until /\ new.days = old.days
    BY <2>4 DEF LicenseRow
  <2>6. lic' = [lic EXCEPT ![l] = new]
    BY <1>3, <2>3, <2>4
  <2>7. /\ until[t] = Later(old.until[t], now) + D
        /\ \A u \in Tracks \ {t} : until[u] = old.until[u]
    BY <1>2, <2>2
  <2>8. QED
    BY <1>1, <1>5, <2>5, <2>6, <2>7
<1>6. QED
  BY <1>4, <1>5

LEMMA RedeemKeeps ==
    ASSUME RenInv, NEW l \in Targets, NEW c \in Cards, Redeem(l, c)
    PROVE  RenInv' /\ Paid
<1> DEFINE t == TrackOf[c]
           D == DaysOf[c]
           S == Credits(l, t, card)
           used == [status |-> "used", target |-> l, usedAt |-> now, refunded |-> FALSE]
<1>1. /\ source[c] = "active" /\ Termed(l, t)
      /\ card' = [card EXCEPT ![c] = used]
      /\ source' = [source EXCEPT ![c] = "revoked"]
      /\ UNCHANGED <<now, appActive, refunded>>
  BY DEF Redeem, CardUsable
<1>2. PICK new \in LicenseRow :
        /\ lic' = [lic EXCEPT ![l] = new]
        /\ new.perpetual = lic[l].perpetual /\ new.activated = lic[l].activated
        /\ new.base = lic[l].base
        /\ \A u \in Tracks \ {t} :
             new.days[u] = lic[l].days[u] /\ new.until[u] = lic[l].until[u]
        /\ IF lic[l].activated = Nil
           THEN new.days[t] = lic[l].days[t] + D /\ new.until = lic[l].until
           ELSE new.until[t] = Later(lic[l].until[t], now) + D
  BY RedeemRow
<1>3. /\ t \in Tracks /\ D \in Nat /\ now \in Nat /\ S \subseteq Cards
      /\ lic[l] \in LicenseRow /\ TrackExact(l, t, lic[l], card)
      /\ lic[l].activated <= now /\ lic[l].activated \in Int
      /\ \A d \in Cards : card[d].usedAt \in Int /\ card[d].usedAt <= now
  <2>1. t \in Tracks /\ D \in Nat
    BY RenewalsAssumption
  <2>2. \A row \in LicenseRow : row.activated \in Int
    BY DEF LicenseRow, Time, Nil
  <2>3. QED
    BY <2>1, <2>2, RowOf
<1>4. card[c].target = None /\ card[c].usedAt = Nil /\ None \notin Targets
  BY <1>1, RenewalsAssumption DEF RenInv, TypeOK, None
<1>5. used \in CardRow /\ used.target = l /\ used.usedAt = now /\ ~used.refunded
  BY <1>3 DEF CardRow, Time
<1>6. /\ card' \in [Cards -> CardRow] /\ source' \in [Cards -> SourceStatuses]
      /\ card'[c].target = l /\ card'[c].usedAt = now /\ ~card'[c].refunded
      /\ source'[c] = "revoked"
      /\ \A d \in Cards \ {c} : card'[d] = card[d] /\ source'[d] = source[d]
  BY <1>1, <1>5 DEF RenInv, TypeOK, SourceStatuses
<1>7. /\ lic' \in [Targets -> LicenseRow]
      /\ \A m \in Targets : lic'[m] = IF m = l THEN new ELSE lic[m]
  BY <1>2 DEF RenInv, TypeOK
<1> HIDE DEF used
<1>8. TypeOK'
  <2>1. now # Nil /\ l # None
    BY <1>3, <1>4 DEF Nil
  <2>2. \A d \in Cards : /\ (card'[d].target = None) <=> (card'[d].usedAt = Nil)
                         /\ card'[d].target # None => source'[d] = "revoked"
    BY <1>6, <2>1 DEF RenInv, TypeOK
  <2>3. QED
    BY <1>1, <1>6, <1>7, <2>2 DEF RenInv, TypeOK
<1>9. /\ \A d \in Cards : card'[d].usedAt <= now
      /\ \A m \in Targets : lic'[m].activated <= now
  <2>1. \A d \in Cards : card'[d].usedAt <= now
    BY <1>3, <1>6
  <2>2. \A m \in Targets : lic'[m].activated <= now
    BY <1>2, <1>3, <1>7 DEF RenInv
  <2>3. QED
    BY <2>1, <2>2
<1>10. /\ Credits(l, t, card') = S \cup {c} /\ c \notin S
       /\ \A m \in Targets, u \in Tracks :
            m # l \/ u # t => Credits(m, u, card') = Credits(m, u, card)
  <2>1. c \notin S
    BY <1>4 DEF Credits
  <2>2. Credits(l, t, card') = S \cup {c}
    BY <1>3, <1>4, <1>6 DEF Credits, Nil
  <2>3. ASSUME NEW m \in Targets, NEW u \in Tracks, m # l \/ u # t
        PROVE  Credits(m, u, card') = Credits(m, u, card)
    BY <1>4, <1>6, <2>3 DEF Credits
  <2>4. QED
    BY <2>1, <2>2, <2>3
<1>11. TrackExact(l, t, new, card')
  <2>1. HasTerm(new, t) /\ HasTerm(lic[l], t)
    BY <1>1, <1>2 DEF HasTerm, Termed
  <2>2. CASE lic[l].activated = Nil
    <3>1. /\ lic[l].base[t] = Nil /\ lic[l].until[t] = Nil
          /\ lic[l].days[t] = Whole(BaseDays[l][t], S)
      BY <1>3, <2>1, <2>2 DEF TrackExact
    <3>2. BaseDays[l][t] \in Nat /\ SumFunctionOnSet(DaysOf, S) \in Nat
      BY <1>3, DaysType, RenewalsAssumption
    <3>3. new.days[t] = Whole(BaseDays[l][t], S \cup {c})
      <4>1. SumFunctionOnSet(DaysOf, S \cup {c}) = SumFunctionOnSet(DaysOf, S) + D
        BY <1>3, <1>10, DaysMore
      <4> HIDE DEF S
      <4>2. QED
        BY <1>2, <1>3, <2>2, <3>1, <3>2, <4>1 DEF Whole
    <3>4. new.base[t] = Nil /\ new.until[t] = Nil /\ new.activated = Nil
      BY <1>2, <2>2, <3>1
    <3>5. QED
      BY <1>10, <2>1, <3>3, <3>4 DEF TrackExact
  <2>3. CASE lic[l].activated # Nil
    <3> DEFINE start == Starts(new, card')
               b == new.base[t]
    <3>1. /\ lic[l].base[t] = lic[l].activated + BaseDays[l][t]
          /\ PaidBy(lic[l].base[t], Starts(lic[l], card), S, lic[l].until[t])
      BY <1>3, <2>1, <2>3 DEF TrackExact
    <3>2. /\ start \in [Cards -> Int] /\ start[c] = now
          /\ \A d \in S : start[d] = Starts(lic[l], card)[d] /\ start[d] <= now
      <4>1. \A d \in Cards : card'[d].usedAt \in Int /\ card'[d].usedAt <= now
        BY <1>3, <1>6
      <4>2. \A d \in Cards : start[d] = Later(card'[d].usedAt, lic[l].activated)
        BY <1>2 DEF Starts
      <4>3. \A d \in Cards : start[d] \in Int /\ start[d] <= now
        BY <1>3, <4>1, <4>2 DEF Later
      <4>4. start \in [Cards -> Int]
        BY <4>3 DEF Starts
      <4>5. start[c] = now
        BY <1>3, <1>6, <4>2 DEF Later
      <4>6. \A d \in S : start[d] = Starts(lic[l], card)[d]
        BY <1>3, <1>6, <1>10, <4>2 DEF Starts
      <4>7. QED
        BY <1>3, <4>3, <4>4, <4>5, <4>6
    <3>3. b = lic[l].base[t] /\ b \in Int
      BY <1>2, <1>3, <3>1, RenewalsAssumption
    <3> HIDE DEF start, b
    <3>4. PaidBy(b, start, S, lic[l].until[t])
      BY <3>1, <3>2, <3>3, PaidSame
    <3>5. PaidBy(b, start, S \cup {c}, Later(lic[l].until[t], start[c]) + D)
      BY <1>3, <1>10, <3>2, <3>3, <3>4, PaidMore
    <3>6. PaidBy(b, start, Credits(l, t, card'), new.until[t])
      BY <1>2, <1>10, <2>3, <3>2, <3>5
    <3>7. QED
      BY <1>2, <2>1, <2>3, <3>1, <3>3, <3>6 DEF TrackExact, start, b
  <2>4. QED
    BY <2>2, <2>3
<1>12. ASSUME NEW m \in Targets, NEW u \in Tracks, m # l \/ u # t
       PROVE  TrackExact(m, u, lic'[m], card')
  <2>1. TrackExact(m, u, lic[m], card)
    BY RowOf
  <2>2. /\ lic'[m].perpetual = lic[m].perpetual /\ lic'[m].activated = lic[m].activated
        /\ lic'[m].base[u] = lic[m].base[u] /\ lic'[m].until[u] = lic[m].until[u]
        /\ lic'[m].days[u] = lic[m].days[u]
    BY <1>2, <1>7, <1>12
  <2>3. \A d \in Cards : card'[d].usedAt = card[d].usedAt \/ d \notin Credits(m, u, card)
    BY <1>4, <1>6 DEF Credits
  <2>4. QED
    BY <1>10, <1>12, <2>1, <2>2, <2>3, TrackSame
<1>13. \A m \in Targets, u \in Tracks : TrackExact(m, u, lic'[m], card')
  <2>1. lic'[l] = new
    BY <1>7
  <2>2. QED
    BY <1>11, <1>12, <2>1
<1>14. Paid
  <2> SUFFICES ASSUME NEW m \in Targets, NEW u \in Tracks,
                      lic'[m].until[u] > lic[m].until[u]
               PROVE  m = l /\ u = t
    BY <1>3, <1>4, <1>6 DEF Paid
  <2>1. \A row \in LicenseRow : row.until[u] \in Int
    BY DEF LicenseRow, Time, Nil
  <2>2. lic[m].until[u] \in Int
    BY <2>1, RowOf
  <2>3. lic'[m].until[u] # lic[m].until[u]
    BY <2>2
  <2>4. QED
    BY <1>2, <1>7, <2>3
<1>15. QED
  BY <1>1, <1>8, <1>9, <1>13, <1>14 DEF RenInv
\* recomputeRenewals: what a refund makes of a licence whose cards are taken away.
LEMMA RefundRow ==
    ASSUME RenInv, NEW o \in Orders, RefundOrder(o), NEW l \in Targets
    PROVE  /\ lic'[l] \in LicenseRow /\ lic'[l].activated = lic[l].activated
           /\ \A t \in Tracks : /\ TrackExact(l, t, lic'[l], card')
                                /\ lic'[l].until[t] <= lic[l].until[t]
<1> DEFINE sold == {c \in Cards : SoldBy[c] = o}
           affected == {card[c].target : c \in sold} \ {None}
           cs == [c \in Cards |->
                    IF c \in sold
                    THEN [card[c] EXCEPT !.status = "revoked", !.refunded = TRUE]
                    ELSE card[c]]
<1>1. /\ card' = cs
      /\ lic'[l] = LET row == IF l \in affected THEN Recompute(l, cs) ELSE lic[l]
                   IN  IF SoldBy[l] = o THEN [row EXCEPT !.status = "revoked"] ELSE row
  BY DEF RefundOrder
<1>2. \A c \in Cards : /\ cs[c].target = card[c].target /\ cs[c].usedAt = card[c].usedAt
                       /\ cs[c].refunded <=> (c \in sold \/ card[c].refunded)
  <2>1. \A c \in Cards : card[c] \in CardRow
    BY RowOf
  <2>2. ASSUME NEW c \in Cards
        PROVE  /\ cs[c].target = card[c].target /\ cs[c].usedAt = card[c].usedAt
               /\ cs[c].refunded <=> (c \in sold \/ card[c].refunded)
    BY <2>1 DEF CardRow
  <2>3. QED
    BY <2>2
<1>3. /\ lic[l] \in LicenseRow /\ now \in Nat /\ lic[l].activated \in Int
      /\ lic[l].days \in [Tracks -> Nat] /\ lic[l].base \in [Tracks -> Time]
      /\ lic[l].until \in [Tracks -> Time]
      /\ BaseDays[l] \in [Tracks -> Nat]
      /\ \A c \in Cards : cs[c].usedAt \in Int /\ card[c].usedAt \in Int
  BY <1>2, RowOf, RenewalsAssumption DEF LicenseRow, Time, Nil
<1> HIDE DEF cs
<1>4. \A t \in Tracks : /\ Credits(l, t, cs) = Credits(l, t, card) \ sold
                        /\ Credits(l, t, card) \subseteq Cards
  BY <1>2 DEF Credits
<1>5. PICK row \in LicenseRow :
        /\ row = IF l \in affected THEN Recompute(l, cs) ELSE lic[l]
        /\ row.perpetual = lic[l].perpetual /\ row.activated = lic[l].activated
        /\ row.base = lic[l].base
        /\ \A t \in Tracks : /\ TrackExact(l, t, row, cs)
                             /\ row.until[t] <= lic[l].until[t]
  <2>1. CASE l \notin affected
    <3>1. \A t \in Tracks : Credits(l, t, cs) = Credits(l, t, card)
      <4>1. \A c \in sold : card[c].target # l
        BY <2>1, RenewalsAssumption DEF None
      <4>2. \A t \in Tracks : \A c \in Credits(l, t, card) : c \notin sold
        BY <4>1 DEF Credits
      <4>3. QED
        BY <1>4, <4>2
    <3>2. ASSUME NEW t \in Tracks PROVE TrackExact(l, t, lic[l], cs)
      <4>1. TrackExact(l, t, lic[l], card)
        BY RowOf
      <4>2. QED
        BY <1>2, <3>1, <4>1, TrackSame
    <3>3. \A t \in Tracks : lic[l].until[t] \in Int
      BY <1>3 DEF Time, Nil
    <3>4. QED
      BY <1>3, <2>1, <3>2, <3>3
  <2>2. CASE l \in affected
    <3> DEFINE days == [t \in Tracks |->
                          BaseDays[l][t]
                            + SumFunctionOnSet(DaysOf, Waiting(l, Credits(l, t, cs), cs))]
               until == [t \in Tracks |->
                           IF lic[l].activated = Nil THEN lic[l].base[t]
                           ELSE Replay(l, t, Credits(l, t, cs), cs)]
    <3>1. Recompute(l, cs) = [lic[l] EXCEPT !.days = days, !.until = until]
      BY DEF Recompute
    <3>2. days \in [Tracks -> Nat]
      <4>1. ASSUME NEW t \in Tracks
            PROVE  SumFunctionOnSet(DaysOf, Waiting(l, Credits(l, t, cs), cs)) \in Nat
        <5>1. Waiting(l, Credits(l, t, cs), cs) \subseteq Cards
          BY <1>4 DEF Waiting
        <5>2. QED
          BY <5>1, DaysType
      <4>2. QED
        BY <1>3, <4>1
    <3>3. ASSUME NEW t \in Tracks
          PROVE  /\ until[t] \in Time /\ until[t] <= lic[l].until[t]
                 /\ \A new : new.perpetual = lic[l].perpetual
                             /\ new.activated = lic[l].activated
                             /\ new.base = lic[l].base /\ new.days[t] = days[t]
                             /\ new.until[t] = until[t] => TrackExact(l, t, new, cs)
      <4> DEFINE S == Credits(l, t, card)
                 T == Credits(l, t, cs)
                 b == lic[l].base[t]
      <4>1. /\ TrackExact(l, t, lic[l], card) /\ T \subseteq S /\ S \subseteq Cards
            /\ b \in Int /\ b \in Time /\ lic[l].until[t] \in Int
        BY <1>3, <1>4, RowOf DEF Time, Nil
      <4>2. CASE lic[l].activated = Nil
        <5>1. until[t] = b
          BY <4>2
        <5>2. b = Nil /\ lic[l].until[t] = Nil
          BY <4>1, <4>2 DEF TrackExact
        <5>3. days[t] = Whole(BaseDays[l][t], T)
          <6>1. Waiting(l, T, cs) = T
            BY <4>2 DEF Waiting
          <6>2. QED
            BY <6>1 DEF Whole
        <5>4. ~HasTerm(lic[l], t) => T = {}
          BY <4>1 DEF TrackExact
        <5> HIDE DEF days, until, T, S
        <5>5. ASSUME NEW new,
                     new.perpetual = lic[l].perpetual, new.activated = lic[l].activated,
                     new.base = lic[l].base, new.days[t] = days[t],
                     new.until[t] = until[t]
              PROVE  TrackExact(l, t, new, cs)
          BY <4>2, <5>1, <5>2, <5>3, <5>4, <5>5 DEF TrackExact, HasTerm, T
        <5>6. until[t] \in Time /\ until[t] <= lic[l].until[t]
          BY <4>1, <5>1, <5>2
        <5>7. QED
          BY <5>5, <5>6
      <4>3. CASE lic[l].activated # Nil /\ ~HasTerm(lic[l], t)
        <5>1. S = {} /\ T = {} /\ b = Nil /\ lic[l].until[t] = Nil
          BY <4>1, <4>3 DEF TrackExact
        <5>2. until[t] = Replay(l, t, T, cs)
          BY <4>3
        <5>3. PaidBy(b, Starts(lic[l], cs), {}, until[t])
          BY <1>3, <4>1, <5>1, <5>2, ReplayPaid
        <5>4. until[t] = b
          <6>1. Whole(b, {}) = b
            BY <4>1, SumEmpty DEF Whole
          <6> HIDE DEF until
          <6>2. QED
            BY <5>3, <6>1 DEF PaidBy
        <5> HIDE DEF days, until, T, S
        <5>5. ASSUME NEW new,
                     new.perpetual = lic[l].perpetual, new.base = lic[l].base,
                     new.until[t] = until[t]
              PROVE  TrackExact(l, t, new, cs)
          BY <4>3, <5>1, <5>4, <5>5 DEF TrackExact, HasTerm, T
        <5>6. until[t] \in Time /\ until[t] <= lic[l].until[t]
          BY <4>1, <5>1, <5>4
        <5>7. QED
          BY <5>5, <5>6
      <4>4. CASE lic[l].activated # Nil /\ HasTerm(lic[l], t)
        <5>1. /\ b = lic[l].activated + BaseDays[l][t]
              /\ PaidBy(b, Starts(lic[l], card), S, lic[l].until[t])
          BY <4>1, <4>4 DEF TrackExact
        <5>2. Starts(lic[l], cs) = Starts(lic[l], card)
          BY <1>2 DEF Starts
        <5>3. Starts(lic[l], card) \in [Cards -> Int]
          BY <1>3 DEF Starts, Later
        <5>4. until[t] = Replay(l, t, T, cs)
          BY <4>4
        <5>5. PaidBy(b, Starts(lic[l], cs), T, until[t])
          <6>1. T \subseteq Cards
            BY <4>1
          <6>2. PaidBy(b, Starts(lic[l], cs), T, Replay(l, t, T, cs))
            BY <1>3, <4>1, <6>1, ReplayPaid
          <6>3. QED
            BY <5>4, <6>2
        <5> HIDE DEF days, until, T, S
        <5>6. until[t] <= lic[l].until[t]
          BY <4>1, <5>1, <5>2, <5>3, <5>5, PaidLess
        <5>7. until[t] \in Time
          <6>1. T \subseteq Cards
            BY <4>1
          <6>2. until[t] \in Int /\ SumFunctionOnSet(DaysOf, T) \in Nat
            BY <4>1, <5>2, <5>3, <5>5, <6>1, PaidUnique, DaysType
          <6>3. until[t] >= b + SumFunctionOnSet(DaysOf, T)
            BY <5>5 DEF PaidBy, Whole
          <6>4. b \in Nat
            BY <1>3, <4>1, <4>4, <5>1 DEF Time, LicenseRow, Nil
          <6>5. QED
            BY <6>2, <6>3, <6>4 DEF Time
        <5>8. ASSUME NEW new,
                     new.perpetual = lic[l].perpetual, new.activated = lic[l].activated,
                     new.base = lic[l].base, new.until[t] = until[t]
              PROVE  TrackExact(l, t, new, cs)
          <6>1. Starts(new, cs) = Starts(lic[l], cs)
            BY <5>8 DEF Starts
          <6>2. HasTerm(new, t)
            BY <4>4, <5>8 DEF HasTerm
          <6>3. QED
            BY <4>4, <5>1, <5>5, <5>8, <6>1, <6>2 DEF TrackExact, T
        <5>9. QED
          BY <5>6, <5>7, <5>8
      <4>5. QED
        BY <4>2, <4>3, <4>4
    <3>4. until \in [Tracks -> Time]
      BY <3>3
    <3>5. PICK old \in LicenseRow : old = lic[l]
      BY <1>3
    <3> HIDE DEF days, until
    <3>6. PICK d \in [Tracks -> Nat], u \in [Tracks -> Time] : d = days /\ u = until
      BY <3>2, <3>4
    <3>7. PICK row : row = [old EXCEPT !.days = d, !.until = u]
      OBVIOUS
    <3>8. /\ row \in LicenseRow /\ row.perpetual = old.perpetual
          /\ row.activated = old.activated /\ row.base = old.base
          /\ row.days = d /\ row.until = u
      BY <3>7 DEF LicenseRow
    <3>9. row = Recompute(l, cs)
      BY <3>1, <3>5, <3>6, <3>7
    <3>10. \A t \in Tracks : /\ TrackExact(l, t, row, cs)
                             /\ row.until[t] <= lic[l].until[t]
      BY <3>3, <3>5, <3>6, <3>8
    <3>11. QED
      BY <2>2, <3>5, <3>8, <3>9, <3>10
  <2>3. QED
    BY <2>1, <2>2
<1>6. PICK new \in LicenseRow :
        /\ lic'[l] = new
        /\ new.perpetual = row.perpetual /\ new.activated = row.activated
        /\ new.base = row.base /\ new.days = row.days /\ new.until = row.until
  <2>1. lic'[l] = IF SoldBy[l] = o THEN [row EXCEPT !.status = "revoked"] ELSE row
    BY <1>1, <1>5
  <2>2. CASE SoldBy[l] = o
    <3>1. PICK new : new = [row EXCEPT !.status = "revoked"]
      OBVIOUS
    <3>2. /\ new \in LicenseRow
          /\ new.perpetual = row.perpetual /\ new.activated = row.activated
          /\ new.base = row.base /\ new.days = row.days /\ new.until = row.until
      BY <3>1 DEF LicenseRow, Statuses
    <3>3. QED
      BY <2>1, <2>2, <3>1, <3>2
  <2>3. CASE SoldBy[l] # o
    BY <2>1, <2>3
  <2>4. QED
    BY <2>2, <2>3
<1>7. \A t \in Tracks : TrackExact(l, t, new, cs)
  BY <1>5, <1>6, TrackSame
<1>8. QED
  BY <1>1, <1>5, <1>6, <1>7

LEMMA RefundOrderKeeps ==
    ASSUME RenInv, NEW o \in Orders, RefundOrder(o)
    PROVE  RenInv' /\ Paid
<1> DEFINE sold == {c \in Cards : SoldBy[c] = o}
<1>1. /\ refunded' = refunded \cup {o}
      /\ card' = [c \in Cards |->
                    IF c \in sold
                    THEN [card[c] EXCEPT !.status = "revoked", !.refunded = TRUE]
                    ELSE card[c]]
      /\ source' = [c \in Cards |-> IF c \in sold THEN "revoked" ELSE source[c]]
      /\ UNCHANGED <<now, appActive>>
  BY DEF RefundOrder
<1>2. /\ lic' \in [Targets -> LicenseRow]
      /\ \A l \in Targets : lic'[l].activated = lic[l].activated
      /\ \A l \in Targets, t \in Tracks :
           TrackExact(l, t, lic'[l], card') /\ lic'[l].until[t] <= lic[l].until[t]
  <2>1. lic' = [l \in Targets |-> lic'[l]]
    BY DEF RefundOrder
  <2>2. \A l \in Targets :
          /\ lic'[l] \in LicenseRow /\ lic'[l].activated = lic[l].activated
          /\ \A t \in Tracks : TrackExact(l, t, lic'[l], card')
                               /\ lic'[l].until[t] <= lic[l].until[t]
    BY RefundRow
  <2>3. QED
    BY <2>1, <2>2
<1>3. \A c \in Cards : /\ card'[c] \in CardRow
                       /\ card'[c].target = card[c].target
                       /\ card'[c].usedAt = card[c].usedAt
  <2>1. \A c \in Cards : card[c] \in CardRow
    BY RowOf DEF RenInv, TypeOK
  <2>2. ASSUME NEW c \in Cards
        PROVE  /\ card'[c] \in CardRow
               /\ card'[c].target = card[c].target /\ card'[c].usedAt = card[c].usedAt
    BY <1>1, <2>1 DEF CardRow
  <2>3. QED
    BY <2>2
<1>4. card' \in [Cards -> CardRow] /\ source' \in [Cards -> SourceStatuses]
  BY <1>1, <1>3 DEF RenInv, TypeOK, SourceStatuses
<1>5. TypeOK'
  <2>1. \A c \in Cards : source[c] = "revoked" => source'[c] = "revoked"
    BY <1>1
  <2>2. \A c \in Cards : /\ (card'[c].target = None) <=> (card'[c].usedAt = Nil)
                         /\ card'[c].target # None => source'[c] = "revoked"
    BY <1>3, <2>1 DEF RenInv, TypeOK
  <2>3. QED
    BY <1>1, <1>2, <1>4, <2>2 DEF RenInv, TypeOK
<1>6. /\ \A c \in Cards : card'[c].usedAt <= now'
      /\ \A l \in Targets : lic'[l].activated <= now'
  BY <1>1, <1>2, <1>3 DEF RenInv
<1>7. Paid
  <2>1. \A row \in LicenseRow, t \in Tracks : row.until[t] \in Int
    BY DEF LicenseRow, Time, Nil
  <2>2. \A l \in Targets, t \in Tracks : lic[l].until[t] \in Int /\ lic'[l].until[t] \in Int
    BY <1>2, <2>1, RowOf
  <2>3. \A l \in Targets, t \in Tracks : ~(lic'[l].until[t] > lic[l].until[t])
    BY <1>2, <2>2
  <2>4. QED
    BY <2>3 DEF Paid
<1>8. QED
  BY <1>2, <1>5, <1>6, <1>7 DEF RenInv

LEMMA RenStep == RenInv /\ [Next]_vars => RenInv' /\ [Paid]_vars
<1> SUFFICES ASSUME RenInv, [Next]_vars PROVE RenInv' /\ [Paid]_vars
  OBVIOUS
<1>1. ASSUME NEW l \in Targets, LicenseStep(l) PROVE RenInv' /\ Paid
  BY <1>1, ActivateKeeps, RedeemKeeps, StatusKeeps DEF LicenseStep
<1>2. CASE \/ Tick \/ \E active \in BOOLEAN : SaveApplication(active)
           \/ \E c \in Cards : CardStep(c)
  BY <1>2, CardStepKeeps
<1>3. CASE UNCHANGED vars
  <2>1. UNCHANGED <<now, appActive, lic, card, source, refunded>>
    BY <1>3 DEF vars
  <2>2. TypeOK'
    BY <2>1 DEF RenInv, TypeOK
  <2>3. QED
    BY <1>3, <2>1, <2>2 DEF RenInv
<1>4. CASE Next
  BY <1>1, <1>2, <1>4, RefundOrderKeeps DEF Next
<1>5. QED
  BY <1>3, <1>4

\* The inductive invariant of the renewal ledger (redeemRenewal, startLicense,
\* recomputeRenewals).
THEOREM RenewalsInvariant == Spec => []RenInv
<1>1. RenInv /\ [Next]_vars => RenInv'
  BY RenStep
<1>2. QED
  BY RenStart, <1>1, PTL DEF Spec

\* A licence is good for exactly its base term and the cards redeemed for it that
\* are not refunded, whatever the order of redemptions, activations and refunds
\* (redeemRenewal and recomputeRenewals agree), for any cards and any days.
THEOREM LedgerExactHolds == Spec => []LedgerExact
<1>1. ASSUME RenInv PROVE LedgerExact
  <2> SUFFICES ASSUME NEW l \in Targets, NEW t \in Tracks
               PROVE  LET S == Credits(l, t, card)
                      IN  IF ~Termed(l, t) THEN lic[l].until[t] = Nil
                          ELSE IF lic[l].activated = Nil
                          THEN lic[l].days[t] = BaseDays[l][t] + SumFunctionOnSet(DaysOf, S)
                          ELSE lic[l].until[t] = PaidUntil(l, t, S)
    BY DEF LedgerExact
  <2> DEFINE S == Credits(l, t, card)
             start == Starts(lic[l], card)
             b == lic[l].base[t]
  <2>1. /\ TrackExact(l, t, lic[l], card) /\ S \subseteq Cards /\ b \in Int
        /\ lic[l].activated \in Int /\ \A c \in Cards : card[c].usedAt \in Int
    <3>1. \A row \in LicenseRow : row.base[t] \in Int /\ row.activated \in Int
      BY DEF LicenseRow, Time, Nil
    <3>2. QED
      BY <1>1, <3>1, RowOf
  <2>2. HasTerm(lic[l], t) <=> Termed(l, t)
    BY DEF HasTerm, Termed
  <2>3. CASE ~Termed(l, t) \/ lic[l].activated = Nil
    BY <2>1, <2>2, <2>3 DEF TrackExact, Whole
  <2>4. CASE Termed(l, t) /\ lic[l].activated # Nil
    <3>1. PaidBy(b, start, S, lic[l].until[t])
      BY <2>1, <2>2, <2>4 DEF TrackExact
    <3>2. start \in [Cards -> Int]
      BY <2>1 DEF Starts, Later
    <3>3. lic[l].until[t] = Max({Whole(b, S)} \cup {From(start, S, c) : c \in S})
      <4> HIDE DEF start, S, b
      <4>1. QED
        BY <2>1, <3>1, <3>2, PaidIsMax
    <3>4. PaidUntil(l, t, S) = Max({Whole(b, S)} \cup {From(start, S, c) : c \in S})
      <4>1. \A c \in S : start[c] = Later(card[c].usedAt, lic[l].activated)
        BY <2>1 DEF Starts
      <4>2. \A c \in S :
              From(start, S, c) =
                Later(card[c].usedAt, lic[l].activated)
                + SumFunctionOnSet(DaysOf,
                    {d \in S : Later(card[d].usedAt, lic[l].activated)
                                 >= Later(card[c].usedAt, lic[l].activated)})
        <5> SUFFICES ASSUME NEW c \in S
                     PROVE  From(start, S, c) =
                              Later(card[c].usedAt, lic[l].activated)
                              + SumFunctionOnSet(DaysOf,
                                  {d \in S : Later(card[d].usedAt, lic[l].activated)
                                               >= Later(card[c].usedAt, lic[l].activated)})
          OBVIOUS
        <5> HIDE DEF start, S
        <5>1. {d \in S : start[d] >= start[c]}
                = {d \in S : Later(card[d].usedAt, lic[l].activated)
                               >= Later(card[c].usedAt, lic[l].activated)}
          BY <4>1
        <5>2. QED
          BY <4>1, <5>1 DEF From
      <4> HIDE DEF start, S
      <4>3. QED
        BY <4>2 DEF PaidUntil, Whole
    <3>5. QED
      BY <2>4, <3>3, <3>4
  <2>5. QED
    BY <2>3, <2>4
<1>2. QED
  BY <1>1, RenewalsInvariant, PTL

\* No entitlement grows without its first activation or a card spent on it in the
\* same step; no refund gives a day to anybody (recomputeRenewals).
THEOREM EntitlementPaidHolds == Spec => EntitlementPaid
<1>1. RenInv /\ [Next]_vars => [Paid]_vars
  BY RenStep
<1>2. QED
  BY <1>1, RenewalsInvariant, PTL DEF Spec, EntitlementPaid

-----------------------------------------------------------------------------
(* Quotas *)

BatchRow == [request : RequestIds, size : Sizes, cost : Costs]

QuotaTypes ==
    /\ batches \in Seq(BatchRow) /\ quota \in Seq(Lines)
    /\ stock \in Seq(CardCounts) /\ Len(stock) = Len(batches)
    /\ voiding \in Seq(Nat \cup {Resting}) /\ Len(voiding) = Len(batches)
    /\ money \in Int

\* What a voiding has counted is never less than what the batch still has: cards
\* leave a batch, none come to it.
CountsCover ==
    \A b \in DOMAIN batches : voiding[b] # Resting => voiding[b] >= stock[b].unused

\* Inductive.
QuotaInv == QuotaTypes /\ LedgerAddsUp /\ IssuedOnce /\ NoQuotaLost /\ CountsCover

\* The sum of a ledger's lines is a number.
LEMMA LedgerSum ==
    ASSUME NEW lines \in Seq(Lines)
    PROVE  /\ Changes(lines) \in [DOMAIN lines -> Int] /\ IsFiniteSet(DOMAIN lines)
           /\ SumOf(lines) \in Int
<1>1. Changes(lines) \in [DOMAIN lines -> Int]
  <2>1. \A i \in DOMAIN lines : lines[i] \in Lines
    OBVIOUS
  <2>2. \A i \in DOMAIN lines : lines[i].change \in Int
    BY <2>1 DEF Lines
  <2>3. QED
    BY <2>2 DEF Changes
<1>2. IsFiniteSet(DOMAIN lines)
  <2>1. DOMAIN lines = 1 .. Len(lines) /\ Len(lines) \in Nat
    OBVIOUS
  <2>2. QED
    BY <2>1, FS_Interval
<1>3. SumFunctionOnSet(Changes(lines), DOMAIN lines) \in Int
  BY <1>1, <1>2, SumType
<1>4. DOMAIN Changes(lines) = DOMAIN lines
  BY DEF Changes
<1>5. QED
  BY <1>1, <1>2, <1>3, <1>4 DEF SumOf, SumFunction

\* The agent is never short of quota.
LEMMA BalanceCovered ==
    ASSUME quota \in Seq(Lines), LedgerAddsUp
    PROVE  AgentQuotaBalance \in Int /\ AgentQuotaBalance >= 0
<1>1. CASE quota = <<>>
  <2>1. DOMAIN Changes(quota) = {}
    BY <1>1 DEF Changes
  <2>2. AgentQuotaBalance = 0
    BY <2>1, SumEmpty DEF AgentQuotaBalance, SumOf, SumFunction
  <2>3. QED
    BY <2>2
<1>2. CASE quota # <<>>
  <2>1. Len(quota) \in DOMAIN quota
    BY <1>2
  <2>2. SubSeq(quota, 1, Len(quota)) = quota
    BY <2>1
  <2>3. QED
    BY <2>1, <2>2, LedgerSum DEF LedgerAddsUp, AgentQuotaBalance, Lines
<1>3. QED
  BY <1>1, <1>2

\* A line that keeps the balance covered, written at the ledger's end.
LEMMA LineKeeps ==
    ASSUME quota \in Seq(Lines), LedgerAddsUp, NEW kind \in {"grant", "issue", "revoke"},
           NEW change \in Int, WriteLine(kind, change), AgentQuotaBalance + change >= 0
    PROVE  /\ quota' \in Seq(Lines) /\ LedgerAddsUp'
           /\ SumOfKind("revoke") \in Int
           /\ SumOfKind("revoke")' = SumOfKind("revoke") + IF kind = "revoke" THEN change ELSE 0
<1> DEFINE balance == AgentQuotaBalance
           n == Len(quota) + 1
<1>1. PICK line : /\ line = [kind |-> kind, change |-> change, after |-> balance + change]
                  /\ quota' = Append(quota, line)
  BY DEF WriteLine
<1>2. balance \in Int
  BY LedgerSum DEF AgentQuotaBalance
<1>3. line \in Lines /\ line.kind = kind /\ line.change = change /\ line.after = balance + change
  BY <1>1, <1>2 DEF Lines
<1>4. /\ quota' \in Seq(Lines) /\ Len(quota') = n /\ n \in Nat
      /\ DOMAIN quota' = DOMAIN quota \cup {n} /\ n \notin DOMAIN quota
      /\ quota'[n] = line /\ \A i \in DOMAIN quota : quota'[i] = quota[i]
  BY <1>1, <1>3
<1> DEFINE f == Changes(quota)
           g == Changes(quota')
<1>5. /\ f \in [DOMAIN quota -> Int] /\ IsFiniteSet(DOMAIN quota)
      /\ DOMAIN f = DOMAIN quota /\ DOMAIN g = DOMAIN f \cup {n} /\ n \notin DOMAIN f
      /\ g[n] = change /\ \A i \in DOMAIN f : f[i] \in Int /\ g[i] = f[i]
  <2>1. f \in [DOMAIN quota -> Int] /\ IsFiniteSet(DOMAIN quota)
    BY LedgerSum
  <2>2. DOMAIN f = DOMAIN quota /\ DOMAIN g = DOMAIN quota'
    BY DEF Changes
  <2>3. g[n] = change /\ \A i \in DOMAIN quota : g[i] = f[i]
    BY <1>3, <1>4 DEF Changes
  <2>4. QED
    BY <1>4, <2>1, <2>2, <2>3
<1>6. SumOf(quota') = balance + change
  <2>1. SumFunction(g) = SumFunction(f) + g[n]
    <3> HIDE DEF f, g, n
    <3>1. QED
      BY <1>5, SumGrows
  <2>2. QED
    BY <1>5, <2>1 DEF AgentQuotaBalance, SumOf
<1>7. LedgerAddsUp'
  <2> SUFFICES ASSUME NEW i \in DOMAIN quota'
               PROVE  quota'[i].after = SumOf(SubSeq(quota', 1, i)) /\ quota'[i].after >= 0
    BY DEF LedgerAddsUp
  <2>1. CASE i = n
    <3>1. SubSeq(quota', 1, i) = quota'
      BY <1>4, <2>1
    <3>2. QED
      BY <1>3, <1>4, <1>6, <2>1, <3>1
  <2>2. CASE i \in DOMAIN quota
    <3>1. SubSeq(quota', 1, i) = SubSeq(quota, 1, i)
      BY <1>1, <1>3, <2>2
    <3>2. QED
      BY <1>4, <2>2, <3>1 DEF LedgerAddsUp
  <2>3. QED
    BY <1>4, <2>1, <2>2
<1>8. /\ SumOfKind("revoke") \in Int
      /\ SumOfKind("revoke")' = SumOfKind("revoke") + IF kind = "revoke" THEN change ELSE 0
  <2> DEFINE old == {i \in DOMAIN quota : quota[i].kind = "revoke"}
             new == {i \in DOMAIN quota' : quota'[i].kind = "revoke"}
  <2>1. /\ old \subseteq DOMAIN quota /\ IsFiniteSet(old) /\ n \notin old
        /\ \A i \in old : f[i] \in Int /\ g[i] = f[i] /\ g[i] \in Int
    <3>1. old \subseteq DOMAIN quota
      OBVIOUS
    <3>2. IsFiniteSet(old)
      BY <1>5, <3>1, FS_Subset
    <3>3. QED
      BY <1>4, <1>5, <3>1, <3>2
  <2>2. new = IF kind = "revoke" THEN old \cup {n} ELSE old
    BY <1>3, <1>4
  <2>3. SumFunctionOnSet(f, old) \in Int /\ SumFunctionOnSet(g, old) = SumFunctionOnSet(f, old)
    <3> HIDE DEF f, g, n, old
    <3>1. SumFunctionOnSet(f, old) \in Int
      BY <2>1, SumType
    <3>2. QED
      BY <2>1, <3>1, SumSame
  <2>4. SumFunctionOnSet(g, new)
          = SumFunctionOnSet(f, old) + IF kind = "revoke" THEN change ELSE 0
    <3>1. CASE kind = "revoke"
      <4>1. SumFunctionOnSet(g, old \cup {n}) = SumFunctionOnSet(g, old) + g[n]
        <5> HIDE DEF f, g, n, old
        <5>1. QED
          BY <1>5, <2>1, SumAdd
      <4>2. new = old \cup {n}
        BY <2>2, <3>1
      <4> HIDE DEF f, g, n, old, new
      <4>3. QED
        BY <1>5, <2>3, <3>1, <4>1, <4>2
    <3>2. CASE kind # "revoke"
      <4>1. new = old
        BY <2>2, <3>2
      <4> HIDE DEF f, g, n, old, new
      <4>2. QED
        BY <2>3, <3>2, <4>1
    <3>3. QED
      BY <3>1, <3>2
  <2>5. SumOfKind("revoke") = SumFunctionOnSet(f, old)
        /\ SumOfKind("revoke")' = SumFunctionOnSet(g, new)
    BY DEF SumOfKind
  <2>6. QED
    BY <2>3, <2>4, <2>5
<1>9. QED
  BY <1>4, <1>7, <1>8

\* Nothing that counts has changed.
LEMMA QuotaSame ==
    ASSUME QuotaInv, UNCHANGED <<batches, stock, money, quota, voiding>>
    PROVE  QuotaInv'
BY DEF QuotaInv, QuotaTypes, LedgerAddsUp, IssuedOnce, NoQuotaLost, CountsCover,
       Voided, VoidedOf, CostOf, SumOfKind, Changes, SumOf

LEMMA GrantKeeps ==
    ASSUME QuotasAssumption, QuotaInv, NEW n \in Sizes, GrantAgentQuota(n)
    PROVE  QuotaInv'
<1>1. /\ WriteLine("grant", n) /\ UNCHANGED <<batches, stock, money, voiding>>
      /\ n \in Int /\ n >= 0
  BY DEF GrantAgentQuota, QuotasAssumption
<1>2. quota \in Seq(Lines) /\ LedgerAddsUp
  BY DEF QuotaInv, QuotaTypes
<1>3. AgentQuotaBalance + n >= 0
  BY <1>1, <1>2, BalanceCovered
<1>4. /\ quota' \in Seq(Lines) /\ LedgerAddsUp'
      /\ SumOfKind("revoke") \in Int /\ SumOfKind("revoke")' = SumOfKind("revoke")
  BY <1>1, <1>2, <1>3, LineKeeps
<1>5. QED
  BY <1>1, <1>4 DEF QuotaInv, QuotaTypes, IssuedOnce, NoQuotaLost, CountsCover,
                    Voided, VoidedOf, CostOf

\* The rows of what the agent has bought, and what they cost.
LEMMA RowsTyped ==
    ASSUME QuotasAssumption, QuotaTypes
    PROVE  /\ \A b \in DOMAIN batches :
                batches[b] \in BatchRow /\ stock[b] \in CardCounts
                /\ voiding[b] \in Nat \cup {Resting} /\ CostOf[b] \in Nat
           /\ DOMAIN batches = DOMAIN stock /\ DOMAIN batches = DOMAIN voiding
           /\ DOMAIN batches = 1 .. Len(batches) /\ Len(batches) \in Nat
           /\ IsFiniteSet(DOMAIN batches)
           /\ CostOf \in [DOMAIN batches -> Nat] /\ VoidedOf \in [DOMAIN batches -> Nat]
           /\ SumFunction(CostOf) \in Nat /\ Voided \in Nat
<1>1. /\ DOMAIN batches = DOMAIN stock /\ DOMAIN batches = DOMAIN voiding
      /\ DOMAIN batches = 1 .. Len(batches) /\ Len(batches) \in Nat
  BY DEF QuotaTypes
<1>2. \A b \in DOMAIN batches : /\ batches[b] \in BatchRow /\ stock[b] \in CardCounts
                                /\ voiding[b] \in Nat \cup {Resting}
  BY <1>1 DEF QuotaTypes
<1>3. \A b \in DOMAIN batches : CostOf[b] \in Nat /\ VoidedOf[b] \in Nat
  <2>1. \A b \in DOMAIN batches : batches[b].size \in Nat /\ batches[b].cost \in Nat
    BY <1>2 DEF BatchRow, QuotasAssumption
  <2>2. \A i, j \in Nat : i * j \in Nat
    OBVIOUS
  <2>3. \A b \in DOMAIN batches : CostOf[b] \in Nat
    BY <2>1, <2>2 DEF CostOf
  <2>4. \A b \in DOMAIN batches : VoidedOf[b] \in Nat
    BY <1>1, <1>2 DEF VoidedOf, CardCounts
  <2>5. QED
    BY <2>3, <2>4
<1>4. CostOf \in [DOMAIN batches -> Nat] /\ VoidedOf \in [DOMAIN batches -> Nat]
  <2>1. DOMAIN CostOf = DOMAIN batches /\ DOMAIN VoidedOf = DOMAIN batches
        /\ CostOf = [b \in DOMAIN CostOf |-> CostOf[b]]
        /\ VoidedOf = [b \in DOMAIN VoidedOf |-> VoidedOf[b]]
    BY <1>1 DEF CostOf, VoidedOf
  <2>2. QED
    BY <1>3, <2>1
<1>5. IsFiniteSet(DOMAIN batches)
  BY <1>1, FS_Interval
<1>6. SumFunction(CostOf) \in Nat /\ Voided \in Nat
  BY <1>4, <1>5, SumNat DEF SumFunction, Voided
<1>7. QED
  BY <1>1, <1>2, <1>3, <1>4, <1>5, <1>6

\* A batch changes and, of it, k cards more are voided.
LEMMA VoidedMore ==
    ASSUME QuotasAssumption, QuotaTypes, NEW b \in DOMAIN batches, NEW k \in Nat,
           NEW new, stock' = [stock EXCEPT ![b] = new],
           new.voided = stock[b].voided + k
    PROVE  Voided \in Nat /\ Voided' = Voided + k
<1> DEFINE rest == DOMAIN batches \ {b}
<1>1. /\ DOMAIN VoidedOf = DOMAIN batches /\ DOMAIN VoidedOf' = DOMAIN batches
      /\ VoidedOf \in [DOMAIN batches -> Nat] /\ IsFiniteSet(DOMAIN batches)
      /\ Voided \in Nat
  BY RowsTyped DEF VoidedOf
<1>2. /\ VoidedOf'[b] = VoidedOf[b] + k /\ \A x \in rest : VoidedOf'[x] = VoidedOf[x]
      /\ \A x \in DOMAIN batches : VoidedOf'[x] \in Int /\ VoidedOf[x] \in Int
  <2>1. DOMAIN batches = DOMAIN stock
    BY RowsTyped
  <2>2. VoidedOf'[b] = VoidedOf[b] + k /\ \A x \in rest : VoidedOf'[x] = VoidedOf[x]
    BY <2>1 DEF VoidedOf
  <2>3. QED
    BY <1>1, <2>2
<1>3. IsFiniteSet(rest)
  BY <1>1, FS_RemoveElement
<1>4. SumFunctionOnSet(VoidedOf, DOMAIN batches) = VoidedOf[b] + SumFunctionOnSet(VoidedOf, rest)
  BY <1>1, <1>2, SumRemove
<1>5. SumFunctionOnSet(VoidedOf', DOMAIN batches)
        = VoidedOf'[b] + SumFunctionOnSet(VoidedOf', rest)
  BY <1>1, <1>2, SumRemove
<1>6. SumFunctionOnSet(VoidedOf', rest) = SumFunctionOnSet(VoidedOf, rest)
  BY <1>2, <1>3, SumSame
<1>7. SumFunctionOnSet(VoidedOf, rest) \in Int
  BY <1>2, <1>3, SumType
<1>8. QED
  BY <1>1, <1>2, <1>4, <1>5, <1>6, <1>7 DEF Voided, SumFunction

\* A refund of n, alone with a change of stock that voids no more than n.
LEMMA VoidingKeeps ==
    ASSUME QuotasAssumption, QuotaInv, NEW b \in DOMAIN batches, NEW n \in Nat, NEW k \in Nat,
           NEW new \in CardCounts, stock' = [stock EXCEPT ![b] = new],
           new.voided = stock[b].voided + k, k <= n, new.unused <= stock[b].unused,
           RefundAgentQuota(n), UNCHANGED <<batches, money>>,
           \/ UNCHANGED voiding
           \/ voiding' = [voiding EXCEPT ![b] = Resting]
    PROVE  QuotaInv'
<1>1. QuotaTypes /\ quota \in Seq(Lines) /\ LedgerAddsUp /\ NoQuotaLost
  BY DEF QuotaInv, QuotaTypes
<1>2. Voided \in Nat /\ Voided' = Voided + k
  BY <1>1, VoidedMore
<1>3. /\ quota' \in Seq(Lines) /\ LedgerAddsUp'
      /\ SumOfKind("revoke") \in Int /\ SumOfKind("revoke")' = SumOfKind("revoke") + n
  <2>1. CASE n = 0
    <3>1. UNCHANGED quota
      BY <2>1 DEF RefundAgentQuota
    <3>2. LedgerAddsUp' /\ SumOfKind("revoke")' = SumOfKind("revoke")
      BY <1>1, <3>1 DEF LedgerAddsUp, SumOfKind, SumOf, Changes
    <3>3. SumOfKind("revoke") \in Int
      <4> DEFINE old == {i \in DOMAIN quota : quota[i].kind = "revoke"}
      <4>1. /\ Changes(quota) \in [DOMAIN quota -> Int] /\ IsFiniteSet(DOMAIN quota)
            /\ old \subseteq DOMAIN quota
        BY <1>1, LedgerSum
      <4>2. IsFiniteSet(old)
        BY <4>1, FS_Subset
      <4>3. \A i \in old : Changes(quota)[i] \in Int
        BY <4>1
      <4>4. SumFunctionOnSet(Changes(quota), old) \in Int
        <5> HIDE DEF old
        <5>1. QED
          BY <4>2, <4>3, SumType
      <4>5. QED
        BY <4>4 DEF SumOfKind
    <3>4. QED
      BY <1>1, <2>1, <3>1, <3>2, <3>3
  <2>2. CASE n # 0
    <3>1. WriteLine("revoke", n)
      BY <2>2 DEF RefundAgentQuota
    <3>2. n \in Int /\ AgentQuotaBalance + n >= 0
      BY <1>1, BalanceCovered
    <3>3. QED
      BY <1>1, <3>1, <3>2, LineKeeps
  <2>3. QED
    BY <2>1, <2>2
<1>4. NoQuotaLost'
  BY <1>1, <1>2, <1>3 DEF NoQuotaLost
<1>5. IssuedOnce'
  BY DEF QuotaInv, IssuedOnce, CostOf
<1>6. /\ DOMAIN batches = DOMAIN stock /\ DOMAIN batches = DOMAIN voiding
      /\ \A c \in DOMAIN batches : stock[c] \in CardCounts /\ voiding[c] \in Nat \cup {Resting}
  BY <1>1, RowsTyped
<1>7. /\ stock' \in Seq(CardCounts) /\ Len(stock') = Len(stock)
      /\ \A c \in DOMAIN batches : stock'[c] = IF c = b THEN new ELSE stock[c]
  BY <1>1, <1>6 DEF QuotaTypes
<1>8. /\ voiding' \in Seq(Nat \cup {Resting}) /\ Len(voiding') = Len(voiding)
      /\ \A c \in DOMAIN batches : voiding'[c] \in {voiding[c], Resting}
  <2>1. voiding \in Seq(Nat \cup {Resting})
    BY <1>1 DEF QuotaTypes
  <2>2. CASE UNCHANGED voiding
    BY <2>1, <2>2
  <2>3. CASE voiding' = [voiding EXCEPT ![b] = Resting]
    BY <1>6, <2>1, <2>3
  <2>4. QED
    BY <2>2, <2>3
<1>9. QuotaTypes'
  BY <1>1, <1>3, <1>7, <1>8 DEF QuotaTypes
<1>10. CountsCover'
  <2> SUFFICES ASSUME NEW c \in DOMAIN batches, voiding'[c] # Resting
               PROVE  voiding'[c] >= stock'[c].unused
    BY DEF CountsCover
  <2>1. voiding'[c] = voiding[c] /\ voiding[c] >= stock[c].unused /\ voiding[c] \in Int
    BY <1>6, <1>8 DEF QuotaInv, CountsCover, Resting
  <2>2. /\ stock[c] \in CardCounts /\ stock[b] \in CardCounts
        /\ stock'[c] = IF c = b THEN new ELSE stock[c]
    BY <1>6, <1>7
  <2>3. stock[c].unused \in Int /\ new.unused \in Int
    BY <2>2 DEF CardCounts
  <2>4. stock'[c].unused <= stock[c].unused
    BY <2>2, <2>3
  <2>5. QED
    BY <2>1, <2>2, <2>3, <2>4
<1>11. QED
  BY <1>3, <1>4, <1>5, <1>9, <1>10 DEF QuotaInv

LEMMA VoidCardKeeps ==
    ASSUME QuotasAssumption, QuotaInv, NEW b \in DOMAIN batches, VoidCard(b)
    PROVE  QuotaInv'
<1>1. /\ stock[b] \in CardCounts /\ stock[b].unused > 0 /\ DOMAIN batches = DOMAIN stock
      /\ RefundAgentQuota(1) /\ UNCHANGED <<batches, money, voiding>>
  BY RowsTyped DEF VoidCard, QuotaInv
<1> DEFINE row == stock[b]
<1>2. PICK new : /\ new = [row EXCEPT !.unused = @ - 1, !.voided = @ + 1]
                 /\ stock' = [stock EXCEPT ![b] = new]
  BY DEF VoidCard
<1>3. /\ new \in CardCounts /\ new.voided = stock[b].voided + 1
      /\ new.unused <= stock[b].unused
  <2>1. row.unused \in Nat /\ row.used \in Nat /\ row.voided \in Nat /\ row.unused > 0
    BY <1>1, <1>2 DEF CardCounts
  <2>2. new = [unused |-> row.unused - 1, used |-> row.used, voided |-> row.voided + 1]
    <3>1. row \in CardCounts
      BY <1>1
    <3> HIDE DEF row
    <3>2. QED
      BY <1>2, <3>1 DEF CardCounts
  <2> HIDE DEF row
  <2>3. new \in CardCounts /\ new.voided = row.voided + 1 /\ new.unused <= row.unused
    BY <2>1, <2>2 DEF CardCounts
  <2> USE DEF row
  <2>4. QED
    BY <2>1, <2>3
<1>4. QED
  <2>1. stock' = [stock EXCEPT ![b] = new]
    BY <1>2
  <2>2. \/ UNCHANGED voiding \/ voiding' = [voiding EXCEPT ![b] = Resting]
    BY <1>1
  <2>3. UNCHANGED <<batches, money>> /\ RefundAgentQuota(1) /\ 1 \in Nat /\ 1 <= 1
    BY <1>1
  <2> QED
    BY <1>3, <2>1, <2>2, <2>3, VoidingKeeps

LEMMA VoidBatchKeeps ==
    ASSUME QuotasAssumption, QuotaInv, NEW b \in DOMAIN batches, VoidUnusedCardsInBatch(b)
    PROVE  QuotaInv'
<1>1. /\ stock[b] \in CardCounts /\ DOMAIN batches = DOMAIN stock
      /\ voiding[b] \in Nat \cup {Resting} /\ voiding[b] # Resting
      /\ RefundAgentQuota(voiding[b]) /\ UNCHANGED <<batches, money>>
      /\ voiding' = [voiding EXCEPT ![b] = Resting]
  BY RowsTyped DEF VoidUnusedCardsInBatch, QuotaInv, RefundGroups
<1> DEFINE row == stock[b]
<1>2. PICK new : /\ new = [row EXCEPT !.unused = 0, !.voided = @ + row.unused]
                 /\ stock' = [stock EXCEPT ![b] = new]
  BY DEF VoidUnusedCardsInBatch
<1>3. /\ new \in CardCounts /\ new.voided = stock[b].voided + stock[b].unused
      /\ new.unused <= stock[b].unused /\ stock[b].unused \in Nat
  <2>1. row.unused \in Nat /\ row.used \in Nat /\ row.voided \in Nat
    BY <1>1 DEF CardCounts
  <2>2. new = [unused |-> 0, used |-> row.used, voided |-> row.voided + row.unused]
    <3>1. row \in CardCounts
      BY <1>1
    <3> HIDE DEF row
    <3>2. QED
      BY <1>2, <3>1 DEF CardCounts
  <2> HIDE DEF row
  <2>3. new \in CardCounts /\ new.voided = row.voided + row.unused /\ new.unused <= row.unused
    BY <2>1, <2>2 DEF CardCounts
  <2> USE DEF row
  <2>4. QED
    BY <2>1, <2>3
<1>4. voiding[b] \in Nat /\ stock[b].unused <= voiding[b]
  BY <1>1, <1>3 DEF QuotaInv, CountsCover
<1>5. QED
  BY <1>1, <1>2, <1>3, <1>4, VoidingKeeps

LEMMA UseCardKeeps ==
    ASSUME QuotasAssumption, QuotaInv, NEW b \in DOMAIN batches, UseCard(b)
    PROVE  QuotaInv'
<1>1. /\ stock[b] \in CardCounts /\ stock[b].unused > 0 /\ DOMAIN batches = DOMAIN stock
      /\ UNCHANGED <<batches, money, quota, voiding>>
  BY RowsTyped DEF UseCard, QuotaInv
<1> DEFINE row == stock[b]
<1>2. PICK new : /\ new = [row EXCEPT !.unused = @ - 1, !.used = @ + 1]
                 /\ stock' = [stock EXCEPT ![b] = new]
  BY DEF UseCard
<1>3. /\ new \in CardCounts /\ new.voided = stock[b].voided + 0
      /\ new.unused <= stock[b].unused
  <2>1. row.unused \in Nat /\ row.used \in Nat /\ row.voided \in Nat /\ row.unused > 0
    BY <1>1, <1>2 DEF CardCounts
  <2>2. new = [unused |-> row.unused - 1, used |-> row.used + 1, voided |-> row.voided]
    <3>1. row \in CardCounts
      BY <1>1
    <3> HIDE DEF row
    <3>2. QED
      BY <1>2, <3>1 DEF CardCounts
  <2> HIDE DEF row
  <2>3. new \in CardCounts /\ new.voided = row.voided /\ new.unused <= row.unused
    BY <2>1, <2>2 DEF CardCounts
  <2> USE DEF row
  <2>4. QED
    BY <2>1, <2>3
<1>4. RefundAgentQuota(0) /\ 0 \in Nat /\ 0 <= 0
  BY <1>1 DEF RefundAgentQuota
<1>5. QED
  <2>1. stock' = [stock EXCEPT ![b] = new]
    BY <1>2
  <2>2. \/ UNCHANGED voiding \/ voiding' = [voiding EXCEPT ![b] = Resting]
    BY <1>1
  <2>3. UNCHANGED <<batches, money>>
    BY <1>1
  <2> QED
    BY <1>3, <1>4, <2>1, <2>2, <2>3, VoidingKeeps

\* A count is taken, or given up.
LEMMA CountKeeps ==
    ASSUME QuotasAssumption, QuotaInv, NEW b \in DOMAIN batches, CountUnused(b) \/ VoidingFails(b)
    PROVE  QuotaInv'
<1>1. /\ UNCHANGED <<batches, stock, money, quota>>
      /\ \E n \in {stock[b].unused, Resting} : voiding' = [voiding EXCEPT ![b] = n]
  BY DEF CountUnused, VoidingFails
<1>2. PICK n \in {stock[b].unused, Resting} : voiding' = [voiding EXCEPT ![b] = n]
  BY <1>1
<1>3. /\ DOMAIN batches = DOMAIN voiding /\ stock[b] \in CardCounts
      /\ \A c \in DOMAIN batches : stock[c] \in CardCounts
  BY RowsTyped DEF QuotaInv
<1>4. n \in Nat \cup {Resting}
  BY <1>3 DEF CardCounts
<1>5. /\ voiding' \in Seq(Nat \cup {Resting}) /\ Len(voiding') = Len(voiding)
      /\ \A c \in DOMAIN batches : voiding'[c] = IF c = b THEN n ELSE voiding[c]
  BY <1>2, <1>3, <1>4 DEF QuotaInv, QuotaTypes
<1>6. CountsCover'
  <2> SUFFICES ASSUME NEW c \in DOMAIN batches, voiding'[c] # Resting
               PROVE  voiding'[c] >= stock[c].unused
    BY <1>1 DEF CountsCover
  <2>1. CASE c = b
    BY <1>2, <1>3, <1>5, <2>1 DEF CardCounts
  <2>2. CASE c # b
    BY <1>5, <2>2 DEF QuotaInv, CountsCover
  <2>3. QED
    BY <2>1, <2>2
<1>7. LedgerAddsUp' /\ IssuedOnce' /\ NoQuotaLost'
  BY <1>1 DEF QuotaInv, LedgerAddsUp, IssuedOnce, NoQuotaLost,
              Voided, VoidedOf, CostOf, SumOfKind, Changes, SumOf
<1>8. QuotaTypes'
  BY <1>1, <1>5 DEF QuotaInv, QuotaTypes
<1>9. QED
  BY <1>6, <1>7, <1>8 DEF QuotaInv

LEMMA PackageKeeps ==
    ASSUME QuotasAssumption, QuotaInv, NEW request \in RequestIds, NEW size \in Sizes,
           NEW cost \in Costs, GeneratePackageCards(request, size, cost)
    PROVE  QuotaInv'
<1> DEFINE n == Len(batches) + 1
<1>1. PICK row : /\ row = [request |-> request, size |-> size, cost |-> cost]
                 /\ batches' = Append(batches, row)
  BY DEF GeneratePackageCards
<1>2. PICK new : /\ new = [unused |-> size, used |-> 0, voided |-> 0]
                 /\ stock' = Append(stock, new)
  BY DEF GeneratePackageCards
<1>3. /\ row \in BatchRow /\ row.request = request /\ row.size = size /\ row.cost = cost
      /\ new \in CardCounts /\ new.voided = 0 /\ size \in Nat /\ cost \in Nat
      /\ size * cost \in Nat
  <2>1. size \in Nat /\ cost \in Nat
    BY DEF QuotasAssumption
  <2>2. \A i, j \in Nat : i * j \in Nat
    OBVIOUS
  <2>3. row \in BatchRow /\ row.request = request /\ row.size = size /\ row.cost = cost
    BY <1>1 DEF BatchRow
  <2>4. new \in CardCounts /\ new.voided = 0
    BY <1>2, <2>1 DEF CardCounts
  <2>5. QED
    BY <2>1, <2>2, <2>3, <2>4
<1>4. /\ voiding' = Append(voiding, Resting) /\ money' = money - size * cost
      /\ money >= size * cost /\ OrdersOf(request, size, cost) = {}
  BY DEF GeneratePackageCards
<1>5. QuotaTypes
  BY DEF QuotaInv
<1>6. /\ n \in Nat /\ n \notin DOMAIN batches /\ DOMAIN batches' = DOMAIN batches \cup {n}
      /\ batches' \in Seq(BatchRow) /\ stock' \in Seq(CardCounts)
      /\ voiding' \in Seq(Nat \cup {Resting})
      /\ Len(batches') = n /\ Len(stock') = n /\ Len(voiding') = n
      /\ batches'[n] = row /\ stock'[n] = new /\ voiding'[n] = Resting
      /\ DOMAIN stock' = DOMAIN stock \cup {n} /\ DOMAIN stock = DOMAIN batches
      /\ \A b \in DOMAIN batches : /\ batches'[b] = batches[b] /\ stock'[b] = stock[b]
                                   /\ voiding'[b] = voiding[b]
  <2>1. /\ batches \in Seq(BatchRow) /\ stock \in Seq(CardCounts)
        /\ voiding \in Seq(Nat \cup {Resting})
        /\ Len(stock) = Len(batches) /\ Len(voiding) = Len(batches)
    BY <1>5 DEF QuotaTypes
  <2>2. n \in Nat /\ n \notin DOMAIN batches /\ DOMAIN stock = DOMAIN batches
    BY <2>1
  <2>3. /\ batches' \in Seq(BatchRow) /\ Len(batches') = n /\ batches'[n] = row
        /\ DOMAIN batches' = DOMAIN batches \cup {n}
        /\ \A b \in DOMAIN batches : batches'[b] = batches[b]
    BY <1>1, <1>3, <2>1
  <2>4. /\ stock' \in Seq(CardCounts) /\ Len(stock') = n /\ stock'[n] = new
        /\ DOMAIN stock' = DOMAIN stock \cup {n}
        /\ \A b \in DOMAIN batches : stock'[b] = stock[b]
    BY <1>2, <1>3, <2>1
  <2>5. /\ voiding' \in Seq(Nat \cup {Resting}) /\ Len(voiding') = n /\ voiding'[n] = Resting
        /\ \A b \in DOMAIN batches : voiding'[b] = voiding[b]
    BY <1>4, <2>1
  <2>6. QED
    BY <2>2, <2>3, <2>4, <2>5
<1>7. /\ CostOf \in [DOMAIN batches -> Nat] /\ VoidedOf \in [DOMAIN batches -> Nat]
      /\ IsFiniteSet(DOMAIN batches)
      /\ SumFunction(CostOf) \in Nat /\ Voided \in Nat
  BY <1>5, RowsTyped
<1>8. SumFunction(CostOf') = SumFunction(CostOf) + size * cost
  <2>1. /\ DOMAIN CostOf' = DOMAIN CostOf \cup {n} /\ n \notin DOMAIN CostOf
        /\ CostOf'[n] = size * cost /\ CostOf'[n] \in Int
        /\ \A b \in DOMAIN CostOf : CostOf[b] \in Int /\ CostOf'[b] = CostOf[b]
        /\ IsFiniteSet(DOMAIN CostOf)
    BY <1>3, <1>6, <1>7 DEF CostOf
  <2> HIDE DEF n
  <2>2. SumFunction(CostOf') = SumFunction(CostOf) + CostOf'[n]
    BY <2>1, SumGrows
  <2>3. QED
    BY <2>1, <2>2
<1>9. Voided' = Voided
  <2>1. /\ DOMAIN VoidedOf' = DOMAIN VoidedOf \cup {n} /\ n \notin DOMAIN VoidedOf
        /\ VoidedOf'[n] = 0 /\ VoidedOf'[n] \in Int
        /\ \A b \in DOMAIN VoidedOf : VoidedOf[b] \in Int /\ VoidedOf'[b] = VoidedOf[b]
        /\ IsFiniteSet(DOMAIN VoidedOf)
    BY <1>3, <1>6, <1>7 DEF VoidedOf
  <2> HIDE DEF n
  <2>2. SumFunction(VoidedOf') = SumFunction(VoidedOf) + VoidedOf'[n]
    BY <2>1, SumGrows
  <2>3. QED
    BY <1>7, <2>1, <2>2 DEF Voided
<1>10. /\ quota' \in Seq(Lines) /\ LedgerAddsUp' /\ NoQuotaLost'
  <2>1. quota \in Seq(Lines) /\ LedgerAddsUp /\ NoQuotaLost
    BY DEF QuotaInv, QuotaTypes
  <2>2. CASE offer.quota
    <3>1. AgentQuotaBalance >= size /\ WriteLine("issue", -size)
      BY <2>2 DEF GeneratePackageCards
    <3>2. -size \in Int /\ AgentQuotaBalance + (-size) >= 0
      BY <1>3, <2>1, <3>1, BalanceCovered
    <3>3. /\ quota' \in Seq(Lines) /\ LedgerAddsUp'
          /\ SumOfKind("revoke") \in Int /\ SumOfKind("revoke")' = SumOfKind("revoke")
      BY <2>1, <3>1, <3>2, LineKeeps
    <3>4. QED
      BY <1>9, <2>1, <3>3 DEF NoQuotaLost
  <2>3. CASE ~offer.quota
    <3>1. UNCHANGED quota
      BY <2>3 DEF GeneratePackageCards
    <3>2. QED
      BY <1>9, <2>1, <3>1 DEF LedgerAddsUp, NoQuotaLost, SumOfKind, SumOf, Changes
  <2>4. QED
    BY <2>2, <2>3
<1>11. QuotaTypes'
  BY <1>3, <1>4, <1>5, <1>6, <1>10 DEF QuotaTypes
<1>12. IssuedOnce'
  <2>1. \A b \in DOMAIN batches : batches[b].request # request
    BY <1>4 DEF OrdersOf
  <2>2. /\ \A b, c \in DOMAIN batches : batches[b].request = batches[c].request => b = c
        /\ money = OpeningMoney - SumFunction(CostOf)
    BY DEF QuotaInv, IssuedOnce
  <2>3. \A b, c \in DOMAIN batches' : batches'[b].request = batches'[c].request => b = c
    BY <1>3, <1>6, <2>1, <2>2
  <2>4. OpeningMoney \in Nat /\ money \in Int
    BY <1>5 DEF QuotasAssumption, QuotaTypes
  <2>5. money' = OpeningMoney - SumFunction(CostOf)' /\ money' >= 0
    BY <1>3, <1>4, <1>7, <1>8, <2>2, <2>4
  <2>6. QED
    BY <2>3, <2>5 DEF IssuedOnce
<1>13. CountsCover'
  BY <1>6 DEF QuotaInv, CountsCover
<1>14. QED
  BY <1>10, <1>11, <1>12, <1>13 DEF QuotaInv

LEMMA QuotaStart == ASSUME QuotasAssumption, QuotaInit PROVE QuotaInv
<1>1. batches = <<>> /\ stock = <<>> /\ voiding = <<>> /\ quota = <<>> /\ money = OpeningMoney
  BY DEF QuotaInit
<1>2. QuotaTypes
  BY <1>1 DEF QuotaTypes, QuotasAssumption
<1>3. LedgerAddsUp /\ CountsCover
  BY <1>1 DEF LedgerAddsUp, CountsCover
<1>4. /\ DOMAIN CostOf = {} /\ DOMAIN VoidedOf = {}
      /\ {i \in DOMAIN quota : quota[i].kind = "revoke"} = {}
  BY <1>1 DEF CostOf, VoidedOf
<1>5. SumFunction(CostOf) = 0 /\ Voided = 0 /\ SumOfKind("revoke") = 0
  BY <1>4, SumEmpty DEF SumFunction, Voided, SumOfKind
<1>6. QED
  BY <1>1, <1>2, <1>3, <1>5 DEF QuotaInv, IssuedOnce, NoQuotaLost, QuotasAssumption

LEMMA QuotaStep == ASSUME QuotasAssumption, QuotaInv, [QuotaNext]_quotaVars PROVE QuotaInv'
<1>1. CASE UNCHANGED quotaVars
  BY <1>1, QuotaSame DEF quotaVars
<1>2. ASSUME NEW on \in BOOLEAN, SetAgent(on) \/ GrantPackage(on) \/ \E c \in Costs : SetPackage(on, c)
      PROVE  QuotaInv'
  BY <1>2, QuotaSame DEF SetAgent, GrantPackage, SetPackage
<1>3. ASSUME NEW b \in DOMAIN batches,
             UseCard(b) \/ VoidCard(b) \/ CountUnused(b)
               \/ VoidUnusedCardsInBatch(b) \/ VoidingFails(b)
      PROVE  QuotaInv'
  BY <1>3, UseCardKeeps, VoidCardKeeps, VoidBatchKeeps, CountKeeps
<1>4. CASE QuotaNext
  BY <1>2, <1>3, <1>4, GrantKeeps, PackageKeeps DEF QuotaNext
<1>5. QED
  BY <1>1, <1>4

\* The quota ledger, the batches and the cards keep the strengthened invariant
\* (GrantAgentQuota, GeneratePackageCards, VoidCard, VoidCardBatch).
THEOREM QuotaInvariant == QuotaSpec => []QuotaInv
<1>1. QuotaInit => QuotaInv
  BY QuotaStart, QuotasAssumption
<1>2. QuotaInv /\ [QuotaNext]_quotaVars => QuotaInv'
  BY QuotaStep, QuotasAssumption
<1>3. QED
  BY <1>1, <1>2, PTL DEF QuotaSpec

\* However many requests, grants, price changes and voidings there are: the ledger
\* adds up, a request is served once and paid for, and what is voided is refunded
\* (commerce.go, card_management.go).
THEOREM QuotaSoundHolds == QuotaSpec => []QuotaSound
<1>1. QuotaInv => QuotaSound
  BY DEF QuotaInv, QuotaSound
<1>2. QED
  BY <1>1, QuotaInvariant, PTL

-----------------------------------------------------------------------------
(* Logs *)

ToolRow == [at : {"none", "open", "selected", "published"},
            output : Outputs \cup {""}, rows : SUBSET Nat]

LogTypes ==
    /\ logged \in Nat /\ stops \in Nat /\ online \subseteq 1 .. logged
    /\ archive \in [Outputs -> SUBSET (1 .. logged)]
    /\ tool \in [Tools -> ToolRow]

\* The archives that have a row, and the runs that have archived it and not yet
\* deleted it.
Kept(r) == {o \in Outputs : r \in archive[o]}
Busy(r) == {t \in Tools : tool[t].at = "published" /\ r \in tool[t].rows}
Present(r) == IF r \in online THEN 1 ELSE 0

\* What a run holds is the oldest of the table, and one run at most holds rows.
ToolHolds(t) ==
    /\ tool[t].at \in {"selected", "published"} <=> tool[t].rows # {}
    /\ tool[t].at # "none" => tool[t].output \in Outputs
    /\ tool[t].rows \subseteq online
    /\ \A r \in tool[t].rows, q \in online : q <= r => q \in tool[t].rows
    /\ tool[t].at = "published" => archive[tool[t].output] = tool[t].rows
    /\ \A u \in Tools : tool[t].rows # {} /\ tool[u].rows # {} => t = u

RowSafe(r) ==
    /\ r \in online \/ Kept(r) # {}
    /\ r \in online => \A q \in r .. logged : q \in online
    /\ IsFiniteSet(Kept(r))
    /\ Cardinality(Kept(r)) + Present(r) <= 1 + stops + Cardinality(Busy(r))

\* Inductive.
ArchiveInv == LogTypes /\ (\A t \in Tools : ToolHolds(t)) /\ \A r \in 1 .. logged : RowSafe(r)

\* The rows of one run at most are archived and not deleted.
LEMMA BusyCount ==
    ASSUME LogTypes, \A t \in Tools : ToolHolds(t), NEW r
    PROVE  /\ Cardinality(Busy(r)) \in {0, 1}
           /\ \A t \in Busy(r) : Busy(r) = {t} /\ Cardinality(Busy(r)) = 1
           /\ (Busy(r) = {}) => Cardinality(Busy(r)) = 0
<1>1. \A t, u \in Busy(r) : t = u
  BY DEF Busy, ToolHolds
<1>2. \A t \in Busy(r) : Busy(r) = {t}
  BY <1>1
<1>3. \A t \in Busy(r) : Cardinality(Busy(r)) = 1
  BY <1>2, FS_Singleton
<1>4. Cardinality({}) = 0
  BY FS_EmptySet
<1>5. QED
  BY <1>2, <1>3, <1>4

\* A row of a tool that is replaced: nothing else of the tools changes.
LEMMA ToolsTyped ==
    ASSUME LogTypes, NEW t \in Tools, NEW new \in ToolRow, tool' = [tool EXCEPT ![t] = new]
    PROVE  /\ tool' \in [Tools -> ToolRow]
           /\ tool'[t] = new /\ \A u \in Tools : u # t => tool'[u] = tool[u]
BY DEF LogTypes

\* A run that takes no rows, or gives up those it had not published.
LEMMA IdleKeeps ==
    ASSUME ArchiveInv, NEW t \in Tools, NEW new \in ToolRow, tool' = [tool EXCEPT ![t] = new],
           new.rows = {}, new.at \in {"none", "open"}, new.at = "open" => new.output \in Outputs,
           \/ tool[t].at # "published" /\ stops' = stops
           \/ stops' = stops + 1,
           UNCHANGED <<logged, online, archive>>
    PROVE  ArchiveInv'
<1>1. /\ LogTypes /\ \A u \in Tools : ToolHolds(u)
      /\ \A r \in 1 .. logged : RowSafe(r)
  BY DEF ArchiveInv
<1>2. /\ tool' \in [Tools -> ToolRow]
      /\ tool'[t] = new /\ \A u \in Tools : u # t => tool'[u] = tool[u]
  BY <1>1, ToolsTyped
<1>3. LogTypes'
  BY <1>1, <1>2 DEF LogTypes
<1>4. ASSUME NEW u \in Tools PROVE ToolHolds(u)'
  <2>1. \A w \in Tools : tool'[w].rows # {} => w # t /\ tool'[w] = tool[w]
    BY <1>2
  <2>2. CASE u = t
    BY <1>2, <2>2 DEF ToolHolds
  <2>3. CASE u # t
    BY <1>1, <1>2, <2>1, <2>3 DEF ToolHolds
  <2>4. QED
    BY <2>2, <2>3
<1>5. ASSUME NEW r \in 1 .. logged PROVE RowSafe(r)'
  <2>1. Kept(r)' = Kept(r) /\ Present(r)' = Present(r) /\ RowSafe(r)
    BY <1>1 DEF Kept, Present
  <2>2. Busy(r)' = Busy(r) \ {t}
    BY <1>2 DEF Busy
  <2>3. /\ Cardinality(Busy(r)) \in {0, 1}
        /\ \A u \in Busy(r) : Busy(r) = {u} /\ Cardinality(Busy(r)) = 1
    BY <1>1, BusyCount
  <2>4. Cardinality(Busy(r)') \in {0, 1}
    <3>1. Busy(r)' = {} \/ Busy(r)' = Busy(r)
      BY <2>2, <2>3
    <3>2. QED
      BY <2>3, <3>1, FS_EmptySet
  <2>5. stops' \in Nat /\ stops \in Nat
    BY <1>1, <1>3 DEF LogTypes
  <2>6. Cardinality(Busy(r)) + stops <= Cardinality(Busy(r)') + stops'
    <3>1. CASE t \in Busy(r)
      <4>1. tool[t].at = "published"
        BY <3>1 DEF Busy
      <4>2. stops' = stops + 1
        BY <4>1
      <4>3. QED
        BY <2>3, <2>4, <2>5, <4>2
    <3>2. CASE t \notin Busy(r)
      <4>1. Busy(r)' = Busy(r)
        BY <2>2, <3>2
      <4>2. stops <= stops'
        BY <2>5
      <4>3. QED
        BY <2>3, <2>5, <4>1, <4>2
    <3>3. QED
      BY <3>1, <3>2
  <2>7. Cardinality(Kept(r)) \in Nat /\ Present(r) \in Nat
    BY <2>1, FS_CardinalityType DEF RowSafe, Present
  <2>8. Cardinality(Kept(r)) + Present(r) <= 1 + stops + Cardinality(Busy(r))
    BY <2>1 DEF RowSafe
  <2>9. Cardinality(Kept(r)') + Present(r)' <= 1 + stops' + Cardinality(Busy(r)')
    BY <2>1, <2>3, <2>4, <2>5, <2>6, <2>7, <2>8
  <2>10. QED
    BY <2>1, <2>9 DEF RowSafe
<1>6. QED
  BY <1>3, <1>4, <1>5 DEF ArchiveInv

LEMMA AppendLogKeeps == ASSUME LogsAssumption, ArchiveInv, AppendLog PROVE ArchiveInv'
<1> DEFINE n == logged + 1
<1>1. /\ LogTypes /\ \A u \in Tools : ToolHolds(u)
      /\ \A r \in 1 .. logged : RowSafe(r)
  BY DEF ArchiveInv
<1>2. /\ logged' = n /\ online' = online \cup {n} /\ UNCHANGED <<archive, tool, stops>>
      /\ logged \in Nat /\ online \subseteq 1 .. logged
  BY <1>1 DEF AppendLog, LogTypes
<1>3. LogTypes'
  <2>1. 1 .. logged \subseteq 1 .. n /\ n \in Nat /\ n \in 1 .. n
    BY <1>2
  <2>2. \A o \in Outputs : archive[o] \in SUBSET (1 .. n)
    BY <1>1, <2>1 DEF LogTypes
  <2>3. archive \in [Outputs -> SUBSET (1 .. n)]
    BY <1>1, <2>2 DEF LogTypes
  <2>4. QED
    BY <1>1, <1>2, <2>1, <2>3 DEF LogTypes
<1>4. ASSUME NEW u \in Tools PROVE ToolHolds(u)'
  <2>1. ToolHolds(u)
    BY <1>1
  <2>2. \A r \in tool[u].rows : r \in 1 .. logged
    BY <1>2, <2>1 DEF ToolHolds
  <2>3. \A r \in tool[u].rows : ~(n <= r)
    BY <1>2, <2>2
  <2>4. QED
    BY <1>2, <2>1, <2>3 DEF ToolHolds
<1>5. ASSUME NEW r \in 1 .. n PROVE RowSafe(r)'
  <2>1. Kept(r)' = Kept(r) /\ Busy(r)' = Busy(r)
    BY <1>2 DEF Kept, Busy
  <2>2. CASE r \in 1 .. logged
    <3>1. RowSafe(r) /\ r # n
      BY <1>1, <1>2, <2>2
    <3>2. Present(r)' = Present(r) /\ (r \in online' <=> r \in online)
      BY <1>2, <3>1 DEF Present
    <3>3. r \in online => \A q \in r .. n : q \in online'
      BY <1>2, <3>1 DEF RowSafe
    <3>4. QED
      BY <1>2, <2>1, <3>1, <3>2, <3>3 DEF RowSafe
  <2>3. CASE r = n
    <3>1. \A o \in Outputs : r \notin archive[o]
      BY <1>1, <1>2, <2>3 DEF LogTypes
    <3>2. Kept(r) = {}
      BY <3>1 DEF Kept
    <3>3. Busy(r) = {}
      BY <1>1, <1>2, <2>3 DEF Busy, ToolHolds
    <3>4. Cardinality(Kept(r)) = 0 /\ Cardinality(Busy(r)) = 0 /\ IsFiniteSet(Kept(r))
      BY <3>2, <3>3, FS_EmptySet
    <3>5. /\ r \in online' /\ \A q \in r .. n : q \in online'
          /\ Present(r)' = 1
      BY <1>2, <2>3 DEF Present
    <3>6. stops \in Nat
      BY <1>1 DEF LogTypes
    <3>7. QED
      BY <1>2, <2>1, <3>4, <3>5, <3>6 DEF RowSafe
  <2>4. QED
    BY <1>2, <2>2, <2>3
<1>6. QED
  BY <1>2, <1>3, <1>4, <1>5 DEF ArchiveInv

\* The rows a run reads: with a row, all that are older.
LEMMA OldestRows ==
    ASSUME LogsAssumption, LogTypes, NEW cut \in 0 .. logged
    PROVE  /\ Oldest(cut) \subseteq online
           /\ \A r \in Oldest(cut), q \in online : q <= r => q \in Oldest(cut)
<1>1. \A q \in online : q \in Int
  BY DEF LogTypes
<1>2. ASSUME NEW r \in Oldest(cut), NEW q \in online, q <= r
      PROVE  q \in Oldest(cut)
  <2> DEFINE before(p) == {x \in online : x < p}
  <2>1. r \in online /\ r <= cut /\ Cardinality(before(r)) < BatchLimit
    BY DEF Oldest
  <2>2. before(q) \subseteq before(r)
    BY <1>1, <1>2, <2>1
  <2>3. IsFiniteSet(before(r))
    <3>1. before(r) \subseteq 1 .. logged /\ logged \in Nat
      BY DEF LogTypes
    <3>2. IsFiniteSet(1 .. logged)
      BY <3>1, FS_Interval
    <3>3. QED
      BY <3>1, <3>2, FS_Subset
  <2>4. Cardinality(before(q)) <= Cardinality(before(r))
    <3> HIDE DEF before
    <3>1. QED
      BY <2>2, <2>3, FS_Subset
  <2>5. Cardinality(before(q)) \in Nat /\ Cardinality(before(r)) \in Nat
    <3>1. IsFiniteSet(before(q))
      BY <2>2, <2>3, FS_Subset
    <3>2. QED
      BY <2>3, <3>1, FS_CardinalityType
  <2>6. q <= cut
    BY <1>1, <1>2, <2>1
  <2>7. Cardinality(before(q)) < BatchLimit
    BY <2>1, <2>4, <2>5 DEF LogsAssumption
  <2>8. QED
    BY <1>2, <2>6, <2>7 DEF Oldest
<1>3. QED
  BY <1>2 DEF Oldest

LEMMA ToolSelects ==
    ASSUME NEW row \in ToolRow, NEW rows, NEW new,
           new = [row EXCEPT !.at = "selected", !.rows = rows]
    PROVE  new = [at |-> "selected", output |-> row.output, rows |-> rows]
<1>1. row = [at |-> row.at, output |-> row.output, rows |-> row.rows]
  BY DEF ToolRow
<1>2. QED
  BY <1>1

LEMMA SelectKeeps ==
    ASSUME LogsAssumption, ArchiveInv, NEW t \in Tools, SelectRows(t)
    PROVE  ArchiveInv'
<1>1. /\ LogTypes /\ \A u \in Tools : ToolHolds(u)
      /\ \A r \in 1 .. logged : RowSafe(r)
  BY DEF ArchiveInv
<1>2. /\ tool[t].at = "open" /\ \A u \in Tools : tool[u].rows = {}
      /\ UNCHANGED <<logged, online, archive, stops>> /\ tool[t].output \in Outputs
  BY <1>1 DEF SelectRows, ToolHolds
<1>3. PICK cut \in 0 .. logged :
        tool' = IF Oldest(cut) = {} THEN [tool EXCEPT ![t] = NoTool]
                ELSE [tool EXCEPT ![t].at = "selected", ![t].rows = Oldest(cut)]
  BY DEF SelectRows
<1>4. CASE Oldest(cut) = {}
  <2>1. tool' = [tool EXCEPT ![t] = NoTool]
    BY <1>3, <1>4
  <2>2. NoTool \in ToolRow /\ NoTool.rows = {} /\ NoTool.at = "none"
    BY DEF NoTool, ToolRow
  <2>3. tool[t].at # "published" /\ stops' = stops
    BY <1>2
  <2>4. QED
    BY <1>2, <2>1, <2>2, <2>3, IdleKeeps
<1>5. CASE Oldest(cut) # {}
  <2> DEFINE rows == Oldest(cut)
  <2>1. /\ rows \subseteq online /\ rows \subseteq Nat
        /\ \A r \in rows, q \in online : q <= r => q \in rows
    <3>1. /\ rows \subseteq online
          /\ \A r \in rows, q \in online : q <= r => q \in rows
      BY <1>1, OldestRows
    <3>2. online \subseteq Nat
      BY <1>1 DEF LogTypes
    <3>3. QED
      BY <3>1, <3>2
  <2>2. PICK new : /\ new = [at |-> "selected", output |-> tool[t].output, rows |-> rows]
                   /\ tool' = [tool EXCEPT ![t] = new]
    <3>1. tool[t] \in ToolRow
      BY <1>1 DEF LogTypes
    <3>2. [tool[t] EXCEPT !.at = "selected", !.rows = rows]
            = [at |-> "selected", output |-> tool[t].output, rows |-> rows]
      BY <3>1, ToolSelects
    <3>3. tool' = [tool EXCEPT ![t] = [tool[t] EXCEPT !.at = "selected", !.rows = rows]]
      BY <1>1, <1>3, <1>5 DEF LogTypes
    <3>4. QED
      BY <3>2, <3>3
  <2>3. /\ new \in ToolRow /\ new.at = "selected" /\ new.output = tool[t].output
        /\ new.rows = rows
    BY <1>2, <2>1, <2>2 DEF ToolRow
  <2>4. /\ tool' \in [Tools -> ToolRow]
        /\ tool'[t] = new /\ \A u \in Tools : u # t => tool'[u] = tool[u]
    BY <1>1, <2>2, <2>3, ToolsTyped
  <2>5. LogTypes'
    BY <1>1, <1>2, <2>4 DEF LogTypes
  <2>6. ASSUME NEW u \in Tools PROVE ToolHolds(u)'
    <3>1. \A w \in Tools : tool'[w].rows # {} => w = t
      BY <1>2, <2>4
    <3>2. CASE u = t
      BY <1>2, <1>5, <2>1, <2>3, <2>4, <3>1, <3>2 DEF ToolHolds
    <3>3. CASE u # t
      <4>1. tool'[u] = tool[u] /\ tool[u].rows = {}
        BY <1>2, <2>4, <3>3
      <4>2. ToolHolds(u)
        BY <1>1
      <4>3. QED
        BY <1>2, <4>1, <4>2 DEF ToolHolds
    <3>4. QED
      BY <3>2, <3>3
  <2>7. ASSUME NEW r \in 1 .. logged PROVE RowSafe(r)'
    <3>1. Busy(r) = {} /\ Busy(r)' = {}
      BY <1>2, <2>3, <2>4 DEF Busy
    <3>2. Kept(r)' = Kept(r) /\ Present(r)' = Present(r) /\ RowSafe(r)
      BY <1>1, <1>2 DEF Kept, Present
    <3>3. QED
      BY <1>2, <3>1, <3>2 DEF RowSafe
  <2>8. QED
    BY <1>2, <2>5, <2>6, <2>7 DEF ArchiveInv
<1>6. QED
  BY <1>4, <1>5

\* A run opens, is refused a file's name, or stops.
LEMMA RunKeeps ==
    ASSUME LogsAssumption, ArchiveInv, NEW t \in Tools,
           \/ \E o \in Outputs : ArchiveLogs(t, o)
           \/ PublishRefused(t) \/ StopTool(t)
    PROVE  ArchiveInv'
<1>1. NoTool \in ToolRow /\ NoTool.rows = {} /\ NoTool.at = "none"
  BY DEF NoTool, ToolRow
<1>2. CASE \E o \in Outputs : ArchiveLogs(t, o)
  <2>1. PICK o \in Outputs : ArchiveLogs(t, o)
    BY <1>2
  <2>2. PICK new : /\ new = [at |-> "open", output |-> o, rows |-> {}]
                   /\ tool' = [tool EXCEPT ![t] = new]
    BY <2>1 DEF ArchiveLogs
  <2>3. /\ new \in ToolRow /\ new.rows = {} /\ new.at = "open" /\ new.output \in Outputs
    BY <2>2 DEF ToolRow
  <2>4. /\ tool[t].at # "published" /\ stops' = stops
        /\ UNCHANGED <<logged, online, archive>>
    BY <2>1 DEF ArchiveLogs
  <2>5. tool' = [tool EXCEPT ![t] = new]
    BY <2>2
  <2>6. QED
    BY <2>3, <2>4, <2>5, IdleKeeps
<1>3. CASE PublishRefused(t)
  <2>1. /\ tool[t].at # "published" /\ stops' = stops
        /\ UNCHANGED <<logged, online, archive>> /\ tool' = [tool EXCEPT ![t] = NoTool]
    BY <1>3 DEF PublishRefused
  <2>2. QED
    BY <1>1, <2>1, IdleKeeps
<1>4. CASE StopTool(t)
  <2>1. /\ stops' = stops + 1
        /\ UNCHANGED <<logged, online, archive>> /\ tool' = [tool EXCEPT ![t] = NoTool]
    BY <1>4 DEF StopTool
  <2>2. QED
    BY <1>1, <2>1, IdleKeeps
<1>5. QED
  BY <1>2, <1>3, <1>4

LEMMA ToolPublishes ==
    ASSUME NEW row \in ToolRow, NEW new, new = [row EXCEPT !.at = "published"]
    PROVE  /\ new \in ToolRow /\ new.at = "published"
           /\ new.output = row.output /\ new.rows = row.rows
<1>1. row = [at |-> row.at, output |-> row.output, rows |-> row.rows]
      /\ row.output \in Outputs \cup {""} /\ row.rows \in SUBSET Nat
  BY DEF ToolRow
<1>2. new = [at |-> "published", output |-> row.output, rows |-> row.rows]
  BY <1>1
<1>3. QED
  BY <1>1, <1>2 DEF ToolRow

LEMMA PublishArchiveKeeps ==
    ASSUME LogsAssumption, ArchiveInv, NEW t \in Tools, PublishArchive(t)
    PROVE  ArchiveInv'
<1> DEFINE o == tool[t].output
           rows == tool[t].rows
<1>1. /\ LogTypes /\ \A u \in Tools : ToolHolds(u)
      /\ \A r \in 1 .. logged : RowSafe(r)
  BY DEF ArchiveInv
<1>2. /\ tool[t].at = "selected" /\ o \in Outputs /\ archive[o] = {} /\ rows # {}
      /\ UNCHANGED <<logged, online, stops>> /\ rows \subseteq online
      /\ archive' = [archive EXCEPT ![o] = rows] /\ tool[t] \in ToolRow
      /\ online \subseteq 1 .. logged
  BY <1>1 DEF PublishArchive, ToolHolds, LogTypes
<1>3. PICK new : /\ new = [tool[t] EXCEPT !.at = "published"]
                 /\ tool' = [tool EXCEPT ![t] = new]
  BY DEF PublishArchive
<1>4. new \in ToolRow /\ new.at = "published" /\ new.output = o /\ new.rows = rows
  BY <1>2, <1>3, ToolPublishes
<1>5. /\ tool' \in [Tools -> ToolRow]
      /\ tool'[t] = new /\ \A u \in Tools : u # t => tool'[u] = tool[u]
  <2>1. tool' = [tool EXCEPT ![t] = new]
    BY <1>3
  <2>2. QED
    BY <1>1, <1>4, <2>1, ToolsTyped
<1>6. /\ archive' \in [Outputs -> SUBSET (1 .. logged)]
      /\ archive'[o] = rows /\ \A p \in Outputs : p # o => archive'[p] = archive[p]
  <2>1. rows \in SUBSET (1 .. logged)
    BY <1>2
  <2>2. archive \in [Outputs -> SUBSET (1 .. logged)]
    BY <1>1 DEF LogTypes
  <2> HIDE DEF o, rows
  <2>3. QED
    BY <1>2, <2>1, <2>2
<1>7. LogTypes'
  BY <1>1, <1>2, <1>5, <1>6 DEF LogTypes
<1>8. \A u \in Tools : u # t => tool[u].rows = {} /\ tool[u].at # "published"
  BY <1>1, <1>2 DEF ToolHolds
<1>9. ASSUME NEW u \in Tools PROVE ToolHolds(u)'
  <2>1. \A w \in Tools : tool'[w].rows = tool[w].rows /\ tool'[w].output = tool[w].output
    BY <1>4, <1>5
  <2>2. ToolHolds(u)
    BY <1>1
  <2>3. CASE u = t
    BY <1>2, <1>4, <1>5, <1>6, <2>1, <2>2, <2>3 DEF ToolHolds
  <2>4. CASE u # t
    BY <1>2, <1>5, <1>8, <2>1, <2>2, <2>4 DEF ToolHolds
  <2>5. QED
    BY <2>3, <2>4
<1>10. ASSUME NEW r \in 1 .. logged PROVE RowSafe(r)'
  <2>1. RowSafe(r) /\ Present(r)' = Present(r)
    BY <1>1, <1>2 DEF Present
  <2>2. Busy(r) = {} /\ Cardinality(Busy(r)) = 0
    <3>1. Busy(r) = {}
      BY <1>2, <1>8 DEF Busy
    <3>2. QED
      BY <3>1, FS_EmptySet
  <2>3. CASE r \in rows
    <3>1. o \notin Kept(r) /\ Kept(r)' = Kept(r) \cup {o}
      BY <1>2, <1>6, <2>3 DEF Kept
    <3>2. /\ IsFiniteSet(Kept(r)') /\ Cardinality(Kept(r)') = Cardinality(Kept(r)) + 1
          /\ Cardinality(Kept(r)) \in Nat
      <4>1. IsFiniteSet(Kept(r))
        BY <2>1 DEF RowSafe
      <4> HIDE DEF o
      <4>2. IsFiniteSet(Kept(r) \cup {o}) /\ Cardinality(Kept(r) \cup {o}) = Cardinality(Kept(r)) + 1
        BY <3>1, <4>1, FS_AddElement
      <4>3. QED
        BY <3>1, <4>1, <4>2, FS_CardinalityType
    <3>3. Busy(r)' = {t}
      BY <1>4, <1>5, <1>8, <2>3 DEF Busy
    <3>4. Cardinality(Busy(r)') = 1
      BY <3>3, FS_Singleton
    <3>5. stops \in Nat /\ Present(r) \in {0, 1}
      BY <1>1 DEF LogTypes, Present
    <3>6. Cardinality(Kept(r)') + Present(r)' <= 1 + stops' + Cardinality(Busy(r)')
      BY <1>2, <2>1, <2>2, <3>2, <3>4, <3>5 DEF RowSafe
    <3>7. QED
      BY <1>2, <2>1, <3>1, <3>2, <3>6 DEF RowSafe
  <2>4. CASE r \notin rows
    <3>1. Kept(r)' = Kept(r)
      BY <1>2, <1>6, <2>4 DEF Kept
    <3>2. Busy(r)' = Busy(r)
      BY <1>4, <1>5, <1>8, <2>2, <2>4 DEF Busy
    <3>3. QED
      BY <1>2, <2>1, <3>1, <3>2 DEF RowSafe
  <2>5. QED
    BY <2>3, <2>4
<1>11. QED
  BY <1>2, <1>7, <1>9, <1>10 DEF ArchiveInv

LEMMA DeleteKeeps ==
    ASSUME LogsAssumption, ArchiveInv, NEW t \in Tools, DeleteArchived(t)
    PROVE  ArchiveInv'
<1> DEFINE o == tool[t].output
           rows == tool[t].rows
<1>1. /\ LogTypes /\ \A u \in Tools : ToolHolds(u)
      /\ \A r \in 1 .. logged : RowSafe(r)
  BY DEF ArchiveInv
<1>2. /\ tool[t].at = "published" /\ o \in Outputs /\ archive[o] = rows /\ rows # {}
      /\ rows \subseteq online
      /\ \A r \in rows, q \in online : q <= r => q \in rows
      /\ online' = online \ rows /\ UNCHANGED <<logged, archive, stops>>
      /\ tool' = [tool EXCEPT ![t] = NoTool]
  BY <1>1 DEF DeleteArchived, ToolHolds
<1>3. NoTool \in ToolRow /\ NoTool.rows = {} /\ NoTool.at = "none"
  BY DEF NoTool, ToolRow
<1>4. /\ tool' \in [Tools -> ToolRow]
      /\ tool'[t] = NoTool /\ \A u \in Tools : u # t => tool'[u] = tool[u]
  BY <1>1, <1>2, <1>3, ToolsTyped
<1>5. LogTypes'
  BY <1>1, <1>2, <1>4 DEF LogTypes
<1>6. \A u \in Tools : u # t => tool[u].rows = {} /\ tool[u].at # "published"
  BY <1>1, <1>2 DEF ToolHolds
<1>7. ASSUME NEW u \in Tools PROVE ToolHolds(u)'
  <2>1. ToolHolds(u) /\ \A w \in Tools : tool'[w].rows = {}
    BY <1>1, <1>3, <1>4, <1>6
  <2>2. QED
    BY <1>2, <1>3, <1>4, <1>6, <2>1 DEF ToolHolds
<1>8. ASSUME NEW r \in 1 .. logged PROVE RowSafe(r)'
  <2>1. RowSafe(r) /\ Kept(r)' = Kept(r)
    BY <1>1, <1>2 DEF Kept
  <2>2. Busy(r)' = {} /\ Cardinality(Busy(r)') = 0
    <3>1. Busy(r)' = {}
      BY <1>3, <1>4, <1>6 DEF Busy
    <3>2. QED
      BY <3>1, FS_EmptySet
  <2>3. /\ Cardinality(Kept(r)) \in Nat /\ stops \in Nat
        /\ Present(r) \in {0, 1} /\ Present(r)' \in {0, 1}
    BY <1>1, <2>1, FS_CardinalityType DEF RowSafe, LogTypes, Present
  <2>4. Cardinality(Kept(r)) + Present(r) <= 1 + stops + Cardinality(Busy(r))
    BY <2>1 DEF RowSafe
  <2>5. CASE r \in rows
    <3>1. Busy(r) = {t} /\ o \in Kept(r) /\ r \notin online' /\ r \in online
      BY <1>2, <1>6, <2>5 DEF Busy, Kept
    <3>2. Cardinality(Busy(r)) = 1 /\ Present(r) = 1 /\ Present(r)' = 0
      BY <3>1, FS_Singleton DEF Present
    <3>3. QED
      BY <1>2, <2>1, <2>2, <2>3, <2>4, <3>1, <3>2 DEF RowSafe
  <2>6. CASE r \notin rows
    <3>1. Busy(r) = {} /\ (r \in online' <=> r \in online)
      BY <1>2, <1>6, <2>6 DEF Busy
    <3>2. Cardinality(Busy(r)) = 0 /\ Present(r)' = Present(r)
      BY <3>1, FS_EmptySet DEF Present
    <3>3. r \in online => \A q \in r .. logged : q \in online'
      <4> SUFFICES ASSUME r \in online, NEW q \in r .. logged PROVE q \in online'
        OBVIOUS
      <4>1. q \in online /\ r <= q
        BY <2>1 DEF RowSafe
      <4>2. q \notin rows
        BY <1>2, <2>6, <4>1
      <4>3. QED
        BY <1>2, <4>1, <4>2
    <3>4. QED
      BY <1>2, <2>1, <2>2, <2>3, <2>4, <3>1, <3>2, <3>3 DEF RowSafe
  <2>7. QED
    BY <2>5, <2>6
<1>9. QED
  BY <1>2, <1>5, <1>7, <1>8 DEF ArchiveInv

LEMMA ArchiveSame ==
    ASSUME ArchiveInv, UNCHANGED <<logged, online, archive, tool, stops>>
    PROVE  ArchiveInv'
BY ZenonT(60) DEF ArchiveInv, LogTypes, ToolHolds, RowSafe, Kept, Busy, Present

LEMMA ArchiveStep ==
    ASSUME LogsAssumption, ArchiveInv, ArchiveNext
    PROVE  ArchiveInv'
<1>1. ASSUME NEW t \in Tools,
             \/ \E o \in Outputs : ArchiveLogs(t, o)
             \/ SelectRows(t) \/ PublishArchive(t) \/ PublishRefused(t)
             \/ DeleteArchived(t) \/ StopTool(t)
      PROVE  ArchiveInv'
  BY <1>1, RunKeeps, SelectKeeps, PublishArchiveKeeps, DeleteKeeps
<1>2. QED
  BY <1>1, AppendLogKeeps DEF ArchiveNext

LEMMA ArchiveStart == ASSUME LogsAssumption, LogInit PROVE ArchiveInv
<1>1. /\ logged = 0 /\ online = {} /\ stops = 0 /\ archive = [o \in Outputs |-> {}]
      /\ tool = [t \in Tools |-> NoTool]
  BY DEF LogInit
<1>2. NoTool \in ToolRow /\ NoTool.rows = {} /\ NoTool.at = "none"
  BY DEF NoTool, ToolRow
<1>3. LogTypes
  BY <1>1, <1>2 DEF LogTypes
<1>4. \A t \in Tools : ToolHolds(t)
  BY <1>1, <1>2 DEF ToolHolds
<1>5. \A r \in 1 .. logged : FALSE
  BY <1>1
<1>6. QED
  BY <1>3, <1>4, <1>5 DEF ArchiveInv

-----------------------------------------------------------------------------
\* Exports.

Item == [id : Nat, subject : Subjects]

\* What Selected is the last value of: the rows of one subject among the first n.
FirstStep(h, s, f, n) ==
    IF n = 0 THEN <<>>
    ELSE IF s = Everyone \/ h[n].subject = s THEN Append(f[n - 1], h[n])
    ELSE f[n - 1]
Firsts(h, s, m, f) == f = [n \in 0 .. m |-> FirstStep(h, s, f, n)]

LEMMA FirstsExist ==
    ASSUME NEW h, NEW s, NEW n \in Nat
    PROVE  \E f : Firsts(h, s, n, f)
<1> DEFINE B == {m \in 0 .. n : ~ \E f : Firsts(h, s, m, f)}
<1>1. SUFFICES ASSUME B # {} PROVE FALSE
  OBVIOUS
<1>2. PICK m \in B : \A j \in B : m <= j
  <2>1. B \subseteq Nat
    OBVIOUS
  <2> HIDE DEF B
  <2>2. QED
    BY <1>1, <2>1, LeastNumber
<1>3. m \in 0 .. n /\ ~ \E f : Firsts(h, s, m, f)
  BY <1>2
<1>4. CASE m = 0
  <2> DEFINE f == [i \in 0 .. m |-> <<>>]
  <2>1. \A i \in 0 .. m : f[i] = FirstStep(h, s, f, i)
    BY <1>4 DEF FirstStep
  <2>2. f = [i \in 0 .. m |-> FirstStep(h, s, f, i)]
    BY <2>1
  <2>3. QED
    BY <1>3, <2>2 DEF Firsts
<1>5. CASE m # 0
  <2>1. m - 1 \in 0 .. n /\ m - 1 \notin B
    BY <1>2, <1>3, <1>5
  <2>2. PICK g : Firsts(h, s, m - 1, g)
    BY <2>1
  <2>3. \A i \in 0 .. m - 1 : g[i] = FirstStep(h, s, g, i)
    BY <2>2 DEF Firsts
  <2> DEFINE f == [i \in 0 .. m |-> IF i = m THEN FirstStep(h, s, g, m) ELSE g[i]]
  <2>4. \A i \in 0 .. m - 1 : f[i] = g[i]
    BY <1>3, <1>5
  <2>5. ASSUME NEW i \in 0 .. m PROVE f[i] = FirstStep(h, s, f, i)
    <3>1. i # 0 => i - 1 \in 0 .. m - 1
      BY <1>3
    <3>2. i # 0 => f[i - 1] = g[i - 1]
      BY <2>4, <3>1
    <3>3. FirstStep(h, s, f, i) = FirstStep(h, s, g, i)
      <4> HIDE DEF f
      <4>1. QED
        BY <3>2 DEF FirstStep
    <3>4. f[i] = FirstStep(h, s, g, i)
      <4>1. CASE i = m
        BY <4>1
      <4>2. CASE i # m
        <5>1. i \in 0 .. m - 1
          BY <1>3, <4>2
        <5>2. QED
          BY <2>3, <2>4, <5>1
      <4>3. QED
        BY <4>1, <4>2
    <3>5. QED
      BY <3>3, <3>4
  <2>6. f = [i \in 0 .. m |-> FirstStep(h, s, f, i)]
    BY <2>5
  <2>7. QED
    BY <1>3, <2>6 DEF Firsts
<1>6. QED
  BY <1>4, <1>5

\* The rows of a subject are rows.
LEMMA SelectedRows ==
    ASSUME NEW h \in Seq(Item), NEW s
    PROVE  Selected(h, s) \in Seq(Item)
<1> DEFINE n == Len(h)
           f == CHOOSE g : Firsts(h, s, n, g)
<1>1. n \in Nat /\ \A i \in 1 .. n : h[i] \in Item
  OBVIOUS
<1>2. Selected(h, s) = f[n]
  BY DEF Selected, Firsts, FirstStep
<1>3. Firsts(h, s, n, f)
  BY <1>1, FirstsExist
<1>4. \A i \in 0 .. n : f[i] = FirstStep(h, s, f, i)
  <2> HIDE DEF f, n
  <2>1. QED
    BY <1>3 DEF Firsts
<1> HIDE DEF f, n
<1> DEFINE B == {i \in 0 .. n : f[i] \notin Seq(Item)}
<1>5. B = {}
  <2>1. SUFFICES ASSUME B # {} PROVE FALSE
    OBVIOUS
  <2>2. PICK m \in B : \A j \in B : m <= j
    <3>1. B \subseteq Nat
      OBVIOUS
    <3> HIDE DEF B
    <3>2. QED
      BY <1>1, <2>1, <3>1, LeastNumber
  <2>3. m \in 0 .. n /\ f[m] \notin Seq(Item)
    BY <2>2
  <2>4. m # 0
    <3>1. f[m] = FirstStep(h, s, f, m) /\ <<>> \in Seq(Item)
      BY <1>4, <2>3
    <3>2. QED
      BY <2>3, <3>1 DEF FirstStep
  <2>5. m - 1 \in 0 .. n /\ m - 1 \notin B /\ h[m] \in Item
    BY <1>1, <2>2, <2>3, <2>4
  <2>6. f[m - 1] \in Seq(Item)
    BY <2>5
  <2>7. f[m] \in {Append(f[m - 1], h[m]), f[m - 1]}
    BY <1>4, <2>3, <2>4 DEF FirstStep
  <2>8. Append(f[m - 1], h[m]) \in Seq(Item)
    BY <2>5, <2>6
  <2>9. QED
    BY <2>3, <2>6, <2>7, <2>8
<1>6. QED
  BY <1>1, <1>2, <1>5

ExportRow == [at : {"none", "reading", "exported"}, subject : Subjects \cup {Everyone},
              snapshot : Seq(Item), total : Nat, page : Nat, out : Seq(Item)]

\* While an export runs its pages are, row for row, the front of its snapshot.
ExportReads(x) ==
    LET all == Selected(x.snapshot, x.subject) IN
    /\ x.at # "none" => x.total = Len(all)
    /\ x.at = "reading" => /\ x.page \in Nat \ {0}
                           /\ (x.page - 1) * HistoryPage <= x.total
                           /\ x.out = SubSeq(all, 1, (x.page - 1) * HistoryPage)
    /\ x.at = "exported" => x.out = all

\* Inductive.
ExportInv ==
    /\ history \in Seq(Item)
    /\ exporting \in [Exporters -> ExportRow]
    /\ \A e \in Exporters : ExportReads(exporting[e])

LEMMA ExportSame ==
    ASSUME ExportInv, UNCHANGED <<history, exporting>>
    PROVE  ExportInv'
BY DEF ExportInv, ExportReads

\* The row of one request is replaced.
LEMMA ExportRowKeeps ==
    ASSUME ExportInv, NEW e \in Exporters, NEW new \in ExportRow, ExportReads(new),
           exporting' = [exporting EXCEPT ![e] = new], UNCHANGED history
    PROVE  ExportInv'
<1>1. /\ exporting' \in [Exporters -> ExportRow]
      /\ \A f \in Exporters : exporting'[f] = IF f = e THEN new ELSE exporting[f]
  BY DEF ExportInv
<1>2. \A f \in Exporters : ExportReads(exporting'[f])
  <2>1. \A f \in Exporters : ExportReads(exporting[f])
    BY DEF ExportInv
  <2>2. QED
    BY <1>1, <2>1
<1>3. QED
  BY <1>1, <1>2 DEF ExportInv, ExportReads

LEMMA HistoryKeeps ==
    ASSUME ExportInv, \/ \E s \in Subjects : AppendHistory(s)
                      \/ \E n \in 2 .. MaxItems : SeeAgain(n)
    PROVE  ExportInv'
<1>1. history \in Seq(Item)
  BY DEF ExportInv
<1>2. history' \in Seq(Item) /\ UNCHANGED exporting
  <2>1. ASSUME NEW s \in Subjects, AppendHistory(s)
        PROVE  history' \in Seq(Item) /\ UNCHANGED exporting
    <3>1. PICK item : item = [id |-> Len(history) + 1, subject |-> s]
      OBVIOUS
    <3>2. item \in Item
      BY <1>1, <3>1 DEF Item
    <3>3. history' = <<item>> \o history
      BY <2>1, <3>1 DEF AppendHistory
    <3>4. QED
      BY <1>1, <2>1, <3>2, <3>3 DEF AppendHistory
  <2>2. ASSUME NEW n, SeeAgain(n)
        PROVE  history' \in Seq(Item) /\ UNCHANGED exporting
    <3>1. /\ n \in 2 .. Len(history) /\ UNCHANGED exporting
          /\ history' = <<history[n]>> \o RemoveAt(history, n)
      BY <2>2 DEF SeeAgain
    <3>2. SubSeq(history, 1, n - 1) \in Seq(Item) /\ SubSeq(history, n + 1, Len(history)) \in Seq(Item)
      BY <1>1, <3>1
    <3>3. RemoveAt(history, n) \in Seq(Item)
      BY <3>2 DEF RemoveAt
    <3>4. history[n] \in Item
      BY <1>1, <3>1
    <3>5. QED
      BY <3>1, <3>3, <3>4
  <2>3. QED
    BY <2>1, <2>2
<1>3. QED
  BY <1>2 DEF ExportInv, ExportReads

LEMMA StartExportKeeps ==
    ASSUME LogsAssumption, ExportInv, NEW e \in Exporters,
           NEW s \in Subjects \cup {Everyone}, StartExport(e, s)
    PROVE  ExportInv'
<1> DEFINE all == Selected(history, s)
<1>1. history \in Seq(Item) /\ UNCHANGED history
  BY DEF ExportInv, StartExport
<1>2. all \in Seq(Item) /\ Len(all) \in Nat
  BY <1>1, SelectedRows
<1>3. PICK new : /\ new = [at |-> "reading", subject |-> s, snapshot |-> history,
                           total |-> Len(all), page |-> 1, out |-> <<>>]
                 /\ exporting' = [exporting EXCEPT ![e] = new]
  BY DEF StartExport
<1>4. /\ new \in ExportRow /\ new.at = "reading" /\ new.subject = s /\ new.snapshot = history
      /\ new.total = Len(all) /\ new.page = 1 /\ new.out = <<>>
  <2> HIDE DEF all
  <2>1. <<>> \in Seq(Item)
    OBVIOUS
  <2>2. QED
    BY <1>1, <1>2, <1>3, <2>1 DEF ExportRow
<1>5. ExportReads(new)
  <2>1. (new.page - 1) * HistoryPage = 0
    BY <1>4 DEF LogsAssumption
  <2>2. SubSeq(all, 1, 0) = <<>>
    <3> HIDE DEF all
    <3>1. QED
      BY <1>2
  <2>3. QED
    BY <1>2, <1>4, <2>1, <2>2 DEF ExportReads
<1>6. QED
  BY <1>1, <1>3, <1>4, <1>5, ExportRowKeeps

LEMMA EndExportKeeps ==
    ASSUME ExportInv, NEW e \in Exporters, EndExport(e)
    PROVE  ExportInv'
<1>1. NoExport.at = "none" /\ NoExport \in ExportRow
  <2>1. <<>> \in Seq(Item)
    OBVIOUS
  <2>2. QED
    BY <2>1 DEF NoExport, ExportRow
<1>2. ExportReads(NoExport)
  BY <1>1 DEF ExportReads
<1>3. exporting' = [exporting EXCEPT ![e] = NoExport] /\ UNCHANGED history
  BY DEF EndExport
<1>4. QED
  BY <1>1, <1>2, <1>3, ExportRowKeeps

\* A page continues the pages before it, and the last one ends the snapshot.
LEMMA PageContinues ==
    ASSUME NEW all \in Seq(Item), NEW k \in Nat, k <= Len(all), NEW size \in Nat,
           NEW n \in Nat, n = IF k + size <= Len(all) THEN k + size ELSE Len(all)
    PROVE  SubSeq(all, 1, k) \o SubSeq(all, k + 1, n) = SubSeq(all, 1, n)
<1> DEFINE a == SubSeq(all, 1, k)
           b == SubSeq(all, k + 1, n)
           c == SubSeq(all, 1, n)
<1>1. k <= n /\ n <= Len(all)
  OBVIOUS
<1>2. a \in Seq(Item) /\ Len(a) = k /\ \A i \in 1 .. k : a[i] = all[i]
  BY <1>1
<1>3. b \in Seq(Item) /\ Len(b) = n - k /\ \A i \in 1 .. n - k : b[i] = all[k + i]
  BY <1>1
<1>4. c \in Seq(Item) /\ Len(c) = n /\ \A i \in 1 .. n : c[i] = all[i]
  BY <1>1
<1> HIDE DEF a, b, c
<1>5. /\ a \o b \in Seq(Item) /\ Len(a \o b) = n
      /\ \A i \in 1 .. n : (a \o b)[i] = IF i <= k THEN a[i] ELSE b[i - k]
  <2>1. /\ a \o b \in Seq(Item) /\ Len(a \o b) = Len(a) + Len(b)
        /\ \A i \in 1 .. Len(a) + Len(b) :
             (a \o b)[i] = IF i <= Len(a) THEN a[i] ELSE b[i - Len(a)]
    <3>1. a \in Seq(Item) /\ b \in Seq(Item)
      BY <1>2, <1>3
    <3>2. QED
      BY <3>1, ConcatProperties, ZenonT(40)
  <2>2. Len(a) + Len(b) = n
    BY <1>1, <1>2, <1>3
  <2>3. QED
    BY <1>2, <2>1, <2>2
<1>6. \A i \in 1 .. n : (a \o b)[i] = c[i]
  <2> SUFFICES ASSUME NEW i \in 1 .. n PROVE (a \o b)[i] = c[i]
    OBVIOUS
  <2>1. CASE i <= k
    <3>1. (a \o b)[i] = a[i]
      BY <1>5, <2>1
    <3>2. QED
      BY <1>1, <1>2, <1>4, <2>1, <3>1
  <2>2. CASE ~(i <= k)
    <3>1. (a \o b)[i] = b[i - k]
      BY <1>5, <2>2
    <3>2. i - k \in 1 .. n - k /\ k + (i - k) = i
      BY <2>2
    <3>3. QED
      BY <1>3, <1>4, <3>1, <3>2
  <2>3. QED
    BY <2>1, <2>2
<1>7. Len(a \o b) = Len(c) /\ \A i \in 1 .. Len(a \o b) : (a \o b)[i] = c[i]
  BY <1>4, <1>5, <1>6
<1>8. a \o b = c
  BY <1>4, <1>5, <1>7, SeqEqual
<1>9. QED
  BY <1>8 DEF a, b, c

LEMMA ReadPageKeeps ==
    ASSUME LogsAssumption, ExportInv, NEW e \in Exporters, ReadPage(e)
    PROVE  ExportInv'
<1> DEFINE x == exporting[e]
           all == Selected(x.snapshot, x.subject)
           k == (x.page - 1) * HistoryPage
           n == CHOOSE m \in {k + HistoryPage, Len(all)} : m <= k + HistoryPage /\ m <= Len(all)
           out == SubSeq(all, 1, n)
           at == IF x.page * HistoryPage >= x.total THEN "exported" ELSE "reading"
<1>1. /\ x \in ExportRow /\ x.at = "reading" /\ UNCHANGED history
      /\ exporting \in [Exporters -> ExportRow] /\ ExportReads(x)
  BY DEF ReadPage, ExportInv
<1>2. /\ x.snapshot \in Seq(Item) /\ x.page \in Nat /\ x.out \in Seq(Item) /\ x.total \in Nat
      /\ x.subject \in Subjects \cup {Everyone}
  BY <1>1 DEF ExportRow
<1>3. all \in Seq(Item) /\ Len(all) \in Nat
  BY <1>2, SelectedRows
<1>4. /\ x.total = Len(all) /\ x.page >= 1 /\ k <= Len(all) /\ x.out = SubSeq(all, 1, k)
  BY <1>1 DEF ExportReads
<1>5. HistoryPage \in Nat /\ k \in Nat /\ x.page * HistoryPage = k + HistoryPage
  <2>1. \A p, q \in Nat : p >= 1 => (p - 1) * q \in Nat /\ p * q = (p - 1) * q + q
    OBVIOUS
  <2>2. HistoryPage \in Nat
    BY DEF LogsAssumption
  <2> HIDE DEF x
  <2>3. QED
    BY <1>2, <1>4, <2>1, <2>2
<1>6. n \in Nat /\ n = IF k + HistoryPage <= Len(all) THEN k + HistoryPage ELSE Len(all)
  <2> HIDE DEF k, all
  <2>1. QED
    BY <1>3, <1>5
<1>7. SubSeq(all, 1, k) \o SubSeq(all, k + 1, n) = out
  <2> HIDE DEF k, all, n
  <2>1. k <= Len(all) /\ k \in Nat /\ HistoryPage \in Nat
    BY <1>4, <1>5
  <2>2. SubSeq(all, 1, k) \o SubSeq(all, k + 1, n) = SubSeq(all, 1, n)
    <3>1. n \in Nat /\ n = IF k + HistoryPage <= Len(all) THEN k + HistoryPage ELSE Len(all)
      BY <1>6
    <3>2. all \in Seq(Item)
      BY <1>3
    <3> HIDE DEF out, at, x
    <3>3. QED
      BY ZenonT(60), <2>1, <3>1, <3>2, PageContinues
  <2>3. QED
    BY <2>2
<1>8. PICK new : /\ new = [x EXCEPT !.out = out, !.page = x.page + 1, !.at = at]
                 /\ exporting' = [exporting EXCEPT ![e] = new]
  <2>1. ReadHistory(x.snapshot, x.subject, x.page) = SubSeq(all, k + 1, n)
    BY DEF ReadHistory
  <2>2. x.out \o ReadHistory(RowsSeen(e), x.subject, x.page) = out
    BY <1>4, <1>7, <2>1 DEF RowsSeen
  <2> HIDE DEF out, all, k, n
  <2>3. exporting' = [exporting EXCEPT ![e].out = out, ![e].page = x.page + 1, ![e].at = at]
    BY <2>2 DEF ReadPage
  <2>4. QED
    BY <1>1, <2>3
<1>9. /\ new \in ExportRow /\ new.at = at /\ new.subject = x.subject
      /\ new.snapshot = x.snapshot /\ new.total = x.total
      /\ new.page = x.page + 1 /\ new.out = out
  <2>1. out \in Seq(Item)
    <3> HIDE DEF all, n, k
    <3>1. n \in Nat /\ n <= Len(all)
      BY <1>3, <1>5, <1>6
    <3>2. QED
      BY <1>3, <3>1
  <2>2. x = [at |-> x.at, subject |-> x.subject, snapshot |-> x.snapshot,
             total |-> x.total, page |-> x.page, out |-> x.out]
    <3> HIDE DEF x
    <3>1. QED
      BY <1>1 DEF ExportRow
  <2>3. new = [at |-> at, subject |-> x.subject, snapshot |-> x.snapshot,
               total |-> x.total, page |-> x.page + 1, out |-> out]
    <3> HIDE DEF x, at, out
    <3>1. new = [x EXCEPT !.out = out, !.page = x.page + 1, !.at = at]
      BY <1>8
    <3>2. QED
      BY <2>2, <3>1
  <2>4. at \in {"none", "reading", "exported"}
    OBVIOUS
  <2> HIDE DEF x, at, out
  <2>5. QED
    BY <1>2, <2>1, <2>3, <2>4 DEF ExportRow
<1>10. ExportReads(new)
  <2>1. CASE x.page * HistoryPage >= x.total
    <3>1. n = Len(all) /\ at = "exported"
      BY <1>3, <1>4, <1>5, <1>6, <2>1
    <3>2. SubSeq(all, 1, Len(all)) = all
      BY <1>3
    <3>3. out = all
      BY <3>1, <3>2
    <3> HIDE DEF x, n, out
    <3>4. QED
      BY <1>4, <1>9, <3>1, <3>3 DEF ExportReads
  <2>2. CASE ~(x.page * HistoryPage >= x.total)
    <3>1. n = x.page * HistoryPage /\ n <= x.total /\ at = "reading"
      BY SMTT(30), <1>2, <1>3, <1>4, <1>5, <1>6, <2>2
    <3>2. (new.page - 1) * HistoryPage = n /\ new.page \in Nat \ {0}
      <4>1. new.page - 1 = x.page
        BY <1>2, <1>9
      <4>2. QED
        BY SMTT(30), <1>2, <1>9, <3>1, <4>1
    <3> HIDE DEF x, n
    <3>3. QED
      BY <1>4, <1>9, <3>1, <3>2 DEF ExportReads
  <2>3. QED
    BY <2>1, <2>2
<1>11. exporting' = [exporting EXCEPT ![e] = new] /\ UNCHANGED history
  BY <1>1, <1>8
<1>12. QED
  BY <1>9, <1>10, <1>11, ExportRowKeeps

LEMMA ExportStep ==
    ASSUME LogsAssumption, ExportInv, ExportNext
    PROVE  ExportInv'
<1>1. ASSUME NEW e \in Exporters,
             \/ \E s \in Subjects \cup {Everyone} : StartExport(e, s)
             \/ ReadPage(e) \/ EndExport(e)
      PROVE  ExportInv'
  BY <1>1, StartExportKeeps, ReadPageKeeps, EndExportKeeps
<1>2. QED
  BY <1>1, HistoryKeeps DEF ExportNext

LEMMA ExportStart == ASSUME LogInit PROVE ExportInv
<1>1. history = <<>> /\ exporting = [e \in Exporters |-> NoExport]
  BY DEF LogInit
<1>2. <<>> \in Seq(Item)
  OBVIOUS
<1>3. NoExport \in ExportRow /\ NoExport.at = "none"
  BY <1>2 DEF NoExport, ExportRow
<1>4. ExportReads(NoExport)
  BY <1>3 DEF ExportReads
<1>5. QED
  BY <1>1, <1>2, <1>3, <1>4 DEF ExportInv

LogInv == ArchiveInv /\ ExportInv

LEMMA LogStep == ASSUME LogsAssumption, LogInv, [LogNext]_logVars PROVE LogInv'
<1>1. CASE ArchiveNext
  <2>1. UNCHANGED <<history, exporting>>
    BY <1>1 DEF ArchiveNext, AppendLog, ArchiveLogs, SelectRows, PublishArchive,
                PublishRefused, DeleteArchived, StopTool
  <2>2. QED
    BY <1>1, <2>1, ArchiveStep, ExportSame DEF LogInv
<1>2. CASE ExportNext
  <2>1. UNCHANGED <<logged, online, archive, tool, stops>>
    BY <1>2 DEF ExportNext, AppendHistory, SeeAgain, StartExport, ReadPage, EndExport
  <2>2. QED
    BY <1>2, <2>1, ExportStep, ArchiveSame DEF LogInv
<1>3. CASE UNCHANGED logVars
  BY <1>3, ArchiveSame, ExportSame DEF LogInv, logVars
<1>4. QED
  BY <1>1, <1>2, <1>3 DEF LogNext

LEMMA LogImplies == ASSUME LogInv PROVE LogsSound
<1>1. ASSUME NEW r \in 1 .. logged
      PROVE  LET kept == {o \in Outputs : r \in archive[o]}
                 busy == {t \in Tools : tool[t].at = "published" /\ r \in tool[t].rows}
             IN  /\ r \in online \/ kept # {}
                 /\ r \in online => \A q \in r .. logged : q \in online
                 /\ Cardinality(kept) + (IF r \in online THEN 1 ELSE 0)
                      <= 1 + stops + Cardinality(busy)
  <2>1. RowSafe(r)
    BY DEF LogInv, ArchiveInv
  <2>2. QED
    BY <2>1 DEF RowSafe, Kept, Busy, Present
<1>2. \A e \in Exporters : exporting[e].at = "exported" =>
         exporting[e].out = Selected(exporting[e].snapshot, exporting[e].subject)
  BY DEF LogInv, ExportInv, ExportReads
<1>3. QED
  BY <1>1, <1>2 DEF LogsSound

\* Archives and exports keep the strengthened invariant (ArchiveLogBatch,
\* StreamHistory).
THEOREM LogsInvariant == LogSpec => []LogInv
<1>1. LogInit => LogInv
  BY ArchiveStart, ExportStart, LogsAssumption DEF LogInv
<1>2. LogInv /\ [LogNext]_logVars => LogInv'
  BY LogStep, LogsAssumption
<1>3. QED
  BY <1>1, <1>2, PTL DEF LogSpec

\* However many rows, runs, files and exports there are, no row is lost or kept
\* twice without an interruption, and an export is the history it began with.
THEOREM LogsSoundHolds == LogSpec => []LogsSound
<1>1. LogInv => LogsSound
  BY LogImplies
<1>2. QED
  BY <1>1, LogsInvariant, PTL

-----------------------------------------------------------------------------
(* The platform *)

LEMMA PlatformSteps ==
    ASSUME [PlatformNext]_<<part, platformVars>>
    PROVE  /\ [Next]_vars /\ [SalesNext]_salesVars /\ [QuotaNext]_quotaVars
           /\ [InsNext]_insVars /\ [MigNext]_migVars /\ [RestoreNext]_restoreVars
           /\ [LogNext]_logVars
<1>1. CASE UNCHANGED <<part, platformVars>>
  <2>1. /\ UNCHANGED vars /\ UNCHANGED salesVars /\ UNCHANGED quotaVars
        /\ UNCHANGED insVars /\ UNCHANGED migVars /\ UNCHANGED restoreVars
        /\ UNCHANGED logVars
    BY <1>1 DEF platformVars, renewalVars
  <2>2. QED
    BY <2>1
<1>2. CASE PlatformNext
  BY <1>2 DEF PlatformNext, renewalVars, LogNext
<1>3. QED
  BY <1>1, <1>2

\* Every component behaves in the whole as it does alone: none has a step that
\* writes the tables, files or locks of another.
THEOREM EveryPart ==
    PlatformSpec => /\ Spec /\ SalesSpec /\ QuotaSpec
                    /\ InsSpec /\ MigSpec /\ RestoreSpec /\ LogSpec
<1>1. PlatformInit => /\ Init /\ SalesInit /\ QuotaInit
                      /\ InsInit /\ MigInit /\ RestoreInit /\ LogInit
  BY DEF PlatformInit
<1>2. [PlatformNext]_<<part, platformVars>> =>
        /\ [Next]_vars /\ [SalesNext]_salesVars /\ [QuotaNext]_quotaVars
        /\ [InsNext]_insVars /\ [MigNext]_migVars /\ [RestoreNext]_restoreVars
        /\ [LogNext]_logVars
  BY PlatformSteps
<1>3. QED
  BY <1>1, <1>2, PTL DEF PlatformSpec, Spec, SalesSpec, QuotaSpec, InsSpec, MigSpec,
                         RestoreSpec, LogSpec

\* What installs, migrates, restores and prunes the platform's database is sound for
\* every number of databases, processes, releases, files and rows (Initialize,
\* Migrate, Restore, ArchiveLogBatch, StreamHistory).
THEOREM PlatformSoundHolds == PlatformSpec => []PlatformSound
<1>1. InstallationSound /\ MigrationsSound /\ RestoreSound /\ LogsSound => PlatformSound
  BY DEF PlatformSound
<1>2. QED
  BY <1>1, EveryPart, InstallationSoundHolds, MigrationsSoundHolds, RestoreSoundHolds,
     LogsSoundHolds, PTL
=============================================================================
