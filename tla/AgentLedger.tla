----------------------------- MODULE AgentLedger -----------------------------
(***************************************************************************)
(* What the money of the agents promises: each account changes by whole    *)
(* operations, one at a time, and a repeated request has no second effect. *)
(* AgentMoney implements it with transactions that run concurrently.       *)
(***************************************************************************)
EXTENDS Integers

CONSTANTS
    Agents,
    Sales,       \* AgentSale requests: application, agent, RequestID, cost
    Adjusts,     \* AdjustAgentBalance requests: agent, RequestID, amount
    OrderIds,
    MaxMoney,    \* the largest balance
    Opening      \* InitialBalance of the accounts

VARIABLES
    balance,     \* agent_accounts.balance
    orders,      \* the agents' orders: what was asked for, and their status
    adjusted     \* the adjustments made

ledger == <<balance, orders, adjusted>>

NoOrder == [status |-> "none"]
Order == [status : {"confirmed", "refunded"}, sale : Sales]

\* A RequestID is unique for an agent in an application.
SameKey(r, s) == r.app = s.app /\ r.agent = s.agent /\ r.id = s.id

Sold == {o \in OrderIds : orders[o] # NoOrder}
SoldFor(r) == {o \in Sold : SameKey(orders[o].sale, r)}
AdjustedFor(j) == {k \in adjusted : k.agent = j.agent /\ k.id = j.id}

Sell(r, o) ==
    /\ SoldFor(r) = {}
    /\ orders[o] = NoOrder
    /\ r.cost <= balance[r.agent]
    /\ balance' = [balance EXCEPT ![r.agent] = @ - r.cost]
    /\ orders' = [orders EXCEPT ![o] = [status |-> "confirmed", sale |-> r]]
    /\ UNCHANGED adjusted

Refund(o) ==
    LET r == orders[o].sale
    IN  /\ orders[o].status = "confirmed"
        /\ balance[r.agent] + r.cost <= MaxMoney
        /\ balance' = [balance EXCEPT ![r.agent] = @ + r.cost]
        /\ orders' = [orders EXCEPT ![o].status = "refunded"]
        /\ UNCHANGED adjusted

Adjust(j) ==
    /\ AdjustedFor(j) = {}
    /\ balance[j.agent] + j.amount \in 0..MaxMoney
    /\ balance' = [balance EXCEPT ![j.agent] = @ + j.amount]
    /\ adjusted' = adjusted \cup {j}
    /\ UNCHANGED orders

Init ==
    /\ balance = Opening
    /\ orders = [o \in OrderIds |-> NoOrder]
    /\ adjusted = {}

Next ==
    \/ \E r \in Sales, o \in OrderIds : Sell(r, o)
    \/ \E o \in OrderIds : Refund(o)
    \/ \E j \in Adjusts : Adjust(j)

Spec == Init /\ [][Next]_ledger
=============================================================================
