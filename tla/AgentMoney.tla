----------------------------- MODULE AgentMoney -----------------------------
(***************************************************************************)
(* The prepaid balance of the agents under concurrent transactions: sales  *)
(* and refunds of several applications, adjustments and tier changes by    *)
(* the platform's administrators.                                          *)
(*                                                                         *)
(* A sale or a refund first locks the row of its application, then, in     *)
(* AgentAccount, the row of the agent; an adjustment or a tier change      *)
(* locks the agent only.  A transaction's reads see what is committed at   *)
(* that moment (READ COMMITTED); its writes become visible when it         *)
(* commits and releases its locks.  A transaction may end without writing  *)
(* at any point: refused, replayed, timed out, or cut off by a crash.      *)
(***************************************************************************)
EXTENDS Integers, FiniteSets, FiniteSetsExt

CONSTANTS
    Agents, Apps,
    Workers,     \* database connections that serve requests
    Sales,       \* AgentSale requests: app, agent, RequestID, expected cost
    Adjusts,     \* AdjustAgentBalance requests: agent, RequestID, amount
    OrderIds,    \* bound on the orders of a behaviour
    Prices,      \* costs an application's plan may have for an agent
    MaxMoney,    \* the cap of a balance
    Opening,     \* InitialBalance of the accounts
    None

ASSUME AgentMoneyAssumption ==
    /\ \A r \in Sales : r.app \in Apps /\ r.agent \in Agents /\ r.cost \in Nat
    /\ \A j \in Adjusts : j.agent \in Agents /\ j.amount \in Int
    /\ MaxMoney \in Nat
    /\ Opening \in [Agents -> 0..MaxMoney]
    /\ None \notin Workers /\ None \notin Nat

VARIABLES
    balance,     \* agent_accounts.balance
    orders,      \* the agents' orders, of all applications
    adjusted,    \* the adjustments made (agent_money_ledgers)
    events,      \* the statements: MoneyEvents and agent_money_ledgers
    price,       \* quoteAgent: the cost of an application's plan to an agent,
                 \* None when application, plan or grant is disabled
    active,      \* the agents whose status is "active"
    appLock,     \* holder of the lock on an application's row
    agentLock,   \* holder of the lock on an agent's row
    pc,          \* "idle", "begun", or "ready": the balance has been read
    job,         \* what a worker is doing
    seen,        \* the balance it has read
    quote        \* the unit cost it has computed; None where there is no quote

accounts == <<balance, orders, adjusted, events>>
terms == <<price, active>>
locks == <<appLock, agentLock>>
workers == <<pc, job, seen, quote>>
vars == <<accounts, terms, locks, workers>>

NoOrder == [status |-> "none"]
Order == [status : {"confirmed", "refunded"}, sale : Sales]

NoJob == [kind |-> "none"]
Jobs == [kind : {"sale"}, sale : Sales]
          \cup [kind : {"refund"}, order : OrderIds, sale : Sales]
          \cup [kind : {"adjust"}, adjust : Adjusts]
          \cup [kind : {"tier"}, agent : Agents]

Events == [order : OrderIds, amount : Int, after : Int]
            \cup [adjust : Adjusts, after : Int]

AgentOf(k) == IF k.kind \in {"sale", "refund"} THEN k.sale.agent
              ELSE IF k.kind = "adjust" THEN k.adjust.agent ELSE k.agent

-----------------------------------------------------------------------------
(* Transactions *)

Begin(w, k) ==
    /\ pc[w] = "idle"
    /\ pc' = [pc EXCEPT ![w] = "begun"]
    /\ job' = [job EXCEPT ![w] = k]
    /\ UNCHANGED <<accounts, terms, seen, quote>>

\* LockApplication, the first statement of a transaction of an application.
LockApplication(w, a) ==
    /\ appLock[a] = None
    /\ appLock' = [appLock EXCEPT ![a] = w]
    /\ UNCHANGED agentLock

LockAgent(w, g) ==
    /\ agentLock[g] = None
    /\ agentLock' = [agentLock EXCEPT ![g] = w]
    /\ UNCHANGED appLock

\* quoteAgent.  It has read application, plan and grant under the lock of the
\* application, account and tier under that of the agent.
QuoteOf(k) ==
    IF k.kind = "sale" /\ k.sale.agent \in active
    THEN price[k.sale.app][k.sale.agent] ELSE None

\* The read of the account.
ReadBalance(w) ==
    /\ pc' = [pc EXCEPT ![w] = "ready"]
    /\ seen' = [seen EXCEPT ![w] = balance[AgentOf(job[w])]]
    /\ quote' = [quote EXCEPT ![w] = QuoteOf(job[w])]
    /\ UNCHANGED <<accounts, terms, job>>

\* AgentAccount inside a transaction of an application.
AgentAccount(w) ==
    /\ LockAgent(w, AgentOf(job[w]))
    /\ ReadBalance(w)

Release(w) ==
    /\ pc' = [pc EXCEPT ![w] = "idle"]
    /\ job' = [job EXCEPT ![w] = NoJob]
    /\ seen' = [seen EXCEPT ![w] = 0]
    /\ quote' = [quote EXCEPT ![w] = None]
    /\ appLock' = [a \in Apps |-> IF appLock[a] = w THEN None ELSE appLock[a]]
    /\ agentLock' =
         [g \in Agents |-> IF agentLock[g] = w THEN None ELSE agentLock[g]]

\* UPDATE agent_accounts SET balance=balance+amount: relative to the row.
Move(g, amount) ==
    /\ balance[g] + amount \in 0..MaxMoney
    /\ balance' = [balance EXCEPT ![g] = @ + amount]

-----------------------------------------------------------------------------
(* AgentSale *)

\* Mutant: the fingerprint is part of what is looked up.
ReplayedSame(r) ==
    \E o \in OrderIds : orders[o] # NoOrder /\ orders[o].sale = r

\* The RequestID has been used, for this request or, a conflict, for another.
Replayed(r) ==
    \E o \in OrderIds :
      /\ orders[o] # NoOrder
      /\ orders[o].sale.app = r.app
      /\ orders[o].sale.agent = r.agent
      /\ orders[o].sale.id = r.id

SaleBegin(w, r) ==
    /\ Begin(w, [kind |-> "sale", sale |-> r])
    /\ LockApplication(w, r.app)

\* Mutant: the account is read before it is locked.
SaleAccountUnlocked(w) ==
    /\ pc[w] = "begun" /\ job[w].kind = "sale"
    /\ ~Replayed(job[w].sale)
    /\ ReadBalance(w)
    /\ UNCHANGED locks

SaleAccount(w) ==
    /\ pc[w] = "begun" /\ job[w].kind = "sale"
    /\ ~Replayed(job[w].sale)
    /\ AgentAccount(w)

\* The quote is the price the agent has confirmed, and he can pay it.
Payable(w, r) == quote[w] = r.cost /\ r.cost <= seen[w]

SaleCommit(w, o) ==
    LET r == job[w].sale
    IN  /\ pc[w] = "ready" /\ job[w].kind = "sale"
        /\ Payable(w, r)
        /\ orders[o] = NoOrder
        /\ Move(r.agent, -r.cost)
        /\ orders' = [orders EXCEPT ![o] = [status |-> "confirmed",
                                            sale |-> r]]
        /\ events' = events \cup {[order |-> o, amount |-> -r.cost,
                                   after |-> seen[w] - r.cost]}
        /\ Release(w)
        /\ UNCHANGED <<adjusted, terms>>

-----------------------------------------------------------------------------
(* RefundSale of an agent's order *)

RefundBegin(w, o) ==
    /\ orders[o] # NoOrder
    /\ Begin(w, [kind |-> "refund", order |-> o, sale |-> orders[o].sale])
    /\ LockApplication(w, orders[o].sale.app)

\* Mutant: an order that is refunded can be refunded.
RefundAccountAgain(w) ==
    /\ pc[w] = "begun" /\ job[w].kind = "refund"
    /\ AgentAccount(w)

RefundAccount(w) ==
    /\ pc[w] = "begun" /\ job[w].kind = "refund"
    /\ orders[job[w].order].status = "confirmed"
    /\ AgentAccount(w)

\* Mutant: CreditAgent forgets the cap.
RefundUncapped(w) ==
    LET r == job[w].sale
        o == job[w].order
    IN  /\ pc[w] = "ready" /\ job[w].kind = "refund"
        /\ balance' = [balance EXCEPT ![r.agent] = @ + r.cost]
        /\ orders' = [orders EXCEPT ![o].status = "refunded"]
        /\ events' = events \cup {[order |-> o, amount |-> r.cost,
                                   after |-> seen[w] + r.cost]}
        /\ Release(w)
        /\ UNCHANGED <<adjusted, terms>>

\* CreditAgent refuses what would exceed the cap; the agent may be disabled.
RefundCommit(w) ==
    LET r == job[w].sale
        o == job[w].order
    IN  /\ pc[w] = "ready" /\ job[w].kind = "refund"
        /\ seen[w] + r.cost <= MaxMoney
        /\ Move(r.agent, r.cost)
        /\ orders' = [orders EXCEPT ![o].status = "refunded"]
        /\ events' = events \cup {[order |-> o, amount |-> r.cost,
                                   after |-> seen[w] + r.cost]}
        /\ Release(w)
        /\ UNCHANGED <<adjusted, terms>>

-----------------------------------------------------------------------------
(* AdjustAgentBalance and SetAgentTier: the account is read and written back *)

\* Mutant: the agent is not locked.
AdjustUnlocked(w, j) ==
    /\ Begin(w, [kind |-> "adjust", adjust |-> j])
    /\ UNCHANGED locks

AdjustBegin(w, j) ==
    /\ Begin(w, [kind |-> "adjust", adjust |-> j])
    /\ LockAgent(w, j.agent)

TierBegin(w, g) ==
    /\ Begin(w, [kind |-> "tier", agent |-> g])
    /\ LockAgent(w, g)

AdjustedBefore(j) ==
    \E k \in adjusted : k.agent = j.agent /\ k.id = j.id

ReadAccount(w) ==
    /\ pc[w] = "begun" /\ job[w].kind \in {"adjust", "tier"}
    /\ job[w].kind = "adjust" => ~AdjustedBefore(job[w].adjust)
    /\ ReadBalance(w)
    /\ UNCHANGED locks

AdjustCommit(w) ==
    LET j == job[w].adjust
        new == seen[w] + j.amount
    IN  /\ pc[w] = "ready" /\ job[w].kind = "adjust"
        /\ new \in 0..MaxMoney
        /\ balance' = [balance EXCEPT ![j.agent] = new]
        /\ adjusted' = adjusted \cup {j}
        /\ events' = events \cup {[adjust |-> j, after |-> new]}
        /\ Release(w)
        /\ UNCHANGED <<orders, terms>>

\* The costs of every application's plan to an agent change.
Reprice(g) ==
    \E cost \in [Apps -> Prices \cup {None}] :
      price' = [a \in Apps |-> [price[a] EXCEPT ![g] = cost[a]]]

\* The whole account row is written, the balance with it; the new tier may
\* change what any application's plan costs the agent.
TierCommit(w) ==
    /\ pc[w] = "ready" /\ job[w].kind = "tier"
    /\ balance' = [balance EXCEPT ![job[w].agent] = seen[w]]
    /\ Reprice(job[w].agent)
    /\ Release(w)
    /\ UNCHANGED <<orders, adjusted, events, active>>

-----------------------------------------------------------------------------
(* Administration, and the end of a transaction that writes nothing *)

\* Mutant: the application is not locked.
SetPriceUnlocked(a, g, c) ==
    /\ price' = [price EXCEPT ![a][g] = c]
    /\ UNCHANGED <<accounts, active, locks, workers>>

\* SaveAgentGrant, SavePlan or SaveApplication, under the application's lock.
SetPrice(a, g, c) ==
    /\ appLock[a] = None
    /\ price' = [price EXCEPT ![a][g] = c]
    /\ UNCHANGED <<accounts, active, locks, workers>>

\* AgentAccount has locked the row of the agent's tier as well.
TierLocked(g) ==
    \E w \in Workers :
      /\ pc[w] = "ready" /\ job[w].kind \in {"sale", "refund"}
      /\ AgentOf(job[w]) = g

SaveAgentTier(g) ==
    /\ ~TierLocked(g)
    /\ Reprice(g)
    /\ UNCHANGED <<accounts, active, locks, workers>>

SetAgentStatus(g) ==
    /\ agentLock[g] = None
    /\ active' = IF g \in active THEN active \ {g} ELSE active \cup {g}
    /\ UNCHANGED <<accounts, price, locks, workers>>

\* Mutant: the error returns of the commit leave the transaction open.
RefusedAtOnce(w) ==
    /\ pc[w] = "begun"
    /\ \/ job[w].kind = "sale" /\ Replayed(job[w].sale)
       \/ job[w].kind = "refund" /\ orders[job[w].order].status = "refunded"
       \/ job[w].kind = "adjust" /\ AdjustedBefore(job[w].adjust)

\* What a transaction finds that makes it end without writing.
Refused(w) ==
    \/ /\ pc[w] = "begun" /\ job[w].kind = "sale"
       /\ Replayed(job[w].sale)
    \/ /\ pc[w] = "begun" /\ job[w].kind = "refund"
       /\ orders[job[w].order].status = "refunded"
    \/ /\ pc[w] = "begun" /\ job[w].kind = "adjust"
       /\ AdjustedBefore(job[w].adjust)
    \/ /\ pc[w] = "ready" /\ job[w].kind = "sale"
       /\ ~Payable(w, job[w].sale) \/ \A o \in OrderIds : orders[o] # NoOrder
    \/ /\ pc[w] = "ready" /\ job[w].kind = "refund"
       /\ seen[w] + job[w].sale.cost > MaxMoney
    \/ /\ pc[w] = "ready" /\ job[w].kind = "adjust"
       /\ seen[w] + job[w].adjust.amount \notin 0..MaxMoney

Rollback(w) ==
    /\ Release(w)
    /\ UNCHANGED <<accounts, terms>>

Refuse(w) == Refused(w) /\ Rollback(w)

\* The server, the connection or the client's context ends; the database
\* rolls back.
Crash(w) == pc[w] # "idle" /\ Rollback(w)

-----------------------------------------------------------------------------

Init ==
    /\ balance = Opening
    /\ orders = [o \in OrderIds |-> NoOrder]
    /\ adjusted = {} /\ events = {}
    /\ price \in [Apps -> [Agents -> Prices]]
    /\ active = Agents
    /\ appLock = [a \in Apps |-> None]
    /\ agentLock = [g \in Agents |-> None]
    /\ pc = [w \in Workers |-> "idle"]
    /\ job = [w \in Workers |-> NoJob]
    /\ seen = [w \in Workers |-> 0]
    /\ quote = [w \in Workers |-> None]

Start(w) ==
    \/ \E r \in Sales : SaleBegin(w, r)
    \/ \E o \in OrderIds : RefundBegin(w, o)
    \/ \E j \in Adjusts : AdjustBegin(w, j)
    \/ \E g \in Agents : TierBegin(w, g)

Proceed(w) ==
    \/ SaleAccount(w)
    \/ \E o \in OrderIds : SaleCommit(w, o)
    \/ RefundAccount(w)
    \/ RefundCommit(w)
    \/ ReadAccount(w)
    \/ AdjustCommit(w)
    \/ TierCommit(w)
    \/ Refuse(w)

Administer ==
    \E g \in Agents :
      \/ \E a \in Apps, c \in Prices \cup {None} : SetPrice(a, g, c)
      \/ SaveAgentTier(g)
      \/ SetAgentStatus(g)

Next ==
    \/ \E w \in Workers : Start(w) \/ Proceed(w) \/ Crash(w)
    \/ Administer

Spec == Init /\ [][Next]_vars

\* A row lock goes to its waiters in the order of their requests, so a
\* transaction that can take it again and again does take it.
FairSpec == Spec /\ \A w \in Workers : SF_vars(Proceed(w))

-----------------------------------------------------------------------------
(* Properties *)

Busy == {w \in Workers : pc[w] # "idle"}
AppOf(k) == IF k.kind \in {"sale", "refund"} THEN {k.sale.app} ELSE {}
LocksAgent(w) == pc[w] = "ready" \/ job[w].kind \in {"adjust", "tier"}

\* Every column has its type, and the row locks are those of the running
\* transactions: none is left behind by one that has ended.
TypeOK ==
    /\ balance \in [Agents -> Int]
    /\ orders \in [OrderIds -> Order \cup {NoOrder}]
    /\ adjusted \subseteq Adjusts
    /\ events \subseteq Events
    /\ price \in [Apps -> [Agents -> Prices \cup {None}]]
    /\ active \subseteq Agents
    /\ pc \in [Workers -> {"idle", "begun", "ready"}]
    /\ job \in [Workers -> Jobs \cup {NoJob}]
    /\ \A w \in Workers : pc[w] = "idle" <=> job[w] = NoJob
    /\ seen \in [Workers -> Int]
    /\ quote \in [Workers -> Prices \cup {None}]
    /\ appLock \in [Apps -> Busy \cup {None}]
    /\ agentLock \in [Agents -> Busy \cup {None}]
    /\ \A a \in Apps : appLock[a] # None => a \in AppOf(job[appLock[a]])
    /\ \A g \in Agents :
         agentLock[g] # None =>
           LocksAgent(agentLock[g]) /\ g = AgentOf(job[agentLock[g]])

\* No balance becomes negative or exceeds the cap, however sales of several
\* applications, refunds and adjustments meet (DebitAgent, CreditAgent,
\* AdjustAgentBalance).
BalanceInRange == \A g \in Agents : balance[g] \in 0..MaxMoney

PaidIn(g) == {j \in adjusted : j.agent = g}
Bought(g) ==
    {o \in OrderIds : orders[o].status = "confirmed" /\ orders[o].sale.agent = g}

\* No update of an account is lost: every balance is what was paid in, less
\* the orders that are not refunded, although adjustments and tier changes
\* write back the balance they have read.
Conservation ==
    \A g \in Agents :
      balance[g] = Opening[g] + SumFunction([j \in PaidIn(g) |-> j.amount])
                              - SumFunction([o \in Bought(g) |-> orders[o].sale.cost])

\* A RequestID buys once in an application, whatever crashes and retries, and
\* two requests that share it do not both succeed.
OncePerRequest ==
    \A o, p \in OrderIds :
      /\ o # p
      /\ orders[o] # NoOrder /\ orders[p] # NoOrder
      => \/ orders[o].sale.app # orders[p].sale.app
         \/ orders[o].sale.agent # orders[p].sale.agent
         \/ orders[o].sale.id # orders[p].sale.id

EventOf(e) ==
    IF "order" \in DOMAIN e THEN orders'[e.order].sale.agent
    ELSE e.adjust.agent

Stated == \A e \in events' \ events : e.after = balance'[EventOf(e)]

\* A line of the statement shows the balance the account really has when the
\* line is written, not the one an earlier read has seen (BalanceAfter).
StatementExact == [][Stated]_vars

SoldFairly ==
    \A o \in OrderIds :
      orders[o] = NoOrder /\ orders'[o] # NoOrder =>
        LET r == orders'[o].sale
        IN  price[r.app][r.agent] = r.cost /\ r.agent \in active

\* A sale is charged at the price in force and to an agent that is active at
\* the moment it commits, although the quote is computed before that, prices,
\* tiers and the agent's status change all the time, and the request waits for
\* two locks (quoteAgent, PRICE_CHANGED).
SoldAtPrice == [][SoldFairly]_vars

Ledger == INSTANCE AgentLedger

\* The concurrent transactions have the effect of whole operations that happen
\* one after the other.
Serializable == Ledger!Spec

\* The locks are taken in an order that never lets two transactions wait for
\* each other: each that has begun ends, also when none is cut off.
TransactionsEnd == \A w \in Workers : pc[w] # "idle" ~> pc[w] = "idle"
=============================================================================
