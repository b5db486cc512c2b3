-------------------------------- MODULE Quotas --------------------------------
(***************************************************************************)
(* Packages of cards for one agent: the agent buys batches of cards with   *)
(* money and, where the package says so, with quota; the platform grants   *)
(* quota, changes prices and withdraws packages; cards are used one by one *)
(* or voided, alone or with the whole batch, and voiding gives quota back. *)
(* A transaction that locks the agent before it reads is one action; the   *)
(* voiding of a batch reads before it locks anything and is two.           *)
(***************************************************************************)
EXTENDS Integers, Sequences, FiniteSets, SequencesExt

CONSTANTS
    RequestIds,    \* request identifiers the agent chooses
    Sizes,         \* quantities of a batch
    Costs,         \* unit costs of the package
    OpeningMoney,  \* the agent's money at first
    MaxGrants,     \* bound on grants of quota
    MaxLines       \* bound on lines of the quota ledger

ASSUME QuotasAssumption ==
    /\ Sizes \subseteq Nat \ {0} /\ Costs \subseteq Nat
    /\ OpeningMoney \in Nat /\ MaxGrants \in Nat /\ MaxLines \in Nat

VARIABLES
    agent,     \* is the agent enabled
    offer,     \* the package: on sale, granted to the agent, quota needed, unit cost
    batches,   \* batches issued, the one of the order first placed first
    stock,     \* cards of each batch by status
    money,     \* balance of the agent's account
    quota,     \* the quota ledger
    voiding    \* unused cards a running VoidCardBatch has counted, by batch

quotaVars == <<agent, offer, batches, stock, money, quota, voiding>>

Lines == [kind : {"grant", "issue", "revoke"}, change : Int, after : Int]
CardCounts == [unused : Nat, used : Nat, voided : Nat]
Resting == -1

Changes(lines) == [i \in DOMAIN lines |-> lines[i].change]
SumOf(lines) == SumFunction(Changes(lines))
SumOfKind(kind) == SumFunctionOnSet(Changes(quota), {i \in DOMAIN quota : quota[i].kind = kind})

\* AgentQuotaBalance: the balance is the sum of the ledger.
AgentQuotaBalance == SumOf(quota)

WriteLine(kind, change) ==
    /\ Len(quota) < MaxLines
    /\ quota' = Append(quota, [kind |-> kind, change |-> change, after |-> AgentQuotaBalance + change])

-----------------------------------------------------------------------------
(* The platform's side *)

SetAgent(enabled) ==
    /\ agent' = enabled
    /\ UNCHANGED <<offer, batches, stock, money, quota, voiding>>

SetPackage(enabled, cost) ==
    /\ offer' = [offer EXCEPT !.enabled = enabled, !.cost = cost]
    /\ UNCHANGED <<agent, batches, stock, money, quota, voiding>>

GrantPackage(granted) ==
    /\ offer' = [offer EXCEPT !.granted = granted]
    /\ UNCHANGED <<agent, batches, stock, money, quota, voiding>>

Grants == Len(SelectSeq(quota, LAMBDA line : line.kind = "grant"))

GrantAgentQuota(n) ==
    /\ agent
    /\ Grants < MaxGrants
    /\ WriteLine("grant", n)
    /\ UNCHANGED <<agent, offer, batches, stock, money, voiding>>

-----------------------------------------------------------------------------
(* Buying *)

\* Mutant: an order with other contents is taken for a new one.
OrdersOfInput(request, n, cost) ==
    {b \in DOMAIN batches : batches[b] = [request |-> request, size |-> n, cost |-> cost]}

OrdersOf(request, n, cost) == {b \in DOMAIN batches : batches[b].request = request}

\* A request seen before is answered with its batch or refused: no change.
GeneratePackageCards(request, n, cost) ==
    /\ agent
    /\ OrdersOf(request, n, cost) = {}
    /\ offer.enabled /\ offer.granted /\ offer.cost = cost
    /\ money >= n * cost
    /\ IF offer.quota
       THEN AgentQuotaBalance >= n /\ WriteLine("issue", -n)
       ELSE UNCHANGED quota
    /\ batches' = Append(batches, [request |-> request, size |-> n, cost |-> cost])
    /\ stock' = Append(stock, [unused |-> n, used |-> 0, voided |-> 0])
    /\ voiding' = Append(voiding, Resting)
    /\ money' = money - n * cost
    /\ UNCHANGED <<agent, offer>>

-----------------------------------------------------------------------------
(* Cards *)

\* Activate, Renew: a conditional update of the card.
UseCard(b) ==
    /\ stock[b].unused > 0
    /\ stock' = [stock EXCEPT ![b].unused = @ - 1, ![b].used = @ + 1]
    /\ UNCHANGED <<agent, offer, batches, money, quota, voiding>>

RefundAgentQuota(n) == IF n = 0 THEN UNCHANGED quota ELSE WriteLine("revoke", n)

VoidCard(b) ==
    /\ stock[b].unused > 0
    /\ stock' = [stock EXCEPT ![b].unused = @ - 1, ![b].voided = @ + 1]
    /\ RefundAgentQuota(1)
    /\ UNCHANGED <<agent, offer, batches, money, voiding>>

\* UnusedCardQuotaGroups counts without a lock.
CountUnused(b) ==
    /\ voiding[b] = Resting
    /\ voiding' = [voiding EXCEPT ![b] = stock[b].unused]
    /\ UNCHANGED <<agent, offer, batches, stock, money, quota>>

\* Mutant: the batch is voided and its quota forgotten.
RefundNone(counted) == UNCHANGED quota

RefundGroups(counted) == RefundAgentQuota(counted)

VoidUnusedCardsInBatch(b) ==
    /\ voiding[b] # Resting
    /\ stock' = [stock EXCEPT ![b].unused = 0, ![b].voided = @ + stock[b].unused]
    /\ RefundGroups(voiding[b])
    /\ voiding' = [voiding EXCEPT ![b] = Resting]
    /\ UNCHANGED <<agent, offer, batches, money>>

\* A lock or the commit fails, or the server stops: everything is rolled back.
VoidingFails(b) ==
    /\ voiding[b] # Resting
    /\ voiding' = [voiding EXCEPT ![b] = Resting]
    /\ UNCHANGED <<agent, offer, batches, stock, money, quota>>

-----------------------------------------------------------------------------
QuotaInit ==
    /\ agent = TRUE
    /\ offer \in [enabled : {TRUE}, granted : {FALSE}, quota : BOOLEAN, cost : {CHOOSE c \in Costs : TRUE}]
    /\ batches = <<>> /\ stock = <<>> /\ voiding = <<>>
    /\ money = OpeningMoney
    /\ quota = <<>>

QuotaNext ==
    \/ \E on \in BOOLEAN : SetAgent(on) \/ GrantPackage(on) \/ \E c \in Costs : SetPackage(on, c)
    \/ \E n \in Sizes : GrantAgentQuota(n)
    \/ \E r \in RequestIds, n \in Sizes, c \in Costs : GeneratePackageCards(r, n, c)
    \/ \E b \in DOMAIN batches :
        UseCard(b) \/ VoidCard(b) \/ CountUnused(b) \/ VoidUnusedCardsInBatch(b) \/ VoidingFails(b)

QuotaSpec == QuotaInit /\ [][QuotaNext]_quotaVars

-----------------------------------------------------------------------------
\* Every line of the ledger shows the sum of the lines up to it, and the quota
\* is never overdrawn (GrantAgentQuota, generatePackageCards, RefundAgentQuota
\* read the sum after the agent's lock).
LedgerAddsUp ==
    \A i \in DOMAIN quota : quota[i].after = SumOf(SubSeq(quota, 1, i)) /\ quota[i].after >= 0

CostOf == [b \in DOMAIN batches |-> batches[b].size * batches[b].cost]

\* A request is served once, whatever is sent with it again, and the account
\* has paid for exactly the batches issued.
IssuedOnce ==
    /\ \A b, c \in DOMAIN batches : batches[b].request = batches[c].request => b = c
    /\ money = OpeningMoney - SumFunction(CostOf)
    /\ money >= 0

VoidedOf == [b \in DOMAIN stock |-> stock[b].voided]
Voided == SumFunction(VoidedOf)

\* No card is voided without its quota coming back, in whatever order cards
\* and batches are voided and used, and although a voiding may fail half way.
NoQuotaLost == SumOfKind("revoke") >= Voided

\* The three together: what must hold of packages and quota after any number
\* of retries, grants, price changes and concurrent voidings.
QuotaSound == LedgerAddsUp /\ IssuedOnce /\ NoQuotaLost
=============================================================================
