CONSTANTS
    g1 = g1  a1 = a1  a2 = a2  w1 = w1  w2 = w2  o1 = o1  o2 = o2
    Agents = {g1}
    Apps = {a1, a2}
    Workers = {w1, w2}
    Sales <- MCSales
    Adjusts <- MCAdjusts
    OrderIds = {o1, o2}
    Prices = {1, 2}
    MaxMoney = 3
    Opening <- MCOpening
    None = None
SPECIFICATION FairSpec
INVARIANTS
    BalanceInRange
    Conservation
    OncePerRequest
PROPERTIES
    StatementExact
    SoldAtPrice
    Serializable
    TransactionsEnd
