-------------------------- MODULE AgentMoneyProofs --------------------------
(***************************************************************************)
(* Proofs about the agents' money, for any number of agents, applications, *)
(* connections and requests.                                               *)
(***************************************************************************)
EXTENDS AgentMoney, Sums, TLAPS

USE AgentMoneyAssumption DEF Jobs, NoJob, NoOrder, Order

LEMMA JobFields ==
    ASSUME NEW k \in Jobs \cup {NoJob}
    PROVE  /\ k.kind \in {"none", "sale", "refund", "adjust", "tier"}
           /\ k.kind = "none" <=> k = NoJob
           /\ k.kind = "sale" => k.sale \in Sales
           /\ k.kind = "refund" => k.sale \in Sales /\ k.order \in OrderIds
           /\ k.kind = "adjust" => k.adjust \in Adjusts
           /\ k.kind = "tier" => k.agent \in Agents
  OBVIOUS

LEMMA JobAgent ==
    ASSUME NEW k \in Jobs
    PROVE  AgentOf(k) \in Agents
  BY JobFields DEF AgentOf

-----------------------------------------------------------------------------
(* The inductive invariant *)

DataTypes ==
    /\ balance \in [Agents -> Int]
    /\ orders \in [OrderIds -> Order \cup {NoOrder}]
    /\ adjusted \subseteq Adjusts
    /\ events \subseteq Events
    /\ price \in [Apps -> [Agents -> Prices \cup {None}]]
    /\ active \subseteq Agents

WorkTypes ==
    /\ pc \in [Workers -> {"idle", "begun", "ready"}]
    /\ job \in [Workers -> Jobs \cup {NoJob}]
    /\ \A w \in Workers : pc[w] = "idle" <=> job[w] = NoJob
    /\ seen \in [Workers -> Int]
    /\ quote \in [Workers -> Prices \cup {None}]
    /\ appLock \in [Apps -> Busy \cup {None}]
    /\ agentLock \in [Agents -> Busy \cup {None}]
    /\ \A a \in Apps : appLock[a] # None => a \in AppOf(job[appLock[a]])
    /\ \A g \in Agents :
         agentLock[g] # None =>
           LocksAgent(agentLock[g]) /\ g = AgentOf(job[agentLock[g]])

LEMMA TypeParts == TypeOK <=> DataTypes /\ WorkTypes
  BY DEF TypeOK, DataTypes, WorkTypes

OfApp(w) == job[w].kind \in {"sale", "refund"}

\* A transaction holds the lock of its application, and from the read of the
\* account on, or from its beginning, that of its agent.
Held ==
    \A w \in Workers :
      /\ OfApp(w) => appLock[job[w].sale.app] = w
      /\ LocksAgent(w) => agentLock[AgentOf(job[w])] = w

\* What a transaction has read is still so.
KnownOf(w) ==
    /\ pc[w] = "ready" => seen[w] = balance[AgentOf(job[w])]
    /\ pc[w] = "ready" /\ job[w].kind = "sale" => ~Replayed(job[w].sale)
    /\ job[w].kind = "refund" =>
         /\ orders[job[w].order] # NoOrder
         /\ orders[job[w].order].sale = job[w].sale
    /\ pc[w] = "ready" /\ job[w].kind = "refund" =>
         orders[job[w].order].status = "confirmed"
    /\ pc[w] = "ready" /\ job[w].kind = "adjust" =>
         ~AdjustedBefore(job[w].adjust)

Known == \A w \in Workers : KnownOf(w)

IInv == TypeOK /\ Held /\ Known /\ BalanceInRange /\ OncePerRequest

\* Two transactions never lock the same row.
LEMMA Exclusive ==
    ASSUME Held, NEW v \in Workers, NEW w \in Workers, v # w
    PROVE  /\ OfApp(v) /\ OfApp(w) => job[v].sale.app # job[w].sale.app
           /\ LocksAgent(v) /\ LocksAgent(w) =>
                AgentOf(job[v]) # AgentOf(job[w])
  BY DEF Held

-----------------------------------------------------------------------------
(* Locks and workers *)

LEMMA BeginOfApplication ==
    ASSUME WorkTypes, Held, NEW w \in Workers,
           NEW k \in Jobs, k.kind \in {"sale", "refund"},
           Begin(w, k), LockApplication(w, k.sale.app)
    PROVE  WorkTypes' /\ Held'
  <1> USE DEF Begin, LockApplication, WorkTypes, Held
  <1>1. /\ k.sale \in Sales /\ k.sale.app \in Apps
        /\ k # NoJob
    BY JobFields
  <1>2. /\ pc' \in [Workers -> {"idle", "begun", "ready"}]
        /\ job' \in [Workers -> Jobs \cup {NoJob}]
        /\ \A v \in Workers : pc'[v] = "idle" <=> job'[v] = NoJob
        /\ seen' \in [Workers -> Int]
        /\ quote' \in [Workers -> Prices \cup {None}]
    BY <1>1
  <1>3. \A v \in Workers : v # w => pc'[v] = pc[v] /\ job'[v] = job[v]
    OBVIOUS
  <1>4. pc'[w] = "begun" /\ job'[w] = k
    OBVIOUS
  <1>5. Busy \subseteq Busy' /\ w \in Busy' /\ w \notin Busy
    BY <1>3, <1>4 DEF Busy
  <1>6. /\ appLock' \in [Apps -> Busy' \cup {None}]
        /\ agentLock' \in [Agents -> Busy' \cup {None}]
    BY <1>1, <1>5
  <1>7. \A a \in Apps : appLock'[a] # None => a \in AppOf(job'[appLock'[a]])
    <2> SUFFICES ASSUME NEW a \in Apps, appLock'[a] # None
                 PROVE  a \in AppOf(job'[appLock'[a]])
      OBVIOUS
    <2>1. CASE a = k.sale.app
      BY <2>1, <1>1, <1>4 DEF AppOf
    <2>2. CASE a # k.sale.app
      BY <2>2, <1>3, <1>5 DEF Busy
    <2> QED
      BY <2>1, <2>2
  <1>8. (\A g \in Agents :
           agentLock[g] # None =>
             LocksAgent(agentLock[g]) /\ g = AgentOf(job[agentLock[g]]))'
    BY <1>3, <1>5 DEF LocksAgent, Busy
  <1>9. Held'
    <2> SUFFICES ASSUME NEW v \in Workers
                 PROVE  /\ OfApp(v)' => appLock'[job'[v].sale.app] = v
                        /\ LocksAgent(v)' => agentLock'[AgentOf(job'[v])] = v
      BY DEF Held
    <2>1. CASE v = w
      BY <2>1, <1>1, <1>4 DEF LocksAgent, OfApp
    <2>2. CASE v # w
      BY <2>2, <1>1, <1>3 DEF LocksAgent, OfApp
    <2> QED
      BY <2>1, <2>2
  <1> QED
    BY <1>2, <1>6, <1>7, <1>8, <1>9 DEF WorkTypes

LEMMA BeginOfAgent ==
    ASSUME WorkTypes, Held, NEW w \in Workers,
           NEW k \in Jobs, k.kind \in {"adjust", "tier"},
           Begin(w, k), LockAgent(w, AgentOf(k))
    PROVE  WorkTypes' /\ Held'
  <1> USE DEF Begin, LockAgent, WorkTypes, Held
  <1>1. AgentOf(k) \in Agents /\ k # NoJob
    BY JobFields, JobAgent
  <1>2. /\ pc' \in [Workers -> {"idle", "begun", "ready"}]
        /\ job' \in [Workers -> Jobs \cup {NoJob}]
        /\ \A v \in Workers : pc'[v] = "idle" <=> job'[v] = NoJob
        /\ seen' \in [Workers -> Int]
        /\ quote' \in [Workers -> Prices \cup {None}]
    BY <1>1
  <1>3. \A v \in Workers : v # w => pc'[v] = pc[v] /\ job'[v] = job[v]
    OBVIOUS
  <1>4. pc'[w] = "begun" /\ job'[w] = k
    OBVIOUS
  <1>5. Busy \subseteq Busy' /\ w \in Busy' /\ w \notin Busy
    BY <1>3, <1>4 DEF Busy
  <1>6. /\ appLock' \in [Apps -> Busy' \cup {None}]
        /\ agentLock' \in [Agents -> Busy' \cup {None}]
    BY <1>1, <1>5
  <1>7. \A a \in Apps : appLock'[a] # None => a \in AppOf(job'[appLock'[a]])
    BY <1>3, <1>5 DEF Busy
  <1>8. (\A g \in Agents :
           agentLock[g] # None =>
             LocksAgent(agentLock[g]) /\ g = AgentOf(job[agentLock[g]]))'
    <2> SUFFICES ASSUME NEW g \in Agents, agentLock'[g] # None
                 PROVE  (LocksAgent(agentLock[g])
                           /\ g = AgentOf(job[agentLock[g]]))'
      OBVIOUS
    <2>1. CASE g = AgentOf(k)
      BY <2>1, <1>1, <1>4 DEF LocksAgent
    <2>2. CASE g # AgentOf(k)
      BY <2>2, <1>3, <1>5 DEF LocksAgent, Busy
    <2> QED
      BY <2>1, <2>2
  <1>9. Held'
    <2> SUFFICES ASSUME NEW v \in Workers
                 PROVE  /\ OfApp(v)' => appLock'[job'[v].sale.app] = v
                        /\ LocksAgent(v)' => agentLock'[AgentOf(job'[v])] = v
      BY DEF Held
    <2>1. CASE v = w
      BY <2>1, <1>1, <1>4 DEF LocksAgent, OfApp
    <2>2. CASE v # w
      <3>1. LocksAgent(v)' => LocksAgent(v)
        BY <2>2, <1>3 DEF LocksAgent
      <3>2. LocksAgent(v) => agentLock[AgentOf(job[v])] = v /\ v # None
        OBVIOUS
      <3> QED
        BY <2>2, <1>1, <1>3, <3>1, <3>2 DEF OfApp
    <2> QED
      BY <2>1, <2>2
  <1> QED
    BY <1>2, <1>6, <1>7, <1>8, <1>9 DEF WorkTypes

\* The read of an account whose row the transaction locks now or already.
LEMMA ReadKeepsLocks ==
    ASSUME WorkTypes, DataTypes, Held, NEW w \in Workers,
           pc[w] = "begun", ReadBalance(w),
           \/ OfApp(w) /\ LockAgent(w, AgentOf(job[w]))
           \/ job[w].kind \in {"adjust", "tier"} /\ UNCHANGED locks
    PROVE  WorkTypes' /\ Held'
  <1> USE DEF ReadBalance, LockAgent, locks, WorkTypes, Held
  <1>0. job[w] \in Jobs /\ AgentOf(job[w]) \in Agents
    BY JobFields, JobAgent
  <1>1. /\ job[w] \in Jobs /\ AgentOf(job[w]) \in Agents
        /\ seen'[w] \in Int /\ quote'[w] \in Prices \cup {None}
    <2>1. job[w].kind = "sale" =>
            job[w].sale.app \in Apps /\ job[w].sale.agent \in Agents
      BY <1>0, JobFields
    <2>2. balance[AgentOf(job[w])] \in Int /\ QuoteOf(job[w]) \in Prices \cup {None}
      BY <1>0, <2>1 DEF DataTypes, QuoteOf
    <2> QED
      BY <1>0, <2>2
  <1>2. /\ pc' \in [Workers -> {"idle", "begun", "ready"}]
        /\ job' = job
        /\ \A v \in Workers : pc'[v] = "idle" <=> job'[v] = NoJob
        /\ seen' \in [Workers -> Int]
        /\ quote' \in [Workers -> Prices \cup {None}]
    BY <1>1
  <1>3. \A v \in Workers : v # w => pc'[v] = pc[v]
    OBVIOUS
  <1>4. pc'[w] = "ready"
    OBVIOUS
  <1>5. Busy' = Busy /\ w \in Busy
    BY <1>3, <1>4 DEF Busy
  <1>6. appLock' = appLock /\ agentLock' \in [Agents -> Busy' \cup {None}]
    BY <1>1, <1>5
  <1>7. (\A g \in Agents :
           agentLock[g] # None =>
             LocksAgent(agentLock[g]) /\ g = AgentOf(job[agentLock[g]]))'
    <2> SUFFICES ASSUME NEW g \in Agents, agentLock'[g] # None
                 PROVE  (LocksAgent(agentLock[g])
                           /\ g = AgentOf(job[agentLock[g]]))'
      OBVIOUS
    <2>1. CASE agentLock'[g] = agentLock[g]
      BY <2>1, <1>2, <1>3, <1>4, <1>5 DEF LocksAgent, Busy
    <2>2. CASE agentLock'[g] # agentLock[g]
      BY <2>2, <1>1, <1>2, <1>4 DEF LocksAgent
    <2> QED
      BY <2>1, <2>2
  <1>8. Held'
    <2> SUFFICES ASSUME NEW v \in Workers
                 PROVE  /\ OfApp(v)' => appLock'[job'[v].sale.app] = v
                        /\ LocksAgent(v)' => agentLock'[AgentOf(job'[v])] = v
      BY DEF Held
    <2>1. OfApp(v)' => appLock'[job'[v].sale.app] = v
      BY <1>2, <1>6 DEF OfApp
    <2>2. LocksAgent(v)' => agentLock'[AgentOf(job'[v])] = v
      <3>1. CASE v = w
        BY <3>1, <1>1, <1>2 DEF LocksAgent
      <3>2. CASE v # w
        <4>1. LocksAgent(v)' => LocksAgent(v)
          BY <3>2, <1>2, <1>3 DEF LocksAgent
        <4>2. LocksAgent(v) => agentLock[AgentOf(job[v])] = v /\ v # None
          OBVIOUS
        <4>3. \A g \in Agents : agentLock[g] = v => agentLock'[g] = v
          BY <1>1, <3>2
        <4>4. LocksAgent(v) => AgentOf(job[v]) \in Agents
          BY JobAgent DEF LocksAgent
        <4> QED
          BY <1>2, <4>1, <4>2, <4>3, <4>4
      <3> QED
        BY <3>1, <3>2
    <2> QED
      BY <2>1, <2>2
  <1> QED
    BY <1>2, <1>5, <1>6, <1>7, <1>8 DEF WorkTypes

LEMMA ReleaseKeepsLocks ==
    ASSUME WorkTypes, Held, NEW w \in Workers, pc[w] # "idle", Release(w)
    PROVE  WorkTypes' /\ Held'
  <1> USE DEF Release, WorkTypes, Held
  <1>1. /\ pc' \in [Workers -> {"idle", "begun", "ready"}]
        /\ job' \in [Workers -> Jobs \cup {NoJob}]
        /\ \A v \in Workers : pc'[v] = "idle" <=> job'[v] = NoJob
        /\ seen' \in [Workers -> Int]
        /\ quote' \in [Workers -> Prices \cup {None}]
    OBVIOUS
  <1>2. \A v \in Workers : v # w => pc'[v] = pc[v] /\ job'[v] = job[v]
    OBVIOUS
  <1>3. pc'[w] = "idle" /\ job'[w] = NoJob
    OBVIOUS
  <1>4. Busy' = Busy \ {w} /\ None \notin Busy
    BY <1>2, <1>3 DEF Busy
  <1>5. /\ \A a \in Apps : appLock'[a] # None =>
             appLock'[a] = appLock[a] /\ appLock[a] # w
        /\ \A g \in Agents : agentLock'[g] # None =>
             agentLock'[g] = agentLock[g] /\ agentLock[g] # w
    OBVIOUS
  <1>6. /\ appLock' \in [Apps -> Busy' \cup {None}]
        /\ agentLock' \in [Agents -> Busy' \cup {None}]
    BY <1>4, <1>5
  <1>7. \A a \in Apps : appLock'[a] # None => a \in AppOf(job'[appLock'[a]])
    BY <1>2, <1>5 DEF Busy
  <1>8. (\A g \in Agents :
           agentLock[g] # None =>
             LocksAgent(agentLock[g]) /\ g = AgentOf(job[agentLock[g]]))'
    BY <1>2, <1>5 DEF LocksAgent, Busy
  <1>9. Held'
    <2> SUFFICES ASSUME NEW v \in Workers
                 PROVE  /\ OfApp(v)' => appLock'[job'[v].sale.app] = v
                        /\ LocksAgent(v)' => agentLock'[AgentOf(job'[v])] = v
      BY DEF Held
    <2>1. CASE v = w
      BY <2>1, <1>3 DEF LocksAgent, OfApp
    <2>2. CASE v # w
      <3>1. OfApp(v) =>
              job[v].sale.app \in Apps /\ appLock[job[v].sale.app] = v
        BY JobFields DEF OfApp
      <3>2. LocksAgent(v) => job[v] \in Jobs /\ AgentOf(job[v]) \in Agents
        BY JobFields, JobAgent DEF LocksAgent
      <3> QED
        BY <2>2, <1>2, <3>1, <3>2 DEF LocksAgent, OfApp
    <2> QED
      BY <2>1, <2>2
  <1> QED
    BY <1>1, <1>6, <1>7, <1>8, <1>9 DEF WorkTypes

-----------------------------------------------------------------------------
(* What transactions have read, while nothing is written *)

LEMMA KnownFrame ==
    ASSUME WorkTypes, Known, NEW w \in Workers,
           UNCHANGED <<balance, orders, adjusted>>,
           \A v \in Workers \ {w} :
             pc'[v] = pc[v] /\ job'[v] = job[v] /\ seen'[v] = seen[v],
           KnownOf(w)'
    PROVE  Known'
  <1> SUFFICES ASSUME NEW v \in Workers, v # w
               PROVE  KnownOf(v)'
    BY DEF Known
  <1>1. KnownOf(v)
    BY DEF Known
  <1> QED
    BY <1>1 DEF KnownOf, Replayed, AdjustedBefore

LEMMA BeginKnown ==
    ASSUME WorkTypes, Known, NEW w \in Workers, NEW k \in Jobs, Begin(w, k),
           k.kind = "refund" =>
             orders[k.order] # NoOrder /\ orders[k.order].sale = k.sale
    PROVE  Known'
  <1>1. /\ pc'[w] = "begun" /\ job'[w] = k
        /\ UNCHANGED <<balance, orders, adjusted>>
        /\ \A v \in Workers \ {w} :
             pc'[v] = pc[v] /\ job'[v] = job[v] /\ seen'[v] = seen[v]
    BY DEF Begin, accounts, WorkTypes
  <1>2. KnownOf(w)'
    BY <1>1 DEF KnownOf
  <1> QED
    BY <1>1, <1>2, KnownFrame

LEMMA ReadKnown ==
    ASSUME WorkTypes, Known, NEW w \in Workers, ReadBalance(w),
           job[w].kind = "sale" => ~Replayed(job[w].sale),
           job[w].kind = "refund" =>
             orders[job[w].order].status = "confirmed",
           job[w].kind = "adjust" => ~AdjustedBefore(job[w].adjust)
    PROVE  Known'
  <1>1. /\ pc'[w] = "ready" /\ job' = job
        /\ seen'[w] = balance[AgentOf(job[w])]
        /\ UNCHANGED <<balance, orders, adjusted>>
        /\ \A v \in Workers \ {w} :
             pc'[v] = pc[v] /\ job'[v] = job[v] /\ seen'[v] = seen[v]
    BY DEF ReadBalance, accounts, WorkTypes
  <1>2. KnownOf(w)
    BY DEF Known
  <1>3. KnownOf(w)'
    BY <1>1, <1>2 DEF KnownOf, Replayed, AdjustedBefore
  <1> QED
    BY <1>1, <1>3, KnownFrame

LEMMA ReleaseIdle ==
    ASSUME WorkTypes, NEW w \in Workers, Release(w)
    PROVE  /\ KnownOf(w)'
           /\ \A v \in Workers \ {w} :
                pc'[v] = pc[v] /\ job'[v] = job[v] /\ seen'[v] = seen[v]
  <1>1. pc'[w] = "idle" /\ job'[w] = NoJob
    BY DEF Release, WorkTypes
  <1>2. KnownOf(w)'
    BY <1>1 DEF KnownOf
  <1> QED
    BY <1>2 DEF Release, WorkTypes

-----------------------------------------------------------------------------
(* Commits *)

\* What the commit of a sale writes, and what it relies on.
LEMMA SaleWrites ==
    ASSUME IInv, NEW w \in Workers, NEW o \in OrderIds, SaleCommit(w, o)
    PROVE  LET r == job[w].sale
           IN  /\ r \in Sales /\ r.agent \in Agents /\ r.app \in Apps
               /\ r.cost \in Nat
               /\ AgentOf(job[w]) = r.agent /\ OfApp(w) /\ LocksAgent(w)
               /\ seen[w] = balance[r.agent]
               /\ ~Replayed(r)
               /\ balance[r.agent] - r.cost \in 0..MaxMoney
               /\ balance' = [balance EXCEPT ![r.agent] = @ - r.cost]
               /\ orders' = [orders EXCEPT ![o] =
                               [status |-> "confirmed", sale |-> r]]
  <1> USE DEF IInv, Known, KnownOf
  <1>1. /\ job[w].kind = "sale" /\ pc[w] = "ready"
        /\ job[w].sale \in Sales
    BY JobFields DEF SaleCommit, TypeOK
  <1>2. AgentOf(job[w]) = job[w].sale.agent /\ OfApp(w) /\ LocksAgent(w)
    BY <1>1 DEF AgentOf, OfApp, LocksAgent
  <1>3. seen[w] = balance[job[w].sale.agent] /\ ~Replayed(job[w].sale)
    BY <1>1, <1>2
  <1>4. /\ balance[job[w].sale.agent] - job[w].sale.cost \in 0..MaxMoney
        /\ balance' = [balance EXCEPT
                         ![job[w].sale.agent] = @ - job[w].sale.cost]
    BY <1>1 DEF SaleCommit, Move, TypeOK
  <1> QED
    BY <1>1, <1>2, <1>3, <1>4 DEF SaleCommit

LEMMA RefundWrites ==
    ASSUME IInv, NEW w \in Workers, RefundCommit(w)
    PROVE  LET r == job[w].sale
               o == job[w].order
           IN  /\ r \in Sales /\ r.agent \in Agents /\ r.app \in Apps
               /\ r.cost \in Nat /\ o \in OrderIds
               /\ AgentOf(job[w]) = r.agent /\ OfApp(w) /\ LocksAgent(w)
               /\ seen[w] = balance[r.agent]
               /\ orders[o].status = "confirmed" /\ orders[o].sale = r
               /\ balance[r.agent] + r.cost \in 0..MaxMoney
               /\ balance' = [balance EXCEPT ![r.agent] = @ + r.cost]
               /\ orders' = [orders EXCEPT ![o].status = "refunded"]
  <1> USE DEF IInv, Known, KnownOf
  <1>1. /\ job[w].kind = "refund" /\ pc[w] = "ready"
        /\ job[w].sale \in Sales /\ job[w].order \in OrderIds
    BY JobFields DEF RefundCommit, TypeOK
  <1>2. AgentOf(job[w]) = job[w].sale.agent /\ OfApp(w) /\ LocksAgent(w)
    BY <1>1 DEF AgentOf, OfApp, LocksAgent
  <1>3. /\ seen[w] = balance[job[w].sale.agent]
        /\ orders[job[w].order].status = "confirmed"
        /\ orders[job[w].order].sale = job[w].sale
    BY <1>1, <1>2
  <1>4. /\ balance[job[w].sale.agent] + job[w].sale.cost \in 0..MaxMoney
        /\ balance' = [balance EXCEPT
                         ![job[w].sale.agent] = @ + job[w].sale.cost]
    BY <1>1 DEF RefundCommit, Move
  <1> QED
    BY <1>1, <1>2, <1>3, <1>4 DEF RefundCommit

LEMMA AdjustWrites ==
    ASSUME IInv, NEW w \in Workers, AdjustCommit(w)
    PROVE  LET j == job[w].adjust
           IN  /\ j \in Adjusts /\ j.agent \in Agents /\ j.amount \in Int
               /\ AgentOf(job[w]) = j.agent /\ LocksAgent(w)
               /\ seen[w] = balance[j.agent]
               /\ ~AdjustedBefore(j)
               /\ balance[j.agent] + j.amount \in 0..MaxMoney
               /\ balance' = [balance EXCEPT ![j.agent] = @ + j.amount]
               /\ adjusted' = adjusted \cup {j}
               /\ orders' = orders
  <1> USE DEF IInv, Known, KnownOf
  <1>1. /\ job[w].kind = "adjust" /\ pc[w] = "ready"
        /\ job[w].adjust \in Adjusts
    BY JobFields DEF AdjustCommit, TypeOK
  <1>2. AgentOf(job[w]) = job[w].adjust.agent /\ LocksAgent(w)
    BY <1>1 DEF AgentOf, LocksAgent
  <1>3. seen[w] = balance[job[w].adjust.agent] /\ ~AdjustedBefore(job[w].adjust)
    BY <1>1, <1>2
  <1> QED
    BY <1>1, <1>2, <1>3 DEF AdjustCommit, TypeOK

\* A change of tier writes the balance back as it is.
LEMMA TierWrites ==
    ASSUME IInv, NEW w \in Workers, TierCommit(w)
    PROVE  UNCHANGED <<balance, orders, adjusted, events>>
  <1> USE DEF IInv, Known, KnownOf
  <1>1. /\ job[w].kind = "tier" /\ pc[w] = "ready"
        /\ job[w].agent \in Agents
    BY JobFields DEF TierCommit, TypeOK
  <1>2. AgentOf(job[w]) = job[w].agent
    BY <1>1 DEF AgentOf
  <1>3. seen[w] = balance[job[w].agent]
    BY <1>1, <1>2
  <1> QED
    BY <1>1, <1>3 DEF TierCommit, TypeOK

LEMMA SaleKeeps ==
    ASSUME IInv, NEW w \in Workers, NEW o \in OrderIds, SaleCommit(w, o)
    PROVE  DataTypes' /\ Known' /\ BalanceInRange' /\ OncePerRequest'
  <1> DEFINE r == job[w].sale
  <1> USE DEF IInv
  <1>1. /\ r \in Sales /\ r.agent \in Agents /\ r.app \in Apps
        /\ r.cost \in Nat
        /\ AgentOf(job[w]) = r.agent /\ OfApp(w) /\ LocksAgent(w)
        /\ seen[w] = balance[r.agent]
        /\ ~Replayed(r)
        /\ balance[r.agent] - r.cost \in 0..MaxMoney
        /\ balance' = [balance EXCEPT ![r.agent] = @ - r.cost]
        /\ orders' = [orders EXCEPT ![o] =
                        [status |-> "confirmed", sale |-> r]]
    BY SaleWrites
  <1>2. /\ orders[o] = NoOrder
        /\ events' = events \cup {[order |-> o, amount |-> -r.cost,
                                   after |-> seen[w] - r.cost]}
        /\ UNCHANGED <<adjusted, price, active>>
        /\ Release(w)
    BY DEF SaleCommit, terms
  <1>3. WorkTypes /\ DataTypes
    BY TypeParts
  <1>4. /\ KnownOf(w)'
        /\ \A v \in Workers \ {w} :
             pc'[v] = pc[v] /\ job'[v] = job[v] /\ seen'[v] = seen[v]
    BY <1>2, <1>3, ReleaseIdle
  <1>5. DataTypes'
    <2>1. balance' \in [Agents -> Int] /\ orders' \in [OrderIds -> Order \cup {NoOrder}]
      BY <1>1, <1>3 DEF DataTypes
    <2>2. [order |-> o, amount |-> -r.cost, after |-> seen[w] - r.cost]
            \in Events
      BY <1>1, <1>3 DEF Events, WorkTypes
    <2> QED
      BY <1>2, <1>3, <2>1, <2>2 DEF DataTypes
  <1>6. ASSUME NEW v \in Workers, v # w
        PROVE  KnownOf(v)'
    <2> USE DEF KnownOf
    <2>1. KnownOf(v)
      BY DEF Known
    <2>2. job[v] \in Jobs \cup {NoJob}
      BY <1>3 DEF WorkTypes
    <2>3. pc[v] = "ready" => AgentOf(job[v]) # r.agent
      BY <1>1, <1>6, Exclusive DEF LocksAgent
    <2>4. pc[v] = "ready" => seen'[v] = balance'[AgentOf(job'[v])]
      BY <1>1, <1>3, <1>4, <1>6, <2>1, <2>3, JobAgent DEF DataTypes, WorkTypes
    <2>5. OfApp(v) => job[v].sale.app # r.app
      BY <1>1, <1>6, Exclusive
    <2>6. (pc[v] = "ready" /\ job[v].kind = "sale" => ~Replayed(job[v].sale))'
      <3>1. ASSUME pc[v] = "ready", job[v].kind = "sale", NEW p \in OrderIds,
                   orders'[p] # NoOrder, orders'[p].sale.app = job[v].sale.app,
                   orders'[p].sale.agent = job[v].sale.agent,
                   orders'[p].sale.id = job[v].sale.id
            PROVE  FALSE
        <4>1. orders'[o].sale = r
          BY <1>1, <1>3 DEF DataTypes
        <4>2. p # o
          BY <2>5, <3>1, <4>1 DEF OfApp
        <4>3. orders'[p] = orders[p]
          BY <1>1, <1>3, <4>2 DEF DataTypes
        <4>4. QED
          BY <2>1, <3>1, <4>3 DEF Replayed
      <3>2. QED
        BY <1>4, <1>6, <3>1 DEF Replayed
    <2>7. job'[v].kind = "refund" =>
            orders'[job'[v].order] = orders[job[v].order]
      BY <1>1, <1>2, <1>3, <1>4, <1>6, <2>1, <2>2, JobFields DEF DataTypes
    <2>8. (pc[v] = "ready" /\ job[v].kind = "adjust" =>
             ~AdjustedBefore(job[v].adjust))'
      BY <1>2, <1>4, <1>6, <2>1 DEF AdjustedBefore
    <2> QED
      BY <1>4, <1>6, <2>1, <2>4, <2>6, <2>7, <2>8
  <1>7. Known'
    BY <1>4, <1>6 DEF Known
  <1>8. BalanceInRange'
    BY <1>1, <1>3 DEF BalanceInRange, DataTypes
  <1>9. OncePerRequest'
    BY <1>1, <1>2, <1>3 DEF OncePerRequest, Replayed, DataTypes
  <1> QED
    BY <1>5, <1>7, <1>8, <1>9

LEMMA RefundKeeps ==
    ASSUME IInv, NEW w \in Workers, RefundCommit(w)
    PROVE  DataTypes' /\ Known' /\ BalanceInRange' /\ OncePerRequest'
  <1> DEFINE r == job[w].sale
             o == job[w].order
  <1> USE DEF IInv
  <1>1. /\ r \in Sales /\ r.agent \in Agents /\ r.app \in Apps
        /\ r.cost \in Nat /\ o \in OrderIds
        /\ AgentOf(job[w]) = r.agent /\ OfApp(w) /\ LocksAgent(w)
        /\ seen[w] = balance[r.agent]
        /\ orders[o].status = "confirmed" /\ orders[o].sale = r
        /\ balance[r.agent] + r.cost \in 0..MaxMoney
        /\ balance' = [balance EXCEPT ![r.agent] = @ + r.cost]
        /\ orders' = [orders EXCEPT ![o].status = "refunded"]
    BY RefundWrites
  <1>2. /\ events' = events \cup {[order |-> o, amount |-> r.cost,
                                   after |-> seen[w] + r.cost]}
        /\ UNCHANGED <<adjusted, price, active>>
        /\ Release(w)
    BY DEF RefundCommit, terms
  <1>3. WorkTypes /\ DataTypes
    BY TypeParts
  <1>4. /\ KnownOf(w)'
        /\ \A v \in Workers \ {w} :
             pc'[v] = pc[v] /\ job'[v] = job[v] /\ seen'[v] = seen[v]
    BY <1>2, <1>3, ReleaseIdle
  <1>5. /\ orders[o] \in Order
        /\ orders'[o] = [status |-> "refunded", sale |-> r]
        /\ \A p \in OrderIds : p # o => orders'[p] = orders[p]
    BY <1>1, <1>3 DEF DataTypes
  <1>6. /\ orders' \in [OrderIds -> Order \cup {NoOrder}]
        /\ \A p \in OrderIds : orders'[p] # NoOrder <=> orders[p] # NoOrder
        /\ \A p \in OrderIds :
             orders[p] # NoOrder => orders'[p].sale = orders[p].sale
    BY <1>1, <1>3, <1>5 DEF DataTypes
  <1>7. DataTypes'
    <2>1. balance' \in [Agents -> Int]
      BY <1>1, <1>3 DEF DataTypes
    <2>2. [order |-> o, amount |-> r.cost, after |-> seen[w] + r.cost]
            \in Events
      BY <1>1, <1>3 DEF Events, WorkTypes
    <2> QED
      BY <1>2, <1>3, <1>6, <2>1, <2>2 DEF DataTypes
  <1>8. ASSUME NEW v \in Workers, v # w
        PROVE  KnownOf(v)'
    <2> USE DEF KnownOf
    <2>1. KnownOf(v)
      BY DEF Known
    <2>2. job[v] \in Jobs \cup {NoJob}
      BY <1>3 DEF WorkTypes
    <2>3. pc[v] = "ready" => AgentOf(job[v]) # r.agent
      BY <1>1, <1>8, Exclusive DEF LocksAgent
    <2>4. pc[v] = "ready" => seen'[v] = balance'[AgentOf(job'[v])]
      BY <1>1, <1>3, <1>4, <1>8, <2>1, <2>3, JobAgent DEF DataTypes, WorkTypes
    <2>5. (pc[v] = "ready" /\ job[v].kind = "sale" => ~Replayed(job[v].sale))'
      BY <1>4, <1>6, <1>8, <2>1 DEF Replayed
    <2>6. job'[v].kind = "refund" =>
            /\ orders'[job'[v].order] # NoOrder
            /\ orders'[job'[v].order].sale = job'[v].sale
      BY <1>4, <1>6, <1>8, <2>1, <2>2, JobFields
    <2>7. job[v].kind = "refund" => job[v].order # o
      <3> SUFFICES ASSUME job[v].kind = "refund", job[v].order = o
                   PROVE  FALSE
        OBVIOUS
      <3>1. job[v].sale = r
        BY <1>1, <2>1
      <3> QED
        BY <1>1, <1>8, <3>1, Exclusive DEF OfApp
    <2>8. pc'[v] = "ready" /\ job'[v].kind = "refund" =>
            orders'[job'[v].order].status = "confirmed"
      BY <1>4, <1>5, <1>8, <2>1, <2>2, <2>7, JobFields
    <2>9. (pc[v] = "ready" /\ job[v].kind = "adjust" =>
             ~AdjustedBefore(job[v].adjust))'
      BY <1>2, <1>4, <1>8, <2>1 DEF AdjustedBefore
    <2> QED
      BY <1>4, <1>8, <2>4, <2>5, <2>6, <2>8, <2>9
  <1>9. Known'
    BY <1>4, <1>8 DEF Known
  <1>10. BalanceInRange'
    BY <1>1, <1>3 DEF BalanceInRange, DataTypes
  <1>11. OncePerRequest'
    BY <1>6 DEF OncePerRequest
  <1> QED
    BY <1>7, <1>9, <1>10, <1>11

LEMMA AdjustKeeps ==
    ASSUME IInv, NEW w \in Workers, AdjustCommit(w)
    PROVE  DataTypes' /\ Known' /\ BalanceInRange' /\ OncePerRequest'
  <1> DEFINE j == job[w].adjust
  <1> USE DEF IInv
  <1>1. /\ j \in Adjusts /\ j.agent \in Agents /\ j.amount \in Int
        /\ AgentOf(job[w]) = j.agent /\ LocksAgent(w)
        /\ seen[w] = balance[j.agent]
        /\ balance[j.agent] + j.amount \in 0..MaxMoney
        /\ balance' = [balance EXCEPT ![j.agent] = @ + j.amount]
        /\ adjusted' = adjusted \cup {j}
        /\ orders' = orders
    BY AdjustWrites
  <1>2. /\ events' = events \cup {[adjust |-> j, after |-> seen[w] + j.amount]}
        /\ UNCHANGED <<price, active>>
        /\ Release(w)
    BY DEF AdjustCommit, terms
  <1>3. WorkTypes /\ DataTypes
    BY TypeParts
  <1>4. /\ KnownOf(w)'
        /\ \A v \in Workers \ {w} :
             pc'[v] = pc[v] /\ job'[v] = job[v] /\ seen'[v] = seen[v]
    BY <1>2, <1>3, ReleaseIdle
  <1>5. DataTypes'
    <2>1. balance' \in [Agents -> Int]
      BY <1>1, <1>3 DEF DataTypes
    <2>2. [adjust |-> j, after |-> seen[w] + j.amount] \in Events
      BY <1>1, <1>3 DEF Events, WorkTypes
    <2> QED
      BY <1>1, <1>2, <1>3, <2>1, <2>2 DEF DataTypes
  <1>6. ASSUME NEW v \in Workers, v # w
        PROVE  KnownOf(v)'
    <2> USE DEF KnownOf
    <2>1. KnownOf(v)
      BY DEF Known
    <2>2. job[v] \in Jobs \cup {NoJob}
      BY <1>3 DEF WorkTypes
    <2>3. LocksAgent(v) => AgentOf(job[v]) # j.agent
      BY <1>1, <1>6, Exclusive
    <2>4. pc[v] = "ready" => seen'[v] = balance'[AgentOf(job'[v])]
      BY <1>1, <1>3, <1>4, <1>6, <2>1, <2>3, JobAgent
      DEF DataTypes, WorkTypes, LocksAgent
    <2>5. (pc[v] = "ready" /\ job[v].kind = "sale" => ~Replayed(job[v].sale))'
      BY <1>1, <1>4, <1>6, <2>1 DEF Replayed
    <2>6. job[v].kind = "adjust" => job[v].adjust.agent # j.agent
      BY <2>3 DEF AgentOf, LocksAgent
    <2>7. (pc[v] = "ready" /\ job[v].kind = "adjust" =>
             ~AdjustedBefore(job[v].adjust))'
      BY <1>1, <1>4, <1>6, <2>1, <2>6 DEF AdjustedBefore
    <2> QED
      BY <1>1, <1>4, <1>6, <2>1, <2>4, <2>5, <2>7
  <1>7. Known'
    BY <1>4, <1>6 DEF Known
  <1>8. BalanceInRange'
    BY <1>1, <1>3 DEF BalanceInRange, DataTypes
  <1>9. OncePerRequest'
    BY <1>1 DEF OncePerRequest
  <1> QED
    BY <1>5, <1>7, <1>8, <1>9

-----------------------------------------------------------------------------
(* The invariant *)

LEMMA InitInv == Init => IInv
  <1> SUFFICES ASSUME Init
               PROVE  IInv
    OBVIOUS
  <1> USE DEF Init
  <1>1. DataTypes
    <2>1. price \in [Apps -> [Agents -> Prices \cup {None}]]
      OBVIOUS
    <2> QED
      BY <2>1 DEF DataTypes
  <1>2. WorkTypes
    BY DEF WorkTypes
  <1>3. Held
    BY DEF Held, OfApp, LocksAgent
  <1>4. Known
    BY DEF Known, KnownOf
  <1>5. BalanceInRange /\ OncePerRequest
    BY DEF BalanceInRange, OncePerRequest
  <1> QED
    BY <1>1, <1>2, <1>3, <1>4, <1>5, TypeParts DEF IInv

\* Steps that write nothing to the accounts.
LEMMA QuietKeeps ==
    ASSUME IInv, UNCHANGED <<accounts, terms>>, WorkTypes', Held', Known'
    PROVE  IInv'
  <1>1. DataTypes'
    BY TypeParts DEF IInv, DataTypes, accounts, terms
  <1>2. BalanceInRange' /\ OncePerRequest'
    BY DEF IInv, accounts, BalanceInRange, OncePerRequest
  <1> QED
    BY <1>1, <1>2, TypeParts DEF IInv, TypeOK, DataTypes, WorkTypes

LEMMA StartKeeps ==
    ASSUME IInv, NEW w \in Workers, Start(w)
    PROVE  IInv'
  <1>0. WorkTypes /\ DataTypes /\ Held /\ Known
    BY TypeParts DEF IInv
  <1>1. CASE \E r \in Sales : SaleBegin(w, r)
    <2>1. PICK r \in Sales : SaleBegin(w, r)
      BY <1>1
    <2> DEFINE k == [kind |-> "sale", sale |-> r]
    <2>2. k \in Jobs /\ k.kind = "sale" /\ k.sale = r
      OBVIOUS
    <2>3. Begin(w, k) /\ LockApplication(w, k.sale.app)
      BY <2>1, <2>2 DEF SaleBegin
    <2> HIDE DEF k
    <2>4. WorkTypes' /\ Held'
      BY <1>0, <2>2, <2>3, BeginOfApplication
    <2>5. Known'
      BY <1>0, <2>2, <2>3, BeginKnown
    <2> QED
      BY <2>3, <2>4, <2>5, QuietKeeps DEF Begin
  <1>2. CASE \E o \in OrderIds : RefundBegin(w, o)
    <2>1. PICK o \in OrderIds : RefundBegin(w, o)
      BY <1>2
    <2> DEFINE k == [kind |-> "refund", order |-> o, sale |-> orders[o].sale]
    <2>2. /\ k \in Jobs /\ k.kind = "refund" /\ k.order = o
          /\ k.sale = orders[o].sale /\ orders[o] # NoOrder
      BY <1>0, <2>1 DEF RefundBegin, DataTypes
    <2>3. Begin(w, k) /\ LockApplication(w, k.sale.app)
      BY <2>1, <2>2 DEF RefundBegin
    <2> HIDE DEF k
    <2>4. WorkTypes' /\ Held'
      BY <1>0, <2>2, <2>3, BeginOfApplication
    <2>5. Known'
      BY <1>0, <2>2, <2>3, BeginKnown
    <2> QED
      BY <2>3, <2>4, <2>5, QuietKeeps DEF Begin
  <1>3. CASE \E j \in Adjusts : AdjustBegin(w, j)
    <2>1. PICK j \in Adjusts : AdjustBegin(w, j)
      BY <1>3
    <2> DEFINE k == [kind |-> "adjust", adjust |-> j]
    <2>2. k \in Jobs /\ k.kind = "adjust" /\ AgentOf(k) = j.agent
      BY DEF AgentOf
    <2>3. Begin(w, k) /\ LockAgent(w, AgentOf(k))
      BY <2>1, <2>2 DEF AdjustBegin
    <2> HIDE DEF k
    <2>4. WorkTypes' /\ Held'
      BY <1>0, <2>2, <2>3, BeginOfAgent
    <2>5. Known'
      BY <1>0, <2>2, <2>3, BeginKnown
    <2> QED
      BY <2>3, <2>4, <2>5, QuietKeeps DEF Begin
  <1>4. CASE \E g \in Agents : TierBegin(w, g)
    <2>1. PICK g \in Agents : TierBegin(w, g)
      BY <1>4
    <2> DEFINE k == [kind |-> "tier", agent |-> g]
    <2>2. k \in Jobs /\ k.kind = "tier" /\ AgentOf(k) = g
      BY DEF AgentOf
    <2>3. Begin(w, k) /\ LockAgent(w, AgentOf(k))
      BY <2>1, <2>2 DEF TierBegin
    <2> HIDE DEF k
    <2>4. WorkTypes' /\ Held'
      BY <1>0, <2>2, <2>3, BeginOfAgent
    <2>5. Known'
      BY <1>0, <2>2, <2>3, BeginKnown
    <2> QED
      BY <2>3, <2>4, <2>5, QuietKeeps DEF Begin
  <1> QED
    BY <1>1, <1>2, <1>3, <1>4 DEF Start

\* The read of the account, in each kind of transaction.
LEMMA ReadKeeps ==
    ASSUME IInv, NEW w \in Workers,
           SaleAccount(w) \/ RefundAccount(w) \/ ReadAccount(w)
    PROVE  IInv'
  <1>0. WorkTypes /\ DataTypes /\ Held /\ Known
    BY TypeParts DEF IInv
  <1>1. /\ pc[w] = "begun" /\ ReadBalance(w)
        /\ \/ OfApp(w) /\ LockAgent(w, AgentOf(job[w]))
           \/ job[w].kind \in {"adjust", "tier"} /\ UNCHANGED locks
        /\ job[w].kind = "sale" => ~Replayed(job[w].sale)
        /\ job[w].kind = "refund" =>
             orders[job[w].order].status = "confirmed"
        /\ job[w].kind = "adjust" => ~AdjustedBefore(job[w].adjust)
    BY DEF SaleAccount, RefundAccount, ReadAccount, AgentAccount, OfApp
  <1>2. WorkTypes' /\ Held'
    BY <1>0, <1>1, ReadKeepsLocks
  <1>3. Known'
    BY <1>0, <1>1, ReadKnown
  <1> QED
    BY <1>1, <1>2, <1>3, QuietKeeps DEF ReadBalance

LEMMA RollbackKeeps ==
    ASSUME IInv, NEW w \in Workers, pc[w] # "idle", Rollback(w)
    PROVE  IInv'
  <1>0. WorkTypes /\ Held /\ Known
    BY TypeParts DEF IInv
  <1>1. Release(w) /\ UNCHANGED <<accounts, terms>>
    BY DEF Rollback
  <1>2. WorkTypes' /\ Held'
    BY <1>0, <1>1, ReleaseKeepsLocks
  <1>3. Known'
    BY <1>0, <1>1, ReleaseIdle, KnownFrame DEF accounts
  <1> QED
    BY <1>1, <1>2, <1>3, QuietKeeps

LEMMA CommitKeeps ==
    ASSUME IInv, NEW w \in Workers,
           \/ \E o \in OrderIds : SaleCommit(w, o)
           \/ RefundCommit(w) \/ AdjustCommit(w) \/ TierCommit(w)
    PROVE  IInv'
  <1>0. WorkTypes /\ DataTypes /\ Held /\ Known /\ BalanceInRange
        /\ OncePerRequest
    BY TypeParts DEF IInv
  <1>1. Release(w) /\ pc[w] # "idle"
    BY DEF SaleCommit, RefundCommit, AdjustCommit, TierCommit
  <1>2. WorkTypes' /\ Held'
    BY <1>0, <1>1, ReleaseKeepsLocks
  <1>3. CASE TierCommit(w)
    <2>1. UNCHANGED <<balance, orders, adjusted, events>>
      BY <1>3, TierWrites
    <2>2. Known'
      BY <1>0, <1>1, <2>1, ReleaseIdle, KnownFrame
    <2>3. price' \in [Apps -> [Agents -> Prices \cup {None}]]
          /\ active' = active
      <3>1. PICK cost \in [Apps -> Prices \cup {None}] :
              price' = [a \in Apps |->
                          [price[a] EXCEPT ![job[w].agent] = cost[a]]]
        BY <1>3 DEF TierCommit, Reprice
      <3>2. \A a \in Apps : [price[a] EXCEPT ![job[w].agent] = cost[a]]
                              \in [Agents -> Prices \cup {None}]
        BY <1>0 DEF DataTypes
      <3> QED
        BY <1>3, <3>1, <3>2 DEF TierCommit
    <2>4. DataTypes'
      BY <1>0, <2>1, <2>3 DEF DataTypes
    <2>5. BalanceInRange' /\ OncePerRequest'
      BY <1>0, <2>1 DEF BalanceInRange, OncePerRequest
    <2> QED
      BY <1>2, <2>2, <2>4, <2>5, TypeParts
      DEF IInv, TypeOK, DataTypes, WorkTypes
  <1>4. CASE ~TierCommit(w)
    <2>1. DataTypes' /\ Known' /\ BalanceInRange' /\ OncePerRequest'
      BY <1>4, SaleKeeps, RefundKeeps, AdjustKeeps
    <2> QED
      BY <1>2, <2>1, TypeParts DEF IInv, TypeOK, DataTypes, WorkTypes
  <1> QED
    BY <1>3, <1>4

LEMMA AdministerKeeps ==
    ASSUME IInv, Administer
    PROVE  IInv'
  <1>0. WorkTypes /\ DataTypes /\ Held /\ Known /\ BalanceInRange
        /\ OncePerRequest
    BY TypeParts DEF IInv
  <1>1. UNCHANGED <<accounts, locks, workers>>
    BY DEF Administer, SetPrice, SaveAgentTier, SetAgentStatus
  <1>2. DataTypes'
    <2>1. /\ price' \in [Apps -> [Agents -> Prices \cup {None}]]
          /\ active' \subseteq Agents
      BY SMTT(30), <1>0
      DEF Administer, SetPrice, SaveAgentTier, Reprice, SetAgentStatus, DataTypes
    <2> QED
      BY <1>0, <1>1, <2>1 DEF DataTypes, accounts
  <1>3. WorkTypes' /\ Held'
    BY <1>0, <1>1 DEF WorkTypes, Held, OfApp, LocksAgent, Busy, locks, workers
  <1>4. Known'
    BY <1>0, <1>1
    DEF Known, KnownOf, Replayed, AdjustedBefore, accounts, workers
  <1>5. BalanceInRange' /\ OncePerRequest'
    BY <1>0, <1>1 DEF BalanceInRange, OncePerRequest, accounts
  <1> QED
    BY <1>2, <1>3, <1>4, <1>5, TypeParts
    DEF IInv, TypeOK, DataTypes, WorkTypes

LEMMA StepInv == IInv /\ [Next]_vars => IInv'
  <1> SUFFICES ASSUME IInv, [Next]_vars
               PROVE  IInv'
    OBVIOUS
  <1>1. ASSUME NEW w \in Workers, Start(w) \/ Proceed(w) \/ Crash(w)
        PROVE  IInv'
    <2>1. CASE Start(w)
      BY <2>1, StartKeeps
    <2>2. CASE Refuse(w) \/ Crash(w)
      <3>1. pc[w] # "idle" /\ Rollback(w)
        BY <2>2 DEF Refuse, Refused, Crash
      <3> QED
        BY <3>1, RollbackKeeps
    <2>3. CASE SaleAccount(w) \/ RefundAccount(w) \/ ReadAccount(w)
      BY <2>3, ReadKeeps
    <2>4. CASE \/ \E o \in OrderIds : SaleCommit(w, o)
               \/ RefundCommit(w) \/ AdjustCommit(w) \/ TierCommit(w)
      BY <2>4, CommitKeeps
    <2> QED
      BY <1>1, <2>1, <2>2, <2>3, <2>4 DEF Proceed
  <1>2. CASE Administer
    BY <1>2, AdministerKeeps
  <1>3. CASE UNCHANGED vars
    <2>1. UNCHANGED <<accounts, terms, locks, workers>>
      BY <1>3 DEF vars
    <2>2. WorkTypes' /\ Held' /\ Known'
      BY <2>1, TypeParts
      DEF IInv, WorkTypes, Held, Known, KnownOf, OfApp, LocksAgent, Busy,
          Replayed, AdjustedBefore, accounts, locks, workers
    <2> QED
      BY <2>1, <2>2, QuietKeeps
  <1> QED
    BY <1>1, <1>2, <1>3 DEF Next

LEMMA Invariant == Spec => []IInv
  BY InitInv, StepInv, PTL DEF Spec

-----------------------------------------------------------------------------
(* Theorems *)

\* Every column keeps its type, and each row lock has a running transaction
\* of that row as its holder.
THEOREM MoneyTypes == Spec => []TypeOK
  BY Invariant, PTL DEF IInv

\* No balance leaves 0..MaxMoney, with any number of connections.
THEOREM BalanceInRangeHolds == Spec => []BalanceInRange
  BY Invariant, PTL DEF IInv

\* A RequestID of an agent buys at most one order of an application.
THEOREM OncePerRequestHolds == Spec => []OncePerRequest
  BY Invariant, PTL DEF IInv

\* What a step other than a commit of money leaves alone.
LEMMA OtherSteps ==
    ASSUME IInv, [Next]_vars,
           \A w \in Workers : ~ \/ \E o \in OrderIds : SaleCommit(w, o)
                                \/ RefundCommit(w) \/ AdjustCommit(w)
    PROVE  UNCHANGED <<balance, orders, adjusted, events>>
  <1>1. ASSUME NEW w \in Workers, Start(w)
        PROVE  UNCHANGED accounts
    BY <1>1
    DEF Start, SaleBegin, RefundBegin, AdjustBegin, TierBegin, Begin
  <1>2. ASSUME NEW w \in Workers, Proceed(w)
        PROVE  UNCHANGED accounts
    <2>1. CASE SaleAccount(w) \/ RefundAccount(w) \/ ReadAccount(w)
      BY <2>1
      DEF SaleAccount, RefundAccount, ReadAccount, AgentAccount, ReadBalance
    <2>2. CASE Refuse(w)
      BY <2>2 DEF Refuse, Rollback
    <2>3. CASE TierCommit(w)
      BY <2>3, TierWrites DEF accounts
    <2> QED
      BY <1>2, <2>1, <2>2, <2>3 DEF Proceed
  <1>3. ASSUME NEW w \in Workers, Crash(w)
        PROVE  UNCHANGED accounts
    BY <1>3 DEF Crash, Rollback
  <1>4. CASE Administer
    BY <1>4 DEF Administer, SetPrice, SaveAgentTier, SetAgentStatus, accounts
  <1>5. CASE UNCHANGED vars
    BY <1>5 DEF vars, accounts
  <1> QED
    BY <1>1, <1>2, <1>3, <1>4, <1>5 DEF Next, accounts

\* What the balances are made of is finite, and they are made of it.
Conserved ==
    /\ IsFiniteSet(adjusted)
    /\ IsFiniteSet({o \in OrderIds : orders[o] # NoOrder})
    /\ Conservation

InSum(g) == [j \in PaidIn(g) |-> j.amount]
OutSum(g) == [o \in Bought(g) |-> orders[o].sale.cost]

LEMMA Summands ==
    ASSUME IInv, Conserved, NEW g \in Agents
    PROVE  /\ IsFiniteSet(PaidIn(g)) /\ IsFiniteSet(Bought(g))
           /\ \A j \in PaidIn(g) : j.amount \in Int
           /\ \A o \in Bought(g) : orders[o].sale.cost \in Int
           /\ SumFunction(InSum(g)) \in Int /\ SumFunction(OutSum(g)) \in Int
           /\ balance[g] = Opening[g] + SumFunction(InSum(g)) - SumFunction(OutSum(g))
           /\ balance[g] \in Int /\ Opening[g] \in Int
<1>0. DataTypes
  BY TypeParts DEF IInv
<1>1. PaidIn(g) \in SUBSET adjusted /\ Bought(g) \in SUBSET {o \in OrderIds : orders[o] # NoOrder}
  BY DEF PaidIn, Bought
<1>2. IsFiniteSet(PaidIn(g)) /\ IsFiniteSet(Bought(g))
  BY <1>1, FS_Subset DEF Conserved
<1>3. /\ \A j \in PaidIn(g) : j.amount \in Int
      /\ \A o \in Bought(g) : orders[o].sale.cost \in Int
  BY <1>0, <1>1 DEF DataTypes
<1>4. SumFunction(InSum(g)) \in Int /\ SumFunction(OutSum(g)) \in Int
  BY <1>2, <1>3, SumType DEF SumFunction, InSum, OutSum
<1>5. balance[g] = Opening[g] + SumFunction(InSum(g)) - SumFunction(OutSum(g))
  BY DEF Conserved, Conservation, InSum, OutSum
<1>6. balance[g] \in Int /\ Opening[g] \in Int
  BY <1>0 DEF DataTypes
<1>7. QED
  BY <1>2, <1>3, <1>4, <1>5, <1>6

LEMMA ConservedStep == IInv /\ Conserved /\ [Next]_vars => Conserved'
<1> SUFFICES ASSUME IInv, Conserved, [Next]_vars
             PROVE  Conserved'
  OBVIOUS
<1>0. DataTypes
  BY TypeParts DEF IInv
<1>1. ASSUME NEW w \in Workers, NEW o \in OrderIds, SaleCommit(w, o)
      PROVE  Conserved'
  <2>1. PICK r \in Sales : r = job[w].sale
    BY <1>1, SaleWrites
  <2>2. /\ r.agent \in Agents /\ r.cost \in Nat /\ orders[o] = NoOrder
        /\ balance' = [balance EXCEPT ![r.agent] = @ - r.cost]
        /\ orders' = [orders EXCEPT ![o] = [status |-> "confirmed", sale |-> r]]
        /\ adjusted' = adjusted
    BY <1>1, <2>1, SaleWrites DEF SaleCommit
  <2>3. /\ orders'[o].status = "confirmed" /\ orders'[o].sale = r /\ orders'[o] # NoOrder
        /\ \A p \in OrderIds \ {o} : orders'[p] = orders[p]
    BY <1>0, <2>2 DEF DataTypes
  <2>4. IsFiniteSet(adjusted') /\ IsFiniteSet({p \in OrderIds : orders'[p] # NoOrder})
    <3>1. {p \in OrderIds : orders'[p] # NoOrder} = {p \in OrderIds : orders[p] # NoOrder} \cup {o}
      BY <2>3
    <3>2. QED
      BY ZenonT(60), <2>2, <3>1, FS_AddElement DEF Conserved
  <2>5. ASSUME NEW g \in Agents
        PROVE  balance'[g] = Opening[g] + SumFunction(InSum(g)') - SumFunction(OutSum(g)')
    <3>1. InSum(g)' = InSum(g)
      BY <2>2 DEF InSum, PaidIn
    <3>2. CASE g = r.agent
      <4>1. Bought(g)' = Bought(g) \cup {o} /\ o \notin Bought(g)
        BY <2>2, <2>3, <3>2 DEF Bought
      <4>2. /\ DOMAIN OutSum(g)' = DOMAIN OutSum(g) \cup {o} /\ o \notin DOMAIN OutSum(g)
            /\ OutSum(g)'[o] = r.cost
            /\ \A p \in DOMAIN OutSum(g) : OutSum(g)'[p] = OutSum(g)[p]
            /\ DOMAIN OutSum(g) = Bought(g)
            /\ \A p \in DOMAIN OutSum(g) : OutSum(g)[p] = orders[p].sale.cost
        BY <2>3, <4>1 DEF OutSum, Bought
      <4>3. SumFunction(OutSum(g)') = SumFunction(OutSum(g)) + r.cost
        <5>1. /\ IsFiniteSet(DOMAIN OutSum(g)) /\ r.cost \in Int
              /\ \A p \in DOMAIN OutSum(g) : OutSum(g)[p] \in Int
          BY <2>2, <4>2, Summands
        <5>2. QED
          BY <4>2, <5>1, SumGrows
      <4>4. balance'[g] = balance[g] - r.cost
        BY <1>0, <2>2, <3>2 DEF DataTypes
      <4>5. QED
        BY <2>2, <3>1, <4>3, <4>4, Summands
    <3>3. CASE g # r.agent
      <4>1. Bought(g)' = Bought(g)
        BY <2>2, <2>3, <3>3 DEF Bought
      <4>2. OutSum(g)' = OutSum(g)
        BY <2>2, <2>3, <4>1 DEF OutSum, Bought
      <4>3. balance'[g] = balance[g]
        BY <1>0, <2>2, <3>3 DEF DataTypes
      <4>4. QED
        BY <3>1, <4>2, <4>3, Summands
    <3>4. QED
      BY <3>2, <3>3
  <2>6. QED
    BY <2>4, <2>5 DEF Conserved, Conservation, InSum, OutSum
<1>2. ASSUME NEW w \in Workers, RefundCommit(w)
      PROVE  Conserved'
  <2>1. PICK r \in Sales, o \in OrderIds : r = job[w].sale /\ o = job[w].order
    BY <1>2, RefundWrites
  <2>2. /\ r.agent \in Agents /\ r.cost \in Nat
        /\ orders[o].status = "confirmed" /\ orders[o].sale = r
        /\ balance' = [balance EXCEPT ![r.agent] = @ + r.cost]
        /\ orders' = [orders EXCEPT ![o].status = "refunded"]
        /\ adjusted' = adjusted
    BY <1>2, <2>1, RefundWrites DEF RefundCommit
  <2>3. /\ orders'[o].status = "refunded" /\ orders'[o] # NoOrder /\ orders[o] # NoOrder
        /\ \A p \in OrderIds \ {o} : orders'[p] = orders[p]
    BY <1>0, <2>2 DEF DataTypes
  <2>4. IsFiniteSet(adjusted') /\ IsFiniteSet({p \in OrderIds : orders'[p] # NoOrder})
    <3>1. {p \in OrderIds : orders'[p] # NoOrder} = {p \in OrderIds : orders[p] # NoOrder}
      BY <2>3
    <3>2. QED
      BY <2>2, <3>1 DEF Conserved
  <2>5. ASSUME NEW g \in Agents
        PROVE  balance'[g] = Opening[g] + SumFunction(InSum(g)') - SumFunction(OutSum(g)')
    <3>1. InSum(g)' = InSum(g)
      BY <2>2 DEF InSum, PaidIn
    <3>2. CASE g = r.agent
      <4>1. Bought(g) = Bought(g)' \cup {o} /\ o \notin Bought(g)' /\ o \in Bought(g)
        BY <2>2, <2>3, <3>2 DEF Bought
      <4>2. /\ DOMAIN OutSum(g) = DOMAIN OutSum(g)' \cup {o} /\ o \notin DOMAIN OutSum(g)'
            /\ OutSum(g)[o] = r.cost
            /\ \A p \in DOMAIN OutSum(g)' : OutSum(g)[p] = OutSum(g)'[p]
            /\ DOMAIN OutSum(g)' = Bought(g)'
            /\ \A p \in DOMAIN OutSum(g)' : OutSum(g)'[p] = orders[p].sale.cost
        BY <2>2, <2>3, <4>1 DEF OutSum, Bought
      <4>3. IsFiniteSet(Bought(g)') /\ \A p \in Bought(g)' : OutSum(g)'[p] \in Int
        <5>1. Bought(g)' \in SUBSET Bought(g)
          BY <4>1
        <5>2. QED
          BY <4>2, <5>1, Summands, FS_Subset
      <4>4. /\ SumFunction(OutSum(g)') \in Int
            /\ SumFunction(OutSum(g)) = SumFunction(OutSum(g)') + r.cost
        BY <2>2, <4>2, <4>3, SumGrows
      <4>5. balance'[g] = balance[g] + r.cost
        BY <1>0, <2>2, <3>2 DEF DataTypes
      <4>6. QED
        BY <2>2, <3>1, <4>4, <4>5, Summands
    <3>3. CASE g # r.agent
      <4>1. Bought(g)' = Bought(g)
        BY <2>2, <2>3, <3>3 DEF Bought
      <4>2. OutSum(g)' = OutSum(g)
        BY <2>2, <2>3, <3>3, <4>1 DEF OutSum, Bought
      <4>3. balance'[g] = balance[g]
        BY <1>0, <2>2, <3>3 DEF DataTypes
      <4>4. QED
        BY <3>1, <4>2, <4>3, Summands
    <3>4. QED
      BY <3>2, <3>3
  <2>6. QED
    BY <2>4, <2>5 DEF Conserved, Conservation, InSum, OutSum
<1>3. ASSUME NEW w \in Workers, AdjustCommit(w)
      PROVE  Conserved'
  <2>1. PICK j \in Adjusts : j = job[w].adjust
    BY <1>3, AdjustWrites
  <2>2. /\ j.agent \in Agents /\ j.amount \in Int /\ ~AdjustedBefore(j)
        /\ balance' = [balance EXCEPT ![j.agent] = @ + j.amount]
        /\ adjusted' = adjusted \cup {j}
        /\ orders' = orders
    BY <1>3, <2>1, AdjustWrites
  <2>3. j \notin adjusted
    BY <2>2 DEF AdjustedBefore
  <2>4. IsFiniteSet(adjusted') /\ IsFiniteSet({p \in OrderIds : orders'[p] # NoOrder})
    BY <2>2, FS_AddElement DEF Conserved
  <2>5. ASSUME NEW g \in Agents
        PROVE  balance'[g] = Opening[g] + SumFunction(InSum(g)') - SumFunction(OutSum(g)')
    <3>1. OutSum(g)' = OutSum(g)
      BY <2>2 DEF OutSum, Bought
    <3>2. CASE g = j.agent
      <4>1. /\ DOMAIN InSum(g)' = DOMAIN InSum(g) \cup {j} /\ j \notin DOMAIN InSum(g)
            /\ InSum(g)'[j] = j.amount
            /\ \A k \in DOMAIN InSum(g) : InSum(g)'[k] = InSum(g)[k]
            /\ DOMAIN InSum(g) = PaidIn(g)
            /\ \A k \in DOMAIN InSum(g) : InSum(g)[k] = k.amount
        BY <2>2, <2>3, <3>2 DEF InSum, PaidIn
      <4>2. SumFunction(InSum(g)') = SumFunction(InSum(g)) + j.amount
        BY <2>2, <4>1, Summands, SumGrows
      <4>3. balance'[g] = balance[g] + j.amount
        BY <1>0, <2>2, <3>2 DEF DataTypes
      <4>4. QED
        BY <2>2, <3>1, <4>2, <4>3, Summands
    <3>3. CASE g # j.agent
      <4>1. InSum(g)' = InSum(g)
        BY <2>2, <3>3 DEF InSum, PaidIn
      <4>2. balance'[g] = balance[g]
        BY <1>0, <2>2, <3>3 DEF DataTypes
      <4>3. QED
        BY <3>1, <4>1, <4>2, Summands
    <3>4. QED
      BY <3>2, <3>3
  <2>6. QED
    BY <2>4, <2>5 DEF Conserved, Conservation, InSum, OutSum
<1>4. CASE UNCHANGED <<balance, orders, adjusted>>
  BY <1>4 DEF Conserved, Conservation, PaidIn, Bought
<1>5. QED
  BY <1>1, <1>2, <1>3, <1>4, OtherSteps

\* No update of an account is lost: every balance is what was paid in, less the orders
\* that are not refunded, with any number of agents, orders and connections
\* (AdjustAgentBalance, AgentSale, RefundSale).
THEOREM ConservationHolds == Spec => []Conservation
<1>1. Init => Conserved
  <2> SUFFICES ASSUME Init
               PROVE  Conserved
    OBVIOUS
  <2>1. adjusted = {} /\ {o \in OrderIds : orders[o] # NoOrder} = {}
    BY DEF Init
  <2>2. ASSUME NEW g \in Agents
        PROVE  SumFunction(InSum(g)) = 0 /\ SumFunction(OutSum(g)) = 0
    <3>1. PaidIn(g) = {} /\ Bought(g) = {}
      BY DEF PaidIn, Bought, Init
    <3>2. DOMAIN InSum(g) = {} /\ DOMAIN OutSum(g) = {}
      BY <3>1 DEF InSum, OutSum
    <3>3. QED
      BY <3>2, SumEmpty DEF SumFunction
  <2>3. Conservation
    BY SMTT(30), <2>2 DEF Conservation, InSum, OutSum, Init
  <2>4. QED
    BY <2>1, <2>3, FS_EmptySet DEF Conserved
<1>2. Conserved => Conservation
  BY DEF Conserved
<1>3. QED
  BY <1>1, <1>2, ConservedStep, Invariant, PTL DEF Spec

LEMMA StatedStep == IInv /\ [Next]_vars => Stated
  <1> SUFFICES ASSUME IInv, [Next]_vars, NEW e \in events' \ events
               PROVE  e.after = balance'[EventOf(e)]
    BY DEF Stated
  <1>0. DataTypes
    BY TypeParts DEF IInv
  <1>1. ASSUME NEW w \in Workers, NEW o \in OrderIds, SaleCommit(w, o)
        PROVE  e.after = balance'[EventOf(e)]
    <2> DEFINE r == job[w].sale
    <2>1. /\ r.agent \in Agents /\ seen[w] = balance[r.agent]
          /\ balance' = [balance EXCEPT ![r.agent] = @ - r.cost]
          /\ orders' = [orders EXCEPT ![o] =
                          [status |-> "confirmed", sale |-> r]]
      BY <1>1, SaleWrites
    <2>2. orders'[o].sale = r
      BY <1>0, <2>1 DEF DataTypes
    <2>3. e = [order |-> o, amount |-> -r.cost, after |-> seen[w] - r.cost]
      BY <1>1 DEF SaleCommit
    <2>4. EventOf(e) = r.agent
      BY <2>2, <2>3 DEF EventOf
    <2> QED
      BY <1>0, <2>1, <2>3, <2>4 DEF DataTypes
  <1>2. ASSUME NEW w \in Workers, RefundCommit(w)
        PROVE  e.after = balance'[EventOf(e)]
    <2> DEFINE r == job[w].sale
               o == job[w].order
    <2>1. /\ r.agent \in Agents /\ seen[w] = balance[r.agent]
          /\ balance' = [balance EXCEPT ![r.agent] = @ + r.cost]
          /\ o \in OrderIds /\ orders[o].sale = r
          /\ orders' = [orders EXCEPT ![o].status = "refunded"]
          /\ orders[o].status = "confirmed"
      BY <1>2, RefundWrites
    <2>2. orders'[o].sale = r
      BY <1>0, <2>1 DEF DataTypes
    <2>3. e = [order |-> o, amount |-> r.cost, after |-> seen[w] + r.cost]
      BY <1>2 DEF RefundCommit
    <2>4. EventOf(e) = r.agent
      BY <2>2, <2>3 DEF EventOf
    <2> QED
      BY <1>0, <2>1, <2>3, <2>4 DEF DataTypes
  <1>3. ASSUME NEW w \in Workers, AdjustCommit(w)
        PROVE  e.after = balance'[EventOf(e)]
    <2> DEFINE j == job[w].adjust
    <2>1. /\ j.agent \in Agents /\ seen[w] = balance[j.agent]
          /\ balance' = [balance EXCEPT ![j.agent] = @ + j.amount]
      BY <1>3, AdjustWrites
    <2>2. e = [adjust |-> j, after |-> seen[w] + j.amount]
      BY <1>3 DEF AdjustCommit
    <2>3. EventOf(e) = j.agent
      BY <2>2 DEF EventOf
    <2> QED
      BY <1>0, <2>1, <2>2, <2>3 DEF DataTypes
  <1> QED
    BY <1>1, <1>2, <1>3, OtherSteps

\* Each line of a statement shows the balance at the moment it is written.
THEOREM StatementExactHolds == Spec => StatementExact
  BY Invariant, StatedStep, PTL DEF Spec, StatementExact

\* The quote of a sale that has read the account is the one in force.
Quoted ==
    \A w \in Workers :
      pc[w] = "ready" /\ job[w].kind = "sale" => quote[w] = QuoteOf(job[w])

\* A step of a worker leaves the others alone.
LEMMA OthersWait ==
    ASSUME WorkTypes, NEW w \in Workers, Start(w) \/ Proceed(w) \/ Crash(w),
           NEW v \in Workers, v # w
    PROVE  pc'[v] = pc[v] /\ job'[v] = job[v] /\ quote'[v] = quote[v]
  <1> USE DEF WorkTypes
  <1>1. CASE \E k : Begin(w, k)
    BY <1>1 DEF Begin
  <1>2. CASE ReadBalance(w)
    BY <1>2 DEF ReadBalance
  <1>3. CASE Release(w)
    BY <1>3 DEF Release
  <1>4. (\E k : Begin(w, k)) \/ ReadBalance(w) \/ Release(w)
    BY DEF Start, SaleBegin, RefundBegin, AdjustBegin, TierBegin,
           Proceed, SaleAccount, RefundAccount, ReadAccount, AgentAccount,
           SaleCommit, RefundCommit, AdjustCommit, TierCommit,
           Refuse, Crash, Rollback
  <1> QED
    BY <1>1, <1>2, <1>3, <1>4

\* While a sale has its quote, nobody else changes its price or its agent.
LEMMA TermsHold ==
    ASSUME IInv, Next, NEW v \in Workers,
           pc[v] = "ready", job[v].kind = "sale", pc'[v] = "ready"
    PROVE  /\ price'[job[v].sale.app][job[v].sale.agent]
                = price[job[v].sale.app][job[v].sale.agent]
           /\ job[v].sale.agent \in active' <=> job[v].sale.agent \in active
  <1> DEFINE r == job[v].sale
  <1>0. WorkTypes /\ DataTypes /\ Held
    BY TypeParts DEF IInv
  <1>1. /\ r.app \in Apps /\ r.agent \in Agents
        /\ OfApp(v) /\ LocksAgent(v) /\ AgentOf(job[v]) = r.agent
        /\ appLock[r.app] = v /\ agentLock[r.agent] = v /\ v # None
    BY <1>0, JobFields DEF WorkTypes, OfApp, LocksAgent, AgentOf, Held
  <1>2. ASSUME NEW w \in Workers, TierCommit(w)
        PROVE  /\ price'[r.app][r.agent] = price[r.app][r.agent]
               /\ active' = active
    <2>1. w # v /\ LocksAgent(w) /\ AgentOf(job[w]) = job[w].agent
      BY <1>0, <1>2 DEF TierCommit, LocksAgent, AgentOf
    <2>2. job[w].agent # r.agent
      BY <1>0, <1>1, <2>1, Exclusive
    <2> QED
      BY <1>0, <1>1, <1>2, <2>2 DEF TierCommit, Reprice, DataTypes
  <1>3. ASSUME NEW g \in Agents, NEW a \in Apps, NEW c, SetPrice(a, g, c)
        PROVE  /\ price'[r.app][r.agent] = price[r.app][r.agent]
               /\ active' = active
    BY <1>0, <1>1, <1>3 DEF SetPrice, DataTypes
  <1>4. ASSUME NEW g \in Agents, SaveAgentTier(g)
        PROVE  /\ price'[r.app][r.agent] = price[r.app][r.agent]
               /\ active' = active
    <2>1. g # r.agent
      BY <1>1, <1>4 DEF SaveAgentTier, TierLocked
    <2> QED
      BY <1>0, <1>1, <1>4, <2>1 DEF SaveAgentTier, Reprice, DataTypes
  <1>5. ASSUME NEW g \in Agents, SetAgentStatus(g)
        PROVE  /\ price' = price
               /\ r.agent \in active' <=> r.agent \in active
    BY <1>1, <1>5 DEF SetAgentStatus
  <1>6. CASE \E w \in Workers : Start(w)
    BY <1>6
    DEF Start, SaleBegin, RefundBegin, AdjustBegin, TierBegin, Begin, terms
  <1>7. CASE \E w \in Workers : Proceed(w) /\ ~TierCommit(w)
    BY <1>7
    DEF Proceed, SaleAccount, RefundAccount, ReadAccount, AgentAccount,
        ReadBalance, SaleCommit, RefundCommit, AdjustCommit, Refuse, Rollback,
        terms
  <1>8. CASE \E w \in Workers : Crash(w)
    BY <1>8 DEF Crash, Rollback, terms
  <1> QED
    BY <1>2, <1>3, <1>4, <1>5, <1>6, <1>7, <1>8 DEF Next, Administer

LEMMA QuotedStep == IInv /\ Quoted /\ [Next]_vars => Quoted'
  <1> SUFFICES ASSUME IInv, Quoted, [Next]_vars, NEW v \in Workers,
                      pc'[v] = "ready", job'[v].kind = "sale"
               PROVE  (quote[v] = QuoteOf(job[v]))'
    BY DEF Quoted
  <1>0. WorkTypes
    BY TypeParts DEF IInv
  <1>1. CASE ReadBalance(v)
    BY <1>0, <1>1 DEF ReadBalance, QuoteOf, terms, WorkTypes
  <1>2. CASE Next /\ pc'[v] = pc[v] /\ job'[v] = job[v] /\ quote'[v] = quote[v]
    <2>1. quote[v] = QuoteOf(job[v])
      BY <1>2 DEF Quoted
    <2> QED
      BY <1>2, <2>1, TermsHold DEF QuoteOf
  <1>3. CASE UNCHANGED vars
    BY <1>3 DEF vars, workers, terms, Quoted, QuoteOf
  <1>4. ASSUME Start(v) \/ Proceed(v) \/ Crash(v)
        PROVE  ReadBalance(v)
    <2>1. ~Release(v) /\ ~(\E k : Begin(v, k))
      BY <1>0 DEF Release, Begin, WorkTypes
    <2> QED
      BY <1>4, <2>1
      DEF Start, SaleBegin, RefundBegin, AdjustBegin, TierBegin,
          Proceed, SaleAccount, RefundAccount, ReadAccount, AgentAccount,
          SaleCommit, RefundCommit, AdjustCommit, TierCommit,
          Refuse, Crash, Rollback
  <1>5. CASE Administer
    BY <1>2, <1>5
    DEF Administer, SetPrice, SaveAgentTier, SetAgentStatus, workers, Next
  <1> QED
    BY <1>0, <1>1, <1>2, <1>3, <1>4, <1>5, OthersWait DEF Next

LEMMA QuotedHolds == Spec => []Quoted
  <1>1. Init => Quoted
    BY DEF Init, Quoted
  <1> QED
    BY <1>1, QuotedStep, Invariant, PTL DEF Spec

LEMMA SoldStep == IInv /\ Quoted /\ [Next]_vars => SoldFairly
  <1> SUFFICES ASSUME IInv, Quoted, [Next]_vars, NEW p \in OrderIds,
                      orders[p] = NoOrder, orders'[p] # NoOrder
               PROVE  LET r == orders'[p].sale
                      IN  price[r.app][r.agent] = r.cost /\ r.agent \in active
    BY DEF SoldFairly
  <1>0. DataTypes
    BY TypeParts DEF IInv
  <1>1. ASSUME NEW w \in Workers, NEW o \in OrderIds, SaleCommit(w, o)
        PROVE  LET r == orders'[p].sale
               IN  price[r.app][r.agent] = r.cost /\ r.agent \in active
    <2>1. orders'[p].sale = job[w].sale
      BY <1>0, <1>1 DEF SaleCommit, DataTypes
    <2>2. quote[w] = QuoteOf(job[w]) /\ quote[w] = job[w].sale.cost
      BY <1>1 DEF Quoted, SaleCommit, Payable
    <2>3. job[w].kind = "sale" /\ job[w].sale.cost # None
      BY <1>1, SaleWrites DEF SaleCommit
    <2> QED
      BY <2>1, <2>2, <2>3 DEF QuoteOf
  <1>2. ASSUME NEW w \in Workers, RefundCommit(w)
        PROVE  FALSE
    <2> DEFINE o == job[w].order
    <2>1. /\ o \in OrderIds /\ orders[o].status = "confirmed"
          /\ orders' = [orders EXCEPT ![o].status = "refunded"]
      BY <1>2, RefundWrites
    <2>2. p # o
      BY <2>1
    <2> QED
      BY <1>0, <2>1, <2>2 DEF DataTypes
  <1>3. ASSUME NEW w \in Workers, AdjustCommit(w)
        PROVE  FALSE
    BY <1>3, AdjustWrites
  <1> QED
    BY <1>1, <1>2, <1>3, OtherSteps

\* An order is charged at the price in force, to an active agent: the locks
\* keep a quote valid until its sale commits.
THEOREM SoldAtPriceHolds == Spec => SoldAtPrice
  BY Invariant, QuotedHolds, SoldStep, PTL DEF Spec, SoldAtPrice

-----------------------------------------------------------------------------
(* The transactions implement the ledger of whole operations *)

LEMMA LedgerInit == Init => Ledger!Init
  BY DEF Init, Ledger!Init, Ledger!NoOrder

LEMMA LedgerStep == IInv /\ [Next]_vars => [Ledger!Next]_(Ledger!ledger)
  <1> SUFFICES ASSUME IInv, [Next]_vars
               PROVE  Ledger!Next \/ UNCHANGED Ledger!ledger
    OBVIOUS
  <1>0. DataTypes
    BY TypeParts DEF IInv
  <1>1. ASSUME NEW w \in Workers, NEW o \in OrderIds, SaleCommit(w, o)
        PROVE  Ledger!Sell(job[w].sale, o) /\ job[w].sale \in Sales
    <2>1. Ledger!SoldFor(job[w].sale) = {}
      BY <1>1, SaleWrites
      DEF Replayed, Ledger!SoldFor, Ledger!Sold, Ledger!SameKey,
          Ledger!NoOrder
    <2>2. orders[o] = NoOrder /\ adjusted' = adjusted
      BY <1>1 DEF SaleCommit
    <2>3. job[w].sale.cost <= balance[job[w].sale.agent]
      BY <1>0, <1>1, SaleWrites DEF DataTypes
    <2> QED
      BY <1>1, <2>1, <2>2, <2>3, SaleWrites DEF Ledger!Sell, Ledger!NoOrder
  <1>2. ASSUME NEW w \in Workers, RefundCommit(w)
        PROVE  Ledger!Refund(job[w].order) /\ job[w].order \in OrderIds
    BY ZenonT(60), <1>2, RefundWrites DEF RefundCommit, Ledger!Refund
  <1>3. ASSUME NEW w \in Workers, AdjustCommit(w)
        PROVE  Ledger!Adjust(job[w].adjust) /\ job[w].adjust \in Adjusts
    <2>1. Ledger!AdjustedFor(job[w].adjust) = {}
      BY <1>3, AdjustWrites DEF AdjustedBefore, Ledger!AdjustedFor
    <2> QED
      BY <1>3, <2>1, AdjustWrites DEF Ledger!Adjust
  <1>4. CASE \A w \in Workers : ~ \/ \E o \in OrderIds : SaleCommit(w, o)
                                  \/ RefundCommit(w) \/ AdjustCommit(w)
    BY <1>4, OtherSteps DEF Ledger!ledger
  <1> QED
    BY <1>1, <1>2, <1>3, <1>4 DEF Ledger!Next

\* However the transactions interleave and wherever they are cut off, the
\* accounts change as if each sale, refund and adjustment were one step.
THEOREM SerializableHolds == Spec => Serializable
  BY Invariant, LedgerInit, LedgerStep, PTL
  DEF Spec, Serializable, Ledger!Spec
=============================================================================
