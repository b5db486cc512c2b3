---------------------------- MODULE MCAgentMoney ----------------------------
(* AgentMoney on small instances: one agent sells in two applications.      *)
EXTENDS AgentMoney, TLC

CONSTANTS g1, a1, a2, w1, w2, o1, o2

Sale(a, i, c) == [app |-> a, agent |-> g1, id |-> i, cost |-> c]
Adjustment(i, n) == [agent |-> g1, id |-> i, amount |-> n]

\* A retry under another price is a conflict; the other application has its
\* own request IDs.  One adjustment adds money, the other takes it away under the
\* same request ID.
MCSales == {Sale(a1, "q", 1), Sale(a1, "q", 2), Sale(a2, "q", 2)}
MCAdjusts == {Adjustment("k", 2), Adjustment("k", -2)}
MCOpening == [g \in Agents |-> 2]
=============================================================================
