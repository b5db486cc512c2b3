----------------------------- MODULE RiskControl -----------------------------
(***************************************************************************)
(* The blocklist, seen from one address.  Requests look their block up,    *)
(* lift it when it has run out, fail or succeed, count the failures of the *)
(* address and place a block of their own; administrators place and lift   *)
(* blocks meanwhile.  No step locks anything: a request works with what it *)
(* has read.                                                               *)
(***************************************************************************)
EXTENDS Integers

CONSTANTS
    Visitors,       \* requests in flight
    BlockAt,        \* activationAutoBlockThreshold
    BlockTTL,       \* riskAutoBlockTTL, in ticks
    MaxBlockClock   \* bound on the clock

ASSUME RiskAssumption ==
    BlockAt \in Nat \ {0} /\ BlockTTL \in Nat \ {0} /\ MaxBlockClock \in Nat

VARIABLES
    hour,       \* the clock, in ticks far longer than the window of failures
    blocks,     \* risk_blocks: the row of the product and the one of all products
    failures,   \* failed activations audited within the window
    visit,      \* requests
    ordered     \* history: rows an administrator placed and none has lifted

riskVars == <<hour, blocks, failures, visit, ordered>>

Scopes == {"own", "all"}
Never == -1     \* no expires_at
NoBlock == [status |-> "none", until |-> Never]
Block == [status : {"none", "active", "disabled"}, until : Int]
NoRequest == [at |-> "none"]

Active(scope) == blocks[scope].status = "active"
RanOut(scope) == blocks[scope].until # Never /\ blocks[scope].until <= hour
Answered(v) == visit' = [visit EXCEPT ![v] = NoRequest]
Continues(v, at) == visit' = [visit EXCEPT ![v] = [at |-> at]]

\* Mutant: the deadline is replaced with everything else.
UpsertAll(scope, until) == [status |-> "active", until |-> until]

\* An existing row becomes active again and keeps its deadline.
Upsert(scope, until) ==
    [status |-> "active",
     until |-> IF blocks[scope] = NoBlock THEN until ELSE blocks[scope].until]

Disabled(scope) == [blocks EXCEPT ![scope].status = "disabled"]

-----------------------------------------------------------------------------
(* A request *)

\* FindActiveRiskBlock: the product's row before the general one.
Found == IF Active("own") THEN {"own"} ELSE IF Active("all") THEN {"all"} ELSE {}

\* Only that there are enough is ever asked.
Recorded == failures' = IF failures < BlockAt THEN failures + 1 ELSE failures

CheckRiskAccess(v) ==
    /\ visit[v] = NoRequest
    /\ Found = {}
    /\ Continues(v, "activating")
    /\ UNCHANGED <<hour, blocks, failures, ordered>>

\* The attempt is audited as a failed one.
RefuseBlocked(v) ==
    /\ visit[v] = NoRequest
    /\ \E scope \in Found : ~RanOut(scope)
    /\ Recorded
    /\ UNCHANGED <<hour, blocks, visit, ordered>>

SeeRanOut(v) ==
    /\ visit[v] = NoRequest
    /\ \E scope \in Found :
         /\ RanOut(scope)
         /\ visit' = [visit EXCEPT ![v] = [at |-> "lifting", scope |-> scope]]
    /\ UNCHANGED <<hour, blocks, failures, ordered>>

\* Mutant: whatever row is found at that moment is lifted.
LiftFound(v) ==
    /\ visit[v].at = "lifting"
    /\ blocks' = IF Found = {} THEN blocks ELSE Disabled(CHOOSE s \in Found : TRUE)
    /\ Continues(v, "activating")
    /\ UNCHANGED <<hour, failures, ordered>>

\* The row that was read is lifted, whoever has placed it again meanwhile.
LiftRanOut(v) ==
    /\ visit[v].at = "lifting"
    /\ blocks' = IF Active(visit[v].scope) THEN Disabled(visit[v].scope) ELSE blocks
    /\ Continues(v, "activating")
    /\ UNCHANGED <<hour, failures, ordered>>

ActivationSucceeds(v) ==
    /\ visit[v].at = "activating"
    /\ Answered(v)
    /\ UNCHANGED <<hour, blocks, failures, ordered>>

\* Every failure is audited; those of a wrong card are followed up.
ActivationFails(v, probing) ==
    /\ visit[v].at = "activating"
    /\ Recorded
    /\ IF probing THEN Continues(v, "failed") ELSE Answered(v)
    /\ UNCHANGED <<hour, blocks, ordered>>

Many == failures >= BlockAt

EvaluateFailedActivationRisk(v) ==
    /\ visit[v].at = "failed"
    /\ IF Many THEN Continues(v, "counted") ELSE Answered(v)
    /\ UNCHANGED <<hour, blocks, failures, ordered>>

\* autoBlockIP looks before it writes.
LookBeforeBlock(v) ==
    /\ visit[v].at = "counted"
    /\ IF Found = {} THEN Continues(v, "placing") ELSE Answered(v)
    /\ UNCHANGED <<hour, blocks, failures, ordered>>

AutoBlock(v) ==
    /\ visit[v].at = "placing"
    /\ blocks' = [blocks EXCEPT !["own"] = Upsert("own", hour + BlockTTL)]
    /\ Answered(v)
    /\ UNCHANGED <<hour, failures, ordered>>

-----------------------------------------------------------------------------
(* Administrators and time *)

CreateRiskBlock(scope) ==
    /\ blocks' = [blocks EXCEPT ![scope] = Upsert(scope, Never)]
    /\ ordered' = IF blocks'[scope].until = Never THEN ordered \cup {scope} ELSE ordered
    /\ UNCHANGED <<hour, failures, visit>>

DisableRiskBlock(scope) ==
    /\ Active(scope)
    /\ blocks' = Disabled(scope)
    /\ ordered' = ordered \ {scope}
    /\ UNCHANGED <<hour, failures, visit>>

FailuresFade ==
    /\ failures > 0
    /\ failures' \in 0..(failures - 1)
    /\ UNCHANGED <<hour, blocks, visit, ordered>>

HourPasses ==
    /\ hour < MaxBlockClock
    /\ hour' = hour + 1
    /\ failures' = 0
    /\ UNCHANGED <<blocks, visit, ordered>>

-----------------------------------------------------------------------------
RiskInit ==
    /\ hour = 0 /\ failures = 0 /\ ordered = {}
    /\ blocks = [scope \in Scopes |-> NoBlock]
    /\ visit = [v \in Visitors |-> NoRequest]

RiskNext ==
    \/ \E v \in Visitors :
         \/ CheckRiskAccess(v) \/ RefuseBlocked(v) \/ SeeRanOut(v) \/ LiftRanOut(v)
         \/ ActivationSucceeds(v)
         \/ \E probing \in BOOLEAN : ActivationFails(v, probing)
         \/ EvaluateFailedActivationRisk(v) \/ LookBeforeBlock(v) \/ AutoBlock(v)
    \/ \E scope \in Scopes : CreateRiskBlock(scope) \/ DisableRiskBlock(scope)
    \/ FailuresFade \/ HourPasses

RiskSpec == RiskInit /\ [][RiskNext]_riskVars

-----------------------------------------------------------------------------
\* A block that an administrator has placed on a free row is lifted by
\* administrators only: neither the automatic block of a request that looked
\* before it, nor the lifting of a row read earlier, gives it an end
\* (CreateRiskBlock, autoBlockIP, checkRiskAccess).
OrdersStand ==
    \A scope \in ordered : Active(scope) /\ blocks[scope].until = Never
=============================================================================
