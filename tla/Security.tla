------------------------------ MODULE Security ------------------------------
(***************************************************************************)
(* Security cases of one licence and what they do to its downloads.  A     *)
(* client's report or a mismatch opens a case or counts up the one there   *)
(* is; only a review confirms it with an action, and the owner may appeal. *)
(* A download checks rights, security, release and settings one after the  *)
(* other, again after the package has been hashed, and locks nothing.      *)
(***************************************************************************)
EXTENDS Integers

CONSTANTS
    Owners,          \* customers the licence may belong to
    NoOwner,         \* no customer
    Signals,         \* kinds of signals: one case of each
    Downloads,       \* download requests in flight
    MaxOccurrences   \* bound on the signals of a case

ASSUME SecurityAssumption == MaxOccurrences \in Nat \ {0}

VARIABLES
    policy,     \* product_security_policies
    cases,      \* security_cases
    signals,    \* signals whose policy check has passed, not yet recorded
    possessor,  \* license_owners
    appeals,    \* security_appeals
    shop,       \* the licence's other rights, the release and the settings
    download,   \* requests: what they check next
    witnessed   \* history: what has held since the package of a download was read

securityVars == <<policy, cases, signals, possessor, appeals, shop, download, witnessed>>

Actions == {"observe", "deny_updates", "deny_use"}
NoCase == [status |-> "none", action |-> "observe", occurrences |-> 0]
Policy == [enabled : BOOLEAN, accepts : BOOLEAN, action : Actions]

ActiveCases == {s \in Signals : cases[s].status = "confirmed"}
Restricting(action) == \E s \in ActiveCases : cases[s].action = action

\* securityAction: the most severe of the confirmed cases.
SecurityAction ==
    IF ~policy.enabled THEN "observe"
    ELSE IF Restricting("deny_use") THEN "deny_use"
    ELSE IF Restricting("deny_updates") THEN "deny_updates"
    ELSE "observe"

-----------------------------------------------------------------------------
(* Cases *)

SetSecurityPolicy(p) ==
    /\ policy' = p
    /\ UNCHANGED <<cases, signals, possessor, appeals, shop, download>>

\* recordBindingMismatch and ReportIntegrity look at the policy first; a
\* report needs the use of the licence.
NoticeSignal(s) ==
    /\ policy.enabled /\ policy.accepts
    /\ s = "integrity" => shop.entitled /\ SecurityAction # "deny_use"
    /\ signals' = signals \cup {s}
    /\ UNCHANGED <<policy, cases, possessor, appeals, shop, download>>

CountedUp(s) ==
    IF cases[s] = NoCase THEN [status |-> "open", action |-> "observe", occurrences |-> 1]
    ELSE [cases[s] EXCEPT !.occurrences = @ + 1]

RecordSecurityCase(s) ==
    /\ s \in signals
    /\ cases[s].occurrences < MaxOccurrences
    /\ cases' = [cases EXCEPT ![s] = CountedUp(s)]
    /\ signals' = signals \ {s}
    /\ UNCHANGED <<policy, possessor, appeals, shop, download>>

\* Mutant: a case is resolved and its appeals stay open.
KeepAppeals(s, status) == appeals

CloseAppeals(s, status) ==
    IF status = "resolved"
    THEN [appeals EXCEPT ![s] = [u \in Owners |-> IF @[u] = "open" THEN "closed" ELSE @[u]]]
    ELSE appeals

\* Without an action the policy's one is taken.
ReviewSecurityCase(s, status, action) ==
    LET decided == IF status = "resolved" THEN "observe"
                   ELSE IF action = "" THEN policy.action ELSE action
    IN  /\ cases[s] # NoCase
        /\ cases' = [cases EXCEPT ![s].status = status, ![s].action = decided]
        /\ appeals' = CloseAppeals(s, status)
        /\ UNCHANGED <<policy, signals, possessor, shop, download>>

\* An appeal that exists is answered as it is, also a closed one.
AppealSecurityCase(u, s) ==
    /\ possessor = u
    /\ cases[s] # NoCase /\ cases[s].status # "resolved"
    /\ appeals' = [appeals EXCEPT ![s][u] = IF @ = "none" THEN "open" ELSE @]
    /\ UNCHANGED <<policy, cases, signals, possessor, shop, download>>

\* No change once it is the owner's: a transfer also needs the product's leave.
AssignOwner(u) ==
    /\ possessor # u
    /\ possessor' = u
    /\ UNCHANGED <<policy, cases, signals, appeals, shop, download>>

-----------------------------------------------------------------------------
(* Downloads *)

\* The licence's term and status, ChangeReleaseStatus, SetProductUpdates.
ChangeShop(thing) ==
    /\ shop' = [shop EXCEPT ![thing] = ~@]
    /\ UNCHANGED <<policy, cases, signals, possessor, appeals, download>>

Goes(d, at) == download' = [download EXCEPT ![d] = at]
Unmoved == UNCHANGED <<policy, cases, signals, possessor, appeals, shop>>

\* AuthorizeRelease, whose answer the later checks repeat.
AuthorizeRelease(d) ==
    /\ download[d] = "none"
    /\ shop = [entitled |-> TRUE, published |-> TRUE, updates |-> TRUE]
    /\ SecurityAction = "observe"
    /\ Goes(d, "hashing")
    /\ Unmoved

OpenRelease(d) ==
    /\ download[d] = "hashing"
    /\ Goes(d, "rights")
    /\ Unmoved

\* A check that fails ends the request.
Check(d, at, holds, next) ==
    /\ download[d] = at
    /\ Goes(d, IF holds THEN next ELSE "refused")
    /\ Unmoved

\* authorizeUpdate: Verify, then the policy, then the cases.
CheckRights(d) ==
    \/ Check(d, "rights", shop.entitled, "policy")
    \/ Check(d, "again", shop.entitled, "lastPolicy")

\* Where no policy is enabled the cases are not read.
CheckPolicy(d) ==
    \/ Check(d, "policy", TRUE, IF policy.enabled THEN "cases" ELSE "release")
    \/ /\ policy.enabled
       /\ Check(d, "lastPolicy", TRUE, "lastCases")
    \/ /\ download[d] = "lastPolicy" /\ ~policy.enabled
       /\ Goes(d, "handed")
       /\ Unmoved

NoneRestricts == ~Restricting("deny_use") /\ ~Restricting("deny_updates")

CheckCases(d) ==
    \/ Check(d, "cases", NoneRestricts, "release")
    \/ Check(d, "lastCases", NoneRestricts, "handed")

\* Mutant: the release is not read again after the hashing.
ReleaseAsRead == TRUE

ReleasePublished == shop.published

CheckRelease(d) ==
    \/ Check(d, "release", ReleasePublished, "settings")
    \/ Check(d, "settings", shop.updates, "again")

Close(d) ==
    /\ download[d] \in {"handed", "refused"}
    /\ Goes(d, "none")
    /\ Unmoved
-----------------------------------------------------------------------------
RightsNow ==
    (IF shop.entitled THEN {"entitled"} ELSE {})
    \cup (IF shop.published THEN {"published"} ELSE {})
    \cup (IF shop.updates THEN {"updates"} ELSE {})
    \cup (IF SecurityAction = "observe" THEN {"unrestricted"} ELSE {})

\* Keeps the history: not a part of the program.
Witness ==
    witnessed' = [d \in Downloads |->
                    IF download'[d] \in {"none", "hashing"} THEN {}
                    ELSE witnessed[d] \cup RightsNow']

SecurityInit ==
    /\ policy = [enabled |-> FALSE, accepts |-> FALSE, action |-> "observe"]
    /\ cases = [s \in Signals |-> NoCase]
    /\ signals = {}
    /\ possessor = NoOwner
    /\ appeals = [s \in Signals |-> [u \in Owners |-> "none"]]
    /\ shop = [entitled |-> TRUE, published |-> TRUE, updates |-> TRUE]
    /\ download = [d \in Downloads |-> "none"]
    /\ witnessed = [d \in Downloads |-> {}]

SecurityStep ==
    \/ \E p \in Policy : SetSecurityPolicy(p)
    \/ \E s \in Signals :
         \/ NoticeSignal(s) \/ RecordSecurityCase(s)
         \/ \E action \in Actions \cup {""} : ReviewSecurityCase(s, "confirmed", action)
         \/ ReviewSecurityCase(s, "resolved", "")
         \/ \E u \in Owners : AppealSecurityCase(u, s)
    \/ \E u \in Owners : AssignOwner(u)
    \/ \E thing \in {"entitled", "published", "updates"} : ChangeShop(thing)
    \/ \E d \in Downloads :
         \/ AuthorizeRelease(d) \/ OpenRelease(d) \/ CheckRights(d) \/ CheckPolicy(d)
         \/ CheckCases(d) \/ CheckRelease(d) \/ Close(d)

SecurityNext == SecurityStep /\ Witness

SecuritySpec == SecurityInit /\ [][SecurityNext]_securityVars

-----------------------------------------------------------------------------
\* Only a review restricts: the signals of clients, however many and whenever
\* they come, leave a case as the last review left it, and what is resolved
\* restricts nothing (RecordSecurityCase, ReviewSecurityCase).
RestrictedByReview ==
    \A s \in Signals : cases[s].action # "observe" => cases[s].status = "confirmed"

\* An open appeal waits for a decision: its case is not resolved.
AppealsWait ==
    \A s \in Signals, u \in Owners :
      appeals[s][u] = "open" => cases[s].status \in {"open", "confirmed"}

\* A withdrawal, a switched off update service, a lost right or a restriction
\* that was there when the package had been read and has lasted is honoured
\* (DownloadRelease: "Recheck rights immediately before handing out the bytes").
HandedLawfully ==
    \A d \in Downloads :
      download[d] = "handed" =>
        witnessed[d] = {"entitled", "published", "updates", "unrestricted"}

SecuritySound == RestrictedByReview /\ AppealsWait /\ HandedLawfully
=============================================================================
