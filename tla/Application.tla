---------------------------- MODULE Application ----------------------------
(***************************************************************************)
(* What surrounds an application's licences, side by side: the admission   *)
(* of requests, the application's row and keys, the audit trail, the       *)
(* packages, the updates and downloads that are given, and the rows that   *)
(* keep visitors out.  They share no state: a behaviour chooses one of     *)
(* them and runs it while the others stay.                                 *)
(***************************************************************************)
EXTENDS Requests, Applications, AuditTrail, Packages, RiskControl, Security,
        Updates

VARIABLE part

requestVars == vars
\* A bound: once the secret was reset, no signed token is followed.
ApplicationBound == resets' > 0 => token' = NoToken

applicationVars ==
    <<requestVars, appVars, auditVars, pkgVars, riskVars, securityVars, updVars>>

ApplicationInit ==
    /\ part \in {"requests", "application", "audit", "packages", "risk",
                 "security", "updates"}
    /\ Init /\ AppInit /\ AuditInit /\ PkgInit
    /\ RiskInit /\ SecurityInit /\ UpdInit
    \* one initial state for a component that stays
    /\ part = "requests" \/ ~lic.monthly
    /\ part = "application" \/ appRow.developer = Nobody
    /\ part = "audit" \/ committed.head.hash = Hash(CHOOSE w \in Writers : TRUE,
                                                  [sequence |-> 0, hash |-> Genesis])
    /\ part = "updates" \/ licence.lease = NoLease

ApplicationNext ==
    \/ /\ part = "requests" /\ Next
       /\ UNCHANGED <<part, appVars, auditVars, pkgVars, riskVars, securityVars, updVars>>
    \/ /\ part = "application" /\ AppNext /\ ApplicationBound
       /\ UNCHANGED <<part, requestVars, auditVars, pkgVars, riskVars, securityVars, updVars>>
    \/ /\ part = "audit" /\ AuditNext
       /\ UNCHANGED <<part, requestVars, appVars, pkgVars, riskVars, securityVars, updVars>>
    \/ /\ part = "packages" /\ PkgNext
       /\ UNCHANGED <<part, requestVars, appVars, auditVars, riskVars, securityVars, updVars>>
    \/ /\ part = "risk" /\ RiskNext
       /\ UNCHANGED <<part, requestVars, appVars, auditVars, pkgVars, securityVars, updVars>>
    \/ /\ part = "security" /\ SecurityNext
       /\ UNCHANGED <<part, requestVars, appVars, auditVars, pkgVars, riskVars, updVars>>
    \/ /\ part = "updates" /\ UpdNext
       /\ UNCHANGED <<part, requestVars, appVars, auditVars, pkgVars, riskVars, securityVars>>

ApplicationSpec == ApplicationInit /\ [][ApplicationNext]_<<part, applicationVars>>

-----------------------------------------------------------------------------
\* A package is handed out only under rights that were there when it had been read,
\* a case restricts only by review and its appeals wait for one, and a manifest is
\* earned by the licence and names the best build that fits (DownloadRelease,
\* ReviewSecurityCase, authorizeUpdate).
DownloadsSound == SecuritySound /\ UpdatesSound
=============================================================================
