------------------------------ MODULE Platform ------------------------------
(***************************************************************************)
(* The components of trade, and those that install, migrate, restore and   *)
(* prune the platform's database, side by side.  They share no state: a    *)
(* behaviour chooses one of them and runs it while the others stay, so     *)
(* that their states add up in a run and do not multiply.                  *)
(***************************************************************************)
EXTENDS Renewals, Sales, Quotas, Installation, Migrations, Restore, Logs

VARIABLE part

renewalVars == vars
\* A bound: the application is suspended on the first day only.
RenewalBound == ~appActive' => now' = 0

platformVars ==
    <<renewalVars, salesVars, quotaVars, insVars, migVars, restoreVars, logVars>>

PlatformInit ==
    /\ part \in {"renewals", "sales", "quotas", "installation", "migrations",
                 "restore", "archive", "exports"}
    /\ Init /\ SalesInit /\ QuotaInit
    /\ InsInit /\ MigInit /\ RestoreInit /\ LogInit
    \* one initial state for a component that stays
    /\ part = "renewals" \/ \A l \in Targets : ~lic[l].perpetual
    /\ part = "quotas" \/ ~offer.quota
    /\ part = "installation" \/ admins[DefaultDb] = 0
    /\ part = "migrations" \/ driver = "sqlite"

PlatformNext ==
    \/ /\ part = "renewals" /\ Next /\ RenewalBound
       /\ UNCHANGED <<part, salesVars, quotaVars, insVars, migVars, restoreVars, logVars>>
    \/ /\ part = "sales" /\ SalesNext
       /\ UNCHANGED <<part, renewalVars, quotaVars, insVars, migVars,
                      restoreVars, logVars>>
    \/ /\ part = "quotas" /\ QuotaNext
       /\ UNCHANGED <<part, renewalVars, salesVars, insVars, migVars,
                      restoreVars, logVars>>
    \/ /\ part = "installation" /\ InsNext
       /\ UNCHANGED <<part, renewalVars, salesVars, quotaVars, migVars,
                      restoreVars, logVars>>
    \/ /\ part = "migrations" /\ MigNext
       /\ UNCHANGED <<part, renewalVars, salesVars, quotaVars, insVars,
                      restoreVars, logVars>>
    \/ /\ part = "restore" /\ RestoreNext
       /\ UNCHANGED <<part, renewalVars, salesVars, quotaVars, insVars, migVars, logVars>>
    \/ /\ part = "archive" /\ ArchiveNext
       /\ UNCHANGED <<part, renewalVars, salesVars, quotaVars, insVars,
                      migVars, restoreVars>>
    \/ /\ part = "exports" /\ ExportNext
       /\ UNCHANGED <<part, renewalVars, salesVars, quotaVars, insVars,
                      migVars, restoreVars>>

PlatformSpec == PlatformInit /\ [][PlatformNext]_<<part, platformVars>>

-----------------------------------------------------------------------------
\* A database is installed once and keeps the key that sealed its secrets; its
\* scripts run one after the other and never twice without an interruption; what a
\* restore leaves is complete or absent; and no log row is lost and no export
\* mixed (Initialize, Migrate, Restore, ArchiveLogBatch, StreamHistory).
PlatformSound ==
    InstallationSound /\ MigrationsSound /\ RestoreSound /\ LogsSound
=============================================================================
