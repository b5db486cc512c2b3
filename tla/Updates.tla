------------------------------- MODULE Updates -------------------------------
(***************************************************************************)
(* What updates an installation of a licence is offered, and the manifests *)
(* it is given for them.  A request is one transaction, which holds the    *)
(* application while the package is hashed; time goes on meanwhile, and    *)
(* everybody else waits.                                                   *)
(***************************************************************************)
EXTENDS Integers, FiniteSets, SequencesExt

CONSTANTS
    Builds,        \* releases: [version, specific, least], least = 0 for no minimum
    Named,         \* versions an installation may say it runs
    ManifestTTL,   \* five minutes
    MaxManifests,  \* bound on the manifests given
    MaxUpdateClock \* bound on the clock

ASSUME UpdatesAssumption ==
    /\ ManifestTTL \in Nat \ {0} /\ MaxUpdateClock \in Nat
    /\ IsFiniteSet(Builds)
    /\ \A r \in Builds : r.version \in Nat /\ r.specific \in Nat

VARIABLES
    minute,     \* the clock
    licence,    \* the licence, the application's switch and the activation
    published,  \* releases with status published
    asked,      \* the transaction that is open
    manifests   \* manifests given

updVars == <<minute, licence, published, asked, manifests>>

NoLease == -1
NoAsk == [at |-> "none"]
Earlier(a, b) == IF a < b THEN a ELSE b

\* checkUpdateLicense: statuses and terms.  The grace of a licence that has
\* run out leaves it usable and extends no update.
CheckUpdateLicense(at) ==
    /\ licence.usable /\ ~licence.blocked /\ licence.enabled /\ licence.active
    /\ at < licence.updates
    /\ at < licence.expires
    /\ licence.lease = NoLease \/ at < licence.lease

-----------------------------------------------------------------------------
(* The choice: one pass over the releases in the order of the database *)

\* releaseMatches, and nothing that is not newer.
Fits(r, current, only) ==
    /\ only = {} \/ r \in only
    /\ r.version > current
    /\ r.least = 0 \/ current >= r.least

None == [score |-> -1]

\* Mutant: the version is compared and the better target is not.
PreferVersion(chosen, r) ==
    IF chosen = None \/ r.version > chosen.build.version
    THEN [build |-> r, score |-> r.specific]
    ELSE chosen

Prefer(chosen, r) ==
    IF \/ chosen = None
       \/ r.version > chosen.build.version
       \/ r.version = chosen.build.version /\ r.specific > chosen.score
    THEN [build |-> r, score |-> r.specific]
    ELSE chosen

Choose(order, current, only) ==
    LET best[n \in 0 .. Len(order)] ==
          IF n = 0 THEN None
          ELSE IF Fits(order[n], current, only) THEN Prefer(best[n - 1], order[n])
          ELSE best[n - 1]
    IN  best[Len(order)]

-----------------------------------------------------------------------------
(* Requests *)

\* Mutant: a floating seat's lease is not among the limits.
UntilTerm == Earlier(minute + ManifestTTL, Earlier(licence.updates, licence.expires))

Until ==
    LET term == Earlier(minute + ManifestTTL, Earlier(licence.updates, licence.expires))
    IN  IF licence.lease = NoLease THEN term ELSE Earlier(term, licence.lease)

\* withdrawn: history, whether the right has been taken back since.
Give(r) ==
    /\ Cardinality(manifests) < MaxManifests
    /\ manifests' = manifests \cup {[build |-> r, until |-> Until, withdrawn |-> FALSE]}

\* CheckUpdate names no release, AuthorizeUpdate one.
CheckUpdate(order, current, only) ==
    LET chosen == Choose(order, current, only)
    IN  /\ asked = NoAsk
        /\ CheckUpdateLicense(minute)
        /\ chosen # None
        /\ Until > minute
        /\ Give(chosen.build)
        /\ UNCHANGED <<minute, licence, published, asked>>

\* DownloadUpdate opens and hashes the package within the transaction ...
DownloadUpdate(order, current, r) ==
    LET chosen == Choose(order, current, {r})
    IN  /\ asked = NoAsk
        /\ CheckUpdateLicense(minute)
        /\ chosen # None
        /\ asked' = [at |-> "hashing", build |-> chosen.build]
        /\ UNCHANGED <<minute, licence, published, manifests>>

\* ... checks the licence again, and signs.
Hashed ==
    /\ asked # NoAsk
    /\ asked' = NoAsk
    /\ IF CheckUpdateLicense(minute) /\ Until > minute
       THEN Give(asked.build)
       ELSE UNCHANGED manifests
    /\ UNCHANGED <<minute, licence, published>>

\* The package is missing, not the one of the row, or the transaction ends.
HashFails ==
    /\ asked # NoAsk
    /\ asked' = NoAsk
    /\ UNCHANGED <<minute, licence, published, manifests>>

-----------------------------------------------------------------------------
(* The licence and the releases *)

\* Keeps the history: a manifest whose right is gone is marked.
Mark(right) ==
    {[m EXCEPT !.withdrawn = @ \/ ~right] : m \in manifests}

\* SetLicenseStatus, DeactivateInstallation, ReviewLicenseSecurity and
\* SaveApplication: one of them changes its field.
ChangeRight(field) ==
    /\ asked = NoAsk
    /\ licence' = [licence EXCEPT ![field] = ~@]
    /\ manifests' = Mark(CheckUpdateLicense(minute)')
    /\ UNCHANGED <<minute, published, asked>>

\* redeemRenewal lengthens a term, a refund recomputes it.
ChangeTerm(field, until) ==
    /\ asked = NoAsk
    /\ licence' = [licence EXCEPT ![field] = until]
    /\ manifests' = Mark(until >= licence[field])
    /\ UNCHANGED <<minute, published, asked>>

\* extendLease, up to the usage deadline; a borrowed seat's lease may shorten.
ExtendUpdateLease(seconds) ==
    LET until == Earlier(minute + seconds, licence.expires)
    IN  /\ asked = NoAsk
        /\ licence.lease # NoLease
        /\ minute < until
        /\ licence' = [licence EXCEPT !.lease = until]
        /\ manifests' = Mark(until >= licence.lease)
        /\ UNCHANGED <<minute, published, asked>>

ChangeBuild(r) ==
    /\ asked = NoAsk
    /\ published' = IF r \in published THEN published \ {r} ELSE published \cup {r}
    /\ UNCHANGED <<minute, licence, asked, manifests>>

MinutePasses ==
    /\ minute < MaxUpdateClock
    /\ minute' = minute + 1
    /\ UNCHANGED <<licence, published, asked, manifests>>
-----------------------------------------------------------------------------
UpdInit ==
    /\ minute = 0
    /\ licence \in [usable : {TRUE}, blocked : {FALSE}, enabled : {TRUE}, active : {TRUE},
                    updates : {MaxUpdateClock}, expires : {MaxUpdateClock}, lease : {NoLease, 1}]
    /\ published = {}
    /\ asked = NoAsk
    /\ manifests = {}

UpdNext ==
    \/ \E order \in SetToSeqs(published), current \in Named :
         \/ CheckUpdate(order, current, {})
         \/ \E r \in Builds : CheckUpdate(order, current, {r}) \/ DownloadUpdate(order, current, r)
    \/ Hashed \/ HashFails
    \/ \E field \in {"usable", "blocked", "enabled", "active"} : ChangeRight(field)
    \/ \E field \in {"updates", "expires"}, until \in 0..MaxUpdateClock : ChangeTerm(field, until)
    \/ \E seconds \in 1..2 : ExtendUpdateLease(seconds)
    \/ \E r \in Builds : ChangeBuild(r)
    \/ MinutePasses

UpdSpec == UpdInit /\ [][UpdNext]_updVars

-----------------------------------------------------------------------------
\* Time alone never leaves a manifest behind that the licence no longer earns:
\* one that still holds was issued for a right that still holds, or somebody
\* has taken the right back within the last minutes (authorizeUpdate bounds it
\* by the update term, the term of use and the lease of a floating seat).
ManifestEarned ==
    \A m \in manifests :
      minute < m.until /\ ~m.withdrawn => CheckUpdateLicense(minute)

\* An update is offered whenever one fits, and it is the newest and among those
\* the one for the most specific target, whatever order the rows come in.
ChoiceBest ==
    \A order \in SetToSeqs(published), current \in Named :
      LET fitting == {r \in published : Fits(r, current, {})}
          chosen == Choose(order, current, {})
      IN  IF fitting = {} THEN chosen = None
          ELSE /\ chosen.build \in fitting
               /\ \A r \in fitting :
                    \/ r.version < chosen.build.version
                    \/ r.version = chosen.build.version /\ r.specific <= chosen.build.specific

UpdatesSound == ManifestEarned /\ ChoiceBest
=============================================================================
