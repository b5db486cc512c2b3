---------------------------- MODULE Installation ----------------------------
(***************************************************************************)
(* The first run of a server and its restarts: the configuration file, the *)
(* keys, the installation through /install and the gate that keeps every   *)
(* other route closed until it is over.  One server process; it may stop   *)
(* between any two steps, and a write of the file or of a row may fail.    *)
(***************************************************************************)
EXTENDS Integers, FiniteSets

CONSTANTS
    Databases,    \* databases a server can reach
    DefaultDb,    \* YN_DB: the one it opens while the file names none
    Installers,   \* POST /v1/setup/initialize in flight
    MaxStarts,    \* bound on starts of the process
    MaxFailures   \* bound on failed writes

ASSUME InstallationAssumption ==
    /\ DefaultDb \in Databases
    /\ "unset" \notin Databases /\ "free" \notin Installers
    /\ MaxStarts \in Nat /\ MaxFailures \in Nat

VARIABLES
    admins,     \* database -> the number of its rows of admin_users
    file,       \* the configuration file: a database and a key
    server,     \* the process: its store, its key and installReady
    setupMu,    \* who holds the mutex
    installing, \* installer -> how far it is, and its target
    sealedBy,   \* history: database -> the keys that have sealed its data
    starts, failures

insVars == <<admins, file, server, setupMu, installing, sealedBy, starts, failures>>

Unset == "unset"
\* Keys: that of releases which generated none, and the random ones.
NoKey == -1
DevKey == 0
Free == "free"
Idle == [at |-> "idle"]
Stopped == [at |-> "stopped", db |-> Unset, key |-> NoKey, ready |-> FALSE]

\* config.Load: what a server opens and seals with.
OpensDb == IF file.db = Unset THEN DefaultDb ELSE file.db
LoadedKey == IF file.key = NoKey THEN DevKey ELSE file.key

MayFail == failures < MaxFailures /\ failures' = failures + 1

-----------------------------------------------------------------------------
(* The process *)

Start ==
    /\ server = Stopped /\ starts < MaxStarts
    /\ server' = [at |-> "loaded", db |-> OpensDb, key |-> LoadedKey, ready |-> FALSE]
    /\ starts' = starts + 1
    /\ UNCHANGED <<admins, file, setupMu, installing, sealedBy, failures>>

\* Mutant: every server without a key in its file generates one.
FreshKey(initialized) == starts

\* PrepareInstallationKeys: what is installed keeps the key it was sealed with.
\* The number of the start stands for a random key.
KeyFor(initialized) == IF initialized THEN server.key ELSE starts

PrepareInstallationKeys ==
    /\ server.at = "loaded"
    /\ \/ /\ file.key = NoKey
          /\ LET key == KeyFor(admins[server.db] > 0)
             IN  /\ file' = [file EXCEPT !.key = key]
                 /\ server' = [server EXCEPT !.at = "serving", !.key = key]
          /\ UNCHANGED failures
       \/ /\ file.key # NoKey
          /\ server' = [server EXCEPT !.at = "serving"]
          /\ UNCHANGED <<file, failures>>
       \/ file.key = NoKey /\ MayFail /\ server' = Stopped /\ UNCHANGED file
    /\ UNCHANGED <<admins, setupMu, installing, sealedBy, starts>>

Stop ==
    /\ server # Stopped
    /\ server' = Stopped
    /\ setupMu' = Free
    /\ installing' = [i \in Installers |-> Idle]
    /\ UNCHANGED <<admins, file, sealedBy, starts, failures>>

-----------------------------------------------------------------------------
(* Initialize *)

Step(i, at) == installing' = [installing EXCEPT ![i].at = at]
Return(i) ==
    /\ installing' = [installing EXCEPT ![i] = Idle]
    /\ setupMu' = Free

Calls(i, db) ==
    /\ server.at = "serving" /\ installing[i] = Idle
    /\ installing' = [installing EXCEPT ![i] = [at |-> "called", db |-> db]]
    /\ UNCHANGED <<admins, file, server, setupMu, sealedBy, starts, failures>>

\* Mutant: nobody waits.
EntersAtOnce(i) ==
    /\ installing[i].at = "called"
    /\ setupMu' = i
    /\ Step(i, "entered")
    /\ UNCHANGED <<admins, file, server, sealedBy, starts, failures>>

Enters(i) ==
    /\ installing[i].at = "called"
    /\ setupMu = Free
    /\ setupMu' = i
    /\ Step(i, "entered")
    /\ UNCHANGED <<admins, file, server, sealedBy, starts, failures>>

\* The server is not installed, and the target neither.
CheckTarget(i) ==
    /\ installing[i].at = "entered"
    /\ IF admins[server.db] = 0 /\ admins[installing[i].db] = 0
       THEN Step(i, "checked") /\ UNCHANGED setupMu
       ELSE Return(i)
    /\ UNCHANGED <<admins, file, server, sealedBy, starts, failures>>

\* EnsureBootstrapAdmin; another name than that of another administrator.
EnsureBootstrapAdmin(i) ==
    /\ installing[i].at = "checked"
    /\ admins' = [admins EXCEPT ![installing[i].db] = @ + 1]
    /\ Step(i, "created")
    /\ UNCHANGED <<file, server, setupMu, sealedBy, starts, failures>>

\* SaveDatabaseConfig keeps the keys of the file it replaces.
Persist(i) ==
    /\ installing[i].at = "created"
    /\ \/ /\ file' = [file EXCEPT !.db = installing[i].db]
          /\ Step(i, "saved")
          /\ UNCHANGED failures
       \/ MayFail /\ Step(i, "failed") /\ UNCHANGED file
    /\ UNCHANGED <<admins, server, setupMu, sealedBy, starts>>

\* The error of DeleteAdminUser is ignored.
Undo(i) ==
    /\ installing[i].at = "failed"
    /\ \/ admins' = [admins EXCEPT ![installing[i].db] = @ - 1] /\ UNCHANGED failures
       \/ MayFail /\ UNCHANGED admins
    /\ Return(i)
    /\ UNCHANGED <<file, server, sealedBy, starts>>

ReplaceStore(i) ==
    /\ installing[i].at = "saved"
    /\ server' = [server EXCEPT !.db = installing[i].db]
    /\ Return(i)
    /\ UNCHANGED <<admins, file, sealedBy, starts, failures>>

-----------------------------------------------------------------------------
(* installationGate, and what passes it *)

\* Mutant: the gate counts while an installation runs.
SetupStatusAtOnce == server.at = "serving" /\ admins[server.db] > 0

SetupStatus == server.at = "serving" /\ setupMu = Free /\ admins[server.db] > 0

InstallationGate ==
    /\ ~server.ready /\ SetupStatus
    /\ server' = [server EXCEPT !.ready = TRUE]
    /\ UNCHANGED <<admins, file, setupMu, installing, sealedBy, starts, failures>>

\* A request stores something that only the server's key opens.
Seals ==
    /\ server.ready
    /\ sealedBy' = [sealedBy EXCEPT ![server.db] = @ \cup {server.key}]
    /\ UNCHANGED <<admins, file, server, setupMu, installing, starts, failures>>

-----------------------------------------------------------------------------
\* A new server, or one that an older release has installed.
InsInit ==
    /\ \E old \in BOOLEAN :
         /\ admins = [d \in Databases |-> IF old /\ d = DefaultDb THEN 1 ELSE 0]
         /\ sealedBy = [d \in Databases |-> IF old /\ d = DefaultDb THEN {DevKey} ELSE {}]
    /\ file = [db |-> Unset, key |-> NoKey]
    /\ server = Stopped
    /\ setupMu = Free
    /\ installing = [i \in Installers |-> Idle]
    /\ starts = 0 /\ failures = 0

InsNext ==
    \/ Start \/ PrepareInstallationKeys \/ Stop
    \/ \E i \in Installers :
         \/ \E db \in Databases : Calls(i, db)
         \/ Enters(i) \/ CheckTarget(i) \/ EnsureBootstrapAdmin(i)
         \/ Persist(i) \/ Undo(i) \/ ReplaceStore(i)
    \/ InstallationGate \/ Seals

InsSpec == InsInit /\ [][InsNext]_insVars

-----------------------------------------------------------------------------
\* However installations race, fail and are interrupted: a database gets one
\* first administrator (Initialize; docs/installation-and-recovery.md: an installed
\* platform refuses another installation); what has been sealed can be opened by
\* every later server of that database (PrepareInstallationKeys: "Preserve legacy
\* keys"); and once requests pass the gate, which is never asked again, the store
\* behind it has its administrator and is the one the next start opens.
InstallationSound ==
    /\ \A d \in Databases : admins[d] <= 1 /\ Cardinality(sealedBy[d]) <= 1
    /\ server.ready =>
         /\ admins[server.db] = 1
         /\ server.db = OpensDb /\ server.key = LoadedKey
=============================================================================
