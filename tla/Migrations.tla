----------------------------- MODULE Migrations -----------------------------
(***************************************************************************)
(* The scripts that bring a database to a release's schema.  Servers that  *)
(* start, an installation and a backup of the same database wait for one   *)
(* lock.  SQLite runs a script and records it in one transaction; MySQL    *)
(* commits every statement, so that a stopped process leaves a script      *)
(* half done, or done and not recorded.                                    *)
(***************************************************************************)
EXTENDS Integers, Sequences, FiniteSets

CONSTANTS
    Migrators,    \* processes that start, or install, on the database
    Saver,        \* a backup of it
    Releases,     \* sequences of the digests of a release's scripts
    MaxBreaks     \* bound on processes stopped and scripts failed

ASSUME MigrationsAssumption ==
    /\ Saver \notin Migrators /\ MaxBreaks \in Nat
    /\ "free" \notin Migrators \cup {Saver}
    /\ \A r \in Releases : r \in Seq(STRING) /\ \A k \in DOMAIN r : r[k] # "missing"

VARIABLES
    driver,       \* "sqlite" or "mysql"
    lock,         \* GET_LOCK, or the lock file: who holds it
    schema,       \* script -> the digest of what has run last, and whether to its end
    recorded,     \* schema_migrations: script -> digest
    column,       \* the columns and indexes that no script adds are there
    migrating,    \* process -> how far it is
    runs, breaks  \* history: script -> how often it has been begun

migVars == <<driver, lock, schema, recorded, column, migrating, runs, breaks>>

\* Scripts are numbered in the order in which they were added.
Scripts == UNION {DOMAIN r : r \in Releases}
Unlocked == "free"
Missing == "missing"
NoMigration == [at |-> "idle", release |-> <<>>, script |-> 0]

Here(m) == migrating[m]
MovesTo(m, at) == migrating' = [migrating EXCEPT ![m].at = at]
Leaves(m) ==
    /\ migrating' = [migrating EXCEPT ![m] = NoMigration]
    /\ lock' = IF lock = m THEN Unlocked ELSE lock

-----------------------------------------------------------------------------
Begin(m, r) ==
    /\ migrating[m].at \in {"idle", "serving"}
    /\ migrating' = [migrating EXCEPT ![m] = [at |-> "waiting", release |-> r, script |-> 1]]
    /\ UNCHANGED <<driver, column, lock, schema, recorded, runs, breaks>>

\* Mutant: whoever comes goes on.
PassLock(m) ==
    /\ Here(m).at = "waiting"
    /\ lock' = m
    /\ MovesTo(m, "locked")
    /\ UNCHANGED <<driver, column, schema, recorded, runs, breaks>>

\* migrationLock; LockSchema is the same lock.
MigrationLock(m) ==
    /\ Here(m).at = "waiting"
    /\ lock = Unlocked
    /\ lock' = m
    /\ MovesTo(m, "locked")
    /\ UNCHANGED <<driver, column, schema, recorded, runs, breaks>>

LockTimesOut(m) ==
    /\ Here(m).at = "waiting" /\ lock # Unlocked
    /\ Leaves(m)
    /\ UNCHANGED <<driver, column, schema, recorded, runs, breaks>>

\* applyMigration: a recorded script is skipped, unless its text has changed.
LookUp(m) ==
    LET k == Here(m).script
        r == Here(m).release
    IN  /\ Here(m).at = "locked" /\ k <= Len(r)
        /\ \/ /\ recorded[k] = r[k]
              /\ migrating' = [migrating EXCEPT ![m].script = k + 1]
              /\ UNCHANGED lock
           \/ recorded[k] = Missing /\ MovesTo(m, "missing") /\ UNCHANGED lock
           \/ recorded[k] \notin {Missing, r[k]} /\ Leaves(m)
        /\ UNCHANGED <<driver, column, schema, recorded, runs, breaks>>

Digest(m) == Here(m).release[Here(m).script]
Count(m) == runs' = [runs EXCEPT ![Here(m).script] = @ + 1]

RunInTransaction(m) ==
    /\ driver = "sqlite" /\ Here(m).at = "missing"
    /\ schema' = [schema EXCEPT ![Here(m).script] = [text |-> Digest(m), done |-> TRUE]]
    /\ recorded' = [recorded EXCEPT ![Here(m).script] = Digest(m)]
    /\ Count(m)
    /\ MovesTo(m, "locked")
    /\ UNCHANGED <<driver, column, lock, breaks>>

RunScript(m) ==
    /\ driver = "mysql" /\ Here(m).at = "missing"
    /\ schema' = [schema EXCEPT ![Here(m).script] = [text |-> Digest(m), done |-> FALSE]]
    /\ Count(m)
    /\ MovesTo(m, "running")
    /\ UNCHANGED <<driver, column, lock, recorded, breaks>>

ScriptEnds(m) ==
    /\ Here(m).at = "running"
    /\ schema' = [schema EXCEPT ![Here(m).script].done = TRUE]
    /\ MovesTo(m, "ran")
    /\ UNCHANGED <<driver, column, lock, recorded, runs, breaks>>

\* Mutant: recorded before it has run.
RecordEarly(m) ==
    /\ Here(m).at = "running"
    /\ recorded' = [recorded EXCEPT ![Here(m).script] = Digest(m)]
    /\ MovesTo(m, "locked")
    /\ UNCHANGED <<driver, column, lock, schema, runs, breaks>>

RecordScript(m) ==
    /\ Here(m).at = "ran"
    /\ recorded' = [recorded EXCEPT ![Here(m).script] = Digest(m)]
    /\ MovesTo(m, "locked")
    /\ UNCHANGED <<driver, column, lock, schema, runs, breaks>>

\* The process, its connections and its locks are gone; or a statement has failed.
Breaks(m) ==
    /\ breaks < MaxBreaks /\ Here(m).at \notin {"idle", "serving"}
    /\ Leaves(m)
    /\ breaks' = breaks + 1
    /\ UNCHANGED <<driver, column, schema, recorded, runs>>

\* ensureHistoryIndexes, ensureAccountEmailColumns, ensureRiskBlockExpiresAt: one
\* column stands for what they add.
LookForColumn(m) ==
    /\ Here(m).at = "locked" /\ Here(m).script > Len(Here(m).release)
    /\ MovesTo(m, IF column THEN "ready" ELSE "absent")
    /\ UNCHANGED <<driver, column, lock, schema, recorded, runs, breaks>>

\* A column that is there makes the statement fail.
AddColumn(m) ==
    /\ Here(m).at = "absent" /\ ~column
    /\ column' = TRUE
    /\ MovesTo(m, "ready")
    /\ UNCHANGED <<driver, lock, schema, recorded, runs, breaks>>

Serve(m) ==
    /\ Here(m).at = (IF m = Saver THEN "locked" ELSE "ready")
    /\ migrating' = [migrating EXCEPT ![m] =
         IF m = Saver THEN NoMigration ELSE [@ EXCEPT !.at = "serving"]]
    /\ lock' = Unlocked
    /\ UNCHANGED <<driver, column, schema, recorded, runs, breaks>>

-----------------------------------------------------------------------------
MigInit ==
    /\ driver \in {"sqlite", "mysql"}
    /\ lock = Unlocked /\ column = FALSE
    /\ schema = [k \in Scripts |-> [text |-> Missing, done |-> FALSE]]
    /\ recorded = [k \in Scripts |-> Missing]
    /\ migrating = [m \in Migrators \cup {Saver} |-> NoMigration]
    /\ runs = [k \in Scripts |-> 0] /\ breaks = 0

\* A backup holds the lock and runs nothing.
MigNext ==
    \/ \E m \in Migrators, r \in Releases : Begin(m, r)
    \/ Begin(Saver, <<>>)
    \/ \E m \in Migrators \cup {Saver} :
         MigrationLock(m) \/ LockTimesOut(m) \/ Breaks(m) \/ Serve(m)
    \/ \E m \in Migrators :
         \/ LookUp(m) \/ RunInTransaction(m)
         \/ RunScript(m) \/ ScriptEnds(m) \/ RecordScript(m)
         \/ LookForColumn(m) \/ AddColumn(m)

MigSpec == MigInit /\ [][MigNext]_migVars

-----------------------------------------------------------------------------
\* One process at a time changes the schema, and none while a backup reads it
\* (migrationLock: "prevents concurrent startup migrations"; LockSchema); what is
\* recorded has run to its end, in that text, and after every script before it; a
\* script is begun again only after an interruption, and on SQLite never; a column
\* found missing is still missing when it is added; and a server serves only when
\* the scripts of its release are recorded as they are and the columns are there.
MigrationsSound ==
    /\ Cardinality({m \in Migrators \cup {Saver} :
                      migrating[m].at \notin {"idle", "waiting", "serving"}}) <= 1
    /\ \A k \in Scripts : recorded[k] # Missing =>
         /\ schema[k] = [text |-> recorded[k], done |-> TRUE]
         /\ \A j \in 1 .. k : recorded[j] # Missing
    /\ \A k \in Scripts : runs[k] <= 1 + (IF driver = "sqlite" THEN 0 ELSE breaks)
    /\ \A m \in Migrators :
         /\ migrating[m].at = "absent" => ~column
         /\ migrating[m].at = "serving" =>
              /\ column
              /\ \A k \in 1 .. Len(migrating[m].release) : recorded[k] = migrating[m].release[k]
=============================================================================
