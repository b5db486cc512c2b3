------------------------------ MODULE Restore ------------------------------
(***************************************************************************)
(* Restoring a backup: an archive is unpacked into a private directory,    *)
(* checked, imported into an empty database, and published by a rename.    *)
(* The tool may be stopped at any step and started again with another      *)
(* archive, destination or database; one runs at a time.                   *)
(***************************************************************************)
EXTENDS Integers

CONSTANTS
    Archives,       \* files that may be given to the tool, among them ...
    Intact,         \* ... those that are what a backup has written
    Destinations,   \* directories
    Dumps,          \* archives of a MySQL database; the others hold SQLite's file
    DumpTargets     \* MySQL databases

ASSUME RestoreAssumption ==
    /\ Intact \subseteq Archives /\ Dumps \subseteq Archives
    /\ "none" \notin Archives \cup DumpTargets

VARIABLES
    published,   \* destination -> what the rename has put there
    content,     \* MySQL database -> what it holds
    restoring    \* the run of the tool

restoreVars == <<published, content, restoring>>

NotThere == [archive |-> "none", db |-> "none"]
Holds(a, whole) == [archive |-> a, whole |-> whole]
Empty == Holds("none", TRUE)
NotRunning == [at |-> "idle"]

Goes(at) == restoring' = [restoring EXCEPT !.at = at]

-----------------------------------------------------------------------------
\* The destination is a new path.
Unpack(a, d, db) ==
    /\ restoring = NotRunning
    /\ published[d] = NotThere
    /\ restoring' = [at |-> "unpacked", archive |-> a, to |-> d, db |-> db]
    /\ UNCHANGED <<published, content>>

\* Mutant: the end of the archive is not read, nor its files compared.
TrustArchive ==
    /\ restoring.at = "unpacked"
    /\ Goes("checked")
    /\ UNCHANGED <<published, content>>

\* What is encrypted and compressed is authenticated to its end; every file is
\* in the manifest, with its size and digest, and the keys are there.
CheckArchive ==
    /\ restoring.at = "unpacked"
    /\ IF restoring.archive \in Intact THEN Goes("checked") ELSE restoring' = NotRunning
    /\ UNCHANGED <<published, content>>

\* Mutant: a database that is in use is imported into.
AnyDatabase ==
    /\ restoring.at = "checked"
    /\ Goes(IF restoring.archive \in Dumps THEN "empty" ELSE "imported")
    /\ UNCHANGED <<published, content>>

DatabaseEmpty ==
    /\ restoring.at = "checked"
    /\ \/ restoring.archive \notin Dumps /\ Goes("imported")
       \/ restoring.archive \in Dumps /\ content[restoring.db] = Empty /\ Goes("empty")
       \/ /\ restoring.archive \in Dumps /\ content[restoring.db] # Empty
          /\ restoring' = NotRunning
    /\ UNCHANGED <<published, content>>

\* mysql: the dump is executed statement by statement.
Import ==
    /\ restoring.at = "empty"
    /\ content' = [content EXCEPT ![restoring.db] = Holds(restoring.archive, FALSE)]
    /\ Goes("importing")
    /\ UNCHANGED published

ImportEnds ==
    /\ restoring.at = "importing"
    /\ content' = [content EXCEPT ![restoring.db] = Holds(restoring.archive, TRUE)]
    /\ Goes("imported")
    /\ UNCHANGED published

\* The configuration is written into the directory, synced, and the directory
\* renamed; a path that exists by now is refused.
Publish ==
    /\ restoring.at = "imported"
    /\ published' = [published EXCEPT ![restoring.to] =
         [archive |-> restoring.archive,
          db |-> IF restoring.archive \in Dumps THEN restoring.db ELSE "none"]]
    /\ restoring' = NotRunning
    /\ UNCHANGED content

\* An error, or the tool is stopped: a database that has been begun stays so.
Fail ==
    /\ restoring # NotRunning
    /\ restoring' = NotRunning
    /\ UNCHANGED <<published, content>>

\* Somebody else's tables; while the tool works nobody else uses the database it
\* was given (the tool's operator sees to it: an assumption).
OthersUse(db) ==
    /\ content[db] = Empty
    /\ restoring = NotRunning
    /\ content' = [content EXCEPT ![db] = Holds("others", TRUE)]
    /\ UNCHANGED <<published, restoring>>

-----------------------------------------------------------------------------
RestoreInit ==
    /\ published = [d \in Destinations |-> NotThere]
    /\ content = [db \in DumpTargets |-> Empty]
    /\ restoring = NotRunning

RestoreNext ==
    \/ \E a \in Archives, d \in Destinations, db \in DumpTargets : Unpack(a, d, db)
    \/ CheckArchive \/ DatabaseEmpty \/ Import \/ ImportEnds \/ Publish \/ Fail
    \/ \E db \in DumpTargets : OthersUse(db)

RestoreSpec == RestoreInit /\ [][RestoreNext]_restoreVars

-----------------------------------------------------------------------------
\* Whatever runs fail and follow, a destination that exists holds an intact archive
\* and names a database that holds all of it and nothing else, and two destinations
\* never share a database (Restore: "restore requires a completely empty MySQL
\* database", "backup checksum mismatch").
RestoreSound ==
    \A d \in Destinations : published[d] # NotThere =>
        /\ published[d].archive \in Intact
        /\ published[d].archive \in Dumps =>
             /\ content[published[d].db] = Holds(published[d].archive, TRUE)
             /\ \A e \in Destinations \ {d} : published[e].db # published[d].db
=============================================================================
