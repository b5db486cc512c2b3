------------------------------ MODULE Packages ------------------------------
(***************************************************************************)
(* Update packages: files in one directory and their rows.  An upload      *)
(* renames its file while its row is not committed yet, a deletion moves   *)
(* the file away first, commits may fail or lose their answer, the server  *)
(* or the machine may stop at any point, stale files are cleaned up, and a *)
(* backup copies rows and files.  Uploads and deletions hold an exclusive  *)
(* file lock, a backup holds it shared.                                    *)
(***************************************************************************)
EXTENDS Integers, FiniteSets

CONSTANTS
    Scoped,      \* releases of applications (licensing)
    Classic,     \* releases of products (service)
    Capacity        \* packages the store takes

Releases == Scoped \cup Classic

ASSUME PackagesAssumption == Scoped \cap Classic = {} /\ Capacity \in Nat

VARIABLES
    rows,      \* status of each release; "sent" while its COMMIT is under way
               \* on a connection that was lost
    place,     \* where its file is: nowhere, a temporary file, its path, the trash
    durable,   \* the same, as a loss of power would show it
    job,       \* how far the request that works on the release has come
    backup,    \* the backup tool
    early      \* history: files removed while the COMMIT of the row was under way

pkgVars == <<rows, place, durable, job, backup, early>>

Live(r) == rows[r] \in {"draft", "published", "withdrawn"}
NoBackup == [at |-> "none"]
Copying == backup.at = "copying"

\* The file lock: deletions and the second half of uploads hold it.
Holding == {"locked", "renamed", "synced", "failed", "deleting", "moved",
            "removing", "checking", "missing"}
Exclusive == \E r \in Releases : job[r] \in Holding
LockFree == ~Exclusive /\ ~Copying

\* release_storage_lock, in the database: a transaction whose COMMIT is under
\* way still has it.
StorageLockFree == \A r \in Releases : rows[r] # "sent"

Advance(r, from, to) ==
    /\ job[r] = from
    /\ job' = [job EXCEPT ![r] = to]

\* A rename or a removal is seen at once and durable after SyncDirectory.
Put(r, where) == place' = [place EXCEPT ![r] = where]

SyncDirectory == durable' = place

-----------------------------------------------------------------------------
(* UploadRelease *)

WriteTemp(r) ==
    /\ Advance(r, "new", "written")
    /\ Put(r, "temp")
    /\ UNCHANGED <<rows, durable, backup, early>>

LockForUpload(r) ==
    /\ LockFree
    /\ Advance(r, "written", "locked")
    /\ UNCHANGED <<rows, place, durable, backup, early>>

\* Applications count all packages, products those of products.
Stored(r) == Cardinality({x \in IF r \in Scoped THEN Releases ELSE Classic : Live(x)})

RenamePackage(r) ==
    /\ StorageLockFree
    /\ Stored(r) < Capacity
    /\ Advance(r, "locked", "renamed")
    /\ Put(r, "path")
    /\ UNCHANGED <<rows, durable, backup, early>>

RefusePackage(r) ==
    /\ StorageLockFree
    /\ Stored(r) >= Capacity
    /\ Advance(r, "locked", "over")
    /\ Put(r, "nowhere")
    /\ UNCHANGED <<rows, durable, backup, early>>

\* Mutant: the directory is not synchronised before the commit.
SyncNothing(r) ==
    /\ Advance(r, "renamed", "synced")
    /\ UNCHANGED <<rows, place, durable, backup, early>>

SyncRename(r) ==
    /\ Advance(r, "renamed", "synced")
    /\ SyncDirectory
    /\ UNCHANGED <<rows, place, backup, early>>

CommitUpload(r) ==
    /\ Advance(r, "synced", "idle")
    /\ rows' = [rows EXCEPT ![r] = "draft"]
    /\ UNCHANGED <<place, durable, backup, early>>

\* The connection is lost after COMMIT was sent.
LoseCommit(r) ==
    /\ Advance(r, "synced", "failed")
    /\ rows' = [rows EXCEPT ![r] = "sent"]
    /\ UNCHANGED <<place, durable, backup, early>>

\* The database carries such a COMMIT out or rolls it back, before or after
\* the handler has looked for the row.
SettleCommit(r, status) ==
    /\ rows[r] = "sent"
    /\ rows' = [rows EXCEPT ![r] = status]
    /\ job' = IF status = "draft" /\ job[r] = "over"
              THEN [job EXCEPT ![r] = "idle"] ELSE job
    /\ UNCHANGED <<place, durable, backup, early>>

FailUpload(r) ==
    /\ job[r] \in {"renamed", "synced"}
    /\ job' = [job EXCEPT ![r] = "failed"]
    /\ UNCHANGED <<rows, place, durable, backup, early>>

\* Mutant: after any error the file is removed.
RemoveAfterError(r) ==
    /\ Advance(r, "failed", "over")
    /\ Put(r, "nowhere")
    /\ UNCHANGED <<rows, durable, backup, early>>

\* Only if the row is found to be absent; the look-up may fail as well.
AfterError(r) ==
    /\ Advance(r, "failed", IF Live(r) THEN "idle" ELSE "over")
    /\ \/ /\ ~Live(r)
          /\ Put(r, "nowhere")
          /\ early' = early \cup {x \in {r} : rows[x] = "sent"}
       \/ UNCHANGED <<place, early>>
    /\ UNCHANGED <<rows, durable, backup>>

-----------------------------------------------------------------------------
(* Status *)

\* A package is published after its file has been read and compared.  Products
\* take the file lock, applications do not.
SetReleaseStatus(r, status) ==
    /\ Live(r)
    /\ r \in Classic => LockFree /\ StorageLockFree
    /\ status = "published" => place[r] = "path"
    /\ rows' = [rows EXCEPT ![r] = status]
    /\ UNCHANGED <<place, durable, job, backup, early>>

-----------------------------------------------------------------------------
(* DeleteRelease *)

LockForDelete(r) ==
    /\ LockFree
    /\ Advance(r, "idle", "deleting")
    /\ UNCHANGED <<rows, place, durable, backup, early>>

MovePackage(r) ==
    /\ StorageLockFree
    /\ rows[r] \in {"draft", "withdrawn"}
    /\ place[r] = "path"
    /\ Advance(r, "deleting", "moved")
    /\ Put(r, "trash")
    /\ UNCHANGED <<rows, durable, backup, early>>

\* A file that is missing already does not keep the row from being deleted.
MissPackage(r) ==
    /\ StorageLockFree
    /\ rows[r] \in {"draft", "withdrawn"}
    /\ place[r] # "path"
    /\ Advance(r, "deleting", "missing")
    /\ UNCHANGED <<rows, place, durable, backup, early>>

RefuseDelete(r) ==
    /\ StorageLockFree
    /\ rows[r] \notin {"draft", "withdrawn"}
    /\ Advance(r, "deleting", "idle")
    /\ UNCHANGED <<rows, place, durable, backup, early>>

SyncMove(r) ==
    /\ Advance(r, "moved", "removing")
    /\ SyncDirectory
    /\ UNCHANGED <<rows, place, backup, early>>

CommitDelete(r) ==
    /\ Advance(r, "removing", "checking") \/ Advance(r, "missing", "idle")
    /\ rows' = [rows EXCEPT ![r] = "deleted"]
    /\ UNCHANGED <<place, durable, backup, early>>

FailDelete(r) ==
    /\ \/ Advance(r, "moved", "checking") \/ Advance(r, "removing", "checking")
       \/ Advance(r, "missing", "idle")
    /\ UNCHANGED <<rows, place, durable, backup, early>>

\* The row decides what becomes of the file, unless the look-up fails.
AfterDelete(r) ==
    /\ Advance(r, "checking", "idle")
    /\ \/ place[r] = "trash" /\ Put(r, IF Live(r) THEN "path" ELSE "nowhere")
       \/ UNCHANGED place
    /\ UNCHANGED <<rows, durable, backup, early>>

-----------------------------------------------------------------------------
(* Clean-up, backup, failures *)

\* A day after a file was touched nobody works on it.
CleanupReleaseTemps(r) ==
    /\ LockFree
    /\ job[r] \in {"idle", "over"}
    /\ \/ place[r] = "temp" /\ Put(r, "nowhere")
       \/ place[r] = "trash" /\ Put(r, IF Live(r) THEN "path" ELSE "nowhere")
    /\ UNCHANGED <<rows, durable, job, backup, early>>

\* Mutant: the backup takes no lock.
MayBegin == TRUE

MayBackup == ~Exclusive

BeginBackup ==
    /\ MayBackup
    /\ backup.at # "copying"
    /\ backup' = [at |-> "copying", left |-> {r \in Releases : Live(r)},
                  lost |-> {r \in Releases : Live(r) /\ place[r] # "path"}]
    /\ UNCHANGED <<rows, place, durable, job, early>>

CopyPackage(r) ==
    /\ Copying
    /\ r \in backup.left
    /\ backup' = IF place[r] = "path" THEN [backup EXCEPT !.left = @ \ {r}]
                 ELSE [backup EXCEPT !.at = "failed"]
    /\ UNCHANGED <<rows, place, durable, job, early>>

PublishArchive ==
    /\ Copying
    /\ backup.left = {}
    /\ backup' = NoBackup
    /\ UNCHANGED <<rows, place, durable, job, early>>

\* The machine stops: what was not synchronised may be undone.
PowerLoss ==
    /\ place' \in [Releases -> {"nowhere", "temp", "path", "trash"}]
    /\ \A r \in Releases : place'[r] \in {place[r], durable[r]}
    /\ durable' = place'
    /\ job' = [r \in Releases |->
                 IF job[r] = "new" THEN "new"
                 ELSE IF rows[r] \in {"none", "sent"} THEN "over"
                 ELSE "idle"]
    /\ backup' = NoBackup
    /\ UNCHANGED <<rows, early>>

-----------------------------------------------------------------------------
PkgInit ==
    /\ rows = [r \in Releases |-> "none"]
    /\ place = [r \in Releases |-> "nowhere"]
    /\ durable = place
    /\ job = [r \in Releases |-> "new"]
    /\ backup = NoBackup
    /\ early = {}

PkgNext ==
    \/ \E r \in Releases :
         \/ WriteTemp(r) \/ LockForUpload(r) \/ RenamePackage(r) \/ RefusePackage(r)
         \/ SyncRename(r) \/ FailUpload(r) \/ AfterError(r)
         \/ CommitUpload(r) \/ LoseCommit(r)
         \/ \E status \in {"none", "draft"} : SettleCommit(r, status)
         \/ \E status \in {"published", "withdrawn"} : SetReleaseStatus(r, status)
         \/ CleanupReleaseTemps(r) \/ CopyPackage(r)
    \/ \E r \in Classic :
         \/ LockForDelete(r) \/ MovePackage(r) \/ MissPackage(r) \/ RefuseDelete(r) \/ SyncMove(r)
         \/ CommitDelete(r) \/ FailDelete(r) \/ AfterDelete(r)
    \/ BeginBackup \/ PublishArchive \/ PowerLoss

PkgSpec == PkgInit /\ [][PkgNext]_pkgVars

-----------------------------------------------------------------------------
(* Properties *)

\* No package whose row says it exists is lost, wherever a request, the server
\* or the machine has stopped: its file is at its path or, after a deletion
\* that did not commit, in the trash, from where it is put back; and a power
\* loss would not change that (UploadRelease, DeleteRelease, SyncDirectory).
\* The file of an upload whose COMMIT took effect only after the handler had
\* looked for its row is gone; such a row is never published without it.
PackagesKept ==
    \A r \in Releases :
      Live(r) /\ (r \in early => rows[r] = "published") =>
        {place[r], durable[r]} \subseteq {"path"} \cup (IF r \in Classic THEN {"trash"} ELSE {})

\* A backup fails for a missing file only if the file was missing when it
\* began: nothing that runs at the same time takes a file away (Backup).
BackupSound == backup.at = "failed" => backup.lost # {}

\* A package whose row says it exists is at its path or in the trash, wherever a
\* request or the machine has stopped, and a backup misses a file only if it was
\* missing when the backup began (UploadRelease, DeleteRelease, Backup).
PackagesSound == PackagesKept /\ BackupSound
=============================================================================
